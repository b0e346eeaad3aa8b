CONSTANTS
  Users = {"u1", "u2", "u3"}
  Prices = {1, 2}
  Tickets <- LostTickets
  MaxOrders = 3
  MaxSeconds = 3
  MaxFaults = 0
  MaxRestarts = 0
  CancelInFlight = FALSE
SPECIFICATION Spec
CHECK_DEADLOCK FALSE
INVARIANT NothingLost
