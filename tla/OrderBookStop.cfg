CONSTANTS
  Users = {"u1", "u2", "u3"}
  Prices = {1, 2, 3}
  Tickets <- StopTickets
  MaxOrders = 4
  MaxSeconds = 1
  MaxFaults = 0
  MaxRestarts = 0
  CancelInFlight = FALSE
SPECIFICATION Spec
CHECK_DEADLOCK FALSE
PROPERTIES TriggersAll
