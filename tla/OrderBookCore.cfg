CONSTANTS
  Users = {"u1", "u2"}
  Prices = {1, 2}
  Tickets <- CoreTickets
  MaxOrders = 3
  MaxSeconds = 3
  MaxFaults = 0
  MaxRestarts = 0
  CancelInFlight = TRUE
SPECIFICATION Spec
CHECK_DEADLOCK FALSE
INVARIANTS TypeOK HeldOnce NoOverfill TradeWithinLimits NotCrossed NothingLost
PROPERTIES ClosedNeverTrades Priority
