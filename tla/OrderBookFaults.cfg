CONSTANTS
  Users = {"u1", "u2"}
  Prices = {1, 2}
  Tickets <- FaultTickets
  MaxOrders = 3
  MaxSeconds = 3
  MaxFaults = 1
  MaxRestarts = 1
  CancelInFlight = FALSE
SPECIFICATION Spec
CHECK_DEADLOCK FALSE
PROPERTIES StartupRepairs
