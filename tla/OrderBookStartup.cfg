CONSTANTS
  Users = {"u1", "u2"}
  Prices = {1, 2}
  Tickets <- OneSidedTickets
  MaxOrders = 3
  MaxSeconds = 2
  MaxFaults = 0
  MaxRestarts = 1
  CancelInFlight = FALSE
SPECIFICATION FairSpec
CHECK_DEADLOCK FALSE
 
PROPERTIES EverySettles ImplementsExchange
