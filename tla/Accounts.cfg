\* Orders, short sales, mortgages and the exchange.
CONSTANTS
  u1 = u1  u2 = u2
  Users = {u1, u2}
  Prices = {100, 120}
  Tickets <- MCTickets
  StartCash = 220
  StartExchange = 2
  StartBank = 2
  BorrowLimit = 2
  TaxPercents = {0, 25}
  Word = 10000
  MaxOrders = 3
  MaxDeals = 2
  MaxFaults = 1
  BankUpdates = 1
SPECIFICATION Spec
INVARIANTS TypeOK   StocksConserved PositionMatches
PROPERTY TradesMakeNoMoney
CHECK_DEADLOCK FALSE
