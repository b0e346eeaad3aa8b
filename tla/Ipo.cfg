\* Two bidders for one slot, two requests at once, two administrators.
CONSTANTS
  Users = {u1,u2}
  Requests = {r1,r2}
  Admins = {a1,a2}
  SlotPrice = 1
  SlotQuantity = 1
  StocksPerSlot = 2
  StockPrice = 100
  StartCash = 2
  Word = 16
  MaxBids = 2
  MaxListed = 2
  MaxWorking = 2
  MaxFaults = 1
SPECIFICATION Spec
INVARIANTS MoneyAccounted  AllSettled
PROPERTY AllotmentEnds
CHECK_DEADLOCK FALSE
