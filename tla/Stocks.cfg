\* Two workers, two users, two prices.
CONSTANTS
  Workers = {w1, w2}
  Users = {1, 2}
  Prices = {2, 4}
  StartPrice = 2
  Count = 2
  Unit = 2
  InExchange = 1
  MaxUint = 9
  MaxJobs = 3
  MaxFaults = 1
SPECIFICATION Spec
INVARIANTS Agreement BoardMakesSense DividendsKept
 
CHECK_DEADLOCK FALSE
