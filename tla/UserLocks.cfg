CONSTANTS
  Users = {1, 2}
  Procs = {p1, p2, p3}
  None = None
  Calls = {"pair", "copy", "logout"}
  MaxFaults = 1
SPECIFICATION FairSpec
INVARIANTS MutualExclusion EveryUpdateCounts
PROPERTIES EveryCallEnds
