CONSTANTS
  MaxSubs = 2
  MaxConns = 2
  Senders = {p1}
  Run = Run
  MaxBroken = 1
  MaxGroups = 2
  MaxSends = 1
  MaxChanges = 1
SPECIFICATION StreamsSpec
INVARIANTS ListenersReached ViewRight
PROPERTY UpdatesEnd
CHECK_DEADLOCK FALSE
