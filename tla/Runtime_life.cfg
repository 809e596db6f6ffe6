SPECIFICATION FairSpec
CONSTANTS
  a = a
  b = b
  c = c
  NoPool = NoPool
  Request = {a, b}
  MaxLoops = 2
  Permits = 1
  Faults = {"database", "r2", "provider", "crash"}
INVARIANTS PublishedIsStored RequestsHaveTheirPool SweepHasItsClients
PROPERTIES ServedRunsAreClosed StopEnds
