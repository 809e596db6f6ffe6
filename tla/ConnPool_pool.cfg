SPECIFICATION FairSpec
CONSTANTS
  Conn = {c1, c2}
  a = a
  b = b
  c = c
  Task = {a, b, c}
  Permits = 1
  Jobs <- SomeJobs
  Nobody = Nobody
INVARIANTS PoolSurvives
PROPERTY EveryTaskEnds
CHECK_DEADLOCK FALSE
