SPECIFICATION FairSpec
CONSTANTS
  d = d
  m = m
  v1 = v1
  v2 = v2
  v3 = v3
  NoRun = NoRun
  Run = {d, m}
  Variant = {v1, v2}
  Starts <- BothStarts
  Prompt <- SamePrompt
  Watched = {m}
  Lab = {d}
  Limits = {1, 2}
  Faults = {"provider", "exception", "database", "crash", "supersede"}
INVARIANTS PermitHolds
PROPERTIES ClosedRunIsQuiet KeepsTriadPromise EveryTriadEnds OrphansAreClosed
