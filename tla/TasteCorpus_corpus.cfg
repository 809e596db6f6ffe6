SPECIFICATION Spec
CONSTANTS
  hvac = hvac
  repair = repair
  home = home
  general = general
  r1 = r1
  seed = seed
  a = a
  b = b
  i = i
  j = j
  Slug <- Two
  Place <- Places
  Label = {home, general}
  General = general
  LabelOf <- Home
  Run = {r1}
  SlugOf <- One
  Turn <- First
  Index = {i, j}
  Uploads <- AllOrOne
  Seed = seed
  Version <- Strings
  Major <- UpToDot
  Request = {a, b}
  Wants <- Asked
  CacheSize = 2
  Nobody = Nobody
  Grid = Grid
  MaxImports = 1
  Faults = {"eval", "inspector", "import", "service"}
INVARIANTS GivenTriadIsWhole CachesAreRefreshed OnlyApprovedImages
PROPERTIES CompleteStaysComplete GridShowsWhatIsServed
SYMMETRY Indices
CHECK_DEADLOCK FALSE
