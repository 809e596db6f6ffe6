SPECIFICATION Spec
CONSTANTS
  q1 = q1
  q2 = q2
  q3 = q3
  k1 = k1
  k2 = k2
  NoRun = NoRun
  Request = {q1, q2, q3}
  Key = {k1, k2}
  Routes = {"pack", "preview", "live_hero", "corpus_hero", "typed_hero"}
  Faults = {"provider", "exception", "database", "crash"}
INVARIANTS VerdictStands NamedRunsExist
PROPERTIES KeepsKeys
SYMMETRY Symmetry
