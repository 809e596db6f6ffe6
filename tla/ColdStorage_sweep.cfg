SPECIFICATION ColdFairSpec
CONSTANTS
  a1 = a1
  r1 = r1
  NoAsset = NoAsset
  Refused = {r1}
  Original = {a1}
  Request = {r1}
  Kinds = {"plain"}
  Permits = 1
  Inspector = {"unsupersede", "soft_delete"}
  Faults = {"exception", "database", "r2", "no_r2", "crash"}
INVARIANTS NoObjectLost ActiveStaysWarm
PROPERTIES OldRowsGoCold
