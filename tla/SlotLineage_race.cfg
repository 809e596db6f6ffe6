SPECIFICATION FairSpec
CONSTANTS
  a1 = a1
  r1 = r1
  r2 = r2
  NoAsset = NoAsset
  Refused = {r1}
  Original = {a1}
  Request = {r1, r2}
  Kinds = {"plain", "mobile"}
  Permits = 1
  Inspector = {"unsupersede", "soft_delete"}
  Faults = {"provider", "exception", "crash", "no_r2"}
INVARIANTS PermitsBalance ReplacementIsActive OkRunReplacedItsTarget OkRunIsAccountedFor
PROPERTIES AcceptedRegenerationCloses SoftDeletedStaysDeleted
