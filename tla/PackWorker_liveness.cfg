SPECIFICATION FairSpec
CONSTANTS
  r1 = r1
  r2 = r2
  hero = hero
  card = card
  og = og
  NoPack = NoPack
  Run = {r1, r2}
  Slot = {hero, card, og}
  Packs <- ContendingPacks
  MaxConcurrentPacks = 1
  DriftSlots <- Drifting
  Faults = {"provider", "exception", "callback"}
PROPERTIES SpawnedRunCloses PermitsComeBack
