SPECIFICATION Spec
CONSTANTS
  r1 = r1
  r2 = r2
  hero = hero
  card = card
  og = og
  NoPack = NoPack
  Run = {r1}
  Slot = {hero, card, og}
  Packs <- OnePackEach
  MaxConcurrentPacks = 1
  DriftSlots <- Drifting
  Faults = {"provider", "exception", "database", "callback", "crash", "cancel", "no_r2"}
INVARIANTS OkRunIsSettled PublishedHasObject OneLiveRowPerSlot ConditionedAfterHero CallbackMatchesRows OkRunIsAccountedFor
PROPERTIES KeepsPromise
