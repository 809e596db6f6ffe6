SPECIFICATION Spec
CONSTANTS
  Slots = 3
  Ordinals <- SomeOrdinals
  NoCall = NoCall
INVARIANTS ImagesAreBilled FailedSlotsWereRetried
CHECK_DEADLOCK FALSE
