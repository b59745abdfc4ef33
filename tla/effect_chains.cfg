SPECIFICATION Spec
CONSTANT Programs <- EffectPrograms
INVARIANTS
  EffectsReachEveryCaller
CHECK_DEADLOCK FALSE
