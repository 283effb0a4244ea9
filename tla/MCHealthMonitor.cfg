CONSTANTS
  Target = {t1, t2}
  NoTarget = NoTarget
  Threshold = 3
  MaxFails = 3
  MaxNotices = 1
SPECIFICATION Spec
INVARIANTS
  TypeOK
  BreakerConsistent
  OpenMeansThreeFailures
  EveryFlipAnnouncedOnce
PROPERTIES
  BreakerRecloses
  ImplementsBreaker
