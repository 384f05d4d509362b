SPECIFICATION Spec
CONSTANTS
  t1 = t1
  t2 = t2
  t3 = t3
  Trainer = {t1, t2, t3}
  Overlap = TRUE
  MaxMetric = 3
  MaxVersions = 3
  MaxFaults = 1
  MaxReadFaults = 1
CHECK_DEADLOCK FALSE
INVARIANT TypeOK
INVARIANT ChampionIsMeasured
INVARIANT ChampionIsBest
INVARIANT IInv
PROPERTY SerialPromotion
PROPERTY ImplementsAliasHistory
SYMMETRY Interchangeable
