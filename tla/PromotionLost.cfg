SPECIFICATION Spec
CONSTANTS
  t1 = t1
  t2 = t2
  t3 = t3
  Trainer = {t1}
  Overlap = FALSE
  MaxMetric = 2
  MaxVersions = 3
  MaxFaults = 1
  MaxReadFaults = 0
CHECK_DEADLOCK FALSE
INVARIANT TrainedModelKept
