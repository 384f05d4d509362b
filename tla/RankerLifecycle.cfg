SPECIFICATION Spec
CONSTANTS
  t1 = t1
  t2 = t2
  w1 = w1
  w2 = w2
  Trainer = {t1, t2}
  Overlap = TRUE
  MaxMetric = 2
  MaxVersions = 2
  MaxFaults = 0
  MaxReadFaults = 0
  Worker = {w1}
  Handler = {}
  Compatible = {1, 2}
  Watching = TRUE
  MaxCallFaults = 1
CHECK_DEADLOCK FALSE
INVARIANT TypeOK
PROPERTY ImplementsService
PROPERTY ServedNeverWorse
PROPERTY WinnerServed
