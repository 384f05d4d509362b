SPECIFICATION Spec
CONSTANTS
  Kind = "trending"
  Keys = 1
  Ttl = 6
  Cadence = 1
  MaxRun = 0
  MaxMissed = 1
  Mishaps = {"watch"}
  Lifetime = 7
INVARIANT GaugeNeverYounger
