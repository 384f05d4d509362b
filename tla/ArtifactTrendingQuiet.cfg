SPECIFICATION Spec
CONSTANTS
  Kind = "trending"
  Keys = 1
  Ttl = 12
  Cadence = 2
  MaxRun = 1
  MaxMissed = 6
  Mishaps = {"nothing"}
  Lifetime = 13
INVARIANT Survives
