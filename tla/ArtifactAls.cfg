SPECIFICATION Spec
CONSTANTS
  Kind = "als"
  Keys = 2
  Ttl = 4
  Cadence = 2
  MaxRun = 1
  MaxMissed = 3
  Mishaps = {"skip", "query", "nothing", "watch"}
  Lifetime = 5
INVARIANT StaleExpires
PROPERTY OneGapAtATime
