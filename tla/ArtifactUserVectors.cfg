SPECIFICATION Spec
CONSTANTS
  Kind = "user_embedding"
  Keys = 2
  Ttl = 4
  Cadence = 1
  MaxRun = 1
  MaxMissed = 6
  Mishaps = {"skip"}
  Lifetime = 4
INVARIANT StaleExpires
