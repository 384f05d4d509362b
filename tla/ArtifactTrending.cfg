SPECIFICATION Spec
CONSTANTS
  Kind = "trending"
  Keys = 1
  Ttl = 12
  Cadence = 2
  MaxRun = 1
  MaxMissed = 4
  Mishaps = {"skip", "query", "nothing", "redis", "kill", "watch"}
  Lifetime = 13
INVARIANT TypeOK
PROPERTY OnlyExpiryRemoves
INVARIANT Survives
INVARIANT StampHonest
