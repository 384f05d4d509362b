SPECIFICATION Spec
CONSTANTS
  Kind = "features"
  Keys = 2
  Ttl = 6
  Cadence = 1
  MaxRun = 1
  MaxMissed = 9
  Mishaps = {"skip", "query", "nothing", "redis", "kill", "watch"}
  Lifetime = 7
PROPERTY OnlyExpiryRemoves
INVARIANT StaleExpires
INVARIANT StampHonest
