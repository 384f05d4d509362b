SPECIFICATION Spec
CONSTANTS
  Kind = "als"
  Keys = 1
  Ttl = 4
  Cadence = 2
  MaxRun = 1
  MaxMissed = 0
  Mishaps = {}
  Lifetime = 5
PROPERTY OnlyExpiryRemoves
