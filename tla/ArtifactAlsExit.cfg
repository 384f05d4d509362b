SPECIFICATION Spec
CONSTANTS
  Kind = "als"
  Keys = 2
  Ttl = 4
  Cadence = 2
  MaxRun = 1
  MaxMissed = 1
  Mishaps = {"redis"}
  Lifetime = 5
INVARIANT ExitOneTouchesNothing
