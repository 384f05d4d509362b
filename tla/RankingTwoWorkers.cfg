SPECIFICATION Spec
CONSTANTS
  v1 = v1
  v2 = v2
  v3 = v3
  w1 = w1
  w2 = w2
  h1 = h1
  Version = {v1, v2, v3}
  Compatible = {v1, v2, v3}
  Worker = {w1, w2}
  Handler = {h1}
  Watching = FALSE
  Repoint = FALSE
  MaxMoves = 2
  MaxFaults = 0
PROPERTY ReloadTakesEffect
