SPECIFICATION Spec
CONSTANTS
  v1 = v1
  v2 = v2
  v3 = v3
  w1 = w1
  w2 = w2
  Version = {v1, v2, v3}
  Repoint = FALSE
  MaxMoves = 2
  Worker = {w1, w2}
  Handler = {}
  Compatible = {v1, v3}
  Watching = TRUE
  MaxFaults = 1
PROPERTY PromotionPickedUp
