SPECIFICATION Spec
CONSTANTS
  v1 = v1
  v2 = v2
  v3 = v3
  w1 = w1
  h1 = h1
  Version = {v1, v2, v3}
  Compatible = {v1, v3}
  Worker = {w1}
  Handler = {h1}
  Watching = TRUE
  Repoint = FALSE
  MaxMoves = 2
  MaxFaults = 1
PROPERTY MissingMeansNoAlias
