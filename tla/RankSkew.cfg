SPECIFICATION Spec
CONSTANTS
  Articles = 2
  Cap = 2
  MaxPool = 2
  MaxRuns = 2
  Overlap = FALSE
  Scores = {1}
  Zero = 1
INVARIANT OnlineIsOffline
