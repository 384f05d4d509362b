SPECIFICATION Spec
CONSTANTS
  Articles = 2
  Cap = 2
  MaxPool = 1
  MaxRuns = 2
  Overlap = TRUE
  Scores = {1}
  Zero = 1
INVARIANT UserRowNeverAhead
