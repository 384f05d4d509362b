SPECIFICATION Spec
CONSTANTS
  Articles = 2
  Cap = 2
  MaxPool = 3
  MaxRuns = 2
  Overlap = FALSE
  Scores = {0, 2}
  Zero = 1
INVARIANT DescendingScores
