SPECIFICATION HistorySpec
CONSTANTS
  r1 = r1
  Articles = 3
  Runner = {r1}
  Modes = {FALSE, TRUE}
  PageSize = 1
  StopAfter = 1
  MaxArticles = 9
  Misshapen = {}
  LatePublish = TRUE
  Unpublish = "any time"
  Revert = TRUE
  MaxText = 2
  MaxFaults = 1
PROPERTY FullRunCatchesUp
