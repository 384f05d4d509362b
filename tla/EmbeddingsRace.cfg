SPECIFICATION Spec
CONSTANTS
  r1 = r1
  r2 = r2
  Articles = 2
  Runner = {r1, r2}
  Modes = {FALSE, TRUE}
  PageSize = 2
  StopAfter = 2
  MaxArticles = 9
  Misshapen = {}
  LatePublish = FALSE
  Unpublish = "never"
  Revert = FALSE
  MaxText = 2
  MaxFaults = 0
INVARIANT SkippedIsEmbedded
