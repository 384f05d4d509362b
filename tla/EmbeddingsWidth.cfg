SPECIFICATION Spec
CONSTANTS
  r1 = r1
  r2 = r2
  Articles = 3
  Runner = {r1}
  Modes = {FALSE}
  PageSize = 2
  StopAfter = 2
  MaxArticles = 9
  Misshapen = {1}
  LatePublish = FALSE
  Unpublish = "never"
  Revert = FALSE
  MaxText = 1
  MaxFaults = 0
INVARIANT SkippedIsEmbedded
