SPECIFICATION Spec
CONSTANTS
  r1 = r1
  r2 = r2
  Articles = 4
  Runner = {r1}
  Modes = {FALSE}
  PageSize = 1
  StopAfter = 2
  MaxArticles = 9
  Misshapen = {}
  LatePublish = FALSE
  Unpublish = "any time"
  Revert = FALSE
  MaxText = 1
  MaxFaults = 0
INVARIANT KnownIsOldest
