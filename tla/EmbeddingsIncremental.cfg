SPECIFICATION Spec
CONSTANTS
  r1 = r1
  r2 = r2
  Articles = 4
  Runner = {r1}
  Modes = {FALSE}
  PageSize = 1
  StopAfter = 2
  MaxArticles = 9
  Misshapen = {}
  LatePublish = FALSE
  Unpublish = "between walks"
  Revert = FALSE
  MaxText = 2
  MaxFaults = 1
INVARIANT TypeOK
INVARIANT SkippedIsEmbedded
INVARIANT KnownIsOldest
PROPERTY NothingUsefulMissed
