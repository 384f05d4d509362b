SPECIFICATION Spec
CONSTANTS
  Users = 2
  Articles = 3
  Today = 1
  HoldoutDays = 0
  NegRatio = 1
  MinExamples = 2
  MinGroups = 2
  ArticleDays = 0
  UserDays = 1
  K = 1
  MaxGrade = 2
  Scores = {0, 1}
  MaxInputs = 3
CHECK_DEADLOCK FALSE
INVARIANT TypeOK
INVARIANT NeverBoth
INVARIANT SampledPages
INVARIANT PagesIntact
INVARIANT HoldoutIsLater
INVARIANT FullMarks
