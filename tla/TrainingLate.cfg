SPECIFICATION Spec
CONSTANTS
  Users = 2
  Articles = 2
  Today = 1
  HoldoutDays = 0
  NegRatio = 1
  MinExamples = 2
  MinGroups = 2
  ArticleDays = 0
  UserDays = 1
  K = 2
  MaxGrade = 1
  Scores = {0, 1}
  MaxInputs = 3
CHECK_DEADLOCK FALSE
INVARIANT NegativesWereIgnored
