CONSTANTS
  MaxTasks = 2
  MaxLen = 3
  MaxWay = 2
  MaxLoss = 1
  NoFileLimit = 1
SPECIFICATION Spec
INVARIANTS TypeOK CopyIsComplete
PROPERTIES LastIsJudged RunningIsKept UploadEnds
CHECK_DEADLOCK FALSE
