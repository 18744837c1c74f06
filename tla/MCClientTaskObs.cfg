CONSTANTS
  a = a
  b = b
  c = c
  Zero = Zero
  Tasks = {a, b, c}
  QueueSize = 2
  Start <- MCStart
  Stop <- MCStop
  Trio0 = {a, c}
  LongCall = {}
  NoFileLimit = 1
  MaxTime = 4
  GroundOrdered = FALSE
  TraceFileKept = FALSE
SPECIFICATION SpecObs
INVARIANTS
  TypeOK
  NoOverlap
  UniqueIds
  VoidIsZero
  StopConfirmed
PROPERTIES
  FirstReasonTrue
  UploadOneAtATime
