CONSTANTS
  a = a
  c = c
  Zero = Zero
  Tasks = {a, c}
  QueueSize = 2
  Start <- MCStart
  Stop <- MCStop
  Trio0 = {a, c}
  LongCall = {}
  NoFileLimit = 1
  MaxTime = 3
  GroundOrdered = TRUE
  TraceFileKept = TRUE
  MaxLoss = 0
  MaxRestarts = 1
SPECIFICATION SpecGround
PROPERTY EveryTaskLeaves
