CONSTANTS
  a = a
  b = b
  c = c
  Zero = Zero
  Tasks = {a, b, c}
  QueueSize = 2
  Start <- MCStart
  Stop <- MCStop
  Trio0 = {a, b, c}
  LongCall = {b}
  NoFileLimit = 1
  MaxTime = 4
  GroundOrdered = TRUE
  TraceFileKept = TRUE
SPECIFICATION Spec
INVARIANT StartConfirmed
PROPERTY LifecycleSpec
