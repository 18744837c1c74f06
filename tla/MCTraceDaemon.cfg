CONSTANTS
  MaxTraces = 2
  NULL = NULL
  MaxFrames = 2
  OpenFails = TRUE
SPECIFICATION Spec
INVARIANTS TypeOK NoUseAfterFree FilesInOrder
PROPERTIES FileIsClosed ListIsDrained
CHECK_DEADLOCK FALSE
