CONSTANTS
  Modules = {"client", "gps", "trio"}
  Talks <- Pairs
  MaxSend = 2
  MaxEnds = 1
  MaxUnread = 1
  RecvSize = 2
SPECIFICATION Spec
INVARIANTS TypeOK
PROPERTIES RightReceiver InOrder WholeFrames RegistrationArrives
CHECK_DEADLOCK FALSE
