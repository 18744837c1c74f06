CONSTANTS
  MaxWire = 4
  CreateFails = TRUE
SPECIFICATION Spec
INVARIANTS TypeOK OneConnector FramesAreWhole
PROPERTIES AnsweredLinkIsKept LinkComesBack SilentLinkIsReplaced
