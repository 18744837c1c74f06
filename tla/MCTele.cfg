CONSTANTS
  none = none
  NULL = none
  Kinds <- Timed
  MaxTasks = 3
  MaxPolls = 2
  Settled = TRUE
  SameRound = FALSE
  DialRace = FALSE
SPECIFICATION Spec
INVARIANTS TypeOK  OnlineIsTrue
PROPERTY WaitEnds
