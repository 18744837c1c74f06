CONSTANTS
  PROCESS_NUM = 3
  MaxRetry = 2
  Pids = {1, 2, 3, 4}
  QuietSetup = FALSE
  ForkMayFail = TRUE
  FreshPids = FALSE
SPECIFICATION Spec
INVARIANTS
  TypeOK
  WatchNeverHangs
  
  RetryAccount
