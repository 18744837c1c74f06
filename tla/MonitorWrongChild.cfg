CONSTANTS
  PROCESS_NUM = 3
  MaxRetry = 1
  Pids = {1, 2, 3, 4, 5}
  QuietSetup = FALSE
  ForkMayFail = FALSE
  FreshPids = TRUE
SPECIFICATION Spec
PROPERTY Restarted
