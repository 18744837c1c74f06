----------------------------- MODULE MonitorProps -----------------------------
(***************************************************************************)
(* What the monitor promises about the modules of the system.              *)
(***************************************************************************)
EXTENDS Monitor

TypeOK ==
  /\ pid \in [Modules -> Pids \cup {0, -1}]
  /\ retry \in [Modules -> 0 .. MaxRetry]
  /\ alive \in [Pids -> Modules \cup {0}]
  /\ zombie \subseteq Pids
  /\ monitor_fd \in {"closed", "unconnected", "connected", "eof"}
  /\ ready \in {"no", "data", "hup"}
  /\ pc \in {"setup", "wait", "fork", "attach", "loop", "select", "check", "recv", "reboot"}
  /\ n \in Modules
  /\ ret \in {"attach", "recv", "loop"}
  /\ failed \in Nat
  /\ forkFailed \in BOOLEAN

\* The monitor is never stuck in wait(NULL).  The wait after kill(pid[i]) may
\* reap another module that has just died, so that a later entry names a
\* process that is gone; there is then always another dead child to wait for.
\* (As long as fork succeeds.)
WatchNeverHangs == pc = "wait" /\ ~ forkFailed => zombie # {} \/ Children = {}

\* No module ever runs twice, whichever child wait(NULL) returns for and in
\* whatever order the children die: two cores would share one socket.
SingleInstance ==
  \A p, q \in Running : alive[p] = alive[q] => p = q

\* One pair for each retry that a module has used up.
UsedRetries == {u \in Modules \X (1 .. MaxRetry) : u[2] > retry[u[1]]}

\* The retries used up are the failed checks in a row.  So the machine is
\* rebooted for a dying module only after MaxRetry restarts of the software
\* without a clean check in between, and after PROCESS_NUM * MaxRetry of them
\* at the latest.
RetryAccount == failed = Cardinality(UsedRetries)

\* Every module that is not running is started again ("polls the state of all
\* processes; when one is found abnormal it kills all of them and starts them
\* again in order", design document, module monitor).
Restarted ==
  \A m \in Modules :
    ~ (\E p \in Running : alive[p] = m) ~> (\E p \in Running : alive[p] = m)
=============================================================================
