------------------------------- MODULE Monitor -------------------------------
(***************************************************************************)
(* The monitor process: it starts the modules of the system in a fixed     *)
(* order, polls them, restarts all of them when one has died, and reboots  *)
(* the machine when a module keeps dying (monitor/monitor_event.c and      *)
(* monitor/monitor_connection.c).                                          *)
(*                                                                         *)
(* The modules are its children.  setup_all_process is split at its system *)
(* calls, because a module may die between any two of them: kill, wait     *)
(* (which returns for ANY dead child) and fork.  pc is the call the monitor*)
(* is about to make, n the entry of the process table it is at, and ret    *)
(* where setup_all_process returns to.                                     *)
(***************************************************************************)
EXTENDS Integers, FiniteSets

CONSTANTS
  PROCESS_NUM,  \* number of modules; module 1 is core
  MaxRetry,     \* retries of a module before the machine is rebooted (3)
  Pids,         \* the process ids the kernel can give
  QuietSetup,   \* TRUE: no module dies by itself during setup_all_process
  ForkMayFail,  \* TRUE: fork may return -1
  FreshPids     \* TRUE: an id is not given again while the table holds it

ASSUME MonitorAssumption ==
  /\ PROCESS_NUM \in Nat \ {0}
  /\ MaxRetry \in Nat
  /\ Pids \subseteq Nat \ {0} /\ IsFiniteSet(Pids)
  /\ QuietSetup \in BOOLEAN
  /\ ForkMayFail \in BOOLEAN
  /\ FreshPids \in BOOLEAN

VARIABLES
  pid, retry,   \* the process table
  alive,        \* the module each process runs, 0 if it does not run
  zombie,       \* the dead children that have not been waited for
  monitor_fd,   \* the connection to core
  ready,        \* what select found at monitor_fd: nothing ("no"), data, or
                \* that it is not connected ("hup")
  pc, n, ret,   \* the control state of the monitor
  failed,       \* history: failed checks since the last check that found
                \* every module, or the last reboot of the machine
  forkFailed    \* history: fork has failed since the last reboot

table    == <<pid, retry>>
children == <<alive, zombie>>
control  == <<pc, n, ret>>
history  == <<failed, forkFailed>>
vars     == <<pid, retry, alive, zombie, monitor_fd, ready, pc, n, ret, failed, forkFailed>>

Modules  == 1 .. PROCESS_NUM
Core     == 1
Running  == {p \in Pids : alive[p] # 0}
Children == Running \cup zombie

Setup(to) == pc' = "setup" /\ n' = 1 /\ ret' = to
Goto(to)  == pc' = to /\ n' = 1 /\ UNCHANGED ret

-----------------------------------------------------------------------------
(* The kernel.                                                             *)

\* Process p ends: it becomes a zombie, and if it is core the monitor's
\* connection is closed by the other side.
Exit(p) ==
  /\ alive' = [alive EXCEPT ![p] = 0]
  /\ zombie' = zombie \cup {p}
  /\ monitor_fd' = IF alive[p] = Core /\ monitor_fd = "connected" THEN "eof" ELSE monitor_fd

\* Mutant: any child is waited for.
waitpid_any(p) == IF zombie # {} THEN zombie ELSE IF Running # {} THEN {0} ELSE {-1}

\* The possible results of waitpid(p, NULL, WNOHANG); 0 and -1 stand for any child.
waitpid(p) ==
  IF p \in Pids
  THEN IF p \in zombie THEN {p} ELSE IF p \in Running THEN {0} ELSE {-1}
  ELSE IF zombie # {} THEN zombie ELSE IF Running # {} THEN {0} ELSE {-1}

-----------------------------------------------------------------------------
(* setup_all_process.                                                      *)

\* Mutant: the old process is forgotten.
KillOld_forgets ==
  /\ pc = "setup"
  /\ pc' = "fork"
  /\ UNCHANGED <<table, children, monitor_fd, ready, n, ret, history>>

\* kill(pid, SIGILL), of a process that may be gone already.
KillOld ==
  /\ pc = "setup"
  /\ \/ /\ pid[n] \in Running
        /\ Exit(pid[n])
        /\ pc' = "wait"
     \/ /\ pid[n] > 0 /\ pid[n] \notin Running
        /\ pc' = "wait"
        /\ UNCHANGED <<children, monitor_fd>>
     \/ /\ pid[n] <= 0
        /\ pc' = "fork"
        /\ UNCHANGED <<children, monitor_fd>>
  /\ UNCHANGED <<table, ready, n, ret, history>>

\* wait(NULL): blocks while there are children and none of them is dead.
WaitAny ==
  /\ pc = "wait"
  /\ \/ \E z \in zombie : zombie' = zombie \ {z}
     \/ Children = {} /\ UNCHANGED zombie
  /\ pid' = [pid EXCEPT ![n] = 0]
  /\ pc' = "fork"
  /\ UNCHANGED <<retry, alive, monitor_fd, ready, n, ret, history>>

\* Mutants: the loop runs one entry too far, or stops one entry early.
NextEntry_over ==
  \/ n <= PROCESS_NUM /\ n' = n + 1 /\ pc' = "setup" /\ UNCHANGED ret
  \/ n > PROCESS_NUM /\ Goto(ret)
NextEntry_under ==
  \/ n < PROCESS_NUM - 1 /\ n' = n + 1 /\ pc' = "setup" /\ UNCHANGED ret
  \/ n >= PROCESS_NUM - 1 /\ Goto(ret)

\* The next entry, or the return of setup_all_process.
NextEntry ==
  \/ n < PROCESS_NUM /\ n' = n + 1 /\ pc' = "setup" /\ UNCHANGED ret
  \/ n = PROCESS_NUM /\ Goto(ret)

Fork ==
  /\ pc = "fork"
  /\ \/ \E p \in Pids \ Children :
          /\ FreshPids => \A m \in Modules : pid[m] # p
          /\ pid' = [pid EXCEPT ![n] = p]
          /\ alive' = [alive EXCEPT ![p] = n]
          /\ UNCHANGED forkFailed
     \/ /\ ForkMayFail
        /\ pid' = [pid EXCEPT ![n] = -1]
        /\ forkFailed' = TRUE
        /\ UNCHANGED alive
  /\ NextEntry
  /\ UNCHANGED <<retry, zombie, monitor_fd, ready, failed>>

-----------------------------------------------------------------------------
(* The event loop.                                                         *)

\* attach_monitor_server: a thread opens monitor_fd ...
Attach ==
  /\ pc = "attach"
  /\ monitor_fd' = "unconnected"
  /\ Goto("select")
  /\ UNCHANGED <<table, children, ready, history>>

\* ... and connects it to core, whatever the event loop does meanwhile.
Connect ==
  /\ monitor_fd = "unconnected"
  /\ \E p \in Running : alive[p] = Core
  /\ monitor_fd' = "connected"
  /\ UNCHANGED <<table, children, ready, control, history>>

\* The top of the loop: without a connection everything is started again.
LoopTop ==
  /\ pc = "loop"
  /\ \/ monitor_fd = "closed" /\ Setup("attach")
     \/ monitor_fd # "closed" /\ Goto("select")
  /\ UNCHANGED <<table, children, monitor_fd, ready, history>>

\* A descriptor that is not connected, or whose peer is gone, is readable too.
Select ==
  /\ pc = "select"
  /\ ready' \in IF monitor_fd = "connected" THEN {"no", "data"} ELSE {"hup"}
  /\ Goto("check")
  /\ UNCHANGED <<table, children, monitor_fd, history>>

\* Mutant: the retries of core are not given back.
reset_monitor_database_core ==
  retry' = [m \in Modules |-> IF m = Core THEN retry[m] ELSE MaxRetry]
reset_monitor_database == retry' = [m \in Modules |-> MaxRetry]

\* check_all_process at entry n.  After waitpid(pid, ...) = pid everything is
\* started again, or the machine is rebooted; after the last entry every
\* module has all its retries again.
CheckProcess ==
  /\ pc = "check"
  /\ \E r \in waitpid(pid[n]) :
       /\ zombie' = zombie \ {r}
       /\ \/ /\ r = pid[n] /\ retry[n] > 0
             /\ pid' = [pid EXCEPT ![n] = 0]
             /\ retry' = [retry EXCEPT ![n] = @ - 1]
             /\ failed' = failed + 1
             /\ Setup("recv")
          \/ /\ r = pid[n] /\ retry[n] = 0
             /\ pid' = [pid EXCEPT ![n] = 0]
             /\ Goto("reboot")
             /\ UNCHANGED <<retry, failed>>
          \/ /\ r # pid[n] /\ n < PROCESS_NUM
             /\ n' = n + 1
             /\ UNCHANGED <<table, pc, ret, failed>>
          \/ /\ r # pid[n] /\ n = PROCESS_NUM
             /\ reset_monitor_database
             /\ failed' = 0
             /\ Goto("recv")
             /\ UNCHANGED pid
  /\ UNCHANGED <<alive, monitor_fd, ready, forkFailed>>

\* clients_data_changed, recv_monitor_server, process_monitor_event: a command
\* may start everything again or reboot the machine.  Without data, recv fails,
\* also when the thread has connected the descriptor in the meantime.
Recv ==
  /\ pc = "recv"
  /\ \/ /\ ready = "data"
        /\ Setup("loop") \/ Goto("reboot") \/ Goto("loop")
        /\ UNCHANGED monitor_fd
     \/ /\ ready = "hup"
        /\ monitor_fd' = "closed"
        /\ Goto("loop")
     \/ /\ ready = "no"
        /\ Goto("loop")
        /\ UNCHANGED monitor_fd
  /\ UNCHANGED <<table, children, ready, history>>

\* reboot_hardware: the machine comes up again and the monitor with it.
RebootHardware ==
  /\ pc = "reboot"
  /\ pid' = [m \in Modules |-> 0]
  /\ retry' = [m \in Modules |-> MaxRetry]
  /\ alive' = [p \in Pids |-> 0]
  /\ zombie' = {}
  /\ monitor_fd' = "closed"
  /\ ready' = "no"
  /\ Setup("attach")
  /\ failed' = 0
  /\ forkFailed' = FALSE

-----------------------------------------------------------------------------
(* A module dies by itself, or cannot be executed.                         *)

Die ==
  /\ QuietSetup => pc \notin {"setup", "wait", "fork"}
  /\ \E p \in Running : Exit(p)
  /\ UNCHANGED <<table, ready, control, history>>

MonitorStep ==
  \/ KillOld \/ WaitAny \/ Fork
  \/ Attach \/ LoopTop \/ Select \/ CheckProcess \/ Recv
  \/ RebootHardware

Init ==
  /\ pid = [m \in Modules |-> 0]
  /\ retry = [m \in Modules |-> MaxRetry]
  /\ alive = [p \in Pids |-> 0]
  /\ zombie = {}
  /\ monitor_fd = "closed"
  /\ ready = "no"
  /\ pc = "setup" /\ n = 1 /\ ret = "attach"
  /\ failed = 0
  /\ forkFailed = FALSE

Next == MonitorStep \/ Connect \/ Die

Spec == Init /\ [][Next]_vars /\ WF_vars(MonitorStep) /\ WF_vars(Connect)
=============================================================================
