----------------------------- MODULE MonitorProofs -----------------------------
(***************************************************************************)
(* Proofs about Monitor for any number of modules and any process ids.     *)
(*                                                                         *)
(* Shape needs no assumption: a running process is the one its table entry *)
(* names, hence no module runs twice.  Balance needs fork to succeed:      *)
(* there are as many children as entries that name a process, although     *)
(* they need not be the same processes once wait(NULL) has returned for    *)
(* another child than the one that was killed.  RetryAccount is inductive  *)
(* with the types: the retries used up form a set that grows by one pair   *)
(* with each failed check.                                                 *)
(***************************************************************************)
EXTENDS MonitorProps, FiniteSetTheorems, TLAPS

Entries == {m \in Modules : pid[m] > 0}

Shape ==
  /\ TypeOK
  /\ \A p \in Running : pid[alive[p]] = p
  /\ zombie \cap Running = {}
  /\ pc = "wait" => pid[n] > 0 /\ pid[n] \notin Running
  /\ pc = "fork" => pid[n] <= 0

\* Past the entries of the current pass, the table is complete.
Complete ==
  /\ pc \in {"setup", "wait", "fork"} => \A m \in Modules : m < n => pid[m] > 0
  /\ pc \in {"attach", "loop", "select", "check", "recv"} => \A m \in Modules : pid[m] > 0

Balance == Complete /\ Cardinality(Children) = Cardinality(Entries)

-----------------------------------------------------------------------------
(* Shape.                                                                  *)

\* A process id is never one of the special arguments 0 and -1 of waitpid.
LEMMA PidsArePositive == \A p \in Pids : p \in Nat /\ p > 0
  BY MonitorAssumption

\* After a start of the machine nothing runs.
LEMMA FreshTables ==
  /\ [m \in Modules |-> 0] \in [Modules -> Pids \cup {0, -1}]
  /\ [m \in Modules |-> MaxRetry] \in [Modules -> 0 .. MaxRetry]
  /\ [p \in Pids |-> 0] \in [Pids -> Modules \cup {0}]
  /\ 1 \in Modules
<1>1. MaxRetry \in 0 .. MaxRetry
  BY MonitorAssumption
<1>2. 1 \in Modules
  BY MonitorAssumption DEF Modules
<1> QED BY <1>1, <1>2

\* The end of a process keeps the table right about the others.
LEMMA ExitKeeps ==
  ASSUME Shape, NEW p \in Running, Exit(p), UNCHANGED pid
  PROVE  /\ alive' \in [Pids -> Modules \cup {0}]
         /\ zombie' \subseteq Pids
         /\ monitor_fd' \in {"closed", "unconnected", "connected", "eof"}
         /\ Running' = Running \ {p}
         /\ \A q \in Running' : pid'[alive'[q]] = q
         /\ zombie' \cap Running' = {}
         /\ Children' = Children
<1> USE DEF Shape, TypeOK, Running
<1>1. /\ alive' = [alive EXCEPT ![p] = 0] /\ zombie' = zombie \cup {p}
      /\ p \in Pids
  BY DEF Exit
<1>2. /\ alive' \in [Pids -> Modules \cup {0}]
      /\ zombie' \subseteq Pids
      /\ Running' = Running \ {p}
  BY <1>1
<1>3. monitor_fd' \in {"closed", "unconnected", "connected", "eof"}
  BY DEF Exit
<1>4. \A q \in Running' : alive'[q] = alive[q] /\ q \in Running
  BY <1>1
<1>5. Children' = Children
  BY <1>1, <1>2 DEF Children
<1> QED BY <1>1, <1>2, <1>3, <1>4, <1>5

\* Every step of the monitor, of its thread and of the modules keeps Shape.
LEMMA ShapeStep ==
  ASSUME Shape, [Next]_vars
  PROVE  Shape'
<1> USE MonitorAssumption
<1>1. TypeOK
  BY DEF Shape
<1>2. 1 \in Modules /\ \A m \in Modules : m < PROCESS_NUM => m + 1 \in Modules
  BY DEF Modules
<1>3. CASE KillOld
  <2>1. UNCHANGED <<pid, retry, ready, n, ret, failed, forkFailed>>
    BY <1>3 DEF KillOld, table, history
  <2>2. CASE pid[n] \in Running /\ Exit(pid[n]) /\ pc' = "wait"
    <3>1. Running' = Running \ {pid[n]}
      BY <2>1, <2>2, ExitKeeps
    <3>2. pid'[n'] \notin Running' /\ pid'[n'] > 0
      BY <2>1, <2>2, <3>1, PidsArePositive DEF Running
    <3> QED BY <2>1, <2>2, <3>2, ExitKeeps DEF Shape, TypeOK
  <2>3. CASE /\ pid[n] > 0 /\ pid[n] \notin Running
             /\ pc' = "wait" /\ UNCHANGED <<alive, zombie, monitor_fd>>
    BY <2>1, <2>3 DEF Shape, TypeOK, Running
  <2>4. CASE pid[n] <= 0 /\ pc' = "fork" /\ UNCHANGED <<alive, zombie, monitor_fd>>
    BY <2>1, <2>4 DEF Shape, TypeOK, Running
  <2> QED BY <1>3, <2>2, <2>3, <2>4 DEF KillOld, children
<1>4. CASE WaitAny
  <2>1. zombie' \subseteq zombie /\ UNCHANGED <<retry, alive, monitor_fd, ready, n, ret, failed, forkFailed>>
    BY <1>4 DEF WaitAny, history
  <2>2. pid' = [pid EXCEPT ![n] = 0] /\ pc' = "fork" /\ pid'[n] = 0
    BY <1>1, <1>4 DEF WaitAny, TypeOK
  <2>3. \A p \in Running : alive[p] # n
    BY <1>4 DEF WaitAny, Shape
  <2>4. \A p \in Running' : pid'[alive'[p]] = p
    BY <2>1, <2>2, <2>3, <1>1 DEF Shape, Running, TypeOK
  <2>5. TypeOK'
    BY <1>1, <2>1, <2>2 DEF TypeOK
  <2> QED BY <2>1, <2>2, <2>4, <2>5 DEF Shape, Running
<1>5. CASE Fork
  <2>1. /\ pid[n] <= 0 /\ pid[n] \notin Pids /\ n \in Modules
        /\ UNCHANGED <<retry, zombie, monitor_fd, ready, failed>>
    <3>1. pid[n] <= 0 /\ UNCHANGED <<retry, zombie, monitor_fd, ready, failed>>
      BY <1>5 DEF Fork, Shape
    <3>2. pid[n] \notin Pids
      <4>1. pid[n] \in Pids => pid[n] \in Nat /\ pid[n] > 0
        BY PidsArePositive
      <4> QED BY <3>1, <4>1
    <3> QED BY <1>1, <3>1, <3>2 DEF TypeOK
  <2>2. \A q \in Running : alive[q] # n
    BY <2>1 DEF Shape, Running
  <2>3. /\ n' \in Modules /\ ret' \in {"attach", "recv", "loop"}
        /\ pc' \in {"setup", "attach", "recv", "loop"} /\ forkFailed' \in BOOLEAN
    BY <1>1, <1>2, <1>5, <2>1 DEF Fork, NextEntry, Goto, TypeOK
  <2>4. ASSUME NEW p \in Pids \ Children, pid' = [pid EXCEPT ![n] = p],
               alive' = [alive EXCEPT ![p] = n]
        PROVE  Shape'
    <3>1. pid' \in [Modules -> Pids \cup {0, -1}] /\ alive' \in [Pids -> Modules \cup {0}]
      BY <1>1, <2>1, <2>4 DEF TypeOK
    <3>2. TypeOK'
      BY <1>1, <2>1, <2>3, <3>1 DEF TypeOK
    <3>3. Running' = Running \cup {p}
      BY <1>1, <2>1, <2>4 DEF Running, Modules, TypeOK
    <3>4. \A q \in Running' : pid'[alive'[q]] = q
      BY <1>1, <2>2, <2>4, <3>3 DEF Shape, Running, TypeOK, Children
    <3>5. zombie' \cap Running' = {}
      BY <2>1, <3>3 DEF Shape, Children
    <3> QED BY <2>3, <3>2, <3>4, <3>5 DEF Shape
  <2>5. CASE pid' = [pid EXCEPT ![n] = -1] /\ UNCHANGED alive
    <3>1. TypeOK'
      BY <1>1, <2>1, <2>3, <2>5 DEF TypeOK
    <3>2. \A q \in Running : pid'[alive[q]] = q
      BY <1>1, <2>2, <2>5 DEF Shape, Running, TypeOK
    <3> QED BY <2>1, <2>3, <2>5, <3>1, <3>2 DEF Shape, Running
  <2> QED BY <1>5, <2>4, <2>5 DEF Fork
<1>6. CASE Attach
  BY <1>2, <1>6 DEF Attach, Goto, Shape, TypeOK, Running, table, children, history
<1>7. CASE LoopTop
  BY <1>2, <1>7 DEF LoopTop, Setup, Goto, Shape, TypeOK, Running, table, children, history
<1>8. CASE Select
  BY <1>2, <1>8 DEF Select, Goto, Shape, TypeOK, Running, table, children, history
<1>9. CASE CheckProcess
  <2>1. UNCHANGED <<alive, monitor_fd, ready, forkFailed>> /\ zombie' \subseteq zombie
    BY <1>9 DEF CheckProcess
  <2>2. Running' = Running
    BY <2>1 DEF Running
  <2>3. PICK r \in waitpid(pid[n]) :
          \/ /\ r = pid[n] /\ retry[n] > 0
             /\ pid' = [pid EXCEPT ![n] = 0]
             /\ retry' = [retry EXCEPT ![n] = @ - 1]
             /\ failed' = failed + 1
             /\ Setup("recv")
          \/ /\ r = pid[n] /\ retry[n] = 0
             /\ pid' = [pid EXCEPT ![n] = 0]
             /\ Goto("reboot")
             /\ UNCHANGED <<retry, failed>>
          \/ /\ r # pid[n] /\ n < PROCESS_NUM
             /\ n' = n + 1
             /\ UNCHANGED <<table, pc, ret, failed>>
          \/ /\ r # pid[n] /\ n = PROCESS_NUM
             /\ retry' = [m \in Modules |-> MaxRetry]
             /\ failed' = 0
             /\ Goto("recv")
             /\ UNCHANGED pid
    BY <1>9 DEF CheckProcess, reset_monitor_database
  <2>4. r = pid[n] => pid[n] \notin Running
    <3>1. CASE pid[n] \in zombie
      BY <3>1 DEF Shape
    <3>2. CASE pid[n] \in Running
      <4>1. pid[n] \in Pids /\ pid[n] \notin zombie /\ pid[n] # 0
        BY <3>2 DEF Shape, Running
      <4> QED BY <3>2, <4>1 DEF waitpid
    <3> QED BY <3>1, <3>2
  <2>5. CASE r = pid[n]
    <3>1. pid' = [pid EXCEPT ![n] = 0] /\ pc' \in {"setup", "reboot"}
      BY <2>3, <2>5 DEF Setup, Goto
    <3>2. \A q \in Running : pid'[alive[q]] = q
      BY <1>1, <2>4, <2>5, <3>1 DEF Shape, Running, TypeOK
    <3>3. /\ retry' \in [Modules -> 0 .. MaxRetry] /\ failed' \in Nat
          /\ n' \in Modules /\ ret' \in {"attach", "recv", "loop"}
      BY <1>1, <1>2, <2>3, <2>5 DEF TypeOK, Setup, Goto
    <3>4. TypeOK'
      BY <1>1, <2>1, <3>1, <3>3 DEF TypeOK
    <3> QED BY <2>1, <2>2, <3>1, <3>2, <3>4 DEF Shape
  <2>6. CASE r # pid[n]
    <3>1. UNCHANGED pid /\ pc' \in {"check", "recv"}
      BY <1>9, <2>3, <2>6 DEF CheckProcess, table, Goto
    <3>2. /\ retry' \in [Modules -> 0 .. MaxRetry] /\ failed' \in Nat
          /\ n' \in Modules /\ ret' \in {"attach", "recv", "loop"}
      BY <1>1, <1>2, <2>3, <2>6 DEF TypeOK, Goto, table
    <3> QED BY <1>1, <2>1, <2>2, <3>1, <3>2 DEF Shape, TypeOK
  <2> QED BY <2>5, <2>6
<1>10. CASE Recv
  BY <1>2, <1>10 DEF Recv, Setup, Goto, Shape, TypeOK, Running, table, children, history
<1>11. CASE RebootHardware
  <2>1. Running' = {}
    BY <1>11 DEF RebootHardware, Running
  <2>2. TypeOK'
    BY <1>11, FreshTables DEF RebootHardware, Setup, TypeOK
  <2> QED BY <1>11, <2>1, <2>2 DEF RebootHardware, Setup, Shape
<1>12. CASE Connect
  BY <1>12 DEF Connect, Shape, TypeOK, Running, table, children, control, history
<1>13. CASE Die
  <2>1. PICK p \in Running : Exit(p)
    BY <1>13 DEF Die
  <2>2. UNCHANGED <<pid, retry, ready, pc, n, ret, failed, forkFailed>>
    BY <1>13 DEF Die, table, control, history
  <2> QED BY <2>1, <2>2, ExitKeeps DEF Shape, TypeOK
<1>14. CASE UNCHANGED vars
  BY <1>14 DEF vars, Shape, TypeOK, Running
<1> QED
  BY <1>3, <1>4, <1>5, <1>6, <1>7, <1>8, <1>9, <1>10, <1>11, <1>12, <1>13, <1>14
     DEF Next, MonitorStep

\* Shape holds when the monitor starts.
LEMMA ShapeInit == Init => Shape
<1> SUFFICES ASSUME Init PROVE Shape
  OBVIOUS
<1>1. Running = {}
  BY DEF Init, Running
<1>2. TypeOK
  BY FreshTables DEF Init, TypeOK
<1> QED BY <1>1, <1>2 DEF Init, Shape

\* The variables stay in their domains and every running process is the one
\* its table entry names.
THEOREM ShapeInvariance == Spec => []Shape
  BY ShapeInit, ShapeStep, PTL DEF Spec

\* The process table, the kernel's view of the children and the control state
\* of the monitor stay in their domains.
THEOREM TypesAreKept == Spec => []TypeOK
<1>1. Shape => TypeOK
  BY DEF Shape
<1> QED BY <1>1, ShapeInvariance, PTL

\* No module ever runs twice, whatever dies and whatever wait returns, also
\* when fork fails.
THEOREM NoSecondInstance == Spec => []SingleInstance
<1>1. Shape => SingleInstance
  BY DEF Shape, SingleInstance
<1> QED BY <1>1, ShapeInvariance, PTL
-----------------------------------------------------------------------------
(* Balance.                                                                *)

\* The children and the entries can be counted.
LEMMA ChildrenAreFinite ==
  ASSUME Shape
  PROVE  IsFiniteSet(Children) /\ IsFiniteSet(Running) /\ IsFiniteSet(Entries)
<1>1. Running \subseteq Pids /\ Children \subseteq Pids /\ Entries \subseteq Modules
  BY DEF Shape, TypeOK, Children, Running, Entries
<1>2. IsFiniteSet(Pids) /\ IsFiniteSet(Modules)
  BY MonitorAssumption, FS_Interval DEF Modules
<1> QED BY <1>1, <1>2, FS_Subset

\* With the balance kept, the process to be waited for is dead or some other
\* child is.
LEMMA SomeoneIsDead ==
  ASSUME Shape, Balance, pc = "wait"
  PROVE  zombie # {}
<1> SUFFICES ASSUME zombie = {} PROVE FALSE
  OBVIOUS
<1> DEFINE f == [p \in Running |-> alive[p]]
           T == Entries \ {n}
<1>1. n \in Entries /\ pid[n] \notin Running
  BY DEF Shape, TypeOK, Entries
<1>2. \A p \in Running : alive[p] \in Modules /\ pid[alive[p]] = p
  BY DEF Shape, TypeOK, Running
<1>3. \A p \in Running : alive[p] \in T
  <2> SUFFICES ASSUME NEW p \in Running PROVE alive[p] \in T
    OBVIOUS
  <2>1. p > 0 /\ alive[p] # n
    BY <1>1, <1>2, PidsArePositive DEF Running
  <2> QED BY <1>2, <2>1 DEF Entries
<1>4. f \in Injection(Running, T)
  BY <1>2, <1>3 DEF Injection, IsInjective
<1>5. IsFiniteSet(T) /\ IsFiniteSet(Entries)
  BY ChildrenAreFinite, FS_RemoveElement
<1>6. Cardinality(Running) <= Cardinality(T)
  BY <1>4, <1>5, FS_Injection
<1>7. Cardinality(T) = Cardinality(Entries) - 1
  BY <1>1, <1>5, FS_RemoveElement
<1>8. Cardinality(Entries) \in Nat /\ Cardinality(Running) \in Nat
  BY ChildrenAreFinite, FS_CardinalityType
<1>9. Running = Children
  BY DEF Children
<1> HIDE DEF T
<1> QED BY <1>6, <1>7, <1>8, <1>9 DEF Balance

\* An entry whose process is reaped, and the child that is reaped, go together.
LEMMA BothLoseOne ==
  ASSUME Shape, Shape', Cardinality(Children) = Cardinality(Entries),
         NEW z \in Children, Children' = Children \ {z},
         NEW m \in Entries, Entries' = Entries \ {m}
  PROVE  Cardinality(Children') = Cardinality(Entries')
<1>1. /\ Cardinality(Children') = Cardinality(Children) - 1
      /\ Cardinality(Entries') = Cardinality(Entries) - 1
  BY ChildrenAreFinite, FS_RemoveElement
<1> QED BY <1>1

\* A new child and the entry fork fills come together.
LEMMA BothGainOne ==
  ASSUME Shape, Shape', Cardinality(Children) = Cardinality(Entries),
         NEW z, z \notin Children, Children' = Children \cup {z},
         NEW m, m \notin Entries, Entries' = Entries \cup {m}
  PROVE  Cardinality(Children') = Cardinality(Entries')
<1>1. /\ Cardinality(Children') = Cardinality(Children) + 1
      /\ Cardinality(Entries') = Cardinality(Entries) + 1
  BY ChildrenAreFinite, FS_AddElement
<1> QED BY <1>1

\* As long as fork succeeds there are as many children as filled entries.
LEMMA BalanceStep ==
  ASSUME ~ forkFailed', Shape, Shape', Balance, [Next]_vars
  PROVE  Balance'
<1>1. /\ n \in Modules /\ n' \in Modules /\ pid \in [Modules -> Pids \cup {0, -1}]
      /\ 1 \in Modules /\ \A m \in Modules : m >= 1 /\ m \in Int
  BY MonitorAssumption DEF Shape, TypeOK, Modules
<1>2. ASSUME UNCHANGED pid, Children' = Children
      PROVE  Cardinality(Children') = Cardinality(Entries')
  BY <1>2 DEF Balance, Entries
<1>3. CASE KillOld
  <2>1. UNCHANGED <<pid, n>> /\ pc = "setup" /\ pc' \in {"wait", "fork"}
    BY <1>3 DEF KillOld, table
  <2>2. CASE pid[n] \in Running /\ Exit(pid[n])
    BY <1>2, <2>1, <2>2, ExitKeeps DEF Balance, Complete
  <2>3. CASE UNCHANGED <<alive, zombie>>
    <3>1. Children' = Children
      BY <2>3 DEF Children, Running
    <3> QED BY <1>2, <2>1, <3>1 DEF Balance, Complete
  <2> QED BY <1>3, <2>2, <2>3 DEF KillOld, children
<1>4. CASE WaitAny
  <2>1. PICK z \in zombie : zombie' = zombie \ {z}
    BY <1>4, SomeoneIsDead DEF WaitAny, Children
  <2>2. pid' = [pid EXCEPT ![n] = 0] /\ UNCHANGED <<alive, n>> /\ pc' = "fork"
    BY <1>4 DEF WaitAny
  <2>3. z \in Children /\ Children' = Children \ {z}
    BY <2>1, <2>2 DEF Children, Running, Shape
  <2>4. n \in Entries /\ Entries' = Entries \ {n}
    BY <1>1, <1>4, <2>2 DEF Entries, WaitAny, Shape
  <2>5. Complete'
    BY <1>1, <1>4, <2>2 DEF Balance, Complete, WaitAny
  <2> QED BY <2>3, <2>4, <2>5, BothLoseOne DEF Balance
<1>5. CASE Fork
  <2>1. PICK p \in Pids \ Children : /\ pid' = [pid EXCEPT ![n] = p]
                                     /\ alive' = [alive EXCEPT ![p] = n]
    BY <1>5 DEF Fork
  <2>2. pid[n] <= 0 /\ p > 0 /\ p \in Int /\ UNCHANGED zombie
    BY <1>5, PidsArePositive DEF Fork, Shape
  <2>3. Children' = Children \cup {p}
    BY <1>1, <2>1, <2>2 DEF Children, Running, Shape, TypeOK
  <2>4. n \notin Entries /\ Entries' = Entries \cup {n}
    <3>1. pid'[n] > 0 /\ \A m \in Modules : m # n => pid'[m] = pid[m]
      BY <1>1, <2>1, <2>2
    <3>2. n \notin Entries
      <4>1. pid[n] \in Int
        BY <1>1, PidsArePositive
      <4> QED BY <2>2, <4>1 DEF Entries
    <3> QED BY <1>1, <3>1, <3>2 DEF Entries
  <2>5. \A m \in Modules : m <= n => pid'[m] > 0
    BY <1>1, <1>5, <2>1, <2>2 DEF Balance, Complete, Fork
  <2>6. CASE n' = n + 1 /\ pc' = "setup"
    <3>1. Complete'
      BY <1>1, <2>5, <2>6 DEF Complete
    <3> QED BY <2>1, <2>3, <2>4, <3>1, BothGainOne DEF Balance
  <2>7. CASE n = PROCESS_NUM /\ n' = 1
    <3>1. \A m \in Modules : pid'[m] > 0
      BY <1>1, <2>5, <2>7 DEF Modules
    <3>2. Complete'
      BY <3>1 DEF Complete
    <3> QED BY <2>1, <2>3, <2>4, <3>2, BothGainOne DEF Balance
  <2> QED BY <1>5, <2>6, <2>7 DEF Fork, NextEntry, Goto
<1>6. ASSUME UNCHANGED <<pid, alive, zombie>>, Complete' PROVE Balance'
  BY <1>2, <1>6 DEF Balance, Children, Running
<1>7. CASE Attach
  BY <1>6, <1>7 DEF Attach, Goto, Balance, Complete, table, children
<1>8. CASE LoopTop
  <2>1. Complete'
    BY <1>1, <1>8 DEF LoopTop, Setup, Goto, Balance, Complete, table
  <2> QED BY <1>6, <1>8, <2>1 DEF LoopTop, table, children
<1>9. CASE Select
  BY <1>6, <1>9 DEF Select, Goto, Balance, Complete, table, children
<1>10. CASE CheckProcess
  <2>1. pid[n] > 0 /\ pid[n] \in Pids
    BY <1>1, <1>10 DEF CheckProcess, Balance, Complete
  <2>2. PICK r \in waitpid(pid[n]) :
          /\ zombie' = zombie \ {r}
          /\ \/ r = pid[n] /\ pid' = [pid EXCEPT ![n] = 0] /\ Setup("recv")
             \/ r = pid[n] /\ pid' = [pid EXCEPT ![n] = 0] /\ Goto("reboot")
             \/ r # pid[n] /\ UNCHANGED pid /\ (UNCHANGED pc \/ Goto("recv"))
    BY <1>10 DEF CheckProcess, table
  <2>3. (r = pid[n] /\ r \in zombie) \/ r \in {0, -1}
    BY <2>1 DEF waitpid
  <2>4. 0 \notin Pids /\ -1 \notin Pids
    BY PidsArePositive
  <2>5. UNCHANGED alive /\ pc = "check"
    BY <1>10 DEF CheckProcess
  <2>6. CASE r = pid[n]
    <3>1. r \in zombie /\ zombie' = zombie \ {r}
      BY <2>1, <2>2, <2>3, <2>4, <2>6
    <3>2. r \in Children /\ Children' = Children \ {r}
      BY <2>5, <3>1 DEF Children, Running, Shape
    <3>3. n \in Entries /\ Entries' = Entries \ {n}
      BY <1>1, <2>1, <2>2, <2>6 DEF Entries
    <3>4. Complete'
      BY <1>1, <2>2, <2>6 DEF Complete, Setup, Goto
    <3> QED BY <3>2, <3>3, <3>4, BothLoseOne DEF Balance
  <2>7. CASE r # pid[n]
    <3>1. zombie' = zombie
      BY <2>2, <2>3, <2>4, <2>7 DEF Shape, TypeOK
    <3>2. Complete'
      BY <2>2, <2>5, <2>7 DEF Balance, Complete, Goto
    <3> QED BY <1>6, <2>2, <2>5, <2>7, <3>1, <3>2
  <2> QED BY <2>6, <2>7
<1>11. CASE Recv
  <2>1. Complete'
    BY <1>1, <1>11 DEF Recv, Setup, Goto, Balance, Complete, table
  <2> QED BY <1>6, <1>11, <2>1 DEF Recv, table, children
<1>12. CASE RebootHardware
  <2>1. Children' = {} /\ Entries' = {}
    BY <1>12 DEF RebootHardware, Children, Running, Entries
  <2>2. Complete'
    BY <1>1, <1>12 DEF RebootHardware, Setup, Complete
  <2> QED BY <2>1, <2>2 DEF Balance
<1>13. CASE Connect
  BY <1>6, <1>13 DEF Connect, Balance, Complete, table, children, control
<1>14. CASE Die
  <2>1. PICK p \in Running : Exit(p)
    BY <1>14 DEF Die
  <2>2. UNCHANGED <<pid, pc, n>>
    BY <1>14 DEF Die, table, control
  <2> QED BY <1>2, <2>1, <2>2, ExitKeeps DEF Balance, Complete
<1>15. CASE UNCHANGED vars
  BY <1>6, <1>15 DEF vars, Balance, Complete
<1> QED
  BY <1>3, <1>4, <1>5, <1>7, <1>8, <1>9, <1>10, <1>11, <1>12, <1>13, <1>14, <1>15
     DEF Next, MonitorStep

\* After a reboot of the machine the balance is there again.
LEMMA BalanceReboot == RebootHardware => Balance'
<1> SUFFICES ASSUME RebootHardware PROVE Balance'
  OBVIOUS
<1>1. Children' = {} /\ Entries' = {}
  BY DEF RebootHardware, Children, Running, Entries
<1>2. Complete'
  BY DEF RebootHardware, Setup, Complete, Modules
<1> QED BY <1>1, <1>2 DEF Balance

\* A failing fork is remembered until the machine is rebooted.
LEMMA ForkFailedStays ==
  ASSUME TypeOK, [Next]_vars, ~ RebootHardware, forkFailed
  PROVE  forkFailed'
<1> QED
  BY DEF TypeOK, Next, MonitorStep, KillOld, WaitAny, Fork, Attach, LoopTop, Select,
         CheckProcess, Recv, Connect, Die, history, vars

\* As long as fork succeeds the monitor is never stuck in wait(NULL), although
\* it may have waited for the wrong child before: every entry it has yet to
\* wait for stands for a child it has not reaped.
THEOREM WatchGoesOn == Spec => []WatchNeverHangs
<1> DEFINE Inv == ~ forkFailed => Balance
<1>1. Init => Inv
  <2> SUFFICES ASSUME Init PROVE Balance
    OBVIOUS
  <2>1. Children = {} /\ Entries = {}
    BY DEF Init, Children, Running, Entries
  <2>2. Complete
    BY DEF Init, Complete, Modules
  <2> QED BY <2>1, <2>2 DEF Balance
<1>2. Shape /\ Shape' /\ Inv /\ [Next]_vars => Inv'
  <2> SUFFICES ASSUME Shape, Shape', Inv, [Next]_vars, ~ forkFailed' PROVE Balance'
    OBVIOUS
  <2>1. CASE RebootHardware
    BY <2>1, BalanceReboot
  <2>2. CASE ~ RebootHardware
    <3>1. ~ forkFailed
      BY <2>2, ForkFailedStays DEF Shape
    <3> QED BY <3>1, BalanceStep
  <2> QED BY <2>1, <2>2
<1>3. Shape /\ Inv => WatchNeverHangs
  BY SomeoneIsDead DEF WatchNeverHangs
<1> QED BY <1>1, <1>2, <1>3, ShapeInvariance, PTL DEF Spec

-----------------------------------------------------------------------------
(* The retries.                                                            *)

\* The table is the same, or has all its retries.
LEMMA AccountIsKept ==
  ASSUME RetryAccount, UNCHANGED <<retry, failed>>
  PROVE  RetryAccount'
BY DEF RetryAccount, UsedRetries

\* A table with all its retries has used none.
LEMMA NothingIsUsed ==
  ASSUME retry = [m \in Modules |-> MaxRetry], failed = 0
  PROVE  RetryAccount
<1>1. UsedRetries = {}
  BY MonitorAssumption DEF UsedRetries
<1> QED BY <1>1, FS_EmptySet DEF RetryAccount

\* The retries that can be used are as many as modules times MaxRetry.
LEMMA RetriesAreFinite ==
  /\ IsFiniteSet(UsedRetries)
  /\ Cardinality(UsedRetries) <= PROCESS_NUM * MaxRetry
<1> DEFINE S == Modules \X (1 .. MaxRetry)
<1>1. IsFiniteSet(Modules) /\ Cardinality(Modules) = PROCESS_NUM
  BY MonitorAssumption, FS_Interval DEF Modules
<1>2. IsFiniteSet(1 .. MaxRetry) /\ Cardinality(1 .. MaxRetry) = MaxRetry
  BY MonitorAssumption, FS_Interval
<1>3. IsFiniteSet(S) /\ Cardinality(S) = PROCESS_NUM * MaxRetry
  BY <1>1, <1>2, FS_Product
<1>4. UsedRetries \subseteq S
  BY DEF UsedRetries
<1> QED BY <1>3, <1>4, FS_Subset

\* A check that finds a dead module uses one retry more.
LEMMA OneIsUsed ==
  ASSUME Shape, RetryAccount, retry[n] > 0, retry' = [retry EXCEPT ![n] = @ - 1],
         failed' = failed + 1
  PROVE  RetryAccount'
<1> DEFINE u == <<n, retry[n]>>
<1>1. n \in Modules /\ retry \in [Modules -> 0 .. MaxRetry] /\ MaxRetry \in Nat
  BY MonitorAssumption DEF Shape, TypeOK
<1>2. /\ \A m \in Modules : retry[m] \in 0 .. MaxRetry
      /\ \A m \in Modules : retry'[m] = IF m = n THEN retry[n] - 1 ELSE retry[m]
  BY <1>1
<1>3. \A m \in Modules, i \in 1 .. MaxRetry :
        i > retry'[m] <=> i > retry[m] \/ (m = n /\ i = retry[n])
  BY <1>1, <1>2
<1>4. u \in Modules \X (1 .. MaxRetry) /\ u \notin UsedRetries
  BY <1>1, <1>2 DEF UsedRetries
<1>5. UsedRetries' = UsedRetries \cup {u}
  BY <1>3, <1>4 DEF UsedRetries
<1>6. Cardinality(UsedRetries') = Cardinality(UsedRetries) + 1
  BY <1>4, <1>5, RetriesAreFinite, FS_AddElement
<1> QED BY <1>6 DEF RetryAccount

\* The retries used up are the failed checks in a row, so a module that keeps
\* dying makes the monitor reboot the machine.
THEOREM RetriesAreCounted == Spec => []RetryAccount
<1>1. Init => RetryAccount
  BY NothingIsUsed DEF Init
<1>2. Shape /\ RetryAccount /\ [Next]_vars => RetryAccount'
  <2> SUFFICES ASSUME Shape, RetryAccount, [Next]_vars PROVE RetryAccount'
    OBVIOUS
  <2>1. CASE UNCHANGED <<retry, failed>>
    BY <2>1, AccountIsKept
  <2>2. CASE CheckProcess
    <3>1. CASE retry[n] > 0 /\ retry' = [retry EXCEPT ![n] = @ - 1] /\ failed' = failed + 1
      BY <3>1, OneIsUsed
    <3>2. CASE reset_monitor_database /\ failed' = 0
      BY <3>2, NothingIsUsed, FS_EmptySet, MonitorAssumption
      DEF reset_monitor_database, RetryAccount, UsedRetries
    <3> QED BY <2>1, <2>2, <3>1, <3>2 DEF CheckProcess, table
  <2>3. CASE RebootHardware
    BY <2>3, FS_EmptySet, MonitorAssumption DEF RebootHardware, RetryAccount, UsedRetries
  <2>4. CASE ~ CheckProcess /\ ~ RebootHardware
    BY <2>1, <2>4
    DEF Next, MonitorStep, KillOld, WaitAny, Fork, Attach, LoopTop, Select, Recv,
        Connect, Die, table, history, vars
  <2> QED BY <2>2, <2>3, <2>4
<1> QED BY <1>1, <1>2, ShapeInvariance, PTL DEF Spec

\* Modules that keep dying are started again PROCESS_NUM * MaxRetry times in a
\* row at most.
THEOREM RestartsAreBounded == Spec => [](failed <= PROCESS_NUM * MaxRetry)
<1>1. RetryAccount => failed <= PROCESS_NUM * MaxRetry
  BY RetriesAreFinite DEF RetryAccount
<1> QED BY <1>1, RetriesAreCounted, PTL
=============================================================================
