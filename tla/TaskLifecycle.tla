---------------------------- MODULE TaskLifecycle ----------------------------
(***************************************************************************)
(* What the client's task queue promises to the ground: a calendar of test *)
(* windows that never clash, in which every task goes once through queued, *)
(* running, stopped and uploading, and is forgotten only before it has run *)
(* or after its data have been uploaded.                                   *)
(***************************************************************************)
EXTENDS Integers

CONSTANTS Tasks, Start, Stop

VARIABLE life   \* the phase of each task

Phases == {"absent", "queued", "running", "stopped", "uploading"}

Clash(k, m) == ~ (Stop[k] < Start[m] \/ Start[k] > Stop[m])

Init == life = [k \in Tasks |-> "absent"]

Move(k, from, to) ==
  /\ life[k] = from
  /\ life' = [life EXCEPT ![k] = to]

Book(k) ==
  /\ Move(k, "absent", "queued")
  /\ \A m \in Tasks : life[m] # "absent" => ~ Clash(k, m)

Begin(k)    == Move(k, "queued", "running")
End(k)      == Move(k, "running", "stopped")
Explain(k)  == Move(k, "stopped", "uploading")
Finish(k)   == Move(k, "uploading", "absent")
Withdraw(k) == Move(k, "queued", "absent")

Next == \E k \in Tasks :
  Book(k) \/ Begin(k) \/ End(k) \/ Explain(k) \/ Finish(k) \/ Withdraw(k)

Spec == Init /\ [][Next]_life
=============================================================================
