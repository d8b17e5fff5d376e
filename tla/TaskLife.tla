------------------------------- MODULE TaskLife -------------------------------
(***************************************************************************)
(* What the task chain promises about a task, whatever threads, blocks,    *)
(* releases and restarts it goes through: it is planned, opened, sent back *)
(* a bounded number of times, and ends once, done or given up; and what is *)
(* given up may have a successor, which goes on counting where it stopped. *)
(***************************************************************************)
EXTENDS Naturals

CONSTANTS
  Task,       (* tasks there may be                                         *)
  Threshold   (* how often a task may be sent back                          *)

VARIABLE life

Stage(stage, tries) == [stage |-> stage, tries |-> tries]

In(t, stage) == life[t].stage = stage
Put(t, stage, tries) == life' = [life EXCEPT ![t] = Stage(stage, tries)]

Open(t)     == In(t, "planned") /\ Put(t, "open", life[t].tries)
SendBack(t) == In(t, "open") /\ life[t].tries < Threshold /\ Put(t, "open", life[t].tries + 1)
GiveUp(t)   == In(t, "open") /\ life[t].tries >= Threshold /\ Put(t, "escalated", life[t].tries + 1)
Finish(t)   == In(t, "open") /\ Put(t, "done", life[t].tries)
Succeed(t, u) == In(t, "escalated") /\ In(u, "absent") /\ Put(u, "planned", life[t].tries)

Init == life \in [Task -> {Stage("absent", 0), Stage("planned", 0)}]
Next ==
  \/ \E t \in Task : Open(t) \/ SendBack(t) \/ GiveUp(t) \/ Finish(t)
  \/ \E t, u \in Task : Succeed(t, u)
Spec == Init /\ [][Next]_life
=============================================================================
