------------------------------ MODULE WorkItems ------------------------------
(***************************************************************************)
(* What the kernel promises about a piece of work, whatever todos, leases  *)
(* and attempts it takes: it is queued, held by one worker at a time, may  *)
(* be given back, reworked a bounded number of times or wait for the user, *)
(* and ends once, done or dropped.                                         *)
(***************************************************************************)
EXTENDS Naturals

CONSTANTS
  Item,     (* pieces of work                                               *)
  Worker,   (* who works on them                                            *)
  Nobody,   (* no worker                                                    *)
  Reworks   (* how often a piece of work may be reworked                    *)

VARIABLE items

Fresh(state) == [state |-> state, by |-> Nobody, reworked |-> 0]

(* Several pieces of work may move in one step, each as its own state      *)
(* allows.                                                                 *)
In(i, states) == items[i].state \in states
Put(i, state) == items'[i] = [items[i] EXCEPT !.state = state, !.by = Nobody]

Create(i) == In(i, {"absent"}) /\ items'[i] = Fresh("queued")
Take(i)   == In(i, {"queued"})
             /\ \E w \in Worker : items'[i] = [items[i] EXCEPT !.state = "held", !.by = w]
GiveBack(i) == In(i, {"held"}) /\ Put(i, "queued")
Rework(i) == /\ In(i, {"held"}) /\ items[i].reworked < Reworks
             /\ items'[i] = [state |-> "queued", by |-> Nobody,
                             reworked |-> items[i].reworked + 1]
Park(i)   == In(i, {"held"}) /\ Put(i, "waiting")
Resume(i) == In(i, {"waiting"}) /\ Put(i, "queued")
Finish(i) == In(i, {"held"}) /\ Put(i, "done")
Drop(i)   == In(i, {"queued", "waiting"}) /\ Put(i, "dropped")

Move(i) ==
  \/ Create(i) \/ Take(i) \/ GiveBack(i) \/ Rework(i)
  \/ Park(i) \/ Resume(i) \/ Finish(i) \/ Drop(i)

Init == items = [i \in Item |-> Fresh("absent")]
Next == \A i \in Item : items'[i] = items[i] \/ Move(i)
Spec == Init /\ [][Next]_items
=============================================================================
