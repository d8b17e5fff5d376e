----------------------------- MODULE KernelItems -----------------------------
(***************************************************************************)
(* The kernel implements WorkItems: a piece of work is a lineage, and its  *)
(* state is that of the newest todo of the lineage.                        *)
(***************************************************************************)
EXTENDS Kernel

Lineage(l) == {t \in Todo : Present(t) /\ todos[t].lineage = l}
Newest(l)  == CHOOSE t \in Lineage(l) : \A u \in Lineage(l) : todos[u].gen <= todos[t].gen

StateOf(status) ==
  CASE status = "open"       -> "queued"
    [] status \in InFlight   -> "held"
    [] status \in Waiting    -> "waiting"
    [] status = "done"       -> "done"
    [] status = "superseded" -> "dropped"

ItemOf(r) == [state    |-> StateOf(r.status),
              by       |-> IF r.status \in InFlight THEN r.claimedBy ELSE Nobody,
              reworked |-> r.gen - 1]

items == [l \in Todo |-> IF Lineage(l) = {}
                         THEN [state |-> "absent", by |-> Nobody, reworked |-> 0]
                         ELSE ItemOf(todos[Newest(l)])]

WorkItem == INSTANCE WorkItems WITH Item <- Todo, Reworks <- LineageLimit - 1

(* A lineage is one piece of work, whatever claims, lost leases, reworks,  *)
(* reopenings and plan changes its todos go through.                       *)
LineageIsWorkItem == WorkItem!Spec
=============================================================================
