------------------------------ MODULE MCKernel ------------------------------
(* Small instances of Kernel for TLC.                                      *)
EXTENDS KernelItems, TLC

Todo1(kind, deps, files, verify) ==
  [kind |-> kind, role |-> "planner", deps |-> deps, files |-> files, verify |-> verify]

(* Steering: a change that adds a todo, cancels one and modifies one.      *)
SteerSpecs == {Todo1("steer", {}, {}, FALSE)}
Change == [add |-> <<Todo1("exec", {}, {"src"}, TRUE)>>, cancel |-> {2},
           modify |-> (1 :> [files |-> {}, verify |-> FALSE])]
SteerDiffs == {Change}

(* Bound: a goal has one todo that steers, beside two others; one worker   *)
(* works there, once on each todo, and no limit is set.                    *)
Steering == {t \in Todo : todos[t].spec.kind = "steer" /\ Present(t)}
Holders == {todos[t].claimedBy : t \in Todo} \ {Nobody}
SmallWhenSteered ==
  Steering # {} => /\ Cardinality(Steering) = 1 /\ created <= 3
                   /\ Cardinality(Holders) <= 1
                   /\ \A t \in Todo : rounds[t] <= 1
                   /\ \A key \in Key : quota[key].limit = 0

Symmetry == Permutations(Worker)
=============================================================================
