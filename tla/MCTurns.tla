------------------------------- MODULE MCTurns -------------------------------
(* Small instances of Turns for TLC.                                       *)
EXTENDS Turns, TLC

Task(kind, role, deps, files) ==
  [kind |-> kind, role |-> role, deps |-> deps, files |-> files, verify |-> kind = "exec"]

(* Contents: what the user asks for, and what plans and changes add.       *)
Tree     == Task("exec", "dev", {}, {"src"})
Free     == Task("exec", "dev", {}, {})
After2   == Task("exec", "dev", {2}, {})
Steering == Task("steer", "planner", {}, {})
AllSpecs  == {Tree, Free, After2, Steering}
JustFree  == {Free}
JustSteer == {Steering}
Mixed     == {Free, Steering}
Steered   == {Steering, After2}

(* Plans: one task, one that waits for itself, or two, the second after    *)
(* the first.                                                              *)
OneTask  == {<<Tree>>, <<Task("exec", "dev", {-1}, {"src"})>>}
TwoTasks == {<<Tree, Task("exec", "dev", {-1}, {"src"})>>}

(* A change that adds one todo, and one that cancels the second todo and   *)
(* modifies the first.                                                     *)
AddOne == {[add |-> <<Tree>>, cancel |-> {}, modify |-> NoPatch]}
Shrink == {[add |-> <<>>, cancel |-> {2},
            modify |-> (1 :> [files |-> {"src"}, verify |-> TRUE])]}

W1 == "w1"
W2 == "w2"
OneWorker  == ("p1" :> W1)
TwoWorkers == ("p1" :> W1 @@ "p2" :> W2)
Hosts == ("p1" :> W1 @@ "h1" :> W2)
=============================================================================
