------------------------------ MODULE MCTasks ------------------------------
(* Small instances of Tasks for TLC.                                       *)
EXTENDS Tasks

(* One task; two in sequence; two that write the same files and a third    *)
(* after both.                                                             *)
Task1(deps, files) == <<[deps |-> deps, files |-> files]>>
One    == Task1({}, {"docs"})
Chain  == One \o Task1({1}, {})
Stages == Task1({}, {"src"}) \o Task1({}, {"src", "docs"}) \o Task1({1, 2}, {})
=============================================================================
