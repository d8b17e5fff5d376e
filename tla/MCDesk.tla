-------------------------------- MODULE MCDesk --------------------------------
(* Small instances of Desk for TLC.                                        *)
EXTENDS Desk

MCTitles == <<"request", "settings">>
(* A file of before the second section. *)
OldTitles == <<"request">>

MCItem(n, l) == [f \in Field |-> IF f = "name" THEN n ELSE l]
MCLists ==
  {<<>>, <<MCItem("a", "1")>>,
   <<MCItem("a", "1"), MCItem("b", "2")>>, <<MCItem("b", "1"), MCItem("b", "2"), MCItem("a", "1")>>}

MCKeyOf == [m \in Model |-> IF m = "big" THEN "BIG_KEY" ELSE "SMALL_KEY"]
MCOuter == [e \in {"SMALL_KEY"} |-> "old"]

MCStageOf == [t \in Task |-> IF t = "t3" THEN "build" ELSE "design"]
(* The states in between are left out.                                    *)
MCMoves == {<<"DRAFT", "DONE">>}

(* By hand: a stage of weight 5 with two tasks entered, one of weight 2,   *)
(* and one whose weight is 0.  The manager's intake may empty it.          *)
MCSeeds ==
  {<<[Stage("design") EXCEPT !.weight = 5,
        !.tasks = <<[Entry("t1", "DRAFT") EXCEPT !.weight = 2], Entry("t2", "DRAFT")>>],
     [Stage("build") EXCEPT !.weight = 0]>>}

MCRequests == {<<"codex", "grok">>, <<"grok">>}
=============================================================================
