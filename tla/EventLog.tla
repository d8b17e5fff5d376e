------------------------------- MODULE EventLog -------------------------------
(***************************************************************************)
(* What the event journal promises to whoever reads all of it: one log to  *)
(* which rows are added, numbered one after the other, and from which none *)
(* is taken and in which none is changed, in however many files it lies.   *)
(***************************************************************************)
EXTENDS Naturals

CONSTANT Row
VARIABLES log, last

LogWrite(row) ==
  /\ row.seq = last + 1
  /\ log' = log \cup {row}
  /\ last' = row.seq

Init == log = {} /\ last = 0
Next == \E row \in Row : LogWrite(row)
Spec == Init /\ [][Next]_<<log, last>>
=============================================================================
