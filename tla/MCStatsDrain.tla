----------------------------- MODULE MCStatsDrain -----------------------------
(* Small instances of StatsDrain. *)
EXTENDS StatsDrain

CONSTANTS sent, count

MCReaderOf == [i \in Instances |-> IF i = sent THEN 1 ELSE 2]
==============================================================================
