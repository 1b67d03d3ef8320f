------------------------------ MODULE MCCollect ------------------------------
(* A small instance of Collect: one process with one endpoint, for its whole life. *)
EXTENDS Collect, TLC

CONSTANTS a, p1

OneProcess == [e \in Endpoints |-> p1]
==============================================================================
