------------------------------ MODULE MCWaitLoop ------------------------------
(* Small instances of WaitLoop: a writer and a reader in two processes, and one locator. *)
EXTENDS WaitLoop, TLC

CONSTANTS w, far, l1

MCContents == {{l1}}
MCTopicOf == [e \in Endpoints |-> "chatter"]
MCProcessOf == [e \in Endpoints |-> IF e = w THEN 1 ELSE 2]

\* The one-shot with --stats and --quiet is given the second it needs to settle anew.
MCOptions ==
  {[stats |-> s, watch |-> v, quiet |-> q, timeout |-> IF s /\ ~v /\ q = 1 THEN 3 ELSE 2] :
     s, v \in BOOLEAN, q \in 0..1}
==============================================================================
