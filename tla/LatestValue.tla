----------------------------- MODULE LatestValue -----------------------------
(***************************************************************************)
(* What the live server promises a viewer: the documents it shows come in  *)
(* the order in which they were produced, each at most once, possibly with *)
(* some left out; a viewer that is told that the stream has ended has its  *)
(* last document.  A restarted server numbers from 1 again, and viewers    *)
(* go on with what it has.                                                 *)
(***************************************************************************)
EXTENDS Naturals

CONSTANT Clients

VARIABLES
  produced,  \* documents so far
  finished,  \* there will be no more
  have,      \* client -> number of the document it has, 0 for none
  stale,     \* client -> what it has is not of this stream
  told       \* client -> it knows that the stream has ended

vars == <<produced, finished, have, stale, told>>

Init ==
  /\ produced = 0
  /\ finished = FALSE
  /\ have = [c \in Clients |-> 0]
  /\ stale = [c \in Clients |-> TRUE]
  /\ told = [c \in Clients |-> FALSE]

Produce ==
  /\ ~finished
  /\ produced' = produced + 1
  /\ UNCHANGED <<finished, have, stale, told>>

Finish ==
  /\ finished' = TRUE
  /\ UNCHANGED <<produced, have, stale, told>>

Deliver(c) ==
  /\ ~told[c]
  /\ \E n \in 1..produced :
       /\ stale[c] \/ n > have[c]
       /\ have' = [have EXCEPT ![c] = n]
  /\ stale' = [stale EXCEPT ![c] = FALSE]
  /\ UNCHANGED <<produced, finished, told>>

Tell(c) ==
  /\ finished
  /\ produced > 0 => have[c] = produced
  /\ told' = [told EXCEPT ![c] = TRUE]
  /\ UNCHANGED <<produced, finished, have, stale>>

Restart ==
  /\ produced' = 0
  /\ finished' = FALSE
  /\ stale' = [c \in Clients |-> TRUE]
  /\ UNCHANGED <<have, told>>

Next ==
  \/ Produce
  \/ Finish
  \/ \E c \in Clients : Deliver(c) \/ Tell(c)
  \/ Restart

Spec == Init /\ [][Next]_vars
==============================================================================
