-------------------------------- MODULE Changes --------------------------------
(***************************************************************************)
(* What changed between two frames or two saved documents (decision.cpp):  *)
(* the states of the pairs of a frame, their difference by GUID (--watch,  *)
(* diff --key guid) and by node name (diff --key node).                    *)
(*                                                                         *)
(* A frame is a function from topics to records with the sequences writers,*)
(* readers and pairs of module Topics; of an endpoint only guid and node   *)
(* are used.  Codes are sets, so a mere change of their order, which the   *)
(* code does not produce, is not seen as a change.                         *)
(***************************************************************************)
EXTENDS Integers, Sequences, SequencesExt

\* The identity of a pair; the node names that PairKey carries are not part of it.
pair_key(topic, p) == <<topic, p.writer.guid, p.reader.guid>>

\* Locators without their counters, which grow from frame to frame.
pair_state(p) ==
  [transport |-> p.verdict.transport, confidence |-> p.verdict.confidence,
   measured |-> p.measured.transports, locator |-> p.verdict.locator,
   measured_locators |-> [k \in DOMAIN p.measured.locators |-> p.measured.locators[k].locator],
   warnings |-> p.verdict.warnings]

AllPairs(topics) == UNION {{<<t, i>> : i \in DOMAIN topics[t].pairs} : t \in DOMAIN topics}
PairIn(topics, x) == topics[x[1]].pairs[x[2]]

pair_states(topics) ==
  LET Key(x) == pair_key(x[1], PairIn(topics, x))
  IN [k \in {Key(x) : x \in AllPairs(topics)} |->
        pair_state(PairIn(topics, CHOOSE x \in AllPairs(topics) : Key(x) = k))]

diff(previous, current) ==
  [added |-> DOMAIN current \ DOMAIN previous,
   removed |-> DOMAIN previous \ DOMAIN current,
   changed |-> {k \in DOMAIN current \cap DOMAIN previous : previous[k] # current[k]}]

Unchanged(changes) == changes.added \cup changes.removed \cup changes.changed = {}

------------------------------------------------------------------------------
\* The guids of a node's endpoints on a topic, and the place of an endpoint among them.
by_node(t, node) ==
  LET mine == SelectSeq(t.writers \o t.readers, LAMBDA e : e.node = node)
  IN SetToSortSeq({mine[i].guid : i \in DOMAIN mine}, <)

identity(t, e) ==
  IF e.node = "" THEN <<"guid", e.guid>>
  ELSE <<e.node, CHOOSE i \in DOMAIN by_node(t, e.node) : by_node(t, e.node)[i] = e.guid>>

node_keyed(topics) ==
  LET Ident(x) == <<x[1], identity(topics[x[1]], PairIn(topics, x).writer),
                    identity(topics[x[1]], PairIn(topics, x).reader)>>
  IN [k \in {Ident(x) : x \in AllPairs(topics)} |->
        pair_state(PairIn(topics, CHOOSE x \in AllPairs(topics) : Ident(x) = k))]

\* A restart renumbers the ports, which says nothing about how the pair talks.
NoPort(l) == [l EXCEPT !.port = 0]
\* Mutant: those of the measured locators count.
SelectedStripped(s) == [s EXCEPT !.locator = NoPort(@)]
Stripped(s) ==
  [s EXCEPT !.locator = NoPort(@), !.measured_locators = [k \in DOMAIN @ |-> NoPort(@[k])]]

diff_snapshots(before, after, mode) ==
  IF mode = "guid" THEN diff(pair_states(before), pair_states(after))
  ELSE LET Strip(states) == [k \in DOMAIN states |-> Stripped(states[k])]
       IN diff(Strip(node_keyed(before)), Strip(node_keyed(after)))
================================================================================
