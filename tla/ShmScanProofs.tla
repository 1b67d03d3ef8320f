----------------------------- MODULE ShmScanProofs -----------------------------
(***************************************************************************)
(* Theorems about the scan of shared memory, for any participants, places  *)
(* and port numbers, and however many start, exit and crash while the      *)
(* ports are probed: who is said to be visible is in the tool's namespace, *)
(* and who is said to be apart is apart.                                   *)
(***************************************************************************)
EXTENDS ShmScan, FiniteSetTheorems, TLAPS

------------------------------------------------------------------------------
\* decide(): the warning of a split needs evidence of one.
Fields == {"transport", "confidence", "locator", "multicast", "reasons", "warnings"}

LEMMA VerdictFields ==
  ASSUME NEW t, NEW c, NEW reasons, NEW warnings
  PROVE  /\ DOMAIN Verdict(t, c, reasons, warnings) = Fields
         /\ Verdict(t, c, reasons, warnings).warnings = warnings
BY DEF Verdict, Fields

LEMMA NetworkWarnings ==
  ASSUME NEW w, NEW r, NEW reasons, NEW warnings
  PROVE  /\ DOMAIN decide_network(w, r, reasons, warnings) = Fields
         /\ decide_network(w, r, reasons, warnings).warnings = warnings
BY VerdictFields DEF decide_network, Fields

LEMMA ShmWarnings ==
  ASSUME NEW w, NEW r, NEW reasons, NEW warnings, ipc_split_reasons(w, r) = {}
  PROVE  /\ DOMAIN decide_shm(w, r, reasons, warnings) = Fields
         /\ decide_shm(w, r, reasons, warnings).warnings = warnings
BY VerdictFields DEF decide_shm, Fields

LEMMA DatasharingWarnings ==
  ASSUME NEW w, NEW r, NEW reasons, NEW warnings,
         ipc_split_reasons(w, r) = {}, datasharing_split_reasons(w, r) = {}
  PROVE  /\ DOMAIN decide_datasharing(w, r, reasons, warnings) = Fields
         /\ decide_datasharing(w, r, reasons, warnings).warnings = warnings
BY VerdictFields DEF decide_datasharing

LEMMA SameTypeWarnings ==
  ASSUME NEW w, NEW r, ipc_split_reasons(w, r) = {}, datasharing_split_reasons(w, r) = {}
  PROVE  /\ DOMAIN decide_same_type(w, r) = Fields
         /\ decide_same_type(w, r).warnings
              \subseteq {"qos-incompatible", "host-id-match-but-ip-differs"}
<1>1. IpWarning(w, r) \subseteq {"host-id-match-but-ip-differs"}
  BY DEF IpWarning
<1>2. CASE qos_incompatibilities(w.qos, r.qos) # {}
  BY <1>2, VerdictFields DEF decide_same_type
<1>3. CASE qos_incompatibilities(w.qos, r.qos) = {} /\ w.host # r.host
  BY <1>3, NetworkWarnings DEF decide_same_type
<1>4. CASE qos_incompatibilities(w.qos, r.qos) = {} /\ w.host = r.host
  BY <1>1, <1>4, NetworkWarnings, ShmWarnings, DatasharingWarnings DEF decide_same_type
<1> QED
  BY <1>2, <1>3, <1>4

\* decide(): two IPC namespaces are claimed only where ipc_split_reasons() or
\* datasharing_split_reasons() found a reason, whatever the types, the QoS and the locators.
THEOREM SplitNeedsEvidence ==
  ASSUME NEW writer, NEW reader,
         "shm-ipc-namespace-split" \in decide(writer, reader).warnings
  PROVE  ipc_split_reasons(writer, reader) # {} \/ datasharing_split_reasons(writer, reader) # {}
<1> SUFFICES ASSUME ipc_split_reasons(writer, reader) = {},
                    datasharing_split_reasons(writer, reader) = {}
             PROVE  FALSE
  OBVIOUS
<1> DEFINE v == decide_same_type(writer, reader)
<1>1. DOMAIN v = Fields /\ "shm-ipc-namespace-split" \notin v.warnings
  BY SameTypeWarnings
<1> HIDE DEF v
<1>2. ASSUME NEW codes
      PROVE  /\ DOMAIN [v EXCEPT !.reasons = @ \cup codes] = Fields
             /\ [v EXCEPT !.reasons = @ \cup codes].warnings = v.warnings
  BY <1>1 DEF Fields
<1>3. ASSUME NEW u, DOMAIN u = Fields
      PROVE  /\ DOMAIN MarkIntraProcess(u, writer, reader) = Fields
             /\ MarkIntraProcess(u, writer, reader).warnings = u.warnings
  BY <1>3 DEF MarkIntraProcess, Fields
<1>4. ASSUME NEW c, NEW m
      PROVE  LET u == MarkIntraProcess([v EXCEPT !.reasons = @ \cup c], writer, reader)
             IN [u EXCEPT !.warnings = @ \cup m].warnings = v.warnings \cup m
  BY <1>2, <1>3 DEF Fields
<1> DEFINE renamed == writer.dds_type # reader.dds_type
           hash == /\ ~renamed
                   /\ writer.type_hash # "" /\ reader.type_hash # ""
                   /\ writer.type_hash # reader.type_hash
           more == IF hash THEN {"type-hash-mismatch"} ELSE {}
           codes == IF renamed THEN {"type-names-differ-same-type"} ELSE {}
           match == type_information_match(writer, reader)
           mark == MarkIntraProcess([v EXCEPT !.reasons = @ \cup codes], writer, reader)
           why == {IF renamed THEN "type-name-mismatch" ELSE "type-information-mismatch"}
<1>5. decide(writer, reader) =
        IF match = "different" \/ (match = "unknown" /\ renamed)
        THEN Verdict("NONE", "CERTAIN", why, more)
        ELSE [mark EXCEPT !.warnings = @ \cup more]
  BY DEF decide, v
<1>6. "shm-ipc-namespace-split" \notin more
  OBVIOUS
<1> HIDE DEF renamed, hash, more, codes, why, match
<1>7. [mark EXCEPT !.warnings = @ \cup more].warnings = v.warnings \cup more
  BY <1>4
<1>8. Verdict("NONE", "CERTAIN", why, more).warnings = more
  BY VerdictFields
<1> HIDE DEF mark
<1> QED
  BY <1>1, <1>5, <1>6, <1>7, <1>8

------------------------------------------------------------------------------
\* The inductive invariant.  A participant has its numbers, of both kinds, from its start on.
WorldTypes ==
  /\ where \in [Participants -> {"tool", "other"}]
  /\ state \in [Participants -> {"off", "running", "exited", "crashed"}]
  /\ files \in [Ports -> {"none", "held", "free"}]
  /\ stranger \in {0} \cup FlowPorts
  /\ DOMAIN ports = Participants
  /\ \A p \in Participants :
       IF state[p] = "off" THEN ports[p] = [proof |-> 0, flow |-> 0]
       ELSE ports[p] \in [proof : ProofPorts, flow : FlowPorts]
  /\ \A p \in known : p \in Participants /\ state[p] # "off"

\* A number is listened on once in a namespace, and the tool's own by nobody else.
PortsApart ==
  /\ \A p \in Participants : where[p] = "tool" => OwnPort \notin PortsOf(p)
  /\ \A p, q \in Participants :
       Running(p) /\ Running(q) /\ p # q /\ where[p] = where[q]
         => PortsOf(p) \cap PortsOf(q) = {}

\* What a lock file says: a held one has its holder, a running participant holds its own, and
\* a crashed one has left them free as long as nobody took the number again.
FilesInv ==
  /\ \A f \in Ports :
       files[f] = "held" =>
         \/ f \in {OwnPort, stranger}
         \/ \E p \in Participants : Running(p) /\ where[p] = "tool" /\ f \in PortsOf(p)
  /\ \A p \in Participants :
       Running(p) /\ where[p] = "tool" => \A f \in PortsOf(p) : files[f] = "held"
  /\ \A p \in Participants :
       state[p] = "crashed" /\ where[p] = "tool" /\ ~Reused(p)
         => \A f \in PortsOf(p) : files[f] = "free"

WorldInv == WorldTypes /\ PortsApart /\ FilesInv

\* What a missing lock file or segment proves of a participant.
Absent(p) ==
  where[p] = "other" \/ state[p] = "exited" \/ (state[p] = "crashed" /\ Reused(p))

\* How far the scan is.
ScanTypes ==
  /\ pc \in {"snapshot", "own", "scan", "judge", "shown"}
  /\ \A p \in snap : p \in Participants /\ state[p] # "off"
  /\ pc \in {"snapshot", "own"} => probed = <<>> /\ segments = <<>>
  /\ own_ports \subseteq {OwnPort}
  /\ DOMAIN probed \subseteq node_ports
  /\ \A f \in DOMAIN probed : probed[f] \in {"Held", "Free", "NoFile", "Unknown"}
  /\ pc = "judge" /\ machine.listed => DOMAIN probed = node_ports
  /\ DOMAIN segments \subseteq snap
  /\ pc \in {"judge", "shown"} /\ machine.listed /\ machine.sharing # "off" =>
       DOMAIN segments = snap

\* What a probe found stands while the scan goes on.
ProbedInv ==
  /\ \A f \in DOMAIN probed :
       probed[f] = "Held" /\ ~hidden =>
         \/ f \in own_ports \cup {stranger}
         \/ \E p \in snap : where[p] = "tool" /\ f \in PortsOf(p)
  /\ \A f \in DOMAIN probed :
       probed[f] = "NoFile" => \A p \in snap : f \in PortsOf(p) => Absent(p)
  /\ \A p \in DOMAIN segments : IF segments[p] THEN where[p] = "tool" ELSE Absent(p)

\* What a frame says of its participants.
ShownInv ==
  pc = "shown" =>
    /\ visible \in [snap -> {"visible", "not-visible", "unprobed"}]
    /\ \A p \in snap : visible[p] = "not-visible" => Absent(p)
    /\ ~hidden => \A p \in snap : visible[p] = "visible" => where[p] = "tool"

ScanInv == ScanTypes /\ ProbedInv /\ ShownInv
ShmInv == WorldInv /\ ScanInv

------------------------------------------------------------------------------
LEMMA AtMostOne ==
  ASSUME NEW S, IsFiniteSet(S), Cardinality(S) <= 1, NEW x \in S, NEW y \in S
  PROVE  x = y
<1>1. IsFiniteSet(S \ {x}) /\ Cardinality(S \ {x}) = Cardinality(S) - 1
  BY FS_RemoveElement
<1>2. Cardinality(S) \in Nat /\ Cardinality(S \ {x}) \in Nat
  BY <1>1, FS_CardinalityType
<1>3. Cardinality(S \ {x}) = 0
  BY <1>1, <1>2
<1>4. S \ {x} = {}
  BY <1>1, <1>3, FS_EmptySet
<1> QED
  BY <1>4

\* A participant that has started listens on a proof port and a flow port.
LEMMA StartedPorts ==
  ASSUME WorldTypes, NEW p \in Participants
  PROVE  /\ state[p] # "off" => /\ ports[p].proof \in ProofPorts
                                /\ ports[p].flow \in FlowPorts
                                /\ PortsOf(p) \subseteq Ports
                                /\ 0 \notin PortsOf(p)
         /\ state[p] = "off" => PortsOf(p) = {0}
BY PortsAssumption DEF WorldTypes, PortsOf, Ports

LEMMA EarlyAlone ==
  ASSUME NEW here \in Places, NEW p \in Early, NEW q \in Early, p \in here <=> q \in here
  PROVE  p = q
<1>1. IsFiniteSet(Early)
  BY PortsAssumption, FS_Subset
<1>2. IsFiniteSet(Early \cap here) /\ IsFiniteSet(Early \ here)
  <2>1. Early \cap here \in SUBSET Early /\ Early \ here \in SUBSET Early
    OBVIOUS
  <2> QED
    BY <1>1, <2>1, FS_Subset
<1>3. CASE p \in here
  BY <1>2, <1>3, PortsAssumption, AtMostOne
<1>4. CASE p \notin here
  BY <1>2, <1>4, PortsAssumption, AtMostOne
<1> QED
  BY <1>3, <1>4

LEMMA ShmInit == Init => ShmInv
<1> SUFFICES ASSUME Init PROVE ShmInv
  OBVIOUS
<1>1. PICK here \in Places :
        where = [p \in Participants |-> IF p \in here THEN "tool" ELSE "other"]
  BY DEF Init
<1>2. PICK proof \in [Early -> ProofPorts], flow \in [Early -> FlowPorts] :
        /\ \A p \in Early :
             IF where[p] = "tool"
             THEN proof[p] # OwnPort /\ flow[p] \in First(FlowPorts \ {stranger})
             ELSE flow[p] \in First(FlowPorts)
        /\ ports = [p \in Participants |->
             IF p \in Early THEN [proof |-> proof[p], flow |-> flow[p]]
             ELSE [proof |-> 0, flow |-> 0]]
  BY DEF Init
<1>3. /\ state = [p \in Participants |-> IF p \in Early THEN "running" ELSE "off"]
      /\ stranger \in {0} \cup FlowPorts
      /\ files = [q \in Ports |-> IF q \in Taken("tool") THEN "held" ELSE "none"]
      /\ known = {} /\ pc = "snapshot" /\ snap = {} /\ probed = <<>> /\ segments = <<>>
      /\ own_ports = {}
  BY DEF Init, First
<1>4. WorldTypes
  BY <1>1, <1>2, <1>3 DEF WorldTypes
<1>5. \A p \in Early : p \in Participants
  BY PortsAssumption
<1>6. PortsApart
  <2>1. ASSUME NEW p \in Participants, where[p] = "tool" PROVE OwnPort \notin PortsOf(p)
    BY <1>2, <1>3, <1>5, <2>1, PortsAssumption DEF PortsOf
  <2>2. ASSUME NEW p \in Participants, NEW q \in Participants, Running(p), Running(q),
               where[p] = where[q]
        PROVE  p = q
    BY <1>1, <1>3, <2>2, EarlyAlone DEF Running
  <2> QED
    BY <2>1, <2>2 DEF PortsApart
<1>7. FilesInv
  <2>1. \A f \in Ports : files[f] = "held" <=> f \in Taken("tool")
    BY <1>3
  <2>2. \A p \in Participants : state[p] # "crashed"
    BY <1>3
  <2>3. ASSUME NEW p \in Participants, Running(p), where[p] = "tool", NEW f \in PortsOf(p)
        PROVE  files[f] = "held"
    <3>1. f \in Ports
      BY <1>4, <2>3, StartedPorts DEF Running
    <3> QED
      BY <2>1, <2>3, <3>1 DEF Taken
  <2>4. ASSUME NEW f \in Taken("tool"), f \notin {OwnPort, stranger}
        PROVE  \E p \in Participants : Running(p) /\ where[p] = "tool" /\ f \in PortsOf(p)
    BY <2>4 DEF Taken, Running, PortsOf
  <2> QED
    BY <2>1, <2>2, <2>3, <2>4 DEF FilesInv
<1>8. ScanInv
  BY <1>3 DEF ScanInv, ScanTypes, ProbedInv, ShownInv, node_ports
<1> QED
  BY <1>4, <1>6, <1>7, <1>8 DEF ShmInv, WorldInv

------------------------------------------------------------------------------
\* The world's steps: numbers, once listened on, stay what they are, and what ended stays so.

\* So what a scan has found, and what a frame says, keeps standing.
LEMMA WorldGoesOn ==
  ASSUME WorldTypes, ScanInv,
         where' = where, machine' = machine, stranger' = stranger,
         pc' = pc, scan' = scan,
         \A p \in Participants :
           /\ state[p] # "off" => ports'[p] = ports[p] /\ state'[p] # "off"
           /\ state[p] \in {"exited", "crashed"} => state'[p] = state[p]
  PROVE  ScanInv'
<1>1. \A p \in Participants : state[p] # "off" => PortsOf(p)' = PortsOf(p)
  BY DEF PortsOf
<1>2. ASSUME NEW p \in Participants, state[p] # "off", Reused(p) PROVE Reused(p)'
  <2>1. PICK q \in Participants \ {p} : where[q] = where[p] /\ PortsOf(q) \cap PortsOf(p) # {}
    BY <1>2 DEF Reused
  <2>2. state[q] # "off"
    BY <1>2, <2>1, StartedPorts
  <2>3. PortsOf(q)' = PortsOf(q) /\ PortsOf(p)' = PortsOf(p)
    BY <1>1, <1>2, <2>2
  <2> QED
    BY <2>1, <2>3 DEF Reused
<1>3. \A p \in snap : p \in Participants /\ state[p] # "off"
  BY DEF ScanInv, ScanTypes
<1>4. \A p \in snap : Absent(p) => Absent(p)'
  BY <1>2, <1>3 DEF Absent
<1>5. \A p \in snap : PortsOf(p)' = PortsOf(p)
  BY <1>1, <1>3
<1>6. node_ports' = node_ports
  BY <1>5 DEF node_ports, scan
<1>7. ScanTypes'
  BY <1>3, <1>6 DEF ScanInv, ScanTypes, scan
<1>8. ProbedInv'
  BY <1>4, <1>5 DEF ScanInv, ScanTypes, ProbedInv, scan
<1>9. ShownInv'
  BY <1>4 DEF ScanInv, ShownInv, scan
<1> QED
  BY <1>7, <1>8, <1>9 DEF ScanInv

LEMMA StartKeeps ==
  ASSUME ShmInv, NEW p \in Participants, Start(p) PROVE ShmInv'
<1> USE DEF ShmInv, WorldInv
<1>1. PICK proof \in ProofPorts \ Taken(where[p]), flow \in First(FlowPorts \ Taken(where[p])) :
        /\ ports' = [ports EXCEPT ![p] = [proof |-> proof, flow |-> flow]]
        /\ files' = IF where[p] = "tool" THEN [files EXCEPT ![proof] = "held", ![flow] = "held"]
                    ELSE files
  BY DEF Start
<1>2. /\ state[p] = "off" /\ state' = [state EXCEPT ![p] = "running"]
      /\ UNCHANGED <<where, machine, stranger, known, pc, scan>>
  BY DEF Start
<1>3. flow \in FlowPorts /\ flow \notin Taken(where[p])
  BY DEF First
<1>4. /\ ports'[p] = [proof |-> proof, flow |-> flow] /\ state'[p] = "running"
      /\ \A q \in Participants \ {p} : ports'[q] = ports[q] /\ state'[q] = state[q]
  BY <1>1, <1>2 DEF WorldTypes
<1>5. PortsOf(p)' = {proof, flow} /\ \A q \in Participants \ {p} : PortsOf(q)' = PortsOf(q)
  BY <1>4 DEF PortsOf
<1>6. \A q \in Participants : Running(q)' <=> q = p \/ Running(q)
  BY <1>4 DEF Running
<1>7. WorldTypes'
  BY <1>1, <1>2, <1>3, <1>4 DEF WorldTypes, Ports
<1>8. ASSUME NEW q \in Participants, Running(q), where[q] = where[p]
      PROVE  PortsOf(q) \subseteq Taken(where[p])
  BY <1>8 DEF Taken
<1>9. where[p] = "tool" => {OwnPort, stranger} \subseteq Taken(where[p])
  BY DEF Taken
<1>10. PortsApart'
  <2>1. ASSUME NEW q \in Participants, where[q] = "tool" PROVE OwnPort \notin PortsOf(q)'
    BY <1>1, <1>3, <1>5, <1>9, <2>1 DEF PortsApart
  <2>2. ASSUME NEW q \in Participants, NEW r \in Participants, q # r, where[q] = where[r],
               Running(q)', Running(r)'
        PROVE  PortsOf(q)' \cap PortsOf(r)' = {}
    <3>1. CASE q # p /\ r # p
      BY <1>5, <1>6, <2>2, <3>1 DEF PortsApart
    <3>2. CASE q = p
      BY <1>1, <1>3, <1>5, <1>6, <1>8, <2>2, <3>2
    <3>3. CASE r = p
      BY <1>1, <1>3, <1>5, <1>6, <1>8, <2>2, <3>3
    <3> QED
      BY <3>1, <3>2, <3>3
  <2> QED
    BY <1>2, <2>1, <2>2 DEF PortsApart
<1>11. FilesInv'
  <2>1. \A f \in Ports : files'[f] = IF where[p] = "tool" /\ f \in {proof, flow} THEN "held"
                                     ELSE files[f]
    BY <1>1, <1>3 DEF WorldTypes, Ports
  <2>2. ASSUME NEW f \in Ports, files'[f] = "held", f \notin {OwnPort, stranger}
        PROVE  \E q \in Participants : Running(q)' /\ where[q] = "tool" /\ f \in PortsOf(q)'
    <3>1. CASE where[p] = "tool" /\ f \in {proof, flow}
      BY <1>5, <1>6, <3>1
    <3>2. CASE files[f] = "held"
      <4>1. PICK q \in Participants : Running(q) /\ where[q] = "tool" /\ f \in PortsOf(q)
        BY <2>2, <3>2 DEF FilesInv
      <4>2. q # p
        BY <1>2, <4>1 DEF Running
      <4> QED
        BY <1>5, <1>6, <4>1, <4>2
    <3> QED
      BY <2>1, <2>2, <3>1, <3>2
  <2>3. ASSUME NEW q \in Participants, Running(q)', where[q] = "tool", NEW f \in PortsOf(q)'
        PROVE  files'[f] = "held"
    <3>1. f \in Ports
      BY <1>5, <1>6, <1>7, <2>3, StartedPorts, <1>1, <1>3 DEF Running, Ports
    <3>2. CASE q = p
      BY <1>5, <2>1, <2>3, <3>1, <3>2
    <3>3. CASE q # p
      BY <1>5, <1>6, <2>1, <2>3, <3>1, <3>3 DEF FilesInv
    <3> QED
      BY <3>2, <3>3
  <2>4. ASSUME NEW q \in Participants, state'[q] = "crashed", where[q] = "tool", ~Reused(q)',
               NEW f \in PortsOf(q)'
        PROVE  files'[f] = "free"
    <3>1. q # p /\ state[q] = "crashed" /\ f \in PortsOf(q)
      BY <1>4, <1>5, <2>4
    <3>2. PortsOf(q) \subseteq Ports /\ 0 \notin PortsOf(q)
      BY <3>1, StartedPorts
    <3>3. ~Reused(q)
      <4> SUFFICES ASSUME NEW r \in Participants \ {q}, where[r] = where[q],
                          PortsOf(r) \cap PortsOf(q) # {}
                   PROVE  FALSE
        BY DEF Reused
      <4>1. r # p
        BY <1>2, <3>2, StartedPorts
      <4> QED
        BY <1>2, <1>5, <2>4, <3>1, <4>1 DEF Reused
    <3>4. ~(where[p] = "tool" /\ f \in {proof, flow})
      BY <1>2, <1>5, <2>4, <3>1 DEF Reused
    <3> QED
      BY <2>1, <2>4, <3>1, <3>2, <3>3, <3>4 DEF FilesInv
  <2> QED
    BY <1>2, <2>2, <2>3, <2>4 DEF FilesInv
<1>12. ScanInv'
  BY <1>2, <1>4, WorldGoesOn
<1> QED
  BY <1>7, <1>10, <1>11, <1>12

LEMMA EndKeeps ==
  ASSUME ShmInv, NEW p \in Participants,
         NEW how, NEW lock, <<how, lock>> \in {<<"exited", "none">>, <<"crashed", "free">>},
         End(p, how, lock)
  PROVE  ShmInv'
<1> USE DEF ShmInv, WorldInv
<1>1. /\ state[p] = "running" /\ state' = [state EXCEPT ![p] = how]
      /\ files' = [f \in Ports |->
                     IF where[p] = "tool" /\ f \in PortsOf(p) THEN lock ELSE files[f]]
      /\ UNCHANGED <<where, machine, ports, stranger, known, pc, scan>>
  BY DEF End, Running
<1>2. state'[p] = how /\ \A q \in Participants \ {p} : state'[q] = state[q]
  BY <1>1 DEF WorldTypes
<1>3. \/ how = "exited" /\ lock = "none"
      \/ how = "crashed" /\ lock = "free"
  OBVIOUS
<1>4. \A q : PortsOf(q)' = PortsOf(q)
  BY <1>1 DEF PortsOf
<1>5. \A q \in Participants : Running(q)' <=> q # p /\ Running(q)
  BY <1>2, <1>3 DEF Running
<1>6. WorldTypes'
  BY <1>1, <1>2, <1>3 DEF WorldTypes
<1>7. PortsApart'
  BY <1>1, <1>4, <1>5 DEF PortsApart
<1>8. \A q : Reused(q)' <=> Reused(q)
  BY <1>1, <1>4 DEF Reused
<1>9. FilesInv'
  <2>1. \A f \in Ports : files'[f] = IF where[p] = "tool" /\ f \in PortsOf(p) THEN lock
                                     ELSE files[f]
    BY <1>1
  <2>2. ASSUME NEW f \in Ports, files'[f] = "held", f \notin {OwnPort, stranger}
        PROVE  \E q \in Participants : Running(q)' /\ where[q] = "tool" /\ f \in PortsOf(q)
    <3>1. files[f] = "held" /\ ~(where[p] = "tool" /\ f \in PortsOf(p))
      BY <1>3, <2>1, <2>2
    <3>2. PICK q \in Participants : Running(q) /\ where[q] = "tool" /\ f \in PortsOf(q)
      BY <2>2, <3>1 DEF FilesInv
    <3> QED
      BY <1>5, <3>1, <3>2
  <2>3. ASSUME NEW q \in Participants, Running(q)', where[q] = "tool", NEW f \in PortsOf(q)
        PROVE  files'[f] = "held"
    <3>1. q # p /\ Running(q)
      BY <1>5, <2>3
    <3>2. f \in Ports
      BY <2>3, <3>1, StartedPorts DEF Running
    <3>3. ~(where[p] = "tool" /\ f \in PortsOf(p))
      BY <1>1, <2>3, <3>1 DEF PortsApart, Running
    <3> QED
      BY <2>1, <2>3, <3>1, <3>2, <3>3 DEF FilesInv
  <2>4. ASSUME NEW q \in Participants, state'[q] = "crashed", where[q] = "tool", ~Reused(q),
               NEW f \in PortsOf(q)
        PROVE  files'[f] = "free"
    <3>1. f \in Ports
      BY <1>1, <1>2, <2>4, StartedPorts
    <3>2. CASE q = p
      BY <1>2, <1>3, <2>1, <2>4, <3>1, <3>2
    <3>3. CASE q # p
      <4>1. ~(where[p] = "tool" /\ f \in PortsOf(p))
        BY <2>4, <3>3 DEF Reused
      <4> QED
        BY <1>2, <2>1, <2>4, <3>1, <3>3, <4>1 DEF FilesInv
    <3> QED
      BY <3>2, <3>3
  <2> QED
    BY <1>1, <1>4, <1>8, <2>2, <2>3, <2>4 DEF FilesInv
<1>10. ScanInv'
  BY <1>1, <1>2, <1>3, WorldGoesOn
<1> QED
  BY <1>6, <1>7, <1>9, <1>10

LEMMA DiscoveryKeeps ==
  ASSUME ShmInv, NEW p \in Participants, Discover(p) \/ Forget(p) PROVE ShmInv'
<1> USE DEF ShmInv, WorldInv
<1>1. /\ known' \subseteq known \cup {p} /\ (known' = known \cup {p} => Running(p) \/ p \in known)
      /\ UNCHANGED <<where, machine, state, ports, stranger, files, pc, scan>>
  BY DEF Discover, Forget
<1>2. \A q \in known' : q \in Participants /\ state[q] # "off"
  BY <1>1 DEF WorldTypes, Running, Discover, Forget
<1>3. WorldInv'
  BY <1>1, <1>2 DEF WorldTypes, PortsApart, FilesInv, PortsOf, Running, Reused
<1>4. ScanInv'
  BY <1>1, WorldGoesOn
<1> QED
  BY <1>3, <1>4

------------------------------------------------------------------------------
\* The steps of collect().
LEMMA WorldSame ==
  ASSUME WorldInv, UNCHANGED world PROVE WorldInv'
BY DEF world, WorldInv, WorldTypes, PortsApart, FilesInv, PortsOf, Running, Reused

LEMMA AbsentSame ==
  ASSUME UNCHANGED world
  PROVE  \A p : (Absent(p)' <=> Absent(p)) /\ PortsOf(p)' = PortsOf(p)
BY DEF world, Absent, Reused, PortsOf

LEMMA EarlyStepsKeep ==
  ASSUME ShmInv, TakeSnapshot \/ held_port_locks \/ Show PROVE ShmInv'
<1> USE DEF ShmInv
<1>1. UNCHANGED world
  BY DEF TakeSnapshot, held_port_locks, Show
<1>2. ASSUME TakeSnapshot \/ Show PROVE ScanInv'
  <2>1. snap' = known \/ snap' = {}
    BY <1>2 DEF TakeSnapshot, Show
  <2>2. \A p \in snap' : p \in Participants /\ state'[p] # "off"
    BY <1>1, <2>1 DEF WorldInv, WorldTypes, world
  <2>3. /\ probed' = <<>> /\ segments' = <<>> /\ pc' \in {"snapshot", "own"}
        /\ own_ports' \subseteq {OwnPort}
    BY <1>2 DEF TakeSnapshot, Show, ScanInv, ScanTypes
  <2> QED
    BY <2>2, <2>3 DEF ScanInv, ScanTypes, ProbedInv, ShownInv
<1>3. ASSUME held_port_locks PROVE ScanInv'
  <2>1. /\ probed' = <<>> /\ segments' = <<>> /\ snap' = snap
        /\ own_ports' \subseteq {OwnPort}
        /\ pc' \in {"scan", "judge"} /\ (machine.listed' => pc' = "scan")
    BY <1>3 DEF held_port_locks, ScanInv, ScanTypes, world
  <2>2. \A p \in snap' : p \in Participants /\ state'[p] # "off"
    BY <1>1, <2>1 DEF ScanInv, ScanTypes, world
  <2> QED
    BY <2>1, <2>2 DEF ScanInv, ScanTypes, ProbedInv, ShownInv
<1> QED
  BY <1>1, <1>2, <1>3, WorldSame

LEMMA ProbePortKeeps ==
  ASSUME ShmInv, ProbePort PROVE ShmInv'
<1> USE DEF ShmInv
<1>1. /\ pc = "scan" /\ UNCHANGED <<world, pc, snap, own_ports, segments, visible>>
  BY DEF ProbePort
<1>2. PICK port \in node_ports \ DOMAIN probed :
        /\ probed' = [q \in DOMAIN probed \cup {port} |->
                        IF q = port THEN probe_lock(port) ELSE probed[q]]
        /\ hidden' = \/ hidden
                     \/ port \in {OwnPort} \ own_ports
                     \/ \E p \in Participants \ snap :
                          Running(p) /\ where[p] = "tool" /\ port \in PortsOf(p)
  BY DEF ProbePort
<1>3. \A p \in snap : p \in Participants /\ state[p] # "off" /\ PortsOf(p) \subseteq Ports
  BY StartedPorts DEF ScanInv, ScanTypes, WorldInv
<1>4. port \in Ports /\ files[port] \in {"none", "held", "free"}
  <2>1. PICK p \in snap : port \in PortsOf(p)
    BY <1>2 DEF node_ports
  <2> QED
    BY <1>3, <2>1 DEF WorldInv, WorldTypes
<1>5. /\ probe_lock(port) = "Held" => files[port] = "held"
      /\ probe_lock(port) = "NoFile" <=> files[port] = "none"
      /\ probe_lock(port) \in {"Held", "Free", "NoFile", "Unknown"}
  BY <1>4 DEF probe_lock
<1>6. /\ DOMAIN probed' = DOMAIN probed \cup {port} /\ probed'[port] = probe_lock(port)
      /\ \A f \in DOMAIN probed : probed'[f] = probed[f]
  BY <1>2
<1>7. node_ports' = node_ports
  BY <1>1, AbsentSame DEF node_ports
<1>8. ScanTypes'
  BY <1>1, <1>5, <1>6, <1>7 DEF ScanInv, ScanTypes, world
<1>9. ASSUME probed'[port] = "Held", ~hidden', port \notin own_ports \cup {stranger}
      PROVE  \E p \in snap : where[p] = "tool" /\ port \in PortsOf(p)
  <2>1. PICK p \in Participants : Running(p) /\ where[p] = "tool" /\ port \in PortsOf(p)
    BY <1>2, <1>4, <1>5, <1>6, <1>9 DEF WorldInv, FilesInv
  <2>2. p \in snap
    BY <1>2, <1>9, <2>1
  <2> QED
    BY <2>1, <2>2
<1>10. ASSUME probed'[port] = "NoFile", NEW p \in snap, port \in PortsOf(p) PROVE Absent(p)
  <2>1. files[port] = "none"
    BY <1>5, <1>6, <1>10
  <2>2. /\ where[p] \in {"tool", "other"}
        /\ state[p] \in {"running", "exited", "crashed"}
    BY <1>3 DEF WorldInv, WorldTypes
  <2> QED
    BY <1>3, <1>10, <2>1, <2>2 DEF Absent, Running, WorldInv, FilesInv
<1>11. hidden => hidden'
  BY <1>2
<1>12. ProbedInv'
  <2>1. ASSUME NEW f \in DOMAIN probed', probed'[f] = "Held", ~hidden',
               f \notin own_ports \cup {stranger}
        PROVE  \E p \in snap : where[p] = "tool" /\ f \in PortsOf(p)
    <3>1. CASE f = port
      BY <1>9, <2>1, <3>1
    <3>2. CASE f \in DOMAIN probed
      BY <1>6, <1>11, <2>1, <3>2 DEF ScanInv, ProbedInv
    <3> QED
      BY <1>6, <3>1, <3>2
  <2>2. ASSUME NEW f \in DOMAIN probed', probed'[f] = "NoFile", NEW p \in snap, f \in PortsOf(p)
        PROVE  Absent(p)
    <3>1. CASE f = port
      BY <1>10, <2>2, <3>1
    <3>2. CASE f \in DOMAIN probed
      BY <1>6, <2>2, <3>2 DEF ScanInv, ProbedInv
    <3> QED
      BY <1>6, <3>1, <3>2
  <2>3. \A p \in DOMAIN segments : IF segments[p] THEN where[p] = "tool" ELSE Absent(p)
    BY DEF ScanInv, ProbedInv
  <2>4. /\ where' = where /\ stranger' = stranger /\ snap' = snap /\ segments' = segments
        /\ own_ports' = own_ports
        /\ \A p : (Absent(p)' <=> Absent(p)) /\ PortsOf(p)' = PortsOf(p)
    BY <1>1, AbsentSame DEF world
  <2> HIDE DEF ShmInv
  <2> QED
    BY <2>1, <2>2, <2>3, <2>4 DEF ProbedInv
<1>13. ShownInv'
  BY <1>1 DEF ShownInv
<1> QED
  BY <1>1, <1>8, <1>12, <1>13, WorldSame DEF ScanInv

LEMMA ProbeSegmentsKeeps ==
  ASSUME ShmInv, ProbeSegments PROVE ShmInv'
<1> USE DEF ShmInv
<1>1. /\ pc = "scan" /\ UNCHANGED <<world, pc, snap, own_ports, probed, visible, hidden>>
      /\ segments' = [p \in snap |-> where[p] = "tool" /\ state[p] \in {"running", "crashed"}]
  BY DEF ProbeSegments
<1>2. \A p : (Absent(p)' <=> Absent(p)) /\ PortsOf(p)' = PortsOf(p)
  BY <1>1, AbsentSame
<1>3. node_ports' = node_ports
  BY <1>1, <1>2 DEF node_ports
<1>4. ASSUME NEW p \in snap
      PROVE  IF where[p] = "tool" /\ state[p] \in {"running", "crashed"}
             THEN where[p] = "tool" ELSE Absent(p)
  BY DEF Absent, ScanInv, ScanTypes, WorldInv, WorldTypes
<1>5. DOMAIN segments' = snap
  BY <1>1
<1>6. \A p \in snap : segments'[p] <=> where[p] = "tool" /\ state[p] \in {"running", "crashed"}
  BY <1>1, Zenon
<1>7. ScanTypes'
  BY <1>1, <1>3, <1>5 DEF ScanInv, ScanTypes, world
<1>8. ProbedInv'
  <2>1. /\ where' = where /\ stranger' = stranger /\ snap' = snap
        /\ probed' = probed /\ hidden' = hidden /\ own_ports' = own_ports
    BY <1>1 DEF world
  <2>2. \A p \in snap : IF segments'[p] THEN where[p] = "tool" ELSE Absent(p)
    BY <1>4, <1>6
  <2> QED
    BY <1>2, <1>5, <2>1, <2>2 DEF ScanInv, ProbedInv
<1>9. ShownInv'
  BY <1>1 DEF ShownInv
<1> QED
  BY <1>1, <1>7, <1>8, <1>9, WorldSame DEF ScanInv

LEMMA ScanDoneKeeps ==
  ASSUME ShmInv, ScanDone PROVE ShmInv'
<1> USE DEF ShmInv
<1>1. /\ pc = "scan" /\ pc' = "judge" /\ UNCHANGED <<world, scan>>
      /\ DOMAIN probed = node_ports /\ (machine.sharing # "off" => DOMAIN segments = snap)
  BY DEF ScanDone
<1>2. \A p : (Absent(p)' <=> Absent(p)) /\ PortsOf(p)' = PortsOf(p)
  BY <1>1, AbsentSame
<1>3. node_ports' = node_ports
  BY <1>1, <1>2 DEF node_ports, scan
<1>4. ScanTypes'
  BY <1>1, <1>3 DEF ScanInv, ScanTypes, world, scan
<1>5. ProbedInv'
  BY <1>1, <1>2 DEF ScanInv, ProbedInv, world, scan
<1> QED
  BY <1>1, <1>4, <1>5, WorldSame DEF ScanInv, ShownInv

LEMMA JudgeKeeps ==
  ASSUME ShmInv, Judge PROVE ShmInv'
<1> USE DEF ShmInv
<1>1. /\ pc = "judge" /\ pc' = "shown"
      /\ visible' = [p \in snap |-> participant_shm_visibility(p)]
      /\ UNCHANGED <<world, snap, own_ports, probed, segments, hidden>>
  BY DEF Judge
<1>2. \A p : (Absent(p)' <=> Absent(p)) /\ PortsOf(p)' = PortsOf(p)
  BY <1>1, AbsentSame
<1>3. node_ports' = node_ports
  BY <1>1, <1>2 DEF node_ports
<1>4. \A p \in snap : p \in Participants /\ state[p] # "off"
  BY DEF ScanInv, ScanTypes
<1>5. own_ports \subseteq {OwnPort} /\ (machine.listed => DOMAIN probed = node_ports)
  BY <1>1 DEF ScanInv, ScanTypes
<1>6. ASSUME NEW p \in snap, participant_shm_visibility(p) = "not-visible" PROVE Absent(p)
  <2>1. PICK q \in PortsOf(p) : q \in missing_ports /\ q \notin unknown_ports
    BY <1>6 DEF participant_shm_visibility, absent
  <2>2. CASE q \in own_ports
    BY <1>4, <1>5, <2>1, <2>2 DEF Absent, WorldInv, WorldTypes, PortsApart
  <2>3. CASE q \notin own_ports
    <3>1. machine.listed /\ q \in node_ports
      BY <2>1 DEF missing_ports, checked_ports
    <3>2. q \in DOMAIN probed /\ probed[q] = "NoFile"
      BY <1>5, <2>1, <2>3, <3>1 DEF missing_ports, unknown_ports, ScanInv, ScanTypes
    <3> QED
      BY <2>1, <3>2 DEF ScanInv, ProbedInv
  <2> QED
    BY <2>2, <2>3
<1>7. ASSUME NEW p \in snap, participant_shm_visibility(p) = "visible", ~hidden
      PROVE  where[p] = "tool"
  <2> DEFINE q == ports[p].proof
  <2>1. q \in checked_ports \ missing_ports /\ participants_per_port(q) <= 1
    BY <1>7 DEF participant_shm_visibility, proven, PortsOf
  <2>2. q \notin own_ports /\ probed[q] = "Held" /\ machine.listed /\ q \in node_ports
    BY <2>1 DEF checked_ports, missing_ports
  <2>3. q # stranger
    BY <1>4, <1>5, <2>2, StartedPorts, PortsAssumption DEF WorldInv, WorldTypes
  <2>4. q \in PortsOf(p)
    BY DEF PortsOf
  <2>5. q \in DOMAIN probed
    BY <1>5, <2>2
  <2> HIDE DEF q
  <2>6. PICK r \in snap : where[r] = "tool" /\ q \in PortsOf(r)
    BY <1>7, <2>2, <2>3, <2>5 DEF ScanInv, ProbedInv
  <2>7. IsFiniteSet({x \in snap : q \in PortsOf(x)})
    <3>1. {x \in snap : q \in PortsOf(x)} \in SUBSET Participants
      BY <1>4
    <3> QED
      BY <3>1, PortsAssumption, FS_Subset
  <2>8. p = r
    BY <2>1, <2>4, <2>6, <2>7, AtMostOne DEF participants_per_port
  <2> QED
    BY <2>6, <2>8
<1>8. ScanTypes'
  BY <1>1, <1>3 DEF ScanInv, ScanTypes, world
<1>9. ProbedInv'
  BY <1>1, <1>2 DEF ScanInv, ProbedInv, world
<1>10. ShownInv'
  <2>1. \A p \in snap : participant_shm_visibility(p) \in {"visible", "not-visible", "unprobed"}
    BY DEF participant_shm_visibility
  <2>2. visible' \in [snap -> {"visible", "not-visible", "unprobed"}]
    BY <1>1, <2>1
  <2>3. \A p \in snap : visible'[p] = participant_shm_visibility(p)
    BY <1>1
  <2>4. snap' = snap /\ where' = where /\ hidden' = hidden
    BY <1>1 DEF world
  <2> QED
    BY <1>2, <1>6, <1>7, <2>2, <2>3, <2>4 DEF ShownInv
<1> QED
  BY <1>1, <1>8, <1>9, <1>10, WorldSame DEF ScanInv

LEMMA ShmStutter ==
  ASSUME ShmInv, UNCHANGED vars PROVE ShmInv'
<1>1. UNCHANGED world /\ UNCHANGED pc /\ UNCHANGED scan
  BY DEF vars
<1>2. WorldInv'
  BY <1>1, WorldSame DEF ShmInv
<1>3. ScanInv'
  BY <1>1, WorldGoesOn DEF ShmInv, WorldInv, world
<1> QED
  BY <1>2, <1>3 DEF ShmInv

LEMMA ShmInvariant == Spec => []ShmInv
<1>1. ShmInv /\ [Next]_vars => ShmInv'
  <2> SUFFICES ASSUME ShmInv, [Next]_vars PROVE ShmInv'
    OBVIOUS
  <2>1. CASE TakeSnapshot \/ held_port_locks \/ Show
    BY <2>1, EarlyStepsKeep
  <2>2. CASE ProbePort
    BY <2>2, ProbePortKeeps
  <2>3. CASE ProbeSegments
    BY <2>3, ProbeSegmentsKeeps
  <2>4. CASE ScanDone
    BY <2>4, ScanDoneKeeps
  <2>5. CASE Judge
    BY <2>5, JudgeKeeps
  <2>6. ASSUME NEW p \in Participants, Start(p) PROVE ShmInv'
    BY <2>6, StartKeeps
  <2>7. ASSUME NEW p \in Participants, Exit(p) \/ Crash(p) PROVE ShmInv'
    BY <2>7, EndKeeps DEF Exit, Crash
  <2>8. ASSUME NEW p \in Participants, Discover(p) \/ Forget(p) PROVE ShmInv'
    BY <2>8, DiscoveryKeeps
  <2>9. CASE UNCHANGED vars
    BY <2>9, ShmStutter
  <2> QED
    BY <2>1, <2>2, <2>3, <2>4, <2>5, <2>6, <2>7, <2>8, <2>9 DEF Next, Tool
<1> QED
  BY ShmInit, <1>1, PTL DEF Spec

------------------------------------------------------------------------------
\* What the invariant says of the verdict on a pair.
LEMMA EvidenceIsSound ==
  ASSUME ShmInv, pc = "shown", ~hidden, NEW a \in snap, NEW b \in snap, Claimed(a, b),
         \A p \in {a, b} : Running(p) \/ (state[p] = "crashed" /\ ~Reused(p))
  PROVE  where[a] # where[b]
<1> USE DEF ShmInv
<1>1. a \in Participants /\ b \in Participants
  BY DEF ScanInv, ScanTypes
<1>2. ~(Absent(a) /\ where[a] # "other") /\ ~(Absent(b) /\ where[b] # "other")
  BY DEF Absent, Running
<1>3. \/ ipc_split_reasons(Endpoint(a), Endpoint(b)) # {}
      \/ datasharing_split_reasons(Endpoint(a), Endpoint(b)) # {}
  BY SplitNeedsEvidence DEF Claimed, Decided
<1>4. \A p : /\ Endpoint(p).participant = p /\ Endpoint(p).visibility = visible[p]
             /\ Endpoint(p).segment = segment_visibility(p)
  BY DEF Endpoint
<1>5. ASSUME NEW p PROVE shm_ports(Endpoint(p)) = PortsOf(p)
  <2> DEFINE e == Endpoint(p)
             l == [kind |-> "SHM", address |-> "", port |-> ports[p].proof]
  <2>1. e.ports = PortsOf(p) /\ e.unicast = <<l>> /\ l.port \in PortsOf(p)
    BY DEF Endpoint, PortsOf
  <2> HIDE DEF l, e
  <2>2. ToSet(e.unicast) = {l}
    BY <2>1 DEF ToSet
  <2>3. {u.port : u \in {v \in ToSet(e.unicast) : v.kind = "SHM"}} \subseteq PortsOf(p)
    BY <2>1, <2>2
  <2>4. shm_ports(e) = PortsOf(p)
    BY <2>1, <2>3 DEF shm_ports
  <2> QED
    BY <2>4 DEF e
<1>6. a # b
  BY <1>3, <1>4 DEF ipc_split_reasons, datasharing_split_reasons
<1>7. CASE PortsOf(a) \cap PortsOf(b) # {}
  <2>1. CASE Running(a) /\ Running(b)
    BY <1>1, <1>6, <1>7, <2>1 DEF WorldInv, PortsApart
  <2>2. CASE ~Running(a) \/ ~Running(b)
    BY <1>1, <1>6, <1>7, <2>2 DEF Reused
  <2> QED
    BY <2>1, <2>2
<1>8. ASSUME NEW p \in snap, NEW q \in snap, {p, q} = {a, b},
             visible[p] = "visible", visible[q] = "not-visible"
      PROVE  where[p] # where[q]
  BY <1>2, <1>8 DEF ScanInv, ShownInv
<1>9. ASSUME NEW p \in snap, NEW q \in snap, {p, q} = {a, b},
             segment_visibility(p) = "visible", segment_visibility(q) = "not-visible"
      PROVE  where[p] # where[q]
  <2>1. /\ machine.listed /\ machine.sharing # "off" /\ DOMAIN segments = snap
        /\ segments[p] /\ ~segments[q]
    BY <1>9 DEF segment_visibility, ScanInv, ScanTypes
  <2>2. where[p] = "tool" /\ Absent(q)
    BY <2>1 DEF ScanInv, ProbedInv
  <2> QED
    BY <1>2, <1>9, <2>2
<1>10. CASE OneSideOnly(visible[a], visible[b], "shm-reader-port-not-visible",
                        "shm-writer-port-not-visible") # {}
  <2>1. \/ visible[a] = "visible" /\ visible[b] = "not-visible"
        \/ visible[a] = "not-visible" /\ visible[b] = "visible"
    BY <1>10 DEF OneSideOnly
  <2> QED
    BY <1>8, <2>1
<1>11. CASE OneSideOnly(segment_visibility(a), segment_visibility(b),
                        "datasharing-reader-segment-not-visible",
                        "datasharing-writer-segment-not-visible") # {}
  <2>1. \/ segment_visibility(a) = "visible" /\ segment_visibility(b) = "not-visible"
        \/ segment_visibility(a) = "not-visible" /\ segment_visibility(b) = "visible"
    BY <1>11 DEF OneSideOnly
  <2> QED
    BY <1>9, <2>1
<1> QED
  BY <1>3, <1>4, <1>5, <1>7, <1>10, <1>11 DEF ipc_split_reasons, datasharing_split_reasons

\* scan_shm(), participant_shm_visibility() and decide() on their result: however participants
\* start, exit and crash while the ports are probed, what a frame says of who is in the tool's
\* IPC namespace and who is apart from whom is so.
THEOREM ScanIsSound == Spec => []ScanSound
<1>1. ShmInv => TypeOK
  BY DEF ShmInv, WorldInv, WorldTypes, ScanInv, ScanTypes, ShownInv, TypeOK
<1>2. ShmInv => VisibleSound
  BY DEF ShmInv, ScanInv, ShownInv, VisibleSound
<1>3. ShmInv => SplitSound
  BY EvidenceIsSound DEF SplitSound
<1>4. ShmInv => ScanSound
  BY <1>1, <1>2, <1>3 DEF ScanSound
<1> QED
  BY ShmInvariant, <1>4, PTL
================================================================================
