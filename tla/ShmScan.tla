-------------------------------- MODULE ShmScan --------------------------------
(***************************************************************************)
(* Are two nodes of one host in the same IPC namespace?  The part of       *)
(* collect() (main.cpp) that gathers shared-memory ports, scan_shm(),      *)
(* held_port_locks() and participant_shm_visibility() (shm_info.cpp), and  *)
(* decide() on the result.                                                 *)
(*                                                                         *)
(* The scan looks at one port file after the other while participants      *)
(* start, exit and crash; the endpoints it is about were copied before.    *)
(* A participant listens on a proof port (announced by all its endpoints)  *)
(* and on the flow port of its ros_discovery_info reader, the first free   *)
(* number of its namespace, which a process of another domain may take.    *)
(* Every participant has one writer and one reader of one topic.           *)
(***************************************************************************)
EXTENDS Decision, FiniteSets

CONSTANTS
  Participants,
  Places,                  \* which participants may be in the tool's IPC namespace, a set of sets
  ProofPorts, FlowPorts,   \* numbers, disjoint
  OwnPort,                 \* the proof port the tool listens on
  Machines,                \* what the tool can see, and data-sharing: a set of machine records
  Early,                   \* participants that run when the tool starts, one per namespace
  MaxEnds                  \* how many participants exit or crash
ASSUME PortsAssumption ==
  /\ ProofPorts \cap FlowPorts = {} /\ OwnPort \in ProofPorts
  /\ ProofPorts \cup FlowPorts \subseteq Nat \ {0}
  /\ IsFiniteSet(Participants) /\ Early \subseteq Participants
  /\ Places \subseteq SUBSET Participants
  /\ \A here \in Places : Cardinality(Early \cap here) <= 1 /\ Cardinality(Early \ here) <= 1
  /\ MaxEnds \in Nat
  /\ Machines \subseteq [sharing : {"on", "off"}, listed : BOOLEAN, procfs : BOOLEAN,
                         unreadable : SUBSET (ProofPorts \cup FlowPorts)]

Ports == ProofPorts \cup FlowPorts
\* The first number of a set, as a set: there may be none.
First(numbers) == {n \in numbers : \A m \in numbers : n <= m}

VARIABLES
  where,     \* participant -> "tool" or "other": its IPC namespace
  machine,   \* sharing: data-sharing as all endpoints announce it; listed, procfs: the tool can
             \* list /dev/shm and its own open files; unreadable: lock files it may not open
  state,     \* participant -> "off", "running", "exited" or "crashed"
  ports,     \* participant -> [proof, flow], 0 before it starts
  stranger,  \* a process of another domain holds this flow port in the tool's namespace, or 0
  files,     \* port -> "none", "held" or "free": its lock file in the tool's namespace
  known,     \* participants whose endpoints are discovered
  pc,        \* where collect() is
  snap,      \* participants whose endpoints were copied
  own_ports, \* ports the tool's process holds
  probed,    \* port -> LockState, for the port files looked at so far
  segments,  \* participants whose data-sharing segments were looked at -> were they there
  visible,   \* participant -> ShmVisibility of the frame
  hidden     \* history: a port looked at is one of a participant that was not copied, or the
             \* tool's own and not among own_ports
world == <<where, machine, state, ports, stranger, files, known>>
scan == <<snap, own_ports, probed, segments, visible, hidden>>
vars == <<world, pc, scan>>

Running(p) == state[p] = "running"
PortsOf(p) == {ports[p].proof, ports[p].flow}

------------------------------------------------------------------------------
\* The world.  A number is listened on once in a namespace.
Taken(ns) ==
  (UNION {PortsOf(p) : p \in {q \in Participants : Running(q) /\ where[q] = ns}})
    \cup (IF ns = "tool" THEN {OwnPort, stranger} ELSE {})

Start(p) ==
  /\ state[p] = "off"
  /\ \E proof \in ProofPorts \ Taken(where[p]), flow \in First(FlowPorts \ Taken(where[p])) :
       /\ ports' = [ports EXCEPT ![p] = [proof |-> proof, flow |-> flow]]
       /\ files' = IF where[p] = "tool" THEN [files EXCEPT ![proof] = "held", ![flow] = "held"]
                   ELSE files
  /\ state' = [state EXCEPT ![p] = "running"]
  /\ UNCHANGED <<where, machine, stranger, known, pc, scan>>

\* A clean exit removes the lock files, a crash leaves them free.
End(p, how, lock) ==
  /\ Running(p)
  /\ Cardinality({q \in Participants : state[q] \in {"exited", "crashed"}}) < MaxEnds
  /\ state' = [state EXCEPT ![p] = how]
  /\ files' = [f \in Ports |->
                 IF where[p] = "tool" /\ f \in PortsOf(p) THEN lock ELSE files[f]]
  /\ UNCHANGED <<where, machine, ports, stranger, known, pc, scan>>
Exit(p) == End(p, "exited", "none")
Crash(p) == End(p, "crashed", "free")

Discover(p) ==
  /\ Running(p) /\ p \notin known
  /\ known' = known \cup {p}
  /\ UNCHANGED <<where, machine, state, ports, stranger, files, pc, scan>>

\* The participant said goodbye, or its lease ran out.
Forget(p) ==
  /\ p \in known /\ ~Running(p)
  /\ known' = known \ {p}
  /\ UNCHANGED <<where, machine, state, ports, stranger, files, pc, scan>>

------------------------------------------------------------------------------
\* collect(), as far as shared memory goes.
TakeSnapshot ==
  /\ pc = "snapshot"
  /\ snap' = known
  /\ pc' = "own"
  /\ UNCHANGED <<world, own_ports, probed, segments, visible, hidden>>

held_port_locks ==
  /\ pc = "own"
  /\ own_ports' = IF machine.procfs THEN {OwnPort} ELSE {}
  /\ pc' = IF machine.listed THEN "scan" ELSE "judge"
  /\ UNCHANGED <<world, snap, probed, segments, visible, hidden>>

node_ports == UNION {PortsOf(p) : p \in snap}

\* Mutant: a lock nobody holds is no lock.
probe_lock_free(port) == IF files[port] = "held" THEN "Held" ELSE "NoFile"
\* The port file and its lock, as readdir() comes across them.
probe_lock(port) ==
  CASE files[port] = "none" -> "NoFile"
    [] files[port] # "none" /\ port \in machine.unreadable -> "Unknown"
    [] files[port] = "held" /\ port \notin machine.unreadable -> "Held"
    [] files[port] = "free" /\ port \notin machine.unreadable -> "Free"

ProbePort ==
  /\ pc = "scan"
  /\ \E port \in node_ports \ DOMAIN probed :
       /\ probed' = [q \in DOMAIN probed \cup {port} |->
                       IF q = port THEN probe_lock(port) ELSE probed[q]]
       /\ hidden' = \/ hidden
                    \/ port \in {OwnPort} \ own_ports
                    \/ \E p \in Participants \ snap :
                         Running(p) /\ where[p] = "tool" /\ port \in PortsOf(p)
  /\ UNCHANGED <<world, pc, snap, own_ports, segments, visible>>

\* The data-sharing segments, which stay when their process crashes; in one step, because a
\* segment is there as long as its participant runs.
ProbeSegments ==
  /\ pc = "scan" /\ machine.sharing # "off"
  /\ segments = <<>> /\ snap # {}
  /\ segments' = [p \in snap |-> where[p] = "tool" /\ state[p] \in {"running", "crashed"}]
  /\ UNCHANGED <<world, pc, snap, own_ports, probed, visible, hidden>>

ScanDone ==
  /\ pc = "scan"
  /\ DOMAIN probed = node_ports /\ (machine.sharing # "off" => DOMAIN segments = snap)
  /\ pc' = "judge"
  /\ UNCHANGED <<world, scan>>

\* The end of scan_shm().
checked_ports == IF machine.listed THEN node_ports ELSE {}
missing_ports == {q \in checked_ports : q \in own_ports \/ probed[q] # "Held"}
unknown_ports == {q \in missing_ports : q \notin own_ports /\ probed[q] \in {"Free", "Unknown"}}
participants_per_port(port) == Cardinality({p \in snap : port \in PortsOf(p)})

\* Mutants: any held port is a proof; a missing port never proves anything.
proven_by_any(p) == \E q \in PortsOf(p) : q \notin missing_ports /\ participants_per_port(q) <= 1
proven(p) ==
  ports[p].proof \notin missing_ports /\ participants_per_port(ports[p].proof) <= 1
absent_never(p) == {}
absent(p) == PortsOf(p) \cap (missing_ports \ unknown_ports)

\* Mutant: a name the enumeration does not have.
shm_visibility_unknown(p) == IF absent(p) # {} THEN "not-visible" ELSE "unknown"
participant_shm_visibility(p) ==
  IF absent(p) # {} THEN "not-visible"
  ELSE IF PortsOf(p) \subseteq checked_ports \ missing_ports /\ proven(p) THEN "visible"
  ELSE "unprobed"

segment_visibility(p) ==
  IF ~machine.listed \/ machine.sharing = "off" THEN "unprobed"
  ELSE IF segments[p] THEN "visible" ELSE "not-visible"

nodes_visible == missing_ports = {}

Judge ==
  /\ pc = "judge"
  /\ visible' = [p \in snap |-> participant_shm_visibility(p)]
  /\ pc' = "shown"
  /\ UNCHANGED <<world, snap, own_ports, probed, segments, hidden>>

Show ==
  /\ pc = "shown"
  /\ pc' = "snapshot"
  /\ snap' = {} /\ own_ports' = {} /\ probed' = <<>> /\ segments' = <<>> /\ visible' = <<>>
  /\ hidden' = FALSE
  /\ UNCHANGED world

------------------------------------------------------------------------------
\* The verdict of the frame on a pair of participants.
Qos ==
  [reliability |-> "RELIABLE", durability |-> "VOLATILE", deadline |-> 1,
   liveliness |-> "AUTOMATIC", lease |-> 1, ownership |-> "SHARED", partitions |-> {},
   data_sharing |-> machine.sharing, domains |-> {}]
Endpoint(p) ==
  [host |-> "h", participant |-> p, process |-> "", dds_type |-> "T", type_hash |-> "",
   tinfo |-> "", tinfo_min |-> "", multicast |-> <<>>, filtered |-> FALSE, qos |-> Qos,
   unicast |-> <<[kind |-> "SHM", address |-> "", port |-> ports[p].proof]>>,
   ports |-> PortsOf(p), visibility |-> visible[p], segment |-> segment_visibility(p)]
Decided(a, b) == decide(Endpoint(a), Endpoint(b))
Claimed(a, b) == "shm-ipc-namespace-split" \in Decided(a, b).warnings

Init ==
  /\ \E here \in Places : where = [p \in Participants |-> IF p \in here THEN "tool" ELSE "other"]
  /\ machine \in Machines
  /\ state = [p \in Participants |-> IF p \in Early THEN "running" ELSE "off"]
  /\ stranger \in {0} \cup First(FlowPorts)
  /\ \E proof \in [Early -> ProofPorts], flow \in [Early -> FlowPorts] :
       /\ \A p \in Early :
            IF where[p] = "tool"
            THEN proof[p] # OwnPort /\ flow[p] \in First(FlowPorts \ {stranger})
            ELSE flow[p] \in First(FlowPorts)
       /\ ports = [p \in Participants |->
            IF p \in Early THEN [proof |-> proof[p], flow |-> flow[p]]
            ELSE [proof |-> 0, flow |-> 0]]
  /\ files = [q \in Ports |-> IF q \in Taken("tool") THEN "held" ELSE "none"]
  /\ known = {}
  /\ pc = "snapshot"
  /\ snap = {} /\ own_ports = {} /\ probed = <<>> /\ segments = <<>> /\ visible = <<>>
  /\ hidden = FALSE

Tool ==
  TakeSnapshot \/ held_port_locks \/ ProbePort \/ ProbeSegments \/ ScanDone \/ Judge \/ Show
Next ==
  \/ Tool
  \/ \E p \in Participants : Start(p) \/ Exit(p) \/ Crash(p) \/ Discover(p) \/ Forget(p)

Spec == Init /\ [][Next]_vars
\* The tool keeps collecting frames (--watch), and discovery gets through.
FairSpec ==
  Spec /\ WF_vars(Tool) /\ \A p \in Participants : WF_vars(Discover(p)) /\ WF_vars(Forget(p))

------------------------------------------------------------------------------
\* Type correctness of the scan: locks are probed for the ports of the copied endpoints, and
\* a frame has a ShmVisibility for every copied participant.
TypeOK ==
  /\ snap \subseteq Participants /\ known \subseteq Participants
  /\ DOMAIN probed \subseteq node_ports /\ DOMAIN segments \subseteq snap
  /\ pc = "shown" => visible \in [snap -> {"visible", "not-visible", "unprobed"}]

\* participant_shm_visibility(): whatever starts or ends while the ports are probed, a
\* participant that is said to be visible is in the tool's namespace, unless a port of its
\* number is held there by a participant that was not discovered yet, or by the tool itself
\* and it cannot list its own (held_port_locks() without procfs).
VisibleSound ==
  pc = "shown" /\ ~hidden => \A p \in snap : visible[p] = "visible" => where[p] = "tool"

\* Another participant of its namespace has, or had, a number that p listened on.
Reused(p) ==
  \E q \in Participants \ {p} : where[q] = where[p] /\ PortsOf(q) \cap PortsOf(p) # {}

\* ipc_split_reasons(), datasharing_split_reasons(): two running participants that are said to
\* be in different IPC namespaces are; so are crashed ones, unless a number they announce was
\* used by another participant too, whose exit removes the lock file that a crash leaves.
SplitSound ==
  pc = "shown" /\ ~hidden =>
    \A a, b \in snap :
      /\ Claimed(a, b)
      /\ \A p \in {a, b} : Running(p) \/ (state[p] = "crashed" /\ ~Reused(p))
      => where[a] # where[b]

\* What a scan concludes of participants that come and go is so: who is visible, who is apart.
ScanSound == TypeOK /\ VisibleSound /\ SplitSound

\* What proves that a, in the tool's namespace, and b are apart, in a world that has settled.
Provable(a, b) ==
  /\ Running(a) /\ Running(b) /\ where[a] = "tool" /\ where[b] = "other"
  /\ \/ PortsOf(a) \cap PortsOf(b) # {}
     \/ /\ machine.listed /\ PortsOf(a) \cap machine.unreadable = {}
        /\ \E q \in PortsOf(b) : (q = OwnPort /\ machine.procfs) \/ files[q] = "none"
        /\ \A c \in Participants : Running(c) /\ c # a => ports[c].proof # ports[a].proof

\* collect() in --watch: once participants stop coming and going, every frame tells a provable
\* pair of namespaces apart, and frames keep coming.
SplitSettles ==
  /\ []<>(pc = "shown")
  /\ <>[](pc = "shown" => \A a, b \in Participants :
                              Provable(a, b) => {a, b} \subseteq snap /\ Claimed(a, b))
================================================================================
