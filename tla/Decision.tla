------------------------------- MODULE Decision -------------------------------
(***************************************************************************)
(* decide() of decision.cpp: the transport Fast DDS is predicted to use    *)
(* between a discovered writer and a discovered reader, with the codes of  *)
(* the reasons and warnings.                                               *)
(*                                                                         *)
(* An endpoint is a record with the fields of struct Endpoint that the     *)
(* decision reads: host, participant, process (the first eight GUID bytes, *)
(* "" for a vendor other than eProsima), dds_type, type_hash, tinfo and    *)
(* tinfo_min ("" when not announced), the sequences unicast and multicast  *)
(* of locators, ports and visibility of its participant's shared memory,   *)
(* segment (visibility of its data-sharing segment), filtered (Fast DDS    *)
(* hides same-host locators) and qos.  Codes are sets: their order is only *)
(* the order they are printed in.                                          *)
(***************************************************************************)
EXTENDS Integers, Sequences, SequencesExt, FiniteSetsExt

NoLocator == [kind |-> "Invalid", address |-> "", port |-> 0]
NetworkKinds == {"UDPv4", "UDPv6", "TCPv4", "TCPv6"}
Transports == NetworkKinds \cup {"SHM", "DATA_SHARING", "NONE"}

\* The unicast locators before the multicast ones, as Fast DDS walks them.
Announced(e) == e.unicast \o e.multicast
has_kind(e, kind) == \E l \in ToSet(Announced(e)) : l.kind = kind
find_locator(e, kind) ==
  Announced(e)[Min({i \in DOMAIN Announced(e) : Announced(e)[i].kind = kind})]
ip_addresses(e) == {l.address : l \in {u \in ToSet(e.unicast) : u.kind \in NetworkKinds}}

\* Mutant: a code that the table of explanations does not have.
reason_for_misspelt ==
  [UDPv4 |-> "common-udp4-locator", UDPv6 |-> "common-udpv6-locator",
   TCPv4 |-> "common-tcpv4-locator", TCPv6 |-> "common-tcpv6-locator"]

reason_for ==
  [UDPv4 |-> "common-udpv4-locator", UDPv6 |-> "common-udpv6-locator",
   TCPv4 |-> "common-tcpv4-locator", TCPv6 |-> "common-tcpv6-locator"]

\* Mutant: the first network locator of the reader, whatever the writer speaks.
UsableByReader(writer, reader) ==
  {i \in DOMAIN Announced(reader) : Announced(reader)[i].kind \in NetworkKinds}

\* pick_network_locator(): the positions of the reader's locators the writer can speak; the
\* first one is taken.
Usable(writer, reader) ==
  {i \in DOMAIN Announced(reader) :
     /\ Announced(reader)[i].kind \in NetworkKinds
     /\ has_kind(writer, Announced(reader)[i].kind)}
pick_network_locator(writer, reader) ==
  LET i == Min(Usable(writer, reader))
  IN [locator |-> Announced(reader)[i], multicast |-> i > Len(reader.unicast)]

------------------------------------------------------------------------------
\* QoS policies; a value without a rank is not judged.
durability_rank == [VOLATILE |-> 0, TRANSIENT_LOCAL |-> 1, TRANSIENT |-> 2, PERSISTENT |-> 3]
liveliness_rank == [AUTOMATIC |-> 0, MANUAL_BY_PARTICIPANT |-> 1, MANUAL_BY_TOPIC |-> 2]
Below(rank, a, b) == a \in DOMAIN rank /\ b \in DOMAIN rank /\ rank[a] < rank[b]

\* external: fnmatch(3) on the names used here, where "*" is the only pattern.
fnmatch(pattern, name) == pattern = "*" \/ pattern = name

partitions_match(w, r) ==
  LET Names(p) == IF p = {} THEN {""} ELSE p
  IN \E a \in Names(w), b \in Names(r) : fnmatch(a, b) \/ fnmatch(b, a)

qos_incompatibilities(w, r) ==
  {policy \in {"reliability", "durability", "deadline", "liveliness", "ownership",
               "partition"} :
     CASE policy = "reliability" -> w.reliability = "BEST_EFFORT" /\ r.reliability = "RELIABLE"
       [] policy = "durability" -> Below(durability_rank, w.durability, r.durability)
       [] policy = "deadline" -> w.deadline > r.deadline
       [] policy = "liveliness" -> \/ Below(liveliness_rank, w.liveliness, r.liveliness)
                                   \/ w.lease > r.lease
       [] policy = "ownership" -> w.ownership # r.ownership
       [] policy = "partition" -> ~partitions_match(w.partitions, r.partitions)}

QosReason ==
  [reliability |-> "qos-incompatible-reliability", durability |-> "qos-incompatible-durability",
   deadline |-> "qos-incompatible-deadline", liveliness |-> "qos-incompatible-liveliness",
   ownership |-> "qos-incompatible-ownership", partition |-> "qos-incompatible-partition"]

------------------------------------------------------------------------------
\* Evidence of two IPC namespaces.
shm_ports(e) == e.ports \cup {l.port : l \in {u \in ToSet(e.unicast) : u.kind = "SHM"}}

OneSideOnly(w, r, reader_code, writer_code) ==
  CASE w = "visible" /\ r = "not-visible" -> {reader_code}
    [] w = "not-visible" /\ r = "visible" -> {writer_code}
    [] OTHER -> {}

ipc_split_reasons(writer, reader) ==
  IF writer.participant = reader.participant THEN {}
  ELSE {"shm-port-collision" : p \in shm_ports(writer) \cap shm_ports(reader)}
       \cup OneSideOnly(writer.visibility, reader.visibility,
                        "shm-reader-port-not-visible", "shm-writer-port-not-visible")

datasharing_split_reasons(writer, reader) ==
  IF writer.participant = reader.participant THEN {}
  ELSE OneSideOnly(writer.segment, reader.segment, "datasharing-reader-segment-not-visible",
                   "datasharing-writer-segment-not-visible")

------------------------------------------------------------------------------
Verdict(transport, confidence, reasons, warnings) ==
  [transport |-> transport, confidence |-> confidence, locator |-> NoLocator,
   multicast |-> FALSE, reasons |-> reasons, warnings |-> warnings]

Split(reasons, warnings) ==
  Verdict("NONE", "CERTAIN", reasons, warnings \cup {"shm-ipc-namespace-split"})

IpWarning(writer, reader) ==
  LET w == ip_addresses(writer)
      r == ip_addresses(reader)
  IN IF w # {} /\ r # {} /\ w \cap r = {} THEN {"host-id-match-but-ip-differs"} ELSE {}

\* What the announced data-sharing configurations say; "both" when it is delivered that way.
datasharing_reasons(w, r) ==
  CASE w.data_sharing = "off" -> {"datasharing-disabled-writer"}
    [] w.data_sharing # "off" /\ r.data_sharing = "off" -> {"datasharing-disabled-reader"}
    [] /\ w.data_sharing # "off" /\ r.data_sharing # "off"
       /\ "unknown" \in {w.data_sharing, r.data_sharing} -> {"datasharing-qos-unknown"}
    [] OTHER ->
         IF w.domains # {} /\ r.domains # {} /\ w.domains \cap r.domains = {}
         THEN {"datasharing-domain-ids-mismatch"}
         ELSE {"datasharing-qos-enabled-both",
               IF w.domains # {} /\ r.domains # {} THEN "datasharing-domain-ids-match"
               ELSE "datasharing-domain-ids-unknown"}

BothShm(writer, reader) == has_kind(writer, "SHM") /\ has_kind(reader, "SHM")

decide_datasharing(writer, reader, reasons, warnings) ==
  LET both == BothShm(writer, reader)
      split == (IF both THEN ipc_split_reasons(writer, reader) ELSE {})
                 \cup datasharing_split_reasons(writer, reader)
  IN IF split # {}
     THEN Split(reasons \cup split \cup (IF both THEN {"both-shm-locators"} ELSE {}), warnings)
     ELSE Verdict("DATA_SHARING", "LIKELY", reasons \cup {"datasharing-unverified-by-traffic"},
                  warnings)

decide_shm(writer, reader, reasons, warnings) ==
  LET split == ipc_split_reasons(writer, reader)
      why == reasons \cup {"both-shm-locators"}
  IN IF split # {} THEN Split(why \cup split, warnings)
     ELSE [Verdict("SHM", "CERTAIN", why, warnings)
             EXCEPT !.locator = find_locator(reader, "SHM")]

decide_network(writer, reader, reasons, warnings) ==
  LET hidden == /\ writer.host = reader.host
                /\ writer.filtered \/ reader.filtered
                /\ has_kind(writer, "SHM") # has_kind(reader, "SHM")
      picked == pick_network_locator(writer, reader)
  IN IF Usable(writer, reader) # {}
     THEN [Verdict(picked.locator.kind, "CERTAIN",
                   reasons \cup {reason_for[picked.locator.kind]}, warnings)
             EXCEPT !.locator = picked.locator, !.multicast = picked.multicast]
     ELSE IF hidden
     THEN Verdict("UDPv4", "LIKELY", reasons \cup {"same-host-locators-hidden"}, warnings)
     ELSE Verdict("NONE", "CERTAIN", reasons \cup {"no-common-transport"}, warnings)

decide_same_type(writer, reader) ==
  LET incompatible == qos_incompatibilities(writer.qos, reader.qos)
      both == BothShm(writer, reader)
      ds == datasharing_reasons(writer.qos, reader.qos)
      same == {"same-host-guid"} \cup ds
      warnings == IpWarning(writer, reader)
      no_shm == (IF has_kind(writer, "SHM") THEN {} ELSE {"writer-no-shm-locator"})
                  \cup (IF has_kind(reader, "SHM") THEN {} ELSE {"reader-no-shm-locator"})
      ignored == IF both THEN {"shm-locators-ignored-across-hosts"} ELSE {}
  IN CASE incompatible # {} ->
            Verdict("NONE", "CERTAIN", {QosReason[p] : p \in incompatible}, {"qos-incompatible"})
       [] incompatible = {} /\ writer.host # reader.host ->
            decide_network(writer, reader, {"different-host"} \cup ignored, {})
       [] incompatible = {} /\ writer.host = reader.host ->
            IF "datasharing-qos-enabled-both" \in ds
            THEN decide_datasharing(writer, reader, same, warnings)
            ELSE IF both THEN decide_shm(writer, reader, same, warnings)
            ELSE decide_network(writer, reader, same \cup no_shm, warnings)

intra_process_pair(writer, reader) == writer.process # "" /\ writer.process = reader.process

\* EDP::valid_matching of Fast DDS 3.x: the type information when both announce it.
type_information_match(writer, reader) ==
  LET announces(e) == e.tinfo # "" \/ e.tinfo_min # ""
  IN IF ~announces(writer) \/ ~announces(reader) THEN "unknown"
     ELSE IF \/ writer.tinfo # "" /\ writer.tinfo = reader.tinfo
             \/ writer.tinfo_min # "" /\ writer.tinfo_min = reader.tinfo_min
     THEN "same" ELSE "different"

\* replace_code(): put `to` in the place of `from`, or add it.
replace_code(codes, from, to) == (codes \ {from}) \cup {to}

\* The end of decide(): two endpoints of one process never reach a transport.
MarkIntraProcess(v, writer, reader) ==
  IF intra_process_pair(writer, reader) /\ "qos-incompatible" \notin v.warnings
  THEN [v EXCEPT !.reasons =
          replace_code(@, "datasharing-unverified-by-traffic", "intra-process")]
  ELSE v

decide(writer, reader) ==
  LET match == type_information_match(writer, reader)
      names_differ == writer.dds_type # reader.dds_type
      hashes_differ == /\ ~names_differ
                       /\ writer.type_hash # "" /\ reader.type_hash # ""
                       /\ writer.type_hash # reader.type_hash
      hash_warning == IF hashes_differ THEN {"type-hash-mismatch"} ELSE {}
      renamed == IF names_differ THEN {"type-names-differ-same-type"} ELSE {}
      v == decide_same_type(writer, reader)
  IN IF match = "different" \/ (match = "unknown" /\ names_differ)
     THEN Verdict("NONE", "CERTAIN",
                  {IF names_differ THEN "type-name-mismatch" ELSE "type-information-mismatch"},
                  hash_warning)
     ELSE [MarkIntraProcess([v EXCEPT !.reasons = @ \cup renamed], writer, reader)
             EXCEPT !.warnings = @ \cup hash_warning]
==============================================================================
