------------------------------ MODULE ApplyStats ------------------------------
(***************************************************************************)
(* apply_stats() and note_unmeasured_pairs() of decision.cpp: what the     *)
(* Fast DDS statistics measured for every pair of a frame, the verdicts    *)
(* they confirm, contradict or revise, and the pairs whose delivery is     *)
(* proved without a measured packet.                                       *)
(*                                                                         *)
(* The statistics of a frame are a record: participants (that published a  *)
(* sample), traffic and lost (sequences of RTPS_SENT and RTPS_LOST entries *)
(* [src, dst, first, packets], lost with the reporter), delivered          *)
(* (<<writer, reader>> -> samples), latency (-> their summed latency),     *)
(* data_count, resent and acknacks (guid -> [first, last]), writers        *)
(* (<<participant, topic>> of the statistics writers), local (addresses of *)
(* the tool's host), limited (statistics writers keep ten instances), and  *)
(* the counts of lost samples.  Bytes, mean latencies and rates are values *)
(* only; acknacks stands for the four other reliability counters.  All of  *)
(* it is about runs with --stats: apply_stats() does nothing without it.   *)
(***************************************************************************)
EXTENDS Topics

CONSTANT kStatsWriterInstanceLimit

SumOver(S, f(_)) == FoldSet(LAMBDA x, n : f(x) + n, 0, S)
SumSeqOf(seq, f(_)) == FoldSeq(LAMBDA x, n : f(x) + n, 0, seq)

\* A counter's share of the observation, 0 when it went back.
delta(first, last) == last - (IF first < last THEN first ELSE last)

is_loopback(address) == address \in {"127.0.0.1", "::1"}
same_locator(a, b) ==
  a.kind = b.kind /\ a.port = b.port /\ (a.kind = "SHM" \/ a.address = b.address)
same_locator_local(a, b, local) ==
  \/ same_locator(a, b)
  \/ /\ a.kind = b.kind /\ a.port = b.port
     /\ \/ is_loopback(a.address) /\ b.address \in local
        \/ is_loopback(b.address) /\ a.address \in local

reader_has_locator(reader, l, local) ==
  \E rl \in ToSet(Announced(reader)) : same_locator_local(rl, l, local)
reader_has_unicast_locator(reader, l, local) ==
  \E rl \in ToSet(reader.unicast) : same_locator_local(rl, l, local)

\* A locator of another kind is of no transport the tool knows.
transport_for_kind(kind) == IF kind \in NetworkKinds \cup {"SHM"} THEN kind ELSE "NONE"

measured_reason ==
  [UDPv4 |-> "measured-udpv4-traffic", UDPv6 |-> "measured-udpv6-traffic",
   TCPv4 |-> "measured-tcpv4-traffic", TCPv6 |-> "measured-tcpv6-traffic",
   SHM |-> "measured-shm-traffic", NONE |-> "measured-unknown-traffic"]
MeasuredReasons(m) == {measured_reason[t] : t \in ToSet(m.transports)}

\* An endpoint and its native-buffer companions count as one entity.
entity_guids(e) == {e.guid} \cup e.companions

------------------------------------------------------------------------------
\* The RTPS_LOST entries of a pair: positions in stats.lost.
LostEntries(p, stats) ==
  {i \in DOMAIN stats.lost :
     /\ stats.lost[i].reporter = p.reader.participant
     /\ stats.lost[i].src = p.writer.participant
     /\ reader_has_unicast_locator(p.reader, stats.lost[i].dst, stats.local)}
LostPackets(i, stats) == delta(stats.lost[i].first, stats.lost[i].packets)

\* The RTPS_SENT entries of a pair: positions in stats.traffic.
SentEntries(p, stats) ==
  Ascending({i \in DOMAIN stats.traffic :
               /\ stats.traffic[i].src = p.writer.participant
               /\ reader_has_locator(p.reader, stats.traffic[i].dst, stats.local)
               /\ stats.traffic[i].packets > 0})

\* Struct Measurement of a pair.
measure(p, stats) ==
  LET w == entity_guids(p.writer)
      r == entity_guids(p.reader)
      sent == SentEntries(p, stats)
      lost == LostEntries(p, stats)
      kinds == [k \in 1..Len(sent) |-> transport_for_kind(stats.traffic[sent[k]].dst.kind)]
      fresh == {k \in 1..Len(sent) : \A j \in 1..(k - 1) : kinds[j] # kinds[k]}
      counted == w \cap DOMAIN stats.data_count
      proofs == (w \X r) \cap DOMAIN stats.delivered
      Window(i) == delta(stats.traffic[i].first, stats.traffic[i].packets)
      lost_available == \/ <<p.reader.participant, "rtps_lost">> \in stats.writers
                        \/ lost # {}
  IN [available |-> p.writer.participant \in stats.participants,
      delivered |-> SumOver(proofs, LAMBDA x : stats.delivered[x]) > 0,
      skew |-> SumOver((w \X r) \cap DOMAIN stats.latency, LAMBDA x : stats.latency[x]) < 0,
      transports |-> Entries(kinds, fresh),
      locators |-> [k \in 1..Len(sent) |->
                      [locator |-> stats.traffic[sent[k]].dst, packets |-> Window(sent[k])]],
      packets |-> SumSeqOf(sent, Window),
      packets_total |-> SumSeqOf(sent, LAMBDA i : stats.traffic[i].packets),
      data_count_available |->
        counted # {} \/ <<p.writer.participant, "data_count">> \in stats.writers,
      data_submessages |->
        SumOver(counted, LAMBDA g : delta(stats.data_count[g].first, stats.data_count[g].last)),
      lost_available |-> lost_available,
      lost_packets |-> SumOver(lost, LAMBDA i : LostPackets(i, stats)),
      resent |-> SumOver(w \cap DOMAIN stats.resent,
                         LAMBDA g : delta(stats.resent[g].first, stats.resent[g].last)),
      reliability |-> \/ lost_available
                      \/ w \cap DOMAIN stats.resent # {}
                      \/ r \cap DOMAIN stats.acknacks # {}]

\* Mutant: the losses of every pair added up.
topic_lost_per_pair(pairs, stats) ==
  SumOver(DOMAIN pairs, LAMBDA i : pairs[i].measured.lost_packets)

\* The losses of a topic: pairs between the same two participants share an entry.
topic_lost(pairs, stats) ==
  SumOver(UNION {LostEntries(pairs[i], stats) : i \in DOMAIN pairs},
          LAMBDA i : LostPackets(i, stats))

------------------------------------------------------------------------------
Warn(v, codes) == [v EXCEPT !.warnings = @ \cup codes]
Because(v, codes) == [v EXCEPT !.reasons = @ \cup codes]
Confirm(v, code) ==
  [v EXCEPT !.reasons = replace_code(@, "datasharing-unverified-by-traffic", code)]

UnmatchedPair(v) ==
  \/ "qos-incompatible" \in v.warnings
  \/ v.reasons \cap {"type-name-mismatch", "type-information-mismatch"} # {}
ButDelivered(v) ==
  IF "qos-incompatible" \in v.warnings THEN "qos-incompatible-but-delivered"
  ELSE IF "type-name-mismatch" \in v.reasons THEN "type-name-mismatch-but-delivered"
  ELSE "type-information-mismatch-but-delivered"

\* Mutant: only packets prove a delivery.
ContradictedIfMeasured(v, m) == IF m.delivered /\ m.packets > 0 THEN {ButDelivered(v)} ELSE {}
Contradicted(v, m) == IF m.delivered THEN {ButDelivered(v)} ELSE {}

is_datasharing_split(v) ==
  "shm-ipc-namespace-split" \in v.warnings /\ "datasharing-qos-enabled-both" \in v.reasons

check_split(v, m) ==
  LET non_shm == \E k \in DOMAIN m.locators :
                   m.locators[k].locator.kind # "SHM" /\ m.locators[k].packets > 0
      said == Because(v, MeasuredReasons(m))
  IN Warn(said, (IF m.delivered THEN {"shm-ipc-namespace-split-but-delivered"} ELSE {})
          \cup (IF "both-shm-locators" \in said.reasons /\ non_shm
                THEN {"shm-ipc-namespace-split-but-non-shm-traffic"} ELSE {}))

\* No RTPS_SENT entry of the writer's participant has a locator of the reader.
\* Mutant: no packet during the observation.
NoPacketNow(m) == m.packets = 0
NoEntry(m) == m.transports = <<>>

\* Do all readers of p's writer (pairs: the topic's, as revised so far) use data-sharing?
\* Mutants: not asked; a reader the traffic has confirmed does not count.
all_readers_assumed(p, pairs) == TRUE
all_readers_unconfirmed(p, pairs) ==
  \A q \in ToSet(pairs) :
    q.writer = p.writer =>
      q.verdict.transport = "DATA_SHARING" /\ q.verdict.confidence = "LIKELY"
all_readers_datasharing(p, pairs) ==
  \A q \in ToSet(pairs) :
    q.writer = p.writer => \/ q.verdict.transport = "DATA_SHARING"
                           \/ is_datasharing_split(q.verdict)

\* A data-sharing verdict against the traffic; pairs are the topic's as revised so far.
check_datasharing(v, m, p, pairs) ==
  LET certain == [v EXCEPT !.confidence = "CERTAIN"]
  IN IF m.delivered /\ NoEntry(m) THEN
       Confirm(certain, "datasharing-confirmed-no-traffic")
     ELSE IF m.delivered /\ m.data_count_available THEN
       IF ~all_readers_datasharing(p, pairs) THEN Confirm(v, "datasharing-ambiguous-mixed-readers")
       ELSE IF m.data_submessages = 0 THEN
         Confirm(certain, "datasharing-confirmed-no-data-submessages")
       ELSE Warn(Because(Confirm([certain EXCEPT !.transport = m.transports[1]],
                                 "datasharing-data-submessages-sent"),
                         MeasuredReasons(m)), {"datasharing-not-used"})
     ELSE IF m.transports # <<>> THEN Confirm(v, "datasharing-ambiguous-participant-traffic")
     ELSE Confirm(v, "datasharing-no-delivery-observed")

\* A verdict on a transport without any RTPS_SENT entry for the reader.
check_silent(v, m, p, stats) ==
  LET reported == Cardinality({i \in DOMAIN stats.traffic :
                                 stats.traffic[i].src = p.writer.participant})
  IN Warn(v, {IF stats.limited /\ reported >= kStatsWriterInstanceLimit
              THEN "stats-writer-instance-limit-suspected"
              ELSE IF m.delivered THEN "delivered-without-measured-traffic"
              ELSE "no-traffic-observed"})

check_traffic(v, m, stats) ==
  LET matches == v.transport \in ToSet(m.transports)
      elsewhere == /\ matches /\ v.locator # NoLocator
                   /\ \A k \in DOMAIN m.locators :
                        ~same_locator_local(m.locators[k].locator, v.locator, stats.local)
  IN Warn([Because(v, MeasuredReasons(m))
             EXCEPT !.confidence = IF matches THEN "CERTAIN" ELSE @],
          (IF matches THEN {} ELSE {"measured-transport-mismatch"})
          \cup (IF m.packets = 0 /\ m.delivered THEN {"delivered-without-measured-traffic"}
                ELSE {})
          \cup (IF elsewhere THEN {"measured-locator-mismatch"} ELSE {}))

\* Measured packets contradict the prediction that the samples stay in the process.
NotIntra(v) == [v EXCEPT !.reasons = @ \ {"intra-process"}]

revise(p, pairs, stats) ==
  LET m == p.measured
      v == Warn(p.verdict,
                (IF m.lost_packets > 0 THEN {"rtps-packets-lost"} ELSE {})
                \cup (IF m.skew THEN {"latency-clock-skew-suspected"} ELSE {}))
      intra == "intra-process" \in v.reasons
      out == IF intra THEN NotIntra(v) ELSE v
  IN IF UnmatchedPair(v) THEN Warn(v, Contradicted(v, m))
     ELSE IF "shm-ipc-namespace-split" \in v.warnings THEN check_split(v, m)
     ELSE IF ~m.available THEN Warn(v, {"stats-not-enabled-on-writer"})
     ELSE IF intra /\ m.packets = 0
          THEN Warn(v, IF m.delivered THEN {} ELSE {"no-traffic-observed"})
     ELSE IF out.transport = "DATA_SHARING" THEN check_datasharing(out, m, p, pairs)
     ELSE IF m.transports = <<>> THEN check_silent(out, m, p, stats)
     ELSE check_traffic(out, m, stats)

\* The pairs of a topic in the given order, each on what the ones before it have become.
ReviseInOrder(pairs, order, stats) ==
  LET after[k \in 0..Len(order)] ==
        IF k = 0 THEN pairs
        ELSE [after[k - 1] EXCEPT ![order[k]].verdict =
                revise(after[k - 1][order[k]], after[k - 1], stats)]
  IN after[Len(order)]

apply_stats(topics, stats) ==
  LET Measured(t) ==
        [i \in DOMAIN t.pairs |->
           [writer |-> t.pairs[i].writer, reader |-> t.pairs[i].reader,
            verdict |-> t.pairs[i].verdict, measured |-> measure(t.pairs[i], stats)]]
      Applied(t) ==
        LET pairs == Measured(t)
        IN With(t,
             [pairs |-> ReviseInOrder(pairs, [i \in 1..Len(pairs) |-> i], stats),
              lost_packets |-> topic_lost(pairs, stats),
              lost_available |-> \E q \in ToSet(pairs) : q.measured.lost_available,
              reliability_available |-> \E q \in ToSet(pairs) : q.measured.reliability,
              resent |-> SumOver(DOMAIN pairs, LAMBDA i : pairs[i].measured.resent)])
  IN [x \in DOMAIN topics |-> Applied(topics[x])]

------------------------------------------------------------------------------
statistics_counter_samples_lost(stats) ==
  IF stats.samples_lost > stats.samples_lost_latency
  THEN stats.samples_lost - stats.samples_lost_latency ELSE 0
CounterLoss(stats) == statistics_counter_samples_lost(stats) + stats.samples_rejected

\* Mutant: the pairs of one process count too.
counted_with_intra(p) ==
  /\ p.measured.available /\ p.measured.delivered
  /\ p.verdict.transport # "DATA_SHARING"
  /\ p.verdict.warnings \cap {"qos-incompatible", "shm-ipc-namespace-split",
                              "stats-writer-instance-limit-suspected"} = {}

counted_as_delivered(p) ==
  /\ p.measured.available /\ p.measured.delivered
  /\ p.verdict.transport # "DATA_SHARING"
  /\ "intra-process" \notin p.verdict.reasons
  /\ p.verdict.warnings \cap {"qos-incompatible", "shm-ipc-namespace-split",
                              "stats-writer-instance-limit-suspected"} = {}

\* Delivered without a packet during the observation, and without any that a lost statistics
\* sample explains.
Unmeasured(p) == counted_as_delivered(p) /\ p.measured.packets = 0
\* Mutant: of all delivered pairs.
AbsentOfDelivered(p, stats) ==
  counted_as_delivered(p) /\ (CounterLoss(stats) = 0 \/ p.measured.packets_total = 0)
Absent(p, stats) ==
  Unmeasured(p) /\ (CounterLoss(stats) = 0 \/ p.measured.packets_total = 0)

note_unmeasured_pairs(topics, stats) ==
  LET pairs == UNION {{<<t, i>> : i \in DOMAIN topics[t].pairs} : t \in DOMAIN topics}
      PairAt(x) == topics[x[1]].pairs[x[2]]
      n == Cardinality({x \in pairs : Unmeasured(PairAt(x))})
      a == Cardinality({x \in pairs : Absent(PairAt(x), stats)})
  IN [delivered |-> Cardinality({x \in pairs : counted_as_delivered(PairAt(x))}),
      unmeasured |-> n, absent |-> a,
      warnings |-> (IF CounterLoss(stats) > 0 /\ n > a THEN {"stats-samples-lost"} ELSE {})
                     \cup (IF a > 0 THEN {"rtps-sent-absent"} ELSE {})]
==============================================================================
