------------------------------- MODULE Document -------------------------------
(***************************************************************************)
(* A frame as a JSON document and back (render_json.cpp, parse_json.cpp),  *)
(* and transport_viz diff on two documents (run_diff() of main.cpp).       *)
(*                                                                         *)
(* A JSON object is a record or a function on strings; a value that may be *)
(* null is a sequence, empty for null.  The array of topics is a function  *)
(* on their DDS names.  The text of a GUID carries what is read from its   *)
(* bytes.  Labels, descriptions, latencies, rates and bytes are left out,  *)
(* as is what a document carries without a use in a later diff.            *)
(*                                                                         *)
(* A snapshot is a record of topics (module ApplyStats), stats, and the    *)
(* report: discovery, participants and shm.                                *)
(***************************************************************************)
EXTENDS ApplyStats, Changes

CONSTANT Infinite   \* an infinite duration, above every other one
ASSUME InfiniteAssumption == Infinite \in Nat

Null == <<>>
NullUnless(has, v) == IF has THEN <<v>> ELSE Null
Given(j, fallback) == IF j = Null THEN fallback ELSE j[1]
value(j, key, fallback) == IF key \in DOMAIN j THEN j[key] ELSE fallback
\* Mutant: no number is zero.
number_or_zero(j, fallback) == IF j = Null THEN 0 ELSE j[1]
number_or(j, fallback) == Given(j, fallback)

------------------------------------------------------------------------------
\* render_json.cpp
selected_locator_json(v) == NullUnless(v.locator # NoLocator, v.locator)

qos_json(q) ==
  [reliability |-> q.reliability, durability |-> q.durability, data_sharing |-> q.data_sharing,
   data_sharing_domain_ids |-> q.domains,
   deadline_s |-> NullUnless(q.deadline # Infinite, q.deadline),
   liveliness |-> q.liveliness,
   liveliness_lease_s |-> NullUnless(q.lease # Infinite, q.lease),
   ownership |-> q.ownership, partitions |-> q.partitions]

endpoint_json(e) ==
  [guid |-> [id |-> e.guid, process |-> e.process, key |-> e.key, kind |-> e.entity_kind],
   participant_guid_prefix |-> e.participant, host_id |-> e.host, node |-> e.node,
   dds_topic |-> e.topic, dds_type |-> e.dds_type, type_hash |-> e.type_hash,
   type_information_hash |-> e.tinfo, type_information_minimal_hash |-> e.tinfo_min,
   unicast_locators |-> e.unicast, multicast_locators |-> e.multicast,
   datasharing_segment_visibility |-> e.segment, qos |-> qos_json(e.qos)]
  @@ (IF e.parent # 0 THEN [buffer_parent_guid |-> e.parent] ELSE <<>>)

measured_json(m) ==
  [available |-> m.available, transports |-> m.transports, locators |-> m.locators,
   packets |-> m.packets, packets_total |-> m.packets_total, delivered |-> m.delivered,
   reliability |-> NullUnless(m.reliability,
                     [lost_packets |-> NullUnless(m.lost_available, m.lost_packets),
                      resent_datas |-> m.resent]),
   data_submessages |-> NullUnless(m.data_count_available, m.data_submessages)]

pair_json(p) ==
  [writer_guid |-> p.writer.guid, reader_guid |-> p.reader.guid,
   transport |-> p.verdict.transport, locator |-> selected_locator_json(p.verdict),
   confidence |-> p.verdict.confidence, reasons |-> p.verdict.reasons,
   warnings |-> p.verdict.warnings, measured |-> measured_json(p.measured)]

Each(seq, F(_)) == [i \in DOMAIN seq |-> F(seq[i])]

DirectionText == [none |-> ""] @@ ("to-server" :> "to_server") @@ ("to-client" :> "to_client")

topic_json(t) ==
  [dds_topic |-> t.topic, kind |-> t.kind, group |-> t.group,
   direction |-> DirectionText[t.direction], unmatched_reasons |-> t.unmatched,
   lost_packets |-> NullUnless(t.lost_available, t.lost_packets),
   resent_datas |-> NullUnless(t.reliability_available, t.resent),
   writers |-> Each(t.writers, endpoint_json), readers |-> Each(t.readers, endpoint_json),
   pairs |-> Each(t.pairs, pair_json)]

\* An observation always has a reason to have stopped.
discovery_json(d) ==
  IF d.stopped_on = "" THEN <<>>
  ELSE [discovery |->
         [complete |-> NullUnless(d.complete # "unset", d.complete),
          stopped_on |-> d.stopped_on, announced_not_discovered |-> d.missing]]

participants_json(ps) ==
  IF ps = <<>> THEN <<>>
  ELSE [participants |->
         Each(ps, LAMBDA p : [guid_prefix |-> p.prefix, own |-> p.own,
                              discovery_server |-> NullUnless(p.server # "", p.server),
                              shm_visibility |-> p.visibility, shm_ports |-> p.ports])]

shm_json(s) ==
  [available |-> s.available, warnings |-> s.warnings]
  @@ (IF ~s.available THEN <<>>
      ELSE [checked_ports |-> s.checked, missing_ports |-> s.missing,
            unknown_ports |-> s.unknown, nodes_visible |-> s.visible])

traffic_json(t) ==
  [src_participant_guid_prefix |-> t.src, dst_locator |-> t.dst, packets |-> t.packets,
   packets_first |-> t.first]

stats_json(s) ==
  [participants_with_stats |-> s.participants, statistics_writers |-> s.writers,
   data_count |-> s.data_count, traffic |-> Each(s.traffic, traffic_json),
   lost |-> Each(s.lost, LAMBDA l : [reporter_participant_guid_prefix |-> l.reporter]
                                      @@ traffic_json(l)),
   samples_lost |-> s.samples_lost, samples_lost_latency |-> s.samples_lost_latency,
   samples_rejected |-> s.samples_rejected, pairs_delivered |-> s.counts.delivered,
   pairs_delivered_unmeasured |-> s.counts.unmeasured,
   pairs_delivered_absent |-> s.counts.absent, warnings |-> s.counts.warnings]

\* The codes that the document explains.
codes_of(snap) ==
  UNION {t.unmatched \cup UNION {p.verdict.reasons \cup p.verdict.warnings : p \in ToSet(t.pairs)}
           : t \in {snap.topics[x] : x \in DOMAIN snap.topics}}
  \cup snap.shm.warnings \cup snap.stats.counts.warnings

render_json(snap) ==
  [schema_version |-> 1, topics |-> [x \in DOMAIN snap.topics |-> topic_json(snap.topics[x])],
   reason_code_descriptions |-> codes_of(snap), stats |-> stats_json(snap.stats),
   shm |-> shm_json(snap.shm)]
  @@ discovery_json(snap.discovery) @@ participants_json(snap.participants)

------------------------------------------------------------------------------
\* parse_json.cpp
parse_qos(j) ==
  [reliability |-> j.reliability, durability |-> j.durability, data_sharing |-> j.data_sharing,
   domains |-> value(j, "data_sharing_domain_ids", {}),
   deadline |-> number_or(value(j, "deadline_s", Null), Infinite),
   liveliness |-> value(j, "liveliness", "AUTOMATIC"),
   lease |-> number_or(value(j, "liveliness_lease_s", Null), Infinite),
   ownership |-> value(j, "ownership", "SHARED"), partitions |-> value(j, "partitions", {})]

\* What is not written was only used to decide.
parse_endpoint(j, is_writer) ==
  [guid |-> j.guid.id, process |-> j.guid.process, key |-> j.guid.key,
   entity_kind |-> j.guid.kind, is_writer |-> is_writer,
   participant |-> j.participant_guid_prefix, host |-> j.host_id, node |-> j.node,
   parent |-> value(j, "buffer_parent_guid", 0), companions |-> {}, topic |-> j.dds_topic,
   dds_type |-> j.dds_type, type_hash |-> value(j, "type_hash", ""),
   tinfo |-> value(j, "type_information_hash", ""),
   tinfo_min |-> value(j, "type_information_minimal_hash", ""),
   unicast |-> j.unicast_locators, multicast |-> j.multicast_locators,
   segment |-> value(j, "datasharing_segment_visibility", "unprobed"),
   qos |-> parse_qos(j.qos), ports |-> {}, visibility |-> "unprobed", filtered |-> FALSE]

measurement(j) ==
  LET reliability == value(j, "reliability", Null)
      r == Given(reliability, [lost_packets |-> Null, resent_datas |-> 0])
      lost == value(r, "lost_packets", Null)
      submessages == value(j, "data_submessages", Null)
  IN [available |-> j.available, transports |-> j.transports, locators |-> j.locators,
      packets |-> j.packets, packets_total |-> value(j, "packets_total", 0),
      delivered |-> j.delivered, reliability |-> reliability # Null,
      lost_available |-> lost # Null, lost_packets |-> Given(lost, 0),
      resent |-> value(r, "resent_datas", 0), data_count_available |-> submessages # Null,
      data_submessages |-> Given(submessages, 0)]

parse_traffic(j) ==
  [src |-> j.src_participant_guid_prefix, dst |-> j.dst_locator, packets |-> j.packets,
   first |-> value(j, "packets_first", 0)]

parse_stats(j) ==
  [participants |-> j.participants_with_stats, writers |-> value(j, "statistics_writers", {}),
   traffic |-> Each(j.traffic, parse_traffic),
   lost |-> Each(value(j, "lost", <<>>),
                 LAMBDA l : [reporter |-> value(l, "reporter_participant_guid_prefix", "")]
                              @@ parse_traffic(l)),
   data_count |-> value(j, "data_count", <<>>), samples_lost |-> value(j, "samples_lost", 0),
   samples_lost_latency |-> value(j, "samples_lost_latency", 0),
   samples_rejected |-> value(j, "samples_rejected", 0),
   counts |-> [delivered |-> value(j, "pairs_delivered", 0),
               unmeasured |-> value(j, "pairs_delivered_unmeasured", 0),
               absent |-> value(j, "pairs_delivered_absent", 0),
               warnings |-> value(j, "warnings", {})]]

parse_shm(j) ==
  [available |-> j.available, checked |-> value(j, "checked_ports", <<>>),
   missing |-> value(j, "missing_ports", <<>>), unknown |-> value(j, "unknown_ports", <<>>),
   visible |-> value(j, "nodes_visible", TRUE), warnings |-> j.warnings]

parse_participant(j) ==
  [prefix |-> j.guid_prefix, own |-> value(j, "own", FALSE),
   server |-> Given(value(j, "discovery_server", Null), ""),
   visibility |-> value(j, "shm_visibility", "unprobed"), ports |-> value(j, "shm_ports", <<>>)]

parse_discovery(doc) ==
  LET d == value(doc, "discovery", [stopped_on |-> ""])
  IN [complete |-> Given(value(d, "complete", Null), "unset"), stopped_on |-> d.stopped_on,
      missing |-> value(d, "announced_not_discovered", 0)]

\* The endpoints of all topics; a parent knows its companions by what they say of it.
parse_endpoints(doc) ==
  LET Of(t) == {parse_endpoint(j, TRUE) : j \in ToSet(t.writers)}
                 \cup {parse_endpoint(j, FALSE) : j \in ToSet(t.readers)}
      all == UNION {Of(doc.topics[x]) : x \in DOMAIN doc.topics}
  IN {[e EXCEPT !.companions = {c.guid : c \in {d \in all : d.parent = e.guid}}] : e \in all}

parse_topic(tj, endpoints) ==
  LET Find(g) == CHOOSE e \in endpoints : e.guid = g
      Listed(js) == Each(js, LAMBDA j : Find(j.guid.id))
      Verdict_(p) == [transport |-> p.transport, confidence |-> p.confidence,
                      locator |-> Given(p.locator, NoLocator), reasons |-> p.reasons,
                      warnings |-> p.warnings]
      first == (tj.writers \o tj.readers)[1]
      lost == value(tj, "lost_packets", Null)
      resent == value(tj, "resent_datas", Null)
  IN [topic |-> tj.dds_topic, dds_type |-> first.dds_type, unmatched |-> tj.unmatched_reasons,
      writers |-> Listed(tj.writers), readers |-> Listed(tj.readers),
      lost_available |-> lost # Null, lost_packets |-> Given(lost, 0),
      reliability_available |-> resent # Null \/ lost # Null, resent |-> Given(resent, 0),
      pairs |-> Each(tj.pairs, LAMBDA p :
                  [writer |-> Find(p.writer_guid), reader |-> Find(p.reader_guid),
                   verdict |-> Verdict_(p), measured |-> measurement(p.measured)])]

\* kind, group and direction as written, in the words of this version.
IsClassified(tj) ==
  /\ {"kind", "direction"} \subseteq DOMAIN tj
  /\ tj.kind \in {"topic", "service", "action", "other"}
  /\ \E d \in DOMAIN DirectionText : DirectionText[d] = tj.direction
Written(tj) ==
  IF IsClassified(tj)
  THEN [kind |-> tj.kind, group |-> value(tj, "group", ""),
        direction |-> CHOOSE d \in DOMAIN DirectionText : DirectionText[d] = tj.direction]
  ELSE [kind |-> "other", group |-> "", direction |-> "none"]
\* Mutant: topics without them stay plain.
as_written(doc, topics) == [x \in DOMAIN topics |-> Written(doc.topics[x]) @@ topics[x]]
\* All of them are derived from the names again when one topic lacks them.
classified(doc, topics) ==
  IF \A x \in DOMAIN doc.topics : IsClassified(doc.topics[x])
  THEN as_written(doc, topics)
  ELSE classify_topics(topics)

\* The last of the documents counts (JSON Lines).
parse_json(documents) ==
  LET doc == Last(documents)
      endpoints == parse_endpoints(doc)
      topics == [x \in DOMAIN doc.topics |-> parse_topic(doc.topics[x], endpoints)]
  IN [topics |-> classified(doc, topics), stats |-> parse_stats(doc.stats),
      discovery |-> parse_discovery(doc),
      shm |-> parse_shm(value(doc, "shm", [available |-> FALSE, warnings |-> {}])),
      participants |-> Each(value(doc, "participants", <<>>), parse_participant)]

------------------------------------------------------------------------------
\* The view options on a document that was read, o.topics standing for --topic.
apply_node_filter(topics, nodes) ==
  IF nodes = {} THEN topics ELSE filter_by_node(topics, nodes)

\* Mutant: the default view goes by the kind of a topic only.
view_by_kind(topics, o) ==
  apply_node_filter([x \in {d \in DOMAIN topics : o.all \/ topics[d].kind = "topic"}
                       |-> topics[x]], o.nodes)
apply_view_filters(topics, o) ==
  apply_node_filter([x \in {d \in DOMAIN topics : /\ o.all \/ in_default_view(topics[d])
                                                 /\ d \in o.topics} |-> topics[x]], o.nodes)

run_diff(before, after, o, mode) ==
  LET View(documents) == apply_view_filters(parse_json(documents).topics, o)
  IN diff_snapshots(View(before), View(after), mode)
==============================================================================
