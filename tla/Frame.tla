--------------------------------- MODULE Frame ---------------------------------
(***************************************************************************)
(* A frame of the tool, from the discovered endpoints and the statistics   *)
(* to the topics and pairs that are shown: the part of collect() (main.cpp)*)
(* that follows the reads modelled in module Collect, composed of modules  *)
(* Topics, Decision and ApplyStats.                                        *)
(*                                                                         *)
(* Around it is a small world: endpoints that are discovered in any order  *)
(* and leave, writers that publish, heartbeats, lost packets, and          *)
(* statistics that reach the tool late and one counter at a time.  What    *)
(* really happens between two endpoints is part of the scenario, so that   *)
(* what a frame says can be compared with it.                              *)
(***************************************************************************)
EXTENDS Document, Codes

CONSTANT
  Scenarios   \* the endpoints, the <<writer, reader>> that really share memory (copies) or use
              \* a transport (sends), parents (companion -> parent), the names of real actions,
              \* limited, the endpoints known at first (known), bounds: how many samples
              \* are published, heartbeats to a locator, losses, endpoints that leave;
              \* report: the discovery status, participants and shm scan in its documents; and
              \* options, each [all, topics, nodes]: --all, what --topic and --node match
ASSUME ScenariosAssumption ==
  /\ kStatsWriterInstanceLimit \in Nat
  /\ \A s \in Scenarios :
       /\ s.endpoints \subseteq Endpoint /\ IsFiniteSet(s.endpoints)
       /\ s.known \subseteq {e.guid : e \in s.endpoints}
       /\ s.copies \cap s.sends = {}
       /\ {s.bounds.published, s.bounds.beats, s.bounds.lost, s.bounds.left} \subseteq Nat

\* A participant numbers its endpoints, and rmw_fastrtps creates a companion right after its
\* parent; the type of an action's member is the type of an action.
ASSUME WorldAssumption ==
  \A s \in Scenarios :
    /\ \A e, f \in s.endpoints : e.participant = f.participant /\ e.key = f.key => e = f
    /\ \A c \in s.endpoints :
         c.guid \in DOMAIN s.parents =>
           \E p \in Candidates(c, s.endpoints) :
             /\ p.guid = s.parents[c.guid]
             /\ p.key + 1 = c.key /\ p.entity_kind = c.entity_kind
    /\ \A e \in s.endpoints :
         LET m == parse_action_member(e.topic, e.dds_type)
         IN m.action_type # "" => m.action \in s.actions

VARIABLES
  scenario,   \* the scenario of this behaviour
  system,     \* guids of the endpoints that exist
  known,      \* guids of the discovered ones
  truth,      \* [data, sent, lost, delivered]: the counters of the observed processes
  slots,      \* counter -> [first, last] as StatsObserver keeps them, once a sample came
  dropped,    \* statistics samples the tool lost
  frame       \* the frame being shown, or NoFrame
frameVars == <<scenario, system, known, truth, slots, dropped, frame>>

NoFrame == [shown |-> FALSE]

EndpointOf(guid) == CHOOSE e \in scenario.endpoints : e.guid = guid
Endpoints(guids) == {e \in scenario.endpoints : e.guid \in guids}

------------------------------------------------------------------------------
\* The statistics of a frame from the slots, and from the discovered statistics writers.
Slot(c) == [first |-> slots[c].first, last |-> slots[c].last]
Taken(kind) == {c \in DOMAIN slots : c[1] = kind}
Entry(c) == [src |-> c[2], dst |-> c[3], first |-> slots[c].first, packets |-> slots[c].last]

statistics_writers(endpoints) ==
  {<<e.participant, TopicInfo[e.topic].name>> :
     e \in {d \in endpoints : d.is_writer /\ TopicInfo[d.topic].kind = "statistics"}}

\* The participant that publishes a counter: the writer's, or the reader's for what arrives.
Publisher(c) ==
  CASE c[1] = "sent" -> c[2]
    [] c[1] = "lost" -> c[4]
    [] c[1] = "data" -> EndpointOf(c[2]).participant
    [] c[1] = "delivered" -> EndpointOf(c[2][2]).participant

\* The order of the maps traffic_ and lost_.
KindRank == [Invalid |-> 0, UDPv4 |-> 1, UDPv6 |-> 2, TCPv4 |-> 3, TCPv6 |-> 4, SHM |-> 5]
Sorted(counters) ==
  LET Rank(c) == 10000 * KindRank[c[3].kind] + c[3].port
  IN SetToSortSeq(counters, LAMBDA c, d : Rank(c) < Rank(d))

Statistics ==
  [participants |-> {Publisher(c) : c \in DOMAIN slots},
   traffic |-> [i \in 1..Cardinality(Taken("sent")) |-> Entry(Sorted(Taken("sent"))[i])],
   lost |-> LET s == Sorted(Taken("lost"))
            IN [i \in DOMAIN s |-> [reporter |-> s[i][4]] @@ Entry(s[i])],
   delivered |-> [x \in {c[2] : c \in Taken("delivered")} |-> slots[<<"delivered", x>>].last],
   latency |-> <<>>,
   data_count |-> [g \in {c[2] : c \in Taken("data")} |-> Slot(<<"data", g>>)],
   resent |-> <<>>, acknacks |-> <<>>,
   writers |-> statistics_writers(Endpoints(known)),
   local |-> {}, limited |-> scenario.limited,
   samples_lost |-> dropped, samples_lost_latency |-> 0, samples_rejected |-> 0]

\* What collect() keeps of the endpoints: the default view, the tool's own topics, --topic.
Kept(endpoints, o) ==
  {e \in endpoints :
     /\ o.all \/ TopicInfo[e.topic].kind = "topic"
     /\ TopicInfo[e.topic].kind # "statistics"
     /\ e.topic \in o.topics}

\* The rest of collect(), in its order.
FrameOf(o) ==
  LET linked == link_buffer_companions(Endpoints(known))
      topics0 == summarize(Kept(linked, o))
      viewed == apply_node_filter(apply_default_view(topics0, o.all), o.nodes)
      topics == apply_stats(viewed, Statistics)
  IN [shown |-> TRUE, options |-> o, linked |-> linked, all_topics |-> topics0,
      predicted |-> viewed, topics |-> topics,
      counts |-> note_unmeasured_pairs(topics, Statistics)]

AllOptions == [all |-> TRUE, topics |-> DOMAIN TopicInfo, nodes |-> {}]
DefaultOptions == [AllOptions EXCEPT !.all = FALSE]

\* The document of the frame on screen (--json), which has the counters of its moment.
SnapshotShown ==
  [topics |-> frame.topics, stats |-> [counts |-> frame.counts] @@ Statistics] @@ scenario.report
DocumentShown == render_json(SnapshotShown)

------------------------------------------------------------------------------
\* The world.
Live(pairs) == {x \in pairs : {x[1], x[2]} \subseteq system}
PortOf(g) == Announced(EndpointOf(g))[1]
SentTo(x) == <<"sent", EndpointOf(x[1]).participant, PortOf(x[2])>>
Count(c) == IF c \in DOMAIN truth THEN truth[c] ELSE 0
Grow(counters) ==
  truth' = [c \in DOMAIN truth \cup counters |-> Count(c) + (IF c \in counters THEN 1 ELSE 0)]

Discover ==
  /\ ~frame.shown
  /\ \E g \in system \ known : known' = known \cup {g}
  /\ UNCHANGED <<scenario, system, truth, slots, dropped, frame>>

Leave ==
  /\ ~frame.shown
  /\ Cardinality(scenario.endpoints) - Cardinality(system) < scenario.bounds.left
  /\ \E g \in system : system' = system \ {g} /\ known' = known \ {g}
  /\ UNCHANGED <<scenario, truth, slots, dropped, frame>>

\* A sample of w: zero copy to the readers that share memory, DATA to the others.
Publish ==
  /\ ~frame.shown
  /\ \E w \in {x[1] : x \in scenario.copies \cup scenario.sends} \cap system :
       LET sends == {x \in Live(scenario.sends) : x[1] = w}
           copies == {x \in Live(scenario.copies) : x[1] = w}
       IN /\ Count(<<"published">>) < scenario.bounds.published
          /\ Grow({<<"published">>} \cup {SentTo(x) : x \in sends}
                                  \cup {<<"data", x[1]>> : x \in sends}
                                  \cup {<<"delivered", x>> : x \in sends \cup copies})
  /\ UNCHANGED <<scenario, system, known, slots, dropped, frame>>

\* A packet without DATA, such as a heartbeat, to a reader's locator.
Heartbeat ==
  /\ ~frame.shown
  /\ \E x \in Live(scenario.copies) :
       /\ Count(<<"beat", SentTo(x)>>) < scenario.bounds.beats
       /\ Grow({SentTo(x), <<"beat", SentTo(x)>>})
  /\ UNCHANGED <<scenario, system, known, slots, dropped, frame>>

LostOn(x) ==
  <<"lost", EndpointOf(x[1]).participant, PortOf(x[2]), EndpointOf(x[2]).participant>>

LosePacket ==
  /\ ~frame.shown
  /\ \E x \in Live(scenario.sends) :
       /\ Count(LostOn(x)) < scenario.bounds.lost
       /\ Grow({LostOn(x)})
  /\ UNCHANGED <<scenario, system, known, slots, dropped, frame>>

Counters == {c \in DOMAIN truth : c[1] \in {"data", "sent", "lost", "delivered"}}
Arrived(c) == c \in DOMAIN slots /\ slots[c].last = truth[c]

\* A sample of a counter is taken; the first one is the base line of the observation.
TakeStatistics ==
  /\ ~frame.shown
  /\ \E c \in Counters :
       /\ ~Arrived(c)
       /\ slots' = [k \in DOMAIN slots \cup {c} |->
                      IF k # c THEN slots[k]
                      ELSE [first |-> IF c \in DOMAIN slots THEN slots[c].first ELSE truth[c],
                            last |-> truth[c]]]
  /\ UNCHANGED <<scenario, system, known, truth, dropped, frame>>

LoseStatistics ==
  /\ ~frame.shown
  /\ dropped < scenario.bounds.lost
  /\ dropped' = dropped + 1
  /\ UNCHANGED <<scenario, system, known, truth, slots, frame>>

Collect ==
  /\ ~frame.shown
  /\ \E o \in scenario.options : frame' = FrameOf(o)
  /\ UNCHANGED <<scenario, system, known, truth, slots, dropped>>

Show ==
  /\ frame.shown
  /\ frame' = NoFrame
  /\ UNCHANGED <<scenario, system, known, truth, slots, dropped>>

FrameInit ==
  /\ scenario \in Scenarios
  /\ system = {e.guid : e \in scenario.endpoints}
  /\ known = scenario.known
  /\ truth = <<>>
  /\ slots = <<>>
  /\ dropped = 0
  /\ frame = NoFrame

FrameNext ==
  \/ Discover \/ Leave \/ Publish \/ Heartbeat \/ LosePacket \/ TakeStatistics
  \/ LoseStatistics \/ Collect \/ Show

FrameSpec == FrameInit /\ [][FrameNext]_frameVars

------------------------------------------------------------------------------
\* count_measurable_pairs(): the pairs the statistics can measure, counted per process.
\* Mutant: the endpoints of other vendors share one group.
ProcessKeyOfVendor(e) == <<"process", e.process>>
ProcessKey(e) == IF e.process = "" THEN <<"endpoint", e.guid>> ELSE <<"process", e.process>>

count_measurable_pairs(endpoints) ==
  LET N(S) == Cardinality(S)
      Of(t) == {e \in endpoints : e.topic = t}
      W(t) == {e \in Of(t) : e.is_writer}
      R(t) == {e \in Of(t) : ~e.is_writer}
      Same(t) == SumOver({ProcessKey(e) : e \in Of(t)},
                   LAMBDA k : N({e \in W(t) : ProcessKey(e) = k})
                                * N({e \in R(t) : ProcessKey(e) = k}))
  IN SumOver({e.topic : e \in endpoints}, LAMBDA t : N(W(t)) * N(R(t)) - Same(t))

------------------------------------------------------------------------------
PairsShown == UNION {ToSet(frame.topics[t].pairs) : t \in DOMAIN frame.topics}
Guids(p) == <<p.writer.guid, p.reader.guid>>
CodesOf(p) == p.verdict.reasons \cup p.verdict.warnings

\* Type correctness: only what exists is discovered, the topics shown are among the
\* summarised ones, verdicts name a transport, and of the pairs counted as delivered the
\* unmeasured ones are a part, of those the ones without RTPS_SENT.
FrameTypes ==
  /\ system \subseteq {e.guid : e \in scenario.endpoints}
  /\ known \subseteq system
  /\ dropped \in 0..scenario.bounds.lost
  /\ frame.shown =>
       /\ DOMAIN frame.topics \subseteq DOMAIN frame.all_topics
       /\ \A p \in PairsShown : /\ p.verdict.transport \in Transports
                               /\ p.verdict.confidence \in {"CERTAIN", "LIKELY"}
       /\ frame.counts.absent <= frame.counts.unmeasured
       /\ frame.counts.unmeasured <= frame.counts.delivered

\* The transports two endpoints have in common, from what both announce.
InCommon(w, r) ==
  LET Kinds(e) == {l.kind : l \in ToSet(e.unicast) \cup ToSet(e.multicast)}
      apart == w.qos.domains # {} /\ r.qos.domains # {} /\ w.qos.domains \cap r.qos.domains = {}
      enabled == {w.qos.data_sharing, r.qos.data_sharing} \subseteq {"on", "auto"}
  IN {k \in Kinds(w) \cap Kinds(r) : k \in NetworkKinds \/ (k = "SHM" /\ w.host = r.host)}
     \cup (IF w.host = r.host /\ enabled /\ ~apart THEN {"DATA_SHARING"} ELSE {})

\* Of the transports w and r have in common v names the fastest, at a locator of the reader.
Fastest(v, w, r) ==
  LET common == InCommon(w, r)
  IN /\ CASE "DATA_SHARING" \in common -> v.transport = "DATA_SHARING"
          [] common \cap {"SHM", "DATA_SHARING"} = {"SHM"} -> v.transport = "SHM"
          [] common \cap {"SHM", "DATA_SHARING"} = {} ->
               \/ v.transport \in common
               \/ common = {} /\ v.transport = "NONE"
               \/ common = {} /\ v.transport = "UDPv4" /\ v.confidence = "LIKELY"
     /\ v.locator # NoLocator =>
          v.locator.kind = v.transport /\ v.locator \in ToSet(Announced(r))

\* decide(): of the transports two matching endpoints have in common the verdict names the
\* fastest, at a locator the reader announces, and NONE only when there is none (Fast DDS may
\* hide the locators of the own host; the guess is then UDPv4 and only LIKELY).
VerdictFastest ==
  frame.shown =>
    \A t \in DOMAIN frame.predicted : \A p \in ToSet(frame.predicted[t].pairs) :
      ~UnmatchedPair(p.verdict) /\ "shm-ipc-namespace-split" \notin p.verdict.warnings =>
        Fastest(p.verdict, p.writer, p.reader)

\* link_buffer_companions(): in whatever order the endpoints of a process are discovered, and
\* whatever the filters drop, a companion whose parent is discovered is linked to that parent.
LinkTrue ==
  frame.shown =>
    \A c \in Endpoints(known \cap DOMAIN scenario.parents) :
      scenario.parents[c.guid] \in known =>
        \E e \in frame.linked : e.guid = c.guid /\ e.parent = scenario.parents[c.guid]

\* filter_by_node(): --node hides endpoints, never the partners of those it shows, so a topic
\* is said to have no writer or reader only when none is discovered.
UnmatchedTrue ==
  frame.shown =>
    \A t \in DOMAIN frame.topics :
      LET none == frame.topics[t].unmatched
          all == {e \in Endpoints(known) : e.topic = t}
      IN /\ "no-matching-writer" \in none <=> ~\E e \in all : e.is_writer
         /\ "no-matching-reader" \in none <=> \A e \in all : e.is_writer

\* display_rows(): every pair of a service or action travels in one row, and there from the
\* row's client participant to its server participant or back.
RowsTrue ==
  frame.shown =>
    LET rows == display_rows(frame.topics).groups
        PairAt(x) == frame.topics[x[1]].pairs[x[2]]
    IN /\ \A k \in DOMAIN rows :
            /\ \A x \in rows[k].to_server : /\ PairAt(x).writer.participant = k[2]
                                           /\ PairAt(x).reader.participant = k[3]
            /\ \A x \in rows[k].to_client : /\ PairAt(x).writer.participant = k[3]
                                           /\ PairAt(x).reader.participant = k[2]
       /\ \A t \in DOMAIN frame.topics :
            frame.topics[t].kind \in {"service", "action"} =>
              \A i \in DOMAIN frame.topics[t].pairs :
                Cardinality({k \in DOMAIN rows :
                               <<t, i>> \in rows[k].to_server \cup rows[k].to_client}) = 1

\* classify_topics(): topics are only grouped under an action that exists, whichever of its
\* members are discovered and however a service or topic is named.
ActionTrue ==
  frame.shown =>
    \A t \in DOMAIN frame.topics :
      frame.topics[t].kind = "action" => frame.topics[t].group \in scenario.actions

\* What a frame says of topics, services, actions and companions is so in the system, whatever
\* part of it is discovered and whatever the view leaves out.
TopicsTrue == FrameTypes /\ LinkTrue /\ UnmatchedTrue /\ RowsTrue /\ ActionTrue

\* apply_stats(): the losses shown for a topic are at most the packets that were lost on the
\* way to its readers since the first report, also when several pairs share a locator.
LossCountedOnce ==
  frame.shown =>
    \A t \in DOMAIN frame.topics :
      frame.topics[t].lost_packets <= SumOver(Taken("lost"),
                                              LAMBDA c : truth[c] - slots[c].first)

\* check_datasharing(): once every statistics sample has arrived, a data-sharing verdict that
\* is CERTAIN is true, unless all the DATA the writer sent is in the first DATA_COUNT sample.
CertainSharingTrue ==
  frame.shown /\ (\A c \in Counters : Arrived(c)) =>
    \A p \in PairsShown :
      /\ p.verdict.transport = "DATA_SHARING" /\ p.verdict.confidence = "CERTAIN"
      /\ LET d == <<"data", p.writer.guid>> IN d \in DOMAIN slots => slots[d].first < slots[d].last
      => Guids(p) \in scenario.copies

\* check_datasharing(): in a frame without --node that knows every endpoint there ever was,
\* data-sharing is said not to be used only of a writer with a reader that gets DATA
\* although it announces data-sharing.
NotUsedTrue ==
  /\ frame.shown /\ frame.options.nodes = {}
  /\ known = {e.guid : e \in scenario.endpoints}
  => \A p \in PairsShown :
       "datasharing-not-used" \in p.verdict.warnings =>
         \E x \in scenario.sends :
           x[1] = p.writer.guid /\ EndpointOf(x[2]).qos.data_sharing \in {"on", "auto"}

\* check_datasharing(): what a frame claims of data-sharing, for or against it, is so.
SharingTrue == CertainSharingTrue /\ NotUsedTrue

\* The explanation of datasharing-data-submessages-sent in decision.cpp: "Every reader of
\* this writer announces data-sharing, yet the writer sent DATA submessages".
EveryReaderShares ==
  frame.shown =>
    \A p \in PairsShown :
      "datasharing-data-submessages-sent" \in p.verdict.reasons =>
        \A e \in Endpoints(known) :
          ~e.is_writer /\ e.topic = p.reader.topic => e.qos.data_sharing \in {"on", "auto"}

\* apply_stats(): the verdicts are revised pair by pair on what the earlier ones became; which
\* pair of a writer carries a warning may depend on their order, that one of them does may not.
OrderFree ==
  frame.shown =>
    \A t \in DOMAIN frame.topics :
      LET pairs == frame.topics[t].pairs
          before == [i \in DOMAIN pairs |->
                       [pairs[i] EXCEPT !.verdict = frame.predicted[t].pairs[i].verdict]]
          Warned(ps) == UNION {{<<ps[i].writer.guid, c>> : c \in ps[i].verdict.warnings}
                                 : i \in DOMAIN ps}
      IN \A order \in SetToSeqs(DOMAIN pairs) :
           Warned(ReviseInOrder(before, order, Statistics)) = Warned(pairs)

\* apply_stats(): a pair of two processes that is said not to communicate, of a writer with
\* statistics and with samples that arrived, never stands without a code that says that the
\* two disagree.
Loud(p) ==
  /\ p.measured.available /\ p.measured.delivered
  /\ p.verdict.transport = "NONE" /\ "intra-process" \notin p.verdict.reasons
  => CodesOf(p) \cap
       {"qos-incompatible-but-delivered", "type-name-mismatch-but-delivered",
        "type-information-mismatch-but-delivered", "shm-ipc-namespace-split-but-delivered",
        "stats-writer-instance-limit-suspected", "delivered-without-measured-traffic",
        "measured-transport-mismatch", "measured-unknown-traffic"} # {}
ContradictionLoud == frame.shown => \A p \in PairsShown : Loud(p)

\* note_unmeasured_pairs(): a pair that the frame counts among the delivered but unmeasured
\* ones says so itself, in a code that apply_stats() gave it.
SaysSo(p) ==
  Unmeasured(p) =>
    p.verdict.warnings \cap
      {"delivered-without-measured-traffic", "datasharing-not-used",
       "type-name-mismatch-but-delivered", "type-information-mismatch-but-delivered"} # {}
UnmeasuredSaidSo == frame.shown => \A p \in PairsShown : SaysSo(p)

\* apply_stats(), note_unmeasured_pairs(): a delivery that does not fit the prediction or the
\* measured traffic is never left without a warning.
DeliverySaid == ContradictionLoud /\ UnmeasuredSaidSo

\* count_measurable_pairs(): counted per topic and process, without going through the pairs,
\* the number is that of the discovered pairs whose ends are in two processes.
MeasurableExact ==
  count_measurable_pairs(Endpoints(known)) =
    Cardinality({x \in known \X known :
      LET w == EndpointOf(x[1])
          r == EndpointOf(x[2])
      IN w.is_writer /\ ~r.is_writer /\ w.topic = r.topic /\ ~intra_process_pair(w, r)})

\* The counts of a frame: no loss is counted for two pairs, and the pairs that can be measured
\* are counted exactly.
CountsTrue == LossCountedOnce /\ MeasurableExact

\* explanations(): every code a frame shows can be explained.
CodesExplained ==
  frame.shown =>
    /\ \A p \in PairsShown : CodesOf(p) \subseteq known_codes
    /\ frame.counts.warnings \subseteq known_codes
    /\ \A t \in DOMAIN frame.topics : frame.topics[t].unmatched \subseteq known_codes

\* render_json(), parse_json(): a frame that is saved and read again is the same document, and
\* has the pairs and rows of the frame, whatever is null, left out or found through a GUID.
RoundTrip ==
  frame.shown =>
    LET read == parse_json(<<DocumentShown>>)
    IN /\ render_json(read) = DocumentShown
       /\ pair_states(read.topics) = pair_states(frame.topics)
       /\ DOMAIN display_rows(read.topics).groups = DOMAIN display_rows(frame.topics).groups

\* apply_view_filters(): the default view of a document saved with --all has the pairs that the
\* tool shows at that moment without --all (in the scenarios that look at both).
ViewSame ==
  frame.shown /\ frame.options = AllOptions /\ DefaultOptions \in scenario.options =>
    pair_states(apply_view_filters(parse_json(<<DocumentShown>>).topics, DefaultOptions))
      = pair_states(FrameOf(DefaultOptions).topics)

\* classify_topics() on a document from before kind and direction were written: the services
\* and actions of a whole domain are those of the frame, as long as every topic carries one type.
OldDocumentSame ==
  frame.shown /\ frame.options = AllOptions
  /\ (\A e \in Endpoints(known) :
        e.topic \in DOMAIN frame.topics => e.dds_type = frame.topics[e.topic].dds_type)
  => LET Old(t) == [k \in DOMAIN t \ {"kind", "group", "direction"} |-> t[k]]
         old == [DocumentShown EXCEPT !.topics = [x \in DOMAIN @ |-> Old(@[x])]]
         read == parse_json(<<old>>).topics
     IN \A t \in DOMAIN frame.topics :
          /\ read[t].kind = frame.topics[t].kind /\ read[t].group = frame.topics[t].group
          /\ read[t].direction = frame.topics[t].direction

\* A saved frame says what the frame said: its codes have explanations, and reading,
\* filtering and re-classifying it gives the frame again.
DocumentTrue == CodesExplained /\ RoundTrip /\ ViewSame /\ OldDocumentSame

\* The document after every node has been restarted, the last one first: other GUIDs, in the
\* old order within a node, and other ports.
Restarted(doc) ==
  LET Last_(node) == Max({e.guid : e \in {d \in scenario.endpoints : d.node = node}})
      New(g) == 10000 - 100 * Last_(EndpointOf(g).node) + g
      Port(l) == [l EXCEPT !.port = @ + 10]
      Ports(ls) == [i \in DOMAIN ls |-> Port(ls[i])]
      Parent(e) == [k \in DOMAIN e |-> IF k = "buffer_parent_guid" THEN New(e[k]) ELSE e[k]]
      Again(es) == [i \in DOMAIN es |->
                      [Parent(es[i]) EXCEPT !.guid.id = New(@), !.unicast_locators = Ports(@),
                                            !.multicast_locators = Ports(@)]]
      Measured_(ls) == [i \in DOMAIN ls |-> [ls[i] EXCEPT !.locator = Port(@)]]
      Pairs_(ps) == [i \in DOMAIN ps |->
                       [ps[i] EXCEPT !.writer_guid = New(@), !.reader_guid = New(@),
                                     !.locator = Ports(@), !.measured.locators = Measured_(@)]]
  IN [doc EXCEPT !.topics = [x \in DOMAIN @ |->
        [@[x] EXCEPT !.writers = Again(@), !.readers = Again(@), !.pairs = Pairs_(@)]]]

\* run_diff(): diff --key node finds no difference between a document and the one of the same
\* nodes restarted, while --key guid finds every pair exchanged.
RestartQuiet ==
  frame.shown /\ frame.options = AllOptions =>
    LET Diff(mode) == run_diff(<<DocumentShown>>, <<Restarted(DocumentShown)>>, AllOptions, mode)
    IN /\ Unchanged(Diff("node"))
       /\ Cardinality(Diff("guid").added) = Cardinality(DOMAIN pair_states(frame.topics))
================================================================================
