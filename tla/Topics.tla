-------------------------------- MODULE Topics --------------------------------
(***************************************************************************)
(* From discovered endpoints to the topics of a frame (decision.cpp,       *)
(* ros_names.cpp): native-buffer companions linked to their parents, the   *)
(* pairs of every topic with their verdicts, the service or action a topic *)
(* belongs to, the rows of the table, and the default and --node views.    *)
(*                                                                         *)
(* To the fields of module Decision an endpoint adds: guid (a number, the  *)
(* order of discovery data), key (its entity key) and entity_kind (byte 15 *)
(* of the GUID), is_writer, topic, node ("" when unknown), parent (guid of *)
(* the endpoint it is a companion of, 0 for none) and companions.          *)
(*                                                                         *)
(* Names are not built from characters: TopicInfo and TypeInfo say what    *)
(* the strings are made of.                                                *)
(***************************************************************************)
EXTENDS Decision, FiniteSets, FiniteSetsExt

\* The fields of an endpoint, for the argument of every operator here and in Decision.
Locator == [kind : NetworkKinds \cup {"SHM", "Invalid"}, address : STRING, port : Nat]
ShmVisibility == {"unprobed", "visible", "not-visible"}
EndpointQos ==
  [reliability : STRING, durability : STRING, deadline : Nat, liveliness : STRING, lease : Nat,
   ownership : STRING, partitions : SUBSET STRING,
   data_sharing : {"unknown", "off", "on", "auto"}, domains : SUBSET Nat]
Endpoint ==
  [guid : Nat, key : Nat, entity_kind : Nat, is_writer : BOOLEAN, host : STRING,
   participant : STRING, process : STRING, node : STRING, topic : STRING, dds_type : STRING,
   type_hash : STRING, tinfo : STRING, tinfo_min : STRING,
   unicast : Seq(Locator), multicast : Seq(Locator), qos : EndpointQos, filtered : BOOLEAN,
   ports : SUBSET Nat, visibility : ShmVisibility, segment : ShmVisibility,
   parent : Nat, companions : SUBSET Nat]

CONSTANTS
  TopicInfo,  \* DDS topic -> [kind, name, action, member, companion_of]
  TypeInfo    \* DDS type -> [member, action]: the action member a type belongs to

\* The eight topics rcl_action creates; the first five carry a type of the action's package.
NamesAction ==
  {<<"send_goal", "request">>, <<"send_goal", "reply">>, <<"get_result", "request">>,
   <<"get_result", "reply">>, <<"feedback", "topic">>}
kMembers ==
  NamesAction \cup {<<"cancel_goal", "request">>, <<"cancel_goal", "reply">>,
                    <<"status", "topic">>}

\* demangle_topic(): kind "topic" (rt/), "request" (rq/...Request), "reply" (rr/...Reply) or
\* "other" ("statistics" for the ros_discovery_info and _fastdds_ ones among those), and the
\* ROS name; a name <action>/_action/<member> has those two as well.
demangle_topic(topic) == TopicInfo[topic]

parse_action_member(topic, type) ==
  LET ros == demangle_topic(topic)
      member == <<ros.member, ros.kind>>
      type_ok == TypeInfo[type].member = member
  IN IF member \in kMembers
     THEN [matched |-> TRUE, action |-> ros.action, suffix |-> ros.member, type_ok |-> type_ok,
           action_type |-> IF type_ok /\ member \in NamesAction THEN TypeInfo[type].action ELSE ""]
     ELSE [matched |-> FALSE, action |-> "", suffix |-> "", type_ok |-> FALSE,
           action_type |-> ""]

------------------------------------------------------------------------------
\* Native-buffer companions.
is_buffer_companion_topic(topic) == TopicInfo[topic].companion_of # ""

\* The endpoints c may be the companion of.
Candidates(c, endpoints) ==
  {p \in endpoints :
     /\ is_buffer_companion_topic(c.topic)
     /\ p # c /\ p.is_writer = c.is_writer /\ p.participant = c.participant
     /\ p.dds_type = c.dds_type /\ p.topic = TopicInfo[c.topic].companion_of}

\* Mutant: the first candidate, whatever its entity key.
parent_any(c, endpoints) ==
  {p \in Candidates(c, endpoints) : \A q \in Candidates(c, endpoints) : p.key <= q.key}

\* The parent of companion c, as a set of at most one: the only candidate, or the one
\* created right before it.
parent_of(c, endpoints) ==
  IF Cardinality(Candidates(c, endpoints)) = 1 THEN Candidates(c, endpoints)
  ELSE {p \in Candidates(c, endpoints) : p.key + 1 = c.key /\ p.entity_kind = c.entity_kind}

link_buffer_companions(endpoints) ==
  {[e EXCEPT
      !.parent = IF parent_of(e, endpoints) = {} THEN 0
                 ELSE (CHOOSE p \in parent_of(e, endpoints) : TRUE).guid,
      !.companions = {c.guid : c \in {d \in endpoints : e \in parent_of(d, endpoints)}}]
     : e \in endpoints}

buffer_codes(endpoints) ==
  (IF \E e \in endpoints : e.companions # {} THEN {"buffer-companion-folded"} ELSE {})
  \cup (IF \E e \in endpoints : e.parent # 0 THEN {"buffer-companion"} ELSE {})
  \cup (IF \E e \in endpoints : e.parent = 0 /\ is_buffer_companion_topic(e.topic)
        THEN {"buffer-companion-unmatched"} ELSE {})

------------------------------------------------------------------------------
\* A finite set of numbers, smallest first, and the entries of a sequence at some positions.
Ascending(S) ==
  CHOOSE s \in [1..Cardinality(S) -> S] : \A i, j \in DOMAIN s : i < j => s[i] < s[j]
Entries(seq, positions) ==
  LET at == Ascending(positions) IN [n \in DOMAIN at |-> seq[at[n]]]

\* Endpoints in the order of the discovery map.
InGuidOrder(endpoints) ==
  LET guids == Ascending({e.guid : e \in endpoints})
  IN [n \in DOMAIN guids |-> CHOOSE e \in endpoints : e.guid = guids[n]]

Pair(w, r) ==
  LET v == decide(w, r)
  IN [writer |-> w, reader |-> r,
      verdict |-> [v EXCEPT !.reasons = @ \cup buffer_codes({w, r})]]

\* Every writer with every reader, writers first.
PairsOf(writers, readers) ==
  [i \in 1..(Len(writers) * Len(readers)) |->
     Pair(writers[((i - 1) \div Len(readers)) + 1], readers[((i - 1) % Len(readers)) + 1])]

unmatched_reasons(writers, readers, pairs) ==
  (IF writers = <<>> THEN {"no-matching-writer"} ELSE {})
  \cup (IF readers = <<>> THEN {"no-matching-reader"} ELSE {})
  \cup (IF pairs = <<>> THEN buffer_codes(ToSet(writers) \cup ToSet(readers)) ELSE {})

Summary(topic, endpoints) ==
  LET mine == {e \in endpoints : e.topic = topic}
      writers == InGuidOrder({e \in mine : e.is_writer})
      readers == InGuidOrder({e \in mine : ~e.is_writer})
      pairs == PairsOf(writers, readers)
  IN [topic |-> topic, dds_type |-> InGuidOrder(mine)[1].dds_type,
      writers |-> writers, readers |-> readers, pairs |-> pairs,
      unmatched |-> unmatched_reasons(writers, readers, pairs)]

\* classify_topics(): an action needs every member to carry its own type and those that can
\* name the action to name one.
Members(topics) ==
  [t \in DOMAIN topics |-> parse_action_member(t, topics[t].dds_type)]

\* Mutant: the members' own types are not looked at.
is_action_by_name(members, action) == TRUE

is_action(members, action) ==
  LET mine == {t \in DOMAIN members : members[t].matched /\ members[t].action = action}
  IN /\ \A t \in mine : members[t].type_ok
     /\ Cardinality({members[t].action_type : t \in mine} \ {""}) = 1

\* Record t with these fields set.
With(t, fields) ==
  [k \in DOMAIN t \cup DOMAIN fields |-> IF k \in DOMAIN fields THEN fields[k] ELSE t[k]]

classify_topics(topics) ==
  LET members == Members(topics)
      Group(t) ==
        LET ros == demangle_topic(t)
            direction == IF ros.kind = "request" THEN "to-server" ELSE "to-client"
        IN IF members[t].matched /\ is_action(members, members[t].action)
           THEN [kind |-> "action", group |-> members[t].action, direction |-> direction]
           ELSE IF ros.kind \in {"request", "reply"}
           THEN [kind |-> "service", group |-> ros.name, direction |-> direction]
           ELSE [kind |-> IF ros.kind = "topic" THEN "topic" ELSE "other", group |-> "",
                 direction |-> "none"]
  IN [t \in DOMAIN topics |-> With(topics[t], Group(t))]

summarize(endpoints) ==
  classify_topics([t \in {e.topic : e \in endpoints} |-> Summary(t, endpoints)])

------------------------------------------------------------------------------
\* The rows of the table: a plain topic is a row, a service or action one row for each
\* client and server participant ("" for a side that was not discovered).
Row(t, client, server) == <<t.group, client, server>>
\* Mutant: the client is taken for the writer in both directions.
ClientIsWriter(t, p) == p.writer
ClientOf(t, p) == IF t.direction = "to-server" THEN p.writer ELSE p.reader
ServerOf(t, p) == IF t.direction = "to-server" THEN p.reader ELSE p.writer
IsClient(t, e) == (t.direction = "to-server") = e.is_writer

display_rows(topics) ==
  LET grouped == {t \in DOMAIN topics : topics[t].kind \in {"service", "action"}}
      real == UNION {{<<t, i>> : i \in DOMAIN topics[t].pairs} : t \in grouped}
      PairAt(x) == topics[x[1]].pairs[x[2]]
      Key(x) == Row(topics[x[1]], ClientOf(topics[x[1]], PairAt(x)).participant,
                    ServerOf(topics[x[1]], PairAt(x)).participant)
      lone == UNION {{<<t, e>> : e \in ToSet(topics[t].writers) \cup ToSet(topics[t].readers)}
                       : t \in {u \in grouped : topics[u].pairs = <<>>}}
      LoneKey(x) == IF IsClient(topics[x[1]], x[2])
                    THEN Row(topics[x[1]], x[2].participant, "")
                    ELSE Row(topics[x[1]], "", x[2].participant)
      keys == {Key(x) : x \in real} \cup {LoneKey(x) : x \in lone}
      Travels(k, direction) ==
        {x \in real : Key(x) = k /\ topics[x[1]].direction = direction}
      lonely(k) == {x \in lone : LoneKey(x) = k}
  IN [plain |-> DOMAIN topics \ grouped,
      groups |-> [k \in keys |->
        [to_server |-> Travels(k, "to-server"), to_client |-> Travels(k, "to-client"),
         unpaired_endpoints |-> {x[2] : x \in lonely(k)},
         members |-> {x[1] : x \in {y \in real : Key(y) = k} \cup lonely(k)}]]]

------------------------------------------------------------------------------
\* --node: a topic keeps the pairs with an endpoint of a matching node, their partners and
\* the matching endpoints that have none.
Prune(seq, kept) == Entries(seq, {i \in DOMAIN seq : seq[i] \in kept})

\* Mutant: only the pairs whose two ends match.
KeepsPairOfTwo(p, matching) == {p.writer, p.reader} \subseteq matching
KeepsPair(p, matching) == {p.writer, p.reader} \cap matching # {}

filter_by_node(topics, matches) ==
  LET Matching(t) == {e \in ToSet(t.writers) \cup ToSet(t.readers) : e.node \in matches}
      Pairs(t) == Prune(t.pairs, {p \in ToSet(t.pairs) : KeepsPair(p, Matching(t))})
      Kept(t) == Matching(t) \cup UNION {{p.writer, p.reader} : p \in ToSet(Pairs(t))}
      Filtered(t) ==
        [t EXCEPT !.writers = Prune(@, Kept(t)), !.readers = Prune(@, Kept(t)),
                  !.pairs = Pairs(t),
                  !.unmatched = unmatched_reasons(Prune(t.writers, Kept(t)),
                                                  Prune(t.readers, Kept(t)), Pairs(t))]
  IN [x \in {d \in DOMAIN topics : Kept(topics[d]) # {}} |-> Filtered(topics[x])]

\* The default view: ROS topics, without those that only carry companions' data.
in_default_view(t) ==
  /\ demangle_topic(t.topic).kind = "topic"
  /\ \E e \in ToSet(t.writers) \cup ToSet(t.readers) : e.parent = 0

apply_default_view(topics, all) ==
  [x \in {d \in DOMAIN topics : all \/ in_default_view(topics[d])} |-> topics[x]]
==============================================================================
