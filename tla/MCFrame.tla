-------------------------------- MODULE MCFrame --------------------------------
EXTENDS Frame

Topic(kind, name, action, member, companion_of) ==
  [kind |-> kind, name |-> name, action |-> action, member |-> member,
   companion_of |-> companion_of]
Plain(name) == Topic("topic", name, "", "", "")
Member(kind, action, member) == Topic(kind, action, action, member, "")

MCTopicInfo ==
  [chat |-> Plain("chat"), img |-> Plain("img"),
   img_buf |-> Topic("topic", "img_buf", "", "", "img"),
   data_count |-> Topic("statistics", "data_count", "", "", ""),
   add_request |-> Topic("request", "add", "", "", ""),
   add_reply |-> Topic("reply", "add", "", "", ""),
   goal |-> Member("request", "fib", "send_goal"),
   feedback |-> Member("topic", "fib", "feedback"),
   status |-> Member("topic", "fib", "status"),
   fake |-> Member("request", "look", "send_goal")]

MCTypeInfo ==
  [T |-> [member |-> <<"", "">>, action |-> ""], U |-> [member |-> <<"", "">>, action |-> ""],
   Goal |-> [member |-> <<"send_goal", "request">>, action |-> "Fib"],
   Feedback |-> [member |-> <<"feedback", "topic">>, action |-> "Fib"],
   Status |-> [member |-> <<"status", "topic">>, action |-> ""]]

Shm(port) == [kind |-> "SHM", address |-> "", port |-> port]
Udp(port) == [kind |-> "UDPv4", address |-> "10.0.0.1", port |-> port]

Qos(sharing) ==
  [reliability |-> "RELIABLE", durability |-> "VOLATILE", deadline |-> 1,
   liveliness |-> "AUTOMATIC", lease |-> Infinite, ownership |-> "SHARED", partitions |-> {},
   data_sharing |-> sharing, domains |-> {}]

\* Endpoint number g of a participant on the host "h"; its key is its number.
End(g, participant, node, topic, is_writer, sharing, locators) ==
  [guid |-> g, host |-> "h", participant |-> participant, process |-> participant,
   dds_type |-> "T", type_hash |-> "", tinfo |-> "", tinfo_min |-> "",
   unicast |-> locators, multicast |-> <<>>, ports |-> {}, visibility |-> "unprobed",
   segment |-> "unprobed", filtered |-> FALSE, qos |-> Qos(sharing),
   key |-> g, entity_kind |-> IF is_writer THEN 3 ELSE 4, is_writer |-> is_writer,
   topic |-> topic, node |-> node, parent |-> 0, companions |-> {}]

Typed(e, type) == [e EXCEPT !.dds_type = type]

\* A complete run with two participants, one that was ended early, and a diff's document.
Report(discovery, participants, shm) ==
  [discovery |-> discovery, participants |-> participants, shm |-> shm]
Part(prefix, own, server, visibility) ==
  [prefix |-> prefix, own |-> own, server |-> server, visibility |-> visibility,
   ports |-> <<7411>>]
FullReport ==
  Report([complete |-> "true", stopped_on |-> "quiet", missing |-> 0],
         <<Part("tool", TRUE, "", "unprobed"), Part("a", FALSE, "server", "visible")>>,
         [available |-> TRUE, checked |-> <<7411, 7413>>, missing |-> <<7413>>, unknown |-> <<>>,
          visible |-> FALSE, warnings |-> {"shm-not-visible"}])
EarlyReport ==
  Report([complete |-> "unset", stopped_on |-> "timeout", missing |-> 0], <<>>,
         [available |-> FALSE, checked |-> <<>>, missing |-> <<>>, unknown |-> <<>>,
          visible |-> TRUE, warnings |-> {}])
EmptyReport == [EarlyReport EXCEPT !.discovery.stopped_on = ""]

\* --all alone or with --node, the default view, and --topic for parts of a group.
NodeOption == [AllOptions EXCEPT !.nodes = {"left", "view", "second", "server"}]
TopicOption == [AllOptions EXCEPT !.topics = {"img_buf", "status", "chat"}]

\* Scenarios about discovery start with nothing known, those about statistics with all but one
\* (or all, when there is no late one).
Discovered(endpoints, parents, actions) ==
  [endpoints |-> endpoints, copies |-> {}, sends |-> {}, parents |-> parents,
   actions |-> actions, limited |-> FALSE, known |-> {}, report |-> EarlyReport,
   options |-> {AllOptions, DefaultOptions, NodeOption, TopicOption},
   bounds |-> [published |-> 0, beats |-> 0, lost |-> 0, left |-> 1]]
Measured(endpoints, late, copies, sends, published, beats, lost, left) ==
  [endpoints |-> endpoints, copies |-> copies, sends |-> sends, parents |-> <<>>,
   actions |-> {}, limited |-> FALSE, known |-> {e.guid : e \in endpoints} \ {late},
   report |-> IF published = 0 THEN EmptyReport ELSE FullReport, options |-> {AllOptions},
   bounds |-> [published |-> published, beats |-> beats, lost |-> lost, left |-> left]]

\* A data-sharing writer with two readers; what each reader announces, and gets.
Talker == End(1, "a", "talker", "chat", TRUE, "on", <<Udp(1)>>)
Counted == End(4, "a", "talker", "data_count", TRUE, "off", <<Udp(1)>>)
Left(sharing) == End(2, "b", "left", "chat", FALSE, sharing, <<Udp(2)>>)
Right(sharing) == End(3, "c", "right", "chat", FALSE, sharing, <<Udp(3)>>)
Sharing ==
  {Measured({Talker, Left("on"), Right("on"), Counted}, 3, {<<1, 2>>, <<1, 3>>} \ sends, sends,
            2, IF sends = {<<1, 2>>} THEN 1 ELSE 0, 0, 0) : sends \in SUBSET {<<1, 2>>, <<1, 3>>}}
  \cup {[Measured({Talker, Left("on"), Right("off")}, 0, {<<1, 2>>}, {<<1, 3>>}, 2, 1, 0, 1)
           EXCEPT !.options = {AllOptions, NodeOption}]}

\* Two data-sharing writers whose reader gets DATA from both.
TwoWriters ==
  {Measured({Talker, End(5, "d", "other", "chat", TRUE, "on", <<Udp(5)>>), Left("on")}, 0,
            {}, {<<1, 2>>, <<5, 2>>}, 3, 0, 0, 0)}

\* Two readers of one participant behind one locator, and a writer in their process.
OneProcess ==
  {Measured({[Talker EXCEPT !.qos.data_sharing = "off"], Left("off"),
             End(6, "b", "left", "chat", FALSE, "off", <<Udp(2)>>),
             End(7, "b", "left", "chat", TRUE, "off", <<Udp(2)>>)}, 6,
            {<<7, 2>>}, {<<1, 2>>, <<1, 6>>}, 1, 0, 2, 0)}

\* Readers that cannot match the writer, or have no transport in common, yet get its samples.
Mismatch ==
  LET writer == [Talker EXCEPT !.qos.reliability = "BEST_EFFORT", !.qos.data_sharing = "off"]
      readers == {Left("off"), Typed(End(3, "c", "right", "chat", FALSE, "off", <<Udp(3)>>), "U"),
                  [End(8, "e", "shm", "chat", FALSE, "off", <<Shm(8)>>)
                     EXCEPT !.qos.reliability = "BEST_EFFORT", !.process = ""]}
  IN {[Measured({writer} \cup readers, 8, {}, {<<1, 2>>, <<1, 3>>, <<1, 8>>}, 1, 0, 0, 0)
         EXCEPT !.options = {AllOptions, DefaultOptions, NodeOption}]}

\* A reader behind a locator of a kind the tool does not know, and one of the writer's process.
Unknown ==
  LET Odd(port) == [kind |-> "Invalid", address |-> "", port |-> port]
      Off(e) == [e EXCEPT !.qos.data_sharing = "off"]
  IN {Measured({Off(Talker), Off([Left("on") EXCEPT !.unicast = <<Odd(2)>>]),
                End(3, "a", "right", "chat", FALSE, "off", <<Odd(2)>>)}, 0,
               {<<1, 3>>}, {<<1, 2>>}, 2, 0, 0, 0)}

\* Endpoints of another vendor, which are in nobody's process.
Vendors ==
  {Discovered({[End(1, "a", "talker", "chat", TRUE, "off", <<Udp(1)>>) EXCEPT !.process = ""],
               [Left("off") EXCEPT !.process = ""], Right("off")}, <<>>, {})}

\* Two publishers with a companion each, and a subscription with one.
Companions ==
  LET W(g, topic) == End(g, "a", "camera", topic, TRUE, "off", <<Udp(1)>>)
      R(g, topic) == End(g, "b", "view", topic, FALSE, "off", <<Udp(2)>>)
  IN {Discovered({W(1, "img"), W(2, "img_buf"), W(3, "img"), W(4, "img_buf"),
                  R(5, "img"), R(6, "img_buf")},
                 (2 :> 1) @@ (4 :> 3) @@ (6 :> 5), {})}

\* A service with two clients, an action, and a service named like an action's member.
Services ==
  LET E(g, p, topic, is_writer) == End(g, p, p, topic, is_writer, "off", <<Udp(g)>>)
  IN {Discovered({E(1, "client", "add_request", TRUE), E(2, "server", "add_request", FALSE),
                E(3, "server", "add_reply", TRUE), E(4, "client", "add_reply", FALSE),
                E(5, "second", "add_request", TRUE), E(6, "second", "add_reply", FALSE)},
                 <<>>, {}),
      Discovered({Typed(E(1, "client", "goal", TRUE), "Goal"),
                Typed(E(2, "server", "goal", FALSE), "Goal"),
                Typed(E(3, "server", "feedback", TRUE), "Feedback"),
                Typed(E(4, "client", "feedback", FALSE), "Feedback"),
                Typed(E(5, "server", "status", TRUE), "Status"),
                E(6, "client", "fake", TRUE)}, <<>>, {"fib"})}

\* A writer and a reader in all combinations of host, locators, data-sharing and domain ids.
Pairings ==
  LET Tcp(port) == [kind |-> "TCPv4", address |-> "10.0.0.1", port |-> port]
      Lists == {<<>>, <<Udp(1)>>, <<Shm(2)>>, <<Udp(1), Shm(2)>>, <<Tcp(3), Udp(1)>>,
                <<NoLocator>>}
      Config(e, host, sharing, domains, hides) ==
        [e EXCEPT !.host = host, !.qos.data_sharing = sharing, !.qos.domains = domains,
                  !.filtered = hides]
  IN {Measured({End(1, "a", "talker", "chat", TRUE, "auto", writes),
                [Config(End(2, "b", "left", "chat", FALSE, "on", reads), host, sharing, {},
                        hides) EXCEPT !.multicast = many]},
               0, {}, {}, 0, 0, 0, 0) :
        writes \in Lists, reads \in Lists, many \in {<<>>, <<Udp(9)>>}, host \in {"h", "k"},
        sharing \in {"on", "off"}, hides \in BOOLEAN}
     \cup
     {Measured({Config(End(1, "a", "talker", "chat", TRUE, "auto", <<Shm(2)>>), "h", "on", ids,
                       FALSE),
                Config(Left("on"), "h", sharing, other, FALSE)}, 0, {}, {}, 0, 0, 0, 0) :
        ids \in {{}, {1}}, other \in {{}, {1, 2}, {2}}, sharing \in {"on", "unknown"}}

MCScenarios ==
  Sharing \cup TwoWriters \cup OneProcess \cup Mismatch \cup Unknown \cup Vendors
    \cup Companions \cup Services \cup Pairings

\* One data-sharing reader and one without, seen with --node.
FilterScenarios ==
  {[Measured({Talker, Left("on"), Right("off")}, 0, {<<1, 2>>}, {<<1, 3>>}, 2, 1, 0, 0)
      EXCEPT !.options = {[DefaultOptions EXCEPT !.nodes = {"left"}]}]}
================================================================================
