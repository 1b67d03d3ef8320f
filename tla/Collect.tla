-------------------------------- MODULE Collect --------------------------------
(***************************************************************************)
(* What one collect() of main.cpp puts together, frame after frame of      *)
(* --watch: the node names announced in ros_discovery_info                 *)
(* (RosDiscoveryInfoObserver, NodeNameTable), the discovery snapshot, the  *)
(* ROS graph (RosGraphResolver) and the live participants.  Each is read   *)
(* at its own moment while nodes come and go, so a frame joins four        *)
(* pictures of four different instants.                                    *)
(*                                                                         *)
(* The observed processes, Fast DDS and the rmw are external: a node       *)
(* creates an endpoint, then announces it; it withdraws the announcement,  *)
(* then destroys the endpoint; a process may also just go.  GUIDs are not  *)
(* reused.                                                                 *)
(***************************************************************************)
EXTENDS DiscoveryObserver, Sequences, FiniteSets

CONSTANTS
  ParticipantOf,  \* endpoint -> its participant
  HasNames,       \* FALSE when the ros_discovery_info reader could not be created
  SeparateReader, \* TRUE on Humble: that reader has a participant of its own
  Grace,          \* kGraphRefreshGraceSeconds
  GraphLag        \* seconds the rmw's graph is behind our discovery; -1: it never learns

\* A GUID is never a GUID prefix.
ASSUME CollectAssumption ==
  /\ Endpoints \cap Participants = {}
  /\ ParticipantOf \in [Endpoints -> Participants]
  /\ HasNames \in BOOLEAN
  /\ SeparateReader \in BOOLEAN
  /\ Grace \in Nat
  /\ GraphLag \in Int

VARIABLES
  proc,       \* external: participant -> "out", "in", "left"
  life,       \* external: endpoint -> "unborn", "exists", "announced", "retired", "gone"
  pending,    \* external: participant -> ros_discovery_info samples not taken yet
  graph,      \* external: the endpoints the rmw's graph can name
  delivered,  \* history: the endpoints and participants discovery ever delivered
  ok,         \* rclcpp::ok()
  pc,         \* where collect() is
  table_,     \* NodeNameTable: participant heard from -> endpoints of its newest sample
  samples_taken_,
  picture,    \* `endpoints`, the discovery snapshot of this frame
  events, since,          \* the arguments of refresh_if_changed()
  refreshed_, events_at_last_refresh_,
  listed,     \* the topics get_topic_names_and_types() returned
  asked,      \* history: events and samples when the last query began
  guid_to_node_,
  complete,   \* DiscoveryStatus::complete of the last frame: "unset", "true", "false"
  missing,    \* the endpoints behind its announced_not_discovered
  named       \* the endpoints the last frame has a node name for

worldVars == <<proc, life, pending, graph, delivered>>
nameVars == <<table_, samples_taken_>>
resolverVars == <<refreshed_, events_at_last_refresh_, guid_to_node_>>
frameVars == <<complete, missing, named>>
argVars == <<events, since>>
vars == <<clock, discoveryVars, worldVars, ok, pc, nameVars, picture, argVars, resolverVars,
          listed, asked, frameVars>>

TypeOK ==
  /\ DiscoveryTypeOK
  /\ proc \in [Participants -> {"out", "in", "left"}]
  /\ life \in [Endpoints -> {"unborn", "exists", "announced", "retired", "gone"}]
  /\ pending \in [Participants -> Seq(SUBSET Endpoints)]
  /\ graph \in SUBSET Endpoints
  /\ delivered \in SUBSET (Endpoints \cup Participants)
  /\ ok \in BOOLEAN
  /\ pc \in {"poll", "snapshot", "args", "argEvents", "argSince", "refresh", "list", "infos", "judge", "name",
             "frame", "done"}
  /\ table_ \in UNION {[D -> SUBSET Endpoints] : D \in SUBSET Participants}
  /\ samples_taken_ \in Nat
  /\ picture \in [Endpoints -> Contents \cup {NoEntry}]
  /\ events \in Nat /\ since \in Int
  /\ refreshed_ \in BOOLEAN /\ events_at_last_refresh_ \in Nat
  /\ listed \in SUBSET Endpoints /\ asked \in Nat
  /\ guid_to_node_ \in SUBSET Endpoints
  /\ complete \in {"unset", "true", "false"}
  /\ missing \in SUBSET Endpoints
  /\ named \in SUBSET Endpoints

EndpointsOf(p) == {e \in Endpoints : ParticipantOf[e] = p}
Announced(p) == {e \in EndpointsOf(p) : life[e] = "announced"}

------------------------------------------------------------------------------
\* external: the observed processes.  Their ros_discovery_info writer keeps one sample,
\* so a new one may overtake the one before it; both may be queued in our reader already.
Publish(p, entities) ==
  \/ pending' = [pending EXCEPT ![p] = Append(@, entities)]
  \/ /\ pending[p] # <<>>
     /\ pending' = [pending EXCEPT ![p][Len(pending[p])] = entities]

Join(p) ==
  /\ proc[p] = "out"
  /\ proc' = [proc EXCEPT ![p] = "in"]
  /\ UNCHANGED <<life, pending, graph, delivered>>

Create(e) ==
  /\ life[e] = "unborn" /\ proc[ParticipantOf[e]] = "in"
  /\ life' = [life EXCEPT ![e] = "exists"]
  /\ UNCHANGED <<proc, pending, graph, delivered>>

Announce(e) ==
  /\ life[e] = "exists"
  /\ life' = [life EXCEPT ![e] = "announced"]
  /\ Publish(ParticipantOf[e], Announced(ParticipantOf[e]) \cup {e})
  /\ UNCHANGED <<proc, graph, delivered>>

Retire(e) ==
  /\ life[e] = "announced"
  /\ life' = [life EXCEPT ![e] = "retired"]
  /\ Publish(ParticipantOf[e], Announced(ParticipantOf[e]) \ {e})
  /\ UNCHANGED <<proc, graph, delivered>>

Destroy(e) ==
  /\ life[e] = "retired"
  /\ life' = [life EXCEPT ![e] = "gone"]
  /\ UNCHANGED <<proc, pending, graph, delivered>>

Leave(p) ==
  /\ proc[p] = "in"
  /\ proc' = [proc EXCEPT ![p] = "left"]
  /\ life' = [e \in Endpoints |-> IF e \in EndpointsOf(p) THEN "gone" ELSE life[e]]
  /\ \E n \in 0..Len(pending[p]) :
       pending' = [pending EXCEPT ![p] = SubSeq(@, 1, n)]
  /\ UNCHANGED <<graph, delivered>>

\* external: the rmw's own graph learns a name within GraphLag seconds of discovery, or
\* never (a node in another IPC namespace, whose samples only our own reader receives).
GraphChanges(e) ==
  /\ \/ /\ e \notin graph
        /\ life[e] = "announced" /\ e \in delivered
        /\ clock <= last_event_ + GraphLag
        /\ graph' = graph \cup {e}
     \/ /\ e \in graph
        /\ life[e] \in {"retired", "gone"}
        /\ graph' = graph \ {e}
  /\ UNCHANGED <<proc, life, pending, delivered>>

World ==
  /\ \/ \E p \in Participants : Join(p) \/ Leave(p)
     \/ \E e \in Endpoints :
          Create(e) \/ Announce(e) \/ Retire(e) \/ Destroy(e) \/ GraphChanges(e)
  /\ UNCHANGED <<clock, discoveryVars, ok, pc, nameVars, picture, argVars, resolverVars,
                 listed, asked, frameVars>>

\* The discovery callbacks: a participant before its endpoints, and after them when it goes.
DeliverEndpoint(e) ==
  /\ life[e] \in {"exists", "announced", "retired"}
  /\ e \notin delivered /\ ParticipantOf[e] \in participants_
  /\ \E c \in Contents : endpoint_discovered(e, c)
  /\ delivered' = delivered \cup {e}

DeliverRemoval(e) ==
  /\ life[e] = "gone" /\ e \in Discovered(endpoints_)
  /\ endpoint_removed(e)
  /\ UNCHANGED delivered

DeliverParticipant(p) ==
  \/ /\ proc[p] = "in" /\ p \notin delivered
     /\ participant_discovered(p)
     /\ delivered' = delivered \cup {p}
  \/ /\ proc[p] = "left" /\ p \in participants_
     /\ EndpointsOf(p) \cap Discovered(endpoints_) = {}
     /\ participant_removed(p)
     /\ UNCHANGED delivered

Discovery ==
  /\ \/ \E e \in Endpoints : DeliverEndpoint(e) \/ DeliverRemoval(e)
     \/ \E p \in Participants : DeliverParticipant(p)
  /\ UNCHANGED <<proc, life, pending, graph, ok, pc, nameVars, picture, argVars,
                 resolverVars, listed, asked, frameVars>>

------------------------------------------------------------------------------
\* Mutant: the entries of the last sample stay.
update_without_clear(p, entities) ==
  table_' = [q \in DOMAIN table_ \cup {p} |->
               IF q # p THEN table_[q]
               ELSE IF p \in DOMAIN table_ THEN table_[p] \cup entities ELSE entities]

\* NodeNameTable::update(): a sample replaces the row of its participant.
update(p, entities) ==
  table_' = [q \in DOMAIN table_ \cup {p} |-> IF q = p THEN entities ELSE table_[q]]

\* NodeNameTable::lookup(): any row names the endpoint, one of a departed participant too.
lookup(e) == \E p \in DOMAIN table_ : e \in table_[p]

\* poll(): take_next_sample() until it returns none.  A sample without valid data (the
\* writer has gone) is skipped and changes nothing.
PollTake(p) ==
  /\ pc = "poll"
  /\ HasNames
  /\ SeparateReader \/ p \in delivered
  /\ pending[p] # <<>>
  /\ update(p, Head(pending[p]))
  /\ pending' = [pending EXCEPT ![p] = Tail(@)]
  /\ samples_taken_' = samples_taken_ + 1
  /\ UNCHANGED <<proc, life, graph, delivered, pc, picture, argVars, resolverVars, listed, asked,
                 frameVars>>

PollDone ==
  /\ pc = "poll"
  /\ pc' = "snapshot"
  /\ UNCHANGED <<worldVars, nameVars, picture, argVars, resolverVars, listed, asked, frameVars>>

TakeSnapshot ==
  /\ pc = "snapshot"
  /\ picture' = snapshot
  /\ pc' = "args"
  /\ UNCHANGED <<worldVars, nameVars, argVars, resolverVars, listed, asked, frameVars>>

\* Mutant: the event of our own participant is taken off.
ReadEventsLessOwn ==
  /\ pc \in {"args", "argEvents"}
  /\ events' = event_count_ + samples_taken_ - 1
  /\ pc' = IF pc = "args" THEN "argSince" ELSE "refresh"
  /\ UNCHANGED <<worldVars, nameVars, picture, since, resolverVars, listed, asked, frameVars>>

\* The arguments of refresh_if_changed(): event_count() and last_event() are two calls, and
\* C++ leaves their order open.
ReadEvents ==
  /\ pc \in {"args", "argEvents"}
  /\ events' = event_count_ + samples_taken_
  /\ pc' = IF pc = "args" THEN "argSince" ELSE "refresh"
  /\ UNCHANGED <<worldVars, nameVars, picture, since, resolverVars, listed, asked, frameVars>>

ReadSince ==
  /\ pc \in {"args", "argSince"}
  /\ since' = clock - last_event_
  /\ pc' = IF pc = "args" THEN "argEvents" ELSE "refresh"
  /\ UNCHANGED <<worldVars, nameVars, picture, events, resolverVars, listed, asked, frameVars>>

should_refresh_graph ==
  \/ ~refreshed_
  \/ events # events_at_last_refresh_
  \/ since <= Grace

\* refresh_if_changed(): the count remembered is the one read before the query.
RefreshIfChanged ==
  /\ pc = "refresh"
  /\ pc' = IF should_refresh_graph THEN "list" ELSE "judge"
  /\ UNCHANGED <<worldVars, nameVars, picture, argVars, resolverVars, listed, asked, frameVars>>

\* refresh_names(): list the topics, then ask for the endpoints of each.
ListTopics ==
  /\ pc = "list"
  /\ listed' = graph
  /\ asked' = event_count_ + samples_taken_
  /\ pc' = "infos"
  /\ UNCHANGED <<worldVars, nameVars, picture, argVars, resolverVars, frameVars>>

\* Mutant: the count is read again after the query.
RememberRefreshLate ==
  /\ refreshed_' = TRUE
  /\ events_at_last_refresh_' = event_count_ + samples_taken_
  /\ pc' = "judge"

RememberRefresh ==
  /\ refreshed_' = TRUE
  /\ events_at_last_refresh_' = events
  /\ pc' = "judge"

QueryEndpoints ==
  /\ pc = "infos"
  /\ guid_to_node_' = listed \cap graph
  /\ RememberRefresh
  /\ UNCHANGED <<worldVars, nameVars, picture, argVars, listed, asked, frameVars>>

\* refresh(): a query that throws while the context shuts down keeps the old names.
QueryThrows ==
  /\ pc \in {"list", "infos"}
  /\ ~ok
  /\ RememberRefresh
  /\ UNCHANGED <<worldVars, nameVars, picture, argVars, guid_to_node_, listed, asked,
                 frameVars>>

\* Mutant: judged on the endpoints of now instead of the frame's snapshot.
JudgeCurrent ==
  /\ pc = "judge"
  /\ LET compared == DOMAIN table_ \cap live_participants
         missed == (UNION {table_[p] : p \in compared}) \ Discovered(endpoints_)
     IN /\ missing' = missed
        /\ complete' = IF compared = {} THEN "unset"
                       ELSE IF missed = {} THEN "true" ELSE "false"
  /\ pc' = "name"
  /\ UNCHANGED <<worldVars, nameVars, picture, argVars, resolverVars, listed, asked, named>>

\* discovery_completeness(): the rows of live participants against the snapshot.
JudgeCompleteness ==
  /\ pc = "judge"
  /\ LET compared == DOMAIN table_ \cap live_participants
         missed == (UNION {table_[p] : p \in compared}) \ Discovered(picture)
     IN /\ missing' = missed
        /\ complete' = IF compared = {} THEN "unset"
                       ELSE IF missed = {} THEN "true" ELSE "false"
  /\ pc' = "name"
  /\ UNCHANGED <<worldVars, nameVars, picture, argVars, resolverVars, listed, asked, named>>

\* Mutant: names from the ROS graph only.
NameFromGraph ==
  /\ pc = "name"
  /\ named' = Discovered(picture) \cap guid_to_node_
  /\ pc' = "frame"
  /\ UNCHANGED <<worldVars, nameVars, picture, argVars, resolverVars, listed, asked, complete,
                 missing>>

\* merge_node_name(): the graph's name, or the announced one.
NameEndpoints ==
  /\ pc = "name"
  /\ named' = {e \in Discovered(picture) : e \in guid_to_node_ \/ lookup(e)}
  /\ pc' = "frame"
  /\ UNCHANGED <<worldVars, nameVars, picture, argVars, resolverVars, listed, asked, complete,
                 missing>>

\* The --watch loop: the next frame, unless Ctrl-C.
NextFrame ==
  /\ pc = "frame"
  /\ pc' = IF ok THEN "poll" ELSE "done"
  /\ UNCHANGED <<worldVars, nameVars, picture, argVars, resolverVars, listed, asked, frameVars>>

Main ==
  /\ \/ \E p \in Participants : PollTake(p)
     \/ PollDone
     \/ TakeSnapshot
     \/ ReadEvents
     \/ ReadSince
     \/ RefreshIfChanged
     \/ ListTopics
     \/ QueryEndpoints
     \/ QueryThrows
     \/ JudgeCompleteness
     \/ NameEndpoints
     \/ NextFrame
  /\ UNCHANGED <<clock, discoveryVars, ok>>

Others == <<worldVars, pc, nameVars, picture, argVars, resolverVars, listed, asked, frameVars>>
Interrupt == ok /\ ok' = FALSE /\ UNCHANGED <<clock, discoveryVars, Others>>
PassTime == Tick /\ UNCHANGED <<ok, Others>>

Init ==
  /\ DiscoveryInit
  /\ proc = [p \in Participants |-> "out"]
  /\ life = [e \in Endpoints |-> "unborn"]
  /\ pending = [p \in Participants |-> <<>>]
  /\ graph = {}
  /\ delivered = {}
  /\ ok = TRUE
  /\ pc = "poll"
  /\ table_ = [p \in {} |-> {}]
  /\ samples_taken_ = 0
  /\ picture = [e \in Endpoints |-> NoEntry]
  /\ events = 0 /\ since = 0
  /\ refreshed_ = FALSE /\ events_at_last_refresh_ = 0
  /\ listed = {} /\ asked = 0
  /\ guid_to_node_ = {}
  /\ complete = "unset"
  /\ missing = {}
  /\ named = {}

Next == World \/ Discovery \/ Main \/ Interrupt \/ PassTime

Spec == Init /\ [][Next]_vars

\* What is scheduled or reliable goes on: the main thread, the clock, discovery (it resends
\* until the data is there), and ros_discovery_info (a reliable, transient-local topic).
FairSpec ==
  /\ Spec
  /\ WF_vars(Main)
  /\ WF_vars(PassTime)
  /\ WF_vars(Discovery)
  /\ \A p \in Participants : SF_vars(PollTake(p) /\ UNCHANGED <<clock, discoveryVars, ok>>)
------------------------------------------------------------------------------
\* A frame that calls discovery complete misses nothing that is announced: every endpoint
\* a taken ros_discovery_info sample names and that still exists is in the picture the
\* frame prints, although sample, snapshot and live participants are read at different
\* instants.
CompleteMeansNothingMissed ==
  (pc = "frame" /\ complete = "true")
    => \A e \in Endpoints : (life[e] = "announced" /\ lookup(e)) => e \in Discovered(picture)

\* A refresh that is skipped loses nothing: the count remembered with a query is never
\* ahead of the events and samples that were there when the query began, so whatever came
\* during or after it makes the next frame ask again.
SkipIsSafe == (refreshed_ /\ ok) => events_at_last_refresh_ <= asked

\* "Incomplete" does not stick: whatever joins, restarts or leaves, once the nodes stop
\* changing the frames of --watch stop reporting missed endpoints.
IncompleteClears == <>[](ok => complete # "false")

\* An endpoint that is announced and stays gets its node name, and keeps it, even when
\* the rmw's graph never learns it.
NamedEventually ==
  \A e \in Endpoints : <>[](life[e] = "announced" /\ ok) => <>[](e \in named)
==============================================================================
