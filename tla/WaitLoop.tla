------------------------------- MODULE WaitLoop -------------------------------
(***************************************************************************)
(* The observation loop of main() (main.cpp): the main thread waits for    *)
(* discovery to fall silent (--quiet), for the statistics to settle        *)
(* (--stats) or for --timeout, while Fast DDS threads call the discovery   *)
(* observer and the statistics drain thread adds to what was measured.     *)
(* After the wait it prints once, or one frame after the other (--watch).  *)
(*                                                                         *)
(* The main thread's step is the piece of code between two accesses to     *)
(* state other threads write: every accessor call is a step of its own.    *)
(* Of the statistics observer only what the settle rule reads is here; how *)
(* it comes about is in the modules StatsDrain and StatsListener.          *)
(***************************************************************************)
EXTENDS DiscoveryObserver, FiniteSetsExt

CONSTANTS
  Writers,       \* the endpoints that are DataWriters; the others are DataReaders
  OwnEndpoints,  \* endpoints of the tool's own participants (own_participant_prefixes)
  TopicOf,       \* endpoint -> DDS topic
  ProcessOf,     \* endpoint -> process (its own GUID for another vendor's endpoint)
  StatWriters,   \* RTPS_SENT statistics writers, one per participant with statistics
  Locators,      \* destinations an RTPS packet can be sent to
  Options,       \* command lines: records with stats, watch, quiet, timeout
  SettleMin,     \* kStatsSettleMinSeconds
  MeasuredQuiet  \* kStatsMeasuredQuietSeconds

ASSUME WaitLoopAssumption ==
  /\ Writers \subseteq Endpoints /\ OwnEndpoints \subseteq Endpoints
  /\ Contents \subseteq SUBSET Locators
  /\ Options \subseteq [stats : BOOLEAN, watch : BOOLEAN, quiet : Nat, timeout : Nat]
  /\ SettleMin \in Nat
  /\ MeasuredQuiet \in Nat

VARIABLES
  opt,                 \* the command line, never written
  ok,                  \* rclcpp::ok(): FALSE after Ctrl-C
  pc,                  \* where the main thread is
  now,                 \* elapsed, as this iteration sampled it
  since_last,          \* now - last_event(), negative for an event after the sample
  quiet_now,
  reader_destinations_event_count,
  picture,             \* a discovery snapshot the main thread is working from
  measurable_pairs,
  measured_instances,
  measured_changed_s,
  stopped_on,
  matched,             \* statistics: writers matched by the RTPS_SENT reader
  heard_,              \* statistics: writers a sample was taken from
  traffic_,            \* statistics: <<writer, destination>> whose packet count has grown
  reader_destinations_ \* statistics: the destinations that count as a measured pair

mainVars == <<opt, pc, now, since_last, quiet_now, reader_destinations_event_count, picture,
              measurable_pairs, measured_instances, measured_changed_s, stopped_on,
              reader_destinations_>>
statVars == <<matched, heard_, traffic_>>
observerVars == <<clock, discoveryVars>>
vars == <<observerVars, mainVars, statVars, ok>>

LoopSteps == {"sample", "since", "quiet", "compare", "recount", "snapshot", "setdest",
              "settle", "ok"}
OutputSteps == {"stopped", "warnset", "warnsettle", "collect", "frameset", "framesettle",
                "watch", "done"}

TypeOK ==
  /\ DiscoveryTypeOK
  /\ opt \in Options
  /\ ok \in BOOLEAN
  /\ pc \in LoopSteps \cup OutputSteps
  /\ now \in Nat
  /\ since_last \in Int
  /\ quiet_now \in BOOLEAN
  /\ reader_destinations_event_count \in Nat
  /\ picture \in [Endpoints -> Contents \cup {NoEntry}]
  /\ measured_changed_s \in Nat
  /\ stopped_on \in {"timeout", "quiet", "settled"}
  /\ matched \in SUBSET StatWriters
  /\ heard_ \in SUBSET StatWriters
  /\ traffic_ \in SUBSET (StatWriters \X Locators)
  /\ reader_destinations_ \in SUBSET Locators

------------------------------------------------------------------------------
\* reader_destinations(): where the discovered readers, less our own, receive.
reader_destinations(endpoints) ==
  UNION {endpoints[e] : e \in (Discovered(endpoints) \ Writers) \ OwnEndpoints}

\* count_measurable_pairs(): per topic all writer x reader pairs, less those of one
\* process, counted per process so that it takes one pass over the endpoints.
count_measurable_pairs(endpoints) ==
  LET seen == Discovered(endpoints) \ OwnEndpoints
      W(t) == {e \in seen \cap Writers : TopicOf[e] = t}
      R(t) == {e \in seen \ Writers : TopicOf[e] = t}
      SameProcess(t, p) == Cardinality({e \in W(t) : ProcessOf[e] = p})
                             * Cardinality({e \in R(t) : ProcessOf[e] = p})
      OfTopic(t) ==
        Cardinality(W(t)) * Cardinality(R(t))
          - MapThenSumSet(LAMBDA p : SameProcess(t, p), {ProcessOf[e] : e \in seen})
  IN MapThenSumSet(OfTopic, {TopicOf[e] : e \in seen})

measures_a_pair(entry, destinations) == entry[2] \in destinations

\* settle_status(), under both mutexes of the statistics observer.
announced == Cardinality(matched)
heard == Cardinality(matched \cap heard_)
measured == Cardinality({entry \in traffic_ : measures_a_pair(entry, reader_destinations_)})

watch_ready(elapsed) == ~opt.stats \/ elapsed >= SettleMin

stats_settled(instances, quietFor) ==
  /\ quiet_now
  /\ now >= SettleMin
  /\ heard >= announced
  /\ announced = 0 \/ measurable_pairs = 0 \/ instances > 0
  /\ quietFor >= IF opt.quiet > MeasuredQuiet THEN opt.quiet ELSE MeasuredQuiet

------------------------------------------------------------------------------
Init ==
  /\ DiscoveryInit
  /\ opt \in Options
  /\ ok = TRUE
  /\ pc = "sample"
  /\ now = 0
  /\ since_last = 0
  /\ quiet_now = FALSE
  /\ reader_destinations_event_count = 0
  /\ picture = [e \in Endpoints |-> NoEntry]
  /\ measurable_pairs = 0
  /\ measured_instances = 0
  /\ measured_changed_s = 0
  /\ stopped_on = "timeout"
  /\ matched = {}
  /\ heard_ = {}
  /\ traffic_ = {}
  /\ reader_destinations_ = {}

\* Mutant: the elapsed time starts over with every event.
SampleClockSinceEvent ==
  /\ pc = "sample"
  /\ now' = clock - last_event_
  /\ quiet_now' = FALSE
  /\ pc' = "since"
  /\ UNCHANGED <<opt, since_last, reader_destinations_event_count, picture, measurable_pairs,
                 measured_instances, measured_changed_s, stopped_on, reader_destinations_>>

\* The head of an iteration, after the 50 ms sleep: one clock reading for all tests.
SampleClock ==
  /\ pc = "sample"
  /\ now' = clock
  /\ quiet_now' = FALSE
  /\ pc' = "since"
  /\ UNCHANGED <<opt, since_last, reader_destinations_event_count, picture, measurable_pairs,
                 measured_instances, measured_changed_s, stopped_on, reader_destinations_>>

ReadLastEvent ==
  /\ pc = "since"
  /\ since_last' = now - last_event_
  /\ pc' = "quiet"
  /\ UNCHANGED <<opt, now, quiet_now, reader_destinations_event_count, picture,
                 measurable_pairs, measured_instances, measured_changed_s, stopped_on,
                 reader_destinations_>>

\* Mutant: quiet before discovery has begun.
IsQuietFromStart == opt.quiet > 0 /\ now >= opt.quiet /\ since_last >= opt.quiet

IsQuiet ==
  /\ opt.quiet > 0
  /\ now >= opt.quiet
  /\ since_last >= opt.quiet
  /\ event_count_ > 0

\* The tests of --timeout and --quiet, and the way into the settle rule.
JudgeQuiet ==
  /\ pc = "quiet"
  /\ quiet_now' = (now < opt.timeout /\ IsQuiet)
  /\ \/ /\ now >= opt.timeout
        /\ pc' = "stopped"
        /\ UNCHANGED stopped_on
     \/ /\ now < opt.timeout
        /\ IsQuiet
        /\ ~opt.stats \/ (opt.watch /\ watch_ready(now))
        /\ pc' = "stopped"
        /\ stopped_on' = "quiet"
     \/ /\ now < opt.timeout
        /\ ~(IsQuiet /\ (~opt.stats \/ (opt.watch /\ watch_ready(now))))
        /\ pc' = IF opt.stats /\ ~opt.watch /\ opt.quiet > 0 /\ now >= SettleMin
                 THEN "compare" ELSE "ok"
        /\ UNCHANGED stopped_on
  /\ UNCHANGED <<opt, now, since_last, reader_destinations_event_count, picture,
                 measurable_pairs, measured_instances, measured_changed_s,
                 reader_destinations_>>

\* Mutant: the destinations are built once.
CompareOnce ==
  /\ pc = "compare"
  /\ pc' = IF reader_destinations_event_count = 0 THEN "recount" ELSE "settle"
  /\ UNCHANGED <<opt, now, since_last, quiet_now, reader_destinations_event_count, picture,
                 measurable_pairs, measured_instances, measured_changed_s, stopped_on,
                 reader_destinations_>>

\* The destinations are rebuilt when discovery delivered something since the last
\* check: event_count() is read to compare and read again to remember, then the
\* snapshot is taken.
CompareEventCount ==
  /\ pc = "compare"
  /\ pc' = IF event_count_ # reader_destinations_event_count THEN "recount" ELSE "settle"
  /\ UNCHANGED <<opt, now, since_last, quiet_now, reader_destinations_event_count, picture,
                 measurable_pairs, measured_instances, measured_changed_s, stopped_on,
                 reader_destinations_>>

RememberEventCount ==
  /\ pc = "recount"
  /\ reader_destinations_event_count' = event_count_
  /\ pc' = "snapshot"
  /\ UNCHANGED <<opt, now, since_last, quiet_now, picture, measurable_pairs,
                 measured_instances, measured_changed_s, stopped_on, reader_destinations_>>

TakePicture(from, to) ==
  /\ pc = from
  /\ picture' = snapshot
  /\ pc' = to
  /\ UNCHANGED <<opt, now, since_last, quiet_now, reader_destinations_event_count,
                 measurable_pairs, measured_instances, measured_changed_s, stopped_on,
                 reader_destinations_>>

\* Mutant: the count is remembered once the destinations are built.
refresh_then_remember(from, to) ==
  /\ pc = from
  /\ reader_destinations_' = reader_destinations(picture)
  /\ measurable_pairs' = count_measurable_pairs(picture)
  /\ reader_destinations_event_count' = event_count_
  /\ pc' = to
  /\ UNCHANGED <<opt, now, since_last, quiet_now, picture, measured_instances,
                 measured_changed_s, stopped_on>>

\* refresh_reader_destinations(): both numbers from the one picture.
refresh_reader_destinations(from, to) ==
  /\ pc = from
  /\ reader_destinations_' = reader_destinations(picture)
  /\ measurable_pairs' = count_measurable_pairs(picture)
  /\ pc' = to
  /\ UNCHANGED <<opt, now, since_last, quiet_now, reader_destinations_event_count, picture,
                 measured_instances, measured_changed_s, stopped_on>>

JudgeSettled ==
  /\ pc = "settle"
  /\ LET changed == measured # measured_instances
         changedAt == IF changed THEN now ELSE measured_changed_s
         settled == stats_settled(measured, now - changedAt)
     IN /\ measured_instances' = measured
        /\ measured_changed_s' = changedAt
        /\ stopped_on' = IF settled THEN "settled" ELSE stopped_on
        /\ pc' = IF settled THEN "stopped" ELSE "ok"
  /\ UNCHANGED <<opt, now, since_last, quiet_now, reader_destinations_event_count, picture,
                 measurable_pairs, reader_destinations_>>

CheckInterrupt ==
  /\ pc = "ok"
  /\ pc' = IF ok THEN "sample" ELSE "stopped"
  /\ UNCHANGED <<opt, now, since_last, quiet_now, reader_destinations_event_count, picture,
                 measurable_pairs, measured_instances, measured_changed_s, stopped_on,
                 reader_destinations_>>

\* After the loop: a --stats one-shot that hit the cap judges once more what it is
\* missing, from a picture of its own; then one collect(), or one per --watch frame.
Goto(from, to) ==
  /\ pc = from
  /\ pc' = to
  /\ UNCHANGED <<opt, now, since_last, quiet_now, reader_destinations_event_count, picture,
                 measurable_pairs, measured_instances, measured_changed_s, stopped_on,
                 reader_destinations_>>

WarnsUnheard == opt.stats /\ stopped_on = "timeout" /\ ~opt.watch

AfterLoop ==
  \/ WarnsUnheard /\ TakePicture("stopped", "warnset")
  \/ ~WarnsUnheard /\ Goto("stopped", IF opt.watch THEN "watch" ELSE "collect")

Warn ==
  \/ refresh_reader_destinations("warnset", "warnsettle")
  \/ Goto("warnsettle", "collect")

Collect ==
  \/ TakePicture("collect", "frameset")
  \/ opt.stats /\ refresh_reader_destinations("frameset", "framesettle")
  \/ ~opt.stats /\ Goto("frameset", "framesettle")
  \/ Goto("framesettle", IF opt.watch THEN "watch" ELSE "done")

\* The --watch loop: the next frame, until Ctrl-C or the q key; and its mutant, which does
\* not look at Ctrl-C.
WatchForever == Goto("watch", "collect")

WatchLoop ==
  \/ Goto("watch", IF ok THEN "collect" ELSE "done")
  \/ Goto("watch", "done")    \* the q key

Main ==
  /\ \/ SampleClock
     \/ ReadLastEvent
     \/ JudgeQuiet
     \/ CompareEventCount
     \/ RememberEventCount
     \/ TakePicture("snapshot", "setdest")
     \/ refresh_reader_destinations("setdest", "settle")
     \/ JudgeSettled
     \/ CheckInterrupt
     \/ AfterLoop
     \/ Warn
     \/ Collect
     \/ WatchLoop
  /\ UNCHANGED <<observerVars, statVars, ok>>

------------------------------------------------------------------------------
\* Fast DDS threads: discovery callbacks.
Discovery ==
  /\ \/ \E e \in Endpoints, c \in Contents : endpoint_discovered(e, c)
     \/ \E e \in Discovered(endpoints_) : endpoint_removed(e)
     \/ \E p \in Participants : participant_discovered(p)
     \/ \E p \in participants_ : participant_removed(p)
     \/ participant_other_status
  /\ UNCHANGED <<mainVars, statVars, ok>>

\* Fast DDS threads and the drain thread: a statistics writer matches or goes, its
\* first sample is taken, a later sample shows more packets than the first.
Statistics ==
  /\ opt.stats
  /\ \/ \E w \in StatWriters :
          /\ matched' \in {matched \cup {w}, matched \ {w}}
          /\ UNCHANGED <<heard_, traffic_>>
     \/ \E w \in matched :
          /\ heard_' = heard_ \cup {w}
          /\ UNCHANGED <<matched, traffic_>>
     \/ \E w \in heard_, l \in Locators :
          /\ traffic_' = traffic_ \cup {<<w, l>>}
          /\ UNCHANGED <<matched, heard_>>
  /\ UNCHANGED <<observerVars, mainVars, ok>>

Interrupt ==
  /\ ok
  /\ ok' = FALSE
  /\ UNCHANGED <<observerVars, mainVars, statVars>>

PassTime == Tick /\ UNCHANGED <<mainVars, statVars, ok>>

Next == Main \/ Discovery \/ Statistics \/ Interrupt \/ PassTime

Spec == Init /\ [][Next]_vars

\* The main thread is scheduled and the clock runs.
FairSpec == Spec /\ WF_vars(Main) /\ WF_vars(PassTime)
------------------------------------------------------------------------------
\* A run that may still discover something never calls itself quiet: whenever the
\* loop holds quiet_now, at least one callback was delivered and none carries a
\* time stamp in the --quiet seconds before the sampled clock.  last_event() is
\* read after the clock, so a callback in between counts against the silence.
QuietMeansQuiet ==
  quiet_now =>
    /\ event_count_ > 0
    /\ now >= opt.quiet
    /\ last_event_ <= now - opt.quiet \/ last_event_ >= now

\* The settle rule's cache of reader destinations and measurable pairs is never
\* stale behind an event count that says it is current: outside the refresh itself,
\* an unchanged count means both are those of the observer's endpoints.  The count
\* is remembered before the snapshot is taken; the other order loses the callback
\* that comes between them for good.
FreshDestinations ==
  (pc \notin {"snapshot", "setdest"} /\ reader_destinations_event_count = event_count_)
    => /\ reader_destinations_ = reader_destinations(endpoints_)
       /\ measurable_pairs = count_measurable_pairs(endpoints_)

\* A --stats one-shot that stops as settled has measured against every reader that
\* was discovered when the last pass began: unless a callback came after that
\* pass's clock sample, the destinations it judged are those of the endpoints the
\* observer holds.
SettledOnCurrentPicture ==
  (stopped_on = "settled" /\ last_event_ < now)
    => reader_destinations_ = reader_destinations(endpoints_)

\* Whatever discovery and statistics do, the wait ends (--timeout is a real cap).
WaitEnds == <>(pc \notin LoopSteps)

\* Ctrl-C ends every mode, --watch included.
InterruptEnds == ~ok ~> pc = "done"
------------------------------------------------------------------------------
\* What the proofs need besides the properties: time stamps lie in the past, the
\* remembered count is one the observer has had, a picture taken while that count
\* was current is the observer's, since_last is the distance to the last event or
\* the event came after the sample, and so for the pass that judges the settle rule.
ClockInv == last_event_ <= clock /\ now <= clock

CountInv == reader_destinations_event_count <= event_count_

PictureInv ==
  (pc \in {"setdest", "warnset", "frameset"} /\ reader_destinations_event_count = event_count_)
    => picture = endpoints_

SinceInv == pc = "quiet" => (since_last = now - last_event_ \/ last_event_ >= now)

PassInv ==
  (pc \in {"snapshot", "setdest", "settle"} \/ stopped_on = "settled")
    => (reader_destinations_event_count = event_count_ \/ last_event_ >= now)

SettledInv == stopped_on = "settled" => pc \notin LoopSteps

WaitInv ==
  /\ TypeOK
  /\ ClockInv
  /\ CountInv
  /\ PictureInv
  /\ SinceInv
  /\ PassInv
  /\ SettledInv
  /\ QuietMeansQuiet
  /\ FreshDestinations
==============================================================================
