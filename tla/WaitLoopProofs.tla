---------------------------- MODULE WaitLoopProofs ----------------------------
(***************************************************************************)
(* Theorems about the observation loop, for every set of endpoints,        *)
(* command line and bound: WaitInv is inductive, and with it the settle    *)
(* rule's cache is coherent, a run that calls itself quiet was quiet, and a *)
(* settled run measured against the endpoints the observer holds.          *)
(***************************************************************************)
EXTENDS WaitLoop, TLAPS

\* A sum over no elements is 0 (the fold's recursive function exists on {{}}).
LEMMA SumOverNothing ==
  ASSUME NEW op(_)
  PROVE  MapThenSumSet(op, {}) = 0
<1> DEFINE step(g) == [s \in SUBSET {} |->
                        IF s = {} THEN 0
                        ELSE LET x == CHOOSE x \in s : TRUE IN op(x) + g[s \ {x}]]
           zero == [s \in SUBSET {} |-> 0]
<1>1. zero = step(zero)
  OBVIOUS
<1>2. \E g : g = step(g)
  BY <1>1
<1> QED
  BY <1>2 DEF MapThenSumSet, MapThenFoldSet

\* Before the first callback there is no destination and nothing to measure.
LEMMA NothingDiscovered ==
  ASSUME NEW p, p = [e \in Endpoints |-> NoEntry]
  PROVE  reader_destinations(p) = {} /\ count_measurable_pairs(p) = 0
<1>1. Discovered(p) = {}
  BY DEF Discovered
<1>2. reader_destinations(p) = {}
  BY <1>1 DEF reader_destinations
<1>3. count_measurable_pairs(p) = 0
  <2>1. {TopicOf[e] : e \in Discovered(p) \ OwnEndpoints} = {}
    BY <1>1
  <2> QED
    BY <2>1, SumOverNothing DEF count_measurable_pairs
<1> QED
  BY <1>2, <1>3

\* Destinations are locators, whatever was discovered.
LEMMA DestinationsAreLocators ==
  ASSUME NEW p \in [Endpoints -> Contents \cup {NoEntry}]
  PROVE  reader_destinations(p) \in SUBSET Locators
<1>1. ASSUME NEW e \in Discovered(p)
      PROVE  p[e] \in SUBSET Locators
  BY <1>1, WaitLoopAssumption DEF Discovered
<1> QED
  BY <1>1 DEF reader_destinations

LEMMA WaitInit == Init => WaitInv
<1> SUFFICES ASSUME Init PROVE WaitInv
  OBVIOUS
<1>1. TypeOK
  <2>1. ok \in BOOLEAN /\ quiet_now \in BOOLEAN
    BY Zenon DEF Init
  <2>2. DiscoveryTypeOK
    BY DEF Init, DiscoveryInit, DiscoveryTypeOK
  <2> QED
    BY <2>1, <2>2 DEF Init, TypeOK, LoopSteps
<1>2. FreshDestinations
  BY NothingDiscovered DEF Init, DiscoveryInit, FreshDestinations
<1> QED
  BY <1>1, <1>2 DEF Init, DiscoveryInit, WaitInv, ClockInv, CountInv, PictureInv, SinceInv,
     PassInv, SettledInv, QuietMeansQuiet

------------------------------------------------------------------------------
\* Steps of the other threads.

LEMMA DiscoveryStep == WaitInv /\ Discovery => WaitInv'
<1> SUFFICES ASSUME WaitInv, Discovery PROVE WaitInv'
  OBVIOUS
<1>1. /\ last_event_' = clock /\ clock' = clock
      /\ event_count_' = event_count_ + 1
      /\ endpoints_' \in [Endpoints -> Contents \cup {NoEntry}]
      /\ participants_' \in SUBSET Participants
      /\ UNCHANGED <<mainVars, statVars, ok>>
  BY DEF Discovery, WaitInv, TypeOK, DiscoveryTypeOK, endpoint_discovered, endpoint_removed,
     participant_discovered, participant_removed, participant_other_status, upsert, erase,
     touch, Discovered
<1>2. event_count_ \in Nat /\ clock \in Nat /\ reader_destinations_event_count \in Nat
  BY DEF WaitInv, TypeOK, DiscoveryTypeOK
<1>3. TypeOK'
  BY <1>1, <1>2 DEF WaitInv, TypeOK, DiscoveryTypeOK, mainVars, statVars
<1>4. reader_destinations_event_count' # event_count_'
  BY <1>1, <1>2 DEF WaitInv, CountInv, mainVars
<1>5. now \in Nat /\ now' = now /\ last_event_' >= now' /\ ClockInv'
  BY <1>1 DEF WaitInv, ClockInv, TypeOK, DiscoveryTypeOK, mainVars
<1>6. CountInv'
  BY <1>1, <1>2 DEF WaitInv, CountInv, mainVars
<1>7. QuietMeansQuiet'
  BY <1>1, <1>2, <1>5 DEF WaitInv, QuietMeansQuiet, mainVars
<1> QED
  BY <1>1, <1>3, <1>4, <1>5, <1>6, <1>7 DEF WaitInv, PictureInv, SinceInv, PassInv, SettledInv,
     FreshDestinations, mainVars

LEMMA StatisticsStep == WaitInv /\ (Statistics \/ Interrupt) => WaitInv'
<1> SUFFICES ASSUME WaitInv, Statistics \/ Interrupt PROVE WaitInv'
  OBVIOUS
<1>1. UNCHANGED <<observerVars, mainVars>>
  BY DEF Statistics, Interrupt
<1>2. ok' \in BOOLEAN
  BY Zenon DEF Statistics, Interrupt, WaitInv, TypeOK
<1>3. /\ matched' \in SUBSET StatWriters
      /\ heard_' \in SUBSET StatWriters
      /\ traffic_' \in SUBSET (StatWriters \X Locators)
  <2>1. CASE Interrupt
    BY <2>1 DEF Interrupt, WaitInv, TypeOK, statVars
  <2>2. CASE Statistics
    BY <2>2 DEF Statistics, WaitInv, TypeOK
  <2> QED
    BY <2>1, <2>2
<1>4. TypeOK'
  BY <1>1, <1>2, <1>3 DEF WaitInv, TypeOK, DiscoveryTypeOK, mainVars, observerVars,
     discoveryVars
<1> QED
  BY <1>1, <1>4 DEF WaitInv, ClockInv, CountInv, PictureInv, SinceInv, PassInv, SettledInv,
     QuietMeansQuiet, FreshDestinations, mainVars, observerVars, discoveryVars

LEMMA TickStep == WaitInv /\ PassTime => WaitInv'
<1> SUFFICES ASSUME WaitInv, PassTime PROVE WaitInv'
  OBVIOUS
<1>1. clock' = clock + 1 /\ UNCHANGED <<discoveryVars, mainVars, statVars, ok>>
  BY DEF PassTime, Tick
<1>2. TypeOK' /\ ClockInv'
  BY <1>1 DEF WaitInv, TypeOK, DiscoveryTypeOK, ClockInv, statVars, mainVars, discoveryVars
<1> QED
  BY <1>1, <1>2 DEF WaitInv, CountInv, PictureInv, SinceInv, PassInv, SettledInv,
     QuietMeansQuiet, FreshDestinations, mainVars, discoveryVars

------------------------------------------------------------------------------
\* Steps of the main thread.

\* The main thread writes neither the observer nor the statistics it reads.
LEMMA MainStep == WaitInv /\ Main => WaitInv'
<1> SUFFICES ASSUME WaitInv, Main PROVE WaitInv'
  OBVIOUS
<1> USE DEF WaitInv
<1>0. UNCHANGED <<observerVars, statVars, ok>>
  BY DEF Main
<1>t. /\ clock' = clock /\ endpoints_' = endpoints_ /\ participants_' = participants_
      /\ last_event_' = last_event_ /\ event_count_' = event_count_
      /\ matched' = matched /\ heard_' = heard_ /\ traffic_' = traffic_ /\ ok' = ok
  BY <1>0 DEF observerVars, discoveryVars, statVars
<1>n. /\ clock \in Nat /\ last_event_ \in Nat /\ event_count_ \in Nat /\ now \in Nat
      /\ reader_destinations_event_count \in Nat /\ measured_changed_s \in Nat
      /\ since_last \in Int /\ opt.quiet \in Nat
  BY WaitLoopAssumption DEF TypeOK, DiscoveryTypeOK
<1>1. CASE SampleClock
  <2>1. TypeOK'
    <3>1. quiet_now' \in BOOLEAN
      BY <1>1, Zenon DEF SampleClock
    <3> QED
      BY <1>1, <1>t, <1>n, <3>1 DEF SampleClock, TypeOK, DiscoveryTypeOK, LoopSteps
  <2> QED
    BY <1>1, <1>t, <1>n, <2>1 DEF SampleClock, ClockInv, CountInv, PictureInv, SinceInv, PassInv,
       SettledInv, QuietMeansQuiet, FreshDestinations, LoopSteps
<1>2. CASE ReadLastEvent
  <2>1. TypeOK'
    BY <1>2, <1>t, <1>n DEF ReadLastEvent, TypeOK, DiscoveryTypeOK, LoopSteps
  <2> QED
    BY <1>2, <1>t, <1>n, <2>1 DEF ReadLastEvent, ClockInv, CountInv, PictureInv, SinceInv,
       PassInv, SettledInv, QuietMeansQuiet, FreshDestinations, LoopSteps
<1>3. CASE JudgeQuiet
  <2>1. quiet_now' \in BOOLEAN
    BY <1>3, Zenon DEF JudgeQuiet
  <2>2. /\ pc = "quiet"
        /\ pc' \in {"stopped", "compare", "ok"}
        /\ stopped_on' \in {stopped_on, "quiet"}
        /\ UNCHANGED <<opt, now, since_last, reader_destinations_event_count, picture,
              measurable_pairs, measured_instances, measured_changed_s, reader_destinations_>>
    BY <1>3 DEF JudgeQuiet
  <2>3. quiet_now' => IsQuiet
    BY <1>3 DEF JudgeQuiet
  <2>4. QuietMeansQuiet'
    BY <1>t, <1>n, <2>2, <2>3 DEF IsQuiet, SinceInv, QuietMeansQuiet
  <2>5. TypeOK'
    BY <1>t, <1>n, <2>1, <2>2 DEF TypeOK, DiscoveryTypeOK, LoopSteps, OutputSteps
  <2> QED
    BY <1>t, <1>n, <2>2, <2>4, <2>5 DEF ClockInv, CountInv, PictureInv, SinceInv, PassInv,
       SettledInv, FreshDestinations, LoopSteps
<1>4. CASE CompareEventCount
  <2>1. TypeOK'
    BY <1>4, <1>t DEF CompareEventCount, TypeOK, DiscoveryTypeOK, LoopSteps
  <2> QED
    BY <1>4, <1>t, <2>1 DEF CompareEventCount, ClockInv, CountInv, PictureInv, SinceInv, PassInv,
       SettledInv, QuietMeansQuiet, FreshDestinations, LoopSteps
<1>5. CASE RememberEventCount
  <2>1. TypeOK'
    BY <1>5, <1>t, <1>n DEF RememberEventCount, TypeOK, DiscoveryTypeOK, LoopSteps
  <2> QED
    BY <1>5, <1>t, <1>n, <2>1 DEF RememberEventCount, ClockInv, CountInv, PictureInv, SinceInv,
       PassInv, SettledInv, QuietMeansQuiet, FreshDestinations, LoopSteps
\* The three snapshots: in the loop the remembered count vouches for the picture,
\* after it the picture is the observer's whatever the count says.
<1>6. ASSUME NEW from, NEW to, TakePicture(from, to),
             <<from, to>> \in {<<"snapshot", "setdest">>, <<"stopped", "warnset">>,
                              <<"collect", "frameset">>}
      PROVE  WaitInv'
  <2>1. TypeOK'
    BY <1>6, <1>t DEF TakePicture, snapshot, TypeOK, DiscoveryTypeOK, LoopSteps, OutputSteps
  <2>2. PictureInv'
    BY <1>6, <1>t DEF TakePicture, snapshot, PictureInv
  <2>3. FreshDestinations'
    BY <1>6, <1>t DEF TakePicture, FreshDestinations
  <2> QED
    BY <1>6, <1>t, <2>1, <2>2, <2>3 DEF TakePicture, ClockInv, CountInv, SinceInv, PassInv,
       SettledInv, QuietMeansQuiet, LoopSteps
<1>7. ASSUME NEW from, NEW to, refresh_reader_destinations(from, to),
             <<from, to>> \in {<<"setdest", "settle">>, <<"warnset", "warnsettle">>,
                              <<"frameset", "framesettle">>}
      PROVE  WaitInv'
  <2>1. reader_destinations(picture) \in SUBSET Locators
    BY DestinationsAreLocators DEF TypeOK
  <2>2. TypeOK'
    BY <1>7, <1>t, <2>1 DEF refresh_reader_destinations, TypeOK, DiscoveryTypeOK, LoopSteps,
       OutputSteps
  <2>3. FreshDestinations'
    BY <1>7, <1>t DEF refresh_reader_destinations, PictureInv, FreshDestinations
  <2> QED
    BY <1>7, <1>t, <2>2, <2>3 DEF refresh_reader_destinations, ClockInv, CountInv, PictureInv,
       SinceInv, PassInv, SettledInv, QuietMeansQuiet, LoopSteps
<1>8. CASE JudgeSettled
  <2>1. /\ pc = "settle"
        /\ \/ pc' = "stopped" /\ stopped_on' = "settled"
           \/ pc' = "ok" /\ stopped_on' = stopped_on
        /\ measured_changed_s' \in {now, measured_changed_s}
        /\ UNCHANGED <<opt, now, since_last, quiet_now, reader_destinations_event_count, picture,
                       measurable_pairs, reader_destinations_>>
    BY <1>8 DEF JudgeSettled
  <2>2. TypeOK'
    BY <1>t, <1>n, <2>1 DEF TypeOK, DiscoveryTypeOK, LoopSteps, OutputSteps
  <2> QED
    BY <1>t, <2>1, <2>2 DEF ClockInv, CountInv, PictureInv, SinceInv, PassInv, SettledInv,
       QuietMeansQuiet, FreshDestinations, LoopSteps
\* Steps that only move the main thread on.
<1>9. ASSUME NEW from, NEW to, Goto(from, to),
             <<from, to>> \in {<<"stopped", "watch">>, <<"stopped", "collect">>,
                              <<"warnsettle", "collect">>, <<"frameset", "framesettle">>,
                              <<"framesettle", "watch">>, <<"framesettle", "done">>,
                              <<"watch", "collect">>, <<"watch", "done">>}
      PROVE  WaitInv'
  <2>1. TypeOK'
    BY <1>9, <1>t DEF Goto, TypeOK, DiscoveryTypeOK, LoopSteps, OutputSteps
  <2> QED
    BY <1>9, <1>t, <2>1 DEF Goto, ClockInv, CountInv, PictureInv, SinceInv, PassInv, SettledInv,
       QuietMeansQuiet, FreshDestinations, LoopSteps
<1>10. CASE CheckInterrupt
  <2>1. TypeOK'
    BY <1>10, <1>t DEF CheckInterrupt, TypeOK, DiscoveryTypeOK, LoopSteps, OutputSteps
  <2> QED
    BY <1>10, <1>t, <2>1 DEF CheckInterrupt, ClockInv, CountInv, PictureInv, SinceInv, PassInv,
       SettledInv, QuietMeansQuiet, FreshDestinations, LoopSteps
<1>11. CASE AfterLoop
  BY <1>6, <1>9, <1>11 DEF AfterLoop
<1>12. CASE Warn
  BY <1>7, <1>9, <1>12 DEF Warn
<1>13. CASE Collect
  BY <1>6, <1>7, <1>9, <1>13 DEF Collect
<1>14. CASE WatchLoop
  BY <1>9, <1>14 DEF WatchLoop
<1> QED
  BY <1>1, <1>2, <1>3, <1>4, <1>5, <1>6, <1>7, <1>8, <1>10, <1>11, <1>12, <1>13, <1>14 DEF Main

------------------------------------------------------------------------------
\* WaitInv is an invariant of the loop together with the threads it races.
THEOREM WaitInvariant == Spec => []WaitInv
<1>1. WaitInv /\ [Next]_vars => WaitInv'
  <2> SUFFICES ASSUME WaitInv, [Next]_vars PROVE WaitInv'
    OBVIOUS
  <2>1. CASE UNCHANGED vars
    BY <2>1 DEF WaitInv, TypeOK, DiscoveryTypeOK, ClockInv, CountInv, PictureInv, SinceInv,
       PassInv, SettledInv, QuietMeansQuiet, FreshDestinations, vars, observerVars,
       discoveryVars, mainVars, statVars
  <2> QED
    BY <2>1, MainStep, DiscoveryStep, StatisticsStep, TickStep DEF Next
<1> QED
  BY WaitInit, <1>1, PTL DEF Spec

\* Type correctness of the loop for every instance.
THEOREM TypeCorrect == Spec => []TypeOK
  BY WaitInvariant, PTL DEF WaitInv

\* The settle rule's cached destinations and pair count are the observer's whenever
\* the remembered event count is: main() reads the count before the snapshot.
THEOREM CacheCoherent == Spec => []FreshDestinations
  BY WaitInvariant, PTL DEF WaitInv

\* quiet_now is never TRUE with a callback stamped inside the silent window.
THEOREM QuietSound == Spec => []QuietMeansQuiet
  BY WaitInvariant, PTL DEF WaitInv

\* A settled run judged the destinations of the endpoints the observer holds, unless a
\* callback came after its last pass had sampled the clock.
THEOREM SettledSound == Spec => []SettledOnCurrentPicture
<1>1. WaitInv => SettledOnCurrentPicture
  <2> SUFFICES ASSUME WaitInv, stopped_on = "settled", last_event_ < now
               PROVE  reader_destinations_ = reader_destinations(endpoints_)
    BY DEF SettledOnCurrentPicture
  <2>1. reader_destinations_event_count = event_count_
    BY DEF WaitInv, PassInv, TypeOK, DiscoveryTypeOK
  <2>2. pc \notin {"snapshot", "setdest"}
    BY DEF WaitInv, SettledInv, LoopSteps
  <2> QED
    BY <2>1, <2>2 DEF WaitInv, FreshDestinations
<1> QED
  BY WaitInvariant, <1>1, PTL
==============================================================================
