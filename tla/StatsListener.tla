----------------------------- MODULE StatsListener -----------------------------
(***************************************************************************)
(* StatsObserver::Listener (stats_observer.cpp): the loss and match        *)
(* callbacks of the statistics readers.  Ten readers share the one         *)
(* listener, so callbacks run on several Fast DDS threads at once; the     *)
(* counters and the last match are separate atomics, and snapshot() reads  *)
(* them one after the other while callbacks go on.  Each access to an      *)
(* atomic is a step; the writers matched are under a mutex of their own.   *)
(***************************************************************************)
EXTENDS Integers, FiniteSets

CONSTANTS
  Threads,      \* Fast DDS threads that may be in a callback
  Writers,      \* statistics writers
  Grace,        \* kStatisticsLateJoinGraceSeconds
  MaxClock,     \* bound: the largest clock reading
  MaxReported   \* bound: losses reported in one run

ASSUME ListenerAssumption ==
  /\ IsFiniteSet(Threads)
  /\ Grace \in Nat /\ MaxClock \in Nat /\ MaxReported \in Nat

VARIABLES
  clock,
  lost, lost_latency, lost_at_start, rejected, incompatible_qos,
  any_match, last_match_ticks, matched,
  tpc,          \* thread -> where its callback is
  event,        \* thread -> the loss is one of the event reader, HISTORY_LATENCY's
  seconds,      \* thread -> seconds since the last match, as it computed them
  reported,     \* history: losses reported by callbacks that began
  spc,          \* where snapshot() is in reading the counters
  out,          \* what it has read: lost, lost_at_start, lost_latency
  floor         \* history: when it read the first of them, the losses counted (all) and the
                \* callbacks that had counted a latency loss in one counter of two (midway)

counters == <<lost, lost_latency, lost_at_start, rejected, incompatible_qos>>
matchVars == <<any_match, last_match_ticks, matched>>
threadVars == <<tpc, event, seconds>>
snapVars == <<spc, out, floor>>
vars == <<clock, counters, matchVars, threadVars, reported, snapVars>>

TypeOK ==
  /\ clock \in Nat
  /\ \A n \in {lost, lost_latency, lost_at_start, rejected, incompatible_qos, reported} : n \in Nat
  /\ any_match \in BOOLEAN /\ last_match_ticks \in Nat /\ matched \in SUBSET Writers
  /\ tpc \in [Threads -> {"idle", "window", "at_start", "lost", "latency", "ticks", "any"}]
  /\ event \in [Threads -> BOOLEAN]
  /\ seconds \in [Threads -> Int]
  /\ spc \in {"lost", "at_start", "latency", "return"}
  /\ out \in [lost : Nat, lost_at_start : Nat, lost_latency : Nat]
  /\ floor \in [all : Nat, midway : Nat]

Init ==
  /\ clock = 0
  /\ lost = 0 /\ lost_latency = 0 /\ lost_at_start = 0
  /\ rejected = 0 /\ incompatible_qos = 0
  /\ any_match = FALSE /\ last_match_ticks = 0 /\ matched = {}
  /\ tpc = [t \in Threads |-> "idle"]
  /\ event = [t \in Threads |-> FALSE]
  /\ seconds = [t \in Threads |-> 0]
  /\ reported = 0
  /\ spc = "lost"
  /\ out = [lost |-> 0, lost_at_start |-> 0, lost_latency |-> 0]
  /\ floor = [all |-> 0, midway |-> 0]

------------------------------------------------------------------------------
\* on_sample_lost(): the time since the last match, then whether there was one, then the
\* counters; event_reader is set before its reader can lose anything.
OnSampleLost(t) ==
  /\ tpc[t] = "idle"
  /\ reported < MaxReported
  /\ \E isEvent \in BOOLEAN : event' = [event EXCEPT ![t] = isEvent]
  /\ seconds' = [seconds EXCEPT ![t] = clock - last_match_ticks]
  /\ reported' = reported + 1
  /\ tpc' = [tpc EXCEPT ![t] = "window"]
  /\ UNCHANGED <<clock, counters, matchVars, snapVars>>

statistics_late_join_window_open(t) == ~any_match \/ seconds[t] < Grace

\* Mutant: a loss inside the window is not counted at all.
DropInWindow(t) ==
  /\ tpc[t] = "window"
  /\ IF statistics_late_join_window_open(t)
     THEN tpc' = [tpc EXCEPT ![t] = "idle"]
     ELSE tpc' = [tpc EXCEPT ![t] = "lost"]
  /\ UNCHANGED <<clock, counters, matchVars, event, seconds, reported, snapVars>>

JudgeWindow(t) ==
  /\ tpc[t] = "window"
  /\ tpc' = [tpc EXCEPT ![t] = IF statistics_late_join_window_open(t) THEN "at_start" ELSE "lost"]
  /\ UNCHANGED <<clock, counters, matchVars, event, seconds, reported, snapVars>>

AddAtStart(t) ==
  /\ tpc[t] = "at_start"
  /\ lost_at_start' = lost_at_start + 1
  /\ tpc' = [tpc EXCEPT ![t] = "idle"]
  /\ UNCHANGED <<clock, lost, lost_latency, rejected, incompatible_qos, matchVars, event,
                 seconds, reported, snapVars>>

\* Mutant: latency losses are counted beside the others, not among them.
AddLostOfCounters(t) ==
  /\ tpc[t] = "lost"
  /\ lost' = IF event[t] THEN lost ELSE lost + 1
  /\ tpc' = [tpc EXCEPT ![t] = IF event[t] THEN "latency" ELSE "idle"]
  /\ UNCHANGED <<clock, lost_latency, lost_at_start, rejected, incompatible_qos, matchVars,
                 event, seconds, reported, snapVars>>

AddLost(t) ==
  /\ tpc[t] = "lost"
  /\ lost' = lost + 1
  /\ tpc' = [tpc EXCEPT ![t] = IF event[t] THEN "latency" ELSE "idle"]
  /\ UNCHANGED <<clock, lost_latency, lost_at_start, rejected, incompatible_qos, matchVars,
                 event, seconds, reported, snapVars>>

AddLatency(t) ==
  /\ tpc[t] = "latency"
  /\ lost_latency' = lost_latency + 1
  /\ tpc' = [tpc EXCEPT ![t] = "idle"]
  /\ UNCHANGED <<clock, lost, lost_at_start, rejected, incompatible_qos, matchVars, event,
                 seconds, reported, snapVars>>

\* on_subscription_matched(): the set, then for a new writer the ticks, then the flag.
OnSubscriptionMatched(t) ==
  /\ tpc[t] = "idle"
  /\ \/ \E w \in Writers \ matched :
          /\ matched' = matched \cup {w}
          /\ tpc' = [tpc EXCEPT ![t] = "ticks"]
     \/ \E w \in matched :
          /\ matched' = matched \ {w}
          /\ UNCHANGED tpc
  /\ UNCHANGED <<clock, counters, any_match, last_match_ticks, event, seconds, reported,
                 snapVars>>

\* Mutant: the start of the window is stored instead of its match.
StoreWindowStart(t) ==
  /\ tpc[t] = "ticks"
  /\ last_match_ticks' = clock - Grace
  /\ tpc' = [tpc EXCEPT ![t] = "any"]
  /\ UNCHANGED <<clock, counters, any_match, matched, event, seconds, reported, snapVars>>

StoreTicks(t) ==
  /\ tpc[t] = "ticks"
  /\ last_match_ticks' = clock
  /\ tpc' = [tpc EXCEPT ![t] = "any"]
  /\ UNCHANGED <<clock, counters, any_match, matched, event, seconds, reported, snapVars>>

StoreAnyMatch(t) ==
  /\ tpc[t] = "any"
  /\ any_match' = TRUE
  /\ tpc' = [tpc EXCEPT ![t] = "idle"]
  /\ UNCHANGED <<clock, counters, last_match_ticks, matched, event, seconds, reported,
                 snapVars>>

\* on_sample_rejected() and on_requested_incompatible_qos(): one atomic each.
OnRejectedOrIncompatible ==
  /\ \/ rejected = 0 /\ rejected' = rejected + 1 /\ UNCHANGED incompatible_qos
     \/ incompatible_qos = 0 /\ incompatible_qos' = incompatible_qos + 1 /\ UNCHANGED rejected
  /\ UNCHANGED <<clock, lost, lost_latency, lost_at_start, matchVars, threadVars, reported,
                 snapVars>>

In(steps) == {t \in Threads : tpc[t] \in steps}

\* snapshot() reads the counters in this order.
Read(from, to, field, value) ==
  /\ spc = from
  /\ spc' = to
  /\ out' = [out EXCEPT ![field] = value]
  /\ UNCHANGED <<clock, counters, matchVars, threadVars, reported>>

ReadLost ==
  /\ Read("lost", "at_start", "lost", lost)
  /\ floor' = [all |-> lost + lost_at_start, midway |-> Cardinality(In({"latency"}))]

\* Mutants: `lost` is copied into both fields; the latency part is not copied again.
ReadLostTwice ==
  \/ ReadLost
  \/ Read("at_start", "latency", "lost_at_start", lost) /\ UNCHANGED floor
  \/ Read("latency", "return", "lost_latency", lost_latency) /\ UNCHANGED floor
ReadLatencyOnce ==
  \/ ReadLost
  \/ Read("at_start", "latency", "lost_at_start", lost_at_start) /\ UNCHANGED floor
  \/ Read("latency", "return", "lost_latency", out.lost_latency) /\ UNCHANGED floor

ReadCounters ==
  \/ ReadLost
  \/ Read("at_start", "latency", "lost_at_start", lost_at_start) /\ UNCHANGED floor
  \/ Read("latency", "return", "lost_latency", lost_latency) /\ UNCHANGED floor

SnapshotReturn ==
  /\ spc = "return"
  /\ spc' = "lost"
  /\ UNCHANGED <<clock, counters, matchVars, threadVars, reported, out, floor>>

PassTime ==
  /\ clock < MaxClock
  /\ clock' = clock + 1
  /\ UNCHANGED <<counters, matchVars, threadVars, reported, snapVars>>

Next ==
  \/ \E t \in Threads :
       \/ OnSampleLost(t) \/ JudgeWindow(t) \/ AddAtStart(t) \/ AddLost(t) \/ AddLatency(t)
       \/ OnSubscriptionMatched(t) \/ StoreTicks(t) \/ StoreAnyMatch(t)
  \/ OnRejectedOrIncompatible
  \/ ReadCounters
  \/ SnapshotReturn
  \/ PassTime

Spec == Init /\ [][Next]_vars
------------------------------------------------------------------------------
\* Every loss a reader reports is counted once, in one of the two counters, whatever
\* callbacks run at the same time: what is not counted yet is in a callback's hands.
LossAccounted ==
  reported = lost + lost_at_start + Cardinality(In({"window", "at_start", "lost"}))

\* The latency part is counted after the whole it is a part of, so that at no instant it is
\* the larger of the two.
LatencyPartOfLost == lost_latency + Cardinality(In({"latency"})) <= lost

\* The losses of the counter readers alone: those that cost measurements.
CounterLosses == lost - lost_latency - Cardinality(In({"latency"}))

\* snapshot() reads the counters one after the other while callbacks go on.  The two loss
\* counters it copies add up to a number of losses there has been while it ran: none counted
\* before it is missing, none is in both.  The latency part it copies is of losses counted by
\* then, and what it leaves for the counter readers, which statistics_counter_samples_lost()
\* takes for losses that cost measurements, is too much by no more than the callbacks that
\* stood between their two counters when `lost` was read.
SnapshotLossesSound ==
  /\ LatencyPartOfLost
  /\ spc = "return" =>
       /\ out.lost + out.lost_at_start \in floor.all..reported
       /\ out.lost_latency <= lost
       /\ out.lost - out.lost_latency <= CounterLosses + floor.midway
==============================================================================
