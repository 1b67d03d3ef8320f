------------------------------ MODULE RateWindow ------------------------------
(***************************************************************************)
(* StatsObserver (stats_observer.cpp), the delivered rate: HISTORY_LATENCY *)
(* samples counted per second of their source timestamp, per pair and per  *)
(* statistics writer, kept for the rate window of --watch or for the whole *)
(* run, and reduced by snapshot() to a window per pair and to the number   *)
(* of samples the tool did not get.                                        *)
(*                                                                         *)
(* One statistics writer, that of a participant with several readers,      *)
(* numbers the samples of all its pairs in one sequence.  The reader hands *)
(* them out pair by pair, so they come out of order across pairs.  All of  *)
(* this runs under the mutex of the observer (module StatsDrain).          *)
(***************************************************************************)
EXTENDS Integers, Sequences, FiniteSets, FiniteSetsExt

CONSTANTS
  Pairs,      \* the writer-reader pairs the statistics writer reports on
  Watch,      \* the values --watch may have
  Window,     \* kStatsRateWindowSeconds
  Depth,      \* kStatsLatencyHistoryDepth: samples the reader keeps of a pair
  MaxSeq,     \* bound: samples published
  MaxSecond   \* bound: seconds of the source clock

ASSUME RateAssumption ==
  /\ Watch \subseteq BOOLEAN
  /\ Window \in Nat \ {0}
  /\ Depth \in Nat \ {0}
  /\ MaxSeq \in Nat /\ MaxSecond \in Nat

VARIABLES
  seq,             \* external: the last sequence number given
  second,          \* external: the source clock, in whole seconds
  cache,           \* external: pair -> the samples the reader holds, oldest first
  pc,              \* "idle", or "take": in the HISTORY_LATENCY loop of drain()
  current,         \* the pair whose samples take_next_sample() is handing out
  pair_seconds_,   \* pair -> sequence of [sec, samples, first, last]
  writer_seconds_, \* sequence of [sec, min_seq, max_seq, samples]
  newest_second_,  \* -1 stands for INT64_MIN: nothing taken yet
  sliding_window_,
  main,            \* "watch" or "once" before main() calls set_rate_window(), then "set"
  taken            \* history: every sample taken, [pair, seq, sec]

modeVars == <<sliding_window_, main>>
rateVars == <<seq, second, cache, pc, current, pair_seconds_, writer_seconds_, newest_second_,
              modeVars, taken>>

\* A sample's timestamp is finer than its second and grows with its number, so the number
\* stands for it.
Sample == [seq : 1..MaxSeq, sec : 0..MaxSecond]
PairSecond == [sec : 0..MaxSecond, samples : Nat, first : 1..MaxSeq, last : 1..MaxSeq]
WriterSecond == [sec : 0..MaxSecond, min_seq : 1..MaxSeq, max_seq : 1..MaxSeq, samples : Nat]

RateTypes ==
  /\ seq \in 0..MaxSeq /\ second \in 0..MaxSecond
  /\ cache \in [Pairs -> Seq(Sample)]
  /\ pc \in {"idle", "take"} /\ current \in Pairs
  /\ pair_seconds_ \in [Pairs -> Seq(PairSecond)]
  /\ writer_seconds_ \in Seq(WriterSecond)
  /\ newest_second_ \in -1..MaxSecond
  /\ sliding_window_ \in BOOLEAN
  /\ main \in {"watch", "once", "set"}
  /\ taken \in SUBSET [pair : Pairs, seq : 1..MaxSeq, sec : 0..MaxSecond]

RateInit ==
  /\ seq = 0 /\ second = 0
  /\ cache = [p \in Pairs |-> <<>>]
  /\ pc = "idle" /\ current \in Pairs
  /\ pair_seconds_ = [p \in Pairs |-> <<>>]
  /\ writer_seconds_ = <<>>
  /\ newest_second_ = -1
  /\ sliding_window_ = FALSE
  /\ main \in {IF w THEN "watch" ELSE "once" : w \in Watch}
  /\ taken = {}

------------------------------------------------------------------------------
\* external: a delivery on a pair is reported; the report arrives, pushing out the oldest of
\* its pair when the reader is full, or it is lost on the way (best effort).
Publish(p) ==
  /\ seq < MaxSeq
  /\ seq' = seq + 1
  /\ \/ UNCHANGED cache
     \/ LET kept == IF Len(cache[p]) = Depth THEN Tail(cache[p]) ELSE cache[p]
        IN cache' = [cache EXCEPT ![p] = Append(kept, [seq |-> seq', sec |-> second])]
  /\ UNCHANGED <<second, pc, current, pair_seconds_, writer_seconds_, newest_second_, modeVars,
                 taken>>

SourceSecond ==
  /\ second < MaxSecond
  /\ second' = second + 1
  /\ UNCHANGED <<seq, cache, pc, current, pair_seconds_, writer_seconds_, newest_second_,
                 modeVars, taken>>

------------------------------------------------------------------------------
StartDrain ==
  /\ pc = "idle"
  /\ pc' = "take"
  /\ UNCHANGED <<seq, second, cache, current, pair_seconds_, writer_seconds_, newest_second_,
                 modeVars, taken>>

\* Into the newest second of the pair, or a new one.
AddToPair(seconds, s) ==
  LET b == seconds[Len(seconds)]
  IN IF seconds = <<>> \/ b.sec < s.sec
     THEN Append(seconds, [sec |-> s.sec, samples |-> 1, first |-> s.seq, last |-> s.seq])
     ELSE [seconds EXCEPT ![Len(seconds)] =
             [sec |-> b.sec, samples |-> b.samples + 1,
              first |-> Min({b.first, s.seq}), last |-> Max({b.last, s.seq})]]

\* Mutants: a new second starts from sequence number 0; the minimum is not kept.
AddToWriterFromZero(seconds, s) ==
  IF seconds = <<>> \/ seconds[Len(seconds)].sec < s.sec
  THEN Append(seconds, [sec |-> s.sec, min_seq |-> 0, max_seq |-> s.seq, samples |-> 1])
  ELSE [seconds EXCEPT ![Len(seconds)] =
          [@ EXCEPT !.samples = @ + 1, !.max_seq = Max({@, s.seq})]]

AddToWriterInOrder(seconds, s) ==
  IF seconds = <<>> \/ seconds[Len(seconds)].sec < s.sec
  THEN Append(seconds, [sec |-> s.sec, min_seq |-> s.seq, max_seq |-> s.seq, samples |-> 1])
  ELSE [seconds EXCEPT ![Len(seconds)] = [@ EXCEPT !.samples = @ + 1, !.max_seq = s.seq]]

\* Likewise for the writer, whose samples may be older than its newest second.
AddToWriter(seconds, s) ==
  LET b == seconds[Len(seconds)]
  IN IF seconds = <<>> \/ b.sec < s.sec
     THEN Append(seconds, [sec |-> s.sec, min_seq |-> s.seq, max_seq |-> s.seq, samples |-> 1])
     ELSE [seconds EXCEPT ![Len(seconds)] =
             [sec |-> b.sec, min_seq |-> Min({b.min_seq, s.seq}),
              max_seq |-> Max({b.max_seq, s.seq}), samples |-> b.samples + 1]]

\* take_next_sample() stays with a pair while it has samples, then goes to another.
TakeLatency(p) ==
  /\ pc = "take"
  /\ cache[p] # <<>>
  /\ p = current \/ cache[current] = <<>>
  /\ LET s == Head(cache[p])
     IN /\ pair_seconds_' = [pair_seconds_ EXCEPT ![p] = AddToPair(@, s)]
        /\ writer_seconds_' = AddToWriter(writer_seconds_, s)
        /\ newest_second_' = Max({newest_second_, s.sec})
        /\ taken' = taken \cup {[pair |-> p, seq |-> s.seq, sec |-> s.sec]}
  /\ cache' = [cache EXCEPT ![p] = Tail(@)]
  /\ current' = p
  /\ UNCHANGED <<seq, second, pc, modeVars>>

\* Mutant: one second too many is kept.
oldest_less_one == newest_second_ - Window

\* prune_rate_window(): the seconds before the window go from the front of a deque.
oldest == newest_second_ - Window + 1

Pruned(sliding, seconds) ==
  LET kept == {k \in DOMAIN seconds : seconds[k].sec >= oldest}
  IN IF ~sliding \/ newest_second_ = -1 THEN seconds
     ELSE IF kept = {} THEN <<>> ELSE SubSeq(seconds, Min(kept), Len(seconds))

prune_rate_window(sliding) ==
  /\ pair_seconds_' = [p \in Pairs |-> Pruned(sliding, pair_seconds_[p])]
  /\ writer_seconds_' = Pruned(sliding, writer_seconds_)

EndDrain ==
  /\ pc = "take"
  /\ \A p \in Pairs : cache[p] = <<>>
  /\ prune_rate_window(sliding_window_)
  /\ pc' = "idle"
  /\ UNCHANGED <<seq, second, cache, current, newest_second_, modeVars, taken>>

\* set_rate_window(): main() calls it once, when the drain thread is already running and may
\* have handed the mutex back in the middle of its loop.
set_rate_window ==
  /\ main # "set"
  /\ main' = "set"
  /\ sliding_window_' = (main = "watch")
  /\ prune_rate_window(main = "watch")
  /\ UNCHANGED <<seq, second, cache, pc, current, newest_second_, taken>>

RateNext ==
  \/ \E p \in Pairs : Publish(p) \/ TakeLatency(p)
  \/ SourceSecond
  \/ StartDrain
  \/ EndDrain
  \/ set_rate_window

RateSpec == RateInit /\ [][RateNext]_rateVars
------------------------------------------------------------------------------
\* snapshot(): the slots reduced to what is reported.
Slots(seconds) == {seconds[k] : k \in DOMAIN seconds}
CountOf(seconds) ==
  LET total[k \in 0..Len(seconds)] ==
        IF k = 0 THEN 0 ELSE total[k - 1] + seconds[k].samples
  IN total[Len(seconds)]

delivery_window(p) ==
  IF pair_seconds_[p] = <<>> THEN [samples |-> 0, first |-> 0, last |-> 0]
  ELSE [samples |-> CountOf(pair_seconds_[p]),
        first |-> Min({b.first : b \in Slots(pair_seconds_[p])}),
        last |-> Max({b.last : b \in Slots(pair_seconds_[p])})]

latency_gaps ==
  IF writer_seconds_ = <<>> THEN 0
  ELSE LET numbered == Max({b.max_seq : b \in Slots(writer_seconds_)})
                         - Min({b.min_seq : b \in Slots(writer_seconds_)}) + 1
       IN Max({numbered - CountOf(writer_seconds_), 0})

------------------------------------------------------------------------------
\* Between two drains the window of a pair is exactly the samples of the pair that were
\* taken and whose second lies in the rate window: how many, and the first and the last
\* timestamp, from which apply_stats() makes the rate.  Seconds without samples, samples
\* lost and pairs taken late leave it exact.
WindowExact ==
  pc = "idle" =>
    \A p \in Pairs :
      LET In == {s \in taken : s.pair = p /\ (~sliding_window_ \/ s.sec > newest_second_ - Window)}
          numbers == {s.seq : s \in In}
      IN delivery_window(p) =
           [samples |-> Cardinality(In),
            first |-> IF In = {} THEN 0 ELSE Min(numbers),
            last |-> IF In = {} THEN 0 ELSE Max(numbers)]

\* The slots kept per second, of the right type and the exact window of every pair.
RateSound == RateTypes /\ WindowExact

TakenNumbers == {s.seq : s \in taken}

\* Without a sliding window the gap is exactly the numbers between the first and the last sample
\* taken that the tool did not get, in whatever order the pairs are handed out.
GapsExact ==
  (~sliding_window_ /\ taken # {}) =>
    latency_gaps = Cardinality((Min(TakenNumbers)..Max(TakenNumbers)) \ TakenNumbers)
==============================================================================
