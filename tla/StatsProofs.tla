------------------------------ MODULE StatsProofs ------------------------------
(***************************************************************************)
(* Theorems about two parts of the statistics observer.                    *)
(*                                                                         *)
(* The loss counters of its listener, for any number of Fast DDS threads,  *)
(* any writers and any grace period.  What a callback holds between two    *)
(* atomics is counted by the threads at that step, so that each proof is   *)
(* an argument about one thread moving from one step to the next.          *)
(*                                                                         *)
(* The delivered rate, for any pairs, window, depth of the reader and      *)
(* numbers of samples and seconds.  The invariant says that from the first *)
(* second of the window on the slots of a pair have exactly the samples    *)
(* taken, that what is still in the reader is not older than any of them,  *)
(* and that the slots of the writer span the numbers taken.                *)
(***************************************************************************)
EXTENDS StatsListener, RateWindow, NaturalsInduction, WellFoundedInduction, FiniteSetTheorems,
        SequenceTheorems, TLAPS

------------------------------------------------------------------------------
\* The threads that are at some of the steps.
At(where, steps) == {t \in Threads : where[t] \in steps}

\* They are a number.
LEMMA AtFinite ==
  ASSUME NEW where, NEW steps
  PROVE  IsFiniteSet(At(where, steps)) /\ Cardinality(At(where, steps)) \in Nat
<1>1. At(where, steps) \in SUBSET Threads
  BY DEF At
<1> QED
  BY <1>1, FS_Subset, FS_CardinalityType, ListenerAssumption

\* One thread that moves enters the steps, leaves them, or neither.
LEMMA AtMoves ==
  ASSUME NEW where, NEW t \in Threads, NEW next, NEW steps,
         \A u \in Threads \ {t} : next[u] = where[u]
  PROVE  /\ next[t] \in steps /\ where[t] \notin steps =>
              Cardinality(At(next, steps)) = Cardinality(At(where, steps)) + 1
         /\ next[t] \notin steps /\ where[t] \in steps =>
              Cardinality(At(next, steps)) = Cardinality(At(where, steps)) - 1
         /\ (next[t] \in steps <=> where[t] \in steps) =>
              Cardinality(At(next, steps)) = Cardinality(At(where, steps))
<1>1. IsFiniteSet(At(where, steps))
  BY AtFinite
<1>2. t \in At(where, steps) <=> where[t] \in steps
  BY DEF At
<1>3. CASE next[t] \in steps /\ where[t] \notin steps
  <2>1. At(next, steps) = At(where, steps) \cup {t}
    BY <1>3 DEF At
  <2> QED
    BY <2>1, <1>1, <1>2, <1>3, FS_AddElement
<1>4. CASE next[t] \notin steps /\ where[t] \in steps
  <2>1. At(next, steps) = At(where, steps) \ {t}
    BY <1>4 DEF At
  <2> QED
    BY <2>1, <1>1, <1>2, <1>4, FS_RemoveElement
<1>5. CASE next[t] \in steps <=> where[t] \in steps
  <2>1. At(next, steps) = At(where, steps)
    BY <1>5 DEF At
  <2> QED
    BY <2>1, <1>5
<1> QED
  BY <1>3, <1>4, <1>5

\* The steps at which a callback has a loss that is in neither counter.
Pending == {"window", "at_start", "lost"}

\* The losses not counted yet, and those of the event reader counted in `lost` only.
Uncounted(where) == Cardinality(At(where, Pending))
Latency(where) == Cardinality(At(where, {"latency"}))

\* What snapshot() has read so far, against the counters that went on since.  A loss of the
\* event reader counted meanwhile is in `lost` as well as in the latency part, or half counted,
\* but for those that were half counted when `lost` was read.
ReadsInv ==
  /\ spc = "at_start" => out.lost <= lost /\ floor.all <= out.lost + lost_at_start
  /\ spc \in {"latency", "return"} =>
       /\ floor.all <= out.lost + out.lost_at_start
       /\ out.lost + out.lost_at_start <= lost + lost_at_start
  /\ spc \in {"at_start", "latency"} => out.lost + Latency(tpc) <= lost + floor.midway
  /\ spc = "return" =>
       /\ out.lost_latency <= lost
       /\ out.lost + lost_latency + Latency(tpc) <= lost + out.lost_latency + floor.midway

ListenerInv == TypeOK /\ LossAccounted /\ LatencyPartOfLost /\ ReadsInv

\* The properties count the threads of this state or the next.
LEMMA InAt ==
  /\ Cardinality(In({"window", "at_start", "lost"})) = Uncounted(tpc)
  /\ Cardinality(In({"latency"})) = Latency(tpc)
  /\ Cardinality(In({"window", "at_start", "lost"}))' = Uncounted(tpc')
  /\ Cardinality(In({"latency"}))' = Latency(tpc')
BY DEF In, At, Uncounted, Latency, Pending

LEMMA InFinite == Uncounted(tpc) \in Nat /\ Latency(tpc) \in Nat
BY AtFinite DEF Uncounted, Latency

\* The same of the two sets of steps that the properties count.
LEMMA InMoves ==
  ASSUME TypeOK, NEW t \in Threads, tpc' = [tpc EXCEPT ![t] = tpc'[t]]
  PROVE  /\ Uncounted(tpc') = Uncounted(tpc)
              + (IF tpc'[t] \in Pending THEN 1 ELSE 0)
              - (IF tpc[t] \in Pending THEN 1 ELSE 0)
         /\ Latency(tpc') = Latency(tpc)
              + (IF tpc'[t] = "latency" THEN 1 ELSE 0) - (IF tpc[t] = "latency" THEN 1 ELSE 0)
<1>1. \A u \in Threads \ {t} : tpc'[u] = tpc[u]
  BY DEF TypeOK
<1>2. Uncounted(tpc') \in Nat /\ Latency(tpc') \in Nat
  BY AtFinite DEF Uncounted, Latency
<1>3. /\ tpc'[t] \in Pending /\ tpc[t] \notin Pending =>
           Uncounted(tpc') = Uncounted(tpc) + 1
      /\ tpc'[t] \notin Pending /\ tpc[t] \in Pending =>
           Uncounted(tpc') = Uncounted(tpc) - 1
      /\ (tpc'[t] \in Pending <=> tpc[t] \in Pending) =>
           Uncounted(tpc') = Uncounted(tpc)
  BY <1>1, AtMoves DEF Uncounted
<1>4. /\ tpc'[t] \in {"latency"} /\ tpc[t] \notin {"latency"} =>
           Latency(tpc') = Latency(tpc) + 1
      /\ tpc'[t] \notin {"latency"} /\ tpc[t] \in {"latency"} =>
           Latency(tpc') = Latency(tpc) - 1
      /\ (tpc'[t] \in {"latency"} <=> tpc[t] \in {"latency"}) =>
           Latency(tpc') = Latency(tpc)
  BY <1>1, AtMoves DEF Latency
<1> QED
  BY <1>1, <1>2, <1>3, <1>4, InFinite

------------------------------------------------------------------------------
\* Nothing has been reported and no callback runs.
LEMMA ListenerInit == Init => ListenerInv
<1> SUFFICES ASSUME Init PROVE ListenerInv
  OBVIOUS
<1>1. any_match \in BOOLEAN /\ event \in [Threads -> BOOLEAN]
  BY Zenon DEF Init
<1>2. TypeOK
  BY <1>1 DEF Init, TypeOK
<1>3. In({"window", "at_start", "lost"}) = {} /\ In({"latency"}) = {}
  BY DEF Init, In
<1>4. LossAccounted /\ LatencyPartOfLost
  BY <1>3, FS_EmptySet DEF Init, LossAccounted, LatencyPartOfLost
<1> QED
  BY <1>2, <1>4 DEF Init, ListenerInv, ReadsInv

\* A step that leaves the counters, the callbacks and the reports alone accounts for the same
\* losses.
LEMMA Untouched ==
  ASSUME LossAccounted, LatencyPartOfLost,
         UNCHANGED <<lost, lost_latency, lost_at_start, reported, tpc>>
  PROVE  LossAccounted' /\ LatencyPartOfLost'
BY DEF LossAccounted, LatencyPartOfLost, In

\* One that leaves also what was read alone keeps what is said of it.
LEMMA SameReads ==
  ASSUME ReadsInv, UNCHANGED <<lost, lost_latency, lost_at_start, tpc, spc, out, floor>>
  PROVE  ReadsInv'
BY DEF ReadsInv, Latency, At

\* on_sample_lost() begins: one more loss is reported, and in a callback's hands.
LEMMA OnSampleLostStep ==
  ASSUME ListenerInv, NEW t \in Threads, OnSampleLost(t) PROVE ListenerInv'
<1> USE DEF ListenerInv, OnSampleLost, counters, matchVars, snapVars
<1>1. PICK isEvent \in BOOLEAN : event' = [event EXCEPT ![t] = isEvent]
  BY Zenon DEF OnSampleLost
<1>2. event' \in [Threads -> BOOLEAN]
  BY <1>1, Zenon DEF TypeOK
<1>3. TypeOK'
  BY <1>2 DEF TypeOK
<1>m. tpc[t] = "idle" /\ tpc'[t] = "window" /\ tpc' = [tpc EXCEPT ![t] = tpc'[t]]
  BY DEF TypeOK
<1>4. /\ Uncounted(tpc') = Uncounted(tpc) + 1
      /\ Latency(tpc') = Latency(tpc)
  <2> HIDE DEF OnSampleLost
  <2> QED
    BY <1>m, InFinite, InMoves DEF Pending
<1>5. LossAccounted' /\ LatencyPartOfLost'
  BY <1>4, InAt, InFinite DEF LossAccounted, LatencyPartOfLost, TypeOK
<1>6. ReadsInv'
  BY <1>4 DEF ReadsInv
<1> QED
  BY <1>3, <1>5, <1>6

\* The window is judged: the loss is one of the start or not, and still to be counted.
LEMMA JudgeWindowStep ==
  ASSUME ListenerInv, NEW t \in Threads, JudgeWindow(t) PROVE ListenerInv'
<1> USE DEF ListenerInv, JudgeWindow, counters, matchVars, snapVars
<1>1. TypeOK'
  BY DEF TypeOK
<1>m. /\ tpc[t] = "window" /\ tpc'[t] \in {"at_start", "lost"}
      /\ tpc' = [tpc EXCEPT ![t] = tpc'[t]]
  BY DEF TypeOK
<1>2. /\ Uncounted(tpc') = Uncounted(tpc)
      /\ Latency(tpc') = Latency(tpc)
  <2> HIDE DEF JudgeWindow
  <2> QED
    BY <1>m, InFinite, InMoves DEF Pending
<1>3. LossAccounted' /\ LatencyPartOfLost'
  BY <1>2, InAt DEF LossAccounted, LatencyPartOfLost
<1>4. ReadsInv'
  BY <1>2 DEF ReadsInv
<1> QED
  BY <1>1, <1>3, <1>4

\* A loss of the start is counted as one.
LEMMA AddAtStartStep ==
  ASSUME ListenerInv, NEW t \in Threads, AddAtStart(t) PROVE ListenerInv'
<1> USE DEF ListenerInv, AddAtStart, matchVars, snapVars
<1>1. TypeOK'
  BY DEF TypeOK
<1>m. tpc[t] = "at_start" /\ tpc'[t] = "idle" /\ tpc' = [tpc EXCEPT ![t] = tpc'[t]]
  BY DEF TypeOK
<1>2. /\ Uncounted(tpc') = Uncounted(tpc) - 1
      /\ Latency(tpc') = Latency(tpc)
  <2> HIDE DEF AddAtStart
  <2> QED
    BY <1>m, InFinite, InMoves DEF Pending
<1>3. LossAccounted' /\ LatencyPartOfLost'
  BY <1>2, InAt, InFinite DEF LossAccounted, LatencyPartOfLost, TypeOK
<1>4. ReadsInv'
  BY <1>2, InFinite DEF ReadsInv, TypeOK
<1> QED
  BY <1>1, <1>3, <1>4

\* `lost` is counted; a loss of the event reader is still to be counted as latency.
LEMMA AddLostStep ==
  ASSUME ListenerInv, NEW t \in Threads, AddLost(t) PROVE ListenerInv'
<1> USE DEF ListenerInv, AddLost, matchVars, snapVars
<1>1. TypeOK'
  BY DEF TypeOK
<1>m. /\ tpc[t] = "lost" /\ tpc'[t] \in {"latency", "idle"}
      /\ tpc' = [tpc EXCEPT ![t] = tpc'[t]]
  BY DEF TypeOK
<1>2. Uncounted(tpc') = Uncounted(tpc) - 1
  <2> HIDE DEF AddLost
  <2> QED
    BY <1>m, InFinite, InMoves DEF Pending
<1>3. \/ Latency(tpc') = Latency(tpc)
      \/ Latency(tpc') = Latency(tpc) + 1
  <2> HIDE DEF AddLost
  <2> QED
    BY <1>m, InFinite, InMoves DEF Pending
<1>4. LossAccounted' /\ LatencyPartOfLost'
  BY <1>2, <1>3, InAt, InFinite DEF LossAccounted, LatencyPartOfLost, TypeOK
<1>5. ReadsInv'
  BY <1>3, InFinite DEF ReadsInv, TypeOK
<1> QED
  BY <1>1, <1>4, <1>5

\* The latency part is counted after the whole.
LEMMA AddLatencyStep ==
  ASSUME ListenerInv, NEW t \in Threads, AddLatency(t) PROVE ListenerInv'
<1> USE DEF ListenerInv, AddLatency, matchVars, snapVars
<1>1. TypeOK'
  BY DEF TypeOK
<1>m. tpc[t] = "latency" /\ tpc'[t] = "idle" /\ tpc' = [tpc EXCEPT ![t] = tpc'[t]]
  BY DEF TypeOK
<1>2. /\ Uncounted(tpc') = Uncounted(tpc)
      /\ Latency(tpc') = Latency(tpc) - 1
  <2> HIDE DEF AddLatency
  <2> QED
    BY <1>m, InFinite, InMoves DEF Pending
<1>3. LossAccounted' /\ LatencyPartOfLost'
  BY <1>2, InAt, InFinite DEF LossAccounted, LatencyPartOfLost, TypeOK
<1>4. ReadsInv'
  BY <1>2, InFinite DEF ReadsInv, TypeOK
<1> QED
  BY <1>1, <1>3, <1>4

\* on_subscription_matched() and its two stores: no loss is touched.
LEMMA MatchStep ==
  ASSUME ListenerInv, NEW t \in Threads,
         OnSubscriptionMatched(t) \/ StoreTicks(t) \/ StoreAnyMatch(t)
  PROVE  ListenerInv'
<1> USE DEF ListenerInv, OnSubscriptionMatched, StoreTicks, StoreAnyMatch, counters, snapVars
<1>1. any_match' \in BOOLEAN
  BY Zenon DEF TypeOK
<1>2. TypeOK'
  BY <1>1 DEF TypeOK
<1>3. /\ tpc[t] \in {"idle", "ticks", "any"} /\ tpc'[t] \in {"idle", "ticks", "any"}
      /\ tpc' = [tpc EXCEPT ![t] = tpc'[t]]
  BY DEF TypeOK
<1>4. Uncounted(tpc') = Uncounted(tpc) /\ Latency(tpc') = Latency(tpc)
  BY <1>3, InFinite, InMoves DEF Pending
<1>5. LossAccounted' /\ LatencyPartOfLost'
  BY <1>4, InAt DEF LossAccounted, LatencyPartOfLost
<1>6. ReadsInv'
  BY <1>4 DEF ReadsInv
<1> QED
  BY <1>2, <1>5, <1>6

\* snapshot() reads one counter after the other.
LEMMA ReadStep ==
  ASSUME ListenerInv, ReadCounters PROVE ListenerInv'
<1> USE DEF ListenerInv, Read, counters, matchVars, threadVars
<1>1. LossAccounted' /\ LatencyPartOfLost'
  BY Untouched DEF ReadCounters, ReadLost
<1>2. Latency(tpc') = Latency(tpc)
  BY DEF ReadCounters, ReadLost
<1>3. CASE ReadLost
  <2>1. floor' = [all |-> lost + lost_at_start, midway |-> Latency(tpc)]
    BY <1>3, InAt DEF ReadLost
  <2>2. TypeOK'
    BY <1>3, <2>1, InFinite DEF ReadLost, TypeOK
  <2>3. ReadsInv'
    BY <1>2, <1>3, <2>1, InFinite DEF ReadLost, ReadsInv, TypeOK
  <2> QED
    BY <1>1, <2>2, <2>3
<1>4. CASE Read("at_start", "latency", "lost_at_start", lost_at_start) /\ UNCHANGED floor
  <2>1. TypeOK'
    BY <1>4 DEF TypeOK
  <2>2. ReadsInv'
    BY <1>2, <1>4, InFinite DEF ReadsInv, TypeOK
  <2> QED
    BY <1>1, <2>1, <2>2
<1>5. CASE Read("latency", "return", "lost_latency", lost_latency) /\ UNCHANGED floor
  <2>1. TypeOK'
    BY <1>5 DEF TypeOK
  <2>2. lost_latency <= lost
    BY InAt, InFinite DEF LatencyPartOfLost, TypeOK
  <2>3. ReadsInv'
    BY <1>2, <1>5, <2>2, InFinite DEF ReadsInv, TypeOK
  <2> QED
    BY <1>1, <2>1, <2>3
<1> QED
  BY <1>3, <1>4, <1>5 DEF ReadCounters

LEMMA ListenerStep == ListenerInv /\ [Next]_vars => ListenerInv'
<1> SUFFICES ASSUME ListenerInv, [Next]_vars PROVE ListenerInv'
  OBVIOUS
<1> USE DEF ListenerInv
<1>1. ASSUME NEW t \in Threads,
             \/ OnSampleLost(t) \/ JudgeWindow(t) \/ AddAtStart(t) \/ AddLost(t)
             \/ AddLatency(t)
             \/ OnSubscriptionMatched(t) \/ StoreTicks(t) \/ StoreAnyMatch(t)
      PROVE  ListenerInv'
  BY <1>1, OnSampleLostStep, JudgeWindowStep, AddAtStartStep, AddLostStep,
     AddLatencyStep, MatchStep
<1>2. CASE OnRejectedOrIncompatible
  <2>1. TypeOK'
    BY <1>2 DEF OnRejectedOrIncompatible, matchVars, threadVars, snapVars, TypeOK
  <2>2. LossAccounted' /\ LatencyPartOfLost'
    BY <1>2, Untouched DEF OnRejectedOrIncompatible, threadVars
  <2>3. ReadsInv'
    BY <1>2, SameReads DEF OnRejectedOrIncompatible, threadVars, snapVars
  <2> QED
    BY <2>1, <2>2, <2>3
<1>3. CASE ReadCounters
  BY <1>3, ReadStep
<1>4. CASE SnapshotReturn
  <2>1. TypeOK'
    BY <1>4 DEF SnapshotReturn, counters, matchVars, threadVars, TypeOK
  <2>2. LossAccounted' /\ LatencyPartOfLost'
    BY <1>4, Untouched DEF SnapshotReturn, counters, threadVars
  <2>3. ReadsInv'
    BY <1>4 DEF SnapshotReturn, ReadsInv
  <2> QED
    BY <2>1, <2>2, <2>3
<1>5. CASE PassTime
  <2>1. TypeOK'
    BY <1>5 DEF PassTime, counters, matchVars, threadVars, snapVars, TypeOK
  <2>2. LossAccounted' /\ LatencyPartOfLost'
    BY <1>5, Untouched DEF PassTime, counters, threadVars
  <2>3. ReadsInv'
    BY <1>5, SameReads DEF PassTime, counters, threadVars, snapVars
  <2> QED
    BY <2>1, <2>2, <2>3
<1>6. CASE UNCHANGED vars
  <2>1. TypeOK'
    BY <1>6 DEF vars, counters, matchVars, threadVars, snapVars, TypeOK
  <2>2. LossAccounted' /\ LatencyPartOfLost'
    BY <1>6, Untouched DEF vars, counters, threadVars
  <2>3. ReadsInv'
    BY <1>6, SameReads DEF vars, counters, threadVars, snapVars
  <2> QED
    BY <2>1, <2>2, <2>3
<1> QED
  BY <1>1, <1>2, <1>3, <1>4, <1>5, <1>6 DEF Next

LEMMA ListenerInvariant == Spec => []ListenerInv
BY ListenerInit, ListenerStep, PTL DEF Spec

------------------------------------------------------------------------------
\* The listener's counters and each callback's place keep their types.
THEOREM ListenerTypes == Spec => []TypeOK
BY ListenerInvariant, PTL DEF ListenerInv

\* However many callbacks of on_sample_lost() run at once, every loss reported is in `lost`, in
\* `lost_at_start`, or still in one callback's hands: none is dropped, none is counted twice.
THEOREM EveryLossCounted == Spec => []LossAccounted
BY ListenerInvariant, PTL DEF ListenerInv

\* snapshot() reads the counters one after the other while callbacks go on.  The two loss
\* counters it copies still add up to no less than was counted when it began and no more than
\* was reported.  The latency part it copies, read last, may be larger than the `lost` it goes
\* with; it is no larger than `lost` by then, and what is left for the counter readers is too
\* much by at most the callbacks that stood between their two counters when it began.
THEOREM SnapshotSound == Spec => []SnapshotLossesSound
<1>1. ListenerInv => SnapshotLossesSound
  <2> SUFFICES ASSUME ListenerInv, spc = "return"
               PROVE  /\ out.lost + out.lost_at_start \in floor.all..reported
                      /\ out.lost_latency <= lost
                      /\ out.lost - out.lost_latency <= CounterLosses + floor.midway
    BY DEF SnapshotLossesSound, ListenerInv
  <2>1. out.lost + out.lost_at_start \in floor.all..reported
    BY InAt, InFinite DEF ListenerInv, ReadsInv, TypeOK, LossAccounted
  <2>2. CounterLosses = lost - lost_latency - Latency(tpc)
    BY InAt DEF CounterLosses
  <2> QED
    BY <2>1, <2>2, InFinite DEF ListenerInv, ReadsInv, TypeOK
<1> QED
  BY <1>1, ListenerInvariant, PTL

------------------------------------------------------------------------------
\* The first second of the rate window, and the samples of a pair.
low == IF sliding_window_ THEN newest_second_ - Window + 1 ELSE 0
Mine(p) == {s \in taken : s.pair = p}

\* The numbers given to samples are all different, and those of a pair come in order of seconds.
NumbersInv ==
  /\ newest_second_ <= second
  /\ IsFiniteSet(taken)
  /\ \A s \in taken : s.seq <= seq /\ s.sec <= newest_second_
  /\ \A p \in Pairs : \A i \in DOMAIN cache[p] :
       /\ cache[p][i].seq <= seq /\ cache[p][i].sec <= second
       /\ cache[p][i].seq \notin TakenNumbers
       /\ \A q \in Pairs : \A j \in DOMAIN cache[q] :
            cache[p][i].seq = cache[q][j].seq => p = q /\ i = j

\* The slots of a pair against the samples T taken of it and c still in the reader: a slot is
\* for one second, in order, and from the first second of the window on nothing is missing.
InOrder(slots, T, c) ==
  /\ \A i, j \in DOMAIN slots : i < j => slots[i].sec < slots[j].sec
  /\ \A i, j \in DOMAIN c : i < j => c[i].sec <= c[j].sec
  /\ \A i \in DOMAIN c : /\ \A s \in T : s.sec <= c[i].sec
                         /\ \A k \in DOMAIN slots : slots[k].sec <= c[i].sec

Filled(slot, T) ==
  LET S == {s \in T : s.sec = slot.sec}
  IN /\ slot.samples = Cardinality(S)
     /\ \E s \in S : s.seq = slot.first
     /\ \E s \in S : s.seq = slot.last
     /\ \A s \in S : slot.first <= s.seq /\ s.seq <= slot.last

Slotted(slots, T, from) ==
  /\ \A k \in DOMAIN slots : slots[k].sec >= from => Filled(slots[k], T)
  /\ \A s \in T : s.sec >= from => \E k \in DOMAIN slots : slots[k].sec = s.sec

PairInv(p) ==
  /\ InOrder(pair_seconds_[p], Mine(p), cache[p])
  /\ Slotted(pair_seconds_[p], Mine(p), low)
  /\ \A k \in DOMAIN pair_seconds_[p] :
       /\ pair_seconds_[p][k].sec <= newest_second_
       /\ pc = "idle" => pair_seconds_[p][k].sec >= low

\* The slots of the statistics writer against all numbers taken.
Spanned(slots, numbers) ==
  /\ CountOf(slots) = Cardinality(numbers)
  /\ \A k \in DOMAIN slots : slots[k].min_seq \in numbers /\ slots[k].max_seq \in numbers
  /\ \A n \in numbers : \E k \in DOMAIN slots : slots[k].min_seq <= n /\ n <= slots[k].max_seq

RateInv ==
  /\ RateTypes
  /\ main # "set" => ~sliding_window_
  /\ NumbersInv
  /\ \A p \in Pairs : PairInv(p)
  /\ ~sliding_window_ => Spanned(writer_seconds_, TakenNumbers)
------------------------------------------------------------------------------
\* A set of naturals has a least element, a bounded one a greatest.
LEMMA LeastNumber ==
  ASSUME NEW S \in SUBSET Nat, S # {}
  PROVE  \E x \in S : \A y \in S : x <= y
<1>1. IsWellFoundedOn(OpToRel(<, Nat), Nat)
  BY NatLessThanWellFounded
<1>2. \E x \in S : \A y \in S : ~(<<y, x>> \in OpToRel(<, Nat))
  BY <1>1, WFMin
<1>3. PICK x \in S : \A y \in S : ~(y < x)
  BY <1>2 DEF OpToRel
<1>4. \A y \in S : x <= y
  BY <1>3
<1> QED
  BY <1>4

LEMMA GreatestNumber ==
  ASSUME NEW n \in Nat, NEW S \in SUBSET (0..n), S # {}
  PROVE  \E x \in S : \A y \in S : y <= x
<1> DEFINE T == {n - x : x \in S}
<1>1. T \in SUBSET Nat /\ T # {}
  <2>1. \A x \in S : n - x \in Nat
    OBVIOUS
  <2> QED
    BY <2>1
<1>2. PICK t \in T : \A u \in T : t <= u
  <2> HIDE DEF T
  <2> QED
    BY <1>1, LeastNumber
<1>3. PICK x \in S : t = n - x
  OBVIOUS
<1>4. \A y \in S : y <= x
  <2> TAKE y \in S
  <2>1. n - x <= n - y
    BY <1>2, <1>3
  <2> QED
    BY <2>1
<1> QED
  BY <1>4

LEMMA SetInduction ==
  ASSUME NEW S, 0 \in S, \A n \in Nat : n \in S => n + 1 \in S
  PROVE  Nat \subseteq S
<1> SUFFICES ASSUME Nat \ S # {} PROVE FALSE
  OBVIOUS
<1>1. PICK x \in Nat \ S : \A y \in Nat \ S : x <= y
  BY LeastNumber
<1>2. x # 0 /\ x - 1 \in Nat /\ ~(x <= x - 1) /\ (x - 1) + 1 = x
  OBVIOUS
<1>3. x - 1 \in S
  BY <1>1, <1>2
<1> QED
  BY <1>1, <1>2, <1>3

\* Min and Max of the community modules.
LEMMA MinIs ==
  ASSUME NEW S \in SUBSET Int, NEW m \in S, \A x \in S : m <= x
  PROVE  Min(S) = m
<1>1. \A x \in S : (\A y \in S : x <= y) => x = m
  OBVIOUS
<1> QED
  BY <1>1 DEF Min

LEMMA MaxIs ==
  ASSUME NEW S \in SUBSET Int, NEW m \in S, \A x \in S : x <= m
  PROVE  Max(S) = m
<1>1. \A x \in S : (\A y \in S : y <= x) => x = m
  OBVIOUS
<1> QED
  BY <1>1 DEF Max

LEMMA OfTwo ==
  ASSUME NEW a \in Int, NEW b \in Int
  PROVE  /\ Min({a, b}) = IF a <= b THEN a ELSE b
         /\ Max({a, b}) = IF a <= b THEN b ELSE a
<1>1. CASE a <= b
  <2>1. Min({a, b}) = a
    BY <1>1, MinIs
  <2>2. Max({a, b}) = b
    BY <1>1, MaxIs
  <2> QED
    BY <1>1, <2>1, <2>2
<1>2. CASE ~(a <= b)
  <2>1. Min({a, b}) = b
    BY <1>2, MinIs
  <2>2. Max({a, b}) = a
    BY <1>2, MaxIs
  <2> QED
    BY <1>2, <2>1, <2>2
<1> QED
  BY <1>1, <1>2

------------------------------------------------------------------------------
\* The recursion of CountOf is defined, and what it counts is fixed step by step.
Counts(f, slots, n) ==
  f = [k \in 0..n |-> IF k = 0 THEN 0 ELSE f[k - 1] + slots[k].samples]

LEMMA CountsDefined ==
  ASSUME NEW slots, NEW n \in Nat, \A k \in 1..n : slots[k].samples \in Nat
  PROVE  \E f : Counts(f, slots, n)
<1> DEFINE S == {k \in Nat : k <= n => \E f : Counts(f, slots, k)}
<1>1. 0 \in S
  <2> DEFINE f == [i \in 0..0 |-> 0]
  <2>1. Counts(f, slots, 0)
    BY DEF Counts
  <2> QED
    BY <2>1
<1>2. ASSUME NEW k \in Nat, k \in S PROVE k + 1 \in S
  <2> SUFFICES ASSUME k + 1 <= n PROVE \E g : Counts(g, slots, k + 1)
    OBVIOUS
  <2>1. PICK f : Counts(f, slots, k)
    BY <1>2
  <2> DEFINE g == [i \in 0..(k + 1) |-> IF i = k + 1 THEN f[k] + slots[i].samples ELSE f[i]]
  <2>2. \A i \in 0..k : g[i] = f[i] /\ f[i] = IF i = 0 THEN 0 ELSE f[i - 1] + slots[i].samples
    BY <2>1 DEF Counts
  <2>3. \A i \in 0..(k + 1) : g[i] = IF i = 0 THEN 0 ELSE g[i - 1] + slots[i].samples
    <3> TAKE i \in 0..(k + 1)
    <3>1. CASE i = k + 1
      <4>1. g[k + 1] = f[k] + slots[k + 1].samples /\ g[k] = f[k] /\ (k + 1) - 1 = k
        BY <2>2
      <4> QED
        BY <3>1, <4>1
    <3>2. CASE i \in 0..k
      <4>1. i # 0 => i - 1 \in 0..k
        BY <3>2
      <4> HIDE DEF g
      <4> QED
        BY <2>2, <3>2, <4>1
    <3> QED
      BY <3>1, <3>2
  <2>4. Counts(g, slots, k + 1)
    <3>1. g = [i \in 0..(k + 1) |-> g[i]]
      OBVIOUS
    <3> HIDE DEF g
    <3> QED
      BY <2>3, <3>1 DEF Counts
  <2> QED
    BY <2>4
<1>3. Nat \subseteq S
  <2> HIDE DEF S
  <2> QED
    BY <1>1, <1>2, SetInduction
<1> QED
  BY <1>3

LEMMA CountOfIs ==
  ASSUME NEW slots, Len(slots) \in Nat, \A k \in 1..Len(slots) : slots[k].samples \in Nat
  PROVE  \E f : /\ f[0] = 0 /\ CountOf(slots) = f[Len(slots)]
                /\ \A k \in 0..Len(slots) : f[k] \in Nat
                /\ \A k \in 1..Len(slots) : f[k] = f[k - 1] + slots[k].samples
<1> DEFINE total == CHOOSE f : Counts(f, slots, Len(slots))
<1>1. Counts(total, slots, Len(slots))
  <2>1. \E f : Counts(f, slots, Len(slots))
    BY CountsDefined
  <2> QED
    BY <2>1, Zenon
<1>2. CountOf(slots) = total[Len(slots)]
  BY Zenon DEF CountOf, Counts
<1> HIDE DEF total
<1>3. /\ total[0] = 0
      /\ \A k \in 1..Len(slots) : total[k] = total[k - 1] + slots[k].samples
  BY <1>1 DEF Counts
<1>4. \A k \in 0..Len(slots) : total[k] \in Nat
  <2> DEFINE T == {k \in Nat : k <= Len(slots) => total[k] \in Nat}
  <2>1. 0 \in T
    BY <1>3
  <2>2. ASSUME NEW k \in Nat, k \in T PROVE k + 1 \in T
    BY <1>3, <2>2
  <2>3. Nat \subseteq T
    <3> HIDE DEF T
    <3> QED
      BY <2>1, <2>2, SetInduction
  <2> QED
    BY <2>3
<1> QED
  BY <1>2, <1>3, <1>4

\* One sample more in the last slot, a new one or the one that was there.
LEMMA CountsOneMore ==
  ASSUME NEW old, NEW new, Len(old) \in Nat, Len(new) \in Nat \ {0},
         \A k \in 1..Len(old) : old[k].samples \in Nat,
         \A k \in 1..Len(new) : new[k].samples \in Nat,
         \A k \in 1..(Len(new) - 1) : new[k] = old[k],
         \/ Len(old) = Len(new) - 1 /\ new[Len(new)].samples = 1
         \/ Len(old) = Len(new) /\ new[Len(new)].samples = old[Len(new)].samples + 1
  PROVE  CountOf(new) = CountOf(old) + 1
<1> DEFINE n == Len(new)
<1>1. PICK f : /\ f[0] = 0 /\ CountOf(old) = f[Len(old)]
               /\ \A k \in 0..Len(old) : f[k] \in Nat
               /\ \A k \in 1..Len(old) : f[k] = f[k - 1] + old[k].samples
  BY CountOfIs
<1>2. PICK g : /\ g[0] = 0 /\ CountOf(new) = g[n]
               /\ \A k \in 0..n : g[k] \in Nat
               /\ \A k \in 1..n : g[k] = g[k - 1] + new[k].samples
  BY CountOfIs
<1>3. \A k \in 0..(n - 1) : f[k] = g[k]
  <2> DEFINE T == {k \in Nat : k <= n - 1 => f[k] = g[k]}
  <2>1. 0 \in T
    BY <1>1, <1>2
  <2>2. ASSUME NEW k \in Nat, k \in T PROVE k + 1 \in T
    <3> SUFFICES ASSUME k + 1 <= n - 1 PROVE f[k + 1] = g[k + 1]
      OBVIOUS
    <3>1. k + 1 \in 1..Len(old) /\ k + 1 \in 1..n /\ (k + 1) - 1 = k /\ new[k + 1] = old[k + 1]
      OBVIOUS
    <3>2. f[k] = g[k]
      BY <2>2
    <3> QED
      BY <1>1, <1>2, <3>1, <3>2
  <2>3. Nat \subseteq T
    <3> HIDE DEF T
    <3> QED
      BY <2>1, <2>2, SetInduction
  <2> QED
    BY <2>3
<1>4. g[n] = f[n - 1] + new[n].samples /\ f[n - 1] \in Nat
  BY <1>1, <1>2, <1>3
<1>5. CASE Len(old) = n - 1 /\ new[n].samples = 1
  BY <1>1, <1>2, <1>4, <1>5
<1>6. CASE Len(old) = n /\ new[n].samples = old[n].samples + 1
  <2>1. f[n] = f[n - 1] + old[n].samples /\ old[n].samples \in Nat
    BY <1>1, <1>6
  <2> QED
    BY <1>1, <1>2, <1>4, <1>6, <2>1
<1> QED
  BY <1>5, <1>6

------------------------------------------------------------------------------
\* drain(): what a sample does to the slots of its pair and of its statistics writer.
AddsTo(old, new, s) ==
  \/ /\ Len(new) = Len(old) + 1
     /\ old = <<>> \/ old[Len(old)].sec < s.sec
     /\ new[Len(new)].sec = s.sec /\ new[Len(new)].samples = 1
  \/ /\ Len(new) = Len(old) /\ old # <<>> /\ ~(old[Len(old)].sec < s.sec)
     /\ new[Len(new)].sec = old[Len(old)].sec
     /\ new[Len(new)].samples = old[Len(old)].samples + 1

\* The least and the greatest number of a slot with one more.
Widens(least, greatest, new, old, s) ==
  /\ Len(new) = Len(old) + 1 => new[Len(new)][least] = s.seq /\ new[Len(new)][greatest] = s.seq
  /\ Len(new) = Len(old) =>
       /\ new[Len(new)][least] = IF old[Len(old)][least] <= s.seq THEN old[Len(old)][least]
                                 ELSE s.seq
       /\ new[Len(new)][greatest] = IF old[Len(old)][greatest] <= s.seq THEN s.seq
                                    ELSE old[Len(old)][greatest]

LEMMA AddToPairIs ==
  ASSUME NEW q \in Seq(PairSecond), NEW s \in Sample
  PROVE  /\ AddToPair(q, s) \in Seq(PairSecond)
         /\ Len(AddToPair(q, s)) \in Nat \ {0}
         /\ \A k \in 1..(Len(AddToPair(q, s)) - 1) : AddToPair(q, s)[k] = q[k]
         /\ AddsTo(q, AddToPair(q, s), s)
         /\ Widens("first", "last", AddToPair(q, s), q, s)
<1> DEFINE n == Len(q)
           fresh == q = <<>> \/ q[n].sec < s.sec
           new == [sec |-> s.sec, samples |-> 1, first |-> s.seq, last |-> s.seq]
<1>1. n \in Nat /\ (q # <<>> => n \in 1..n /\ q[n] \in PairSecond)
  BY ElementOfSeq, LenProperties, EmptySeq
<1>2. CASE fresh
  <2>1. new \in PairSecond
    BY DEF PairSecond, Sample
  <2>2. AddToPair(q, s) = Append(q, new)
    BY <1>2 DEF AddToPair
  <2> HIDE DEF new
  <2>3. /\ Append(q, new) \in Seq(PairSecond) /\ Len(Append(q, new)) = n + 1
        /\ \A k \in 1..n : Append(q, new)[k] = q[k]
        /\ Append(q, new)[n + 1] = new
    BY <2>1, AppendProperties
  <2>4. new.sec = s.sec /\ new.samples = 1 /\ new["first"] = s.seq /\ new["last"] = s.seq
    BY DEF new
  <2> QED
    BY <1>1, <1>2, <2>2, <2>3, <2>4 DEF AddsTo, Widens
<1>3. CASE ~fresh
  <2> DEFINE old == q[n]
             more == [sec |-> old.sec, samples |-> old.samples + 1,
                      first |-> Min({old.first, s.seq}), last |-> Max({old.last, s.seq})]
  <2>1. n \in 1..n /\ old \in PairSecond
    BY <1>1, <1>3
  <2>2. /\ Min({old.first, s.seq}) = IF old.first <= s.seq THEN old.first ELSE s.seq
        /\ Max({old.last, s.seq}) = IF old.last <= s.seq THEN s.seq ELSE old.last
    <3>1. old.first \in Int /\ old.last \in Int /\ s.seq \in Int
      BY <2>1 DEF PairSecond, Sample
    <3> HIDE DEF old
    <3> QED
      BY <3>1, OfTwo
  <2>3. /\ more.sec = old.sec /\ more.samples = old.samples + 1
        /\ more["first"] = (IF old["first"] <= s.seq THEN old["first"] ELSE s.seq)
        /\ more["last"] = (IF old["last"] <= s.seq THEN s.seq ELSE old["last"])
    <3> HIDE DEF old
    <3> QED
      BY <2>1, <2>2 DEF PairSecond
  <2>4. more \in PairSecond
    <3> HIDE DEF old
    <3> QED
      BY <2>1, <2>2 DEF PairSecond, Sample
  <2>5. AddToPair(q, s) = [q EXCEPT ![n] = more]
    BY <1>3, Zenon DEF AddToPair
  <2> HIDE DEF more
  <2>6. /\ [q EXCEPT ![n] = more] \in Seq(PairSecond)
        /\ Len([q EXCEPT ![n] = more]) = n
        /\ \A j \in 1..n : [q EXCEPT ![n] = more][j] = IF j = n THEN more ELSE q[j]
    BY <2>1, <2>4, ExceptSeq
  <2> QED
    <3> DEFINE r == [q EXCEPT ![n] = more]
    <3>1. /\ Len(r) = n /\ n \in Nat \ {0} /\ r[n] = more
          /\ \A k \in 1..(n - 1) : r[k] = q[k]
      <4>1. n \in 1..n /\ n \in Nat \ {0} /\ \A k \in 1..(n - 1) : k \in 1..n /\ k # n
        BY <2>1
      <4> QED
        BY <2>6, <4>1
    <3> HIDE DEF r
    <3>2. AddsTo(q, r, s)
      BY <1>3, <2>3, <3>1 DEF AddsTo
    <3>3. Widens("first", "last", r, q, s)
      BY <2>3, <3>1 DEF Widens
    <3> QED
      BY <2>5, <2>6, <3>1, <3>2, <3>3 DEF r
<1> QED
  BY <1>2, <1>3

LEMMA AddToWriterIs ==
  ASSUME NEW q \in Seq(WriterSecond), NEW s \in Sample
  PROVE  /\ AddToWriter(q, s) \in Seq(WriterSecond)
         /\ Len(AddToWriter(q, s)) \in Nat \ {0}
         /\ \A k \in 1..(Len(AddToWriter(q, s)) - 1) : AddToWriter(q, s)[k] = q[k]
         /\ AddsTo(q, AddToWriter(q, s), s)
         /\ Widens("min_seq", "max_seq", AddToWriter(q, s), q, s)
<1> DEFINE n == Len(q)
           fresh == q = <<>> \/ q[n].sec < s.sec
           new == [sec |-> s.sec, min_seq |-> s.seq, max_seq |-> s.seq, samples |-> 1]
<1>1. n \in Nat /\ (q # <<>> => n \in 1..n /\ q[n] \in WriterSecond)
  BY ElementOfSeq, LenProperties, EmptySeq
<1>2. CASE fresh
  <2>1. new \in WriterSecond
    BY DEF WriterSecond, Sample
  <2>2. AddToWriter(q, s) = Append(q, new)
    BY <1>2 DEF AddToWriter
  <2> HIDE DEF new
  <2>3. /\ Append(q, new) \in Seq(WriterSecond) /\ Len(Append(q, new)) = n + 1
        /\ \A k \in 1..n : Append(q, new)[k] = q[k]
        /\ Append(q, new)[n + 1] = new
    BY <2>1, AppendProperties
  <2>4. new.sec = s.sec /\ new.samples = 1 /\ new["min_seq"] = s.seq /\ new["max_seq"] = s.seq
    BY DEF new
  <2> QED
    BY <1>1, <1>2, <2>2, <2>3, <2>4 DEF AddsTo, Widens
<1>3. CASE ~fresh
  <2> DEFINE old == q[n]
             more == [sec |-> old.sec, min_seq |-> Min({old.min_seq, s.seq}),
                      max_seq |-> Max({old.max_seq, s.seq}), samples |-> old.samples + 1]
  <2>1. n \in 1..n /\ old \in WriterSecond
    BY <1>1, <1>3
  <2>2. /\ Min({old.min_seq, s.seq}) = IF old.min_seq <= s.seq THEN old.min_seq ELSE s.seq
        /\ Max({old.max_seq, s.seq}) = IF old.max_seq <= s.seq THEN s.seq ELSE old.max_seq
    <3>1. old.min_seq \in Int /\ old.max_seq \in Int /\ s.seq \in Int
      BY <2>1 DEF WriterSecond, Sample
    <3> HIDE DEF old
    <3> QED
      BY <3>1, OfTwo
  <2>3. /\ more.sec = old.sec /\ more.samples = old.samples + 1
        /\ more["min_seq"] = (IF old["min_seq"] <= s.seq THEN old["min_seq"] ELSE s.seq)
        /\ more["max_seq"] = (IF old["max_seq"] <= s.seq THEN s.seq ELSE old["max_seq"])
    <3> HIDE DEF old
    <3> QED
      BY <2>1, <2>2 DEF WriterSecond
  <2>4. more \in WriterSecond
    <3> HIDE DEF old
    <3> QED
      BY <2>1, <2>2 DEF WriterSecond, Sample
  <2>5. AddToWriter(q, s) = [q EXCEPT ![n] = more]
    BY <1>3, Zenon DEF AddToWriter
  <2> HIDE DEF more
  <2>6. /\ [q EXCEPT ![n] = more] \in Seq(WriterSecond)
        /\ Len([q EXCEPT ![n] = more]) = n
        /\ \A j \in 1..n : [q EXCEPT ![n] = more][j] = IF j = n THEN more ELSE q[j]
    BY <2>1, <2>4, ExceptSeq
  <2> QED
    <3> DEFINE r == [q EXCEPT ![n] = more]
    <3>1. /\ Len(r) = n /\ n \in Nat \ {0} /\ r[n] = more
          /\ \A k \in 1..(n - 1) : r[k] = q[k]
      <4>1. n \in 1..n /\ n \in Nat \ {0} /\ \A k \in 1..(n - 1) : k \in 1..n /\ k # n
        BY <2>1
      <4> QED
        BY <2>6, <4>1
    <3> HIDE DEF r
    <3>2. AddsTo(q, r, s)
      BY <1>3, <2>3, <3>1 DEF AddsTo
    <3>3. Widens("min_seq", "max_seq", r, q, s)
      BY <2>3, <3>1 DEF Widens
    <3> QED
      BY <2>5, <2>6, <3>1, <3>2, <3>3 DEF r
<1> QED
  BY <1>2, <1>3

------------------------------------------------------------------------------
\* A slot when a sample x is taken: of another second, of its own, or a slot made for it.
Reported == [pair : Pairs, seq : 1..MaxSeq, sec : 0..MaxSecond]

LEMMA FilledSame ==
  ASSUME NEW slot, NEW T, NEW x, x.sec # slot.sec, Filled(slot, T)
  PROVE  Filled(slot, T \cup {x})
<1>1. {s \in T \cup {x} : s.sec = slot.sec} = {s \in T : s.sec = slot.sec}
  OBVIOUS
<1> QED
  BY <1>1 DEF Filled

LEMMA FilledMore ==
  ASSUME NEW old \in PairSecond, NEW new \in PairSecond, NEW T \in SUBSET Reported,
         IsFiniteSet(T), NEW x \in Reported, x \notin T, x.sec = old.sec, Filled(old, T),
         new.sec = old.sec, new.samples = old.samples + 1,
         new.first = IF old.first <= x.seq THEN old.first ELSE x.seq,
         new.last = IF old.last <= x.seq THEN x.seq ELSE old.last
  PROVE  Filled(new, T \cup {x})
<1> DEFINE S == {s \in T : s.sec = old.sec}
           U == {s \in T \cup {x} : s.sec = new.sec}
<1>1. U = S \cup {x} /\ x \notin S
  OBVIOUS
<1>2. IsFiniteSet(S) /\ S \in SUBSET Reported
  <2>1. S \in SUBSET T
    OBVIOUS
  <2> QED
    BY <2>1, FS_Subset
<1>3. Cardinality(U) = Cardinality(S) + 1
  <2> HIDE DEF S, U
  <2> QED
    BY <1>1, <1>2, FS_AddElement
<1>4. /\ old.samples = Cardinality(S)
      /\ \E s \in S : s.seq = old.first
      /\ \E s \in S : s.seq = old.last
      /\ \A s \in S : old.first <= s.seq /\ s.seq <= old.last
  BY DEF Filled
<1>5. /\ old.first \in Int /\ old.last \in Int /\ x.seq \in Int
      /\ \A s \in S : s.seq \in Int
  BY <1>2 DEF PairSecond, Reported
<1> HIDE DEF S, U
<1>6. new.samples = Cardinality(U)
  BY <1>3, <1>4
<1>7. (\E s \in U : s.seq = new.first) /\ (\E s \in U : s.seq = new.last)
  BY <1>1, <1>4
<1>8. \A s \in U : new.first <= s.seq /\ s.seq <= new.last
  BY <1>1, <1>4, <1>5
<1> QED
  BY <1>6, <1>7, <1>8 DEF Filled, U

LEMMA FilledNew ==
  ASSUME NEW new, NEW T, NEW x \in Reported, \A s \in T : s.sec # x.sec,
         new.sec = x.sec, new.samples = 1, new.first = x.seq, new.last = x.seq
  PROVE  Filled(new, T \cup {x})
<1>1. {s \in T \cup {x} : s.sec = new.sec} = {x}
  OBVIOUS
<1>2. Cardinality({x}) = 1
  BY FS_Singleton
<1>3. x.seq <= x.seq
  BY DEF Reported
<1> QED
  BY <1>1, <1>2, <1>3 DEF Filled

\* drain(): the slots of a pair stay in order, and from the first second of the window on
\* (which can only move forward) they have what was taken.
LEMMA PairTakes ==
  ASSUME NEW q \in Seq(PairSecond), NEW c \in Seq(Sample), c # <<>>,
         NEW T \in SUBSET Reported, IsFiniteSet(T), NEW x \in Reported, x \notin T,
         x.seq = Head(c).seq, x.sec = Head(c).sec,
         NEW from \in Int, NEW to \in Int, from <= to,
         InOrder(q, T, c), Slotted(q, T, from)
  PROVE  /\ InOrder(AddToPair(q, Head(c)), T \cup {x}, Tail(c))
         /\ Slotted(AddToPair(q, Head(c)), T \cup {x}, to)
         /\ \A k \in DOMAIN AddToPair(q, Head(c)) :
              \/ AddToPair(q, Head(c))[k].sec = x.sec
              \/ k \in DOMAIN q /\ AddToPair(q, Head(c))[k].sec = q[k].sec
<1> DEFINE s == Head(c)
           r == AddToPair(q, s)
           m == Len(q)
           n == Len(r)
<1>1. /\ s \in Sample /\ s = c[1] /\ Tail(c) \in Seq(Sample) /\ Len(Tail(c)) = Len(c) - 1
      /\ Len(c) \in Nat \ {0} /\ DOMAIN c = 1..Len(c)
      /\ \A i \in 1..Len(Tail(c)) : Tail(c)[i] = c[i + 1]
      /\ DOMAIN Tail(c) = 1..Len(Tail(c))
  BY HeadTailProperties, LenProperties, EmptySeq
<1>2. /\ r \in Seq(PairSecond) /\ n \in Nat \ {0} /\ DOMAIN r = 1..n
      /\ \A k \in 1..(n - 1) : r[k] = q[k]
      /\ AddsTo(q, r, s) /\ Widens("first", "last", r, q, s)
  BY <1>1, AddToPairIs, LenProperties
<1>3. m \in Nat /\ DOMAIN q = 1..m /\ (q # <<>> => m # 0) /\ (m # 0 => q # <<>>)
  BY LenProperties, EmptySeq
<1> HIDE DEF s, r
<1>a. x.seq = s.seq /\ x.sec = s.sec
  BY DEF s
<1>b. \/ /\ n = m + 1 /\ (q = <<>> \/ q[m].sec < x.sec)
         /\ r[n].sec = x.sec /\ r[n].samples = 1
         /\ r[n].first = x.seq /\ r[n].last = x.seq
      \/ /\ n = m /\ q # <<>> /\ ~(q[m].sec < x.sec)
         /\ r[n].sec = q[n].sec /\ r[n].samples = q[n].samples + 1
         /\ r[n].first = IF q[n].first <= x.seq THEN q[n].first ELSE x.seq
         /\ r[n].last = IF q[n].last <= x.seq THEN x.seq ELSE q[n].last
  <2>0. Len(q) # Len(q) + 1
    <3>1. \A k \in Nat : k # k + 1
      OBVIOUS
    <3> QED
      BY <1>3, <3>1
  <2>1. CASE Len(r) = Len(q) + 1
    <3>1. /\ q = <<>> \/ q[Len(q)].sec < s.sec
          /\ r[Len(r)].sec = s.sec /\ r[Len(r)].samples = 1
      BY <1>2, <2>0, <2>1 DEF AddsTo
    <3>2. r[Len(r)].first = s.seq /\ r[Len(r)].last = s.seq
      BY <1>2, <2>1 DEF Widens
    <3> QED
      BY <1>a, <2>1, <3>1, <3>2
  <2>2. CASE Len(r) = Len(q)
    <3>1. /\ q # <<>> /\ ~(q[Len(q)].sec < s.sec)
          /\ r[Len(r)].sec = q[Len(q)].sec /\ r[Len(r)].samples = q[Len(q)].samples + 1
      BY <1>2, <2>0, <2>2 DEF AddsTo
    <3>2. /\ r[Len(r)].first = IF q[Len(q)].first <= s.seq THEN q[Len(q)].first ELSE s.seq
          /\ r[Len(r)].last = IF q[Len(q)].last <= s.seq THEN s.seq ELSE q[Len(q)].last
      BY <1>2, <2>2 DEF Widens
    <3> QED
      BY <1>a, <2>2, <3>1, <3>2
  <2> QED
    BY <1>2, <2>1, <2>2 DEF AddsTo
<1>4. /\ \A k \in 1..m : q[k] \in PairSecond /\ q[k].sec \in Int
      /\ \A k \in 1..n : r[k] \in PairSecond /\ r[k].sec \in Int
      /\ \A t \in T : t.sec \in Int /\ t.seq \in Int
      /\ x.sec \in Int /\ x.seq \in Int
      /\ \A i \in 1..Len(c) : c[i].sec \in Int
  <2>1. \A k \in 1..m : q[k] \in PairSecond
    BY ElementOfSeq
  <2>2. \A k \in 1..n : r[k] \in PairSecond
    BY <1>2, ElementOfSeq
  <2>3. \A i \in 1..Len(c) : c[i] \in Sample
    BY ElementOfSeq
  <2> HIDE DEF m, n
  <2>4. \A p \in PairSecond : p.sec \in Int
    BY DEF PairSecond
  <2>5. \A t \in Reported : t.sec \in Int /\ t.seq \in Int
    BY DEF Reported
  <2>6. \A t \in Sample : t.sec \in Int
    BY DEF Sample
  <2> QED
    BY <2>1, <2>2, <2>3, <2>4, <2>5, <2>6
<1> HIDE DEF m, n
<1>5. \A k \in 1..m : q[k].sec <= x.sec
  BY <1>1, <1>3, <1>a DEF InOrder
<1>6. \A t \in T : t.sec <= x.sec
  BY <1>1, <1>3, <1>a DEF InOrder
<1>7. \A i, j \in 1..m : i < j => q[i].sec < q[j].sec
  BY <1>3 DEF InOrder
<1>8. /\ n - 1 <= m /\ m <= n
      /\ r[n].sec = x.sec
      /\ \A k \in 1..(n - 1) : q[k].sec < x.sec
  <2>1. CASE n = m + 1 /\ (q = <<>> \/ q[m].sec < x.sec) /\ r[n].sec = x.sec
    <3>1. ASSUME NEW k \in 1..m PROVE q[k].sec < x.sec
      <4>1. m \in 1..m /\ q # <<>>
        BY <1>3
      <4>2. q[m].sec < x.sec /\ (k = m \/ q[k].sec < q[m].sec)
        BY <1>7, <2>1, <4>1
      <4>3. q[k].sec \in Int /\ q[m].sec \in Int
        BY <1>4, <4>1
      <4> QED
        BY <1>4, <4>2, <4>3
    <3> QED
      BY <1>2, <1>3, <2>1, <3>1
  <2>2. CASE n = m /\ q # <<>> /\ ~(q[m].sec < x.sec) /\ r[n].sec = q[m].sec
    <3>1. m \in 1..m
      BY <1>3, <2>2
    <3>2. q[m].sec = x.sec
      BY <1>4, <1>5, <2>2, <3>1
    <3>3. ASSUME NEW k \in 1..(n - 1) PROVE q[k].sec < x.sec
      <4>1. k \in 1..m /\ k < m
        BY <1>3, <2>2
      <4> QED
        BY <1>7, <3>1, <3>2, <4>1
    <3> QED
      BY <1>3, <2>2, <3>2, <3>3
  <2> QED
    BY <1>b, <2>1, <2>2
<1>9. InOrder(r, T \cup {x}, Tail(c))
  <2>1. \A i, j \in 1..n : i < j => r[i].sec < r[j].sec
    <3> SUFFICES ASSUME NEW i \in 1..n, NEW j \in 1..n, i < j PROVE r[i].sec < r[j].sec
      OBVIOUS
    <3>1. i \in 1..(n - 1) /\ r[i] = q[i] /\ i \in 1..m
      BY <1>2, <1>3, <1>8
    <3>2. CASE j = n
      BY <1>8, <3>1, <3>2
    <3>3. CASE j # n
      <4>1. j \in 1..(n - 1) /\ r[j] = q[j] /\ j \in 1..m
        BY <1>2, <1>3, <1>8, <3>3
      <4> QED
        BY <1>7, <3>1, <4>1
    <3> QED
      BY <3>2, <3>3
  <2>2. \A i, j \in 1..Len(c) : i < j => c[i].sec <= c[j].sec
    BY <1>1 DEF InOrder
  <2>3. ASSUME NEW i \in 1..Len(Tail(c)), NEW j \in 1..Len(Tail(c)), i < j
        PROVE  Tail(c)[i].sec <= Tail(c)[j].sec
    <3>1. i + 1 \in 1..Len(c) /\ j + 1 \in 1..Len(c) /\ i + 1 < j + 1
      BY <1>1, <2>3
    <3> QED
      BY <1>1, <2>2, <3>1
  <2>4. ASSUME NEW i \in 1..Len(Tail(c))
        PROVE  x.sec <= Tail(c)[i].sec /\ Tail(c)[i].sec \in Int
    <3>1. i + 1 \in 1..Len(c) /\ 1 \in 1..Len(c) /\ 1 < i + 1 /\ Tail(c)[i] = c[i + 1]
      BY <1>1
    <3> QED
      BY <1>1, <1>4, <1>a, <2>2, <3>1
  <2>5. \A k \in 1..n : r[k].sec <= x.sec
    <3> TAKE k \in 1..n
    <3>1. k = n \/ (k \in 1..(n - 1) /\ r[k] = q[k] /\ q[k].sec < x.sec)
      BY <1>2, <1>8
    <3>2. r[k].sec \in Int
      BY <1>4
    <3> QED
      BY <1>4, <1>8, <3>1, <3>2
  <2>6. ASSUME NEW i \in 1..Len(Tail(c))
        PROVE  /\ \A t \in T \cup {x} : t.sec <= Tail(c)[i].sec
               /\ \A k \in 1..n : r[k].sec <= Tail(c)[i].sec
    <3>1. x.sec <= Tail(c)[i].sec /\ Tail(c)[i].sec \in Int
      BY <2>4
    <3> QED
      BY <1>4, <1>6, <2>5, <3>1
  <2> QED
    BY <1>1, <1>2, <2>1, <2>3, <2>6 DEF InOrder
<1>10. Slotted(r, T \cup {x}, to)
  <2>1. ASSUME NEW k \in 1..(n - 1), r[k].sec >= to PROVE Filled(r[k], T \cup {x})
    <3>0. r[k] = q[k] /\ k \in 1..m /\ q[k].sec < x.sec
      BY <1>2, <1>3, <1>8
    <3>1. q[k].sec >= from /\ x.sec # q[k].sec
      BY <1>4, <2>1, <3>0
    <3>2. Filled(q[k], T)
      BY <1>3, <3>0, <3>1 DEF Slotted
    <3> QED
      BY <3>0, <3>1, <3>2, FilledSame
  <2>2. ASSUME r[n].sec >= to PROVE Filled(r[n], T \cup {x})
    <3>1. x.sec >= from
      BY <1>4, <1>8, <2>2
    <3>2. CASE n = m + 1
      <4>1. /\ r[n].sec = x.sec /\ r[n].samples = 1
            /\ r[n].first = x.seq /\ r[n].last = x.seq
        BY <1>3, <1>b, <3>2
      <4>2. \A t \in T : t.sec # x.sec
        <5> SUFFICES ASSUME NEW t \in T, t.sec = x.sec PROVE FALSE
          OBVIOUS
        <5>1. PICK k \in 1..m : q[k].sec = x.sec
          BY <1>3, <3>1 DEF Slotted
        <5>2. k \in 1..(n - 1)
          BY <1>3, <3>2
        <5> QED
          BY <1>4, <1>8, <5>1, <5>2
      <4> QED
        BY <4>1, <4>2, FilledNew
    <3>3. CASE n = m
      <4>1. n \in 1..m /\ n \in 1..n /\ q[n] \in PairSecond /\ r[n] \in PairSecond
        BY <1>2, <1>4, <3>3
      <4>2. /\ q[n].sec = r[n].sec /\ r[n].samples = q[n].samples + 1
            /\ r[n].first = IF q[n].first <= x.seq THEN q[n].first ELSE x.seq
            /\ r[n].last = IF q[n].last <= x.seq THEN x.seq ELSE q[n].last
        BY <1>3, <1>b, <3>3
      <4>3. Filled(q[n], T)
        BY <1>3, <1>8, <3>1, <4>1, <4>2 DEF Slotted
      <4>4. x.sec = q[n].sec
        BY <1>8, <4>2
      <4> QED
        BY <4>1, <4>2, <4>3, <4>4, FilledMore
    <3> QED
      BY <1>2, <1>3, <1>8, <3>2, <3>3
  <2>3. ASSUME NEW t \in T \cup {x}, t.sec >= to
        PROVE  \E k \in 1..n : r[k].sec = t.sec
    <3>1. CASE t.sec = x.sec
      BY <1>2, <1>8, <3>1
    <3>2. CASE t.sec # x.sec
      <4>1. t \in T /\ t.sec >= from
        BY <1>4, <2>3, <3>2
      <4>2. PICK k \in 1..m : q[k].sec = t.sec
        BY <1>3, <4>1 DEF Slotted
      <4>3. CASE k \in 1..(n - 1)
        BY <1>2, <4>2, <4>3
      <4>4. CASE k \notin 1..(n - 1)
        <5>1. k = n /\ n = m
          BY <1>2, <1>3, <1>8, <4>4
        <5>2. r[n].sec = q[m].sec
          BY <1>3, <1>b, <5>1
        <5> QED
          BY <1>2, <4>2, <5>1, <5>2
      <4> QED
        BY <4>3, <4>4
    <3> QED
      BY <3>1, <3>2
  <2>4. \A k \in 1..n : k \in 1..(n - 1) \/ k = n
    BY <1>2
  <2> QED
    BY <1>2, <2>1, <2>2, <2>3, <2>4 DEF Slotted
<1>11. \A k \in DOMAIN r : r[k].sec = x.sec \/ (k \in DOMAIN q /\ r[k].sec = q[k].sec)
  BY <1>2, <1>3, <1>8
<1> QED
  BY <1>9, <1>10, <1>11 DEF r, s

------------------------------------------------------------------------------
\* prune_rate_window(): slots go from the front, and only those before the window.
Shifted(q, r, d) ==
  /\ d \in Nat /\ d <= Len(q) /\ Len(r) = Len(q) - d
  /\ \A k \in 1..Len(r) : r[k] = q[k + d]

LEMMA PrunedIs ==
  ASSUME NEW X, NEW q \in Seq(X), NEW sliding \in BOOLEAN, oldest \in Int,
         \A e \in X : e.sec \in Int
  PROVE  /\ Pruned(sliding, q) \in Seq(X)
         /\ \E d \in Nat :
              /\ Shifted(q, Pruned(sliding, q), d)
              /\ \A k \in 1..d : sliding /\ q[k].sec < oldest
              /\ sliding /\ newest_second_ # -1 /\ d < Len(q) => q[d + 1].sec >= oldest
<1> DEFINE kept == {k \in DOMAIN q : q[k].sec >= oldest}
           n == Len(q)
<1>1. n \in Nat /\ DOMAIN q = 1..n /\ \A k \in 1..n : q[k] \in X /\ q[k].sec \in Int
  BY LenProperties, ElementOfSeq
<1>2. CASE ~sliding \/ newest_second_ = -1
  <2>1. Pruned(sliding, q) = q
    BY <1>2 DEF Pruned
  <2>2. Shifted(q, q, 0)
    BY <1>1 DEF Shifted
  <2> QED
    BY <1>2, <2>1, <2>2
<1>3. CASE sliding /\ newest_second_ # -1 /\ kept = {}
  <2>1. Pruned(sliding, q) = <<>>
    BY <1>3 DEF Pruned
  <2>2. <<>> \in Seq(X) /\ Shifted(q, <<>>, n)
    BY <1>1, EmptySeq DEF Shifted
  <2>3. \A k \in 1..n : q[k].sec < oldest
    BY <1>1, <1>3
  <2>4. ~(n < n)
    BY <1>1
  <2> QED
    BY <1>1, <1>3, <2>1, <2>2, <2>3, <2>4
<1>4. CASE sliding /\ newest_second_ # -1 /\ kept # {}
  <2>1. kept \in SUBSET Nat
    BY <1>1
  <2>2. PICK m \in kept : \A k \in kept : m <= k
    <3> HIDE DEF kept
    <3> QED
      BY <1>4, <2>1, LeastNumber
  <2>3. Min(kept) = m
    <3> HIDE DEF kept
    <3> QED
      BY <2>1, <2>2, MinIs
  <2>4. Pruned(sliding, q) = SubSeq(q, m, n)
    BY <1>4, <2>3 DEF Pruned
  <2>5. m \in 1..n /\ q[m].sec >= oldest
    BY <1>1
  <2>6. \A k \in 1..(m - 1) : q[k].sec < oldest
    BY <1>1, <2>2, <2>5
  <2> HIDE DEF n, kept
  <2>7. /\ SubSeq(q, m, n) \in Seq(X) /\ Len(SubSeq(q, m, n)) = n - m + 1
        /\ \A i \in 1..(n - m + 1) : SubSeq(q, m, n)[i] = q[m + i - 1]
    <3>1. m \in Int /\ n \in Int /\ m <= n /\ \A i \in m..n : q[i] \in X
      BY <1>1, <2>5
    <3> QED
      BY <3>1, SubSeqProperties
  <2>8. Shifted(q, SubSeq(q, m, n), m - 1)
    <3> DEFINE r == SubSeq(q, m, n)
    <3>1. m - 1 \in Nat /\ m - 1 <= n /\ n - m + 1 = n - (m - 1)
      BY <1>1, <2>5
    <3>2. ASSUME NEW k \in 1..(n - m + 1) PROVE r[k] = q[k + (m - 1)]
      <4>1. k + (m - 1) = m + k - 1
        BY <1>1, <2>5
      <4> QED
        BY <2>7, <4>1
    <3> HIDE DEF r
    <3> QED
      BY <2>7, <3>1, <3>2 DEF Shifted, n, r
  <2>9. m - 1 \in Nat /\ (m - 1) + 1 = m
    BY <1>1, <2>5
  <2> QED
    BY <1>4, <2>4, <2>5, <2>6, <2>7, <2>8, <2>9
<1> QED
  BY <1>2, <1>3, <1>4

\* The slots of a pair after pruning, against the first second of the window there is then.
LEMMA PairPruned ==
  ASSUME NEW q \in Seq(PairSecond), NEW c \in Seq(Sample), NEW T \in SUBSET Reported,
         NEW from \in Int, NEW to \in Int, NEW sliding \in BOOLEAN,
         newest_second_ \in Int, Window \in Nat,
         to = (IF sliding THEN oldest ELSE 0),
         \A n \in 0..MaxSecond : n >= to => n >= from,
         \A k \in DOMAIN q : q[k].sec <= newest_second_,
         InOrder(q, T, c), Slotted(q, T, from)
  PROVE  /\ Pruned(sliding, q) \in Seq(PairSecond)
         /\ InOrder(Pruned(sliding, q), T, c)
         /\ Slotted(Pruned(sliding, q), T, to)
         /\ \A k \in DOMAIN Pruned(sliding, q) :
              Pruned(sliding, q)[k].sec <= newest_second_ /\ Pruned(sliding, q)[k].sec >= to
<1> DEFINE r == Pruned(sliding, q)
           n == Len(q)
           m == Len(r)
<1>0. oldest \in Int /\ MaxSecond \in Nat
  BY RateAssumption DEF oldest
<1>1. /\ r \in Seq(PairSecond)
      /\ \E d \in Nat : /\ Shifted(q, r, d)
                        /\ \A k \in 1..d : sliding /\ q[k].sec < oldest
                        /\ sliding /\ newest_second_ # -1 /\ d < Len(q) => q[d + 1].sec >= oldest
  <2>1. \A e \in PairSecond : e.sec \in Int
    BY DEF PairSecond
  <2> QED
    BY <1>0, <2>1, PrunedIs
<1> HIDE DEF r
<1>2. PICK d \in Nat : /\ d <= n /\ m = n - d /\ \A k \in 1..m : r[k] = q[k + d]
                       /\ \A k \in 1..d : sliding /\ q[k].sec < oldest
                       /\ sliding /\ newest_second_ # -1 /\ d < n => q[d + 1].sec >= oldest
  BY <1>1 DEF Shifted
<1>3. n \in Nat /\ m \in Nat /\ DOMAIN q = 1..n /\ DOMAIN r = 1..m
  BY <1>1, LenProperties
<1>4. \A k \in 1..n : q[k].sec \in 0..MaxSecond
  <2>1. \A k \in 1..n : q[k] \in PairSecond
    BY ElementOfSeq
  <2> QED
    BY <2>1 DEF PairSecond
<1>5. \A t \in T : t.sec \in 0..MaxSecond
  BY DEF Reported
<1> HIDE DEF n, m
<1>6. \A k \in 1..m : k + d \in 1..n /\ r[k] = q[k + d]
  BY <1>2, <1>3
<1>7. \A i, j \in 1..n : i < j => q[i].sec < q[j].sec
  BY <1>3 DEF InOrder
<1>8. InOrder(r, T, c)
  <2>1. ASSUME NEW i \in 1..m, NEW j \in 1..m, i < j PROVE r[i].sec < r[j].sec
    <3>1. i + d < j + d
      BY <2>1, <1>3
    <3> QED
      BY <1>6, <1>7, <3>1
  <2> QED
    BY <1>3, <1>6, <2>1 DEF InOrder
<1>9. \A k \in 1..n : q[k].sec >= to => k > d
  BY <1>0, <1>2, <1>3, <1>4
<1>10. Slotted(r, T, to)
  <2>1. ASSUME NEW k \in 1..m, r[k].sec >= to PROVE Filled(r[k], T)
    <3>1. k + d \in 1..n /\ r[k] = q[k + d] /\ q[k + d].sec >= from
      BY <1>4, <1>6, <2>1
    <3> QED
      BY <1>3, <3>1 DEF Slotted
  <2>2. ASSUME NEW t \in T, t.sec >= to PROVE \E k \in 1..m : r[k].sec = t.sec
    <3>1. t.sec >= from
      BY <1>5, <2>2
    <3>2. PICK k \in 1..n : q[k].sec = t.sec
      BY <1>3, <3>1 DEF Slotted
    <3>3. k > d
      BY <1>9, <2>2, <3>2
    <3>4. k - d \in 1..m /\ (k - d) + d = k
      BY <1>2, <1>3, <3>3
    <3>5. r[k - d] = q[k]
      BY <1>6, <3>4
    <3> QED
      BY <3>2, <3>4, <3>5
  <2> QED
    BY <1>3, <2>1, <2>2 DEF Slotted
<1>11. ASSUME NEW k \in 1..m PROVE r[k].sec <= newest_second_ /\ r[k].sec >= to
  <2>1. k + d \in 1..n /\ r[k] = q[k + d] /\ r[k].sec \in 0..MaxSecond
    BY <1>4, <1>6
  <2>2. r[k].sec <= newest_second_
    BY <1>3, <2>1
  <2>3. CASE ~sliding
    BY <2>1, <2>2, <2>3
  <2>4. CASE sliding
    <3>1. newest_second_ # -1 /\ d < n /\ d + 1 \in 1..n
      BY <1>2, <1>3, <2>1, <2>2
    <3>2. q[d + 1].sec >= oldest
      BY <1>2, <2>4, <3>1
    <3>3. k = 1 \/ q[d + 1].sec < q[k + d].sec
      <4>1. k = 1 \/ d + 1 < k + d
        BY <1>3
      <4> QED
        BY <1>7, <2>1, <3>1, <4>1
    <3>4. q[d + 1].sec \in Int /\ q[k + d].sec \in Int
      BY <1>4, <2>1, <3>1
    <3>5. k = 1 => k + d = d + 1
      OBVIOUS
    <3>6. q[k + d].sec >= oldest
      BY <1>0, <3>2, <3>3, <3>4, <3>5
    <3> QED
      BY <2>1, <2>2, <2>4, <3>6
  <2> QED
    BY <2>3, <2>4
<1> QED
  BY <1>1, <1>3, <1>8, <1>10, <1>11 DEF r
------------------------------------------------------------------------------
\* drain(): the slots of the writer still span the numbers taken, one more among them.
LEMMA WriterTakes ==
  ASSUME NEW q \in Seq(WriterSecond), NEW s \in Sample, NEW N \in SUBSET (1..MaxSeq),
         s.seq \notin N, Spanned(q, N)
  PROVE  Spanned(AddToWriter(q, s), N \cup {s.seq})
<1> DEFINE r == AddToWriter(q, s)
           m == Len(q)
           n == Len(r)
           U == N \cup {s.seq}
<1>0. MaxSeq \in Nat /\ s.seq \in 1..MaxSeq
  BY RateAssumption DEF Sample
<1>1. /\ r \in Seq(WriterSecond) /\ n \in Nat \ {0} /\ DOMAIN r = 1..n
      /\ \A k \in 1..(n - 1) : r[k] = q[k]
      /\ AddsTo(q, r, s) /\ Widens("min_seq", "max_seq", r, q, s)
  BY AddToWriterIs, LenProperties
<1>2. m \in Nat /\ DOMAIN q = 1..m /\ (q # <<>> => m # 0)
  BY LenProperties, EmptySeq
<1> HIDE DEF r
<1>3. \/ n = m + 1 /\ r[n].samples = 1 /\ r[n].min_seq = s.seq /\ r[n].max_seq = s.seq
      \/ /\ n = m /\ m # 0 /\ r[n].samples = q[n].samples + 1
         /\ r[n].min_seq = IF q[n].min_seq <= s.seq THEN q[n].min_seq ELSE s.seq
         /\ r[n].max_seq = IF q[n].max_seq <= s.seq THEN s.seq ELSE q[n].max_seq
  <2>0. Len(q) # Len(q) + 1
    <3>1. \A k \in Nat : k # k + 1
      OBVIOUS
    <3> QED
      BY <1>2, <3>1
  <2>1. CASE Len(r) = Len(q) + 1
    <3>1. r[Len(r)].samples = 1
      BY <1>1, <2>0, <2>1 DEF AddsTo
    <3>2. r[Len(r)].min_seq = s.seq /\ r[Len(r)].max_seq = s.seq
      BY <1>1, <2>1 DEF Widens
    <3> QED
      BY <2>1, <3>1, <3>2
  <2>2. CASE Len(r) = Len(q)
    <3>1. r[Len(r)].samples = q[Len(q)].samples + 1 /\ Len(q) # 0
      BY <1>1, <1>2, <2>0, <2>2 DEF AddsTo
    <3>2. /\ r[Len(r)].min_seq = IF q[Len(q)].min_seq <= s.seq THEN q[Len(q)].min_seq ELSE s.seq
          /\ r[Len(r)].max_seq = IF q[Len(q)].max_seq <= s.seq THEN s.seq ELSE q[Len(q)].max_seq
      BY <1>1, <2>2 DEF Widens
    <3> QED
      BY <2>2, <3>1, <3>2
  <2> QED
    BY <1>1, <2>1, <2>2 DEF AddsTo
<1>4. /\ \A k \in 1..m : q[k].samples \in Nat /\ q[k].min_seq \in Int /\ q[k].max_seq \in Int
      /\ \A k \in 1..n : r[k].samples \in Nat
  <2>1. \A k \in 1..m : q[k] \in WriterSecond
    BY ElementOfSeq
  <2>2. \A k \in 1..n : r[k] \in WriterSecond
    BY <1>1, ElementOfSeq
  <2>3. \A e \in WriterSecond : e.samples \in Nat /\ e.min_seq \in Int /\ e.max_seq \in Int
    BY DEF WriterSecond
  <2> HIDE DEF m, n
  <2> QED
    BY <2>1, <2>2, <2>3
<1>5. CountOf(r) = CountOf(q) + 1
  <2>1. \/ Len(q) = Len(r) - 1 /\ r[Len(r)].samples = 1
        \/ Len(q) = Len(r) /\ r[Len(r)].samples = q[Len(r)].samples + 1
    <3>1. \A k \in Nat : (k + 1) - 1 = k
      OBVIOUS
    <3> QED
      BY <1>2, <1>3, <3>1
  <2> QED
    BY <1>1, <1>2, <1>4, <2>1, CountsOneMore
<1> HIDE DEF m, n
<1>6. CountOf(r) = Cardinality(U)
  <2>1. IsFiniteSet(N)
    <3>1. IsFiniteSet(1..MaxSeq)
      BY <1>0, FS_Interval
    <3> QED
      BY <3>1, FS_Subset
  <2> QED
    BY <1>5, <2>1, FS_AddElement DEF Spanned
<1>7. \A i \in 1..m : q[i].min_seq \in N /\ q[i].max_seq \in N
  BY <1>2 DEF Spanned
<1>8. ASSUME NEW k \in 1..n PROVE r[k].min_seq \in U /\ r[k].max_seq \in U
  <2>1. CASE k \in 1..(n - 1)
    <3>1. k \in 1..m /\ r[k] = q[k]
      BY <1>1, <1>2, <1>3, <2>1
    <3> QED
      BY <1>7, <3>1
  <2>2. CASE k = n
    <3>1. n = m => n \in 1..m
      BY <1>1
    <3> QED
      BY <1>3, <1>7, <2>2, <3>1
  <2> QED
    BY <1>1, <2>1, <2>2
<1>9. ASSUME NEW x \in U PROVE \E k \in 1..n : r[k].min_seq <= x /\ x <= r[k].max_seq
  <2>0. n \in 1..n /\ (n = m => n \in 1..m)
    BY <1>1
  <2>1. CASE x = s.seq
    <3>1. r[n].min_seq <= s.seq /\ s.seq <= r[n].max_seq
      BY <1>0, <1>3, <1>4, <2>0
    <3> QED
      BY <2>0, <2>1, <3>1
  <2>2. CASE x \in N
    <3>1. PICK k \in 1..m : q[k].min_seq <= x /\ x <= q[k].max_seq
      BY <1>2, <2>2 DEF Spanned
    <3>2. CASE k \in 1..(n - 1)
      BY <1>1, <3>1, <3>2
    <3>3. CASE k \notin 1..(n - 1)
      <4>1. k = n /\ n = m
        BY <1>1, <1>2, <1>3, <3>3
      <4>2. x \in Int /\ q[n].min_seq \in Int /\ q[n].max_seq \in Int
        <5>1. x \in Int
          BY <2>2
        <5>2. n \in 1..m
          BY <2>0, <4>1
        <5> QED
          BY <1>4, <5>1, <5>2
      <4>3. n # m + 1
        BY <1>2, <4>1
      <4>4. r[n].min_seq <= x /\ x <= r[n].max_seq
        BY <1>0, <1>3, <3>1, <4>1, <4>2, <4>3
      <4> QED
        BY <2>0, <4>4
    <3> QED
      BY <3>2, <3>3
  <2> QED
    BY <2>1, <2>2
<1> QED
  BY <1>1, <1>6, <1>8, <1>9 DEF Spanned, r

------------------------------------------------------------------------------
\* snapshot(): the slots that have the samples T, all of one window, count them and know the
\* first and the last of them.
LEMMA SlotsCount ==
  ASSUME NEW q \in Seq(PairSecond), NEW T \in SUBSET Reported, IsFiniteSet(T),
         \A i, j \in DOMAIN q : i < j => q[i].sec < q[j].sec,
         \A k \in DOMAIN q : Filled(q[k], T),
         \A t \in T : \E k \in DOMAIN q : q[k].sec = t.sec
  PROVE  CountOf(q) = Cardinality(T)
<1> DEFINE n == Len(q)
           Upto(k) == {t \in T : \E i \in 1..k : q[i].sec = t.sec}
           OfSlot(k) == {t \in T : t.sec = q[k].sec}
<1>1. n \in Nat /\ DOMAIN q = 1..n
  BY LenProperties
<1>2. \A k \in 1..n : q[k].samples \in Nat /\ q[k].sec \in Int
  <2>1. \A k \in 1..n : q[k] \in PairSecond
    BY ElementOfSeq
  <2> QED
    BY <2>1 DEF PairSecond
<1>3. PICK f : /\ f[0] = 0 /\ CountOf(q) = f[n]
               /\ \A k \in 0..n : f[k] \in Nat
               /\ \A k \in 1..n : f[k] = f[k - 1] + q[k].samples
  BY <1>1, <1>2, CountOfIs
<1> HIDE DEF n
<1> DEFINE S == {k \in Nat : k <= n => f[k] = Cardinality(Upto(k))}
<1>4. 0 \in S
  <2>1. Upto(0) = {}
    OBVIOUS
  <2> QED
    BY <1>3, <2>1, FS_EmptySet
<1>5. ASSUME NEW k \in Nat, k \in S PROVE k + 1 \in S
  <2> SUFFICES ASSUME k + 1 <= n PROVE f[k + 1] = Cardinality(Upto(k + 1))
    <3> HIDE DEF Upto
    <3> QED
      OBVIOUS
  <2>1. k + 1 \in 1..n /\ (k + 1) - 1 = k /\ k <= n
    BY <1>1
  <2>2. f[k + 1] = f[k] + q[k + 1].samples
    BY <1>3, <2>1
  <2>3. f[k] = Cardinality(Upto(k))
    BY <1>5, <2>1
  <2>4. q[k + 1].samples = Cardinality(OfSlot(k + 1))
    BY <1>1, <2>1 DEF Filled
  <2>5. Upto(k + 1) = Upto(k) \cup OfSlot(k + 1)
    <3>1. \A i : i \in 1..(k + 1) <=> i \in 1..k \/ i = k + 1
      OBVIOUS
    <3> QED
      BY <3>1
  <2>6. Upto(k) \cap OfSlot(k + 1) = {}
    <3> SUFFICES ASSUME NEW t \in T, NEW i \in 1..k, q[i].sec = t.sec, t.sec = q[k + 1].sec
                 PROVE  FALSE
      OBVIOUS
    <3>1. i \in 1..n /\ i < k + 1
      BY <1>1, <2>1
    <3>2. q[i].sec < q[k + 1].sec
      BY <1>1, <2>1, <3>1
    <3> QED
      BY <1>2, <2>1, <3>1, <3>2
  <2>7. IsFiniteSet(Upto(k)) /\ IsFiniteSet(OfSlot(k + 1))
    <3>1. Upto(k) \in SUBSET T /\ OfSlot(k + 1) \in SUBSET T
      OBVIOUS
    <3> QED
      BY <3>1, FS_Subset
  <2> HIDE DEF Upto, OfSlot
  <2>8. Cardinality(Upto(k + 1)) = Cardinality(Upto(k)) + Cardinality(OfSlot(k + 1))
    <3>1. /\ Cardinality(Upto(k) \cup OfSlot(k + 1)) = Cardinality(Upto(k)) + Cardinality(OfSlot(k + 1))
               - Cardinality(Upto(k) \cap OfSlot(k + 1))
      BY <2>7, FS_Union
    <3>2. Cardinality(Upto(k)) \in Nat /\ Cardinality(OfSlot(k + 1)) \in Nat
      BY <2>7, FS_CardinalityType
    <3>3. Cardinality(Upto(k) \cap OfSlot(k + 1)) = 0
      BY <2>6, FS_EmptySet
    <3>4. \A a, b \in Nat : a + b - 0 = a + b
      OBVIOUS
    <3> QED
      BY <2>5, <3>1, <3>2, <3>3, <3>4
  <2> QED
    BY <2>2, <2>3, <2>4, <2>8
<1>6. Nat \subseteq S
  <2> HIDE DEF S
  <2> QED
    BY <1>4, <1>5, SetInduction
<1>7. f[n] = Cardinality(Upto(n))
  BY <1>1, <1>6
<1>8. Upto(n) = T
  BY <1>1
<1> QED
  BY <1>3, <1>7, <1>8

\* The extremes of slots and of what they were made from are the same.
LEMMA SameLeast ==
  ASSUME NEW A \in SUBSET Nat, NEW B \in SUBSET Nat, A # {},
         \A a \in A : a \in B, \A b \in B : \E a \in A : a <= b
  PROVE  Min(A) = Min(B) /\ Min(B) \in B /\ \A b \in B : Min(B) <= b
<1>1. PICK m \in A : \A a \in A : m <= a
  BY LeastNumber
<1>2. m \in B /\ \A b \in B : m <= b
  BY <1>1
<1>3. Min(A) = m /\ Min(B) = m
  BY <1>1, <1>2, MinIs
<1> QED
  BY <1>2, <1>3

LEMMA SameGreatest ==
  ASSUME NEW n \in Nat, NEW A \in SUBSET (0..n), NEW B \in SUBSET (0..n), A # {},
         \A a \in A : a \in B, \A b \in B : \E a \in A : b <= a
  PROVE  Max(A) = Max(B) /\ Max(B) \in B /\ \A b \in B : b <= Max(B)
<1>1. PICK m \in A : \A a \in A : a <= m
  BY GreatestNumber
<1>2. m \in B /\ \A b \in B : b <= m
  BY <1>1
<1>3. Max(A) = m /\ Max(B) = m
  BY <1>1, <1>2, MaxIs
<1> QED
  BY <1>2, <1>3
------------------------------------------------------------------------------
\* snapshot(): what the slots of a pair are reduced to, in a state of the invariant.
LEMMA WindowFromInv ==
  RateInv => WindowExact
<1> SUFFICES ASSUME RateInv, pc = "idle", NEW p \in Pairs
             PROVE  LET Within == {s \in taken :
                                    /\ s.pair = p
                                    /\ ~sliding_window_ \/ s.sec > newest_second_ - Window}
                        numbers == {s.seq : s \in Within}
                    IN delivery_window(p) =
                         [samples |-> Cardinality(Within),
                          first |-> IF Within = {} THEN 0 ELSE Min(numbers),
                          last |-> IF Within = {} THEN 0 ELSE Max(numbers)]
  BY DEF WindowExact
<1> DEFINE Within == {s \in taken : /\ s.pair = p
                                    /\ ~sliding_window_ \/ s.sec > newest_second_ - Window}
           numbers == {s.seq : s \in Within}
           q == pair_seconds_[p]
           n == Len(q)
           A == {b.first : b \in Slots(q)}
           Z == {b.last : b \in Slots(q)}
<1>1. /\ RateTypes /\ IsFiniteSet(taken) /\ PairInv(p)
      /\ MaxSeq \in Nat /\ MaxSecond \in Nat /\ Window \in Nat
  BY RateAssumption DEF RateInv, NumbersInv
<1>2. q \in Seq(PairSecond) /\ newest_second_ \in Int /\ taken \in SUBSET Reported
  BY <1>1 DEF RateTypes, Reported
<1>3. n \in Nat /\ DOMAIN q = 1..n /\ (\A k \in 1..n : q[k] \in PairSecond)
      /\ (q # <<>> => n # 0) /\ Len(<<>>) = 0
  BY <1>2, LenProperties, ElementOfSeq, EmptySeq
<1>4. Within \in SUBSET Reported /\ IsFiniteSet(Within) /\ Within = {s \in Mine(p) : s.sec >= low}
  <2>1. \A s \in taken : s.sec \in 0..MaxSecond
    BY <1>2 DEF Reported
  <2>2. \A s \in taken : (~sliding_window_ \/ s.sec > newest_second_ - Window) <=> s.sec >= low
    BY <1>1, <1>2, <2>1 DEF low
  <2>3. Within \in SUBSET taken
    OBVIOUS
  <2>4. IsFiniteSet(Within)
    <3> HIDE DEF Within
    <3> QED
      BY <1>1, <2>3, FS_Subset
  <2> QED
    BY <1>2, <2>2, <2>3, <2>4 DEF Mine
<1> HIDE DEF Within, q, n
<1>5. /\ \A i, j \in DOMAIN q : i < j => q[i].sec < q[j].sec
      /\ \A k \in DOMAIN q : q[k].sec >= low /\ Filled(q[k], Mine(p))
      /\ \A s \in Mine(p) : s.sec >= low => \E k \in DOMAIN q : q[k].sec = s.sec
  BY <1>1 DEF PairInv, InOrder, Slotted, q
<1>6. \A k \in DOMAIN q : Filled(q[k], Within)
  <2> TAKE k \in DOMAIN q
  <2>1. {s \in Within : s.sec = q[k].sec} = {s \in Mine(p) : s.sec = q[k].sec}
    BY <1>4, <1>5
  <2> QED
    BY <1>5, <2>1 DEF Filled
<1>7. \A s \in Within : \E k \in DOMAIN q : q[k].sec = s.sec
  BY <1>4, <1>5
<1>8. CountOf(q) = Cardinality(Within)
  BY <1>2, <1>4, <1>5, <1>6, <1>7, SlotsCount
<1>9. CASE q = <<>>
  <2>1. n = 0
    BY <1>3, <1>9 DEF n
  <2>2. Within = {}
    BY <1>3, <1>7, <2>1
  <2>3. Cardinality(Within) = 0
    BY <2>2, FS_EmptySet
  <2>4. delivery_window(p) = [samples |-> 0, first |-> 0, last |-> 0]
    BY <1>9 DEF delivery_window, q
  <2> QED
    BY <2>2, <2>3, <2>4 DEF Within
<1>10. CASE q # <<>>
  <2>1. n # 0 /\ 1 \in 1..n /\ q[1] \in Slots(q)
    BY <1>3, <1>10 DEF Slots
  <2>2. Within # {}
    BY <1>3, <1>6, <2>1 DEF Filled
  <2>3. /\ A \in SUBSET (1..MaxSeq) /\ A # {} /\ Z \in SUBSET (1..MaxSeq) /\ Z # {}
        /\ numbers \in SUBSET (1..MaxSeq)
    <3>1. \A b \in Slots(q) : b \in PairSecond
      BY <1>3 DEF Slots
    <3>2. \A b \in PairSecond : b.first \in 1..MaxSeq /\ b.last \in 1..MaxSeq
      BY DEF PairSecond
    <3>3. \A s \in Reported : s.seq \in 1..MaxSeq
      BY DEF Reported
    <3> QED
      BY <1>4, <2>1, <3>1, <3>2, <3>3
  <2>a. \A k \in DOMAIN q : q[k].first \in numbers /\ q[k].last \in numbers
    BY <1>6 DEF Filled
  <2>4. \A a \in A : a \in numbers
    <3> HIDE DEF numbers
    <3> QED
      BY <2>a DEF Slots
  <2>5. \A a \in Z : a \in numbers
    <3> HIDE DEF numbers
    <3> QED
      BY <2>a DEF Slots
  <2>6. \A b \in numbers : (\E a \in A : a <= b) /\ (\E a \in Z : b <= a)
    <3> SUFFICES ASSUME NEW t \in Within PROVE (\E a \in A : a <= t.seq) /\ (\E a \in Z : t.seq <= a)
      OBVIOUS
    <3>1. PICK k \in DOMAIN q : q[k].sec = t.sec
      BY <1>7
    <3>2. q[k].first <= t.seq /\ t.seq <= q[k].last
      BY <1>6, <3>1 DEF Filled
    <3> QED
      BY <3>2 DEF Slots
  <2> HIDE DEF A, Z, numbers
  <2>7. Min(A) = Min(numbers)
    <3>1. A \in SUBSET Nat /\ numbers \in SUBSET Nat
      BY <2>3
    <3> QED
      BY <2>3, <2>4, <2>6, <3>1, SameLeast
  <2>8. Max(Z) = Max(numbers)
    <3>1. Z \in SUBSET (0..MaxSeq) /\ numbers \in SUBSET (0..MaxSeq)
      BY <1>1, <2>3
    <3>2. \A b \in numbers : \E a \in Z : b <= a
      BY <2>6
    <3>3. Z # {}
      BY <2>3
    <3> QED
      BY <1>1, <2>5, <3>1, <3>2, <3>3, SameGreatest
  <2>9. delivery_window(p) = [samples |-> CountOf(q), first |-> Min(A), last |-> Max(Z)]
    BY <1>10 DEF delivery_window, q, A, Z
  <2>10. delivery_window(p) =
           [samples |-> Cardinality(Within),
            first |-> IF Within = {} THEN 0 ELSE Min(numbers),
            last |-> IF Within = {} THEN 0 ELSE Max(numbers)]
    BY <1>8, <2>2, <2>7, <2>8, <2>9
  <2> QED
    BY <2>10 DEF numbers, Within
<1> QED
  BY <1>9, <1>10

\* snapshot(): the numbers missing between the extremes of the slots of the writer.
LEMMA GapsFromInv ==
  RateInv => GapsExact
<1> SUFFICES ASSUME RateInv, ~sliding_window_, taken # {}
             PROVE  latency_gaps = Cardinality((Min(TakenNumbers)..Max(TakenNumbers)) \ TakenNumbers)
  BY DEF GapsExact
<1> DEFINE N == TakenNumbers
           q == writer_seconds_
           n == Len(q)
           A == {b.min_seq : b \in Slots(q)}
           Z == {b.max_seq : b \in Slots(q)}
<1>1. /\ MaxSeq \in Nat /\ q \in Seq(WriterSecond) /\ Spanned(q, N)
      /\ N \in SUBSET (1..MaxSeq) /\ N # {}
  BY RateAssumption DEF RateInv, RateTypes, TakenNumbers
<1> HIDE DEF N
<1>2. n \in Nat /\ DOMAIN q = 1..n /\ (\A k \in 1..n : q[k] \in WriterSecond) /\ Len(<<>>) = 0
  BY <1>1, LenProperties, ElementOfSeq, EmptySeq
<1>3. /\ CountOf(q) = Cardinality(N)
      /\ \A k \in 1..n : q[k].min_seq \in N /\ q[k].max_seq \in N
      /\ \A x \in N : \E k \in 1..n : q[k].min_seq <= x /\ x <= q[k].max_seq
  BY <1>1, <1>2 DEF Spanned
<1>4. n # 0 /\ q # <<>>
  <2>1. PICK x \in N : TRUE
    BY <1>1
  <2>2. PICK k \in 1..n : q[k].min_seq <= x
    BY <1>3, <2>1
  <2>3. n # 0
    BY <1>2, <2>2
  <2> QED
    BY <1>2, <2>3
<1>5. /\ A \in SUBSET N /\ A # {} /\ Z \in SUBSET N /\ Z # {}
      /\ \A x \in N : (\E a \in A : a <= x) /\ (\E a \in Z : x <= a)
  <2>1. Slots(q) = {q[k] : k \in 1..n} /\ 1 \in 1..n
    BY <1>2, <1>4 DEF Slots
  <2> HIDE DEF n, q
  <2> QED
    BY <1>3, <2>1
<1> HIDE DEF A, Z, n
<1>6. Min(A) = Min(N) /\ Min(N) \in N /\ \A b \in N : Min(N) <= b
  <2>1. A \in SUBSET Nat /\ N \in SUBSET Nat
    BY <1>1, <1>5
  <2> QED
    BY <1>5, <2>1, SameLeast
<1>7. Max(Z) = Max(N) /\ Max(N) \in N /\ \A b \in N : b <= Max(N)
  <2>1. Z \in SUBSET (0..MaxSeq) /\ N \in SUBSET (0..MaxSeq)
    BY <1>1, <1>5
  <2>2. \A b \in N : \E a \in Z : b <= a
    BY <1>5
  <2>3. Z # {} /\ \A a \in Z : a \in N
    BY <1>5
  <2> QED
    BY <1>1, <2>1, <2>2, <2>3, SameGreatest
<1> DEFINE lo == Min(N)
           hi == Max(N)
           D == (lo..hi) \ N
<1>8. lo \in Int /\ hi \in Int /\ lo <= hi /\ N \in SUBSET (lo..hi)
  <2>1. lo \in N /\ hi \in N /\ \A b \in N : lo <= b /\ b <= hi
    BY <1>6, <1>7
  <2> HIDE DEF lo, hi
  <2>2. \A b \in N : b \in Int
    BY <1>1
  <2> QED
    BY <2>1, <2>2
<1> HIDE DEF lo, hi
<1>9. /\ IsFiniteSet(D) /\ Cardinality(D) \in Nat /\ Cardinality(N) \in Nat
      /\ Cardinality(D) = (hi - lo + 1) - Cardinality(N)
  <2>1. IsFiniteSet(lo..hi) /\ Cardinality(lo..hi) = hi - lo + 1
    BY <1>8, FS_Interval
  <2>2. IsFiniteSet(N) /\ Cardinality(N) \in Nat
    BY <1>8, <2>1, FS_Subset, FS_CardinalityType
  <2>3. (lo..hi) \cap N = N
    BY <1>8
  <2>4. IsFiniteSet(D) /\ Cardinality(D) = Cardinality(lo..hi) - Cardinality((lo..hi) \cap N)
    BY <2>1, FS_Difference
  <2>5. Cardinality(D) \in Nat
    BY <2>4, FS_CardinalityType
  <2>6. Cardinality(D) = (hi - lo + 1) - Cardinality(N)
    BY <2>1, <2>3, <2>4
  <2> QED
    BY <2>2, <2>4, <2>5, <2>6
<1>10. latency_gaps = Max({(hi - lo + 1) - CountOf(q), 0})
  BY <1>4, <1>6, <1>7 DEF latency_gaps, A, Z, lo, hi
<1>11. (hi - lo + 1) - CountOf(q) = Cardinality(D)
  BY <1>3, <1>9
<1>12. Max({Cardinality(D), 0}) = Cardinality(D)
  <2> DEFINE x == Cardinality(D)
  <2>1. x \in Int /\ x >= 0
    BY <1>9
  <2> HIDE DEF x
  <2>2. Max({x, 0}) = IF x <= 0 THEN 0 ELSE x
    BY <2>1, OfTwo
  <2>3. Max({x, 0}) = x
    BY <2>1, <2>2
  <2> QED
    BY <2>3 DEF x
<1>13. latency_gaps = Cardinality(D)
  BY <1>10, <1>11, <1>12
<1> QED
  BY <1>13 DEF lo, hi, N
------------------------------------------------------------------------------
\* The invariant at the start.
LEMMA RateStarts ==
  RateInit => RateInv
<1> SUFFICES ASSUME RateInit PROVE RateInv
  OBVIOUS
<1> USE DEF RateInit
<1>1. /\ MaxSeq \in Nat /\ MaxSecond \in Nat /\ Window \in Nat
      /\ <<>> \in Seq(Sample) /\ <<>> \in Seq(PairSecond) /\ <<>> \in Seq(WriterSecond)
      /\ Len(<<>>) = 0 /\ DOMAIN <<>> = {}
  <2>1. <<>> \in Seq(Sample) /\ <<>> \in Seq(PairSecond) /\ <<>> \in Seq(WriterSecond)
        /\ Len(<<>>) = 0
    BY EmptySeq
  <2>2. DOMAIN <<>> = 1..0
    BY <2>1, LenProperties
  <2> QED
    BY <2>1, <2>2, RateAssumption
<1>2. RateTypes
  <2>1. main \in {"watch", "once", "set"}
    OBVIOUS
  <2>2. seq \in 0..MaxSeq /\ second \in 0..MaxSecond /\ newest_second_ \in -1..MaxSecond
    BY <1>1
  <2>3. cache \in [Pairs -> Seq(Sample)] /\ pair_seconds_ \in [Pairs -> Seq(PairSecond)]
    BY <1>1
  <2> QED
    BY <1>1, <2>1, <2>2, <2>3 DEF RateTypes
<1>3. NumbersInv
  BY <1>1, FS_EmptySet DEF NumbersInv
<1>4. \A p \in Pairs : PairInv(p)
  BY <1>1 DEF PairInv, InOrder, Slotted, Mine
<1>5. Spanned(writer_seconds_, TakenNumbers)
  <2>1. TakenNumbers = {}
    BY DEF TakenNumbers
  <2>2. CountOf(<<>>) = 0
    BY <1>1, CountOfIs
  <2> QED
    BY <1>1, <2>1, <2>2, FS_EmptySet DEF Spanned
<1>6. main # "set"
  OBVIOUS
<1> QED
  BY <1>2, <1>3, <1>4, <1>5, <1>6 DEF RateInv

\* What a reader holds after a sample came in: its oldest may be gone, the others are there.
LEMMA Arrives ==
  ASSUME NEW c \in Seq(Sample), NEW e \in Sample
  PROVE  LET kept == IF Len(c) = Depth THEN Tail(c) ELSE c
         IN \E d \in Nat :
              /\ Append(kept, e) \in Seq(Sample)
              /\ Shifted(c, kept, d)
              /\ Len(Append(kept, e)) = Len(kept) + 1
              /\ \A i \in 1..Len(kept) : Append(kept, e)[i] = c[i + d]
              /\ Append(kept, e)[Len(kept) + 1] = e
<1> DEFINE kept == IF Len(c) = Depth THEN Tail(c) ELSE c
<1>1. kept \in Seq(Sample) /\ \E d \in Nat : Shifted(c, kept, d)
  <2>1. CASE Len(c) = Depth
    <3>1. c # <<>>
      BY <2>1, EmptySeq, RateAssumption
    <3>2. /\ Tail(c) \in Seq(Sample) /\ Len(Tail(c)) = Len(c) - 1 /\ Len(c) \in Nat \ {0}
          /\ \A i \in 1..Len(Tail(c)) : Tail(c)[i] = c[i + 1]
      BY <3>1, HeadTailProperties, EmptySeq
    <3>3. Shifted(c, Tail(c), 1)
      BY <3>2 DEF Shifted
    <3> QED
      BY <2>1, <3>2, <3>3
  <2>2. CASE Len(c) # Depth
    <3>1. Shifted(c, c, 0)
      BY LenProperties DEF Shifted
    <3> QED
      BY <2>2, <3>1
  <2> QED
    BY <2>1, <2>2
<1> HIDE DEF kept
<1>2. PICK d \in Nat : Shifted(c, kept, d)
  BY <1>1
<1>3. /\ Append(kept, e) \in Seq(Sample)
      /\ Len(Append(kept, e)) = Len(kept) + 1
      /\ \A i \in 1..Len(kept) : Append(kept, e)[i] = kept[i]
      /\ Append(kept, e)[Len(kept) + 1] = e
  BY <1>1, AppendProperties
<1>4. \A i \in 1..Len(kept) : Append(kept, e)[i] = c[i + d]
  BY <1>2, <1>3 DEF Shifted
<1> QED
  BY <1>2, <1>3, <1>4 DEF kept

LEMMA PublishKeeps ==
  ASSUME RateInv, NEW p \in Pairs, Publish(p)
  PROVE  RateInv'
<1> DEFINE e == [seq |-> seq + 1, sec |-> second]
           c == cache[p]
           kept == IF Len(c) = Depth THEN Tail(c) ELSE c
           new == Append(kept, e)
<1>0. RateTypes /\ NumbersInv /\ MaxSeq \in Nat /\ MaxSecond \in Nat /\ Window \in Nat
  BY RateAssumption DEF RateInv
<1>1. /\ seq < MaxSeq /\ seq' = seq + 1 /\ (cache' = cache \/ cache' = [cache EXCEPT ![p] = new])
      /\ UNCHANGED <<second, pc, current, pair_seconds_, writer_seconds_, newest_second_,
                     sliding_window_, main, taken>>
  BY Zenon DEF Publish, modeVars
<1>2. seq \in 0..MaxSeq /\ seq' \in 1..MaxSeq /\ seq' \in 0..MaxSeq /\ second \in 0..MaxSecond
  BY <1>0, <1>1 DEF RateTypes
<1>3. e \in Sample /\ e.seq = seq + 1 /\ e.sec = second
  BY <1>1, <1>2 DEF Sample
<1>4. c \in Seq(Sample) /\ cache \in [Pairs -> Seq(Sample)]
  BY <1>0 DEF RateTypes
<1> HIDE DEF e, c
<1>5. PICK d \in Nat : /\ new \in Seq(Sample) /\ Shifted(c, kept, d)
                       /\ Len(new) = Len(kept) + 1
                       /\ \A i \in 1..Len(kept) : new[i] = c[i + d]
                       /\ new[Len(kept) + 1] = e
  BY <1>3, <1>4, Arrives
<1> DEFINE n == Len(kept)
<1>6. /\ n \in Nat /\ DOMAIN new = 1..(n + 1) /\ Len(c) \in Nat /\ DOMAIN c = 1..Len(c)
      /\ \A i \in 1..n : i + d \in 1..Len(c)
  <2>1. Len(c) \in Nat /\ DOMAIN c = 1..Len(c) /\ DOMAIN new = 1..Len(new)
    BY <1>4, <1>5, LenProperties
  <2>2. n = Len(c) - d /\ d <= Len(c)
    BY <1>5 DEF Shifted
  <2>3. Len(new) = n + 1
    BY <1>5
  <2> HIDE DEF n, new, kept
  <2>4. n \in Nat /\ \A i \in 1..n : i + d \in 1..Len(c)
    BY <2>1, <2>2
  <2> QED
    BY <2>1, <2>3, <2>4
<1> HIDE DEF kept, new
<1>7. \A i \in DOMAIN new : \/ i \in 1..n /\ i + d \in DOMAIN c /\ new[i] = c[i + d]
                            \/ i = n + 1 /\ new[i] = e
  <2> HIDE DEF n
  <2> QED
    BY <1>5, <1>6 DEF n
<1> HIDE DEF n
<1>8. UNCHANGED <<low, TakenNumbers>> /\ \A q \in Pairs : Mine(q)' = Mine(q)
  BY <1>1 DEF low, TakenNumbers, Mine
<1>9. CASE cache' = cache
  <2>1. RateTypes'
    BY <1>0, <1>1, <1>2, <1>9 DEF RateTypes
  <2>2. NumbersInv'
    <3>1. \A x \in 1..MaxSeq : x <= seq => x <= seq + 1
      BY <1>2
    <3>2. \A s \in taken : s.seq \in 1..MaxSeq
      BY <1>0 DEF RateTypes
    <3>3. \A q \in Pairs : \A i \in DOMAIN cache[q] : cache[q][i].seq \in 1..MaxSeq
      <4>1. \A q \in Pairs : \A i \in DOMAIN cache[q] : cache[q][i] \in Sample
        BY <1>4, LenProperties, ElementOfSeq
      <4> QED
        BY <4>1 DEF Sample
    <3> QED
      BY <1>0, <1>1, <1>8, <1>9, <3>1, <3>2, <3>3 DEF NumbersInv
  <2>3. \A q \in Pairs : PairInv(q)'
    BY <1>1, <1>8, <1>9 DEF RateInv, PairInv
  <2> QED
    BY <1>1, <1>8, <2>1, <2>2, <2>3 DEF RateInv
<1>10. CASE cache' = [cache EXCEPT ![p] = new]
  <2>0. cache'[p] = new /\ \A q \in Pairs : q # p => cache'[q] = cache[q]
    BY <1>4, <1>10
  <2>1. RateTypes'
    <3>1. cache' \in [Pairs -> Seq(Sample)]
      BY <1>4, <1>5, <1>10
    <3> QED
      BY <1>0, <1>1, <1>2, <3>1 DEF RateTypes
  <2>a. \A q \in Pairs : \A i \in DOMAIN cache[q] :
          cache[q][i].seq \in 1..MaxSeq /\ cache[q][i].sec \in 0..MaxSecond
    <3>1. \A q \in Pairs : \A i \in DOMAIN cache[q] : cache[q][i] \in Sample
      BY <1>4, LenProperties, ElementOfSeq
    <3> QED
      BY <3>1 DEF Sample
  <2>b. \A s \in taken : s.seq \in 1..MaxSeq /\ s.sec \in 0..MaxSecond
    BY <1>0 DEF RateTypes
  <2>c. \A q \in Pairs : \A i \in DOMAIN cache'[q] :
          \/ q = p /\ i = n + 1 /\ cache'[q][i] = e
          \/ q # p /\ i \in DOMAIN cache[q] /\ cache'[q][i] = cache[q][i]
          \/ q = p /\ i \in 1..n /\ i + d \in DOMAIN cache[q] /\ cache'[q][i] = cache[q][i + d]
    BY <1>7, <2>0 DEF c
  <2>d. \A q \in Pairs : \A i \in DOMAIN cache[q] :
          /\ cache[q][i].seq <= seq /\ cache[q][i].sec <= second
          /\ cache[q][i].seq \notin TakenNumbers
    BY <1>0 DEF NumbersInv
  <2>e. e.seq \notin TakenNumbers
    <3>1. \A s \in taken : s.seq <= seq
      BY <1>0 DEF NumbersInv
    <3> QED
      BY <1>2, <1>3, <2>b, <3>1 DEF TakenNumbers
  <2>2. NumbersInv'
    <3>1. ASSUME NEW q \in Pairs, NEW i \in DOMAIN cache'[q]
          PROVE  /\ cache'[q][i].seq <= seq' /\ cache'[q][i].sec <= second'
                 /\ cache'[q][i].seq \notin TakenNumbers'
      BY <1>1, <1>2, <1>3, <1>8, <2>a, <2>c, <2>d, <2>e
    <3>2. ASSUME NEW q \in Pairs, NEW i \in DOMAIN cache'[q], NEW r \in Pairs,
                 NEW j \in DOMAIN cache'[r], cache'[q][i].seq = cache'[r][j].seq
          PROVE  q = r /\ i = j
      <4>1. \A x \in Pairs : \A k \in DOMAIN cache[x] : cache[x][k].seq # e.seq
        BY <1>2, <1>3, <2>a, <2>d
      <4>2. \A x, y \in Pairs : \A k \in DOMAIN cache[x] : \A l \in DOMAIN cache[y] :
              cache[x][k].seq = cache[y][l].seq => x = y /\ k = l
        BY <1>0 DEF NumbersInv
      <4>3. \A k, l \in 1..n : k + d = l + d => k = l
        BY <1>6
      <4> QED
        BY <2>c, <3>2, <4>1, <4>2, <4>3
    <3>3. \A s \in taken' : s.seq <= seq' /\ s.sec <= newest_second_'
      BY <1>0, <1>1, <1>2, <2>b DEF NumbersInv
    <3> QED
      BY <1>0, <1>1, <3>1, <3>2, <3>3 DEF NumbersInv
  <2>3. ASSUME NEW q \in Pairs PROVE PairInv(q)'
    <3>1. CASE q # p
      BY <1>1, <1>8, <2>0, <3>1 DEF RateInv, PairInv
    <3>2. CASE q = p
      <4>0. PairInv(p) /\ newest_second_ <= second /\ newest_second_ \in Int
        BY <1>0 DEF RateInv, NumbersInv, RateTypes
      <4>1. InOrder(pair_seconds_[p], Mine(p), c)
        BY <4>0 DEF PairInv, c
      <4>2. \A i \in DOMAIN c : c[i].sec \in Int /\ c[i].sec <= second
        BY <2>a, <2>d DEF c
      <4>3. \A s \in Mine(p) : s.sec <= second
        BY <1>0, <1>2, <2>b, <4>0 DEF Mine, NumbersInv
      <4>4. \A k \in DOMAIN pair_seconds_[p] : pair_seconds_[p][k].sec <= second
        <5>1. \A k \in DOMAIN pair_seconds_[p] : pair_seconds_[p][k] \in PairSecond
          BY <1>0, LenProperties, ElementOfSeq DEF RateTypes
        <5>2. \A k \in DOMAIN pair_seconds_[p] : pair_seconds_[p][k].sec \in Int
          BY <5>1 DEF PairSecond
        <5> QED
          BY <1>2, <4>0, <5>2 DEF PairInv
      <4>5. ASSUME NEW i \in DOMAIN new, NEW j \in DOMAIN new, i < j
            PROVE  new[i].sec <= new[j].sec
        <5>1. i \in 1..n /\ i + d \in DOMAIN c /\ new[i] = c[i + d]
          BY <1>6, <1>7, <4>5
        <5>2. CASE j = n + 1 /\ new[j] = e
          BY <1>3, <4>2, <5>1, <5>2
        <5>3. CASE j \in 1..n /\ j + d \in DOMAIN c /\ new[j] = c[j + d]
          <6>1. i + d < j + d
            BY <1>6, <4>5, <5>1, <5>3
          <6> QED
            BY <4>1, <5>1, <5>3, <6>1 DEF InOrder
        <5> QED
          BY <1>7, <5>2, <5>3
      <4>6. ASSUME NEW i \in DOMAIN new
            PROVE  /\ \A s \in Mine(p) : s.sec <= new[i].sec
                   /\ \A k \in DOMAIN pair_seconds_[p] : pair_seconds_[p][k].sec <= new[i].sec
        <5>1. CASE new[i] = e
          BY <1>3, <4>3, <4>4, <5>1
        <5>2. CASE i + d \in DOMAIN c /\ new[i] = c[i + d]
          BY <4>1, <5>2 DEF InOrder
        <5> QED
          BY <1>7, <5>1, <5>2
      <4>7. InOrder(pair_seconds_[p], Mine(p), new)
        BY <4>1, <4>5, <4>6 DEF InOrder
      <4> QED
        BY <1>1, <1>8, <2>0, <3>2, <4>0, <4>7 DEF PairInv
    <3> QED
      BY <3>1, <3>2
  <2> QED
    BY <1>1, <1>8, <2>1, <2>2, <2>3 DEF RateInv
<1> QED
  BY <1>1, <1>9, <1>10

\* Nothing is missing from a later second on if nothing is from an earlier one on.
LEMMA SlottedLater ==
  ASSUME NEW q \in Seq(PairSecond), NEW T \in SUBSET Reported, NEW from \in Int, NEW to \in Int,
         from <= to, Slotted(q, T, from)
  PROVE  Slotted(q, T, to)
<1>1. \A k \in DOMAIN q : q[k].sec \in Int
  <2>1. \A k \in DOMAIN q : q[k] \in PairSecond
    BY LenProperties, ElementOfSeq
  <2> QED
    BY <2>1 DEF PairSecond
<1>2. \A t \in T : t.sec \in Int
  BY DEF Reported
<1> QED
  BY <1>1, <1>2 DEF Slotted

LEMMA TakeKeeps ==
  ASSUME RateInv, NEW p \in Pairs, TakeLatency(p)
  PROVE  RateInv'
<1> DEFINE c == cache[p]
           s == Head(c)
           x == [pair |-> p, seq |-> s.seq, sec |-> s.sec]
<1>0. RateTypes /\ NumbersInv /\ MaxSeq \in Nat /\ MaxSecond \in Nat /\ Window \in Nat
  BY RateAssumption DEF RateInv
<1>1. /\ pc = "take" /\ c # <<>>
      /\ pair_seconds_' = [pair_seconds_ EXCEPT ![p] = AddToPair(pair_seconds_[p], s)]
      /\ writer_seconds_' = AddToWriter(writer_seconds_, s)
      /\ newest_second_' = Max({newest_second_, s.sec})
      /\ taken' = taken \cup {x}
      /\ cache' = [cache EXCEPT ![p] = Tail(c)]
      /\ current' = p
      /\ UNCHANGED <<seq, second, pc, sliding_window_, main>>
  BY DEF TakeLatency, modeVars
<1>2. /\ c \in Seq(Sample) /\ cache \in [Pairs -> Seq(Sample)]
      /\ pair_seconds_ \in [Pairs -> Seq(PairSecond)] /\ pair_seconds_[p] \in Seq(PairSecond)
      /\ writer_seconds_ \in Seq(WriterSecond) /\ newest_second_ \in -1..MaxSecond
      /\ taken \in SUBSET Reported /\ second \in 0..MaxSecond /\ seq \in 0..MaxSeq
  BY <1>0 DEF RateTypes, Reported
<1> HIDE DEF c
<1>3. /\ s \in Sample /\ s = c[1] /\ Tail(c) \in Seq(Sample) /\ 1 \in DOMAIN c
      /\ DOMAIN Tail(c) = 1..Len(Tail(c)) /\ Len(Tail(c)) \in Nat
      /\ \A i \in DOMAIN Tail(c) : Tail(c)[i] = c[i + 1] /\ i + 1 \in DOMAIN c /\ i + 1 # 1
  <2>1. /\ s \in Sample /\ Tail(c) \in Seq(Sample) /\ Len(Tail(c)) = Len(c) - 1
        /\ \A i \in 1..Len(Tail(c)) : Tail(c)[i] = c[i + 1]
        /\ Len(c) \in Nat \ {0} /\ DOMAIN c = 1..Len(c) /\ s = c[1]
    BY <1>1, <1>2, HeadTailProperties, LenProperties, EmptySeq
  <2>2. Len(Tail(c)) \in Nat /\ DOMAIN Tail(c) = 1..Len(Tail(c))
    BY <2>1, LenProperties
  <2> HIDE DEF s
  <2>3. \A i \in 1..Len(Tail(c)) : i + 1 \in DOMAIN c /\ i + 1 # 1
    BY <2>1, <2>2
  <2> QED
    BY <2>1, <2>2, <2>3
<1> HIDE DEF s
<1>4. /\ s.seq \in 1..MaxSeq /\ s.sec \in 0..MaxSecond
      /\ x \in Reported /\ x.seq = s.seq /\ x.sec = s.sec /\ x.pair = p
  BY <1>3 DEF Sample, Reported
<1>5. /\ cache'[p] = Tail(c) /\ \A q \in Pairs : q # p => cache'[q] = cache[q]
      /\ pair_seconds_'[p] = AddToPair(pair_seconds_[p], s)
      /\ \A q \in Pairs : q # p => pair_seconds_'[q] = pair_seconds_[q]
  BY <1>1, <1>2
<1>6. newest_second_' = IF newest_second_ <= s.sec THEN s.sec ELSE newest_second_
  <2>1. newest_second_ \in Int /\ s.sec \in Int
    BY <1>0, <1>2, <1>4
  <2> QED
    BY <1>1, <2>1, OfTwo
<1> HIDE DEF x
<1>7. s.seq \notin TakenNumbers /\ s.seq <= seq /\ s.sec <= second /\ x \notin taken
  <2>1. s.seq \notin TakenNumbers /\ s.seq <= seq /\ s.sec <= second
    BY <1>0, <1>3 DEF NumbersInv, c
  <2> QED
    BY <1>4, <2>1 DEF TakenNumbers
<1>8. TakenNumbers' = TakenNumbers \cup {s.seq}
  BY <1>1, <1>4 DEF TakenNumbers
<1>9. /\ newest_second_' \in -1..MaxSecond /\ newest_second_ <= newest_second_'
      /\ s.sec <= newest_second_' /\ newest_second_' <= second
  <2>1. newest_second_ <= second
    BY <1>0 DEF NumbersInv
  <2> QED
    BY <1>0, <1>2, <1>4, <1>6, <1>7, <2>1
<1>10. low \in Int /\ low' \in Int /\ low <= low'
  BY <1>0, <1>1, <1>2, <1>9 DEF low
<1>11. RateTypes'
  <2>1. cache' \in [Pairs -> Seq(Sample)]
    BY <1>1, <1>2, <1>3
  <2>2. pair_seconds_' \in [Pairs -> Seq(PairSecond)]
    <3>1. AddToPair(pair_seconds_[p], s) \in Seq(PairSecond)
      BY <1>2, <1>3, AddToPairIs
    <3> QED
      BY <1>1, <1>2, <3>1
  <2>3. writer_seconds_' \in Seq(WriterSecond)
    BY <1>1, <1>2, <1>3, AddToWriterIs
  <2>4. taken' \in SUBSET Reported
    BY <1>1, <1>2, <1>4
  <2> QED
    BY <1>0, <1>1, <1>9, <2>1, <2>2, <2>3, <2>4 DEF RateTypes, Reported
<1>12. NumbersInv'
  <2>1. IsFiniteSet(taken')
    BY <1>0, <1>1, FS_AddElement DEF NumbersInv
  <2>2. \A t \in taken' : t.seq <= seq' /\ t.sec <= newest_second_'
    <3>1. \A t \in taken : t.sec \in Int
      BY <1>2 DEF Reported
    <3> QED
      BY <1>0, <1>1, <1>2, <1>4, <1>7, <1>9, <3>1 DEF NumbersInv
  <2>3. \A q \in Pairs : \A i \in DOMAIN cache'[q] :
          \/ q # p /\ i \in DOMAIN cache[q] /\ cache'[q][i] = cache[q][i]
          \/ /\ q = p /\ i \in Nat /\ i + 1 \in DOMAIN cache[q] /\ i + 1 # 1
             /\ cache'[q][i] = cache[q][i + 1]
    <3> TAKE q \in Pairs
    <3> TAKE i \in DOMAIN cache'[q]
    <3>1. CASE q # p
      BY <1>5, <3>1
    <3>2. CASE q = p
      <4>1. i \in DOMAIN Tail(c) /\ cache'[q] = Tail(c)
        BY <1>5, <3>2
      <4>2. i \in Nat /\ i + 1 \in DOMAIN c /\ i + 1 # 1 /\ Tail(c)[i] = c[i + 1]
        BY <1>3, <4>1
      <4> QED
        BY <3>2, <4>1, <4>2 DEF c
    <3> QED
      BY <3>1, <3>2
  <2>4. \A y, z \in Pairs : \A k \in DOMAIN cache[y] : \A l \in DOMAIN cache[z] :
          cache[y][k].seq = cache[z][l].seq => y = z /\ k = l
    BY <1>0 DEF NumbersInv
  <2>5. 1 \in DOMAIN cache[p] /\ cache[p][1].seq = s.seq
    BY <1>3 DEF c
  <2>6. ASSUME NEW q \in Pairs, NEW i \in DOMAIN cache'[q]
        PROVE  /\ cache'[q][i].seq <= seq' /\ cache'[q][i].sec <= second'
               /\ cache'[q][i].seq \notin TakenNumbers'
    <3>1. \A y \in Pairs : \A k \in DOMAIN cache[y] :
            /\ cache[y][k].seq <= seq /\ cache[y][k].sec <= second
            /\ cache[y][k].seq \notin TakenNumbers
      BY <1>0 DEF NumbersInv
    <3>2. cache'[q][i].seq # s.seq
      BY <2>3, <2>4, <2>5
    <3> QED
      BY <1>1, <1>8, <2>3, <3>1, <3>2
  <2>7. ASSUME NEW q \in Pairs, NEW i \in DOMAIN cache'[q], NEW r \in Pairs,
               NEW j \in DOMAIN cache'[r], cache'[q][i].seq = cache'[r][j].seq
        PROVE  q = r /\ i = j
    <3>1. \A k, l \in Nat : k + 1 = l + 1 => k = l
      OBVIOUS
    <3> QED
      BY <2>3, <2>4, <2>7, <3>1
  <2>8. newest_second_' <= second'
    BY <1>1, <1>9
  <2> QED
    BY <2>1, <2>2, <2>6, <2>7, <2>8 DEF NumbersInv
<1>13. ASSUME NEW q \in Pairs PROVE PairInv(q)'
  <2>0. PairInv(q) /\ pc' # "idle" /\ pair_seconds_[q] \in Seq(PairSecond)
    BY <1>1, <1>2 DEF RateInv
  <2>1. \A k \in DOMAIN pair_seconds_[q] :
          pair_seconds_[q][k].sec \in Int /\ pair_seconds_[q][k].sec <= newest_second_'
    <3>1. \A k \in DOMAIN pair_seconds_[q] : pair_seconds_[q][k] \in PairSecond
      BY <2>0, LenProperties, ElementOfSeq
    <3>2. \A k \in DOMAIN pair_seconds_[q] : pair_seconds_[q][k].sec \in Int
      BY <3>1 DEF PairSecond
    <3> QED
      BY <1>2, <1>9, <2>0, <3>2 DEF PairInv
  <2>2. CASE q # p
    <3>1. Mine(q)' = Mine(q) /\ Mine(q) \in SUBSET Reported
      BY <1>1, <1>2, <1>4, <2>2 DEF Mine
    <3>2. Slotted(pair_seconds_[q], Mine(q), low')
      BY <1>10, <2>0, <3>1, SlottedLater DEF PairInv
    <3> QED
      BY <1>5, <2>0, <2>1, <2>2, <3>1, <3>2 DEF PairInv
  <2>3. CASE q = p
    <3> DEFINE r == AddToPair(pair_seconds_[p], s)
    <3>1. Mine(p)' = Mine(p) \cup {x} /\ Mine(p) \in SUBSET Reported /\ x \notin Mine(p)
      BY <1>1, <1>2, <1>4, <1>7 DEF Mine
    <3>2. IsFiniteSet(Mine(p))
      <4>1. Mine(p) \in SUBSET taken
        BY DEF Mine
      <4> QED
        BY <1>0, <4>1, FS_Subset DEF NumbersInv
    <3>3. InOrder(pair_seconds_[p], Mine(p), c) /\ Slotted(pair_seconds_[p], Mine(p), low)
      BY <2>0, <2>3 DEF PairInv, c
    <3>4. /\ InOrder(r, Mine(p) \cup {x}, Tail(c)) /\ Slotted(r, Mine(p) \cup {x}, low')
          /\ \A k \in DOMAIN r : r[k].sec = x.sec
                                 \/ (k \in DOMAIN pair_seconds_[p] /\ r[k].sec = pair_seconds_[p][k].sec)
      <4>1. x.seq = Head(c).seq /\ x.sec = Head(c).sec
        BY <1>4 DEF s
      <4>2. c # <<>> /\ c \in Seq(Sample) /\ pair_seconds_[p] \in Seq(PairSecond) /\ x \in Reported
        BY <1>1, <1>2, <1>4
      <4> HIDE DEF r
      <4>3. r = AddToPair(pair_seconds_[p], Head(c))
        BY DEF r, s
      <4> DEFINE before == pair_seconds_[p]
                 mine == Mine(p)
                 first_second == low'
      <4>4. /\ before \in Seq(PairSecond) /\ mine \in SUBSET Reported /\ IsFiniteSet(mine) /\ x \notin mine
            /\ low \in Int /\ first_second \in Int /\ low <= first_second
            /\ InOrder(before, mine, c) /\ Slotted(before, mine, low)
        BY <1>10, <3>1, <3>2, <3>3, <4>2
      <4> HIDE DEF before, mine, first_second
      <4>5. /\ InOrder(AddToPair(before, Head(c)), mine \cup {x}, Tail(c))
            /\ Slotted(AddToPair(before, Head(c)), mine \cup {x}, first_second)
            /\ \A k \in DOMAIN AddToPair(before, Head(c)) :
                 \/ AddToPair(before, Head(c))[k].sec = x.sec
                 \/ k \in DOMAIN before /\ AddToPair(before, Head(c))[k].sec = before[k].sec
        BY <4>1, <4>2, <4>4, PairTakes
      <4> QED
        BY <4>3, <4>5 DEF before, mine, first_second
    <3> HIDE DEF r
    <3>5. \A k \in DOMAIN r : r[k].sec <= newest_second_'
      BY <1>4, <1>9, <2>1, <2>3, <3>4
    <3> QED
      BY <1>5, <2>0, <2>3, <3>1, <3>4, <3>5 DEF PairInv, r
  <2> QED
    BY <2>2, <2>3
<1>14. ~sliding_window_' => Spanned(writer_seconds_', TakenNumbers')
  <2> SUFFICES ASSUME ~sliding_window_' PROVE Spanned(writer_seconds_', TakenNumbers')
    OBVIOUS
  <2>1. Spanned(writer_seconds_, TakenNumbers)
    BY <1>1 DEF RateInv
  <2>2. TakenNumbers \in SUBSET (1..MaxSeq)
    BY <1>2 DEF TakenNumbers, Reported
  <2> QED
    BY <1>1, <1>2, <1>3, <1>7, <1>8, <2>1, <2>2, WriterTakes
<1> QED
  BY <1>1, <1>11, <1>12, <1>13, <1>14 DEF RateInv

\* prune_rate_window(), for whatever is to be the mode of the window.
LEMMA PruneKeeps ==
  ASSUME RateInv, NEW sliding \in BOOLEAN, sliding_window_ => sliding, prune_rate_window(sliding),
         sliding_window_' = sliding, main' \in {"watch", "once", "set"},
         main' # "set" => ~sliding, pc' \in {"idle", "take"},
         UNCHANGED <<seq, second, cache, current, newest_second_, taken>>
  PROVE  RateInv'
<1>0. RateTypes /\ NumbersInv /\ MaxSeq \in Nat /\ MaxSecond \in Nat /\ Window \in Nat
  BY RateAssumption DEF RateInv
<1>1. /\ pair_seconds_' = [p \in Pairs |-> Pruned(sliding, pair_seconds_[p])]
      /\ writer_seconds_' = Pruned(sliding, writer_seconds_)
  BY DEF prune_rate_window
<1>2. /\ cache \in [Pairs -> Seq(Sample)] /\ pair_seconds_ \in [Pairs -> Seq(PairSecond)]
      /\ writer_seconds_ \in Seq(WriterSecond) /\ newest_second_ \in Int
      /\ taken \in SUBSET Reported /\ sliding_window_ \in BOOLEAN
  BY <1>0 DEF RateTypes, Reported
<1>3. oldest \in Int /\ low \in Int /\ low' \in Int /\ low' = (IF sliding THEN oldest ELSE 0)
  BY <1>0, <1>2 DEF oldest, low
<1>4. \A n \in 0..MaxSecond : n >= low' => n >= low
  BY <1>0, <1>2, <1>3 DEF low, oldest
<1>5. ASSUME NEW p \in Pairs
      PROVE  Pruned(sliding, pair_seconds_[p]) \in Seq(PairSecond) /\ PairInv(p)'
  <2> DEFINE q == pair_seconds_[p]
             r == Pruned(sliding, q)
  <2>1. /\ PairInv(p) /\ q \in Seq(PairSecond) /\ cache[p] \in Seq(Sample)
        /\ Mine(p) \in SUBSET Reported /\ Mine(p)' = Mine(p)
    BY <1>2 DEF RateInv, Mine
  <2>2. /\ InOrder(q, Mine(p), cache[p]) /\ Slotted(q, Mine(p), low)
        /\ \A k \in DOMAIN q : q[k].sec <= newest_second_
    BY <2>1 DEF PairInv
  <2> HIDE DEF q
  <2>3. /\ r \in Seq(PairSecond) /\ InOrder(r, Mine(p), cache[p]) /\ Slotted(r, Mine(p), low')
        /\ \A k \in DOMAIN r : r[k].sec <= newest_second_ /\ r[k].sec >= low'
    BY <1>0, <1>2, <1>3, <1>4, <2>1, <2>2, PairPruned
  <2>4. pair_seconds_'[p] = r
    BY <1>1 DEF q
  <2> HIDE DEF r
  <2>5. PairInv(p)'
    BY <2>1, <2>3, <2>4 DEF PairInv
  <2> QED
    BY <2>3, <2>5 DEF q, r
<1>6. Pruned(sliding, writer_seconds_) \in Seq(WriterSecond)
  <2>1. \A e \in WriterSecond : e.sec \in Int
    BY DEF WriterSecond
  <2> QED
    BY <1>2, <1>3, <2>1, PrunedIs
<1>7. RateTypes'
  <2>1. pair_seconds_' \in [Pairs -> Seq(PairSecond)]
    BY <1>1, <1>5
  <2> QED
    BY <1>0, <1>1, <1>6, <2>1 DEF RateTypes
<1>8. NumbersInv'
  BY <1>0 DEF NumbersInv, TakenNumbers
<1>9. ~sliding_window_' => Spanned(writer_seconds_', TakenNumbers')
  <2> SUFFICES ASSUME ~sliding PROVE Spanned(writer_seconds_', TakenNumbers')
    OBVIOUS
  <2>1. writer_seconds_' = writer_seconds_
    BY <1>1 DEF Pruned
  <2>2. Spanned(writer_seconds_, TakenNumbers) /\ TakenNumbers' = TakenNumbers
    BY DEF RateInv, TakenNumbers
  <2> QED
    BY <2>1, <2>2
<1> QED
  BY <1>5, <1>7, <1>8, <1>9 DEF RateInv

LEMMA RateSteps ==
  RateInv /\ [RateNext]_rateVars => RateInv'
<1> SUFFICES ASSUME RateInv, [RateNext]_rateVars PROVE RateInv'
  OBVIOUS
<1>0. RateTypes /\ NumbersInv
  BY DEF RateInv
<1>1. CASE \E p \in Pairs : Publish(p)
  BY <1>1, PublishKeeps
<1>2. CASE \E p \in Pairs : TakeLatency(p)
  BY <1>2, TakeKeeps
<1>3. CASE SourceSecond
  <2>1. /\ second < MaxSecond /\ second' = second + 1
        /\ UNCHANGED <<seq, cache, pc, current, pair_seconds_, writer_seconds_, newest_second_,
                       sliding_window_, main, taken>>
    BY <1>3 DEF SourceSecond, modeVars
  <2>2. second \in Nat /\ second' \in 0..MaxSecond /\ MaxSecond \in Nat
    BY <1>0, <2>1, RateAssumption DEF RateTypes
  <2>3. RateTypes'
    BY <1>0, <2>1, <2>2 DEF RateTypes
  <2>4. NumbersInv'
    <3>1. \A p \in Pairs : \A i \in DOMAIN cache[p] : cache[p][i].sec \in Int
      <4>1. \A p \in Pairs : \A i \in DOMAIN cache[p] : cache[p][i] \in Sample
        BY <1>0, LenProperties, ElementOfSeq DEF RateTypes
      <4> QED
        BY <4>1 DEF Sample
    <3>2. \A i \in Int : i <= second => i <= second + 1
      BY <2>2
    <3>3. newest_second_ \in Int
      BY <1>0 DEF RateTypes
    <3>4. TakenNumbers' = TakenNumbers
      BY <2>1 DEF TakenNumbers
    <3> QED
      BY <1>0, <2>1, <3>1, <3>2, <3>3, <3>4 DEF NumbersInv
  <2>5. \A p \in Pairs : PairInv(p)'
    BY <2>1 DEF RateInv, PairInv, Mine, low
  <2> QED
    BY <2>1, <2>3, <2>4, <2>5 DEF RateInv, TakenNumbers
<1>4. CASE StartDrain
  <2>1. /\ pc' = "take"
        /\ UNCHANGED <<seq, second, cache, current, pair_seconds_, writer_seconds_,
                       newest_second_, sliding_window_, main, taken>>
    BY <1>4 DEF StartDrain, modeVars
  <2>2. RateTypes' /\ NumbersInv'
    BY <1>0, <2>1 DEF RateTypes, NumbersInv, TakenNumbers
  <2>3. \A p \in Pairs : PairInv(p)'
    BY <2>1 DEF RateInv, PairInv, Mine, low
  <2> QED
    BY <2>1, <2>2, <2>3 DEF RateInv, TakenNumbers
<1>5. CASE EndDrain
  <2>1. /\ prune_rate_window(sliding_window_) /\ pc' = "idle"
        /\ UNCHANGED <<seq, second, cache, current, newest_second_, sliding_window_, main, taken>>
    BY <1>5 DEF EndDrain, modeVars
  <2>2. /\ sliding_window_ \in BOOLEAN /\ main \in {"watch", "once", "set"}
        /\ main # "set" => ~sliding_window_
    BY <1>0 DEF RateInv, RateTypes
  <2> QED
    BY <2>1, <2>2, PruneKeeps
<1>6. CASE set_rate_window
  <2>1. /\ main # "set" /\ main' = "set" /\ sliding_window_' = (main = "watch")
        /\ prune_rate_window(main = "watch")
        /\ UNCHANGED <<seq, second, cache, pc, current, newest_second_, taken>>
    BY <1>6 DEF set_rate_window
  <2>2. ~sliding_window_ /\ pc \in {"idle", "take"} /\ (main = "watch") \in BOOLEAN
    BY <1>0, <2>1 DEF RateInv, RateTypes
  <2> QED
    BY <2>1, <2>2, PruneKeeps
<1>7. CASE UNCHANGED rateVars
  <2>1. UNCHANGED <<seq, second, cache, pc, current, pair_seconds_, writer_seconds_,
                    newest_second_, sliding_window_, main, taken>>
    BY <1>7 DEF rateVars, modeVars
  <2>2. RateTypes' /\ NumbersInv'
    BY <1>0, <2>1 DEF RateTypes, NumbersInv, TakenNumbers
  <2>3. \A p \in Pairs : PairInv(p)'
    BY <2>1 DEF RateInv, PairInv, Mine, low
  <2> QED
    BY <2>1, <2>2, <2>3 DEF RateInv, TakenNumbers
<1> QED
  BY <1>1, <1>2, <1>3, <1>4, <1>5, <1>6, <1>7 DEF RateNext

\* The delivered rate is right: between two drains the window snapshot() reports of a pair has
\* the count, the first and the last timestamp of exactly the samples taken in the rate window
\* (drain(), prune_rate_window(), set_rate_window(), snapshot()), for any window, any depth of
\* the reader and any number of samples and pairs.
THEOREM RateIsSound ==
  RateSpec => []RateSound
<1>1. RateInit => RateInv
  BY RateStarts
<1>2. RateInv /\ [RateNext]_rateVars => RateInv'
  BY RateSteps
<1>3. RateInv => RateSound
  BY WindowFromInv DEF RateSound, RateInv
<1> QED
  BY <1>1, <1>2, <1>3, PTL DEF RateSpec

\* The gaps are right: over a whole run the numbers snapshot() calls missing are exactly those
\* between the first and the last sample taken that never came, whatever the order in which
\* the samples of several pairs were taken.
THEOREM GapsAreExact ==
  RateSpec => []GapsExact
<1>1. RateInit => RateInv
  BY RateStarts
<1>2. RateInv /\ [RateNext]_rateVars => RateInv'
  BY RateSteps
<1>3. RateInv => GapsExact
  BY GapsFromInv
<1> QED
  BY <1>1, <1>2, <1>3, PTL DEF RateSpec
==============================================================================
