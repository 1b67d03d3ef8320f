------------------------------ MODULE StatsDrain ------------------------------
(***************************************************************************)
(* StatsObserver (stats_observer.cpp), the two drainers: the observer's    *)
(* own thread empties the statistics readers every 50 ms, and every        *)
(* snapshot() of the main thread empties them once more before it copies   *)
(* the aggregate.  Both run the same drain(), take from the same readers   *)
(* and hand the one mutex back after every batch of samples, so either may *)
(* be in the middle of its sweep when the other goes on.                   *)
(*                                                                         *)
(* A statistics instance is a cumulative counter of an observed process;   *)
(* its reader keeps the newest sample only (KEEP_LAST 1).  Readers are     *)
(* numbered in the order drain() empties them; reader 1 is RTPS_SENT.      *)
(* HISTORY_LATENCY, whose samples are events, is in module RateWindow; its *)
(* loop has the same shape and takes no other lock.                        *)
(***************************************************************************)
EXTENDS Integers, FiniteSets

CONSTANTS
  Instances,  \* counter instances: (source, locator) pairs, entities
  ReaderOf,   \* instance -> the reader that receives it, 1..Readers
  Readers,    \* number of readers
  Batch,      \* kStatsDrainLockBatchSamples
  MaxCount,   \* bound: the largest value of a counter
  MaxErrors   \* bound: drains of the thread that end in an exception

ASSUME DrainAssumption ==
  /\ IsFiniteSet(Instances)
  /\ Readers \in Nat \ {0} /\ ReaderOf \in [Instances -> 1..Readers]
  /\ Batch \in Nat \ {0}
  /\ MaxCount \in Nat
  /\ MaxErrors \in Nat

Drainers == {"thread", "main"}
Nothing == 0    \* an empty reader cache: counters start at 1

VARIABLES
  published,  \* external: the counter as the observed process has it
  arrived,    \* external: the newest value that reached our reader
  cache,      \* external: the sample the reader holds, or Nothing
  mutex_,     \* who holds it, or "free"
  dpc,        \* drainer -> where it is
  reader,     \* drainer -> the reader its drain() is emptying
  since_yield,
  hand,       \* drainer -> the sample taken and not folded in yet: <<instance, value>>
  slot,       \* instance -> samples, first, last: traffic_, data_count and the others
  drain_stop_,
  drain_errors_,
  deleted,    \* the destructor has deleted the readers
  called,     \* history: what had arrived when the snapshot() in progress was called
  settle,     \* measured instances, as snapshot() read them from settle_status()
  out         \* the last StatsData returned: slot, called, measured

worldVars == <<published, arrived>>
drainVars == <<cache, mutex_, dpc, reader, since_yield, hand, slot, drain_errors_>>
snapVars == <<called, settle, out>>
vars == <<worldVars, drainVars, drain_stop_, deleted, snapVars>>

Slot == [samples : Nat, first : Nat, last : Nat]
NoSlot == [samples |-> 0, first |-> 0, last |-> 0]

TypeOK ==
  /\ published \in [Instances -> Nat]
  /\ arrived \in [Instances -> Nat]
  /\ cache \in [Instances -> Nat]
  /\ mutex_ \in Drainers \cup {"free"}
  /\ dpc \in [Drainers -> {"idle", "lock", "take", "fold", "settle", "copy", "join", "delete",
                           "gone"}]
  /\ reader \in [Drainers -> 1..Readers]
  /\ since_yield \in [Drainers -> 0..Batch]
  /\ hand \in [Drainers -> (Instances \X Nat) \cup {<<>>}]
  /\ slot \in [Instances -> Slot]
  /\ drain_stop_ \in BOOLEAN
  /\ drain_errors_ \in Nat
  /\ deleted \in BOOLEAN
  /\ called \in [Instances -> Nat]
  /\ settle \in Nat
  /\ out \in [slot : [Instances -> Slot], called : [Instances -> Nat], measured : Nat]

\* measures_a_pair(): the RTPS_SENT counter moved since its first sample.  (Which
\* destinations count is the main thread's, and constant during a snapshot.)
Moved(slots) == {i \in Instances : ReaderOf[i] = 1 /\ slots[i].last > slots[i].first}

Init ==
  /\ published = [i \in Instances |-> 1]
  /\ arrived = [i \in Instances |-> 0]
  /\ cache = [i \in Instances |-> Nothing]
  /\ mutex_ = "free"
  /\ dpc = [d \in Drainers |-> "idle"]
  /\ reader = [d \in Drainers |-> 1]
  /\ since_yield = [d \in Drainers |-> 0]
  /\ hand = [d \in Drainers |-> <<>>]
  /\ slot = [i \in Instances |-> NoSlot]
  /\ drain_stop_ = FALSE
  /\ drain_errors_ = 0
  /\ deleted = FALSE
  /\ called = arrived
  /\ settle = 0
  /\ out = [slot |-> slot, called |-> arrived, measured |-> 0]

------------------------------------------------------------------------------
\* external: the observed process counts; its newest value reaches our reader and
\* replaces a sample that is still there.  The first is the transient-local one, from
\* before the run.
Count(i) ==
  /\ published[i] < MaxCount
  /\ published' = [published EXCEPT ![i] = @ + 1]
  /\ UNCHANGED <<arrived, drainVars, drain_stop_, deleted, snapVars>>

Arrive(i) ==
  /\ ~deleted
  /\ arrived[i] < published[i]
  /\ arrived' = [arrived EXCEPT ![i] = published[i]]
  /\ cache' = [cache EXCEPT ![i] = published[i]]
  /\ UNCHANGED <<published, mutex_, dpc, reader, since_yield, hand, slot, drain_errors_,
                 drain_stop_, deleted, snapVars>>

------------------------------------------------------------------------------
\* drain(): lock, empty reader after reader, unlock.  What follows the last reader is the
\* caller's: drain_loop() waits again, snapshot() goes on to the settle status.
AfterDrain(d) == IF d = "thread" THEN "idle" ELSE "settle"

DrainLock(d) ==
  /\ dpc[d] = "lock"
  /\ mutex_ = "free"
  /\ mutex_' = d
  /\ dpc' = [dpc EXCEPT ![d] = "take"]
  /\ UNCHANGED <<cache, reader, since_yield, hand, slot, drain_errors_>>

\* Mutant: the lock is handed back between taking a sample and folding it in.
TakeAndUnlock(d) ==
  /\ dpc[d] = "take"
  /\ \E i \in Instances :
       /\ ReaderOf[i] = reader[d] /\ cache[i] # Nothing
       /\ hand' = [hand EXCEPT ![d] = <<i, cache[i]>>]
       /\ cache' = [cache EXCEPT ![i] = Nothing]
  /\ mutex_' = "free"
  /\ dpc' = [dpc EXCEPT ![d] = "fold"]
  /\ UNCHANGED <<reader, since_yield, slot, drain_errors_>>

\* take_next_sample(): one that carries no data is taken and dropped, which changes nothing
\* here.
TakeNextSample(d) ==
  /\ dpc[d] = "take"
  /\ \E i \in Instances :
       /\ ReaderOf[i] = reader[d] /\ cache[i] # Nothing
       /\ hand' = [hand EXCEPT ![d] = <<i, cache[i]>>]
       /\ cache' = [cache EXCEPT ![i] = Nothing]
  /\ dpc' = [dpc EXCEPT ![d] = "fold"]
  /\ UNCHANGED <<mutex_, reader, since_yield, slot, drain_errors_>>

\* Mutants: a slot keeps the value it was created with; the lock is taken again without
\* having been handed back.
Fold(d, Last(_, _), yieldsTo) ==
  /\ dpc[d] = "fold"
  /\ LET i == hand[d][1]
         v == hand[d][2]
         full == since_yield[d] + 1 >= Batch
     IN /\ slot' = [slot EXCEPT ![i] =
                      [samples |-> @.samples + 1,
                       first |-> IF @.samples = 0 THEN v ELSE @.first,
                       last |-> Last(@, v)]]
        /\ since_yield' = [since_yield EXCEPT ![d] = IF full THEN 0 ELSE @ + 1]
        /\ mutex_' = IF full THEN yieldsTo ELSE mutex_
        /\ dpc' = [dpc EXCEPT ![d] = IF full THEN "lock" ELSE "take"]
  /\ hand' = [hand EXCEPT ![d] = <<>>]
  /\ UNCHANGED <<cache, reader, drain_errors_>>

FoldFirst(d) == Fold(d, LAMBDA old, v : IF old.samples = 0 THEN v ELSE old.last, "free")
FoldKeepsLock(d) == Fold(d, LAMBDA old, v : v, mutex_)

\* The sample into its slot, then yield_lock().
FoldSample(d) ==
  /\ dpc[d] = "fold"
  /\ LET i == hand[d][1]
         v == hand[d][2]
         full == since_yield[d] + 1 >= Batch
     IN /\ slot' = [slot EXCEPT ![i] =
                      [samples |-> @.samples + 1,
                       first |-> IF @.samples = 0 THEN v ELSE @.first,
                       last |-> v]]
        /\ since_yield' = [since_yield EXCEPT ![d] = IF full THEN 0 ELSE @ + 1]
        /\ mutex_' = IF full THEN "free" ELSE mutex_
        /\ dpc' = [dpc EXCEPT ![d] = IF full THEN "lock" ELSE "take"]
  /\ hand' = [hand EXCEPT ![d] = <<>>]
  /\ UNCHANGED <<cache, reader, drain_errors_>>

\* Mutant: the sweep ends with the first reader.
FirstReaderOnly(d) ==
  /\ dpc[d] = "take"
  /\ \A i \in Instances : ReaderOf[i] = reader[d] => cache[i] = Nothing
  /\ since_yield' = [since_yield EXCEPT ![d] = 0]
  /\ mutex_' = "free"
  /\ dpc' = [dpc EXCEPT ![d] = AfterDrain(d)]
  /\ UNCHANGED <<cache, reader, hand, slot, drain_errors_>>

\* No sample left: the next reader, or the end.
NextReader(d) ==
  /\ dpc[d] = "take"
  /\ \A i \in Instances : ReaderOf[i] = reader[d] => cache[i] = Nothing
  /\ IF reader[d] < Readers
     THEN /\ reader' = [reader EXCEPT ![d] = @ + 1]
          /\ UNCHANGED <<mutex_, dpc, since_yield>>
     ELSE /\ reader' = [reader EXCEPT ![d] = 1]
          /\ since_yield' = [since_yield EXCEPT ![d] = 0]
          /\ mutex_' = "free"
          /\ dpc' = [dpc EXCEPT ![d] = AfterDrain(d)]
  /\ UNCHANGED <<cache, hand, slot, drain_errors_>>

Drain(d) ==
  /\ DrainLock(d) \/ TakeNextSample(d) \/ FoldSample(d) \/ NextReader(d)
  /\ UNCHANGED <<worldVars, drain_stop_, deleted, snapVars>>

\* An exception ends one drain() of the thread: the lock goes with the stack, the sample in
\* hand is lost, the next round starts over.
DrainThrows ==
  /\ dpc["thread"] \in {"take", "fold"}
  /\ drain_errors_ < MaxErrors
  /\ drain_errors_' = drain_errors_ + 1
  /\ mutex_' = "free"
  /\ reader' = [reader EXCEPT !["thread"] = 1]
  /\ since_yield' = [since_yield EXCEPT !["thread"] = 0]
  /\ dpc' = [dpc EXCEPT !["thread"] = "idle"]
  /\ hand' = [hand EXCEPT !["thread"] = <<>>]
  /\ UNCHANGED <<worldVars, cache, slot, drain_stop_, deleted, snapVars>>

\* Mutant: the thread never looks at drain_stop_.
WakeUpForever ==
  /\ dpc["thread"] = "idle"
  /\ dpc' = [dpc EXCEPT !["thread"] = "lock"]
  /\ UNCHANGED <<worldVars, cache, mutex_, reader, since_yield, hand, slot, drain_errors_,
                 drain_stop_, deleted, snapVars>>

\* drain_loop(): after 50 ms or notify_all() it stops or drains.
WakeUp ==
  /\ dpc["thread"] = "idle"
  /\ dpc' = [dpc EXCEPT !["thread"] = IF drain_stop_ THEN "gone" ELSE "lock"]
  /\ UNCHANGED <<worldVars, cache, mutex_, reader, since_yield, hand, slot, drain_errors_,
                 drain_stop_, deleted, snapVars>>

------------------------------------------------------------------------------
MainAt(from, to) ==
  /\ dpc["main"] = from
  /\ dpc' = [dpc EXCEPT !["main"] = to]
  /\ UNCHANGED <<worldVars, cache, mutex_, reader, since_yield, hand, slot, drain_errors_>>

\* snapshot(): drain(), settle_status(), then the copy, each under the mutex for itself.
CallSnapshot ==
  /\ MainAt("idle", "lock")
  /\ called' = arrived
  /\ UNCHANGED <<drain_stop_, deleted, settle, out>>

\* Mutant: an instance counts as measured with its first sample.
SettleOnFirstSample ==
  /\ mutex_ = "free"
  /\ MainAt("settle", "copy")
  /\ settle' = Cardinality({i \in Instances : ReaderOf[i] = 1 /\ slot[i].samples > 0})
  /\ UNCHANGED <<drain_stop_, deleted, called, out>>

SettleStatus ==
  /\ mutex_ = "free"
  /\ MainAt("settle", "copy")
  /\ settle' = Cardinality(Moved(slot))
  /\ UNCHANGED <<drain_stop_, deleted, called, out>>

CopyData ==
  /\ mutex_ = "free"
  /\ MainAt("copy", "idle")
  /\ out' = [slot |-> slot, called |-> called, measured |-> settle]
  /\ UNCHANGED <<drain_stop_, deleted, called, settle>>

\* ~StatsObserver(): stop the thread, join it, delete the readers.
Stop ==
  /\ MainAt("idle", "join")
  /\ drain_stop_' = TRUE
  /\ UNCHANGED <<deleted, snapVars>>

\* Mutant: the thread is not joined.
Detach == MainAt("join", "delete") /\ UNCHANGED <<drain_stop_, deleted, snapVars>>

Join ==
  /\ dpc["thread"] = "gone"
  /\ MainAt("join", "delete")
  /\ UNCHANGED <<drain_stop_, deleted, snapVars>>

DeleteReaders ==
  /\ MainAt("delete", "gone")
  /\ deleted' = TRUE
  /\ UNCHANGED <<drain_stop_, snapVars>>

Next ==
  \/ \E i \in Instances : Count(i) \/ Arrive(i)
  \/ \E d \in Drainers : Drain(d)
  \/ DrainThrows
  \/ WakeUp
  \/ CallSnapshot
  \/ SettleStatus
  \/ CopyData
  \/ Stop
  \/ Join
  \/ DeleteReaders

Spec == Init /\ [][Next]_vars

\* Both threads are scheduled, and samples arrive (the readers are reliable).  The thread
\* leaves the mutex alone for 50 ms between two drains, so the main thread, which wants it
\* again and again, gets it.
FairSpec ==
  /\ Spec
  /\ \A i \in Instances : WF_vars(Arrive(i))
  /\ WF_vars(Drain("thread")) /\ WF_vars(WakeUp)
  /\ SF_vars(Drain("main")) /\ SF_vars(SettleStatus) /\ SF_vars(CopyData)
  /\ WF_vars(Join) /\ WF_vars(DeleteReaders)
------------------------------------------------------------------------------
\* A counter never goes back: two drainers take from the same readers, and the newer sample
\* is never overwritten by an older one that was taken first and folded in later.
CounterForward == [][\A i \in Instances : slot'[i].last >= slot[i].last]_vars

\* A snapshot is a full sweep: it carries, for every instance, a value at least as new as
\* the one that had arrived when snapshot() was called, also when the drain thread was in
\* the middle of a sweep of its own.  Drains that threw may have lost the sample.
SweepComplete ==
  drain_errors_ = 0 => \A i \in Instances : out.slot[i].last >= out.called[i]

\* The measured instances of a snapshot can be found in the counters of the same snapshot,
\* although the settle status and the copy are two critical sections.
SnapshotCoherent == out.measured <= Cardinality(Moved(out.slot))

\* The destructor deletes the readers when nobody takes from them any more.
NoTakeAfterDelete ==
  deleted => \A d \in Drainers : dpc[d] \notin {"lock", "take", "fold"}

\* Every snapshot() returns, and the destructor ends, whatever the drain thread is doing.
CallsReturn ==
  /\ dpc["main"] = "lock" ~> dpc["main"] = "idle"
  /\ drain_stop_ ~> deleted

\* The counters catch up with the observed processes once these fall silent, with no
\* snapshot() taken, unless a failed drain took the newest sample with it.
CatchesUp ==
  <>[](drain_stop_ \/ drain_errors_ > 0 \/ \A i \in Instances : slot[i].last = published[i])
------------------------------------------------------------------------------
\* What the proofs need besides the properties.  Only the holder of the mutex is inside a
\* reader's loop, and only there is a sample in hand.
MutexInv == \A d \in Drainers : mutex_ = d <=> dpc[d] \in {"take", "fold"}

HandInv ==
  \A d \in Drainers : dpc[d] = "fold" => (hand[d][1] \in Instances /\ hand[d][2] \in Nat)

\* Values go one way: process, reader, hand, slot.
OrderInv ==
  \A i \in Instances :
    /\ slot[i].last <= arrived[i] /\ arrived[i] <= published[i]
    /\ called[i] <= arrived[i]
    /\ cache[i] # Nothing => cache[i] = arrived[i]
    /\ slot[i].samples = 0 => slot[i].first = 0 /\ slot[i].last = 0
    /\ \A d \in Drainers :
         (dpc[d] = "fold" /\ hand[d][1] = i)
           => (slot[i].last <= hand[d][2] /\ hand[d][2] <= arrived[i])

\* The newest value that arrived is in the slot, in the reader or in a drainer's hand.
NoneLost ==
  drain_errors_ = 0 =>
    \A i \in Instances :
      \/ slot[i].last = arrived[i]
      \/ cache[i] = arrived[i]
      \/ \E d \in Drainers : dpc[d] = "fold" /\ hand[d][1] = i /\ hand[d][2] = arrived[i]

\* What the sweep of a snapshot has behind it.
SweepInv ==
  /\ dpc["main"] \notin {"lock", "take", "fold"} => reader["main"] = 1
  /\ drain_errors_ = 0 =>
       \A i \in Instances :
         (dpc["main"] \in {"settle", "copy"}
            \/ (dpc["main"] \in {"lock", "take", "fold"} /\ ReaderOf[i] < reader["main"]))
         => slot[i].last >= called[i]

SettleInv == dpc["main"] = "copy" => settle <= Cardinality(Moved(slot))

\* The life of the thread.
LifeInv ==
  /\ dpc["main"] \in {"delete", "gone"} => dpc["thread"] = "gone"
  /\ deleted => dpc["main"] = "gone"

DrainInv ==
  /\ TypeOK
  /\ MutexInv
  /\ HandInv
  /\ OrderInv
  /\ NoneLost
  /\ SweepInv
  /\ SettleInv
  /\ LifeInv
  /\ SweepComplete
  /\ SnapshotCoherent
==============================================================================
