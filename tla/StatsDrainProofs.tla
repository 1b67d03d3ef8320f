--------------------------- MODULE StatsDrainProofs ---------------------------
(***************************************************************************)
(* Theorems about the two drainers of the statistics observer, for any     *)
(* instances, any number of readers and any batch size.  DrainInv is       *)
(* inductive; from it follow that counters go forward, that a snapshot is  *)
(* a full sweep and agrees with its settle status, and that nothing is     *)
(* taken from a deleted reader.                                            *)
(***************************************************************************)
EXTENDS StatsDrain, FiniteSetTheorems, TLAPS

\* The measured instances of any slots are a number.
LEMMA MovedFinite ==
  ASSUME NEW s
  PROVE  IsFiniteSet(Moved(s)) /\ Cardinality(Moved(s)) \in Nat
BY FS_Subset, FS_CardinalityType, DrainAssumption DEF Moved

\* An instance that has moved stays moved when its counter goes forward.
LEMMA MovedGrows ==
  ASSUME NEW s, NEW t,
         \A i \in Instances : i \in Moved(s) => t[i].last > t[i].first
  PROVE  Cardinality(Moved(s)) <= Cardinality(Moved(t))
<1>1. Moved(s) \subseteq Moved(t)
  BY DEF Moved
<1> QED
  BY <1>1, MovedFinite, FS_Subset

LEMMA DrainInit == Init => DrainInv
<1> SUFFICES ASSUME Init PROVE DrainInv
  OBVIOUS
<1>1. drain_stop_ \in BOOLEAN /\ deleted \in BOOLEAN
  BY Zenon DEF Init
<1>2. TypeOK
  BY <1>1, DrainAssumption DEF Init, TypeOK, Slot, NoSlot, Nothing, Drainers
<1>3. SnapshotCoherent
  BY MovedFinite DEF Init, SnapshotCoherent
<1> QED
  BY <1>2, <1>3, DrainAssumption DEF Init, DrainInv, MutexInv, HandInv, OrderInv, NoneLost,
     SweepInv, SettleInv, LifeInv, SweepComplete, NoSlot, Nothing, Drainers

------------------------------------------------------------------------------
\* The observed processes and their readers.

LEMMA CountStep == \A i \in Instances : DrainInv /\ Count(i) => DrainInv'
<1> SUFFICES ASSUME NEW i \in Instances, DrainInv, Count(i) PROVE DrainInv'
  OBVIOUS
<1> USE DEF DrainInv, Count, drainVars, snapVars
<1>1. TypeOK'
  BY DEF TypeOK
<1>2. OrderInv'
  <2>1. \A j \in Instances :
          arrived[j] \in Nat /\ published[j] \in Nat /\ published'[j] >= published[j]
            /\ published'[j] \in Nat
    BY DEF TypeOK
  <2> QED
    BY <2>1 DEF OrderInv
<1>3. SettleInv' /\ SnapshotCoherent'
  BY DEF SettleInv, SnapshotCoherent, Moved
<1> QED
  BY <1>1, <1>2, <1>3 DEF MutexInv, HandInv, NoneLost, SweepInv, LifeInv, SweepComplete

LEMMA ArriveStep == \A i \in Instances : DrainInv /\ Arrive(i) => DrainInv'
<1> SUFFICES ASSUME NEW i \in Instances, DrainInv, Arrive(i) PROVE DrainInv'
  OBVIOUS
<1> USE DEF DrainInv, Arrive, snapVars
<1>1. TypeOK'
  BY DEF TypeOK
<1>2. OrderInv'
  <2>1. \A j \in Instances :
          /\ arrived[j] \in Nat /\ arrived'[j] \in Nat /\ published[j] \in Nat
          /\ slot[j].last \in Nat /\ called[j] \in Nat
          /\ arrived'[j] >= arrived[j]
          /\ arrived[j] <= published[j] => arrived'[j] <= published[j]
    <3>1. \A j \in Instances : slot[j].last \in Nat /\ called[j] \in Nat
      BY DEF TypeOK, Slot
    <3>2. /\ arrived \in [Instances -> Nat] /\ published \in [Instances -> Nat]
          /\ arrived' = [arrived EXCEPT ![i] = published[i]]
          /\ arrived[i] < published[i]
      BY DEF TypeOK
    <3> QED
      BY <3>1, <3>2
  <2>2. \A j \in Instances : cache'[j] # Nothing => cache'[j] = arrived'[j]
    BY DEF TypeOK, OrderInv
  <2> QED
    BY <2>1, <2>2 DEF OrderInv, HandInv
<1>3. NoneLost'
  <2>1. cache'[i] = arrived'[i]
    BY DEF TypeOK
  <2>2. \A j \in Instances \ {i} : arrived'[j] = arrived[j] /\ cache'[j] = cache[j]
    BY DEF TypeOK
  <2>3. UNCHANGED <<slot, dpc, hand, drain_errors_>>
    OBVIOUS
  <2> HIDE DEF DrainInv, Arrive
  <2>4. NoneLost
    BY DEF DrainInv
  <2> QED
    BY <2>1, <2>2, <2>3, <2>4 DEF NoneLost
<1>4. SettleInv' /\ SnapshotCoherent'
  BY DEF SettleInv, SnapshotCoherent, Moved
<1> QED
  BY <1>1, <1>2, <1>3, <1>4 DEF MutexInv, HandInv, SweepInv, LifeInv, SweepComplete

------------------------------------------------------------------------------
\* drain(), by either drainer.

LEMMA LockStep ==
  ASSUME DrainInv, NEW d \in Drainers, DrainLock(d),
         UNCHANGED <<worldVars, drain_stop_, deleted, snapVars>>
  PROVE  DrainInv'
<1> USE DEF DrainInv, DrainLock, worldVars, snapVars
<1>1. TypeOK'
  BY DEF TypeOK
<1>2. MutexInv'
  BY DEF MutexInv, TypeOK, Drainers
<1>3. HandInv' /\ OrderInv'
  BY DEF HandInv, OrderInv, TypeOK
<1>4. NoneLost'
  BY DEF NoneLost, TypeOK
<1>5. SweepInv' /\ LifeInv'
  BY DEF SweepInv, LifeInv, TypeOK
<1>6. SettleInv' /\ SnapshotCoherent'
  BY DEF SettleInv, SnapshotCoherent, Moved, TypeOK
<1> QED
  BY <1>1, <1>2, <1>3, <1>4, <1>5, <1>6 DEF SweepComplete

LEMMA TakeStep ==
  ASSUME DrainInv, NEW d \in Drainers, TakeNextSample(d),
         UNCHANGED <<worldVars, drain_stop_, deleted, snapVars>>
  PROVE  DrainInv'
<1> PICK i \in Instances :
      /\ ReaderOf[i] = reader[d] /\ cache[i] # Nothing
      /\ hand' = [hand EXCEPT ![d] = <<i, cache[i]>>]
      /\ cache' = [cache EXCEPT ![i] = Nothing]
  BY DEF TakeNextSample
<1>a. /\ dpc[d] = "take" /\ dpc' = [dpc EXCEPT ![d] = "fold"]
      /\ UNCHANGED <<mutex_, reader, since_yield, slot, drain_errors_>>
  BY DEF TakeNextSample
<1> USE <1>a DEF DrainInv, worldVars, snapVars
<1>b. mutex_ = d /\ \A x \in Drainers \ {d} : dpc[x] \notin {"take", "fold"}
  BY DEF MutexInv
<1>c. cache[i] \in Nat /\ cache[i] = arrived[i]
  BY DEF OrderInv, TypeOK
<1>d. /\ hand'[d][1] = i /\ hand'[d][2] = cache[i]
      /\ dpc'[d] = "fold"
      /\ \A x \in Drainers \ {d} : dpc'[x] = dpc[x]
  BY DEF TypeOK
<1>1. TypeOK'
  BY <1>c DEF TypeOK, Nothing
<1>2. MutexInv'
  BY <1>b, <1>d DEF MutexInv, TypeOK
<1>3. HandInv'
  BY <1>b, <1>c, <1>d DEF HandInv, TypeOK
<1>4. OrderInv'
  <2>1. \A j \in Instances : cache'[j] # Nothing => cache'[j] = arrived[j]
    BY DEF OrderInv, TypeOK
  <2>2. ASSUME NEW j \in Instances, NEW x \in Drainers, dpc'[x] = "fold", hand'[x][1] = j
        PROVE  slot[j].last <= hand'[x][2] /\ hand'[x][2] <= arrived[j]
    <3>1. x = d
      BY <2>2, <1>b, <1>d
    <3> QED
      BY <2>2, <3>1, <1>c, <1>d DEF OrderInv
  <2> QED
    BY <2>1, <2>2 DEF OrderInv
<1>5. NoneLost'
  <2> SUFFICES ASSUME drain_errors_ = 0, NEW j \in Instances
               PROVE  \/ slot[j].last = arrived[j]
                      \/ cache'[j] = arrived[j]
                      \/ \E x \in Drainers :
                           dpc'[x] = "fold" /\ hand'[x][1] = j /\ hand'[x][2] = arrived[j]
    BY DEF NoneLost
  <2>1. CASE j = i
    BY <2>1, <1>c, <1>d
  <2>2. CASE j # i
    <3>1. slot[j].last = arrived[j] \/ cache[j] = arrived[j]
      BY <1>b DEF NoneLost
    <3> QED
      BY <3>1, <2>2 DEF TypeOK
  <2> QED
    BY <2>1, <2>2
<1>6. SweepInv' /\ LifeInv'
  BY DEF SweepInv, LifeInv, TypeOK, Drainers
<1>7. SettleInv' /\ SnapshotCoherent'
  BY DEF SettleInv, SnapshotCoherent, Moved, TypeOK
<1> QED
  BY <1>1, <1>2, <1>3, <1>4, <1>5, <1>6, <1>7 DEF SweepComplete

\* What folding a sample in does to the slots.
LEMMA FoldSlots ==
  ASSUME DrainInv, NEW d \in Drainers, FoldSample(d)
  PROVE  /\ hand[d][1] \in Instances /\ hand[d][2] \in Nat
         /\ slot' \in [Instances -> Slot]
         /\ \A j \in Instances : j # hand[d][1] => slot'[j] = slot[j]
         /\ slot'[hand[d][1]].last = hand[d][2]
         /\ slot'[hand[d][1]].samples = slot[hand[d][1]].samples + 1
         /\ slot'[hand[d][1]].first =
              IF slot[hand[d][1]].samples = 0 THEN hand[d][2] ELSE slot[hand[d][1]].first
<1>1. hand[d][1] \in Instances /\ hand[d][2] \in Nat
  BY DEF DrainInv, HandInv, FoldSample
<1>2. slot \in [Instances -> Slot]
  BY DEF DrainInv, TypeOK
<1> QED
  BY <1>1, <1>2 DEF FoldSample, Slot

LEMMA FoldForward ==
  ASSUME DrainInv, NEW d \in Drainers, FoldSample(d)
  PROVE  \A j \in Instances : slot'[j].last >= slot[j].last
<1>1. ASSUME NEW j \in Instances PROVE slot[j].last \in Nat
  BY DEF DrainInv, TypeOK, Slot
<1>2. slot[hand[d][1]].last <= hand[d][2]
  BY FoldSlots DEF DrainInv, OrderInv, FoldSample
<1> QED
  BY <1>1, <1>2, FoldSlots

LEMMA FoldStep ==
  ASSUME DrainInv, NEW d \in Drainers, FoldSample(d),
         UNCHANGED <<worldVars, drain_stop_, deleted, snapVars>>
  PROVE  DrainInv'
<1> DEFINE i == hand[d][1]
           v == hand[d][2]
<1>a. /\ dpc[d] = "fold" /\ mutex_ = d
      /\ \A x \in Drainers \ {d} : dpc[x] \notin {"take", "fold"}
  BY DEF FoldSample, DrainInv, MutexInv
<1>b. /\ hand' = [hand EXCEPT ![d] = <<>>]
      /\ UNCHANGED <<cache, reader, drain_errors_>>
      /\ UNCHANGED <<worldVars, drain_stop_, deleted, snapVars>>
  BY DEF FoldSample
<1>c. \/ /\ mutex_' = "free" /\ dpc' = [dpc EXCEPT ![d] = "lock"]
         /\ since_yield' = [since_yield EXCEPT ![d] = 0]
      \/ /\ mutex_' = mutex_ /\ dpc' = [dpc EXCEPT ![d] = "take"]
         /\ since_yield' = [since_yield EXCEPT ![d] = @ + 1]
         /\ ~(since_yield[d] + 1 >= Batch)
  BY DEF FoldSample
<1>d. /\ \A x \in Drainers : dpc'[x] # "fold"
      /\ \A x \in Drainers \ {d} : dpc'[x] = dpc[x]
      /\ dpc'[d] \in {"lock", "take"}
  BY <1>a, <1>c DEF DrainInv, TypeOK
<1>e. i \in Instances /\ v \in Nat /\ slot[i].last <= v /\ v <= arrived[i]
  BY <1>a, FoldSlots DEF DrainInv, OrderInv
<1>1. TypeOK'
  <2>1. since_yield' \in [Drainers -> 0..Batch]
    <3>1. since_yield \in [Drainers -> 0..Batch] /\ since_yield[d] \in 0..Batch
      BY DEF DrainInv, TypeOK
    <3>2. 0 \in 0..Batch
      BY DrainAssumption
    <3>3. CASE since_yield' = [since_yield EXCEPT ![d] = 0]
      BY <3>1, <3>2, <3>3
    <3>4. CASE /\ since_yield' = [since_yield EXCEPT ![d] = @ + 1]
               /\ ~(since_yield[d] + 1 >= Batch)
      <4>1. since_yield[d] + 1 \in 0..Batch
        BY <3>1, <3>4, DrainAssumption
      <4> QED
        BY <3>1, <3>4, <4>1
    <3> QED
      BY <1>c, <3>3, <3>4
  <2> QED
    BY <2>1, <1>b, <1>c, FoldSlots DEF DrainInv, TypeOK, worldVars, snapVars
<1>2. MutexInv'
  BY <1>a, <1>c, <1>d DEF DrainInv, MutexInv, TypeOK, Drainers
<1>3. HandInv'
  BY <1>d DEF HandInv
<1>4. OrderInv'
  <2> SUFFICES ASSUME NEW j \in Instances
               PROVE  /\ slot'[j].last <= arrived[j] /\ arrived[j] <= published[j]
                      /\ called[j] <= arrived[j]
                      /\ cache[j] # Nothing => cache[j] = arrived[j]
                      /\ slot'[j].samples = 0 => slot'[j].first = 0 /\ slot'[j].last = 0
    BY <1>b, <1>d DEF OrderInv, worldVars, snapVars
  <2>1. slot[j].samples \in Nat
    BY DEF DrainInv, TypeOK, Slot
  <2>2. CASE j = i
    BY <2>1, <2>2, <1>e, FoldSlots DEF DrainInv, OrderInv
  <2>3. CASE j # i
    BY <2>3, FoldSlots DEF DrainInv, OrderInv
  <2> QED
    BY <2>2, <2>3
<1>5. NoneLost'
  <2> SUFFICES ASSUME drain_errors_ = 0, NEW j \in Instances
               PROVE  slot'[j].last = arrived[j] \/ cache[j] = arrived[j]
    BY <1>b DEF NoneLost, worldVars
  <2>1. \/ slot[j].last = arrived[j]
        \/ cache[j] = arrived[j]
        \/ i = j /\ v = arrived[j]
    BY <1>a DEF DrainInv, NoneLost
  <2>2. arrived[j] \in Nat /\ slot[j].last \in Nat
    BY DEF DrainInv, TypeOK, Slot
  <2> QED
    BY <2>1, <2>2, <1>e, FoldSlots
<1>6. SweepInv'
  <2>1. \A j \in Instances : slot'[j].last \in Nat /\ slot[j].last \in Nat /\ called[j] \in Nat
    BY FoldSlots DEF DrainInv, TypeOK, Slot
  <2>2. \A j \in Instances : slot[j].last >= called[j] => slot'[j].last >= called[j]
    BY <2>1, FoldForward
  <2>3. /\ dpc["main"] \in {"lock", "take", "fold"} <=> dpc'["main"] \in {"lock", "take", "fold"}
        /\ dpc'["main"] \in {"settle", "copy"} => dpc["main"] \in {"settle", "copy"}
    BY <1>a, <1>d DEF Drainers
  <2> QED
    BY <2>2, <2>3, <1>b DEF DrainInv, SweepInv, snapVars
<1>7. SettleInv'
  <2> SUFFICES ASSUME dpc'["main"] = "copy"
               PROVE  settle <= Cardinality(Moved(slot'))
    BY <1>b DEF SettleInv, snapVars
  <2>1. dpc["main"] = "copy"
    BY <1>d DEF Drainers
  <2>2. ASSUME NEW j \in Instances, j \in Moved(slot)
        PROVE  slot'[j].last > slot'[j].first
    <3>1. slot[j].last > slot[j].first /\ slot[j] \in Slot /\ slot'[j] \in Slot
      BY <2>2, FoldSlots DEF Moved, DrainInv, TypeOK
    <3>2. slot[j].samples # 0
      BY <3>1 DEF DrainInv, OrderInv
    <3> QED
      BY <3>1, <3>2, <1>e, FoldSlots DEF Slot
  <2>3. Cardinality(Moved(slot)) <= Cardinality(Moved(slot'))
    BY <2>2, MovedGrows
  <2> QED
    BY <2>1, <2>3, MovedFinite DEF DrainInv, SettleInv, TypeOK
<1>8. LifeInv'
  BY <1>a, <1>b, <1>d DEF DrainInv, LifeInv, Drainers
<1>9. SweepComplete' /\ SnapshotCoherent'
  BY <1>b DEF DrainInv, SweepComplete, SnapshotCoherent, Moved, snapVars
<1> QED
  BY <1>1, <1>2, <1>3, <1>4, <1>5, <1>6, <1>7, <1>8, <1>9 DEF DrainInv

LEMMA NextReaderStep ==
  ASSUME DrainInv, NEW d \in Drainers, NextReader(d),
         UNCHANGED <<worldVars, drain_stop_, deleted, snapVars>>
  PROVE  DrainInv'
<1>a. /\ dpc[d] = "take" /\ mutex_ = d
      /\ \A x \in Drainers : dpc[x] # "fold"
      /\ \A x \in Drainers \ {d} : dpc[x] # "take"
  BY DEF NextReader, DrainInv, MutexInv
<1>b. /\ \A i \in Instances : ReaderOf[i] = reader[d] => cache[i] = Nothing
      /\ UNCHANGED <<cache, hand, slot, drain_errors_>>
      /\ UNCHANGED <<worldVars, drain_stop_, deleted, snapVars>>
  BY DEF NextReader
<1>c. \/ /\ reader[d] < Readers
         /\ reader' = [reader EXCEPT ![d] = @ + 1]
         /\ UNCHANGED <<mutex_, dpc, since_yield>>
      \/ /\ ~(reader[d] < Readers)
         /\ reader' = [reader EXCEPT ![d] = 1]
         /\ since_yield' = [since_yield EXCEPT ![d] = 0]
         /\ mutex_' = "free"
         /\ dpc' = [dpc EXCEPT ![d] = AfterDrain(d)]
  BY DEF NextReader
<1>d. /\ \A x \in Drainers : dpc'[x] # "fold"
      /\ \A x \in Drainers \ {d} : dpc'[x] = dpc[x] /\ reader'[x] = reader[x]
      /\ dpc'[d] \in {"take", "idle", "settle"}
  BY <1>a, <1>c DEF DrainInv, TypeOK, AfterDrain
<1>1. TypeOK'
  <2>1. reader' \in [Drainers -> 1..Readers]
    <3>1. reader \in [Drainers -> 1..Readers] /\ reader[d] \in 1..Readers
      BY DEF DrainInv, TypeOK
    <3>2. 1 \in 1..Readers /\ (reader[d] < Readers => reader[d] + 1 \in 1..Readers)
      BY <3>1, DrainAssumption
    <3> QED
      BY <3>1, <3>2, <1>c
  <2>2. since_yield' \in [Drainers -> 0..Batch]
    <3>1. 0 \in 0..Batch
      BY DrainAssumption
    <3> QED
      BY <3>1, <1>c DEF DrainInv, TypeOK
  <2>3. dpc' \in [Drainers -> {"idle", "lock", "take", "fold", "settle", "copy", "join",
                              "delete", "gone"}]
        /\ mutex_' \in Drainers \cup {"free"}
    BY <1>c DEF DrainInv, TypeOK, AfterDrain
  <2> QED
    BY <2>1, <2>2, <2>3, <1>b DEF DrainInv, TypeOK, worldVars, snapVars
<1>2. MutexInv'
  BY <1>a, <1>c, <1>d DEF DrainInv, MutexInv, TypeOK, AfterDrain, Drainers
<1>3. HandInv' /\ OrderInv' /\ NoneLost'
  BY <1>a, <1>b, <1>d DEF DrainInv, HandInv, OrderInv, NoneLost, worldVars, snapVars
<1>4. SweepInv'
  <2>1. CASE d = "thread"
    BY <2>1, <1>a, <1>b, <1>d DEF DrainInv, SweepInv, snapVars, Drainers
  <2>2. CASE d = "main"
    <3>1. dpc'["main"] \notin {"lock", "take", "fold"} => reader'["main"] = 1
      BY <2>2, <1>a, <1>c DEF DrainInv, TypeOK, AfterDrain, Drainers
    <3>2. ASSUME drain_errors_ = 0, NEW i \in Instances,
                 dpc'["main"] \in {"settle", "copy"} \/ ReaderOf[i] < reader'["main"]
          PROVE  slot[i].last >= called[i]
      <4>1. ReaderOf[i] \in 1..Readers /\ reader["main"] \in 1..Readers
        BY DrainAssumption DEF DrainInv, TypeOK, Drainers
      <4>2. ReaderOf[i] < reader["main"] \/ ReaderOf[i] = reader["main"]
        <5>1. CASE reader["main"] < Readers
          <6>1. reader'["main"] = reader["main"] + 1 /\ dpc'["main"] = "take"
            BY <5>1, <2>2, <1>a, <1>c DEF DrainInv, TypeOK
          <6> QED
            BY <6>1, <4>1, <3>2
        <5>2. CASE ~(reader["main"] < Readers)
          BY <5>2, <4>1, DrainAssumption
        <5> QED
          BY <5>1, <5>2
      <4>3. CASE ReaderOf[i] < reader["main"]
        BY <4>3, <3>2, <2>2, <1>a DEF DrainInv, SweepInv
      <4>4. CASE ReaderOf[i] = reader["main"]
        <5>1. cache[i] = 0
          BY <4>4, <2>2, <1>b DEF Nothing
        <5>2. slot[i].last = arrived[i] \/ arrived[i] = 0
          BY <5>1, <3>2, <1>a DEF DrainInv, NoneLost
        <5>3. /\ slot[i].last \in Nat /\ arrived[i] \in Nat /\ called[i] \in Nat
              /\ called[i] <= arrived[i]
          BY DEF DrainInv, OrderInv, TypeOK, Slot
        <5> QED
          BY <5>2, <5>3
      <4> QED
        BY <4>2, <4>3, <4>4
    <3> QED
      BY <3>1, <3>2, <1>b DEF SweepInv, snapVars
  <2> QED
    BY <2>1, <2>2 DEF Drainers
<1>5. SettleInv' /\ LifeInv'
  BY <1>a, <1>b, <1>d DEF DrainInv, SettleInv, LifeInv, Moved, snapVars, Drainers
<1>6. SweepComplete' /\ SnapshotCoherent'
  BY <1>b DEF DrainInv, SweepComplete, SnapshotCoherent, Moved, snapVars
<1> QED
  BY <1>1, <1>2, <1>3, <1>4, <1>5, <1>6 DEF DrainInv

LEMMA ThrowStep == DrainInv /\ DrainThrows => DrainInv'
<1> SUFFICES ASSUME DrainInv, DrainThrows PROVE DrainInv'
  OBVIOUS
<1>a. /\ dpc["thread"] \in {"take", "fold"} /\ mutex_ = "thread"
      /\ dpc["main"] \notin {"take", "fold"}
  BY DEF DrainThrows, DrainInv, MutexInv, Drainers
<1>b. /\ drain_errors_' = drain_errors_ + 1 /\ drain_errors_' # 0
      /\ UNCHANGED <<worldVars, cache, slot, drain_stop_, deleted, snapVars>>
  BY DEF DrainThrows, DrainInv, TypeOK
<1>c. /\ dpc'["thread"] = "idle" /\ dpc'["main"] = dpc["main"]
      /\ reader'["main"] = reader["main"]
  BY DEF DrainThrows, DrainInv, TypeOK, Drainers
<1>1. TypeOK'
  <2>1. 1 \in 1..Readers /\ 0 \in 0..Batch
    BY DrainAssumption
  <2>2. reader' \in [Drainers -> 1..Readers] /\ since_yield' \in [Drainers -> 0..Batch]
    BY <2>1 DEF DrainThrows, DrainInv, TypeOK
  <2>3. /\ hand' \in [Drainers -> (Instances \X Nat) \cup {<<>>}]
        /\ drain_errors_' \in Nat
    <3>1. hand \in [Drainers -> (Instances \X Nat) \cup {<<>>}] /\ drain_errors_ \in Nat
      BY DEF DrainInv, TypeOK
    <3>2. hand' = [hand EXCEPT !["thread"] = <<>>] /\ drain_errors_' = drain_errors_ + 1
      BY DEF DrainThrows
    <3>3. hand' \in [Drainers -> (Instances \X Nat) \cup {<<>>}]
      BY <3>1, <3>2, Zenon
    <3> QED
      BY <3>1, <3>2, <3>3
  <2>4. /\ mutex_' \in Drainers \cup {"free"}
        /\ dpc' \in [Drainers -> {"idle", "lock", "take", "fold", "settle", "copy", "join",
                                  "delete", "gone"}]
    BY DEF DrainThrows, DrainInv, TypeOK
  <2> QED
    BY <2>2, <2>3, <2>4, <1>b DEF DrainInv, TypeOK, worldVars, snapVars
<1>2. MutexInv'
  BY <1>a, <1>c DEF DrainThrows, MutexInv, Drainers
<1>3. HandInv' /\ OrderInv'
  BY <1>a, <1>b, <1>c DEF DrainInv, HandInv, OrderInv, worldVars, snapVars, Drainers
<1>4. NoneLost' /\ SweepComplete'
  BY <1>b DEF NoneLost, SweepComplete
<1>5. SweepInv'
  BY <1>b, <1>c DEF DrainInv, SweepInv
<1>6. SettleInv' /\ LifeInv' /\ SnapshotCoherent'
  BY <1>a, <1>b, <1>c DEF DrainInv, SettleInv, LifeInv, SnapshotCoherent, Moved, snapVars
<1> QED
  BY <1>1, <1>2, <1>3, <1>4, <1>5, <1>6 DEF DrainInv

LEMMA WakeUpStep == DrainInv /\ WakeUp => DrainInv'
<1> SUFFICES ASSUME DrainInv, WakeUp PROVE DrainInv'
  OBVIOUS
<1>a. /\ dpc["thread"] = "idle" /\ dpc'["thread"] \in {"gone", "lock"}
      /\ dpc'["main"] = dpc["main"]
      /\ dpc' \in [Drainers -> {"idle", "lock", "take", "fold", "settle", "copy", "join",
                                "delete", "gone"}]
  BY DEF WakeUp, DrainInv, TypeOK, Drainers
<1>b. UNCHANGED <<worldVars, cache, mutex_, reader, since_yield, hand, slot, drain_errors_,
                  drain_stop_, deleted, snapVars>>
  BY DEF WakeUp
<1>1. TypeOK'
  BY <1>a, <1>b DEF DrainInv, TypeOK, worldVars, snapVars
<1>2. MutexInv' /\ HandInv' /\ OrderInv'
  BY <1>a, <1>b DEF DrainInv, MutexInv, HandInv, OrderInv, worldVars, snapVars, Drainers
<1>3. NoneLost'
  BY <1>a, <1>b DEF DrainInv, NoneLost, worldVars, Drainers
<1>4. SweepInv' /\ LifeInv' /\ SweepComplete'
  BY <1>a, <1>b DEF DrainInv, SweepInv, LifeInv, SweepComplete, snapVars
<1>5. SettleInv' /\ SnapshotCoherent'
  BY <1>a, <1>b DEF DrainInv, SettleInv, SnapshotCoherent, Moved, snapVars
<1> QED
  BY <1>1, <1>2, <1>3, <1>4, <1>5 DEF DrainInv

------------------------------------------------------------------------------
\* The main thread outside of drain(): what its steps have in common.

LEMMA MainStep ==
  ASSUME DrainInv, NEW from, NEW to, MainAt(from, to),
         from \notin {"take", "fold"},
         to \in {"idle", "lock", "settle", "copy", "join", "delete", "gone"}
  PROVE  /\ dpc["main"] = from /\ dpc'["main"] = to /\ dpc'["thread"] = dpc["thread"]
         /\ dpc' \in [Drainers -> {"idle", "lock", "take", "fold", "settle", "copy", "join",
                                   "delete", "gone"}]
         /\ UNCHANGED <<worldVars, cache, mutex_, reader, since_yield, hand, slot, drain_errors_>>
         /\ MutexInv' /\ HandInv' /\ NoneLost'
<1>1. /\ dpc["main"] = from /\ dpc'["main"] = to /\ dpc'["thread"] = dpc["thread"]
      /\ dpc' \in [Drainers -> {"idle", "lock", "take", "fold", "settle", "copy", "join",
                                "delete", "gone"}]
  BY DEF MainAt, DrainInv, TypeOK, Drainers
<1>2. UNCHANGED <<worldVars, cache, mutex_, reader, since_yield, hand, slot, drain_errors_>>
  BY DEF MainAt
<1>3. MutexInv' /\ HandInv'
  BY <1>1, <1>2 DEF DrainInv, MutexInv, HandInv, Drainers
<1>4. NoneLost'
  BY <1>1, <1>2 DEF DrainInv, NoneLost, worldVars, Drainers
<1> QED
  BY <1>1, <1>2, <1>3, <1>4

LEMMA CallSnapshotStep == DrainInv /\ CallSnapshot => DrainInv'
<1> SUFFICES ASSUME DrainInv, CallSnapshot PROVE DrainInv'
  OBVIOUS
<1>a. /\ dpc["main"] = "idle" /\ dpc'["main"] = "lock" /\ dpc'["thread"] = dpc["thread"]
      /\ dpc' \in [Drainers -> {"idle", "lock", "take", "fold", "settle", "copy", "join",
                                "delete", "gone"}]
      /\ UNCHANGED <<worldVars, cache, mutex_, reader, since_yield, hand, slot, drain_errors_>>
      /\ MutexInv' /\ HandInv' /\ NoneLost'
  BY MainStep DEF CallSnapshot
<1>b. called' = arrived /\ UNCHANGED <<drain_stop_, deleted, settle, out>>
  BY DEF CallSnapshot
<1>1. TypeOK'
  BY <1>a, <1>b DEF DrainInv, TypeOK, worldVars
<1>2. OrderInv'
  <2>1. \A i \in Instances : arrived[i] \in Nat
    BY DEF DrainInv, TypeOK
  <2> QED
    BY <2>1, <1>a, <1>b DEF DrainInv, OrderInv, worldVars, Drainers
<1>3. SweepInv'
  <2>1. reader["main"] = 1 /\ \A i \in Instances : ReaderOf[i] \in 1..Readers
    BY <1>a, DrainAssumption DEF DrainInv, SweepInv
  <2> QED
    BY <2>1, <1>a DEF SweepInv
<1>4. SettleInv' /\ LifeInv' /\ SweepComplete' /\ SnapshotCoherent'
  BY <1>a, <1>b DEF DrainInv, SettleInv, LifeInv, SweepComplete, SnapshotCoherent, Moved
<1> QED
  BY <1>a, <1>1, <1>2, <1>3, <1>4 DEF DrainInv

LEMMA SettleStep == DrainInv /\ SettleStatus => DrainInv'
<1> SUFFICES ASSUME DrainInv, SettleStatus PROVE DrainInv'
  OBVIOUS
<1>a. /\ dpc["main"] = "settle" /\ dpc'["main"] = "copy" /\ dpc'["thread"] = dpc["thread"]
      /\ dpc' \in [Drainers -> {"idle", "lock", "take", "fold", "settle", "copy", "join",
                                "delete", "gone"}]
      /\ UNCHANGED <<worldVars, cache, mutex_, reader, since_yield, hand, slot, drain_errors_>>
      /\ MutexInv' /\ HandInv' /\ NoneLost'
  BY MainStep DEF SettleStatus
<1>b. settle' = Cardinality(Moved(slot)) /\ UNCHANGED <<drain_stop_, deleted, called, out>>
  BY DEF SettleStatus
<1>1. TypeOK'
  BY <1>a, <1>b, MovedFinite DEF DrainInv, TypeOK, worldVars
<1>2. OrderInv'
  BY <1>a, <1>b DEF DrainInv, OrderInv, worldVars, Drainers
<1>3. SweepInv'
  BY <1>a, <1>b DEF DrainInv, SweepInv
<1>4. SettleInv'
  BY <1>a, <1>b, MovedFinite DEF SettleInv
<1>5. LifeInv' /\ SweepComplete' /\ SnapshotCoherent'
  BY <1>a, <1>b DEF DrainInv, LifeInv, SweepComplete, SnapshotCoherent, Moved
<1> QED
  BY <1>a, <1>1, <1>2, <1>3, <1>4, <1>5 DEF DrainInv

LEMMA CopyStep == DrainInv /\ CopyData => DrainInv'
<1> SUFFICES ASSUME DrainInv, CopyData PROVE DrainInv'
  OBVIOUS
<1>a. /\ dpc["main"] = "copy" /\ dpc'["main"] = "idle" /\ dpc'["thread"] = dpc["thread"]
      /\ dpc' \in [Drainers -> {"idle", "lock", "take", "fold", "settle", "copy", "join",
                                "delete", "gone"}]
      /\ UNCHANGED <<worldVars, cache, mutex_, reader, since_yield, hand, slot, drain_errors_>>
      /\ MutexInv' /\ HandInv' /\ NoneLost'
  BY MainStep DEF CopyData
<1>b. /\ out' = [slot |-> slot, called |-> called, measured |-> settle]
      /\ UNCHANGED <<drain_stop_, deleted, called, settle>>
  BY DEF CopyData
<1>1. TypeOK'
  BY <1>a, <1>b DEF DrainInv, TypeOK, worldVars
<1>2. OrderInv'
  BY <1>a, <1>b DEF DrainInv, OrderInv, worldVars, Drainers
<1>3. SweepInv' /\ SweepComplete'
  BY <1>a, <1>b DEF DrainInv, SweepInv, SweepComplete
<1>4. SnapshotCoherent'
  BY <1>a, <1>b DEF DrainInv, SettleInv, SnapshotCoherent
<1>5. SettleInv' /\ LifeInv'
  BY <1>a, <1>b DEF DrainInv, SettleInv, LifeInv
<1> QED
  BY <1>a, <1>1, <1>2, <1>3, <1>4, <1>5 DEF DrainInv

\* The destructor.
LEMMA DestructorStep == DrainInv /\ (Stop \/ Join \/ DeleteReaders) => DrainInv'
<1> SUFFICES ASSUME DrainInv, Stop \/ Join \/ DeleteReaders PROVE DrainInv'
  OBVIOUS
<1>a. /\ \/ dpc["main"] = "idle" /\ dpc'["main"] = "join"
         \/ dpc["main"] = "join" /\ dpc'["main"] = "delete" /\ dpc["thread"] = "gone"
         \/ dpc["main"] = "delete" /\ dpc'["main"] = "gone"
      /\ dpc'["thread"] = dpc["thread"]
      /\ dpc' \in [Drainers -> {"idle", "lock", "take", "fold", "settle", "copy", "join",
                                "delete", "gone"}]
      /\ UNCHANGED <<worldVars, cache, mutex_, reader, since_yield, hand, slot, drain_errors_>>
      /\ MutexInv' /\ HandInv' /\ NoneLost'
  <2>1. CASE Stop
    BY <2>1, MainStep DEF Stop
  <2>2. CASE Join
    BY <2>2, MainStep DEF Join
  <2>3. CASE DeleteReaders
    BY <2>3, MainStep DEF DeleteReaders
  <2> QED
    BY <2>1, <2>2, <2>3
<1>b. UNCHANGED snapVars
  BY DEF Stop, Join, DeleteReaders
<1>c. drain_stop_' \in BOOLEAN /\ deleted' \in BOOLEAN
  <2>1. drain_stop_ \in BOOLEAN /\ deleted \in BOOLEAN
    BY Zenon DEF DrainInv, TypeOK
  <2> QED
    BY <2>1, Zenon DEF Stop, Join, DeleteReaders
<1>1. TypeOK'
  BY <1>a, <1>b, <1>c DEF DrainInv, TypeOK, worldVars, snapVars
<1>2. OrderInv'
  BY <1>a, <1>b DEF DrainInv, OrderInv, worldVars, snapVars, Drainers
<1>3. SweepInv' /\ SweepComplete'
  BY <1>a, <1>b DEF DrainInv, SweepInv, SweepComplete, snapVars
<1>4. LifeInv'
  <2>1. dpc'["main"] \in {"delete", "gone"} => dpc'["thread"] = "gone"
    BY <1>a DEF DrainInv, LifeInv
  <2>2. deleted' => dpc'["main"] = "gone"
    <3>1. CASE DeleteReaders
      BY <3>1 DEF DeleteReaders, MainAt, DrainInv, TypeOK, Drainers
    <3>2. CASE UNCHANGED deleted
      BY <3>2, <1>a DEF DrainInv, LifeInv
    <3> QED
      BY <3>1, <3>2 DEF Stop, Join
  <2> QED
    BY <2>1, <2>2 DEF LifeInv
<1>5. SettleInv' /\ SnapshotCoherent'
  BY <1>a, <1>b DEF DrainInv, SettleInv, SnapshotCoherent, Moved, snapVars
<1> QED
  BY <1>a, <1>1, <1>2, <1>3, <1>4, <1>5 DEF DrainInv

------------------------------------------------------------------------------
LEMMA DrainStep == DrainInv /\ [Next]_vars => DrainInv'
<1> SUFFICES ASSUME DrainInv, [Next]_vars PROVE DrainInv'
  OBVIOUS
<1>1. ASSUME NEW i \in Instances, Count(i) \/ Arrive(i) PROVE DrainInv'
  BY <1>1, CountStep, ArriveStep
<1>2. ASSUME NEW d \in Drainers, Drain(d) PROVE DrainInv'
  BY <1>2, LockStep, TakeStep, FoldStep, NextReaderStep DEF Drain
<1>3. CASE DrainThrows \/ WakeUp
  BY <1>3, ThrowStep, WakeUpStep
<1>4. CASE CallSnapshot \/ SettleStatus \/ CopyData
  BY <1>4, CallSnapshotStep, SettleStep, CopyStep
<1>5. CASE Stop \/ Join \/ DeleteReaders
  BY <1>5, DestructorStep
<1>6. CASE UNCHANGED vars
  BY <1>6 DEF vars, worldVars, drainVars, snapVars, DrainInv, TypeOK, MutexInv, HandInv,
     OrderInv, NoneLost, SweepInv, SettleInv, LifeInv, SweepComplete, SnapshotCoherent, Moved
<1> QED
  BY <1>1, <1>2, <1>3, <1>4, <1>5, <1>6 DEF Next

\* DrainInv holds of every state of the two drainers.
THEOREM DrainInvariant == Spec => []DrainInv
BY DrainInit, DrainStep, PTL DEF Spec

\* Every variable keeps its type.
THEOREM DrainTypeCorrect == Spec => []TypeOK
<1>1. DrainInv => TypeOK
  BY DEF DrainInv
<1> QED
  BY <1>1, DrainInvariant, PTL

\* Every snapshot is a full sweep: unless a drain threw, it carries for each instance a value
\* at least as new as the one that had arrived when snapshot() was called.
THEOREM SnapshotSweeps == Spec => []SweepComplete
<1>1. DrainInv => SweepComplete
  BY DEF DrainInv
<1> QED
  BY <1>1, DrainInvariant, PTL

\* The measured instances of a snapshot are among its counters, although the settle status
\* and the copy are two critical sections.
THEOREM SnapshotAgrees == Spec => []SnapshotCoherent
<1>1. DrainInv => SnapshotCoherent
  BY DEF DrainInv
<1> QED
  BY <1>1, DrainInvariant, PTL

\* The destructor deletes the readers when nobody takes from them any more.
THEOREM DeleteAfterUse == Spec => []NoTakeAfterDelete
<1>1. DrainInv => NoTakeAfterDelete
  BY DEF DrainInv, LifeInv, NoTakeAfterDelete, Drainers
<1> QED
  BY <1>1, DrainInvariant, PTL

\* A counter never goes back, whoever folds a sample in.
THEOREM CountersForward == Spec => CounterForward
<1>1. ASSUME DrainInv, Next
      PROVE  \A i \in Instances : slot'[i].last >= slot[i].last
  <2>1. ASSUME NEW i \in Instances PROVE slot[i].last \in Nat
    BY <1>1 DEF DrainInv, TypeOK, Slot
  <2>2. CASE \E d \in Drainers : FoldSample(d)
    BY <1>1, <2>2, FoldForward
  <2>3. CASE UNCHANGED slot
    BY <2>1, <2>3
  <2> QED
    BY <1>1, <2>2, <2>3 DEF Next, Count, Arrive, Drain, DrainLock, TakeNextSample, NextReader,
       DrainThrows, WakeUp, CallSnapshot, SettleStatus, CopyData, Stop, Join, DeleteReaders,
       MainAt, drainVars
<1>2. DrainInv /\ [Next]_vars => [\A i \in Instances : slot'[i].last >= slot[i].last]_vars
  BY <1>1
<1> QED
  BY <1>2, DrainInvariant, PTL DEF Spec, CounterForward
==============================================================================
