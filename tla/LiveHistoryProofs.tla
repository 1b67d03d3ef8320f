--------------------------- MODULE LiveHistoryProofs ---------------------------
(***************************************************************************)
(* Theorems about the live history of the web viewer, for any bound, any   *)
(* sizes of frames and any number of them.  What trimHistory() drops is    *)
(* computed by recursion; that this recursion is defined, ends inside the  *)
(* kept frames and leaves no more than the bound is proved here by         *)
(* induction over sets of naturals.                                        *)
(***************************************************************************)
EXTENDS LiveHistory, NaturalsInduction, SequenceTheorems, WellFoundedInduction, TLAPS

Read == [kind : {"none", "frame", "newest"}, frame : Nat, doc : Nat]
Page ==
  [following : BOOLEAN, pending : Nat, blobs : Seq(Nat), shownDropped : BOOLEAN,
   scanning : BOOLEAN, live : BOOLEAN, rec : Seq(Nat), scan : Seq(Nat), index : Nat,
   shown : Nat, read : Read,
   load : BOOLEAN, timer : Nat, screen : Int]

\* The kept frames are the newest of the n that have arrived.
Newest(b, n) == Len(b) <= n /\ \A i \in 1..Len(b) : b[i] = n - Len(b) + i

Begins(s, b) == Len(s) <= Len(b) /\ \A i \in 1..Len(s) : s[i] = b[i]

\* The recording is that of the kept frames; while a scan makes it anew, that of the first of
\* them, and the scan has something left to read.
RecordInv(p) ==
  /\ p.live => p.blobs # <<>> /\ ~p.load
  /\ ~p.live => p.rec = <<>> /\ ~p.scanning
  /\ ~p.scanning => p.scan = <<>>
  /\ p.scanning => Begins(p.rec, p.blobs) /\ Begins(p.scan, p.blobs) /\ Len(p.scan) < Len(p.blobs)
  /\ p.live /\ ~p.scanning => p.rec = p.blobs

\* Timeline, shown frame and read point at frames of the recording, and a read brings the
\* document of the frame it is for, wherever that has moved.
PointsInv(p) ==
  /\ p.index >= 1 /\ (p.rec # <<>> => p.index <= Len(p.rec)) /\ (p.rec = <<>> => p.index = 1)
  /\ p.shown <= Len(p.rec)
  /\ p.read # NoRead =>
       /\ p.read.kind = "frame" \/ (p.read.kind = "newest" /\ ~p.scanning)
       /\ p.read.frame \in 1..Len(p.rec) /\ p.read.doc = p.blobs[p.read.frame]

\* The document on screen, with late for a read that was overtaken.
ScreenInv(p, n, late) ==
  /\ p.screen \in {Other} \cup 0..n /\ p.pending <= n
  /\ p.live /\ p.shown # 0 /\ ~late => p.screen = p.blobs[p.shown]

PageInv(p, n, late) ==
  p \in Page /\ Newest(p.blobs, n) /\ RecordInv(p) /\ PointsInv(p) /\ ScreenInv(p, n, late)

Fits(p, bound) == p.live /\ ~p.scanning => Bytes(p.blobs) <= bound \/ Len(p.blobs) = 1

HistoryInv ==
  /\ limit \in Limits /\ arrived \in 0..MaxFrames /\ moves \in 0..MaxMoves
  /\ overtaken \in BOOLEAN
  /\ limit = 0 => ~page.live /\ page.blobs = <<>>
  /\ PageInv(page, arrived, overtaken) /\ Fits(page, limit)

------------------------------------------------------------------------------
\* Induction, for a set.
LEMMA Induction ==
  ASSUME NEW S, 0 \in S, \A n \in Nat : n \in S => n + 1 \in S
  PROVE  Nat \subseteq S
<1>1. SUFFICES ASSUME Nat \ S # {} PROVE FALSE
  OBVIOUS
<1>2. IsWellFoundedOn(OpToRel(<, Nat), Nat)
  BY NatLessThanWellFounded
<1>3. \E x \in Nat \ S : \A y \in Nat \ S : ~(y < x)
  <2>1. Nat \ S \subseteq Nat
    OBVIOUS
  <2>2. \E x \in Nat \ S : \A y \in Nat \ S : ~(<<y, x>> \in OpToRel(<, Nat))
    BY <1>1, <1>2, <2>1, WFMin
  <2> QED
    BY <2>2 DEF OpToRel
<1>4. PICK x \in Nat \ S : \A y \in Nat \ S : ~(y < x)
  BY <1>3
<1>5. x # 0 /\ x - 1 \in Nat /\ x - 1 < x
  OBVIOUS
<1>6. x - 1 \in S
  BY <1>4, <1>5
<1>7. (x - 1) + 1 \in S
  BY <1>5, <1>6
<1> QED
  BY <1>4, <1>7

\* A recursion that steps upwards to its end.
Climbs(f, last, stop, step) == f = [n \in 0..last |-> IF n \in stop THEN n ELSE f[step[n]]]

\* It ends where it stops.
LEMMA StepsUp ==
  ASSUME NEW last \in Nat, NEW stop, last \in stop, NEW step,
         \A n \in 0..last : n \notin stop => step[n] \in (n + 1)..last,
         NEW f, Climbs(f, last, stop, step)
  PROVE  \A n \in 0..last : f[n] \in n..last /\ f[n] \in stop
<1> USE DEF Climbs
<1> DEFINE S == {k \in Nat : \A n \in 0..last : last - n <= k => f[n] \in n..last /\ f[n] \in stop}
<1>1. 0 \in S
  OBVIOUS
<1>2. ASSUME NEW k \in Nat, k \in S PROVE k + 1 \in S
  <2> SUFFICES ASSUME NEW n \in 0..last, last - n <= k + 1
               PROVE  f[n] \in n..last /\ f[n] \in stop
    OBVIOUS
  <2>1. CASE n \in stop
    BY <2>1
  <2>2. CASE n \notin stop
    <3>1. step[n] \in (n + 1)..last /\ last - step[n] <= k /\ step[n] \in 0..last
      BY <2>2
    <3>2. f[step[n]] \in step[n]..last /\ f[step[n]] \in stop
      BY <1>2, <3>1
    <3>3. f[n] = f[step[n]]
      BY <2>2
    <3> QED
      BY <3>1, <3>2, <3>3
  <2> QED
    BY <2>1, <2>2
<1>3. Nat \subseteq S
  <2> HIDE DEF S
  <2> QED
    BY <1>1, <1>2, Induction
<1>4. last \in S
  BY <1>3
<1> QED
  BY <1>4

\* It is defined.
LEMMA StepsUpDefined ==
  ASSUME NEW last \in Nat, NEW stop, last \in stop, NEW step,
         \A n \in 0..last : n \notin stop => step[n] \in (n + 1)..last
  PROVE  \E f : Climbs(f, last, stop, step)
<1> DEFINE Def(f, k) == f = [n \in (last - k)..last |-> IF n \in stop THEN n ELSE f[step[n]]]
           S == {k \in Nat : k <= last => \E f : Def(f, k)}
<1>1. 0 \in S
  <2> DEFINE f == [n \in last..last |-> n]
  <2>1. Def(f, 0)
    OBVIOUS
  <2> QED
    BY <2>1
<1>2. ASSUME NEW k \in Nat, k \in S PROVE k + 1 \in S
  <2> SUFFICES ASSUME k + 1 <= last PROVE \E g : Def(g, k + 1)
    OBVIOUS
  <2>1. PICK f : Def(f, k)
    BY <1>2
  <2> DEFINE m == last - (k + 1)
             g == [n \in m..last |-> IF n = m THEN IF n \in stop THEN n ELSE f[step[n]]
                                     ELSE f[n]]
  <2>2. m \in 0..last /\ (last - k) = m + 1 /\ m..last = {m} \cup ((last - k)..last)
    OBVIOUS
  <2>3. \A n \in (last - k)..last : g[n] = f[n]
    BY <2>2
  <2>4. \A n \in m..last : n \notin stop => step[n] \in (last - k)..last
    BY <2>2
  <2>5. \A n \in m..last : g[n] = IF n \in stop THEN n ELSE g[step[n]]
    <3> TAKE n \in m..last
    <3>1. CASE n = m
      BY <2>2, <2>3, <2>4, <3>1
    <3>2. CASE n # m
      <4>1. n \in (last - k)..last /\ g[n] = f[n]
        BY <2>2, <2>3, <3>2
      <4>2. f[n] = IF n \in stop THEN n ELSE f[step[n]]
        BY <2>1, <4>1
      <4> QED
        BY <2>3, <2>4, <4>1, <4>2
    <3> QED
      BY <3>1, <3>2
  <2>6. Def(g, k + 1)
    <3>1. g = [n \in m..last |-> g[n]]
      OBVIOUS
    <3> HIDE DEF g
    <3> QED
      BY <2>5, <3>1
  <2> QED
    BY <2>6
<1>3. last \in S
  <2>1. Nat \subseteq S
    <3> HIDE DEF S
    <3> QED
      BY <1>1, <1>2, Induction
  <2> QED
    BY <2>1
<1>4. last - last = 0
  OBVIOUS
<1> QED
  BY <1>3, <1>4 DEF Climbs

------------------------------------------------------------------------------
\* The kept frames have a size.
LEMMA BytesType ==
  ASSUME NEW b \in Seq(1..MaxFrames)
  PROVE  Bytes(b) \in Nat
<1> DEFINE N == Len(b)
           Def(f, k) == f = [i \in 0..k |-> IF i = 0 THEN 0 ELSE f[i - 1] + Size(b[i])]
           Sum == CHOOSE f : Def(f, N)
           S == {k \in Nat : k <= N => \E f : Def(f, k) /\ \A i \in 0..k : f[i] \in Nat}
<1>1. N \in Nat /\ \A i \in 1..N : Size(b[i]) \in Nat
  BY ElementOfSeq, LenProperties, HistoryAssumption
<1>2. 0 \in S
  <2> DEFINE f == [i \in 0..0 |-> 0]
  <2>1. Def(f, 0) /\ \A i \in 0..0 : f[i] \in Nat
    OBVIOUS
  <2> QED
    BY <2>1
<1>3. ASSUME NEW k \in Nat, k \in S PROVE k + 1 \in S
  <2> SUFFICES ASSUME k + 1 <= N
               PROVE  \E g : Def(g, k + 1) /\ \A i \in 0..(k + 1) : g[i] \in Nat
    <3> HIDE DEF Def
    <3> QED
      OBVIOUS
  <2>1. PICK f : Def(f, k) /\ \A i \in 0..k : f[i] \in Nat
    BY <1>1, <1>3
  <2> DEFINE g == [i \in 0..(k + 1) |-> IF i = k + 1 THEN f[k] + Size(b[i]) ELSE f[i]]
  <2>2. \A i \in 0..k : g[i] = f[i] /\ f[i] = IF i = 0 THEN 0 ELSE f[i - 1] + Size(b[i])
    BY <2>1
  <2>3. \A i \in 0..(k + 1) : g[i] = IF i = 0 THEN 0 ELSE g[i - 1] + Size(b[i])
    <3> TAKE i \in 0..(k + 1)
    <3>1. CASE i = k + 1
      <4>1. g[k + 1] = f[k] + Size(b[k + 1]) /\ g[k] = f[k] /\ (k + 1) - 1 = k
        BY <2>2
      <4> QED
        BY <3>1, <4>1
    <3>2. CASE i \in 0..k
      <4>1. i # 0 => i - 1 \in 0..k
        BY <3>2
      <4> HIDE DEF g
      <4> QED
        BY <2>2, <3>2, <4>1
    <3> QED
      BY <3>1, <3>2
  <2>4. \A i \in 0..(k + 1) : g[i] \in Nat
    BY <1>1, <2>1
  <2>5. Def(g, k + 1)
    <3>1. g = [i \in 0..(k + 1) |-> g[i]]
      OBVIOUS
    <3> HIDE DEF g
    <3> QED
      BY <2>3, <3>1
  <2> QED
    BY <2>4, <2>5
<1>4. N \in S
  <2>1. Nat \subseteq S
    <3> HIDE DEF S
    <3> QED
      BY <1>2, <1>3, Induction
  <2> QED
    BY <1>1, <2>1
<1>5. \E f : Def(f, N) /\ \A i \in 0..N : f[i] \in Nat
  BY <1>1, <1>4
<1>6. Def(Sum, N)
  <2>1. \E f : Def(f, N)
    BY <1>5
  <2> HIDE DEF Def
  <2> QED
    BY <2>1, Zenon
<1>7. \A i \in 0..N : Sum[i] \in Nat
  <2> DEFINE T == {k \in Nat : k <= N => Sum[k] \in Nat}
  <2> HIDE DEF Sum
  <2>1. \A i \in 0..N : Sum[i] = IF i = 0 THEN 0 ELSE Sum[i - 1] + Size(b[i])
    BY <1>6
  <2>2. 0 \in T
    BY <1>1, <2>1
  <2>3. \A k \in Nat : k \in T => k + 1 \in T
    BY <1>1, <2>1
  <2>4. Nat \subseteq T
    <3> HIDE DEF T
    <3> QED
      BY <2>2, <2>3, Induction
  <2> QED
    BY <2>4
<1>8. Bytes(b) = Sum[N]
  BY Zenon DEF Bytes
<1> QED
  <2> HIDE DEF Sum
  <2> QED
    BY <1>1, <1>7, <1>8

\* What dropCount() leaves: at least the newest frame, and within the bound or only that one.
LEMMA DropCountSound ==
  ASSUME NEW b \in Seq(1..MaxFrames), Len(b) >= 1, limit \in Nat
  PROVE  /\ dropCount(b) \in 0..(Len(b) - 1)
         /\ Bytes(Drop(b, dropCount(b))) <= limit \/ dropCount(b) = Len(b) - 1
<1> DEFINE last == Len(b) - 1
           Left(n) == Bytes(SubSeq(b, n + 1, Len(b)))
           Part(n) == ((Len(b) - n) + Share - 1) \div Share
           Step(n) == IF Part(n) > last - n THEN last - n ELSE Part(n)
           Def(f) == f = [n \in 0..last |-> IF Left(n) > limit /\ n < last
                                            THEN f[n + Step(n)] ELSE n]
           Dropped == CHOOSE f : Def(f)
           stop == {n \in 0..last : ~(Left(n) > limit /\ n < last)}
           step == [n \in 0..last |-> n + Step(n)]
<1>1. Len(b) \in Nat /\ last \in Nat /\ last \in stop
  BY LenProperties
<1>2. \A n \in 0..last : Left(n) \in Nat
  <2>0. \A i \in 1..Len(b) : b[i] \in 1..MaxFrames
    BY ElementOfSeq
  <2> TAKE n \in 0..last
  <2>1. \A i \in (n + 1)..Len(b) : b[i] \in 1..MaxFrames
    BY <1>1, <2>0
  <2>2. SubSeq(b, n + 1, Len(b)) \in Seq(1..MaxFrames)
    BY <1>1, <2>1, SubSeqProperties
  <2> QED
    BY <2>2, BytesType
<1>3. \A n \in 0..last : n \notin stop => step[n] \in (n + 1)..last
  <2> SUFFICES ASSUME NEW n \in 0..last, n < last PROVE n + Step(n) \in (n + 1)..last
    BY <1>1
  <2>1. Share \in Nat /\ Share >= 1
    BY HistoryAssumption
  <2>2. Part(n) \in Nat /\ Part(n) >= 1
    <3> DEFINE x == Len(b) - n
    <3>1. x \in Nat /\ x >= 1
      BY <1>1
    <3> HIDE DEF x
    <3>2. (x + Share - 1) \div Share \in Nat /\ (x + Share - 1) \div Share >= 1
      BY <2>1, <3>1, Z3
    <3> QED
      BY <3>2 DEF x
  <2> HIDE DEF Part
  <2> QED
    BY <1>1, <2>2
<1>4. \A f : Def(f) <=> Climbs(f, last, stop, step)
  <2> SUFFICES ASSUME NEW f
               PROVE  [n \in 0..last |-> IF Left(n) > limit /\ n < last
                                         THEN f[n + Step(n)] ELSE n]
                      = [n \in 0..last |-> IF n \in stop THEN n ELSE f[step[n]]]
    BY Zenon DEF Climbs
  <2> HIDE DEF Left, Step
  <2> QED
    OBVIOUS
<1>5. Def(Dropped)
  <2>1. \E f : Climbs(f, last, stop, step)
    <3> HIDE DEF last, stop, step
    <3> QED
      BY <1>1, <1>3, StepsUpDefined
  <2>2. \E f : Def(f)
    <3> HIDE DEF Def, stop, step
    <3> QED
      BY <2>1, <1>4
  <2> HIDE DEF Def
  <2> QED
    BY <2>2, Zenon
<1>6. dropCount(b) = Dropped[0]
  BY Zenon DEF dropCount
<1>7. Dropped[0] \in 0..last /\ Dropped[0] \in stop
  <2> HIDE DEF Dropped
  <2>1. Climbs(Dropped, last, stop, step)
    BY <1>4, <1>5
  <2>2. 0 \in 0..last
    BY <1>1
  <2> HIDE DEF last, stop, step
  <2> QED
    BY <1>1, <1>3, <2>1, <2>2, StepsUp
<1> HIDE DEF Dropped
<1>8. Bytes(Drop(b, dropCount(b))) = Left(dropCount(b))
  BY DEF Drop
<1> QED
  <2> HIDE DEF Left
  <2> QED
    BY <1>1, <1>2, <1>6, <1>7, <1>8

------------------------------------------------------------------------------
\* What the functions of app.js assign, field by field.

SameFrames(p, q) ==
  /\ q.blobs = p.blobs /\ q.rec = p.rec /\ q.scan = p.scan
  /\ q.live = p.live /\ q.scanning = p.scanning

SameView(p, q) == q.screen = p.screen /\ q.shown = p.shown

Moved(p, i) == [p EXCEPT !.timer = 0, !.index = i]
MovedReading(p, i, r) == [p EXCEPT !.timer = 0, !.index = i, !.read = r]

LEMMA MoveFields ==
  ASSUME NEW p \in Page, NEW i, i \in Nat, NEW q, q = Moved(p, i)
  PROVE  /\ q \in Page /\ SameFrames(p, q) /\ SameView(p, q)
         /\ q.index = i /\ q.read = p.read
         /\ q.following = p.following /\ q.load = p.load
         /\ q.pending = p.pending /\ q.shownDropped = p.shownDropped
BY DEF Page, SameFrames, SameView, Moved

LEMMA MoveReadFields ==
  ASSUME NEW p \in Page, NEW i, i \in Nat, NEW r \in Read,
         NEW q, q = MovedReading(p, i, r)
  PROVE  /\ q \in Page /\ SameFrames(p, q) /\ SameView(p, q)
         /\ q.index = i /\ q.read = r
         /\ q.following = p.following /\ q.load = p.load
         /\ q.pending = p.pending /\ q.shownDropped = p.shownDropped
BY DEF Page, SameFrames, SameView, MovedReading

LEMMA NoReadType == NoRead \in Read /\ <<>> \in Seq(Nat)
BY EmptySeq DEF NoRead, Read

LEMMA NewestFields ==
  ASSUME NEW p \in Page, NEW doc, doc \in Int, NEW q, q = showNewest(p, doc)
  PROVE  /\ q \in Page /\ SameFrames(p, q) /\ q.screen = doc
         /\ q.index = Len(p.rec) /\ q.shown = Len(p.rec) /\ q.read = NoRead
         /\ q.load = p.load /\ q.pending = p.pending /\ q.following = p.following
         /\ q.shownDropped = p.shownDropped
<1>1. p.rec \in Seq(Nat)
  BY DEF Page
<1>2. Len(p.rec) \in Nat
  BY <1>1, LenProperties
<1>3. q \in Page
  <2> DEFINE a == [p EXCEPT !.read = NoRead, !.index = Len(p.rec)]
             b == [a EXCEPT !.shown = Len(p.rec), !.screen = doc]
  <2>1. q = b
    BY DEF showNewest
  <2>2. a \in Page
    BY <1>2, NoReadType DEF Page
  <2> HIDE DEF a
  <2>3. b \in Page
    BY <1>2, <2>2 DEF Page
  <2> QED
    BY <2>1, <2>3
<1>4. /\ SameFrames(p, q) /\ q.screen = doc
      /\ q.index = Len(p.rec) /\ q.shown = Len(p.rec) /\ q.read = NoRead
      /\ q.load = p.load /\ q.pending = p.pending /\ q.following = p.following
      /\ q.shownDropped = p.shownDropped
  BY DEF Page, SameFrames, showNewest
<1> QED
  BY <1>3, <1>4

LEMMA PauseFields ==
  ASSUME NEW p \in Page, NEW q, q = pauseLive(p)
  PROVE  /\ q \in Page /\ SameFrames(p, q) /\ SameView(p, q)
         /\ q.index = p.index /\ q.read = p.read /\ q.load = p.load /\ q.pending = p.pending
BY DEF Page, SameFrames, SameView, pauseLive

Followed(p) == [p EXCEPT !.following = TRUE, !.shownDropped = FALSE, !.timer = 0]
Showing(p, doc) == [p EXCEPT !.screen = doc, !.pending = 0]
Reading(p, r) == [p EXCEPT !.read = r]

LEMMA FollowedFields ==
  ASSUME NEW p \in Page, NEW q, q = Followed(p)
  PROVE  /\ q \in Page /\ SameFrames(p, q) /\ SameView(p, q)
         /\ q.index = p.index /\ q.read = p.read /\ q.load = p.load
         /\ q.pending = p.pending
BY DEF Page, SameFrames, SameView, Followed

LEMMA ShowingFields ==
  ASSUME NEW p \in Page, NEW doc, doc \in Int, NEW q, q = Showing(p, doc)
  PROVE  /\ q \in Page /\ SameFrames(p, q) /\ q.shown = p.shown /\ q.screen = doc
         /\ q.index = p.index /\ q.read = p.read /\ q.load = p.load /\ q.pending = 0
BY DEF Page, SameFrames, Showing

LEMMA ReadingFields ==
  ASSUME NEW p \in Page, NEW r \in Read, NEW q, q = Reading(p, r)
  PROVE  /\ q \in Page /\ SameFrames(p, q) /\ SameView(p, q)
         /\ q.index = p.index /\ q.read = r /\ q.load = p.load
         /\ q.pending = p.pending
BY DEF Page, SameFrames, SameView, Reading

LEMMA RescanFields ==
  ASSUME NEW p \in Page, NEW q, q = rescanLive(p)
  PROVE  /\ q \in Page /\ q.blobs = p.blobs /\ q.rec = p.rec /\ q.scan = <<>>
         /\ q.live = p.live /\ q.scanning = TRUE /\ q.load = FALSE /\ q.read = NoRead
         /\ SameView(p, q) /\ q.index = p.index /\ q.pending = p.pending
BY EmptySeq DEF Page, SameView, rescanLive, NoRead, Read

LEMMA StopFields ==
  ASSUME NEW p \in Page, NEW q, q = stopReplay(p)
  PROVE  /\ q \in Page /\ q.blobs = p.blobs /\ q.rec = <<>> /\ q.scan = <<>>
         /\ q.live = FALSE /\ q.scanning = FALSE /\ q.load = FALSE /\ q.read = NoRead
         /\ q.shown = 0 /\ q.index = 1 /\ q.screen = p.screen /\ q.pending = p.pending
<1>1. q \in Page
  <2> DEFINE a == [p EXCEPT !.live = FALSE, !.rec = <<>>, !.shown = 0]
             b == [a EXCEPT !.index = 1, !.scanning = FALSE, !.scan = <<>>]
             c == [b EXCEPT !.read = NoRead, !.load = FALSE, !.timer = 0]
  <2>1. q = c
    BY DEF stopReplay
  <2>2. a \in Page
    BY NoReadType DEF Page
  <2> HIDE DEF a
  <2>3. b \in Page
    BY <2>2, NoReadType DEF Page
  <2> HIDE DEF b
  <2>4. c \in Page
    BY <2>3, NoReadType DEF Page
  <2> QED
    BY <2>1, <2>4
<1>2. /\ q.blobs = p.blobs /\ q.rec = <<>> /\ q.scan = <<>>
      /\ q.live = FALSE /\ q.scanning = FALSE /\ q.load = FALSE /\ q.read = NoRead
      /\ q.shown = 0 /\ q.index = 1 /\ q.screen = p.screen /\ q.pending = p.pending
  BY DEF Page, stopReplay
<1> QED
  BY <1>1, <1>2

Live(p) == [p EXCEPT !.live = TRUE]
Loading(p, b) == [p EXCEPT !.load = b]
Kept(p, b) == [p EXCEPT !.blobs = b]
Recorded(p, b) == [p EXCEPT !.rec = b]
Scanned(p, b) == [p EXCEPT !.scan = b]
ScanEnded(p) == [p EXCEPT !.scanning = FALSE, !.rec = p.scan, !.scan = <<>>]
Unshown(p) == [p EXCEPT !.shown = 0]

LEMMA LiveFields ==
  ASSUME NEW p \in Page, NEW q, q = Live(p)
  PROVE  /\ q \in Page /\ q.blobs = p.blobs /\ q.rec = p.rec /\ q.scan = p.scan /\ q.live
         /\ q.scanning = p.scanning /\ q.load = p.load /\ q.read = p.read
         /\ SameView(p, q) /\ q.index = p.index /\ q.pending = p.pending
BY DEF Page, SameView, Live

LEMMA LoadingFields ==
  ASSUME NEW p \in Page, NEW b \in BOOLEAN, NEW q, q = Loading(p, b)
  PROVE  /\ q \in Page /\ SameFrames(p, q) /\ SameView(p, q) /\ q.load = b
         /\ q.read = p.read /\ q.index = p.index /\ q.pending = p.pending
BY DEF Page, SameFrames, SameView, Loading

LEMMA KeptFields ==
  ASSUME NEW p \in Page, NEW b \in Seq(Nat), NEW q, q = Kept(p, b)
  PROVE  /\ q \in Page /\ q.blobs = b /\ q.rec = p.rec /\ q.scan = p.scan
         /\ q.live = p.live /\ q.scanning = p.scanning /\ q.load = p.load /\ q.read = p.read
         /\ SameView(p, q) /\ q.index = p.index /\ q.pending = p.pending
         /\ q.following = p.following /\ q.shownDropped = p.shownDropped
BY DEF Page, SameView, Kept

LEMMA RecordedFields ==
  ASSUME NEW p \in Page, NEW b \in Seq(Nat), NEW q, q = Recorded(p, b)
  PROVE  /\ q \in Page /\ q.blobs = p.blobs /\ q.rec = b /\ q.scan = p.scan
         /\ q.live = p.live /\ q.scanning = p.scanning /\ q.load = p.load /\ q.read = p.read
         /\ SameView(p, q) /\ q.index = p.index /\ q.pending = p.pending
         /\ q.following = p.following /\ q.shownDropped = p.shownDropped
BY DEF Page, SameView, Recorded

LEMMA ScannedFields ==
  ASSUME NEW p \in Page, NEW b \in Seq(Nat), NEW q, q = Scanned(p, b)
  PROVE  /\ q \in Page /\ q.blobs = p.blobs /\ q.rec = p.rec /\ q.scan = b
         /\ q.live = p.live /\ q.scanning = p.scanning /\ q.load = p.load /\ q.read = p.read
         /\ SameView(p, q) /\ q.index = p.index /\ q.pending = p.pending
BY DEF Page, SameView, Scanned

LEMMA ScanEndedFields ==
  ASSUME NEW p \in Page, NEW q, q = ScanEnded(p)
  PROVE  /\ q \in Page /\ q.blobs = p.blobs /\ q.rec = p.scan /\ q.scan = <<>>
         /\ q.live = p.live /\ ~q.scanning /\ q.load = p.load /\ q.read = p.read
         /\ SameView(p, q) /\ q.index = p.index /\ q.pending = p.pending
BY NoReadType DEF Page, SameView, ScanEnded

LEMMA UnshownFields ==
  ASSUME NEW p \in Page, NEW q, q = Unshown(p)
  PROVE  /\ q \in Page /\ SameFrames(p, q) /\ q.screen = p.screen /\ q.shown = 0
         /\ q.index = p.index /\ q.read = p.read /\ q.load = p.load /\ q.pending = p.pending
BY DEF Page, SameFrames, Unshown

Painted(p, doc) == [p EXCEPT !.screen = doc]
Waiting(p, doc) == [p EXCEPT !.pending = doc]
Timed(p, i) == [p EXCEPT !.timer = i]
Painting(p, i, doc) ==
  [p EXCEPT !.read = NoRead, !.index = i, !.shown = i, !.screen = doc]

LEMMA PaintedFields ==
  ASSUME NEW p \in Page, NEW doc, doc \in Int, NEW q, q = Painted(p, doc)
  PROVE  /\ q \in Page /\ SameFrames(p, q) /\ q.screen = doc /\ q.shown = p.shown
         /\ q.index = p.index /\ q.read = p.read /\ q.load = p.load /\ q.pending = p.pending
BY DEF Page, SameFrames, Painted

LEMMA WaitingFields ==
  ASSUME NEW p \in Page, NEW doc, doc \in Nat, NEW q, q = Waiting(p, doc)
  PROVE  /\ q \in Page /\ SameFrames(p, q) /\ SameView(p, q) /\ q.pending = doc
         /\ q.index = p.index /\ q.read = p.read /\ q.load = p.load
BY DEF Page, SameFrames, SameView, Waiting

LEMMA TimedFields ==
  ASSUME NEW p \in Page, NEW i, i \in Nat, NEW q, q = Timed(p, i)
  PROVE  /\ q \in Page /\ SameFrames(p, q) /\ SameView(p, q) /\ q.pending = p.pending
         /\ q.index = p.index /\ q.read = p.read /\ q.load = p.load
BY DEF Page, SameFrames, SameView, Timed

LEMMA PaintingFields ==
  ASSUME NEW p \in Page, NEW i, i \in Nat, NEW doc, doc \in Int, NEW q, q = Painting(p, i, doc)
  PROVE  /\ q \in Page /\ SameFrames(p, q) /\ q.screen = doc /\ q.shown = i
         /\ q.index = i /\ q.read = NoRead /\ q.load = p.load /\ q.pending = p.pending
<1>1. q \in Page
  <2> DEFINE a == [p EXCEPT !.read = NoRead, !.index = i]
             b == [a EXCEPT !.shown = i, !.screen = doc]
  <2>1. q = b
    BY DEF Painting
  <2>2. a \in Page
    BY NoReadType DEF Page
  <2> HIDE DEF a
  <2>3. b \in Page
    BY <2>2 DEF Page
  <2> QED
    BY <2>1, <2>3
<1>2. /\ SameFrames(p, q) /\ q.screen = doc /\ q.shown = i
      /\ q.index = i /\ q.read = NoRead /\ q.load = p.load /\ q.pending = p.pending
  BY DEF Page, SameFrames, Painting
<1> QED
  BY <1>1, <1>2

Trimmed(p, k) ==
  [p EXCEPT !.rec = dropFrames(@, k), !.blobs = Drop(@, k), !.read = NoRead,
            !.index = shiftIndex(@, k),
            !.shown = IF @ <= k THEN 0 ELSE shiftIndex(@, k),
            !.shownDropped = @ \/ PausedGone(p, k)]

LEMMA TrimmedFields ==
  ASSUME NEW p \in Page, NEW k, k \in Nat, NEW q, q = Trimmed(p, k),
         Drop(p.rec, k) \in Seq(Nat), Drop(p.blobs, k) \in Seq(Nat)
  PROVE  /\ q \in Page /\ q.blobs = Drop(p.blobs, k) /\ q.rec = Drop(p.rec, k)
         /\ q.scan = p.scan /\ q.live = p.live /\ q.scanning = p.scanning
         /\ q.load = p.load /\ q.pending = p.pending /\ q.following = p.following
         /\ q.screen = p.screen /\ q.read = NoRead
         /\ q.index = (IF p.index <= k THEN 1 ELSE p.index - k)
         /\ q.shown = (IF p.shown <= k THEN 0 ELSE p.shown - k)
         /\ p.index <= k /\ ~p.following => q.shownDropped
<1> DEFINE index == shiftIndex(p.index, k)
           shown == IF p.shown <= k THEN 0 ELSE shiftIndex(p.shown, k)
           gone == p.shownDropped \/ PausedGone(p, k)
           rec == dropFrames(p.rec, k)
           blobs == Drop(p.blobs, k)
           a == [p EXCEPT !.rec = rec, !.blobs = blobs, !.read = NoRead]
           b == [a EXCEPT !.index = index, !.shown = shown, !.shownDropped = gone]
<1>1. /\ index = (IF p.index <= k THEN 1 ELSE p.index - k)
      /\ shown = (IF p.shown <= k THEN 0 ELSE p.shown - k)
      /\ index \in Nat /\ shown \in Nat
  BY DEF shiftIndex, Page
<1>2. gone \in BOOLEAN /\ (p.index <= k /\ ~p.following => gone)
  BY DEF PausedGone, Page
<1>3. rec = Drop(p.rec, k) /\ rec \in Seq(Nat)
  BY DEF dropFrames
<1> HIDE DEF index, shown, gone, rec, blobs
<1>4. q = b
  BY DEF Trimmed, Page, index, shown, gone, rec, blobs
<1>5. /\ a \in Page /\ a.rec = rec /\ a.blobs = blobs /\ a.read = NoRead
      /\ a.scan = p.scan /\ a.live = p.live /\ a.scanning = p.scanning
      /\ a.load = p.load /\ a.pending = p.pending /\ a.following = p.following
      /\ a.screen = p.screen
  BY <1>3, NoReadType DEF Page, blobs
<1> HIDE DEF a
<1>6. /\ b \in Page /\ b.rec = a.rec /\ b.blobs = a.blobs /\ b.read = a.read
      /\ b.scan = a.scan /\ b.live = a.live /\ b.scanning = a.scanning
      /\ b.load = a.load /\ b.pending = a.pending /\ b.following = a.following
      /\ b.screen = a.screen /\ b.index = index /\ b.shown = shown /\ b.shownDropped = gone
  BY <1>1, <1>2, <1>5 DEF Page
<1> HIDE DEF b
<1> QED
  BY <1>1, <1>2, <1>3, <1>4, <1>5, <1>6 DEF blobs

------------------------------------------------------------------------------
\* The frames of a page in numbers.
LEMMA PageFacts ==
  ASSUME NEW n \in 0..MaxFrames, NEW late, NEW p, PageInv(p, n, late)
  PROVE  /\ p.blobs \in Seq(1..MaxFrames) /\ Len(p.blobs) \in Nat /\ Len(p.rec) \in Nat
         /\ \A i \in 1..Len(p.blobs) : p.blobs[i] \in 1..n
         /\ Len(p.rec) <= Len(p.blobs)
<1> DEFINE b == p.blobs
<1>1. MaxFrames \in Nat /\ n \in Nat /\ n <= MaxFrames
  BY HistoryAssumption
<1>2. b \in Seq(Nat) /\ p.rec \in Seq(Nat)
  BY DEF PageInv, Page
<1>3. Len(b) \in Nat /\ Len(p.rec) \in Nat
  BY <1>2, LenProperties
<1>4. Newest(b, n)
  BY DEF PageInv
<1>5. Len(p.rec) <= Len(b)
  <2>1. CASE ~p.live
    BY <1>3, <2>1, EmptySeq DEF PageInv, RecordInv
  <2>2. CASE p.live
    BY <1>3, <2>2 DEF PageInv, RecordInv, Begins
  <2> QED
    BY <2>1, <2>2
<1> HIDE DEF b
<1>6. \A i \in 1..Len(b) : b[i] \in 1..n
  BY <1>1, <1>3, <1>4 DEF Newest
<1>7. b \in Seq(1..MaxFrames)
  <2>1. \A i \in 1..Len(b) : b[i] \in 1..MaxFrames
    BY <1>1, <1>6
  <2>2. b \in [1..Len(b) -> 1..MaxFrames]
    BY <1>2, <2>1, LenProperties
  <2> QED
    BY <1>3, <2>2, SeqDef
<1> QED
  BY <1>3, <1>5, <1>6, <1>7 DEF b

\* Dropping the oldest frames.
LEMMA DropFrames ==
  ASSUME NEW n \in Nat, NEW b \in Seq(Nat), Newest(b, n), NEW k \in 0..(Len(b) - 1)
  PROVE  /\ Drop(b, k) \in Seq(Nat) /\ Newest(Drop(b, k), n) /\ Drop(b, k) # <<>>
         /\ Len(Drop(b, k)) = Len(b) - k
         /\ \A i \in (k + 1)..Len(b) : Drop(b, k)[i - k] = b[i]
<1> DEFINE d == SubSeq(b, k + 1, Len(b))
<1>1. Len(b) \in Nat /\ \A i \in 1..Len(b) : b[i] \in Nat
  BY LenProperties, ElementOfSeq
<1>2. /\ d \in Seq(Nat) /\ Len(d) = Len(b) - k
      /\ \A i \in 1..(Len(b) - k) : d[i] = b[k + i]
  <2>1. \A i \in (k + 1)..Len(b) : b[i] \in Nat
    BY <1>1
  <2>2. /\ d \in Seq(Nat)
        /\ Len(d) = IF k + 1 <= Len(b) THEN Len(b) - (k + 1) + 1 ELSE 0
        /\ \A i \in 1..(Len(b) - (k + 1) + 1) : d[i] = b[(k + 1) + i - 1]
    BY <1>1, <2>1, SubSeqProperties
  <2> QED
    BY <1>1, <2>2
<1> HIDE DEF d
<1>3. \A i \in (k + 1)..Len(b) : d[i - k] = b[i]
  <2> TAKE i \in (k + 1)..Len(b)
  <2>1. i - k \in 1..(Len(b) - k) /\ k + (i - k) = i
    BY <1>1
  <2> QED
    BY <1>2, <2>1
<1>4. Newest(d, n)
  <2>1. Len(b) <= n /\ \A i \in 1..Len(b) : b[i] = n - Len(b) + i
    BY DEF Newest
  <2>2. \A i \in 1..(Len(b) - k) : k + i \in 1..Len(b)
    BY <1>1
  <2>3. \A i \in 1..Len(d) : d[i] = n - Len(d) + i
    BY <1>1, <1>2, <2>1, <2>2
  <2> QED
    BY <1>1, <1>2, <2>1, <2>3 DEF Newest
<1>5. d # <<>>
  BY <1>1, <1>2, EmptySeq
<1>6. Drop(b, k) = d
  BY DEF Drop, d
<1> QED
  BY <1>2, <1>3, <1>4, <1>5, <1>6

\* showFrame() leaves the frames and the screen alone.
LEMMA ShowFrame ==
  ASSUME NEW n \in 0..MaxFrames, NEW late, NEW p, PageInv(p, n, late), NEW i,
         NEW q, q = showFrame(p, i)
  PROVE  /\ PageInv(q, n, late)
         /\ q.blobs = p.blobs /\ q.live = p.live /\ q.scanning = p.scanning
         /\ q.rec = p.rec /\ q.scan = p.scan
         /\ q.following = p.following /\ q.screen = p.screen /\ q.shown = p.shown
         /\ q.shownDropped = p.shownDropped
         /\ q.index = IF i \in 1..Len(p.rec) THEN i ELSE p.index
<1>1. CASE i \notin 1..Len(p.rec)
  BY <1>1 DEF showFrame
<1>2. CASE i \in 1..Len(p.rec)
  <2>1. /\ Len(p.blobs) \in Nat /\ Len(p.rec) \in Nat /\ Len(p.rec) <= Len(p.blobs)
        /\ p.blobs[i] \in Nat
    BY <1>2, PageFacts
  <2>2. p \in Page
    BY DEF PageInv
  <2>3. /\ q \in Page
        /\ q.blobs = p.blobs /\ q.live = p.live /\ q.scanning = p.scanning
        /\ q.following = p.following /\ q.screen = p.screen /\ q.shown = p.shown
        /\ q.shownDropped = p.shownDropped /\ q.index = i
        /\ q.rec = p.rec /\ q.scan = p.scan /\ q.load = p.load /\ q.pending = p.pending
        /\ q.read = p.read \/ q.read = [kind |-> "frame", frame |-> i, doc |-> p.blobs[i]]
    <3> DEFINE r == [kind |-> "frame", frame |-> i, doc |-> p.blobs[i]]
    <3>1. i \in Nat /\ r \in Read
      BY <1>2, <2>1 DEF Read
    <3>2. CASE i = p.shown
      <4>1. q = Moved(p, i)
        BY <1>2, <3>2 DEF showFrame, Moved
      <4> QED
        BY <2>2, <3>1, <4>1, MoveFields DEF SameFrames, SameView
    <3>3. CASE i # p.shown
      <4>1. q = MovedReading(p, i, r)
        BY <1>2, <2>2, <3>3 DEF showFrame, Page, MovedReading
      <4> HIDE DEF r
      <4>2. /\ q \in Page
            /\ q.blobs = p.blobs /\ q.live = p.live /\ q.scanning = p.scanning
            /\ q.following = p.following /\ q.screen = p.screen /\ q.shown = p.shown
            /\ q.shownDropped = p.shownDropped /\ q.index = i
            /\ q.rec = p.rec /\ q.scan = p.scan /\ q.load = p.load /\ q.pending = p.pending
            /\ q.read = r
        BY <2>2, <3>1, <4>1, MoveReadFields DEF SameFrames, SameView
      <4> QED
        BY <4>2 DEF r
    <3> QED
      BY <3>2, <3>3
  <2>4. RecordInv(q) /\ Newest(q.blobs, n) /\ ScreenInv(q, n, late)
    BY <2>3 DEF PageInv, RecordInv, ScreenInv
  <2>5. PointsInv(q)
    BY <1>2, <2>1, <2>3 DEF PageInv, PointsInv
  <2> QED
    BY <1>2, <2>3, <2>4, <2>5 DEF PageInv
<1> QED
  BY <1>1, <1>2

\* The oldest k frames are dropped.
LEMMA TrimmedSound ==
  ASSUME NEW n \in 0..MaxFrames, NEW late, NEW p, PageInv(p, n, late), p.live, ~p.scanning,
         NEW k, k \in 0..(Len(p.blobs) - 1), NEW q, q = Trimmed(p, k)
  PROVE  /\ PageInv(q, n, late) /\ q.live /\ ~q.scanning
         /\ q.blobs = Drop(p.blobs, k) /\ Len(q.blobs) = Len(p.blobs) - k
         /\ q.following = p.following /\ q.screen = p.screen
         /\ \/ q.blobs[q.index] = p.blobs[p.index]
            \/ q.index = 1 /\ (~p.following => q.shownDropped)
<1> DEFINE b == p.blobs
<1>1. p \in Page /\ p.rec = b /\ p.scan = <<>> /\ ~p.load /\ n \in Nat /\ Newest(b, n)
  BY HistoryAssumption DEF PageInv, RecordInv
<1>2. b \in Seq(Nat) /\ Len(b) \in Nat /\ k \in Nat /\ k <= Len(b) - 1 /\ b # <<>>
  <2>1. b \in Seq(Nat)
    BY <1>1 DEF Page
  <2> QED
    BY <2>1, LenProperties DEF PageInv, RecordInv
<1>3. /\ p.index \in Nat /\ p.index >= 1 /\ p.index <= Len(b)
      /\ p.shown \in Nat /\ p.shown <= Len(b)
  BY <1>1, <1>2 DEF PageInv, PointsInv, Page
<1> DEFINE d == Drop(b, k)
<1>4. /\ d \in Seq(Nat) /\ Newest(d, n) /\ d # <<>>
      /\ Len(d) = Len(b) - k
      /\ \A i \in (k + 1)..Len(b) : d[i - k] = b[i]
  BY <1>1, <1>2, DropFrames
<1> HIDE DEF d
<1>5. /\ q \in Page /\ q.blobs = d /\ q.rec = d
      /\ q.scan = p.scan /\ q.live = p.live /\ q.scanning = p.scanning
      /\ q.load = p.load /\ q.pending = p.pending /\ q.following = p.following
      /\ q.screen = p.screen /\ q.read = NoRead
      /\ q.index = (IF p.index <= k THEN 1 ELSE p.index - k)
      /\ q.shown = (IF p.shown <= k THEN 0 ELSE p.shown - k)
      /\ p.index <= k /\ ~p.following => q.shownDropped
  <2>1. Drop(p.rec, k) = d /\ Drop(p.blobs, k) = d
    BY <1>1 DEF d
  <2>2. /\ p \in Page /\ k \in Nat /\ q = Trimmed(p, k)
        /\ Drop(p.rec, k) \in Seq(Nat) /\ Drop(p.blobs, k) \in Seq(Nat)
    BY <1>1, <1>2, <1>4, <2>1
  <2>3. /\ q \in Page /\ q.blobs = Drop(p.blobs, k) /\ q.rec = Drop(p.rec, k)
        /\ q.scan = p.scan /\ q.live = p.live /\ q.scanning = p.scanning
        /\ q.load = p.load /\ q.pending = p.pending /\ q.following = p.following
        /\ q.screen = p.screen /\ q.read = NoRead
        /\ q.index = (IF p.index <= k THEN 1 ELSE p.index - k)
        /\ q.shown = (IF p.shown <= k THEN 0 ELSE p.shown - k)
        /\ p.index <= k /\ ~p.following => q.shownDropped
    BY <2>2, TrimmedFields, Zenon
  <2> QED
    BY <2>1, <2>3
<1>6. RecordInv(q)
  BY <1>1, <1>4, <1>5 DEF RecordInv
<1>7. PointsInv(q)
  <2>1. q.index >= 1 /\ q.index <= Len(d) /\ q.shown <= Len(d)
    <3> DEFINE x == p.index
               y == p.shown
               N == Len(b)
    <3>1. /\ x \in Nat /\ x >= 1 /\ x <= N /\ y \in Nat /\ y <= N /\ N \in Nat
          /\ k \in Nat /\ k <= N - 1
          /\ q.index = (IF x <= k THEN 1 ELSE x - k) /\ q.shown = (IF y <= k THEN 0 ELSE y - k)
          /\ Len(d) = N - k
      BY <1>2, <1>3, <1>4, <1>5
    <3> HIDE DEF x, y, N
    <3> QED
      BY <3>1
  <2> QED
    BY <1>4, <1>5, <2>1 DEF PointsInv
<1>8. ScreenInv(q, n, late)
  <2>1. CASE p.shown <= k
    BY <1>5, <2>1 DEF PageInv, ScreenInv
  <2>2. CASE p.shown > k
    <3>1. q.shown = p.shown - k /\ p.shown \in (k + 1)..Len(b) /\ p.shown # 0
      BY <1>2, <1>3, <1>5, <2>2
    <3>2. q.blobs[q.shown] = b[p.shown]
      BY <1>4, <1>5, <3>1
    <3> QED
      BY <1>5, <3>1, <3>2 DEF PageInv, ScreenInv
  <2> QED
    BY <1>2, <1>3, <2>1, <2>2
<1>9. \/ q.blobs[q.index] = b[p.index]
      \/ q.index = 1 /\ (~p.following => q.shownDropped)
  <2>1. CASE p.index <= k
    BY <1>5, <2>1
  <2>2. CASE p.index > k
    <3>1. q.index = p.index - k /\ p.index \in (k + 1)..Len(b)
      BY <1>2, <1>3, <1>5, <2>2
    <3> QED
      BY <1>4, <1>5, <3>1
  <2> QED
    BY <1>2, <1>3, <2>1, <2>2
<1> QED
  BY <1>4, <1>5, <1>6, <1>7, <1>8, <1>9 DEF PageInv, d

\* trimHistory() keeps within the bound, and the timeline where it was.
LEMMA TrimHistory ==
  ASSUME NEW n \in 0..MaxFrames, NEW late, NEW p, PageInv(p, n, late), p.live, ~p.scanning,
         limit \in Nat, NEW q, q = trimHistory(p)
  PROVE  /\ PageInv(q, n, late) /\ q.live /\ ~q.scanning
         /\ Bytes(q.blobs) <= limit \/ Len(q.blobs) = 1
         /\ q.following = p.following /\ q.screen = p.screen
         /\ \/ q.blobs[q.index] = p.blobs[p.index]
            \/ q.index = 1 /\ (~p.following => q.shownDropped)
<1> DEFINE k == dropCount(p.blobs)
           r == Trimmed(p, k)
           Shown(x) == IF p.following \/ x.shown = x.index THEN x ELSE showFrame(x, x.index)
<1>1. p.blobs \in Seq(1..MaxFrames) /\ Len(p.blobs) \in Nat /\ Len(p.blobs) >= 1
  <2>1. p.blobs # <<>> /\ p.blobs \in Seq(1..MaxFrames) /\ Len(p.blobs) \in Nat
    BY PageFacts DEF PageInv, RecordInv
  <2> QED
    BY <2>1, EmptySeq, LenProperties
<1>2. /\ k \in 0..(Len(p.blobs) - 1)
      /\ Bytes(Drop(p.blobs, k)) <= limit \/ k = Len(p.blobs) - 1
  BY <1>1, DropCountSound
<1>3. CASE Bytes(p.blobs) <= limit
  BY <1>3 DEF trimHistory
<1>4. CASE ~(Bytes(p.blobs) <= limit) /\ k = 0
  <2>1. q = p
    BY <1>4 DEF trimHistory
  <2>2. Drop(p.blobs, 0) = p.blobs
    <3>1. 0 + 1 = 1
      OBVIOUS
    <3> QED
      BY <1>1, <3>1, SubSeqFull DEF Drop
  <2>3. Len(p.blobs) = 1
    BY <1>1, <1>2, <1>4, <2>2
  <2> QED
    BY <2>1, <2>3
<1>5. CASE ~(Bytes(p.blobs) <= limit) /\ k # 0
  <2>1. q = With(r, Shown)
    BY <1>5, Zenon DEF trimHistory, Trimmed
  <2>2. q = Shown(r)
    BY <2>1, Zenon DEF With
  <2> HIDE DEF k
  <2>3. /\ PageInv(r, n, late) /\ r.live /\ ~r.scanning
        /\ r.blobs = Drop(p.blobs, k) /\ Len(r.blobs) = Len(p.blobs) - k
        /\ r.following = p.following /\ r.screen = p.screen
        /\ \/ r.blobs[r.index] = p.blobs[p.index]
           \/ r.index = 1 /\ (~p.following => r.shownDropped)
    BY <1>2, TrimmedSound
  <2>4. Bytes(r.blobs) <= limit \/ Len(r.blobs) = 1
    BY <1>1, <1>2, <2>3
  <2>5. /\ PageInv(q, n, late)
        /\ q.blobs = r.blobs /\ q.live = r.live /\ q.scanning = r.scanning
        /\ q.following = r.following /\ q.screen = r.screen
        /\ q.shownDropped = r.shownDropped /\ q.index = r.index
    <3> HIDE DEF r
    <3>1. CASE q = r
      BY <2>3, <3>1
    <3>2. CASE q = showFrame(r, r.index)
      <4>1. PageInv(r, n, late)
        BY <2>3
      <4>2. /\ PageInv(q, n, late)
            /\ q.blobs = r.blobs /\ q.live = r.live /\ q.scanning = r.scanning
            /\ q.following = r.following /\ q.screen = r.screen
            /\ q.shownDropped = r.shownDropped
            /\ q.index = IF r.index \in 1..Len(r.rec) THEN r.index ELSE r.index
        BY <3>2, <4>1, ShowFrame
      <4> QED
        BY <4>2
    <3> QED
      BY <2>2, <3>1, <3>2
  <2> HIDE DEF r
  <2> QED
    BY <2>3, <2>4, <2>5
<1> QED
  BY <1>3, <1>4, <1>5

------------------------------------------------------------------------------
\* A page that differs in nothing the invariant is about.
LEMMA SamePage ==
  ASSUME NEW n, NEW late, NEW p, PageInv(p, n, late),
         NEW q \in Page, SameFrames(p, q), SameView(p, q), q.index = p.index, q.read = p.read,
         q.load = p.load, q.pending = p.pending
  PROVE  PageInv(q, n, late)
<1>1. RecordInv(q) /\ Newest(q.blobs, n)
  BY DEF PageInv, RecordInv, SameFrames
<1>2. PointsInv(q)
  BY DEF PageInv, PointsInv, SameFrames, SameView
<1>3. ScreenInv(q, n, late)
  BY DEF PageInv, ScreenInv, SameFrames, SameView
<1> QED
  BY <1>1, <1>2, <1>3 DEF PageInv

\* Pause.
LEMMA PauseLive ==
  ASSUME NEW n, NEW late, NEW p, PageInv(p, n, late), NEW q, q = pauseLive(p)
  PROVE  PageInv(q, n, late) /\ SameFrames(p, q) /\ SameView(p, q)
<1>1. p \in Page
  BY DEF PageInv
<1> QED
  BY <1>1, PauseFields, SamePage

\* Resume: the newest frame is read, or what came meanwhile is shown where there is no history.
LEMMA ResumeLive ==
  ASSUME NEW n \in 0..MaxFrames, NEW late, NEW p, PageInv(p, n, late), NEW q, q = resumeLive(p)
  PROVE  PageInv(q, n, late) /\ SameFrames(p, q) /\ (p.live => SameView(p, q))
<1> DEFINE f == Followed(p)
<1>1. p \in Page
  BY DEF PageInv
<1>2. /\ f \in Page /\ SameFrames(p, f) /\ SameView(p, f)
      /\ f.index = p.index /\ f.read = p.read /\ f.load = p.load /\ f.pending = p.pending
  BY <1>1, FollowedFields
<1>3. PageInv(f, n, late)
  <2> HIDE DEF f
  <2> QED
    BY <1>2, SamePage
<1>4. CASE q = f
  BY <1>2, <1>3, <1>4
<1>5. CASE ~p.live /\ q = Showing(f, p.pending)
  <2> HIDE DEF f
  <2>1. p.pending \in Nat /\ p.pending <= n /\ n \in Nat
    BY <1>1, HistoryAssumption DEF Page, PageInv, ScreenInv
  <2>2. /\ q \in Page /\ SameFrames(f, q) /\ q.shown = f.shown /\ q.screen = p.pending
        /\ q.index = f.index /\ q.read = f.read /\ q.load = f.load /\ q.pending = 0
    <3>1. p.pending \in Int
      BY <2>1
    <3> QED
      BY <1>2, <1>5, <3>1, ShowingFields
  <2>3. RecordInv(q) /\ Newest(q.blobs, n)
    BY <1>3, <2>2 DEF PageInv, RecordInv, SameFrames
  <2>4. PointsInv(q)
    BY <1>3, <2>2 DEF PageInv, PointsInv, SameFrames
  <2>5. ~q.live
    BY <1>2, <1>5, <2>2 DEF SameFrames
  <2>6. ScreenInv(q, n, late)
    BY <2>1, <2>2, <2>5 DEF ScreenInv
  <2>7. SameFrames(p, q)
    BY <1>2, <2>2 DEF SameFrames
  <2> QED
    BY <1>5, <2>2, <2>3, <2>4, <2>6, <2>7 DEF PageInv
<1>6. CASE /\ p.live /\ ~p.scanning /\ Len(p.rec) # 0
           /\ q = Reading(f, [kind |-> "newest", frame |-> Len(p.rec), doc |-> p.blobs[Len(p.rec)]])
  <2> HIDE DEF f
  <2> DEFINE r == [kind |-> "newest", frame |-> Len(p.rec), doc |-> p.blobs[Len(p.rec)]]
  <2>1. Len(p.rec) \in Nat /\ Len(p.rec) \in 1..Len(p.blobs) /\ p.blobs[Len(p.rec)] \in Nat
    BY <1>6, PageFacts
  <2>2. r \in Read /\ r.kind = "newest" /\ r.frame = Len(p.rec) /\ r.doc = p.blobs[Len(p.rec)]
    BY <2>1 DEF Read
  <2> HIDE DEF r
  <2>3. /\ q \in Page /\ SameFrames(f, q) /\ SameView(f, q)
        /\ q.index = f.index /\ q.read = r /\ q.load = f.load /\ q.pending = f.pending
    <3>1. q = Reading(f, r)
      BY <1>6 DEF r
    <3> QED
      BY <1>2, <2>2, <3>1, ReadingFields
  <2>4. RecordInv(q) /\ Newest(q.blobs, n)
    BY <1>3, <2>3 DEF PageInv, RecordInv, SameFrames
  <2>5. PointsInv(q)
    <3>1. /\ q.index >= 1 /\ (q.rec # <<>> => q.index <= Len(q.rec)) /\ q.shown <= Len(q.rec)
          /\ q.rec = <<>> => q.index = 1
      BY <1>3, <2>3 DEF PageInv, PointsInv, SameFrames, SameView
    <3>2. q.rec = p.rec /\ q.blobs = p.blobs /\ ~q.scanning
      BY <1>2, <1>6, <2>3 DEF SameFrames
    <3> QED
      BY <2>1, <2>2, <2>3, <3>1, <3>2 DEF PointsInv
  <2>6. ScreenInv(q, n, late)
    BY <1>3, <2>3 DEF PageInv, ScreenInv, SameFrames, SameView
  <2>7. SameFrames(p, q) /\ SameView(p, q)
    BY <1>2, <2>3 DEF SameFrames, SameView
  <2> QED
    BY <2>3, <2>4, <2>5, <2>6, <2>7 DEF PageInv
<1> QED
  <2>1. \/ q = f
        \/ ~p.live /\ q = Showing(f, p.pending)
        \/ /\ p.live /\ ~p.scanning /\ Len(p.rec) # 0
           /\ q = Reading(f, [kind |-> "newest", frame |-> Len(p.rec),
                              doc |-> p.blobs[Len(p.rec)]])
    BY DEF resumeLive, Followed, Showing, Reading
  <2> QED
    BY <1>4, <1>5, <1>6, <2>1

\* A frame more in the kept ones: the newest, behind those there were.
More(b, n) == Append(b, n + 1)
LEMMA OneMore ==
  ASSUME NEW n, n \in Nat, NEW b \in Seq(Nat), Newest(b, n), NEW c, c = More(b, n)
  PROVE  /\ c \in Seq(Nat) /\ c # <<>> /\ Newest(c, n + 1) /\ Begins(b, c)
         /\ Len(c) = Len(b) + 1 /\ c[Len(c)] = n + 1
<1>1. /\ Len(b) \in Nat /\ c \in Seq(Nat) /\ c # <<>> /\ Len(c) = Len(b) + 1
      /\ \A i \in 1..Len(b) : c[i] = b[i]
      /\ c[Len(b) + 1] = n + 1
  BY AppendProperties, LenProperties DEF More
<1>2. Len(b) <= n /\ \A i \in 1..Len(b) : b[i] = n - Len(b) + i
  BY DEF Newest
<1>3. \A i \in 1..Len(c) : c[i] = (n + 1) - Len(c) + i
  <2> TAKE i \in 1..Len(c)
  <2>1. CASE i \in 1..Len(b)
    BY <1>1, <1>2, <2>1
  <2>2. CASE i = Len(b) + 1
    BY <1>1, <2>2
  <2> QED
    BY <1>1, <2>1, <2>2
<1> QED
  BY <1>1, <1>2, <1>3 DEF Newest, Begins

\* What begins the kept frames still does when there are more.
LEMMA BeginsMore ==
  ASSUME NEW s \in Seq(Nat), NEW b \in Seq(Nat), NEW c \in Seq(Nat), Begins(s, b), Begins(b, c)
  PROVE  Begins(s, c)
<1>1. Len(s) \in Nat /\ Len(b) \in Nat /\ Len(c) \in Nat
  BY LenProperties
<1>2. /\ Len(s) <= Len(b) /\ \A i \in 1..Len(s) : s[i] = b[i]
      /\ Len(b) <= Len(c) /\ \A i \in 1..Len(b) : b[i] = c[i]
  BY DEF Begins
<1>3. Len(s) <= Len(c)
  BY <1>1, <1>2
<1>4. \A i \in 1..Len(s) : s[i] = c[i]
  <2> TAKE i \in 1..Len(s)
  <2>1. i \in 1..Len(b)
    BY <1>1, <1>2
  <2> QED
    BY <1>2, <2>1
<1> QED
  BY <1>3, <1>4 DEF Begins

\* A page with another frame kept, not recorded yet.
LEMMA FrameKept ==
  ASSUME NEW n \in 0..MaxFrames, NEW late, NEW p, PageInv(p, n, late),
         NEW c, c = More(p.blobs, n), NEW q, q = Kept(p, c)
  PROVE  /\ q \in Page /\ q.blobs = c /\ c \in Seq(Nat) /\ c # <<>> /\ Newest(c, n + 1)
         /\ Begins(p.blobs, c) /\ Len(c) = Len(p.blobs) + 1 /\ c[Len(c)] = n + 1
         /\ q.rec = p.rec /\ q.scan = p.scan
         /\ q.live = p.live /\ q.scanning = p.scanning /\ q.load = p.load /\ q.read = p.read
         /\ SameView(p, q) /\ q.index = p.index /\ q.pending = p.pending
         /\ q.following = p.following /\ q.shownDropped = p.shownDropped
         /\ PointsInv(q) /\ ScreenInv(q, n + 1, late)
<1>1. n \in Nat /\ p \in Page /\ p.blobs \in Seq(Nat) /\ Newest(p.blobs, n)
  BY HistoryAssumption DEF PageInv, Page
<1>2. /\ c \in Seq(Nat) /\ c # <<>> /\ Newest(c, n + 1) /\ Begins(p.blobs, c)
      /\ Len(c) = Len(p.blobs) + 1 /\ c[Len(c)] = n + 1
  BY <1>1, OneMore
<1>3. /\ q \in Page /\ q.blobs = c /\ q.rec = p.rec /\ q.scan = p.scan
      /\ q.live = p.live /\ q.scanning = p.scanning /\ q.load = p.load /\ q.read = p.read
      /\ SameView(p, q) /\ q.index = p.index /\ q.pending = p.pending
      /\ q.following = p.following /\ q.shownDropped = p.shownDropped
  <2>1. p \in Page /\ c \in Seq(Nat)
    BY <1>1, <1>2
  <2> QED
    BY <2>1, KeptFields
<1>4. /\ Len(p.blobs) \in Nat /\ Len(p.rec) \in Nat /\ Len(p.rec) <= Len(p.blobs)
      /\ \A i \in 1..Len(p.blobs) : c[i] = p.blobs[i]
  BY <1>2, PageFacts DEF Begins
<1>5. PointsInv(q)
  <2>1. /\ p.index >= 1 /\ (p.rec # <<>> => p.index <= Len(p.rec)) /\ p.shown <= Len(p.rec)
        /\ p.rec = <<>> => p.index = 1
        /\ p.read # NoRead =>
             /\ p.read.kind = "frame" \/ (p.read.kind = "newest" /\ ~p.scanning)
             /\ p.read.frame \in 1..Len(p.rec) /\ p.read.doc = p.blobs[p.read.frame]
    BY DEF PageInv, PointsInv
  <2>2. p.read # NoRead => c[p.read.frame] = p.blobs[p.read.frame]
    BY <1>4, <2>1
  <2> QED
    BY <1>3, <2>1, <2>2 DEF PointsInv, SameView
<1>6. ScreenInv(q, n + 1, late)
  <2>1. /\ p.screen \in {Other} \cup 0..n /\ p.pending <= n
        /\ p.live /\ p.shown # 0 /\ ~late => p.screen = p.blobs[p.shown]
        /\ p.pending \in Nat /\ p.shown \in Nat /\ p.shown <= Len(p.rec)
    BY <1>1 DEF PageInv, ScreenInv, PointsInv, Page
  <2>2. p.shown # 0 => c[p.shown] = p.blobs[p.shown]
    BY <1>4, <2>1
  <2>3. p.screen \in {Other} \cup 0..(n + 1) /\ p.pending <= n + 1
    BY <1>1, <2>1 DEF Other
  <2> QED
    BY <1>3, <2>1, <2>2, <2>3 DEF ScreenInv, SameView
<1> QED
  BY <1>2, <1>3, <1>5, <1>6

\* showNewest() of the newest recorded frame.
LEMMA ShowNewest ==
  ASSUME NEW n \in 0..MaxFrames, NEW late, NEW p, PageInv(p, n, late), p.live, ~p.scanning,
         NEW doc, doc \in 0..n, NEW q, q = showNewest(p, doc), NEW after,
         after \/ doc = p.blobs[Len(p.blobs)]
  PROVE  PageInv(q, n, after) /\ SameFrames(p, q)
<1>1. p \in Page /\ n \in Nat /\ p.rec = p.blobs /\ p.blobs # <<>>
  BY HistoryAssumption DEF PageInv, RecordInv
<1>2. Len(p.rec) \in Nat /\ Len(p.rec) >= 1
  <2>1. p.rec \in Seq(Nat)
    BY <1>1 DEF Page
  <2> QED
    BY <1>1, <2>1, EmptySeq
<1>3. /\ q \in Page /\ SameFrames(p, q) /\ q.screen = doc
      /\ q.index = Len(p.rec) /\ q.shown = Len(p.rec) /\ q.read = NoRead
      /\ q.load = p.load /\ q.pending = p.pending /\ q.following = p.following
      /\ q.shownDropped = p.shownDropped
  <2>1. doc \in Int
    BY <1>1
  <2> QED
    BY <1>1, <2>1, NewestFields
<1>4. RecordInv(q) /\ Newest(q.blobs, n)
  BY <1>3 DEF PageInv, RecordInv, SameFrames
<1>5. PointsInv(q)
  BY <1>2, <1>3 DEF PointsInv, SameFrames
<1>6. ScreenInv(q, n, after)
  BY <1>1, <1>3 DEF PageInv, ScreenInv, SameFrames
<1> QED
  BY <1>3, <1>4, <1>5, <1>6 DEF PageInv

\* The timeline of a paused page stays on its frame, or moves to the oldest with a note.
Stays(p, q) ==
  ~p.following /\ p.live /\ p.rec # <<>> =>
    \/ q.blobs[q.index] = p.blobs[p.index]
    \/ q.index = 1 /\ q.shownDropped

\* appendFrame().
LEMMA AppendFrame ==
  ASSUME NEW n \in 0..MaxFrames, n + 1 <= MaxFrames, NEW late \in BOOLEAN,
         NEW p, PageInv(p, n, late), limit \in Nat, NEW q, q = appendFrame(p, n + 1)
  PROVE  /\ PageInv(q, n + 1, late /\ q.screen = p.screen) /\ Fits(q, limit) /\ Stays(p, q)
<1> DEFINE c == More(p.blobs, n)
           k == Kept(p, c)
<1>0. n \in Nat /\ n + 1 \in 0..MaxFrames /\ p \in Page
  BY HistoryAssumption DEF PageInv
<1>1. /\ k \in Page /\ k.blobs = c /\ c \in Seq(Nat) /\ c # <<>> /\ Newest(c, n + 1)
      /\ Begins(p.blobs, c) /\ Len(c) = Len(p.blobs) + 1 /\ c[Len(c)] = n + 1
      /\ k.rec = p.rec /\ k.scan = p.scan
      /\ k.live = p.live /\ k.scanning = p.scanning /\ k.load = p.load /\ k.read = p.read
      /\ SameView(p, k) /\ k.index = p.index /\ k.pending = p.pending
      /\ k.following = p.following /\ k.shownDropped = p.shownDropped
      /\ PointsInv(k) /\ ScreenInv(k, n + 1, late)
  BY FrameKept
<1>2. p.rec \in Seq(Nat) /\ p.scan \in Seq(Nat) /\ p.blobs \in Seq(Nat)
  BY <1>0 DEF Page
<1>3. CASE ~p.live
  <2> DEFINE s == stopReplay(k)
             v == Live(s)
  <2>1. q = rescanLive(v)
    BY <1>3 DEF appendFrame, startHistory, Live, Kept, More
  <2> HIDE DEF c, k
  <2>2. /\ s \in Page /\ s.blobs = k.blobs /\ s.rec = <<>> /\ s.scan = <<>>
        /\ s.live = FALSE /\ s.scanning = FALSE /\ s.load = FALSE /\ s.read = NoRead
        /\ s.shown = 0 /\ s.index = 1 /\ s.screen = k.screen /\ s.pending = k.pending
    BY <1>1, StopFields
  <2> HIDE DEF s
  <2>3. /\ v \in Page /\ v.blobs = s.blobs /\ v.rec = s.rec /\ v.scan = s.scan /\ v.live
        /\ SameView(s, v) /\ v.index = s.index /\ v.pending = s.pending
    BY <2>2, LiveFields
  <2> HIDE DEF v
  <2>4. /\ q \in Page /\ q.blobs = v.blobs /\ q.rec = v.rec /\ q.scan = <<>>
        /\ q.live = v.live /\ q.scanning = TRUE /\ q.load = FALSE /\ q.read = NoRead
        /\ SameView(v, q) /\ q.index = v.index /\ q.pending = v.pending
    BY <2>1, <2>3, RescanFields
  <2>5. /\ q.blobs = c /\ q.rec = <<>> /\ q.scan = <<>> /\ q.live /\ q.scanning /\ ~q.load
        /\ q.shown = 0 /\ q.index = 1 /\ q.screen = k.screen /\ q.pending = k.pending
        /\ q.read = NoRead
    BY <1>1, <2>2, <2>3, <2>4 DEF SameView
  <2>6. Len(<<>>) = 0 /\ Len(c) \in Nat /\ Len(c) > 0
    BY <1>1, EmptySeq
  <2>7. RecordInv(q)
    BY <1>1, <2>5, <2>6 DEF RecordInv, Begins
  <2>8. PointsInv(q)
    BY <2>5, <2>6 DEF PointsInv
  <2>9. ScreenInv(q, n + 1, late /\ q.screen = p.screen)
    BY <1>1, <2>5 DEF ScreenInv
  <2> QED
    BY <1>1, <1>3, <2>4, <2>5, <2>7, <2>8, <2>9 DEF PageInv, Fits, Stays
<1>4. CASE p.live /\ p.scanning
  <2>1. q = k
    BY <1>4 DEF appendFrame, Kept, More
  <2> HIDE DEF c, k
  <2>2. /\ p.blobs # <<>> /\ ~p.load /\ Begins(p.rec, p.blobs) /\ Begins(p.scan, p.blobs)
        /\ Len(p.scan) < Len(p.blobs)
    BY <1>4 DEF PageInv, RecordInv
  <2>3. Begins(p.rec, c) /\ Begins(p.scan, c)
    BY <1>1, <1>2, <2>2, BeginsMore
  <2>4. Len(p.scan) < Len(c)
    BY <1>1, <1>2, <2>2, LenProperties
  <2>5. RecordInv(q)
    BY <1>1, <1>4, <2>1, <2>2, <2>3, <2>4 DEF RecordInv
  <2>6. ScreenInv(q, n + 1, late /\ q.screen = p.screen)
    BY <1>1, <2>1 DEF ScreenInv, SameView
  <2>7. Stays(p, q)
    <3>1. SUFFICES ASSUME p.rec # <<>> PROVE q.blobs[q.index] = p.blobs[p.index]
      BY DEF Stays
    <3>2. p.index \in 1..Len(p.blobs)
      <4>1. p.index \in Nat /\ p.index >= 1 /\ p.index <= Len(p.rec)
        BY <1>0, <3>1 DEF PageInv, PointsInv, Page
      <4> QED
        BY <4>1, PageFacts
    <3> QED
      BY <1>1, <2>1, <3>2 DEF Begins
  <2> QED
    BY <1>1, <1>4, <2>1, <2>5, <2>6, <2>7 DEF PageInv, Fits
<1>5. CASE p.live /\ ~p.scanning
  <2> DEFINE a == Recorded(k, c)
             t == trimHistory(a)
             Show(x) == IF x.following THEN showNewest(x, n + 1) ELSE x
  <2>1. a = [k EXCEPT !.rec = Append(@, n + 1)]
    <3>1. p.rec = p.blobs
      BY <1>5 DEF PageInv, RecordInv
    <3>2. k.rec = p.blobs
      BY <1>1, <3>1
    <3> QED
      BY <3>2 DEF Recorded, More
  <2>2. q = With(With([k EXCEPT !.rec = Append(@, n + 1)], trimHistory), Show)
    BY <1>5, Zenon DEF appendFrame, Kept, More
  <2>3. q = With(With(a, trimHistory), Show)
    BY <2>1, <2>2, Zenon
  <2>4. With(a, trimHistory) = t
    BY Zenon DEF With
  <2>5. q = Show(t)
    <3>1. q = With(t, Show)
      BY <2>3, <2>4, Zenon
    <3> QED
      BY <3>1, Zenon DEF With
  <2> HIDE DEF c, k
  <2>6. /\ a \in Page /\ a.blobs = c /\ a.rec = c /\ a.scan = p.scan
        /\ a.live = p.live /\ a.scanning = p.scanning /\ a.load = p.load /\ a.read = p.read
        /\ SameView(k, a) /\ a.index = p.index /\ a.pending = p.pending
        /\ a.following = p.following /\ a.shownDropped = p.shownDropped
    BY <1>1, RecordedFields
  <2> HIDE DEF a
  <2>7. RecordInv(a)
    <3>1. p.scan = <<>> /\ ~p.load
      BY <1>5 DEF PageInv, RecordInv
    <3> QED
      BY <1>1, <1>5, <2>6, <3>1 DEF RecordInv
  <2>8. PointsInv(a)
    <3>1. /\ Len(p.rec) \in Nat /\ Len(c) \in Nat /\ Len(p.rec) <= Len(c)
          /\ p.rec # <<>> /\ k.rec = p.rec /\ k.index = p.index /\ k.read = p.read
          /\ k.scanning = p.scanning /\ k.blobs = c
      BY <1>1, <1>5, PageFacts DEF PageInv, RecordInv
    <3>2. /\ p.index >= 1 /\ p.index <= Len(p.rec) /\ k.shown <= Len(p.rec)
          /\ p.read # NoRead =>
               /\ p.read.kind = "frame" \/ (p.read.kind = "newest" /\ ~p.scanning)
               /\ p.read.frame \in 1..Len(p.rec) /\ p.read.doc = c[p.read.frame]
      BY <1>1, <3>1 DEF PointsInv
    <3>3. p.index \in Nat /\ k.shown \in Nat
      BY <1>0, <1>1 DEF Page
    <3>4. /\ p.index <= Len(c) /\ k.shown <= Len(c)
          /\ p.read # NoRead => p.read.frame \in 1..Len(c)
      BY <3>1, <3>2, <3>3
    <3>5. a.shown = k.shown
      BY <2>6 DEF SameView
    <3> QED
      BY <1>1, <2>6, <3>2, <3>4, <3>5 DEF PointsInv
  <2>9. ScreenInv(a, n + 1, late)
    BY <1>1, <2>6 DEF ScreenInv, SameView
  <2>10. PageInv(a, n + 1, late) /\ a.live /\ ~a.scanning
    BY <1>1, <1>5, <2>6, <2>7, <2>8, <2>9 DEF PageInv
  <2>11. /\ PageInv(t, n + 1, late) /\ t.live /\ ~t.scanning
         /\ Bytes(t.blobs) <= limit \/ Len(t.blobs) = 1
         /\ t.following = a.following /\ t.screen = a.screen
         /\ \/ t.blobs[t.index] = a.blobs[a.index]
            \/ t.index = 1 /\ (~a.following => t.shownDropped)
    BY <1>0, <2>10, TrimHistory
  <2> HIDE DEF t
  <2>12. CASE ~t.following
    <3>1. q = t /\ q.screen = p.screen
      BY <1>1, <2>5, <2>6, <2>11, <2>12 DEF SameView
    <3>2. PageInv(q, n + 1, late /\ q.screen = p.screen)
      <4>1. (late /\ q.screen = p.screen) = late
        BY <3>1
      <4> QED
        BY <2>11, <3>1, <4>1
    <3>3. Stays(p, q)
      <4>1. SUFFICES ASSUME p.rec # <<>> PROVE a.blobs[a.index] = p.blobs[p.index]
        BY <2>6, <2>11, <2>12, <3>1 DEF Stays
      <4>2. p.index \in 1..Len(p.blobs)
        <5>1. p.index \in Nat /\ p.index >= 1 /\ p.index <= Len(p.rec)
          BY <1>0, <4>1 DEF PageInv, PointsInv, Page
        <5> QED
          BY <5>1, PageFacts
      <4> QED
        BY <1>1, <2>6, <4>2 DEF Begins
    <3> QED
      BY <2>11, <3>1, <3>2, <3>3 DEF Fits
  <2>13. CASE t.following
    <3>1. q = showNewest(t, n + 1)
      BY <2>5, <2>13
    <3>2. t.blobs[Len(t.blobs)] = n + 1 /\ n + 1 \in 0..(n + 1)
      <4>1. t.blobs \in Seq(Nat) /\ t.blobs # <<>> /\ Newest(t.blobs, n + 1)
        BY <2>11 DEF PageInv, Page, RecordInv
      <4>2. Len(t.blobs) \in Nat /\ Len(t.blobs) >= 1
        BY <4>1, EmptySeq
      <4>3. Len(t.blobs) \in 1..Len(t.blobs)
        BY <4>2
      <4>4. t.blobs[Len(t.blobs)] = (n + 1) - Len(t.blobs) + Len(t.blobs)
        BY <4>1, <4>3, Zenon DEF Newest
      <4> QED
        BY <1>0, <4>2, <4>4
    <3>3. PageInv(q, n + 1, late /\ q.screen = p.screen) /\ SameFrames(t, q)
      BY <1>0, <2>11, <3>1, <3>2, ShowNewest
    <3>4. Fits(q, limit)
      BY <2>11, <3>3 DEF Fits, SameFrames
    <3>5. Stays(p, q)
      BY <2>6, <2>11, <2>13 DEF Stays
    <3> QED
      BY <3>3, <3>4, <3>5
  <2> QED
    BY <2>12, <2>13
<1> QED
  BY <1>3, <1>4, <1>5

\* The scan ends: the new recording is trimmed, and a frame of it is shown.
LEMMA FinishScanSound ==
  ASSUME NEW n \in 0..MaxFrames, NEW late \in BOOLEAN, limit \in Nat,
         NEW p, p \in Page, Newest(p.blobs, n), PointsInv(p), ScreenInv(p, n, late),
         p.live, p.scanning, ~p.load, p.blobs # <<>>, p.scan = p.blobs, Begins(p.rec, p.blobs),
         NEW q, q = FinishScan(p)
  PROVE  /\ PageInv(q, n, late) /\ Fits(q, limit) /\ q.live
<1> DEFINE a == ScanEnded(p)
           t == trimHistory(a)
           u == Unshown(t)
           i == IF t.index > Len(t.rec) THEN Len(t.rec) ELSE t.index
           Show(x) ==
             IF x.following THEN resumeLive(x)
             ELSE showFrame([x EXCEPT !.shown = 0],
                            IF x.index > Len(x.rec) THEN Len(x.rec) ELSE x.index)
<1>1. q = Show(t)
  <2>1. q = With(With(a, trimHistory), Show)
    BY Zenon DEF FinishScan, ScanEnded
  <2>2. With(a, trimHistory) = t
    BY Zenon DEF With
  <2>3. q = With(t, Show)
    BY <2>1, <2>2, Zenon
  <2> QED
    BY <2>3, Zenon DEF With
<1>2. /\ a \in Page /\ a.blobs = p.blobs /\ a.rec = p.blobs /\ a.scan = <<>>
      /\ a.live = p.live /\ ~a.scanning /\ a.load = p.load /\ a.read = p.read
      /\ SameView(p, a) /\ a.index = p.index /\ a.pending = p.pending
  BY ScanEndedFields
<1> HIDE DEF a
<1>3. RecordInv(a)
  BY <1>2 DEF RecordInv
<1>4. PointsInv(a)
  <2>1. /\ Len(p.rec) \in Nat /\ Len(p.blobs) \in Nat /\ Len(p.rec) <= Len(p.blobs)
        /\ p.index \in Nat /\ p.shown \in Nat /\ Len(p.blobs) >= 1
    <3>1. p.rec \in Seq(Nat) /\ p.blobs \in Seq(Nat) /\ p.index \in Nat /\ p.shown \in Nat
      BY DEF Page
    <3> QED
      BY <3>1, LenProperties, EmptySeq DEF Begins
  <2>2. p.index >= 1 /\ p.index <= Len(p.blobs) /\ p.shown <= Len(p.blobs)
    BY <2>1 DEF PointsInv
  <2>3. p.read # NoRead =>
          /\ p.read.kind = "frame" \/ (p.read.kind = "newest" /\ ~p.scanning)
          /\ p.read.frame \in 1..Len(p.blobs) /\ p.read.doc = p.blobs[p.read.frame]
    BY <2>1 DEF PointsInv
  <2> QED
    BY <1>2, <2>2, <2>3 DEF PointsInv, SameView
<1>5. ScreenInv(a, n, late)
  BY <1>2 DEF ScreenInv, SameView
<1>6. PageInv(a, n, late) /\ a.live /\ ~a.scanning
  BY <1>2, <1>3, <1>4, <1>5 DEF PageInv
<1>7. /\ PageInv(t, n, late) /\ t.live /\ ~t.scanning
      /\ Bytes(t.blobs) <= limit \/ Len(t.blobs) = 1
  BY <1>6, TrimHistory
<1> HIDE DEF t
<1>8. CASE t.following
  <2>1. q = resumeLive(t)
    BY <1>1, <1>8
  <2>2. PageInv(q, n, late) /\ SameFrames(t, q)
    BY <1>7, <2>1, ResumeLive
  <2> QED
    BY <1>7, <2>2 DEF Fits, SameFrames
<1>9. CASE ~t.following
  <2>1. q = showFrame(u, i)
    BY <1>1, <1>9 DEF Unshown
  <2>2. /\ u \in Page /\ SameFrames(t, u) /\ u.screen = t.screen /\ u.shown = 0
        /\ u.index = t.index /\ u.read = t.read /\ u.load = t.load /\ u.pending = t.pending
    <3>1. t \in Page
      BY <1>7 DEF PageInv
    <3> QED
      BY <3>1, UnshownFields
  <2> HIDE DEF u, i
  <2>3. RecordInv(u) /\ Newest(u.blobs, n)
    BY <1>7, <2>2 DEF PageInv, RecordInv, SameFrames
  <2>4. PointsInv(u)
    <3>1. Len(t.rec) \in Nat
      BY <1>7, PageFacts
    <3> QED
      BY <1>7, <2>2, <3>1 DEF PageInv, PointsInv, SameFrames
  <2>5. ScreenInv(u, n, late)
    BY <1>7, <2>2 DEF PageInv, ScreenInv, SameFrames
  <2>6. PageInv(u, n, late)
    BY <2>2, <2>3, <2>4, <2>5 DEF PageInv
  <2>7. PageInv(q, n, late) /\ q.blobs = u.blobs /\ q.live = u.live /\ q.scanning = u.scanning
    BY <2>1, <2>6, ShowFrame
  <2> QED
    BY <1>7, <2>2, <2>7 DEF Fits, SameFrames
<1> QED
  BY <1>8, <1>9

------------------------------------------------------------------------------
LEMMA HistoryInit == Init => HistoryInv
<1> SUFFICES ASSUME Init PROVE HistoryInv
  OBVIOUS
<1>1. /\ page.following = TRUE /\ page.pending = 0 /\ page.blobs = <<>>
      /\ page.shownDropped = FALSE /\ page.scanning = FALSE /\ page.live = FALSE
      /\ page.rec = <<>> /\ page.scan = <<>> /\ page.index = 1 /\ page.shown = 0
      /\ page.read = NoRead /\ page.load = FALSE /\ page.timer = 0 /\ page.screen = 0
  BY DEF Init
<1>2. page \in Page
  BY NoReadType DEF Init, Page
<1>3. Len(<<>>) = 0
  BY EmptySeq
<1>4. Newest(page.blobs, 0) /\ RecordInv(page) /\ PointsInv(page)
  BY <1>1, <1>3 DEF Newest, RecordInv, PointsInv
<1>5. ScreenInv(page, 0, FALSE) /\ Fits(page, limit)
  BY <1>1 DEF ScreenInv, Fits
<1>6. arrived = 0 /\ moves = 0 /\ overtaken = FALSE /\ limit \in Limits
  BY DEF Init
<1>7. 0 \in 0..MaxFrames /\ 0 \in 0..MaxMoves
  BY HistoryAssumption
<1> QED
  BY <1>1, <1>2, <1>4, <1>5, <1>6, <1>7 DEF HistoryInv, PageInv

\* A step that leaves the frames alone.
LEMMA FramesStay ==
  ASSUME HistoryInv, limit' = limit, arrived' = arrived, moves' \in 0..MaxMoves,
         overtaken' \in BOOLEAN, PageInv(page', arrived, overtaken'), SameFrames(page, page')
  PROVE  HistoryInv'
<1>1. Fits(page', limit)
  BY DEF HistoryInv, Fits, SameFrames
<1>2. limit = 0 => ~page'.live /\ page'.blobs = <<>>
  BY DEF HistoryInv, SameFrames
<1> QED
  BY <1>1, <1>2 DEF HistoryInv

LEMMA GoToSound ==
  ASSUME NEW n \in 0..MaxFrames, NEW late, NEW p, PageInv(p, n, late), NEW i, NEW q, q = goTo(p, i)
  PROVE  PageInv(q, n, late) /\ SameFrames(p, q)
<1> DEFINE a == IF p.live THEN pauseLive(p) ELSE p
<1>1. PageInv(a, n, late) /\ SameFrames(p, a)
  BY PauseLive DEF SameFrames
<1>2. q = showFrame(a, i)
  BY DEF goTo
<1> HIDE DEF a
<1>3. /\ PageInv(q, n, late)
      /\ q.blobs = a.blobs /\ q.live = a.live /\ q.scanning = a.scanning
      /\ q.rec = a.rec /\ q.scan = a.scan
  BY <1>1, <1>2, ShowFrame
<1> QED
  BY <1>1, <1>3 DEF SameFrames

------------------------------------------------------------------------------
LEMMA ArriveStep ==
  ASSUME HistoryInv, Arrive
  PROVE  HistoryInv' /\ Stays(page, page')
<1> DEFINE n == arrived
<1>1. /\ n \in 0..MaxFrames /\ n \in Nat /\ n + 1 <= MaxFrames /\ n + 1 \in 0..MaxFrames
      /\ overtaken \in BOOLEAN /\ PageInv(page, n, overtaken) /\ limit \in Nat
  BY HistoryAssumption DEF HistoryInv, Arrive
<1>2. /\ arrived' = n + 1 /\ page' = OnDocument(page, n + 1) /\ limit' = limit /\ moves' = moves
      /\ overtaken' = (overtaken /\ page'.screen = page.screen)
  BY DEF Arrive
<1>3. CASE limit > 0
  <2>1. page' = appendFrame(page, n + 1)
    BY <1>2, <1>3 DEF OnDocument
  <2> HIDE DEF n
  <2>2. /\ PageInv(page', n + 1, overtaken /\ page'.screen = page.screen)
        /\ Fits(page', limit) /\ Stays(page, page')
    BY <1>1, <2>1, AppendFrame
  <2>3. PageInv(page', arrived', overtaken')
    BY <1>2, <2>2
  <2> QED
    BY <1>1, <1>2, <1>3, <2>2, <2>3 DEF HistoryInv
<1>4. CASE limit = 0
  <2>1. ~page.live /\ page.blobs = <<>> /\ page \in Page
    BY <1>4 DEF HistoryInv, PageInv
  <2>2. page' = Painted(page, n + 1) \/ page' = Waiting(page, n + 1)
    BY <1>2, <1>4 DEF OnDocument, Painted, Waiting
  <2> HIDE DEF n
  <2>3. /\ page' \in Page /\ SameFrames(page, page') /\ page'.shown = page.shown
        /\ page'.index = page.index /\ page'.read = page.read /\ page'.load = page.load
        /\ page'.screen \in {page.screen, n + 1} /\ page'.pending \in {page.pending, n + 1}
    <3>1. n + 1 \in Nat /\ n + 1 \in Int
      BY <1>1
    <3>2. CASE page' = Painted(page, n + 1)
      BY <2>1, <3>1, <3>2, PaintedFields
    <3>3. CASE page' = Waiting(page, n + 1)
      BY <2>1, <3>1, <3>3, WaitingFields DEF SameView
    <3> QED
      BY <2>2, <3>2, <3>3
  <2>4. RecordInv(page')
    BY <1>1, <2>3 DEF PageInv, RecordInv, SameFrames
  <2>5. PointsInv(page')
    BY <1>1, <2>3 DEF PageInv, PointsInv, SameFrames
  <2>6. ScreenInv(page', n + 1, overtaken')
    <3>1. page.screen \in {Other} \cup 0..n /\ page.pending \in Nat /\ page.pending <= n
      BY <1>1, <2>1 DEF PageInv, ScreenInv, Page
    <3>2. page'.screen \in {Other} \cup 0..(n + 1) /\ page'.pending <= n + 1
      BY <1>1, <2>3, <3>1 DEF Other
    <3>3. ~page'.live
      BY <2>1, <2>3 DEF SameFrames
    <3> QED
      BY <3>2, <3>3 DEF ScreenInv
  <2>7. page'.blobs = <<>> /\ ~page'.live
    BY <2>1, <2>3 DEF SameFrames
  <2>8. Newest(page'.blobs, n + 1)
    BY <1>1, <2>7, EmptySeq DEF Newest
  <2>9. PageInv(page', n + 1, overtaken') /\ Fits(page', limit) /\ Stays(page, page')
    BY <2>1, <2>3, <2>4, <2>5, <2>6, <2>7, <2>8 DEF PageInv, Fits, Stays
  <2>10. overtaken' \in BOOLEAN
    BY <1>2
  <2> QED
    BY <1>1, <1>2, <2>7, <2>9, <2>10 DEF HistoryInv
<1> QED
  BY <1>1, <1>3, <1>4

LEMMA ScanStep ==
  ASSUME HistoryInv, ScanFrame
  PROVE  HistoryInv'
<1> DEFINE n == arrived
           x == page.blobs[Len(page.scan) + 1]
           c == Append(page.scan, x)
           p == Scanned(page, c)
<1>1. /\ n \in 0..MaxFrames /\ overtaken \in BOOLEAN /\ PageInv(page, n, overtaken)
      /\ limit \in Nat /\ page \in Page /\ page.live /\ page.scanning /\ Newest(page.blobs, n)
      /\ PointsInv(page) /\ ScreenInv(page, n, overtaken)
  BY HistoryAssumption DEF HistoryInv, ScanFrame, PageInv, RecordInv
<1>2. /\ page' = (IF Len(p.scan) = Len(p.blobs) THEN FinishScan(p) ELSE p)
      /\ overtaken' = (overtaken /\ page'.shown # 0)
      /\ limit' = limit /\ arrived' = arrived /\ moves' = moves
  BY DEF ScanFrame, Scanned
<1>3. /\ page.blobs # <<>> /\ ~page.load /\ Begins(page.rec, page.blobs)
      /\ Begins(page.scan, page.blobs) /\ Len(page.scan) < Len(page.blobs)
  BY <1>1 DEF PageInv, RecordInv
<1>4. /\ page.scan \in Seq(Nat) /\ page.blobs \in Seq(Nat)
      /\ Len(page.scan) \in Nat /\ Len(page.blobs) \in Nat
  <2>1. page.scan \in Seq(Nat) /\ page.blobs \in Seq(Nat)
    BY <1>1 DEF Page
  <2> QED
    BY <2>1, LenProperties
<1>5. x \in Nat
  <2>1. Len(page.scan) + 1 \in 1..Len(page.blobs)
    BY <1>3, <1>4
  <2> QED
    BY <1>4, <2>1, ElementOfSeq
<1>6. /\ c \in Seq(Nat) /\ c # <<>> /\ Len(c) = Len(page.scan) + 1
      /\ \A i \in 1..Len(page.scan) : c[i] = page.scan[i]
      /\ c[Len(page.scan) + 1] = page.blobs[Len(page.scan) + 1]
  <2> HIDE DEF x
  <2>1. /\ c \in Seq(Nat) /\ c # <<>> /\ Len(c) = Len(page.scan) + 1
        /\ \A i \in 1..Len(page.scan) : c[i] = page.scan[i]
        /\ c[Len(page.scan) + 1] = x
    BY <1>4, <1>5, AppendProperties
  <2> QED
    BY <2>1 DEF x
<1> HIDE DEF c
<1>7. Begins(c, page.blobs)
  <2>1. \A i \in 1..Len(c) : i \in 1..Len(page.scan) \/ i = Len(page.scan) + 1
    BY <1>4, <1>6
  <2>2. \A i \in 1..Len(c) : c[i] = page.blobs[i]
    BY <1>3, <1>6, <2>1 DEF Begins
  <2> QED
    BY <1>3, <1>4, <1>6, <2>2 DEF Begins
<1>8. /\ p \in Page /\ p.blobs = page.blobs /\ p.rec = page.rec /\ p.scan = c
      /\ p.live = page.live /\ p.scanning = page.scanning /\ p.load = page.load
      /\ p.read = page.read /\ SameView(page, p) /\ p.index = page.index
      /\ p.pending = page.pending
  <2>1. page \in Page /\ c \in Seq(Nat)
    BY <1>1, <1>6
  <2> QED
    BY <2>1, ScannedFields
<1> HIDE DEF p
<1>9. PointsInv(p) /\ ScreenInv(p, n, overtaken)
  BY <1>1, <1>8 DEF PointsInv, ScreenInv, SameView
<1>10. PageInv(page', n, overtaken) /\ Fits(page', limit) /\ page'.live
  <2>1. CASE Len(p.scan) = Len(p.blobs)
    <3>1. page' = FinishScan(p)
      BY <1>2, <2>1
    <3>2. p.scan = p.blobs
      <4>1. c = page.blobs
        <5>1. c \in Seq(Nat) /\ page.blobs \in Seq(Nat) /\ Len(c) = Len(page.blobs)
          BY <1>4, <1>6, <1>8, <2>1
        <5>2. \A i \in 1..Len(c) : c[i] = page.blobs[i]
          BY <1>7 DEF Begins
        <5> QED
          BY <5>1, <5>2, SeqEqual
      <4> QED
        BY <1>8, <4>1
    <3>3. /\ p \in Page /\ Newest(p.blobs, n) /\ p.live /\ p.scanning /\ ~p.load
          /\ p.blobs # <<>> /\ Begins(p.rec, p.blobs)
      BY <1>1, <1>3, <1>8
    <3> QED
      BY <1>1, <1>9, <3>1, <3>2, <3>3, FinishScanSound
  <2>2. CASE Len(p.scan) # Len(p.blobs)
    <3>1. page' = p
      BY <1>2, <2>2
    <3>2. Len(p.scan) < Len(p.blobs)
      BY <1>4, <1>6, <1>7, <1>8, <2>2 DEF Begins
    <3>3. RecordInv(p)
      BY <1>1, <1>3, <1>7, <1>8, <3>2 DEF RecordInv
    <3> QED
      BY <1>1, <1>8, <1>9, <3>1, <3>3 DEF PageInv, Fits
  <2> QED
    BY <2>1, <2>2
<1>11. PageInv(page', n, overtaken')
  BY <1>2, <1>10 DEF PageInv, ScreenInv
<1>12. overtaken' \in BOOLEAN /\ limit # 0
  BY <1>1, <1>2 DEF HistoryInv
<1> QED
  BY <1>2, <1>10, <1>11, <1>12 DEF HistoryInv

LEMMA ReadStep ==
  ASSUME HistoryInv, ReadFrame
  PROVE  HistoryInv'
<1> DEFINE n == arrived
           r == page.read
<1>1. /\ n \in 0..MaxFrames /\ n \in Nat /\ PageInv(page, n, overtaken) /\ page \in Page
      /\ moves \in 0..MaxMoves
  BY HistoryAssumption DEF HistoryInv, PageInv
<1>2. /\ page' = (IF r.kind = "newest" THEN showNewest(page, r.doc)
                  ELSE Painting(page, r.frame, r.doc))
      /\ overtaken' = (r.kind = "newest" /\ r.doc # page.blobs[Len(page.blobs)])
      /\ limit' = limit /\ arrived' = arrived /\ moves' = moves
  BY DEF ReadFrame, Painting, Last
<1>3. /\ r.kind = "frame" \/ (r.kind = "newest" /\ ~page.scanning)
      /\ r.frame \in 1..Len(page.rec) /\ r.doc = page.blobs[r.frame]
  BY <1>1 DEF ReadFrame, PageInv, PointsInv
<1> HIDE DEF r
<1>4. /\ Len(page.rec) \in Nat /\ Len(page.blobs) \in Nat /\ Len(page.rec) <= Len(page.blobs)
      /\ r.doc \in 1..n
  BY <1>1, <1>3, PageFacts
<1>5. page.live
  <2>1. page.rec # <<>>
    BY <1>3, <1>4, EmptySeq
  <2> QED
    BY <1>1, <2>1 DEF PageInv, RecordInv
<1>6. PageInv(page', n, overtaken') /\ SameFrames(page, page')
  <2>1. CASE r.kind = "newest"
    <3>1. page' = showNewest(page, r.doc) /\ ~page.scanning
      BY <1>2, <1>3, <2>1
    <3>2. overtaken' \/ r.doc = page.blobs[Len(page.blobs)]
      BY <1>2, <2>1
    <3>3. r.doc \in 0..n
      BY <1>4
    <3> QED
      BY <1>1, <1>5, <3>1, <3>2, <3>3, ShowNewest
  <2>2. CASE r.kind # "newest"
    <3>1. page' = Painting(page, r.frame, r.doc)
      BY <1>2, <2>2
    <3>2. /\ page' \in Page /\ SameFrames(page, page') /\ page'.screen = r.doc
          /\ page'.shown = r.frame /\ page'.index = r.frame /\ page'.read = NoRead
          /\ page'.load = page.load /\ page'.pending = page.pending
      <4>1. r.frame \in Nat /\ r.doc \in Int
        BY <1>1, <1>3, <1>4
      <4> QED
        BY <1>1, <3>1, <4>1, PaintingFields
    <3>3. RecordInv(page') /\ Newest(page'.blobs, n)
      BY <1>1, <3>2 DEF PageInv, RecordInv, SameFrames
    <3>4. PointsInv(page')
      <4>1. page'.rec = page.rec /\ page.rec # <<>>
        BY <1>3, <1>4, <3>2, EmptySeq DEF SameFrames
      <4> QED
        BY <1>3, <1>4, <3>2, <4>1 DEF PointsInv
    <3>5. ScreenInv(page', n, overtaken')
      <4>1. r.doc \in 0..n /\ page.pending <= n
        BY <1>1, <1>4 DEF PageInv, ScreenInv
      <4> QED
        BY <1>3, <3>2, <4>1 DEF ScreenInv, SameFrames
    <3> QED
      BY <3>2, <3>3, <3>4, <3>5 DEF PageInv
  <2> QED
    BY <2>1, <2>2
<1>7. overtaken' \in BOOLEAN
  BY <1>2
<1> QED
  BY <1>1, <1>2, <1>6, <1>7, FramesStay

\* The user moves on the timeline, pauses, resumes, or a file is shown: the frames stay.
LEMMA MoveStep ==
  ASSUME HistoryInv, GoTo \/ Drag \/ DragRests \/ Pause \/ Resume \/ EndKey \/ FileRead
  PROVE  HistoryInv'
<1> DEFINE n == arrived
<1>1. /\ n \in 0..MaxFrames /\ n \in Nat /\ PageInv(page, n, overtaken) /\ page \in Page
      /\ moves \in 0..MaxMoves /\ overtaken \in BOOLEAN /\ MaxMoves \in Nat
  BY HistoryAssumption DEF HistoryInv, PageInv
<1>2. /\ limit' = limit /\ arrived' = arrived /\ overtaken' = overtaken
      /\ moves' \in 0..MaxMoves
  <2>1. limit' = limit /\ arrived' = arrived /\ overtaken' = overtaken
    BY DEF GoTo, Drag, DragRests, Pause, Resume, EndKey, FileRead
  <2>2. moves' = moves \/ (moves < MaxMoves /\ moves' = moves + 1)
    BY DEF GoTo, Drag, DragRests, Pause, Resume, EndKey, FileRead
  <2> QED
    BY <1>1, <2>1, <2>2
<1>3. PageInv(page', n, overtaken) /\ SameFrames(page, page')
  <2>1. CASE GoTo
    <3>1. PICK i \in 1..Len(page.rec) : page' = goTo(page, i)
      BY <2>1 DEF GoTo
    <3> QED
      BY <1>1, <3>1, GoToSound
  <2>2. CASE Drag
    <3>1. PICK i \in 1..Len(page.rec) : page' = [page EXCEPT !.timer = i]
      BY <2>2 DEF Drag
    <3>2. page' = Timed(page, i) /\ i \in Nat
      BY <1>1, <3>1, PageFacts DEF Timed
    <3>3. /\ page' \in Page /\ SameFrames(page, page') /\ SameView(page, page')
          /\ page'.pending = page.pending /\ page'.index = page.index
          /\ page'.read = page.read /\ page'.load = page.load
      BY <1>1, <3>2, TimedFields
    <3> QED
      BY <1>1, <3>3, SamePage
  <2>3. CASE DragRests
    <3> DEFINE t == Timed(page, 0)
               i == page.timer
    <3>1. page' = goTo(t, i)
      BY <2>3 DEF DragRests, Timed
    <3>2. /\ t \in Page /\ SameFrames(page, t) /\ SameView(page, t)
          /\ t.pending = page.pending /\ t.index = page.index
          /\ t.read = page.read /\ t.load = page.load
      <4>1. 0 \in Nat
        OBVIOUS
      <4> QED
        BY <1>1, <4>1, TimedFields
    <3> HIDE DEF t, i
    <3>3. PageInv(t, n, overtaken)
      BY <1>1, <3>2, SamePage
    <3>4. PageInv(page', n, overtaken) /\ SameFrames(t, page')
      BY <1>1, <3>1, <3>3, GoToSound
    <3> QED
      BY <3>2, <3>4 DEF SameFrames
  <2>4. CASE Pause
    <3>1. page' = pauseLive(page)
      BY <2>4 DEF Pause
    <3> QED
      BY <1>1, <3>1, PauseLive
  <2>5. CASE Resume \/ EndKey
    <3>1. page' = resumeLive(page)
      BY <2>5 DEF Resume, EndKey
    <3> QED
      BY <1>1, <3>1, ResumeLive
  <2>6. CASE FileRead
    <3> DEFINE l == Loading(page, FALSE)
    <3>1. page' = Painted(l, Other)
      BY <2>6 DEF FileRead, Loading, Painted
    <3>2. /\ l \in Page /\ SameFrames(page, l) /\ SameView(page, l) /\ l.load = FALSE
          /\ l.read = page.read /\ l.index = page.index /\ l.pending = page.pending
      BY <1>1, LoadingFields
    <3> HIDE DEF l
    <3>3. /\ page' \in Page /\ SameFrames(l, page') /\ page'.screen = Other
          /\ page'.shown = l.shown /\ page'.index = l.index /\ page'.read = l.read
          /\ page'.load = l.load /\ page'.pending = l.pending
      <4>1. Other \in Int
        BY DEF Other
      <4> QED
        BY <3>1, <3>2, <4>1, PaintedFields
    <3>4. SameFrames(page, page')
      BY <3>2, <3>3 DEF SameFrames
    <3>5. ~page.live
      BY <1>1, <2>6 DEF FileRead, PageInv, RecordInv
    <3>6. RecordInv(page') /\ Newest(page'.blobs, n)
      BY <1>1, <3>2, <3>3, <3>4, <3>5 DEF PageInv, RecordInv, SameFrames
    <3>7. PointsInv(page')
      BY <1>1, <3>2, <3>3, <3>4 DEF PageInv, PointsInv, SameFrames, SameView
    <3>8. ScreenInv(page', n, overtaken)
      BY <1>1, <3>2, <3>3, <3>4, <3>5 DEF PageInv, ScreenInv, SameFrames
    <3> QED
      BY <3>3, <3>4, <3>6, <3>7, <3>8 DEF PageInv
  <2> QED
    BY <2>1, <2>2, <2>3, <2>4, <2>5, <2>6
<1> QED
  BY <1>1, <1>2, <1>3, FramesStay

LEMMA RescanStep ==
  ASSUME HistoryInv, MatchBy \/ OpenFile
  PROVE  HistoryInv'
<1> DEFINE n == arrived
<1>1. /\ n \in 0..MaxFrames /\ n \in Nat /\ PageInv(page, n, overtaken) /\ page \in Page
      /\ moves \in 0..MaxMoves /\ overtaken \in BOOLEAN /\ MaxMoves \in Nat
      /\ Newest(page.blobs, n)
  BY HistoryAssumption DEF HistoryInv, PageInv
<1>2. /\ limit' = limit /\ arrived' = arrived /\ overtaken' = overtaken
      /\ moves' \in 0..MaxMoves
  <2>1. /\ limit' = limit /\ arrived' = arrived /\ overtaken' = overtaken
        /\ moves < MaxMoves /\ moves' = moves + 1
    BY DEF MatchBy, OpenFile
  <2> QED
    BY <1>1, <2>1
<1>3. /\ page.screen \in {Other} \cup 0..n /\ page.pending <= n
      /\ page.live /\ page.shown # 0 /\ ~overtaken => page.screen = page.blobs[page.shown]
  BY <1>1 DEF PageInv, ScreenInv
<1>4. CASE MatchBy
  <2>1. page' = rescanLive(page) /\ page.live
    BY <1>4 DEF MatchBy
  <2>2. /\ page' \in Page /\ page'.blobs = page.blobs /\ page'.rec = page.rec
        /\ page'.scan = <<>> /\ page'.live = page.live /\ page'.scanning = TRUE
        /\ page'.load = FALSE /\ page'.read = NoRead
        /\ SameView(page, page') /\ page'.index = page.index /\ page'.pending = page.pending
    BY <1>1, <2>1, RescanFields
  <2>3. page.blobs # <<>> /\ page.blobs \in Seq(Nat) /\ Begins(page.rec, page.blobs)
    BY <1>1, <2>1 DEF PageInv, RecordInv, Page, Begins
  <2>4. Len(<<>>) = 0 /\ Len(page.blobs) \in Nat /\ Len(page.blobs) > 0
    BY <2>3, EmptySeq
  <2>5. RecordInv(page')
    BY <2>1, <2>2, <2>3, <2>4 DEF RecordInv, Begins
  <2>6. PointsInv(page')
    BY <1>1, <2>2 DEF PageInv, PointsInv, SameView
  <2>7. ScreenInv(page', n, overtaken)
    BY <1>3, <2>2 DEF ScreenInv, SameView
  <2>8. PageInv(page', n, overtaken) /\ Fits(page', limit)
    BY <1>1, <2>2, <2>5, <2>6, <2>7 DEF PageInv, Fits
  <2> QED
    BY <1>1, <1>2, <2>1, <2>8 DEF HistoryInv
<1>5. CASE OpenFile
  <2> DEFINE s == stopReplay(page)
  <2>1. page' = Loading(s, TRUE)
    BY <1>5 DEF OpenFile, Loading
  <2>2. /\ s \in Page /\ s.blobs = page.blobs /\ s.rec = <<>> /\ s.scan = <<>>
        /\ s.live = FALSE /\ s.scanning = FALSE /\ s.load = FALSE /\ s.read = NoRead
        /\ s.shown = 0 /\ s.index = 1 /\ s.screen = page.screen /\ s.pending = page.pending
    BY <1>1, StopFields
  <2> HIDE DEF s
  <2>3. /\ page' \in Page /\ SameFrames(s, page') /\ SameView(s, page') /\ page'.load = TRUE
        /\ page'.read = s.read /\ page'.index = s.index /\ page'.pending = s.pending
    BY <2>1, <2>2, LoadingFields
  <2>4. /\ page'.blobs = page.blobs /\ page'.rec = <<>> /\ page'.scan = <<>>
        /\ ~page'.live /\ ~page'.scanning /\ page'.read = NoRead /\ page'.shown = 0
        /\ page'.index = 1 /\ page'.screen = page.screen /\ page'.pending = page.pending
    BY <2>2, <2>3 DEF SameFrames, SameView
  <2>5. RecordInv(page') /\ PointsInv(page') /\ ScreenInv(page', n, overtaken)
    BY <1>3, <2>4, EmptySeq DEF RecordInv, PointsInv, ScreenInv
  <2>6. PageInv(page', n, overtaken) /\ Fits(page', limit)
    BY <1>1, <2>3, <2>4, <2>5 DEF PageInv, Fits
  <2>7. limit = 0 => ~page'.live /\ page'.blobs = <<>>
    BY <2>4 DEF HistoryInv
  <2> QED
    BY <1>1, <1>2, <2>6, <2>7 DEF HistoryInv
<1> QED
  BY <1>4, <1>5

LEMMA HistoryStep == HistoryInv /\ [Next]_vars => HistoryInv'
<1> SUFFICES ASSUME HistoryInv, [Next]_vars PROVE HistoryInv'
  OBVIOUS
<1>1. CASE Arrive
  BY <1>1, ArriveStep
<1>2. CASE ScanFrame
  BY <1>2, ScanStep
<1>3. CASE ReadFrame
  BY <1>3, ReadStep
<1>4. CASE GoTo \/ Drag \/ DragRests \/ Pause \/ Resume \/ EndKey \/ FileRead
  BY <1>4, MoveStep
<1>5. CASE MatchBy \/ OpenFile
  BY <1>5, RescanStep
<1>6. CASE UNCHANGED vars
  BY <1>6 DEF vars, HistoryInv
<1> QED
  BY <1>1, <1>2, <1>3, <1>4, <1>5, <1>6 DEF Next

------------------------------------------------------------------------------
LEMMA BeginsPrefix ==
  ASSUME NEW s \in Seq(Nat), NEW b \in Seq(Nat), Begins(s, b)
  PROVE  IsPrefix(s, b)
<1> DEFINE N == Len(s)
           t == SubSeq(b, 1, N)
<1>1. N \in Nat /\ Len(b) \in Nat /\ N <= Len(b) /\ \A i \in 1..N : s[i] = b[i]
  BY LenProperties DEF Begins
<1>2. \A i \in 1..N : b[i] \in Nat
  BY <1>1, ElementOfSeq
<1>3. /\ t \in Seq(Nat) /\ Len(t) = IF 1 <= N THEN N - 1 + 1 ELSE 0
      /\ \A i \in 1..(N - 1 + 1) : t[i] = b[1 + i - 1]
  BY <1>1, <1>2, SubSeqProperties
<1>4. Len(t) = N /\ \A i \in 1..N : s[i] = t[i]
  BY <1>1, <1>3
<1>5. s = t
  BY <1>3, <1>4, SeqEqual
<1>6. SubSeq(s, 1, N) = s
  BY SubSeqFull
<1> QED
  BY <1>1, <1>5, <1>6 DEF IsPrefix

LEMMA HistoryImplies == HistoryInv => HistorySound /\ ShownIsOnScreen
<1> SUFFICES ASSUME HistoryInv PROVE HistorySound /\ ShownIsOnScreen
  OBVIOUS
<1> DEFINE n == arrived
<1>1. /\ n \in 0..MaxFrames /\ n \in Nat /\ PageInv(page, n, overtaken) /\ page \in Page
      /\ Newest(page.blobs, n) /\ RecordInv(page) /\ PointsInv(page)
      /\ ScreenInv(page, n, overtaken)
  BY HistoryAssumption DEF HistoryInv, PageInv
<1>2. /\ Len(page.blobs) \in Nat /\ Len(page.rec) \in Nat /\ Len(page.rec) <= Len(page.blobs)
  BY <1>1, PageFacts
<1>3. /\ page.rec \in Seq(Nat) /\ page.blobs \in Seq(Nat) /\ page.scan \in Seq(Nat)
      /\ page.index \in Nat /\ page.shown \in Nat
  BY <1>1 DEF Page
<1>4. TypeOK
  <2>1. page.rec # <<>> => page.index \in 1..Len(page.rec)
    BY <1>1, <1>2, <1>3 DEF PointsInv
  <2>2. page.shown \in 0..Len(page.blobs)
    BY <1>1, <1>2, <1>3 DEF PointsInv
  <2>3. page.read.frame \in 0..Len(page.blobs)
    <3>1. CASE page.read = NoRead
      BY <1>2, <3>1 DEF NoRead
    <3>2. CASE page.read # NoRead
      <4>1. page.read.frame \in 1..Len(page.rec)
        BY <1>1, <3>2 DEF PointsInv
      <4> QED
        BY <1>2, <4>1
    <3> QED
      BY <3>1, <3>2
  <2> QED
    BY <1>1, <2>1, <2>2, <2>3 DEF TypeOK, HistoryInv, ScreenInv, RecordInv
<1>5. RecordingIsBlobs
  <2>1. SUFFICES ASSUME page.live
                 PROVE  /\ IsPrefix(page.rec, page.blobs) /\ IsPrefix(page.scan, page.blobs)
                        /\ ~page.scanning => page.rec = page.blobs
    BY DEF RecordingIsBlobs
  <2>2. Begins(page.rec, page.blobs) /\ Begins(page.scan, page.blobs)
    <3>1. CASE page.scanning
      BY <1>1, <3>1 DEF RecordInv
    <3>2. CASE ~page.scanning
      BY <1>1, <1>2, <2>1, <3>2, EmptySeq DEF RecordInv, Begins
    <3> QED
      BY <3>1, <3>2
  <2> QED
    BY <1>1, <1>3, <2>1, <2>2, BeginsPrefix DEF RecordInv
<1>6. WithinBound
  <2>1. DOMAIN page.blobs = 1..Len(page.blobs)
    BY <1>3, LenProperties
  <2> QED
    BY <1>1, <2>1 DEF WithinBound, HistoryInv, Fits, Newest
<1>7. ShownIsOnScreen
  BY <1>1 DEF ShownIsOnScreen, ScreenInv
<1> QED
  BY <1>4, <1>5, <1>6, <1>7 DEF HistorySound

LEMMA HistoryAlways == Spec => []HistoryInv
BY HistoryInit, HistoryStep, PTL DEF Spec

\* appendFrame(), rescanLive(), trimHistory(): whatever arrives, is read, dropped or opened, the
\* recording is that of the kept frames, they are the newest ones without a hole, they fit the
\* bound or are a single one, and the timeline points at one of them.
THEOREM HistoryIsSound == Spec => []HistorySound
BY HistoryAlways, HistoryImplies, PTL

\* display(), showNewest(): the frame marked as shown is the one on screen, however its index was
\* shifted by dropped frames, unless the read of Resume was overtaken by Pause and a new frame.
THEOREM ShownIsShown == Spec => []ShownIsOnScreen
BY HistoryAlways, HistoryImplies, PTL

\* trimHistory(): a frame that arrives while the page is paused leaves the timeline on the frame
\* it pointed at, or on the oldest one with a note that the frame was dropped.
THEOREM PausedFrameStays == Spec => PausedStays
<1>1. HistoryInv /\ [Next]_vars
      => [/\ arrived' # arrived /\ ~page.following /\ page.live /\ page.rec # <<>>
          => \/ page'.blobs[page'.index] = page.blobs[page.index]
             \/ page'.index = 1 /\ page'.shownDropped]_vars
  <2> SUFFICES ASSUME HistoryInv, Next, arrived' # arrived,
                      ~page.following /\ page.live /\ page.rec # <<>>
               PROVE  \/ page'.blobs[page'.index] = page.blobs[page.index]
                      \/ page'.index = 1 /\ page'.shownDropped
    OBVIOUS
  <2>1. Arrive
    BY DEF Next, ScanFrame, ReadFrame, GoTo, Drag, DragRests, Pause, Resume, EndKey, MatchBy,
           OpenFile, FileRead
  <2> QED
    BY <2>1, ArriveStep DEF Stays
<1> QED
  BY <1>1, HistoryAlways, PTL DEF Spec, PausedStays
================================================================================
