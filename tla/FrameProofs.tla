------------------------------ MODULE FrameProofs ------------------------------
(***************************************************************************)
(* Theorems about what is shown.                                           *)
(*                                                                         *)
(* Of the decorations of --watch (module Watch), for any pairs, states and *)
(* number of frames a mark is held: the marks and ghost rows on a frame    *)
(* are those of the changes in the last kHoldFrames frames, no more and no *)
(* fewer.                                                                  *)
(*                                                                         *)
(* Of the frame itself (module Frame), for any finite set of endpoints and *)
(* whatever is discovered, filtered and measured: the verdict of a pair is *)
(* the fastest transport its two endpoints have in common; a delivery that *)
(* does not fit the verdict or the traffic is told by a code; the topics,  *)
(* their groups, their missing partners and their companions are those of  *)
(* the endpoints known.                                                    *)
(***************************************************************************)
EXTENDS Watch, Frame, NaturalsInduction, WellFoundedInduction, FiniteSetTheorems,
        SequenceTheorems, TLAPS

\* What happened to pair k between two frames, and `age` frames ago.
Change(before, after, k) ==
  IF k \in DOMAIN after
  THEN IF k \notin DOMAIN before THEN "+" ELSE IF after[k] # before[k] THEN "~" ELSE ""
  ELSE IF k \in DOMAIN before THEN "-" ELSE ""
Aged(f, k, age) == Change(f[Len(f) - age - 1], f[Len(f) - age], k)
Ages(f) == 0..(Len(f) - 2)

\* The newest change of k is `event`, `age` frames ago; or there is none.
Newest(f, k, age, event) ==
  /\ age \in Ages(f) /\ Aged(f, k, age) = event
  /\ \A i \in 0..(age - 1) : Aged(f, k, i) = ""
Quiet(f, k) == \A i \in Ages(f) : Aged(f, k, i) = ""

\* The frames kept are the last kHoldFrames + 1.
FramesInv ==
  /\ frames \in Seq(Views) /\ Len(frames) <= kHoldFrames + 1
  /\ DOMAIN ghost_ttl \subseteq Pairs
  /\ frames = <<>> => DOMAIN mark = {}

\* The time left tells the age of the change that the mark of a row stands for.
MarkInv ==
  \A k \in DOMAIN last_rendered :
    IF k \in DOMAIN mark THEN Newest(frames, k, kHoldFrames - mark_ttl[k], mark[k])
    ELSE Quiet(frames, k)

\* The same of ghosts, which are rows of pairs that are gone.
GhostInv ==
  /\ ghosts = {[key |-> k,
                state |-> frames[Len(frames) - (kHoldFrames - ghost_ttl[k]) - 1][k]]
                 : k \in DOMAIN ghost_ttl}
  /\ \A k \in Pairs :
       IF k \in DOMAIN ghost_ttl
       THEN k \notin DOMAIN last_rendered /\ Newest(frames, k, kHoldFrames - ghost_ttl[k], "-")
       ELSE k \in DOMAIN last_rendered \/ Quiet(frames, k)

WatchInv == TypeOK /\ FramesInv /\ MarkInv /\ GhostInv

------------------------------------------------------------------------------
\* A frame more.
Pushed(f, s) ==
  LET g == Append(f, s) IN IF Len(g) > kHoldFrames + 1 THEN Tail(g) ELSE g

\* The frame pushed is the last, and every age is one more.
LEMMA PushedFrames ==
  ASSUME NEW f \in Seq(Views), Len(f) <= kHoldFrames + 1, NEW s \in Views
  PROVE  LET g == Pushed(f, s)
         IN /\ g \in Seq(Views) /\ g # <<>> /\ Len(g) \in Nat /\ Len(g) <= kHoldFrames + 1
            /\ Len(g) = Len(f) + 1 \/ (Len(g) = Len(f) /\ Len(f) = kHoldFrames + 1)
            /\ g[Len(g)] = s
            /\ \A i \in 1..(Len(g) - 1) : g[Len(g) - i] = f[Len(f) - i + 1]
<1> USE WatchAssumption
<1> DEFINE a == Append(f, s)
<1>1. /\ a \in Seq(Views) /\ Len(a) = Len(f) + 1 /\ a[Len(f) + 1] = s
      /\ \A i \in 1..Len(f) : a[i] = f[i]
  BY AppendProperties
<1>2. Len(f) \in Nat
  OBVIOUS
<1> HIDE DEF a
<1>3. CASE Len(a) <= kHoldFrames + 1
  <2>1. Pushed(f, s) = a
    BY <1>1, <1>2, <1>3 DEF Pushed, a
  <2> QED
    BY <1>1, <1>2, <1>3, <2>1
<1>4. CASE Len(a) > kHoldFrames + 1
  <2>1. Pushed(f, s) = Tail(a)
    BY <1>4 DEF Pushed, a
  <2>2. /\ Tail(a) \in Seq(Views) /\ Len(Tail(a)) = Len(a) - 1
        /\ \A i \in 1..Len(Tail(a)) : Tail(a)[i] = a[i + 1]
    <3>1. a # <<>>
      BY <1>1, <1>2
    <3> QED
      BY <1>1, <3>1, HeadTailProperties
  <2> DEFINE t == Tail(a)
  <2> HIDE DEF t
  <2>3. /\ t \in Seq(Views) /\ Len(t) = Len(f) /\ Len(f) = kHoldFrames + 1
        /\ \A i \in 1..Len(t) : t[i] = a[i + 1]
    BY <1>1, <1>2, <1>4, <2>2 DEF t
  <2>4. t[Len(t)] = s /\ t # <<>>
    BY <1>1, <1>2, <2>3
  <2>5. ASSUME NEW i \in 1..(Len(t) - 1) PROVE t[Len(t) - i] = f[Len(f) - i + 1]
    <3>1. Len(t) - i \in 1..Len(t) /\ Len(f) - i + 1 \in 1..Len(f)
      BY <1>2, <2>3
    <3> QED
      BY <1>1, <1>2, <2>3, <3>1
  <2>6. Pushed(f, s) = t
    BY <2>1 DEF t
  <2> QED
    BY <1>2, <2>3, <2>4, <2>5, <2>6
<1> QED
  BY <1>1, <1>2, <1>3, <1>4

\* Every change is one frame older.
LEMMA PushedAges ==
  ASSUME NEW f \in Seq(Views), Len(f) <= kHoldFrames + 1, NEW s \in Views, f # <<>>, NEW k,
         NEW g, g = Pushed(f, s)
  PROVE  /\ Len(g) \in Nat /\ Len(g) >= 2
         /\ Aged(g, k, 0) = Change(f[Len(f)], s, k)
         /\ \A i \in Ages(g) \ {0} : i - 1 \in Ages(f) /\ Aged(g, k, i) = Aged(f, k, i - 1)
<1> USE WatchAssumption
<1>1. /\ Len(g) \in Nat /\ Len(g) <= kHoldFrames + 1
      /\ Len(g) = Len(f) + 1 \/ (Len(g) = Len(f) /\ Len(f) = kHoldFrames + 1)
      /\ g[Len(g)] = s
      /\ \A i \in 1..(Len(g) - 1) : g[Len(g) - i] = f[Len(f) - i + 1]
  BY PushedFrames
<1>2. Len(f) \in Nat /\ Len(f) >= 1
  BY EmptySeq
<1>3. Len(g) >= 2
  BY <1>1, <1>2
<1>4. Aged(g, k, 0) = Change(f[Len(f)], s, k)
  <2>1. 1 \in 1..(Len(g) - 1) /\ Len(f) - 1 + 1 = Len(f) /\ Len(g) - 0 - 1 = Len(g) - 1
        /\ Len(g) - 0 = Len(g)
    BY <1>1, <1>2, <1>3
  <2>2. g[Len(g) - 0 - 1] = f[Len(f)] /\ g[Len(g) - 0] = s
    BY <1>1, <2>1
  <2> QED
    BY <2>2 DEF Aged
<1>5. ASSUME NEW i \in Ages(g) \ {0}
      PROVE  i - 1 \in Ages(f) /\ Aged(g, k, i) = Aged(f, k, i - 1)
  <2>1. i \in Nat /\ i >= 1 /\ i <= Len(g) - 2
    BY <1>1 DEF Ages
  <2>2. g[Len(g) - i] = f[Len(f) - (i - 1)]
    <3>1. i \in 1..(Len(g) - 1) /\ Len(f) - i + 1 = Len(f) - (i - 1)
      BY <1>1, <1>2, <2>1
    <3> QED
      BY <1>1, <3>1
  <2>3. g[Len(g) - i - 1] = f[Len(f) - (i - 1) - 1]
    <3>1. i + 1 \in 1..(Len(g) - 1) /\ Len(g) - (i + 1) = Len(g) - i - 1
          /\ Len(f) - (i + 1) + 1 = Len(f) - (i - 1) - 1
      BY <1>1, <1>2, <2>1
    <3> QED
      BY <1>1, <3>1
  <2>4. i - 1 \in Ages(f)
    BY <1>1, <1>2, <2>1 DEF Ages
  <2> QED
    BY <2>2, <2>3, <2>4 DEF Aged
<1> QED
  BY <1>1, <1>3, <1>4, <1>5

\* The newest change is the one of this frame, or an older one that is not too old, or none.
LEMMA PushedNewest ==
  ASSUME NEW f \in Seq(Views), Len(f) <= kHoldFrames + 1, NEW s \in Views, f # <<>>, NEW k,
         NEW g, g = Pushed(f, s)
  PROVE  /\ Newest(g, k, 0, Change(f[Len(f)], s, k))
         /\ Change(f[Len(f)], s, k) = "" =>
              /\ Quiet(f, k) => Quiet(g, k)
              /\ \A event : \A age \in Nat :
                   Newest(f, k, age, event) =>
                     /\ age + 1 < kHoldFrames => Newest(g, k, age + 1, event)
                     /\ age + 1 >= kHoldFrames => Quiet(g, k)
<1> USE WatchAssumption
<1>1. /\ Len(g) \in Nat /\ Len(g) >= 2
      /\ Aged(g, k, 0) = Change(f[Len(f)], s, k)
      /\ \A i \in Ages(g) \ {0} : i - 1 \in Ages(f) /\ Aged(g, k, i) = Aged(f, k, i - 1)
  BY PushedAges
<1>2. /\ Len(g) <= kHoldFrames + 1
      /\ Len(g) = Len(f) + 1 \/ (Len(g) = Len(f) /\ Len(f) = kHoldFrames + 1)
  BY PushedFrames
<1>3. Len(f) \in Nat
  OBVIOUS
<1>4. Newest(g, k, 0, Change(f[Len(f)], s, k))
  BY <1>1 DEF Newest, Ages
<1>5. ASSUME Change(f[Len(f)], s, k) = "", Quiet(f, k) PROVE Quiet(g, k)
  BY <1>1, <1>5 DEF Quiet
<1>6. ASSUME Change(f[Len(f)], s, k) = "", NEW age \in Nat, NEW event, Newest(f, k, age, event)
      PROVE  /\ age + 1 < kHoldFrames => Newest(g, k, age + 1, event)
             /\ age + 1 >= kHoldFrames => Quiet(g, k)
  <2>1. /\ age \in Ages(f) /\ Aged(f, k, age) = event
        /\ \A i \in 0..(age - 1) : Aged(f, k, i) = ""
    BY <1>6 DEF Newest
  <2>2. ASSUME age + 1 < kHoldFrames PROVE Newest(g, k, age + 1, event)
    <3>1. age + 1 \in Ages(g) /\ age + 1 # 0 /\ (age + 1) - 1 = age
      <4>1. age \in 0..(Len(f) - 2)
        BY <2>1, Zenon DEF Ages
      <4>2. age + 1 <= Len(g) - 2
        BY <1>1, <1>2, <1>3, <2>2, <4>1
      <4> QED
        BY <1>1, <4>2 DEF Ages
    <3>2. Aged(g, k, age + 1) = event
      BY <1>1, <2>1, <3>1
    <3>3. ASSUME NEW i \in 0..((age + 1) - 1) PROVE Aged(g, k, i) = ""
      <4>1. CASE i = 0
        BY <1>1, <1>6, <4>1
      <4>2. CASE i # 0
        <5>1. i \in Ages(g) \ {0} /\ i - 1 \in 0..(age - 1)
          BY <1>1, <3>1, <4>2 DEF Ages
        <5> QED
          BY <1>1, <2>1, <5>1
      <4> QED
        BY <4>1, <4>2
    <3> QED
      BY <3>1, <3>2, <3>3 DEF Newest
  <2>3. ASSUME age + 1 >= kHoldFrames, NEW i \in Ages(g) PROVE Aged(g, k, i) = ""
    <3>1. CASE i = 0
      BY <1>1, <1>6, <3>1
    <3>2. CASE i # 0
      <4>1. i - 1 \in 0..(age - 1)
        BY <1>1, <1>2, <1>3, <2>3, <3>2 DEF Ages
      <4> QED
        BY <1>1, <2>1, <3>2, <4>1
    <3> QED
      BY <3>1, <3>2
  <2> QED
    BY <2>2, <2>3 DEF Quiet
<1> QED
  BY <1>4, <1>5, <1>6

------------------------------------------------------------------------------
\* What a frame is, and what the maps of marks are.
LEMMA ViewRows ==
  ASSUME NEW f
  PROVE  f \in Views <=> /\ DOMAIN f \subseteq Pairs /\ f = [k \in DOMAIN f |-> f[k]]
                         /\ \A k \in DOMAIN f : f[k] \in States[k]
<1>1. ASSUME f \in Views
      PROVE  /\ DOMAIN f \subseteq Pairs /\ f = [k \in DOMAIN f |-> f[k]]
             /\ \A k \in DOMAIN f : f[k] \in States[k]
  BY <1>1 DEF Views
<1>2. ASSUME DOMAIN f \subseteq Pairs, f = [k \in DOMAIN f |-> f[k]],
             \A k \in DOMAIN f : f[k] \in States[k]
      PROVE  f \in Views
  <2> DEFINE S == DOMAIN f
  <2>1. f \in [S -> UNION {States[k] : k \in S}]
    BY <1>2
  <2>2. f \in {h \in [S -> UNION {States[k] : k \in S}] : \A k \in S : h[k] \in States[k]}
    BY <1>2, <2>1
  <2>3. S \in SUBSET Pairs
    BY <1>2
  <2> QED
    BY <2>2, <2>3 DEF Views
<1> QED
  BY <1>1, <1>2

\* No rows are a view.
LEMMA NoPairsView == NoPairs \in Views
<1>1. DOMAIN NoPairs = {} /\ NoPairs = [k \in DOMAIN NoPairs |-> NoPairs[k]]
  BY DEF NoPairs
<1> QED
  BY <1>1, ViewRows

\* What a set of marks is.
LEMMA MarkRows ==
  ASSUME NEW m
  PROVE  m \in UNION {[S -> {"+", "~"}] : S \in SUBSET Pairs}
         <=> /\ DOMAIN m \subseteq Pairs /\ m \in [DOMAIN m -> {"+", "~"}]
OBVIOUS

\* The loop starts with no frame, no mark and no ghost row.
LEMMA WatchInit == Init => WatchInv
<1> SUFFICES ASSUME Init PROVE WatchInv
  OBVIOUS
<1> USE DEF Init
<1>1. frames \in Seq(Views) /\ Len(frames) = 0
  BY EmptySeq
<1>2. DOMAIN mark = {} /\ DOMAIN mark_ttl = {} /\ DOMAIN ghost_ttl = {}
  OBVIOUS
<1>3. mark \in UNION {[S -> {"+", "~"}] : S \in SUBSET Pairs}
  <2>1. mark \in [DOMAIN mark -> {"+", "~"}]
    OBVIOUS
  <2> QED
    BY <1>2, <2>1, MarkRows
<1>4. {all, paused, force, have_previous} \subseteq BOOLEAN
  OBVIOUS
<1>5. TypeOK
  <2>1. network \in Views /\ snap \in Views /\ last_rendered \in Views
    BY NoPairsView
  <2>2. loop \in {"wait", "collected", "done"} /\ have_previous = (frames # <<>>)
    OBVIOUS
  <2>3. \A ttl \in {mark_ttl, ghost_ttl} : \A k \in DOMAIN ttl : ttl[k] \in 1..kHoldFrames
    BY <1>2
  <2> QED
    BY <1>2, <1>3, <1>4, <2>1, <2>2, <2>3 DEF TypeOK
<1>6. FramesInv
  BY <1>1, <1>2, WatchAssumption DEF FramesInv
<1>7. DOMAIN last_rendered = {} /\ ghosts = {}
  BY DEF NoPairs
<1> HIDE DEF Init
<1>8. \A k : Quiet(frames, k)
  <2>1. Ages(frames) = {}
    BY <1>1 DEF Ages
  <2> QED
    BY <2>1 DEF Quiet
<1>9. MarkInv
  BY <1>7 DEF MarkInv
<1>10. GhostInv
  BY <1>2, <1>7, <1>8 DEF GhostInv
<1> QED
  BY <1>5, <1>6, <1>9, <1>10 DEF WatchInv

------------------------------------------------------------------------------
\* Every step but Paint leaves the decorations and the painted frames alone.
LEMMA DecorationsSame ==
  ASSUME WatchInv, UNCHANGED <<ws, frames>>,
         network' \in Views, snap' \in Views, {all', paused', force'} \subseteq BOOLEAN,
         loop' \in {"wait", "collected", "done"}
  PROVE  WatchInv'
<1>1. UNCHANGED <<last_rendered, have_previous, mark, mark_ttl, ghosts, ghost_ttl, frames>>
  BY DEF ws
<1>2. TypeOK'
  BY <1>1 DEF WatchInv, TypeOK
<1>3. FramesInv' /\ MarkInv' /\ GhostInv'
  BY <1>1 DEF WatchInv, FramesInv, MarkInv, GhostInv
<1> QED
  BY <1>2, <1>3 DEF WatchInv

\* What happens on the network leaves the decorations alone.
LEMMA NetworkKeeps ==
  ASSUME WatchInv, Appear \/ Vanish \/ Alter PROVE WatchInv'
<1>1. network \in Views /\ snap \in Views
      /\ {all, paused, force} \subseteq BOOLEAN /\ loop \in {"wait", "collected", "done"}
  BY DEF WatchInv, TypeOK
<1>2. UNCHANGED <<all, paused, force, loop, snap, ws, frames>>
  BY DEF Appear, Vanish, Alter
<1>3. /\ DOMAIN network \subseteq Pairs /\ network = [k \in DOMAIN network |-> network[k]]
      /\ \A k \in DOMAIN network : network[k] \in States[k]
  BY <1>1, ViewRows
<1>4. ASSUME Appear PROVE network' \in Views
  <2>0. PICK k \in Pairs \ DOMAIN network :
          \E v \in States[k] : network' = Over([x \in {k} |-> v], network)
    BY <1>4 DEF Appear
  <2>1. PICK v \in States[k] : network' = Over([x \in {k} |-> v], network)
    BY <2>0
  <2>2. /\ DOMAIN network' = DOMAIN network \cup {k}
        /\ network' = [x \in DOMAIN network' |-> network'[x]]
        /\ \A x \in DOMAIN network' : network'[x] = IF x = k THEN v ELSE network[x]
    BY <2>1 DEF Over
  <2>3. \A x \in DOMAIN network' : network'[x] \in States[x]
    BY <1>3, <2>1, <2>2
  <2> QED
    BY <1>3, <2>2, <2>3, ViewRows
<1>5. ASSUME Vanish PROVE network' \in Views
  <2>1. PICK k \in DOMAIN network : network' = Only(network, DOMAIN network \ {k})
    BY <1>5 DEF Vanish
  <2>2. /\ DOMAIN network' = DOMAIN network \ {k}
        /\ network' = [x \in DOMAIN network' |-> network'[x]]
        /\ \A x \in DOMAIN network' : network'[x] = network[x]
    BY <2>1 DEF Only
  <2> QED
    BY <1>3, <2>2, ViewRows
<1>6. ASSUME Alter PROVE network' \in Views
  <2>0. PICK k \in DOMAIN network : \E v \in States[k] : network' = [network EXCEPT ![k] = v]
    BY <1>6 DEF Alter
  <2>1. PICK v \in States[k] : network' = [network EXCEPT ![k] = v]
    BY <2>0
  <2>2. /\ DOMAIN network' = DOMAIN network
        /\ network' = [x \in DOMAIN network' |-> network'[x]]
        /\ \A x \in DOMAIN network' : network'[x] = IF x = k THEN v ELSE network[x]
    BY <1>3, <2>1
  <2>3. \A x \in DOMAIN network' : network'[x] \in States[x]
    BY <1>3, <2>1, <2>2
  <2> QED
    BY <1>3, <2>2, <2>3, ViewRows
<1>7. network' \in Views
  BY <1>4, <1>5, <1>6
<1> QED
  BY <1>1, <1>2, <1>7, DecorationsSame

\* So does collecting a frame, and a key.
LEMMA LoopKeeps ==
  ASSUME WatchInv, CollectFrame \/ Key \/ Quit \/ Interrupt PROVE WatchInv'
<1>1. network \in Views /\ snap \in Views
      /\ {all, paused, force} \subseteq BOOLEAN /\ loop \in {"wait", "collected", "done"}
  BY DEF WatchInv, TypeOK
<1>2. UNCHANGED <<network, ws, frames>> /\ loop' \in {"wait", "collected", "done"}
  BY <1>1 DEF CollectFrame, Key, Quit, Interrupt
<1>3. View(network, all) \in Views
  <2> DEFINE v == View(network, all)
  <2>1. /\ DOMAIN v \subseteq DOMAIN network /\ v = [k \in DOMAIN v |-> v[k]]
        /\ \A k \in DOMAIN v : v[k] = network[k]
    BY DEF View
  <2> HIDE DEF v
  <2>2. v \in Views
    BY <1>1, <2>1, ViewRows
  <2> QED
    BY <2>2 DEF v
<1>4. snap' \in Views
  BY <1>1, <1>3, NoPairsView DEF CollectFrame, Key, Quit, Interrupt
<1>5. {all', paused', force'} \subseteq BOOLEAN
  <2>1. CASE Key
    <3>1. PICK key \in {"p", "a", "v"} :
            paused' = (paused # (key = "p")) /\ all' = (all # (key = "a")) /\ force' = TRUE
      BY <2>1 DEF Key
    <3> QED
      BY <3>1, Zenon
  <2>2. CASE CollectFrame
    BY <1>1, <2>2, Zenon DEF CollectFrame
  <2>3. CASE Quit \/ Interrupt
    BY <1>1, <2>3, Zenon DEF Quit, Interrupt
  <2> QED
    BY <2>1, <2>2, <2>3
<1> QED
  BY <1>1, <1>2, <1>4, <1>5, DecorationsSame

------------------------------------------------------------------------------
\* Paint: the changes are those between the two newest frames.
LEMMA ChangesAre ==
  ASSUME NEW before, NEW after, NEW k
  PROVE  /\ k \in diff(before, after).added <=> Change(before, after, k) = "+"
         /\ k \in diff(before, after).removed <=> Change(before, after, k) = "-"
         /\ k \in diff(before, after).changed <=> Change(before, after, k) = "~"
         /\ k \in DOMAIN after => Change(before, after, k) \in {"+", "~", ""}
         /\ k \notin DOMAIN after => Change(before, after, k) \in {"-", ""}
         /\ Change(before, after, k) = "" => (k \in DOMAIN before <=> k \in DOMAIN after)
         /\ Change(before, after, k) = "-" => k \in DOMAIN before
BY DEF diff, Change

\* Marks and ghosts after Paint, written out.
LEMMA PaintedMaps ==
  ASSUME WatchInv, Paint
  PROVE  LET c == ChangesOf(snap)
             older == {k \in DOMAIN mark_ttl : mark_ttl[k] > 1}
             kept == {k \in DOMAIN ghost_ttl : ghost_ttl[k] > 1}
         IN /\ mark' = [k \in c.added \cup c.changed \cup older |->
                          IF k \in c.changed THEN "~" ELSE IF k \in c.added THEN "+" ELSE mark[k]]
            /\ mark_ttl' = [k \in c.added \cup c.changed \cup older |->
                              IF k \in c.added \cup c.changed THEN kHoldFrames
                              ELSE mark_ttl[k] - 1]
            /\ ghost_ttl' = [k \in (c.removed \cup kept) \ c.added |->
                               IF k \in c.removed THEN kHoldFrames ELSE ghost_ttl[k] - 1]
            /\ ghosts' = {x \in ghosts : x.key \notin (DOMAIN ghost_ttl \ kept)
                                                        \cup c.removed \cup c.added}
                          \cup {[key |-> k, state |-> last_rendered[k]] : k \in c.removed}
<1> DEFINE c == ChangesOf(snap)
           older == {k \in DOMAIN mark_ttl : mark_ttl[k] > 1}
           kept == {k \in DOMAIN ghost_ttl : ghost_ttl[k] > 1}
<1>1. /\ mark' = NewMarks(c) /\ mark_ttl' = NewMarkTtl(c)
      /\ ghosts' = NewGhosts(c) /\ ghost_ttl' = NewGhostTtl(c)
  BY DEF Paint
<1> HIDE DEF c
<1>2. /\ Older(mark_ttl) = [k \in older |-> mark_ttl[k] - 1] /\ DOMAIN Older(mark_ttl) = older
      /\ Older(ghost_ttl) = [k \in kept |-> ghost_ttl[k] - 1] /\ DOMAIN Older(ghost_ttl) = kept
  BY DEF Older
<1> HIDE DEF older, kept
<1>3. mark' = [k \in c.added \cup c.changed \cup older |->
                 IF k \in c.changed THEN "~" ELSE IF k \in c.added THEN "+" ELSE mark[k]]
  BY <1>1, <1>2 DEF NewMarks, Over, Only
<1>4. mark_ttl' = [k \in c.added \cup c.changed \cup older |->
                     IF k \in c.added \cup c.changed THEN kHoldFrames ELSE mark_ttl[k] - 1]
  BY <1>1, <1>2 DEF NewMarkTtl, Over, Held
<1>5. ghost_ttl' = [k \in (c.removed \cup kept) \ c.added |->
                      IF k \in c.removed THEN kHoldFrames ELSE ghost_ttl[k] - 1]
  BY <1>1, <1>2 DEF NewGhostTtl, Over, Only, Held
<1>6. ghosts' = {x \in ghosts : x.key \notin (DOMAIN ghost_ttl \ kept)
                                              \cup c.removed \cup c.added}
                \cup {[key |-> k, state |-> last_rendered[k]] : k \in c.removed}
  BY <1>1, <1>2 DEF NewGhosts, KeptGhosts, WithoutGhosts, GhostRows, Expired
<1> QED
  BY <1>3, <1>4, <1>5, <1>6 DEF c, older, kept

\* Painting keeps the types.
LEMMA PaintTypes ==
  ASSUME WatchInv, Paint PROVE TypeOK' /\ FramesInv'
<1> USE WatchAssumption
<1> DEFINE c == ChangesOf(snap)
           older == {k \in DOMAIN mark_ttl : mark_ttl[k] > 1}
           kept == {k \in DOMAIN ghost_ttl : ghost_ttl[k] > 1}
<1>1. /\ loop' = "wait" /\ last_rendered' = snap /\ have_previous' = TRUE /\ snap' = NoPairs
      /\ UNCHANGED <<network, all, paused, force>> /\ frames' = Pushed(frames, snap)
  BY DEF Paint, Pushed
<1>2. /\ network \in Views /\ snap \in Views /\ last_rendered \in Views
      /\ {all, paused, force} \subseteq BOOLEAN
      /\ DOMAIN mark_ttl = DOMAIN mark /\ DOMAIN mark \subseteq Pairs
      /\ mark \in [DOMAIN mark -> {"+", "~"}]
      /\ \A k \in DOMAIN mark : mark_ttl[k] \in 1..kHoldFrames
      /\ \A k \in DOMAIN ghost_ttl : ghost_ttl[k] \in 1..kHoldFrames
      /\ DOMAIN ghost_ttl \subseteq Pairs
  BY MarkRows DEF WatchInv, TypeOK, FramesInv
<1>3. frames \in Seq(Views) /\ Len(frames) <= kHoldFrames + 1
  BY DEF WatchInv, FramesInv
<1>4. /\ frames' \in Seq(Views) /\ frames' # <<>> /\ Len(frames') <= kHoldFrames + 1
      /\ frames'[Len(frames')] = snap
  BY <1>1, <1>2, <1>3, PushedFrames
<1>5. DOMAIN snap \subseteq Pairs /\ DOMAIN last_rendered \subseteq Pairs
  BY <1>2, ViewRows
<1>6. c.added \subseteq Pairs /\ c.changed \subseteq Pairs /\ c.removed \subseteq Pairs
  BY <1>5 DEF ChangesOf, diff
<1> HIDE DEF c
<1>7. /\ mark' = [k \in c.added \cup c.changed \cup older |->
                   IF k \in c.changed THEN "~" ELSE IF k \in c.added THEN "+" ELSE mark[k]]
      /\ mark_ttl' = [k \in c.added \cup c.changed \cup older |->
                        IF k \in c.added \cup c.changed THEN kHoldFrames ELSE mark_ttl[k] - 1]
      /\ ghost_ttl' = [k \in (c.removed \cup kept) \ c.added |->
                         IF k \in c.removed THEN kHoldFrames ELSE ghost_ttl[k] - 1]
  BY PaintedMaps DEF c
<1>8. mark' \in UNION {[S -> {"+", "~"}] : S \in SUBSET Pairs}
  <2>1. DOMAIN mark' \subseteq Pairs /\ mark' \in [DOMAIN mark' -> {"+", "~"}]
    BY <1>2, <1>6, <1>7
  <2> QED
    BY <2>1, MarkRows
<1>9. DOMAIN mark_ttl' = DOMAIN mark'
  BY <1>7
<1>10. \A k \in DOMAIN mark_ttl' : mark_ttl'[k] \in 1..kHoldFrames
  BY <1>2, <1>7
<1>11. \A k \in DOMAIN ghost_ttl' : ghost_ttl'[k] \in 1..kHoldFrames
  BY <1>2, <1>7
<1>12. DOMAIN ghost_ttl' \subseteq Pairs
  BY <1>2, <1>6, <1>7
<1>13. {all, paused, force, have_previous}' \subseteq BOOLEAN
  BY <1>1, <1>2
<1>14. TypeOK'
  BY <1>1, <1>2, <1>4, <1>8, <1>9, <1>10, <1>11, <1>13, NoPairsView DEF TypeOK
<1> QED
  BY <1>4, <1>12, <1>14 DEF FramesInv

\* Without a frame before it, a frame has neither marks nor ghosts.
LEMMA FirstPaint ==
  ASSUME WatchInv, Paint, frames = <<>> PROVE MarkInv' /\ GhostInv'
<1>1. frames \in Seq(Views) /\ Len(frames) = 0
  BY DEF WatchInv, FramesInv
<1>2. Ages(frames) = {}
  BY <1>1 DEF Ages
<1>3. DOMAIN ghost_ttl = {}
  BY <1>2 DEF WatchInv, FramesInv, GhostInv, Newest
<1>4. DOMAIN mark = {} /\ DOMAIN mark_ttl = {} /\ ~have_previous
  BY DEF WatchInv, FramesInv, TypeOK
<1>5. ghosts = {}
  BY <1>3 DEF WatchInv, GhostInv
<1>6. LET c == ChangesOf(snap) IN c.added = {} /\ c.removed = {} /\ c.changed = {}
  BY <1>4 DEF ChangesOf
<1>7. DOMAIN mark' = {} /\ DOMAIN ghost_ttl' = {} /\ ghosts' = {}
  BY <1>3, <1>4, <1>5, <1>6, PaintedMaps
<1>8. \A k : Quiet(frames', k)
  <2>1. frames' = Pushed(frames, snap) /\ snap \in Views
    BY DEF Paint, Pushed, WatchInv, TypeOK
  <2>2. Len(frames) <= kHoldFrames + 1
    BY DEF WatchInv, FramesInv
  <2>3. Len(frames') = Len(frames) + 1 \/ Len(frames') = Len(frames)
    BY <1>1, <2>1, <2>2, PushedFrames
  <2>4. Len(frames') \in {0, 1}
    BY <1>1, <2>3
  <2>5. Ages(frames') = {}
    <3> DEFINE n == Len(frames')
    <3>1. n \in {0, 1}
      BY <2>4
    <3> HIDE DEF n
    <3>2. 0..(n - 2) = {}
      BY <3>1
    <3> QED
      BY <3>2 DEF Ages, n
  <2> QED
    BY <2>5 DEF Quiet
<1>9. MarkInv'
  BY <1>7, <1>8 DEF MarkInv
<1>10. GhostInv'
  BY <1>7, <1>8 DEF GhostInv
<1> QED
  BY <1>9, <1>10

\* What happens to a row of a frame that has one before it.
LEMMA PaintMarks ==
  ASSUME WatchInv, Paint, frames # <<>> PROVE MarkInv'
<1> USE WatchAssumption
<1> DEFINE c == ChangesOf(snap)
           older == {k \in DOMAIN mark_ttl : mark_ttl[k] > 1}
           last == frames[Len(frames)]
<1>1. /\ frames \in Seq(Views) /\ Len(frames) <= kHoldFrames + 1 /\ snap \in Views
      /\ frames' = Pushed(frames, snap) /\ last_rendered' = snap
  BY DEF WatchInv, TypeOK, FramesInv, Paint, Pushed
<1>2. have_previous /\ last_rendered = last
  BY DEF WatchInv, TypeOK
<1>3. c = diff(last, snap)
  BY <1>2 DEF ChangesOf
<1> HIDE DEF c, last
<1>4. /\ mark' = [k \in c.added \cup c.changed \cup older |->
                   IF k \in c.changed THEN "~" ELSE IF k \in c.added THEN "+" ELSE mark[k]]
      /\ mark_ttl' = [k \in c.added \cup c.changed \cup older |->
                        IF k \in c.added \cup c.changed THEN kHoldFrames ELSE mark_ttl[k] - 1]
  BY PaintedMaps DEF c
<1>5. DOMAIN mark_ttl = DOMAIN mark /\ \A k \in DOMAIN mark : mark_ttl[k] \in 1..kHoldFrames
  BY DEF WatchInv, TypeOK
<1>6. ASSUME NEW k \in DOMAIN snap
      PROVE  IF k \in DOMAIN mark' THEN Newest(frames', k, kHoldFrames - mark_ttl'[k], mark'[k])
             ELSE Quiet(frames', k)
  <2> DEFINE event == Change(last, snap, k)
  <2>1. /\ k \in c.added <=> event = "+"
        /\ k \in c.changed <=> event = "~"
        /\ event \in {"+", "~", ""} /\ (event = "" => k \in DOMAIN last)
    BY <1>3, ChangesAre
  <2>2. /\ Newest(frames', k, 0, event)
        /\ event = "" =>
             /\ Quiet(frames, k) => Quiet(frames', k)
             /\ \A e : \A age \in Nat :
                  Newest(frames, k, age, e) =>
                    /\ age + 1 < kHoldFrames => Newest(frames', k, age + 1, e)
                    /\ age + 1 >= kHoldFrames => Quiet(frames', k)
    BY <1>1, PushedNewest DEF last
  <2> HIDE DEF event
  <2>3. CASE event # ""
    <3>1. k \in c.added \cup c.changed /\ (event = "+" => k \notin c.changed)
      BY <2>1, <2>3
    <3>2. k \in DOMAIN mark' /\ mark_ttl'[k] = kHoldFrames /\ mark'[k] = event
      BY <1>4, <2>1, <2>3, <3>1
    <3>3. kHoldFrames - mark_ttl'[k] = 0
      BY <3>2
    <3> QED
      BY <2>2, <3>2, <3>3
  <2>4. CASE event = ""
    <3>1. k \notin c.added \cup c.changed /\ k \in DOMAIN last_rendered
      BY <1>2, <2>1, <2>4
    <3>2. k \in DOMAIN mark' <=> k \in older
      BY <1>4, <3>1
    <3>3. CASE k \in DOMAIN mark
      <4> DEFINE age == kHoldFrames - mark_ttl[k]
      <4>1. Newest(frames, k, age, mark[k])
        BY <3>1, <3>3 DEF WatchInv, MarkInv
      <4>2. mark_ttl[k] \in 1..kHoldFrames
        BY <1>5, <3>3
      <4>3. age \in Nat
        BY <4>2
      <4>4. CASE mark_ttl[k] > 1
        <5>1. k \in older /\ mark'[k] = mark[k] /\ mark_ttl'[k] = mark_ttl[k] - 1
          BY <1>4, <1>5, <3>1, <3>3, <4>4
        <5>2. age + 1 < kHoldFrames /\ kHoldFrames - mark_ttl'[k] = age + 1
          BY <4>2, <4>4, <5>1
        <5> HIDE DEF age
        <5>3. Newest(frames', k, age + 1, mark[k])
          BY <2>2, <2>4, <4>1, <4>3, <5>2
        <5> QED
          BY <3>2, <5>1, <5>2, <5>3
      <4>5. CASE mark_ttl[k] = 1
        <5>1. k \notin older
          BY <4>5
        <5>2. age + 1 >= kHoldFrames
          BY <4>5
        <5> HIDE DEF age
        <5>3. Quiet(frames', k)
          BY <2>2, <2>4, <4>1, <4>3, <5>2
        <5> QED
          BY <3>2, <5>1, <5>3
      <4> QED
        BY <4>2, <4>4, <4>5
    <3>4. CASE k \notin DOMAIN mark
      <4>1. Quiet(frames, k) /\ k \notin older
        BY <1>5, <3>1, <3>4 DEF WatchInv, MarkInv
      <4> QED
        BY <2>2, <2>4, <3>2, <4>1
    <3> QED
      BY <3>3, <3>4
  <2> QED
    BY <2>3, <2>4
<1> QED
  BY <1>1, <1>6 DEF MarkInv

\* The state a ghost row shows stays in the frame it comes from, one frame further back.
LEMMA PushedState ==
  ASSUME NEW f \in Seq(Views), Len(f) <= kHoldFrames + 1, NEW s \in Views, f # <<>>,
         NEW g, g = Pushed(f, s)
  PROVE  /\ g[Len(g) - 0 - 1] = f[Len(f)]
         /\ \A age \in Nat : age + 1 \in Ages(g) =>
              g[Len(g) - (age + 1) - 1] = f[Len(f) - age - 1]
<1> USE WatchAssumption
<1>1. /\ Len(g) \in Nat
      /\ \A i \in 1..(Len(g) - 1) : g[Len(g) - i] = f[Len(f) - i + 1]
  BY PushedFrames
<1>2. Len(f) \in Nat /\ Len(g) >= 2
  BY PushedAges
<1>3. g[Len(g) - 0 - 1] = f[Len(f)]
  <2>1. 1 \in 1..(Len(g) - 1) /\ Len(f) - 1 + 1 = Len(f) /\ Len(g) - 0 - 1 = Len(g) - 1
    BY <1>1, <1>2
  <2> QED
    BY <1>1, <2>1
<1>4. ASSUME NEW age \in Nat, age + 1 \in Ages(g)
      PROVE  g[Len(g) - (age + 1) - 1] = f[Len(f) - age - 1]
  <2>1. age + 1 \in 0..(Len(g) - 2)
    BY <1>4, Zenon DEF Ages
  <2>2. /\ age + 2 \in 1..(Len(g) - 1) /\ Len(g) - (age + 1) - 1 = Len(g) - (age + 2)
        /\ Len(f) - (age + 2) + 1 = Len(f) - age - 1
    BY <1>1, <1>2, <2>1
  <2> QED
    BY <1>1, <2>2
<1> QED
  BY <1>3, <1>4

\* Painting: the ghost rows tell the age of the change they stand for.
LEMMA PaintGhosts ==
  ASSUME WatchInv, Paint, frames # <<>> PROVE GhostInv'
<1> USE WatchAssumption
<1> DEFINE c == ChangesOf(snap)
           kept == {k \in DOMAIN ghost_ttl : ghost_ttl[k] > 1}
           last == frames[Len(frames)]
           Was(k) == frames[Len(frames) - (kHoldFrames - ghost_ttl[k]) - 1][k]
           WasNew(k) == frames'[Len(frames') - (kHoldFrames - ghost_ttl'[k]) - 1][k]
<1>1. /\ frames \in Seq(Views) /\ Len(frames) <= kHoldFrames + 1 /\ snap \in Views
      /\ frames' = Pushed(frames, snap) /\ last_rendered' = snap
  BY DEF WatchInv, TypeOK, FramesInv, Paint, Pushed
<1>2. have_previous /\ last_rendered = last
  BY DEF WatchInv, TypeOK
<1>3. c = diff(last, snap)
  BY <1>2 DEF ChangesOf
<1>4. last \in Views
  <2>1. Len(frames) \in 1..Len(frames)
    BY <1>1, EmptySeq
  <2> QED
    BY <1>1, <2>1, ElementOfSeq
<1> HIDE DEF c, last
<1>5. /\ ghost_ttl' = [k \in (c.removed \cup kept) \ c.added |->
                         IF k \in c.removed THEN kHoldFrames ELSE ghost_ttl[k] - 1]
      /\ ghosts' = {x \in ghosts : x.key \notin (DOMAIN ghost_ttl \ kept)
                                                  \cup c.removed \cup c.added}
                    \cup {[key |-> k, state |-> last_rendered[k]] : k \in c.removed}
  BY PaintedMaps DEF c
<1>6. /\ DOMAIN ghost_ttl \subseteq Pairs
      /\ \A k \in DOMAIN ghost_ttl : ghost_ttl[k] \in 1..kHoldFrames
  BY DEF WatchInv, TypeOK, FramesInv
<1>7. /\ ghosts = {[key |-> k, state |-> Was(k)] : k \in DOMAIN ghost_ttl}
      /\ \A k \in Pairs :
           IF k \in DOMAIN ghost_ttl
           THEN k \notin DOMAIN last_rendered
                /\ Newest(frames, k, kHoldFrames - ghost_ttl[k], "-")
           ELSE k \in DOMAIN last_rendered \/ Quiet(frames, k)
  BY DEF WatchInv, GhostInv
<1>8. ASSUME NEW k
      PROVE  /\ k \in c.added <=> Change(last, snap, k) = "+"
             /\ k \in c.removed <=> Change(last, snap, k) = "-"
             /\ k \in DOMAIN snap => Change(last, snap, k) \in {"+", "~", ""}
             /\ k \notin DOMAIN snap => Change(last, snap, k) \in {"-", ""}
             /\ Change(last, snap, k) = "" => (k \in DOMAIN last <=> k \in DOMAIN snap)
             /\ Change(last, snap, k) = "-" => k \in DOMAIN last
             /\ Change(last, snap, k) = "~" => k \in DOMAIN last
  BY <1>3, ChangesAre DEF Change
<1>9. ASSUME NEW k \in kept, k \notin c.added
      PROVE  /\ k \notin DOMAIN snap /\ k \notin c.removed
             /\ ghost_ttl'[k] = ghost_ttl[k] - 1
             /\ Newest(frames', k, kHoldFrames - ghost_ttl'[k], "-")
             /\ WasNew(k) = Was(k)
  <2> DEFINE age == kHoldFrames - ghost_ttl[k]
  <2>1. k \in Pairs /\ k \notin DOMAIN last /\ Newest(frames, k, age, "-")
    BY <1>2, <1>6, <1>7
  <2>2. Change(last, snap, k) = "" /\ k \notin DOMAIN snap /\ k \notin c.removed
    BY <1>8, <1>9, <2>1
  <2>3. ghost_ttl'[k] = ghost_ttl[k] - 1
    BY <1>5, <1>9, <2>2
  <2>4. /\ age \in Nat /\ age + 1 < kHoldFrames /\ kHoldFrames - ghost_ttl'[k] = age + 1
        /\ ghost_ttl[k] \in 1..kHoldFrames
    BY <1>6, <2>3
  <2>5. Was(k) = frames[Len(frames) - age - 1][k]
    OBVIOUS
  <2> HIDE DEF age
  <2>6. Newest(frames', k, age + 1, "-")
    BY <1>1, <2>1, <2>2, <2>4, PushedNewest DEF last
  <2>7. age + 1 \in Ages(frames')
    BY <2>6 DEF Newest
  <2>8. frames'[Len(frames') - (age + 1) - 1] = frames[Len(frames) - age - 1]
    BY <1>1, <2>4, <2>7, PushedState, ZenonT(60)
  <2>9. WasNew(k) = frames'[Len(frames') - (age + 1) - 1][k]
    BY <2>4
  <2> QED
    BY <2>2, <2>3, <2>4, <2>5, <2>6, <2>8, <2>9
<1>10. ASSUME NEW k \in c.removed
       PROVE  /\ k \notin DOMAIN snap /\ k \notin c.added
              /\ ghost_ttl'[k] = kHoldFrames
              /\ Newest(frames', k, kHoldFrames - ghost_ttl'[k], "-")
              /\ WasNew(k) = last_rendered[k]
  <2>1. Change(last, snap, k) = "-" /\ k \notin DOMAIN snap /\ k \notin c.added
    BY <1>8
  <2>2. ghost_ttl'[k] = kHoldFrames
    BY <1>5, <2>1
  <2>3. kHoldFrames - ghost_ttl'[k] = 0
    BY <2>2
  <2>4. Newest(frames', k, 0, "-")
    <3>1. Newest(frames', k, 0, Change(last, snap, k))
      BY <1>1, PushedNewest DEF last
    <3> QED
      BY <2>1, <3>1
  <2>5. frames'[Len(frames') - 0 - 1] = last
    BY <1>1, PushedState DEF last
  <2>6. WasNew(k) = frames'[Len(frames') - 0 - 1][k]
    BY <2>3
  <2> QED
    BY <1>2, <2>1, <2>2, <2>3, <2>4, <2>5, <2>6
<1>11. ASSUME NEW k \in Pairs
       PROVE  IF k \in DOMAIN ghost_ttl'
              THEN k \notin DOMAIN snap /\ Newest(frames', k, kHoldFrames - ghost_ttl'[k], "-")
              ELSE k \in DOMAIN snap \/ Quiet(frames', k)
  <2>1. CASE k \in DOMAIN ghost_ttl'
    <3>1. k \in c.removed \/ (k \in kept /\ k \notin c.added)
      BY <1>5, <2>1
    <3> QED
      BY <1>9, <1>10, <2>1, <3>1
  <2>2. CASE k \notin DOMAIN ghost_ttl' /\ k \notin DOMAIN snap
    <3>1. k \notin c.removed /\ k \notin c.added /\ k \notin kept
      BY <1>5, <1>8, <2>2
    <3>2. Change(last, snap, k) = "" /\ k \notin DOMAIN last
      BY <1>8, <2>2, <3>1
    <3>3. CASE k \in DOMAIN ghost_ttl
      <4>1. ghost_ttl[k] = 1
        BY <1>6, <3>1, <3>3
      <4> DEFINE age == kHoldFrames - ghost_ttl[k]
      <4>2. Newest(frames, k, age, "-")
        BY <1>7, <3>3
      <4>3. age \in Nat /\ age + 1 >= kHoldFrames
        BY <4>1
      <4> HIDE DEF age
      <4>4. Quiet(frames', k)
        BY <1>1, <3>2, <4>2, <4>3, PushedNewest DEF last
      <4> QED
        BY <2>2, <4>4
    <3>4. CASE k \notin DOMAIN ghost_ttl
      <4>1. Quiet(frames, k)
        BY <1>2, <1>7, <3>2, <3>4
      <4>2. Quiet(frames', k)
        BY <1>1, <3>2, <4>1, PushedNewest DEF last
      <4> QED
        BY <2>2, <4>2
    <3> QED
      BY <3>3, <3>4
  <2> QED
    BY <2>1, <2>2
<1> HIDE DEF Was, WasNew
<1>12. ASSUME NEW x \in ghosts'
       PROVE  \E k \in DOMAIN ghost_ttl' : x = [key |-> k, state |-> WasNew(k)]
  <2>1. CASE x \in ghosts /\ x.key \notin (DOMAIN ghost_ttl \ kept) \cup c.removed \cup c.added
    <3>1. PICK k \in DOMAIN ghost_ttl : x = [key |-> k, state |-> Was(k)]
      BY <1>7, <2>1
    <3>2. k \in kept /\ k \notin c.added
      BY <2>1, <3>1
    <3>3. k \in DOMAIN ghost_ttl' /\ WasNew(k) = Was(k)
      BY <1>5, <1>9, <3>2
    <3> QED
      BY <3>1, <3>3
  <2>2. CASE \E k \in c.removed : x = [key |-> k, state |-> last_rendered[k]]
    <3>1. PICK k \in c.removed : x = [key |-> k, state |-> last_rendered[k]]
      BY <2>2
    <3>2. k \in DOMAIN ghost_ttl' /\ WasNew(k) = last_rendered[k]
      BY <1>5, <1>10
    <3> QED
      BY <3>1, <3>2
  <2> QED
    BY <1>5, <2>1, <2>2
<1>13. ASSUME NEW k \in DOMAIN ghost_ttl' PROVE [key |-> k, state |-> WasNew(k)] \in ghosts'
  <2>1. CASE k \in c.removed
    BY <1>5, <1>10, <2>1
  <2>2. CASE k \in kept /\ k \notin c.added /\ k \notin c.removed
    <3>1. WasNew(k) = Was(k) /\ k \in DOMAIN ghost_ttl
      BY <1>9, <2>2
    <3>2. [key |-> k, state |-> Was(k)] \in ghosts
      BY <1>7, <3>1
    <3>3. [key |-> k, state |-> Was(k)].key = k
      OBVIOUS
    <3> HIDE DEF kept
    <3> QED
      BY <1>5, <2>2, <3>1, <3>2, <3>3
  <2> QED
    BY <1>5, <2>1, <2>2
<1>14. ghosts' = {[key |-> k, state |-> WasNew(k)] : k \in DOMAIN ghost_ttl'}
  BY <1>12, <1>13
<1> QED
  BY <1>1, <1>11, <1>14 DEF GhostInv, WasNew

\* The invariant of the watch loop holds.
LEMMA WatchInvariant == Spec => []WatchInv
<1>1. WatchInv /\ [Next]_vars => WatchInv'
  <2> SUFFICES ASSUME WatchInv, [Next]_vars PROVE WatchInv'
    OBVIOUS
  <2>1. CASE Appear \/ Vanish \/ Alter
    BY <2>1, NetworkKeeps
  <2>2. CASE CollectFrame \/ Key \/ Quit \/ Interrupt
    BY <2>2, LoopKeeps
  <2>3. CASE Paint
    BY <2>3, PaintTypes, FirstPaint, PaintMarks, PaintGhosts DEF WatchInv
  <2>4. CASE UNCHANGED vars
    <3>1. UNCHANGED <<ws, frames>> /\ UNCHANGED <<network, snap, all, paused, force, loop>>
      BY <2>4 DEF vars
    <3> QED
      BY <3>1, DecorationsSame DEF WatchInv, TypeOK
  <2> QED
    BY <2>1, <2>2, <2>3, <2>4 DEF Next
<1> QED
  BY WatchInit, <1>1, PTL DEF Spec

------------------------------------------------------------------------------
\* The latest of the recent changes is the newest one.
LEMMA NewestIsLatest ==
  ASSUME FramesInv, NEW k
  PROVE  \A event : \A age \in Nat :
           event # "" /\ Newest(frames, k, age, event) =>
             /\ Recent(k) # {} /\ Latest(Recent(k)) = Len(frames) - age
             /\ Event(k, Len(frames) - age) = event
<1> USE WatchAssumption
<1>1. Len(frames) \in Nat /\ Len(frames) <= kHoldFrames + 1
  BY DEF FramesInv
<1>2. ASSUME NEW j PROVE Event(k, j) = Change(frames[j - 1], frames[j], k)
  BY DEF Event, Change
<1>3. ASSUME NEW age \in Nat, NEW event, event # "", Newest(frames, k, age, event)
      PROVE  /\ Recent(k) # {} /\ Latest(Recent(k)) = Len(frames) - age
             /\ Event(k, Len(frames) - age) = event
  <2> DEFINE l == Len(frames) - age
  <2>1. age \in 0..(Len(frames) - 2)
    BY <1>3, Zenon DEF Newest, Ages
  <2>2. /\ Aged(frames, k, age) = event
        /\ \A i \in 0..(age - 1) : Aged(frames, k, i) = ""
    BY <1>3 DEF Newest
  <2>3. l \in 2..Len(frames) /\ l > Len(frames) - kHoldFrames
    BY <1>1, <2>1
  <2>4. Event(k, l) = event
    BY <1>2, <2>2 DEF Aged
  <2>5. ASSUME NEW j \in 2..Len(frames), j > l PROVE Event(k, j) = ""
    <3>1. /\ Len(frames) - j \in 0..(age - 1) /\ Len(frames) - (Len(frames) - j) = j
          /\ Len(frames) - (Len(frames) - j) - 1 = j - 1
      BY <1>1, <2>1, <2>5
    <3>2. Aged(frames, k, Len(frames) - j) = ""
      BY <2>2, <3>1
    <3>3. Event(k, j) = Change(frames[j - 1], frames[j], k)
      BY <1>2
    <3> QED
      BY <3>1, <3>2, <3>3 DEF Aged
  <2> HIDE DEF l
  <2>6. l \in Recent(k)
    BY <1>3, <2>3, <2>4 DEF Recent
  <2>7. ASSUME NEW j \in Recent(k) PROVE j \in Int /\ j <= l
    <3>1. j \in 2..Len(frames) /\ Event(k, j) # ""
      BY DEF Recent
    <3>2. ~(j > l)
      BY <2>5, <3>1
    <3>3. \A x \in 2..Len(frames) : x \in Int
      OBVIOUS
    <3>4. j \in Int /\ l \in Int
      BY <2>3, <3>1, <3>3, Zenon
    <3> QED
      BY <3>2, <3>4
  <2>8. Latest(Recent(k)) = l
    <3> DEFINE S == Recent(k)
    <3>1. l \in S /\ l \in Int /\ \A j \in S : j \in Int /\ j <= l
      BY <2>3, <2>6, <2>7
    <3> HIDE DEF S
    <3>2. Latest(S) \in S /\ \A j \in S : j <= Latest(S)
      BY <3>1 DEF Latest
    <3>3. Latest(S) \in Int /\ Latest(S) <= l /\ l <= Latest(S)
      BY <3>1, <3>2
    <3>4. Latest(S) = l
      BY <3>1, <3>3
    <3> QED
      BY <3>4 DEF S
  <2> QED
    BY <2>4, <2>6, <2>8 DEF l
<1> QED
  BY <1>3

\* A pair with no change in the frames kept has no recent change.
LEMMA QuietIsNone ==
  ASSUME FramesInv, NEW k, Quiet(frames, k) PROVE Recent(k) = {}
<1>1. Len(frames) \in Nat
  BY DEF FramesInv
<1>2. ASSUME NEW j \in 2..Len(frames) PROVE Event(k, j) = ""
  <2>1. /\ Len(frames) - j \in Ages(frames) /\ Len(frames) - (Len(frames) - j) = j
        /\ Len(frames) - (Len(frames) - j) - 1 = j - 1
    BY <1>1 DEF Ages
  <2>2. Aged(frames, k, Len(frames) - j) = ""
    BY <2>1 DEF Quiet
  <2> QED
    BY <2>1, <2>2 DEF Aged, Event, Change
<1> QED
  BY <1>2 DEF Recent

\* WatchState::diff(), keep(): however pairs come, change, go and come back, and whatever view
\* the user switches to, the marks and ghost rows on a frame are exactly those of the changes
\* in the last kHoldFrames frames.
THEOREM DecorationsAreExact == Spec => []DecorationExact
<1>1. WatchInv => MarksExact
  <2> SUFFICES ASSUME WatchInv, NEW k \in DOMAIN last_rendered
               PROVE  IF Recent(k) = {} THEN k \notin DOMAIN mark
                      ELSE k \in DOMAIN mark /\ mark[k] = Event(k, Latest(Recent(k)))
    BY DEF MarksExact
  <2>1. CASE k \in DOMAIN mark
    <3> DEFINE age == kHoldFrames - mark_ttl[k]
    <3>1. Newest(frames, k, age, mark[k]) /\ mark[k] # "" /\ FramesInv
      BY <2>1, MarkRows DEF WatchInv, MarkInv, TypeOK
    <3>2. age \in Nat
      BY <2>1, WatchAssumption DEF WatchInv, TypeOK
    <3> HIDE DEF age
    <3> QED
      BY <2>1, <3>1, <3>2, NewestIsLatest
  <2>2. CASE k \notin DOMAIN mark
    <3>1. Recent(k) = {}
      BY <2>2, QuietIsNone DEF WatchInv, MarkInv
    <3> QED
      BY <2>2, <3>1
  <2> QED
    BY <2>1, <2>2
<1>2. WatchInv => GhostsExact
  <2> SUFFICES ASSUME WatchInv PROVE GhostsExact
    OBVIOUS
  <2> DEFINE gone == {k \in Pairs \ DOMAIN last_rendered : Recent(k) # {}}
             Was(k) == frames[Len(frames) - (kHoldFrames - ghost_ttl[k]) - 1][k]
  <2>1. ASSUME NEW k \in DOMAIN ghost_ttl
        PROVE  k \in gone /\ Was(k) = frames[Latest(Recent(k)) - 1][k]
    <3> DEFINE age == kHoldFrames - ghost_ttl[k]
    <3>1. k \in Pairs /\ FramesInv
      BY DEF WatchInv, FramesInv
    <3>2. k \notin DOMAIN last_rendered /\ Newest(frames, k, age, "-")
      BY <3>1 DEF WatchInv, GhostInv
    <3>3. age \in Nat
      BY WatchAssumption DEF WatchInv, TypeOK
    <3>4. Was(k) = frames[Len(frames) - age - 1][k]
      OBVIOUS
    <3> HIDE DEF age
    <3>5. Recent(k) # {} /\ Latest(Recent(k)) = Len(frames) - age
      BY <3>1, <3>2, <3>3, NewestIsLatest
    <3> QED
      BY <3>1, <3>2, <3>4, <3>5
  <2>2. ASSUME NEW k \in gone PROVE k \in DOMAIN ghost_ttl
    BY QuietIsNone DEF WatchInv, GhostInv
  <2>3. ghosts = {[key |-> k, state |-> Was(k)] : k \in DOMAIN ghost_ttl}
    BY DEF WatchInv, GhostInv
  <2>4. DOMAIN ghost_ttl = gone
    BY <2>1, <2>2
  <2> HIDE DEF gone, Was
  <2>5. ghosts = {[key |-> k, state |-> frames[Latest(Recent(k)) - 1][k]] : k \in gone}
    BY <2>1, <2>3, <2>4
  <2> QED
    BY <2>5 DEF GhostsExact, gone
<1>3. WatchInv => DecorationExact
  BY <1>1, <1>2 DEF WatchInv, DecorationExact
<1> QED
  BY WatchInvariant, <1>3, PTL

------------------------------------------------------------------------------
\* A set of naturals has a least element, which is its Min.
LEMMA LeastOf ==
  ASSUME NEW S \in SUBSET Nat, S # {}
  PROVE  Min(S) \in S
<1>1. IsWellFoundedOn(OpToRel(<, Nat), Nat)
  BY NatLessThanWellFounded
<1>2. \E x \in S : \A y \in S : ~(<<y, x>> \in OpToRel(<, Nat))
  BY <1>1, WFMin
<1>3. PICK x \in S : \A y \in S : ~(y < x)
  BY <1>2 DEF OpToRel
<1>4. \A y \in S : x <= y
  BY <1>3
<1> QED
  BY <1>4 DEF Min

\* A set that has 0 and with every number the next one has them all.
LEMMA NumbersInduct ==
  ASSUME NEW S, 0 \in S, \A n \in Nat : n \in S => n + 1 \in S
  PROVE  Nat \subseteq S
<1> SUFFICES ASSUME Nat \ S # {} PROVE FALSE
  OBVIOUS
<1>1. IsWellFoundedOn(OpToRel(<, Nat), Nat)
  BY NatLessThanWellFounded
<1>2. \E x \in Nat \ S : \A y \in Nat \ S : ~(<<y, x>> \in OpToRel(<, Nat))
  BY <1>1, WFMin
<1>3. PICK x \in Nat \ S : \A y \in Nat \ S : ~(y < x)
  BY <1>2 DEF OpToRel
<1>4. x # 0 /\ x - 1 \in Nat /\ x - 1 < x /\ (x - 1) + 1 = x
  OBVIOUS
<1>5. x - 1 \in S
  BY <1>3, <1>4
<1> QED
  BY <1>3, <1>4, <1>5

------------------------------------------------------------------------------
\* A finite set of numbers in ascending order.
LEMMA AscendingIs ==
  ASSUME NEW S \in SUBSET Nat, IsFiniteSet(S)
  PROVE  /\ Cardinality(S) \in Nat /\ Ascending(S) \in [1..Cardinality(S) -> S]
         /\ \A x \in S : \E k \in 1..Cardinality(S) : Ascending(S)[k] = x
<1> DEFINE n == Cardinality(S)
           Under(x) == {y \in S : y < x}
           Rank(x) == Cardinality(Under(x)) + 1
<1>1. n \in Nat
  BY FS_CardinalityType
<1>2. \A x \in S : IsFiniteSet(Under(x)) /\ Cardinality(Under(x)) \in Nat /\ Rank(x) \in 1..n
  <2> TAKE x \in S
  <2>1. IsFiniteSet(S \ {x}) /\ Cardinality(S \ {x}) = n - 1
    BY FS_RemoveElement
  <2>2. Under(x) \subseteq S \ {x}
    OBVIOUS
  <2> HIDE DEF Under, n
  <2>3. IsFiniteSet(Under(x)) /\ Cardinality(Under(x)) <= Cardinality(S \ {x})
    BY <2>1, <2>2, FS_Subset
  <2>4. Cardinality(Under(x)) \in Nat
    BY <2>3, FS_CardinalityType
  <2> QED
    BY <1>1, <2>1, <2>3, <2>4
<1>3. \A x, z \in S : x < z => Rank(x) < Rank(z)
  <2> TAKE x, z \in S
  <2> HAVE x < z
  <2>1. x \in Nat /\ z \in Nat
    OBVIOUS
  <2>2. Under(x) \subseteq Under(z) /\ x \in Under(z) /\ x \notin Under(x)
    <3>1. \A y \in S : y \in Nat /\ (y < x => y < z)
      BY <2>1
    <3>2. ~(x < x)
      BY <2>1
    <3> QED
      BY <3>1, <3>2
  <2> HIDE DEF Under
  <2>3. /\ Cardinality(Under(x)) <= Cardinality(Under(z))
        /\ Cardinality(Under(x)) = Cardinality(Under(z)) => Under(x) = Under(z)
    BY <1>2, <2>2, FS_Subset
  <2> QED
    BY <1>2, <2>2, <2>3
<1> HIDE DEF Rank, n
<1> DEFINE rank == [x \in S |-> Rank(x)]
<1>4. rank \in [S -> 1..n] /\ \A x \in S : rank[x] = Rank(x)
  BY <1>2
<1>5. \A x, z \in S : Rank(x) = Rank(z) => x = z
  <2> TAKE x, z \in S
  <2>1. x \in Nat /\ z \in Nat /\ Rank(x) \in 1..n /\ Rank(z) \in 1..n
    BY <1>2
  <2>2. (x < z => Rank(x) < Rank(z)) /\ (z < x => Rank(z) < Rank(x))
    BY <1>3
  <2> QED
    BY <1>1, <2>1, <2>2
<1> HIDE DEF rank
<1>6. rank \in Injection(S, 1..n)
  BY <1>4, <1>5 DEF Injection, IsInjective
<1>7. IsFiniteSet(1..n) /\ Cardinality(1..n) = n
  <2>1. Cardinality(1..n) = IF 1 > n THEN 0 ELSE n - 1 + 1
    BY <1>1, FS_Interval
  <2> QED
    BY <1>1, <2>1, FS_Interval
<1>8. rank \in Surjection(S, 1..n)
  BY <1>6, <1>7, FS_Injection DEF n
<1>9. \A k \in 1..n : \E x \in S : Rank(x) = k
  BY <1>4, <1>8 DEF Surjection
<1> DEFINE s == [k \in 1..n |-> CHOOSE x \in S : Rank(x) = k]
<1>10. s \in [1..n -> S] /\ \A k \in 1..n : Rank(s[k]) = k
  BY <1>9
<1> HIDE DEF s
<1>11. \A i, j \in DOMAIN s : i < j => s[i] < s[j]
  <2> TAKE i, j \in DOMAIN s
  <2> HAVE i < j
  <2>1. i \in Nat /\ j \in Nat /\ s[i] \in S /\ s[j] \in S /\ Rank(s[i]) = i /\ Rank(s[j]) = j
    BY <1>1, <1>10
  <2>2. s[i] \in Nat /\ s[j] \in Nat
    BY <2>1
  <2>3. ~(s[j] < s[i]) /\ s[i] # s[j]
    <3>1. s[j] < s[i] => Rank(s[j]) < Rank(s[i])
      BY <1>3, <2>1
    <3> QED
      BY <2>1, <3>1
  <2> QED
    BY <2>2, <2>3
<1>12. \E t \in [1..n -> S] : \A i, j \in DOMAIN t : i < j => t[i] < t[j]
  BY <1>10, <1>11
<1> DEFINE a == Ascending(S)
<1>13. a \in [1..n -> S] /\ \A i, j \in DOMAIN a : i < j => a[i] < a[j]
  BY <1>12 DEF Ascending, n
<1> HIDE DEF a
<1>14. \A i, j \in 1..n : a[i] = a[j] => i = j
  <2> TAKE i, j \in 1..n
  <2>0. a[i] \in S /\ a[j] \in S
    BY <1>13
  <2>1. i \in Nat /\ j \in Nat /\ a[i] \in Nat /\ a[j] \in Nat
    <3>1. i \in Nat /\ j \in Nat
      BY <1>1
    <3>2. S \subseteq Nat
      OBVIOUS
    <3> QED
      BY <2>0, <3>1, <3>2
  <2>2. (i < j => a[i] < a[j]) /\ (j < i => a[j] < a[i])
    BY <1>13
  <2> QED
    BY <2>1, <2>2
<1>15. a \in Injection(1..n, S)
  BY <1>13, <1>14 DEF Injection, IsInjective
<1>16. a \in Surjection(1..n, S)
  BY <1>7, <1>15, FS_Injection DEF n
<1> QED
  BY <1>1, <1>13, <1>16 DEF n, a, Surjection

\* The entries of a sequence at some of its positions are a sequence of them.
LEMMA EntriesAre ==
  ASSUME NEW q, NEW P \in SUBSET Nat, IsFiniteSet(P)
  PROVE  /\ Cardinality(P) \in Nat /\ DOMAIN Entries(q, P) = 1..Cardinality(P)
         /\ \A k \in 1..Cardinality(P) : \E i \in P : Entries(q, P)[k] = q[i]
         /\ \A i \in P : \E k \in 1..Cardinality(P) : Entries(q, P)[k] = q[i]
         /\ Entries(q, P) = <<>> <=> P = {}
<1>1. /\ Cardinality(P) \in Nat /\ Ascending(P) \in [1..Cardinality(P) -> P]
      /\ \A x \in P : \E k \in 1..Cardinality(P) : Ascending(P)[k] = x
  BY AscendingIs
<1>2. /\ DOMAIN Entries(q, P) = 1..Cardinality(P)
      /\ \A k \in 1..Cardinality(P) : Entries(q, P)[k] = q[Ascending(P)[k]]
  BY <1>1 DEF Entries
<1>3. Entries(q, P) = <<>> <=> 1..Cardinality(P) = {}
  BY <1>1 DEF Entries
<1>4. P = {} <=> 1..Cardinality(P) = {}
  BY <1>1
<1> QED
  BY <1>1, <1>2, <1>3, <1>4, ZenonT(60)

\* --node: what is left of a sequence are the entries that are kept.
LEMMA PruneIs ==
  ASSUME NEW q, NEW n \in Nat, DOMAIN q = 1..n, NEW K
  PROVE  /\ ToSet(Prune(q, K)) = ToSet(q) \cap K
         /\ Prune(q, K) = <<>> <=> ToSet(q) \cap K = {}
         /\ \E k \in Nat : DOMAIN Prune(q, K) = 1..k
<1> DEFINE kept == {i \in DOMAIN q : q[i] \in K}
<1>1. kept \in SUBSET (1..n) /\ kept \in SUBSET Nat
  OBVIOUS
<1>2. Prune(q, K) = Entries(q, kept)
  BY DEF Prune
<1>3. ToSet(q) \cap K = {q[i] : i \in kept}
  BY DEF ToSet
<1> HIDE DEF kept
<1>4. IsFiniteSet(1..n)
  BY FS_Interval
<1>5. IsFiniteSet(kept)
  BY <1>1, <1>4, FS_Subset
<1> DEFINE e == Entries(q, kept)
           c == Cardinality(kept)
<1>6. /\ c \in Nat /\ DOMAIN e = 1..c
      /\ \A k \in 1..c : \E i \in kept : e[k] = q[i]
      /\ \A i \in kept : \E k \in 1..c : e[k] = q[i]
      /\ e = <<>> <=> kept = {}
  BY <1>1, <1>5, EntriesAre
<1> HIDE DEF e, c
<1>7. ToSet(e) = {q[i] : i \in kept}
  <2>1. ToSet(e) = {e[k] : k \in 1..c}
    BY <1>6 DEF ToSet
  <2>2. \A y \in {e[k] : k \in 1..c} : y \in {q[i] : i \in kept}
    BY <1>6
  <2>3. \A y \in {q[i] : i \in kept} : y \in {e[k] : k \in 1..c}
    BY <1>6
  <2> QED
    BY <2>1, <2>2, <2>3
<1>8. Prune(q, K) = e
  BY <1>2 DEF e
<1>9. ToSet(q) \cap K = {} <=> kept = {}
  BY <1>3
<1> QED
  BY <1>3, <1>6, <1>7, <1>8, <1>9

\* Endpoints in the order of their GUIDs are a sequence of them.
LEMMA GuidOrderIs ==
  ASSUME NEW E \in SUBSET Endpoint, IsFiniteSet(E)
  PROVE  InGuidOrder(E) \in Seq(E) /\ (InGuidOrder(E) = <<>> <=> E = {})
<1> DEFINE G == {e.guid : e \in E}
<1>1. IsFiniteSet(G)
  <2> DEFINE f == [e \in E |-> e.guid]
  <2>1. f \in Surjection(E, G)
    BY DEF Surjection
  <2> QED
    BY <2>1, FS_Surjection
<1>2. G \in SUBSET Nat
  BY DEF Endpoint
<1> HIDE DEF G
<1>3. Cardinality(G) \in Nat /\ Ascending(G) \in [1..Cardinality(G) -> G]
  BY <1>1, <1>2, AscendingIs
<1>4. \A k \in 1..Cardinality(G) : \E e \in E : e.guid = Ascending(G)[k]
  BY <1>3 DEF G
<1>5. InGuidOrder(E) = [k \in 1..Cardinality(G) |-> CHOOSE e \in E : e.guid = Ascending(G)[k]]
  BY <1>3 DEF InGuidOrder, G
<1>6. InGuidOrder(E) \in [1..Cardinality(G) -> E]
  BY <1>4, <1>5
<1>7. InGuidOrder(E) = <<>> <=> 1..Cardinality(G) = {}
  BY <1>3, <1>5
<1>8. G = {} <=> 1..Cardinality(G) = {}
  BY <1>1, <1>2, <1>3, AscendingIs
<1>9. G = {} <=> E = {}
  BY DEF G
<1> QED
  BY <1>3, <1>6, <1>7, <1>8, <1>9, SeqDef

\* A position in the list of all pairs is one of a writer and one of a reader.
LEMMA PairPosition ==
  ASSUME NEW a \in Nat, NEW b \in Nat, NEW i \in 1..(a * b)
  PROVE  ((i - 1) \div b) + 1 \in 1..a /\ ((i - 1) % b) + 1 \in 1..b
<1>1. b > 0 /\ a > 0
  OBVIOUS
<1> DEFINE q == (i - 1) \div b
           r == (i - 1) % b
<1>2. q \in Nat /\ r \in 0..(b - 1) /\ i - 1 = b * q + r
  BY <1>1
<1> HIDE DEF q, r
<1>3. q < a
  <2> SUFFICES ASSUME q >= a PROVE FALSE
    BY <1>2
  <2>1. b * q >= b * a
    BY <1>1, <1>2
  <2> QED
    BY <1>1, <1>2, <2>1
<1> QED
  BY <1>1, <1>2, <1>3 DEF q, r

\* Every writer with every reader.
LEMMA PairsAre ==
  ASSUME NEW E, NEW writers \in Seq(E), NEW readers \in Seq(E)
  PROVE  \E n \in Nat : /\ DOMAIN PairsOf(writers, readers) = 1..n
                        /\ \A i \in 1..n : \E w, r \in E : PairsOf(writers, readers)[i] = Pair(w, r)
<1> DEFINE a == Len(writers)
           b == Len(readers)
           W(i) == ((i - 1) \div b) + 1
           R(i) == ((i - 1) % b) + 1
<1>1. /\ a \in Nat /\ b \in Nat /\ a * b \in Nat
      /\ \A k \in 1..a : writers[k] \in E
      /\ \A k \in 1..b : readers[k] \in E
  <2>1. a \in Nat /\ b \in Nat
    BY LenProperties
  <2>2. a * b \in Nat
    BY <2>1
  <2> QED
    BY <2>1, <2>2, ElementOfSeq
<1>2. PairsOf(writers, readers) = [i \in 1..(a * b) |-> Pair(writers[W(i)], readers[R(i)])]
  BY DEF PairsOf
<1> HIDE DEF a, b
<1>3. \A i \in 1..(a * b) : W(i) \in 1..a /\ R(i) \in 1..b
  BY <1>1, PairPosition
<1> HIDE DEF W, R
<1> QED
  BY <1>1, <1>2, <1>3

\* No pair is left out.
LEMMA PairsComplete ==
  ASSUME NEW E, NEW writers \in Seq(E), NEW readers \in Seq(E),
         NEW w \in ToSet(writers), NEW r \in ToSet(readers)
  PROVE  Pair(w, r) \in ToSet(PairsOf(writers, readers))
<1> DEFINE a == Len(writers)
           b == Len(readers)
<1>1. a \in Nat /\ b \in Nat /\ DOMAIN writers = 1..a /\ DOMAIN readers = 1..b
  BY LenProperties
<1>2. PICK k \in 1..a : w = writers[k]
  BY <1>1 DEF ToSet
<1>3. PICK j \in 1..b : r = readers[j]
  BY <1>1 DEF ToSet
<1> DEFINE i == b * (k - 1) + j
<1>4. PairsOf(writers, readers) =
        [x \in 1..(a * b) |-> Pair(writers[((x - 1) \div b) + 1], readers[((x - 1) % b) + 1])]
  BY DEF PairsOf
<1> HIDE DEF a, b
<1>5. i \in 1..(a * b) /\ a * b \in Nat
  <2>1. k - 1 \in Nat /\ k - 1 <= a - 1 /\ a - 1 \in Nat
    BY <1>1
  <2>2. b * (k - 1) \in Nat /\ b * (k - 1) <= b * (a - 1)
    BY <1>1, <2>1
  <2>3. b * (a - 1) + b = a * b
    BY <1>1
  <2>4. b * (k - 1) + j <= a * b /\ 1 <= b * (k - 1) + j
    BY <1>1, <2>1, <2>2, <2>3
  <2> QED
    BY <1>1, <2>2, <2>4
<1>6. (i - 1) \div b = k - 1 /\ (i - 1) % b = j - 1
  <2> DEFINE q == (i - 1) \div b
             m == (i - 1) % b
  <2>1. b > 0 /\ i - 1 \in Nat /\ i - 1 = b * (k - 1) + (j - 1)
    BY <1>1, <1>5
  <2>2. q \in Nat /\ m \in 0..(b - 1) /\ i - 1 = b * q + m
    BY <1>1, <2>1
  <2> HIDE DEF q, m, i
  <2>3. k - 1 \in Nat /\ j - 1 \in 0..(b - 1)
    BY <1>1
  <2>4. ~(q < k - 1)
    <3> SUFFICES ASSUME q + 1 <= k - 1 PROVE FALSE
      BY <2>2, <2>3
    <3>1. b * (q + 1) <= b * (k - 1) /\ b * (q + 1) = b * q + b
      BY <1>1, <2>1, <2>2, <2>3
    <3> QED
      BY <1>1, <2>1, <2>2, <2>3, <3>1
  <2>5. ~(k - 1 < q)
    <3> SUFFICES ASSUME k <= q PROVE FALSE
      BY <2>2, <2>3
    <3>1. b * k <= b * q /\ b * k = b * (k - 1) + b
      BY <1>1, <2>1, <2>2, <2>3
    <3> QED
      BY <1>1, <2>1, <2>2, <2>3, <3>1
  <2>6. q = k - 1
    BY <2>2, <2>3, <2>4, <2>5
  <2>7. m = j - 1
    BY <1>1, <2>1, <2>2, <2>6
  <2> QED
    BY <2>6, <2>7 DEF q, m
<1> HIDE DEF i
<1>7. PairsOf(writers, readers)[i] = Pair(w, r)
  BY <1>2, <1>3, <1>4, <1>5, <1>6
<1> QED
  BY <1>4, <1>5, <1>7 DEF ToSet

------------------------------------------------------------------------------
\* The locators of an endpoint, in the order Fast DDS walks them.
LEMMA LocatorsOf ==
  ASSUME NEW e \in Endpoint
  PROVE  /\ DOMAIN Announced(e) \in SUBSET Nat
         /\ \A i \in DOMAIN Announced(e) : Announced(e)[i] \in Locator
         /\ ToSet(Announced(e)) = ToSet(e.unicast) \cup ToSet(e.multicast)
<1> DEFINE u == e.unicast
           m == e.multicast
<1>1. u \in Seq(Locator) /\ m \in Seq(Locator)
  BY DEF Endpoint
<1> HIDE DEF u, m
<1>2. /\ u \o m \in Seq(Locator) /\ Len(u \o m) = Len(u) + Len(m)
      /\ \A i \in 1..(Len(u) + Len(m)) : (u \o m)[i] = IF i <= Len(u) THEN u[i] ELSE m[i - Len(u)]
  BY <1>1, ConcatProperties
<1>3. /\ Len(u) \in Nat /\ Len(m) \in Nat
      /\ DOMAIN u = 1..Len(u) /\ DOMAIN m = 1..Len(m) /\ DOMAIN (u \o m) = 1..(Len(u) + Len(m))
  BY <1>1, <1>2, LenProperties
<1>4. \A i \in DOMAIN (u \o m) : (u \o m)[i] \in Locator
  BY <1>2, ElementOfSeq, LenProperties
<1>5. \A i \in DOMAIN u : i \in DOMAIN (u \o m) /\ (u \o m)[i] = u[i]
  BY <1>2, <1>3
<1>6. \A i \in DOMAIN m : Len(u) + i \in DOMAIN (u \o m) /\ (u \o m)[Len(u) + i] = m[i]
  BY <1>2, <1>3
<1>7. \A i \in DOMAIN (u \o m) : (u \o m)[i] \in ToSet(u) \cup ToSet(m)
  <2> TAKE i \in DOMAIN (u \o m)
  <2>1. CASE i <= Len(u)
    BY <1>2, <1>3, <2>1 DEF ToSet
  <2>2. CASE ~(i <= Len(u))
    <3>1. i - Len(u) \in DOMAIN m /\ (u \o m)[i] = m[i - Len(u)]
      BY <1>2, <1>3, <2>2
    <3> QED
      BY <3>1 DEF ToSet
  <2> QED
    BY <2>1, <2>2
<1>8. ToSet(u \o m) = ToSet(u) \cup ToSet(m)
  BY <1>5, <1>6, <1>7 DEF ToSet
<1>9. DOMAIN (u \o m) \in SUBSET Nat
  BY <1>3
<1>10. Announced(e) = u \o m
  BY DEF Announced, u, m
<1> QED
  BY <1>4, <1>8, <1>9, <1>10 DEF u, m

\* The kinds of them, and the transports that two endpoints have in common.
Kinds(e) == {l.kind : l \in ToSet(Announced(e))}
Shares(w, r) ==
  /\ w.host = r.host
  /\ {w.qos.data_sharing, r.qos.data_sharing} \subseteq {"on", "auto"}
  /\ ~(w.qos.domains # {} /\ r.qos.domains # {} /\ w.qos.domains \cap r.qos.domains = {})

\* What the helpers of decide() ask of two endpoints, as sets.
LEMMA CommonIs ==
  ASSUME NEW w \in Endpoint, NEW r \in Endpoint
  PROVE  /\ \A k : has_kind(w, k) <=> k \in Kinds(w)
         /\ \A k : has_kind(r, k) <=> k \in Kinds(r)
         /\ "DATA_SHARING" \notin Kinds(w)
         /\ "DATA_SHARING" \in InCommon(w, r) <=> Shares(w, r)
         /\ \A k : k # "DATA_SHARING" =>
              (k \in InCommon(w, r) <=> /\ k \in Kinds(w) /\ k \in Kinds(r)
                                        /\ k \in NetworkKinds \/ (k = "SHM" /\ w.host = r.host))
<1>1. \A e \in {w, r} : {l.kind : l \in ToSet(e.unicast) \cup ToSet(e.multicast)} = Kinds(e)
  BY LocatorsOf DEF Kinds
<1>2. Kinds(w) \subseteq NetworkKinds \cup {"SHM", "Invalid"}
  BY LocatorsOf DEF Kinds, ToSet, Locator
<1>3. InCommon(w, r) = {k \in Kinds(w) \cap Kinds(r) :
                          k \in NetworkKinds \/ (k = "SHM" /\ w.host = r.host)}
                       \cup (IF Shares(w, r) THEN {"DATA_SHARING"} ELSE {})
  BY <1>1 DEF InCommon, Shares
<1>4. /\ \A k : has_kind(w, k) <=> k \in Kinds(w)
      /\ \A k : has_kind(r, k) <=> k \in Kinds(r)
  BY DEF has_kind, Kinds
<1> QED
  BY <1>2, <1>3, <1>4 DEF NetworkKinds

------------------------------------------------------------------------------
\* decide(): the fields of a verdict, and which of them the last steps leave alone.
Fields == {"transport", "confidence", "locator", "multicast", "reasons", "warnings"}
IsVerdict(v) ==
  DOMAIN v = Fields /\ v.transport \in Transports /\ v.confidence \in {"CERTAIN", "LIKELY"}

\* A verdict has the fields it is given.
LEMMA VerdictIs ==
  ASSUME NEW t, NEW c, NEW reasons, NEW warnings
  PROVE  LET v == Verdict(t, c, reasons, warnings)
         IN /\ DOMAIN v = Fields
            /\ v.transport = t /\ v.confidence = c /\ v.locator = NoLocator
            /\ v.reasons = reasons /\ v.warnings = warnings
BY DEF Verdict, Fields

\* decide_network(): the fastest when neither data sharing nor shared memory is in common.
LEMMA NetworkIs ==
  ASSUME NEW w \in Endpoint, NEW r \in Endpoint, NEW reasons, NEW warnings,
         ~Shares(w, r), "SHM" \notin InCommon(w, r)
  PROVE  LET v == decide_network(w, r, reasons, warnings)
         IN IsVerdict(v) /\ Fastest(v, w, r)
<1> DEFINE v == decide_network(w, r, reasons, warnings)
           common == InCommon(w, r)
           U == Usable(w, r)
<1>1. /\ "DATA_SHARING" \notin common
      /\ common \cap {"SHM", "DATA_SHARING"} = {}
      /\ \A k \in NetworkKinds : k \in common <=> k \in Kinds(w) /\ k \in Kinds(r)
      /\ \A k \in common : k \in NetworkKinds
  BY CommonIs DEF NetworkKinds
<1>2. \A i \in U : /\ i \in DOMAIN Announced(r) /\ Announced(r)[i] \in ToSet(Announced(r))
                   /\ Announced(r)[i].kind \in common /\ Announced(r)[i].kind \in NetworkKinds
  BY <1>1, CommonIs DEF Usable, ToSet, Kinds
<1>3. common # {} => U # {}
  BY <1>1, CommonIs DEF Usable, ToSet, Kinds
<1>4. CASE U # {}
  <2> DEFINE i == Min(U)
             l == Announced(r)[i]
  <2>1. i \in U
    BY <1>4, LeastOf, LocatorsOf DEF Usable
  <2>2. v = [Verdict(l.kind, "CERTAIN", reasons \cup {reason_for[l.kind]}, warnings)
               EXCEPT !.locator = l, !.multicast = i > Len(r.unicast)]
    BY <1>4 DEF decide_network, pick_network_locator
  <2> HIDE DEF i, v, l
  <2>3. /\ DOMAIN v = Fields /\ v.transport = l.kind /\ v.locator = l
        /\ v.confidence = "CERTAIN"
    BY <2>2, VerdictIs DEF Fields
  <2>4. v.transport \in common /\ v.locator.kind = v.transport /\ v.locator \in ToSet(Announced(r))
    BY <1>2, <2>1, <2>3 DEF l
  <2> HIDE DEF common
  <2>5. Fastest(v, w, r)
    BY <1>1, <2>4 DEF Fastest, common
  <2>6. IsVerdict(v)
    BY <1>1, <2>3, <2>4 DEF IsVerdict, Transports
  <2> QED
    BY <2>5, <2>6 DEF v
<1>5. CASE U = {}
  <2>1. \/ v = Verdict("UDPv4", "LIKELY", reasons \cup {"same-host-locators-hidden"}, warnings)
        \/ v = Verdict("NONE", "CERTAIN", reasons \cup {"no-common-transport"}, warnings)
    BY <1>5 DEF decide_network
  <2> HIDE DEF v
  <2>2. /\ DOMAIN v = Fields /\ v.locator = NoLocator
        /\ \/ v.transport = "NONE" /\ v.confidence = "CERTAIN"
           \/ v.transport = "UDPv4" /\ v.confidence = "LIKELY"
    BY <2>1, VerdictIs
  <2>3. common = {}
    BY <1>3, <1>5
  <2>4. Fastest(v, w, r)
    BY <1>1, <2>2, <2>3 DEF Fastest
  <2>5. IsVerdict(v)
    BY <2>2 DEF IsVerdict, Transports, NetworkKinds
  <2> QED
    BY <2>4, <2>5 DEF v
<1> QED
  BY <1>4, <1>5

\* The reasons of data sharing say that both enable it just when they share.
LEMMA SharesSaid ==
  ASSUME NEW w \in Endpoint, NEW r \in Endpoint, w.host = r.host
  PROVE  "datasharing-qos-enabled-both" \in datasharing_reasons(w.qos, r.qos) <=> Shares(w, r)
<1> DEFINE a == w.qos.data_sharing
           b == r.qos.data_sharing
<1>1. a \in {"unknown", "off", "on", "auto"} /\ b \in {"unknown", "off", "on", "auto"}
  BY DEF Endpoint, EndpointQos
<1>2. CASE a = "off"
  BY <1>2 DEF datasharing_reasons, Shares
<1>3. CASE a # "off" /\ b = "off"
  BY <1>3 DEF datasharing_reasons, Shares
<1>4. CASE a # "off" /\ b # "off" /\ "unknown" \in {a, b}
  BY <1>4 DEF datasharing_reasons, Shares
<1>5. CASE a \in {"on", "auto"} /\ b \in {"on", "auto"}
  BY <1>5 DEF datasharing_reasons, Shares
<1> QED
  BY <1>1, <1>2, <1>3, <1>4, <1>5

\* A verdict that claims two IPC namespaces.
LEMMA SplitIs ==
  ASSUME NEW reasons, NEW warnings
  PROVE  /\ IsVerdict(Split(reasons, warnings))
         /\ "shm-ipc-namespace-split" \in Split(reasons, warnings).warnings
BY VerdictIs DEF Split, IsVerdict, Transports

\* decide_shm(): the fastest when there is no data sharing, or the warning of a split.
LEMMA ShmIs ==
  ASSUME NEW w \in Endpoint, NEW r \in Endpoint, NEW reasons, NEW warnings,
         ~Shares(w, r), "SHM" \in InCommon(w, r)
  PROVE  LET v == decide_shm(w, r, reasons, warnings)
         IN /\ IsVerdict(v)
            /\ "shm-ipc-namespace-split" \in v.warnings \/ Fastest(v, w, r)
<1> DEFINE v == decide_shm(w, r, reasons, warnings)
           S == {i \in DOMAIN Announced(r) : Announced(r)[i].kind = "SHM"}
<1>1. CASE ipc_split_reasons(w, r) # {}
  BY <1>1, SplitIs DEF decide_shm
<1>2. CASE ipc_split_reasons(w, r) = {}
  <2>1. S # {}
    BY CommonIs DEF Kinds, ToSet
  <2>2. Min(S) \in S
    BY <2>1, LeastOf, LocatorsOf
  <2> DEFINE l == find_locator(r, "SHM")
  <2>3. l.kind = "SHM" /\ l \in ToSet(Announced(r))
    BY <2>2 DEF find_locator, ToSet
  <2>4. v = [Verdict("SHM", "CERTAIN", reasons \cup {"both-shm-locators"}, warnings)
               EXCEPT !.locator = l]
    BY <1>2 DEF decide_shm
  <2> HIDE DEF v, l
  <2>5. /\ DOMAIN v = Fields /\ v.transport = "SHM" /\ v.locator = l
        /\ v.confidence = "CERTAIN"
    BY <2>4, VerdictIs DEF Fields
  <2>6. "DATA_SHARING" \notin InCommon(w, r)
    BY CommonIs
  <2>7. Fastest(v, w, r)
    BY <2>3, <2>5, <2>6 DEF Fastest
  <2> QED
    BY <2>5, <2>7 DEF v, IsVerdict, Transports
<1> QED
  BY <1>1, <1>2

\* decide_datasharing(): the fastest when the two share, or the warning of a split.
LEMMA DatasharingIs ==
  ASSUME NEW w \in Endpoint, NEW r \in Endpoint, NEW reasons, NEW warnings, Shares(w, r)
  PROVE  LET v == decide_datasharing(w, r, reasons, warnings)
         IN /\ IsVerdict(v)
            /\ "shm-ipc-namespace-split" \in v.warnings \/ Fastest(v, w, r)
<1> DEFINE v == decide_datasharing(w, r, reasons, warnings)
<1>1. \/ \E c : v = Split(c, warnings)
      \/ \E c : v = Verdict("DATA_SHARING", "LIKELY", c, warnings)
  BY DEF decide_datasharing
<1> HIDE DEF v
<1>2. CASE \E c : v = Split(c, warnings)
  BY <1>2, SplitIs DEF v
<1>3. CASE \E c : v = Verdict("DATA_SHARING", "LIKELY", c, warnings)
  <2>1. /\ DOMAIN v = Fields /\ v.transport = "DATA_SHARING" /\ v.locator = NoLocator
        /\ v.confidence = "LIKELY"
    BY <1>3, VerdictIs
  <2>2. "DATA_SHARING" \in InCommon(w, r)
    BY CommonIs
  <2>3. Fastest(v, w, r)
    BY <2>1, <2>2 DEF Fastest
  <2> QED
    BY <2>1, <2>3 DEF v, IsVerdict, Transports
<1> QED
  BY <1>1, <1>2, <1>3

\* Endpoints of one type: they do not match, are split, or get the fastest transport.
LEMMA SameTypeIs ==
  ASSUME NEW w \in Endpoint, NEW r \in Endpoint
  PROVE  LET v == decide_same_type(w, r)
         IN /\ IsVerdict(v)
            /\ \/ "qos-incompatible" \in v.warnings
               \/ "shm-ipc-namespace-split" \in v.warnings
               \/ Fastest(v, w, r)
<1> DEFINE v == decide_same_type(w, r)
           no == qos_incompatibilities(w.qos, r.qos)
           ds == datasharing_reasons(w.qos, r.qos)
           both == BothShm(w, r)
           same == {"same-host-guid"} \cup ds
           ip == IpWarning(w, r)
           lacks == (IF has_kind(w, "SHM") THEN {} ELSE {"writer-no-shm-locator"})
                      \cup (IF has_kind(r, "SHM") THEN {} ELSE {"reader-no-shm-locator"})
           across == IF both THEN {"shm-locators-ignored-across-hosts"} ELSE {}
<1>1. CASE no # {}
  BY <1>1, VerdictIs DEF decide_same_type, IsVerdict, Transports
<1>2. CASE no = {} /\ w.host # r.host
  <2>1. v = decide_network(w, r, {"different-host"} \cup across, {})
    BY <1>2 DEF decide_same_type
  <2>2. ~Shares(w, r) /\ "SHM" \notin InCommon(w, r)
    BY <1>2, CommonIs DEF Shares, NetworkKinds
  <2> HIDE DEF v, across
  <2> QED
    BY <2>1, <2>2, NetworkIs DEF v
<1>3. CASE no = {} /\ w.host = r.host
  <2>1. v = IF "datasharing-qos-enabled-both" \in ds THEN decide_datasharing(w, r, same, ip)
            ELSE IF both THEN decide_shm(w, r, same, ip)
            ELSE decide_network(w, r, same \cup lacks, ip)
    BY <1>3 DEF decide_same_type
  <2>2. "datasharing-qos-enabled-both" \in ds <=> Shares(w, r)
    BY <1>3, SharesSaid
  <2>3. both <=> "SHM" \in InCommon(w, r)
    BY <1>3, CommonIs DEF BothShm, NetworkKinds
  <2> HIDE DEF v, same, ip, lacks, ds, both
  <2> QED
    BY <2>1, <2>2, <2>3, DatasharingIs, ShmIs, NetworkIs DEF v
<1> QED
  BY <1>1, <1>2, <1>3

\* What decide() adds for the types and for one process, and summarize() for companions.
LEMMA PairIs ==
  ASSUME NEW w \in Endpoint, NEW r \in Endpoint
  PROVE  LET p == Pair(w, r)
         IN /\ p.writer = w /\ p.reader = r /\ IsVerdict(p.verdict)
            /\ \/ UnmatchedPair(p.verdict)
               \/ "shm-ipc-namespace-split" \in p.verdict.warnings
               \/ Fastest(p.verdict, w, r)
<1> DEFINE u == decide_same_type(w, r)
           v == decide(w, r)
           p == Pair(w, r)
           renamed == w.dds_type # r.dds_type
           hash == /\ ~renamed /\ w.type_hash # "" /\ r.type_hash # ""
                   /\ w.type_hash # r.type_hash
           more == IF hash THEN {"type-hash-mismatch"} ELSE {}
           codes == IF renamed THEN {"type-names-differ-same-type"} ELSE {}
           match == type_information_match(w, r)
           why == {IF renamed THEN "type-name-mismatch" ELSE "type-information-mismatch"}
           marked == MarkIntraProcess([u EXCEPT !.reasons = @ \cup codes], w, r)
           other == match = "different" \/ (match = "unknown" /\ renamed)
<1>1. v = IF other THEN Verdict("NONE", "CERTAIN", why, more)
          ELSE [marked EXCEPT !.warnings = @ \cup more]
  BY DEF decide
<1>2. p = [writer |-> w, reader |-> r,
           verdict |-> [v EXCEPT !.reasons = @ \cup buffer_codes({w, r})]]
  BY DEF Pair
<1>3. IsVerdict(u) /\ (\/ "qos-incompatible" \in u.warnings
                      \/ "shm-ipc-namespace-split" \in u.warnings
                      \/ Fastest(u, w, r))
  BY SameTypeIs
<1>4. why \cap {"type-name-mismatch", "type-information-mismatch"} # {}
  OBVIOUS
<1> HIDE DEF u, v, renamed, hash, more, codes, match, why, other
<1>5. /\ DOMAIN marked = Fields /\ marked.warnings = u.warnings
      /\ marked.transport = u.transport /\ marked.confidence = u.confidence
      /\ marked.locator = u.locator
  BY <1>3 DEF MarkIntraProcess, IsVerdict, Fields
<1> HIDE DEF marked
<1>6. CASE other
  <2>1. /\ DOMAIN v = Fields /\ v.reasons = why
        /\ v.transport = "NONE" /\ v.confidence = "CERTAIN"
    BY <1>1, <1>6, VerdictIs
  <2>2. /\ p.writer = w /\ p.reader = r /\ IsVerdict(p.verdict)
        /\ why \subseteq p.verdict.reasons
    BY <1>2, <2>1 DEF IsVerdict, Fields, Transports
  <2> QED
    BY <1>4, <2>2 DEF UnmatchedPair
<1>7. CASE ~other
  <2>1. /\ DOMAIN v = Fields /\ v.warnings = u.warnings \cup more
        /\ v.transport = u.transport /\ v.confidence = u.confidence /\ v.locator = u.locator
    BY <1>1, <1>5, <1>7 DEF Fields
  <2>2. /\ p.writer = w /\ p.reader = r /\ DOMAIN p.verdict = Fields
        /\ p.verdict.warnings = v.warnings /\ p.verdict.transport = v.transport
        /\ p.verdict.confidence = v.confidence /\ p.verdict.locator = v.locator
    BY <1>2, <2>1 DEF Fields
  <2> HIDE DEF p
  <2>3. Fastest(u, w, r) => Fastest(p.verdict, w, r)
    BY <2>1, <2>2 DEF Fastest
  <2> QED
    BY <1>3, <2>1, <2>2, <2>3 DEF UnmatchedPair, IsVerdict, p
<1> QED
  BY <1>6, <1>7

------------------------------------------------------------------------------
\* Before the statistics every pair of a topic is what decide() makes of two endpoints.
PairsPredicted(q) ==
  \E n \in Nat : /\ DOMAIN q = 1..n
                 /\ \A i \in 1..n : \E w, r \in Endpoint : q[i] = Pair(w, r)

\* The parent given to e among E, and what linking leaves alone.
parent_guid(e, E) ==
  IF parent_of(e, E) = {} THEN 0 ELSE (CHOOSE p \in parent_of(e, E) : TRUE).guid
Copy(l, e) ==
  /\ l.guid = e.guid /\ l.topic = e.topic /\ l.dds_type = e.dds_type
  /\ l.is_writer = e.is_writer

\* link_buffer_companions() changes nothing but the links.
LEMMA LinkedAre ==
  ASSUME NEW E \in SUBSET Endpoint, IsFiniteSet(E)
  PROVE  LET linked == link_buffer_companions(E)
         IN /\ linked \in SUBSET Endpoint /\ IsFiniteSet(linked)
            /\ \A l \in linked : \E e \in E : Copy(l, e)
            /\ \A e \in E : \E l \in linked : Copy(l, e) /\ l.parent = parent_guid(e, E)
<1> DEFINE Parent(e) == parent_guid(e, E)
           Mates(e) == {c.guid : c \in {d \in E : e \in parent_of(d, E)}}
           Linked(e) == [e EXCEPT !.parent = Parent(e), !.companions = Mates(e)]
<1>1. link_buffer_companions(E) = {Linked(e) : e \in E}
  BY DEF link_buffer_companions, parent_guid
<1>2. \A e \in E : parent_of(e, E) \subseteq E
  BY DEF parent_of, Candidates
<1>3. \A e \in E : Parent(e) \in Nat
  <2> TAKE e \in E
  <2>1. CASE parent_of(e, E) = {}
    BY <2>1 DEF parent_guid
  <2>2. CASE parent_of(e, E) # {}
    <3> DEFINE q == CHOOSE p \in parent_of(e, E) : TRUE
    <3>1. q \in Endpoint
      BY <1>2, <2>2
    <3> HIDE DEF q
    <3>2. q.guid \in Nat
      BY <3>1 DEF Endpoint
    <3> QED
      BY <2>2, <3>2 DEF q, parent_guid
  <2> QED
    BY <2>1, <2>2
<1>4. \A e \in E : Mates(e) \in SUBSET Nat
  BY DEF Endpoint
<1> HIDE DEF Parent, Mates
<1>5. \A e \in E : /\ Linked(e) \in Endpoint /\ Copy(Linked(e), e)
                  /\ Linked(e).parent = Parent(e)
  BY <1>3, <1>4, ZenonT(60) DEF Endpoint, Copy
<1> HIDE DEF Linked
<1> DEFINE f == [e \in E |-> Linked(e)]
           L == {Linked(e) : e \in E}
<1>6. f \in Surjection(E, L)
  BY DEF Surjection
<1> HIDE DEF f
<1>7. IsFiniteSet(L)
  <2> HIDE DEF L
  <2> QED
    BY <1>6, FS_Surjection
<1>8. /\ \A l \in L : l \in Endpoint /\ \E e \in E : Copy(l, e)
      /\ \A e \in E : \E l \in L : Copy(l, e) /\ l.parent = Parent(e)
  BY <1>5
<1> HIDE DEF L
<1>9. L = link_buffer_companions(E)
  BY <1>1 DEF L
<1> QED
  BY <1>7, <1>8, <1>9 DEF Parent

\* The parent of a companion: the endpoint of its participant that was created right before it.
LEMMA ParentIs ==
  ASSUME NEW E \in SUBSET Endpoint, IsFiniteSet(E), NEW c \in E,
         NEW p, p \in Candidates(c, E), p.key + 1 = c.key, p.entity_kind = c.entity_kind,
         \A e, f \in E : e.participant = f.participant /\ e.key = f.key => e = f
  PROVE  parent_guid(c, E) = p.guid
<1> DEFINE C == Candidates(c, E)
<1>1. C \subseteq E /\ \A q \in C : q.participant = c.participant
  BY DEF Candidates
<1> HIDE DEF C
<1>2. IsFiniteSet(C)
  BY <1>1, FS_Subset
<1>3. \A q \in C : q.key + 1 = c.key => q = p
  <2> TAKE q \in C
  <2>1. q.key \in Nat /\ p.key \in Nat /\ q \in E /\ p \in E
    BY <1>1 DEF Endpoint, C
  <2>2. q.participant = p.participant
    BY <1>1 DEF C
  <2> QED
    BY <2>1, <2>2
<1>4. CASE Cardinality(C) = 1
  <2>1. \E x : C = {x}
    BY <1>2, <1>4, FS_Singleton
  <2>2. C = {p}
    BY <2>1 DEF C
  <2>3. parent_of(c, E) = {p}
    BY <1>4, <2>2 DEF parent_of, C
  <2> QED
    BY <2>3 DEF parent_guid
<1>5. CASE Cardinality(C) # 1
  <2>1. parent_of(c, E) = {q \in C : q.key + 1 = c.key /\ q.entity_kind = c.entity_kind}
    BY <1>5 DEF parent_of, C
  <2>2. parent_of(c, E) = {p}
    BY <1>3, <2>1 DEF C
  <2> QED
    BY <2>2 DEF parent_guid
<1> QED
  BY <1>4, <1>5

\* The fields of a topic, and what they say of services, actions (A are the real ones) and
\* partners (E are the endpoints).
TopicFields ==
  {"topic", "dds_type", "writers", "readers", "pairs", "unmatched", "kind", "group", "direction"}
Grouped(t, A) ==
  /\ t.kind \in {"service", "action"} => t.direction \in {"to-server", "to-client"}
  /\ t.kind = "action" => t.group \in A
NoWriter(x, E) == \A e \in E : e.topic = x => ~e.is_writer
NoReader(x, E) == \A e \in E : e.topic = x => e.is_writer
Partners(t, x, E) ==
  /\ "no-matching-writer" \in t.unmatched <=> NoWriter(x, E)
  /\ "no-matching-reader" \in t.unmatched <=> NoReader(x, E)

\* A topic as summarize() leaves it, and as the views do.
Whole(t, x, E, A) ==
  /\ TopicFields \subseteq DOMAIN t
  /\ t.writers \in Seq(Endpoint) /\ t.readers \in Seq(Endpoint)
  /\ t.pairs = PairsOf(t.writers, t.readers)
  /\ t.unmatched = unmatched_reasons(t.writers, t.readers, t.pairs)
  /\ t.writers = <<>> <=> NoWriter(x, E)
  /\ t.readers = <<>> <=> NoReader(x, E)
  /\ Grouped(t, A)
Seen(t, x, E, A) ==
  TopicFields \subseteq DOMAIN t /\ PairsPredicted(t.pairs) /\ Grouped(t, A) /\ Partners(t, x, E)

\* Endpoints that carry the type of an action's member belong to an action.
ActionsReal(E, A) ==
  \A e \in E : LET m == parse_action_member(e.topic, e.dds_type)
               IN m.action_type # "" => m.action \in A

\* summarize(): the topic of the endpoints E that have it.
LEMMA SummaryIs ==
  ASSUME NEW E \in SUBSET Endpoint, IsFiniteSet(E), NEW x
  PROVE  LET t == Summary(x, E)
         IN /\ DOMAIN t = TopicFields \ {"kind", "group", "direction"}
            /\ t.writers \in Seq(Endpoint) /\ t.readers \in Seq(Endpoint)
            /\ t.pairs = PairsOf(t.writers, t.readers)
            /\ t.unmatched = unmatched_reasons(t.writers, t.readers, t.pairs)
            /\ t.writers = <<>> <=> NoWriter(x, E)
            /\ t.readers = <<>> <=> NoReader(x, E)
            /\ x \in {e.topic : e \in E} => \E e \in E : e.topic = x /\ t.dds_type = e.dds_type
<1> DEFINE mine == {e \in E : e.topic = x}
           W == {e \in mine : e.is_writer}
           R == {e \in mine : ~e.is_writer}
           w == InGuidOrder(W)
           r == InGuidOrder(R)
           t == Summary(x, E)
<1>1. t = [topic |-> x, dds_type |-> InGuidOrder(mine)[1].dds_type, writers |-> w, readers |-> r,
           pairs |-> PairsOf(w, r), unmatched |-> unmatched_reasons(w, r, PairsOf(w, r))]
  BY DEF Summary
<1>2. mine \in SUBSET E /\ W \in SUBSET E /\ R \in SUBSET E
  OBVIOUS
<1>3. (W = {} <=> NoWriter(x, E)) /\ (R = {} <=> NoReader(x, E))
  BY DEF NoWriter, NoReader
<1>4. x \in {e.topic : e \in E} => mine # {}
  OBVIOUS
<1>5. \A e \in mine : e \in E /\ e.topic = x
  OBVIOUS
<1> HIDE DEF mine, W, R
<1>6. /\ IsFiniteSet(mine) /\ IsFiniteSet(W) /\ IsFiniteSet(R)
      /\ mine \in SUBSET Endpoint /\ W \in SUBSET Endpoint /\ R \in SUBSET Endpoint
  BY <1>2, FS_Subset
<1>7. /\ w \in Seq(W) /\ (w = <<>> <=> W = {})
      /\ r \in Seq(R) /\ (r = <<>> <=> R = {})
      /\ InGuidOrder(mine) \in Seq(mine) /\ (InGuidOrder(mine) = <<>> <=> mine = {})
  BY <1>6, GuidOrderIs
<1>8. w \in Seq(Endpoint) /\ r \in Seq(Endpoint)
  BY <1>6, <1>7
<1>9. mine # {} => InGuidOrder(mine)[1] \in mine
  BY <1>7, EmptySeq, LenProperties, ElementOfSeq
<1> HIDE DEF w, r, t
<1>10. /\ DOMAIN t = TopicFields \ {"kind", "group", "direction"}
       /\ t.writers = w /\ t.readers = r /\ t.pairs = PairsOf(w, r)
       /\ t.unmatched = unmatched_reasons(w, r, PairsOf(w, r))
       /\ t.dds_type = InGuidOrder(mine)[1].dds_type
  BY <1>1 DEF TopicFields
<1> QED
  BY <1>3, <1>4, <1>5, <1>7, <1>8, <1>9, <1>10 DEF t

\* classify_topics(): what it adds, and that an action is one by a type.
GroupFields(f, topics) ==
  /\ DOMAIN f = {"kind", "group", "direction"}
  /\ f.kind \in {"service", "action"} => f.direction \in {"to-server", "to-client"}
  /\ f.kind = "action" =>
       \E y \in DOMAIN topics : LET m == parse_action_member(y, topics[y].dds_type)
                               IN m.action_type # "" /\ f.group = m.action

\* classify_topics() adds the fields of a group to a topic.
LEMMA ClassifiedAre ==
  ASSUME NEW topics, NEW x, x \in DOMAIN topics
  PROVE  \E f : classify_topics(topics)[x] = With(topics[x], f) /\ GroupFields(f, topics)
<1> DEFINE members == Members(topics)
           Direction(t) == IF demangle_topic(t).kind = "request" THEN "to-server" ELSE "to-client"
           Group(t) ==
             IF members[t].matched /\ is_action(members, members[t].action)
             THEN [kind |-> "action", group |-> members[t].action, direction |-> Direction(t)]
             ELSE IF demangle_topic(t).kind \in {"request", "reply"}
             THEN [kind |-> "service", group |-> demangle_topic(t).name,
                   direction |-> Direction(t)]
             ELSE [kind |-> IF demangle_topic(t).kind = "topic" THEN "topic" ELSE "other",
                   group |-> "", direction |-> "none"]
<1>1. classify_topics(topics) = [t \in DOMAIN topics |-> With(topics[t], Group(t))]
  BY Zenon DEF classify_topics
<1>2. Direction(x) \in {"to-server", "to-client"}
  OBVIOUS
<1> HIDE DEF members, Direction
<1>3. /\ DOMAIN Group(x) = {"kind", "group", "direction"}
      /\ Group(x).kind \in {"service", "action"} =>
           Group(x).direction \in {"to-server", "to-client"}
      /\ Group(x).kind = "action" =>
           /\ members[x].matched /\ is_action(members, members[x].action)
           /\ Group(x).group = members[x].action
  BY <1>2
<1> HIDE DEF Group
<1>4. ASSUME is_action(members, members[x].action)
      PROVE  \E y \in DOMAIN topics : LET m == parse_action_member(y, topics[y].dds_type)
                                      IN m.action_type # "" /\ members[x].action = m.action
  <2> DEFINE mine == {t \in DOMAIN members :
                        members[t].matched /\ members[t].action = members[x].action}
             types == {members[t].action_type : t \in mine} \ {""}
  <2>1. Cardinality(types) = 1
    BY <1>4 DEF is_action
  <2> HIDE DEF types
  <2>2. types # {}
    <3>1. Cardinality({}) = 0
      BY FS_EmptySet
    <3> QED
      BY <2>1, <3>1
  <2> USE DEF types
  <2>3. PICK y \in mine : members[y].action_type # ""
    BY <2>2
  <2>4. DOMAIN members = DOMAIN topics
    BY DEF members, Members
  <2>5. members[y] = parse_action_member(y, topics[y].dds_type)
    BY <2>3, <2>4 DEF members, Members
  <2> QED
    BY <2>3, <2>4, <2>5
<1>5. GroupFields(Group(x), topics)
  BY <1>3, <1>4 DEF GroupFields
<1> QED
  BY <1>1, <1>5

\* summarize(), for the endpoints that collect() keeps.
LEMMA SummarizedAre ==
  ASSUME NEW E \in SUBSET Endpoint, IsFiniteSet(E), NEW A, ActionsReal(E, A)
  PROVE  /\ DOMAIN summarize(E) = {e.topic : e \in E} /\ IsFiniteSet(DOMAIN summarize(E))
         /\ \A x \in DOMAIN summarize(E) : Whole(summarize(E)[x], x, E, A)
<1> DEFINE T == {e.topic : e \in E}
           topics == [t \in T |-> Summary(t, E)]
<1>1. IsFiniteSet(T)
  <2> DEFINE f == [e \in E |-> e.topic]
  <2>1. f \in Surjection(E, T)
    BY DEF Surjection
  <2> QED
    BY <2>1, FS_Surjection
<1>2. summarize(E) = classify_topics(topics)
  BY DEF summarize
<1>3. DOMAIN topics = T /\ \A x \in T : topics[x] = Summary(x, E)
  OBVIOUS
<1> HIDE DEF topics
<1>4. ASSUME NEW x \in T
      PROVE  Whole(summarize(E)[x], x, E, A)
  <2> DEFINE s == Summary(x, E)
             t == classify_topics(topics)[x]
  <2>1. PICK f : /\ t = With(s, f)
                 /\ DOMAIN f = {"kind", "group", "direction"}
                 /\ f.kind \in {"service", "action"} => f.direction \in {"to-server", "to-client"}
                 /\ f.kind = "action" =>
                      \E y \in T : LET m == parse_action_member(y, topics[y].dds_type)
                                   IN m.action_type # "" /\ f.group = m.action
    <3>1. x \in DOMAIN topics /\ topics[x] = s
      BY <1>3
    <3>2. \E f : t = With(topics[x], f) /\ GroupFields(f, topics)
      BY <3>1, ClassifiedAre
    <3> HIDE DEF s, t
    <3> QED
      BY <1>3, <3>1, <3>2 DEF GroupFields
  <2>2. f.kind = "action" => f.group \in A
    <3> SUFFICES ASSUME f.kind = "action" PROVE f.group \in A
      OBVIOUS
    <3>1. PICK y \in T : LET m == parse_action_member(y, topics[y].dds_type)
                         IN m.action_type # "" /\ f.group = m.action
      BY <2>1
    <3>2. PICK e \in E : e.topic = y /\ Summary(y, E).dds_type = e.dds_type
      BY SummaryIs
    <3>3. parse_action_member(y, topics[y].dds_type) = parse_action_member(e.topic, e.dds_type)
      BY <1>3, <3>2
    <3> QED
      BY <3>1, <3>3 DEF ActionsReal
  <2>3. /\ DOMAIN s = TopicFields \ {"kind", "group", "direction"}
        /\ s.writers \in Seq(Endpoint) /\ s.readers \in Seq(Endpoint)
        /\ s.pairs = PairsOf(s.writers, s.readers)
        /\ s.unmatched = unmatched_reasons(s.writers, s.readers, s.pairs)
        /\ s.writers = <<>> <=> NoWriter(x, E)
        /\ s.readers = <<>> <=> NoReader(x, E)
    BY SummaryIs
  <2> HIDE DEF s
  <2>4. /\ DOMAIN t = TopicFields
        /\ t.kind = f.kind /\ t.group = f.group /\ t.direction = f.direction
        /\ t.writers = s.writers /\ t.readers = s.readers /\ t.pairs = s.pairs
        /\ t.unmatched = s.unmatched
    BY <2>1, <2>3, ZenonT(60) DEF With, TopicFields
  <2> HIDE DEF t
  <2>5. Whole(t, x, E, A)
    BY <2>1, <2>2, <2>3, <2>4 DEF Whole, Grouped
  <2> QED
    BY <1>2, <2>5 DEF t
<1>5. DOMAIN summarize(E) = T
  <2>1. DOMAIN classify_topics(topics) = DOMAIN topics
    BY DEF classify_topics
  <2> QED
    BY <1>2, <1>3, <2>1
<1> QED
  BY <1>1, <1>4, <1>5

\* unmatched_reasons(): a side is said to be missing when its list is empty.
LEMMA ReasonsAre ==
  ASSUME NEW w, NEW r, NEW q
  PROVE  /\ "no-matching-writer" \in unmatched_reasons(w, r, q) <=> w = <<>>
         /\ "no-matching-reader" \in unmatched_reasons(w, r, q) <=> r = <<>>
BY DEF unmatched_reasons, buffer_codes

\* A whole topic is a sight of itself.
LEMMA WholeSeen ==
  ASSUME NEW t, NEW x, NEW E, NEW A, Whole(t, x, E, A)
  PROVE  Seen(t, x, E, A)
<1>1. PairsPredicted(t.pairs)
  <2>1. /\ t.writers \in Seq(Endpoint) /\ t.readers \in Seq(Endpoint)
        /\ t.pairs = PairsOf(t.writers, t.readers)
    BY DEF Whole
  <2> QED
    BY <2>1, PairsAre DEF PairsPredicted
<1> QED
  BY <1>1, ReasonsAre DEF Whole, Seen, Partners

\* filter_by_node(): the matching endpoints, the pairs with one, and what is kept of a topic.
NodeEnds(t, nodes) == {e \in ToSet(t.writers) \cup ToSet(t.readers) : e.node \in nodes}
NodePairs(t, nodes) ==
  Prune(t.pairs, {p \in ToSet(t.pairs) : KeepsPair(p, NodeEnds(t, nodes))})
NodeKept(t, nodes) ==
  NodeEnds(t, nodes) \cup UNION {{p.writer, p.reader} : p \in ToSet(NodePairs(t, nodes))}

\* An endpoint is kept, so one of every side there is.
LEMMA SidesKept ==
  ASSUME NEW t, NEW x, NEW E, NEW A, Whole(t, x, E, A), NEW nodes, NodeKept(t, nodes) # {}
  PROVE  /\ Prune(t.writers, NodeKept(t, nodes)) = <<>> <=> t.writers = <<>>
         /\ Prune(t.readers, NodeKept(t, nodes)) = <<>> <=> t.readers = <<>>
         /\ PairsPredicted(NodePairs(t, nodes))
<1> DEFINE W == ToSet(t.writers)
           R == ToSet(t.readers)
           M == NodeEnds(t, nodes)
           K == NodeKept(t, nodes)
           Q == {p \in ToSet(t.pairs) : KeepsPair(p, M)}
<1>1. /\ t.writers \in Seq(Endpoint) /\ t.readers \in Seq(Endpoint)
      /\ t.pairs = PairsOf(t.writers, t.readers)
  BY DEF Whole
<1>2. PICK n \in Nat :
        /\ DOMAIN t.pairs = 1..n
        /\ \A i \in 1..n : \E w, r \in Endpoint : t.pairs[i] = Pair(w, r)
  BY <1>1, PairsAre
<1>3. /\ \E k \in Nat : DOMAIN t.writers = 1..k
      /\ \E k \in Nat : DOMAIN t.readers = 1..k
  BY <1>1, LenProperties
<1>4. ToSet(NodePairs(t, nodes)) = Q
  <2>1. ToSet(NodePairs(t, nodes)) = ToSet(t.pairs) \cap Q
    BY <1>2, PruneIs DEF NodePairs
  <2> QED
    BY <2>1
<1>5. /\ \A w \in W : w \in Endpoint
      /\ \A r \in R : r \in Endpoint
  BY <1>1, <1>3, ElementOfSeq, LenProperties DEF ToSet
<1>6. \A w \in W, r \in R : Pair(w, r) \in ToSet(t.pairs) /\ Pair(w, r).writer = w
                            /\ Pair(w, r).reader = r
  BY <1>1, <1>5, PairsComplete, PairIs
<1>7. \A w \in W, r \in R : w \in M \/ r \in M => w \in K /\ r \in K
  <2> TAKE w \in W, r \in R
  <2> HAVE w \in M \/ r \in M
  <2>1. Pair(w, r) \in Q
    BY <1>6 DEF KeepsPair
  <2> HIDE DEF Q, M
  <2>2. Pair(w, r) \in ToSet(NodePairs(t, nodes))
    BY <1>4, <2>1
  <2>3. {Pair(w, r).writer, Pair(w, r).reader} \subseteq K
    BY <2>2 DEF NodeKept
  <2> QED
    BY <1>6, <2>3
<1>8. M # {}
  <2> SUFFICES ASSUME M = {} PROVE FALSE
    OBVIOUS
  <2>1. Q = {}
    BY DEF KeepsPair
  <2> HIDE DEF Q
  <2>2. ToSet(NodePairs(t, nodes)) = {}
    BY <1>4, <2>1
  <2>3. K = {}
    BY <2>2 DEF NodeKept
  <2> QED
    BY <2>3
<1>9. M \subseteq K /\ M \subseteq W \cup R
  BY DEF NodeKept, NodeEnds
<1> HIDE DEF M, Q, K
<1>10. (W \cap K = {} <=> W = {}) /\ (R \cap K = {} <=> R = {})
  BY <1>7, <1>8, <1>9
<1>11. (t.writers = <<>> <=> W = {}) /\ (t.readers = <<>> <=> R = {})
  <2>1. ASSUME NEW s \in Seq(Endpoint) PROVE s = <<>> <=> ToSet(s) = {}
    <3>1. s = <<>> <=> Len(s) = 0
      BY EmptySeq
    <3>2. DOMAIN s = 1..Len(s) /\ Len(s) \in Nat
      BY LenProperties
    <3>3. ToSet(s) = {} <=> DOMAIN s = {}
      BY DEF ToSet
    <3> QED
      BY <3>1, <3>2, <3>3
  <2> QED
    BY <1>1, <2>1
<1>12. /\ Prune(t.writers, K) = <<>> <=> W \cap K = {}
       /\ Prune(t.readers, K) = <<>> <=> R \cap K = {}
  BY <1>3, PruneIs
<1>13. PairsPredicted(NodePairs(t, nodes))
  <2> DEFINE q == NodePairs(t, nodes)
  <2>1. PICK k \in Nat : DOMAIN q = 1..k
    BY <1>2, PruneIs DEF NodePairs
  <2>2. \A i \in 1..k : q[i] \in ToSet(t.pairs)
    <3>1. \A i \in 1..k : q[i] \in ToSet(q)
      BY <2>1 DEF ToSet
    <3> QED
      BY <1>4, <3>1 DEF Q
  <2> HIDE DEF q
  <2>3. \A i \in 1..k : \E j \in 1..n : q[i] = t.pairs[j]
    BY <1>2, <2>2 DEF ToSet
  <2>4. \A i \in 1..k : \E w, r \in Endpoint : q[i] = Pair(w, r)
    <3> TAKE i \in 1..k
    <3>1. PICK j \in 1..n : q[i] = t.pairs[j]
      BY <2>3
    <3>2. \E w, r \in Endpoint : t.pairs[j] = Pair(w, r)
      BY <1>2
    <3> QED
      BY <3>1, <3>2
  <2>5. PairsPredicted(q)
    BY <2>1, <2>4, Zenon DEF PairsPredicted
  <2> QED
    BY <2>5 DEF q
<1> QED
  BY <1>10, <1>11, <1>12, <1>13 DEF K

\* The views leave out topics and pairs, but no side of a topic they show.
LEMMA ViewedAre ==
  ASSUME NEW topics, NEW E, NEW A, \A x \in DOMAIN topics : Whole(topics[x], x, E, A),
         NEW o_all, NEW nodes
  PROVE  LET viewed == apply_node_filter(apply_default_view(topics, o_all), nodes)
         IN /\ DOMAIN viewed \subseteq DOMAIN topics
            /\ \A x \in DOMAIN viewed : Seen(viewed[x], x, E, A)
<1> DEFINE D == apply_default_view(topics, o_all)
           F == filter_by_node(D, nodes)
           Left(t) ==
             [t EXCEPT !.writers = Prune(@, NodeKept(t, nodes)),
                       !.readers = Prune(@, NodeKept(t, nodes)),
                       !.pairs = NodePairs(t, nodes),
                       !.unmatched = unmatched_reasons(Prune(t.writers, NodeKept(t, nodes)),
                                                       Prune(t.readers, NodeKept(t, nodes)),
                                                       NodePairs(t, nodes))]
<1>1. /\ DOMAIN D \subseteq DOMAIN topics
      /\ \A x \in DOMAIN D : Whole(D[x], x, E, A)
  BY DEF apply_default_view
<1> HIDE DEF D
<1>2. F = [x \in {d \in DOMAIN D : NodeKept(D[d], nodes) # {}} |-> Left(D[x])]
  BY DEF filter_by_node, NodeKept, NodePairs, NodeEnds
<1>3. ASSUME NEW x, NEW t, Whole(t, x, E, A), NodeKept(t, nodes) # {}
      PROVE  Seen(Left(t), x, E, A)
  <2> DEFINE w == Prune(t.writers, NodeKept(t, nodes))
             r == Prune(t.readers, NodeKept(t, nodes))
             q == NodePairs(t, nodes)
             u == unmatched_reasons(w, r, q)
  <2>1. /\ w = <<>> <=> t.writers = <<>>
        /\ r = <<>> <=> t.readers = <<>>
        /\ PairsPredicted(q)
    BY <1>3, SidesKept
  <2>2. /\ "no-matching-writer" \in u <=> w = <<>>
        /\ "no-matching-reader" \in u <=> r = <<>>
    BY ReasonsAre
  <2> HIDE DEF w, r, q, u
  <2>3. /\ DOMAIN Left(t) = DOMAIN t
        /\ Left(t).pairs = q /\ Left(t).unmatched = u
        /\ Left(t).kind = t.kind /\ Left(t).group = t.group /\ Left(t).direction = t.direction
    BY <1>3 DEF Whole, TopicFields, w, r, q, u
  <2> HIDE DEF Left
  <2> QED
    BY <1>3, <2>1, <2>2, <2>3 DEF Whole, Seen, Grouped, Partners
<1> HIDE DEF Left
<1>4. DOMAIN F \subseteq DOMAIN D /\ \A x \in DOMAIN F : Seen(F[x], x, E, A)
  BY <1>1, <1>2, <1>3
<1>5. \A x \in DOMAIN D : Seen(D[x], x, E, A)
  BY <1>1, WholeSeen
<1> QED
  BY <1>1, <1>4, <1>5 DEF apply_node_filter, D, F

------------------------------------------------------------------------------
\* measure(): what is measured of a pair is a sequence of transports.
LEMMA MeasuredTransports ==
  ASSUME NEW p, NEW stats, NEW n \in Nat, DOMAIN stats.traffic = 1..n
  PROVE  measure(p, stats).transports \in Seq(Transports)
<1> DEFINE S == {i \in DOMAIN stats.traffic :
                   /\ stats.traffic[i].src = p.writer.participant
                   /\ reader_has_locator(p.reader, stats.traffic[i].dst, stats.local)
                   /\ stats.traffic[i].packets > 0}
           sent == SentEntries(p, stats)
           kinds == [k \in 1..Len(sent) |-> transport_for_kind(stats.traffic[sent[k]].dst.kind)]
           fresh == {k \in 1..Len(sent) : \A j \in 1..(k - 1) : kinds[j] # kinds[k]}
<1>1. measure(p, stats).transports = Entries(kinds, fresh)
  BY DEF measure
<1>2. S \in SUBSET (1..n) /\ S \in SUBSET Nat
  OBVIOUS
<1>3. IsFiniteSet(1..n)
  BY FS_Interval
<1>4. sent = Ascending(S)
  BY DEF SentEntries
<1> HIDE DEF S
<1>5. IsFiniteSet(S)
  BY <1>2, <1>3, FS_Subset
<1>6. Cardinality(S) \in Nat /\ sent \in [1..Cardinality(S) -> S]
  BY <1>2, <1>4, <1>5, AscendingIs
<1> HIDE DEF sent
<1>7. Len(sent) \in Nat
  BY <1>6, SeqDef, LenProperties
<1>8. \A k \in 1..Len(sent) : kinds[k] \in Transports
  BY DEF transport_for_kind, Transports
<1> HIDE DEF kinds
<1>9. fresh \in SUBSET (1..Len(sent)) /\ fresh \in SUBSET Nat
  BY <1>7
<1> HIDE DEF fresh
<1>10. IsFiniteSet(1..Len(sent))
  BY <1>7, FS_Interval
<1>11. IsFiniteSet(fresh)
  BY <1>9, <1>10, FS_Subset
<1>12. /\ Cardinality(fresh) \in Nat /\ DOMAIN Entries(kinds, fresh) = 1..Cardinality(fresh)
       /\ \A k \in 1..Cardinality(fresh) : \E i \in fresh : Entries(kinds, fresh)[k] = kinds[i]
  BY <1>9, <1>11, EntriesAre
<1>13. Entries(kinds, fresh) \in [1..Cardinality(fresh) -> Transports]
  <2>1. \A k \in 1..Cardinality(fresh) : Entries(kinds, fresh)[k] \in Transports
    BY <1>8, <1>9, <1>12
  <2>2. \E f : Entries(kinds, fresh) = [k \in 1..Cardinality(fresh) |-> f[k]]
    BY <1>12 DEF Entries
  <2> QED
    BY <2>1, <2>2
<1> QED
  BY <1>1, <1>12, <1>13, SeqDef

\* What adding and replacing codes does to a verdict.
LEMMA CodesAdded ==
  ASSUME NEW v, DOMAIN v = Fields, NEW c
  PROVE  /\ DOMAIN Warn(v, c) = Fields /\ Warn(v, c).warnings = v.warnings \cup c
         /\ Warn(v, c).reasons = v.reasons /\ Warn(v, c).transport = v.transport
         /\ DOMAIN Because(v, c) = Fields /\ Because(v, c).warnings = v.warnings
         /\ Because(v, c).reasons = v.reasons \cup c /\ Because(v, c).transport = v.transport
         /\ DOMAIN Confirm(v, c) = Fields /\ Confirm(v, c).warnings = v.warnings
         /\ Confirm(v, c).transport = v.transport
BY DEF Warn, Because, Confirm, Fields

\* The pair whose verdict is v and whose measurement is m says what it has to.
Tells(v, m) == \A p : p.verdict = v /\ p.measured = m => Loud(p) /\ SaysSo(p)

\* A delivery that is proved, on a pair without the codes that exempt it, is told by a warning.
LEMMA TellsBy ==
  ASSUME NEW v, NEW m,
         m.available /\ m.delivered /\ v.transport = "NONE" /\ "intra-process" \notin v.reasons =>
           \/ "measured-unknown-traffic" \in v.reasons
           \/ \E c \in {"qos-incompatible-but-delivered", "type-name-mismatch-but-delivered",
                        "type-information-mismatch-but-delivered",
                        "shm-ipc-namespace-split-but-delivered",
                        "stats-writer-instance-limit-suspected",
                        "delivered-without-measured-traffic", "measured-transport-mismatch"} :
                c \in v.warnings,
         /\ m.available /\ m.delivered /\ m.packets = 0
         /\ v.transport # "DATA_SHARING" /\ "intra-process" \notin v.reasons
         /\ "qos-incompatible" \notin v.warnings /\ "shm-ipc-namespace-split" \notin v.warnings
         /\ "stats-writer-instance-limit-suspected" \notin v.warnings
         => \E c \in {"delivered-without-measured-traffic", "datasharing-not-used",
                      "type-name-mismatch-but-delivered",
                      "type-information-mismatch-but-delivered"} : c \in v.warnings
  PROVE  Tells(v, m)
<1> SUFFICES ASSUME NEW p, p.verdict = v, p.measured = m PROVE Loud(p) /\ SaysSo(p)
  BY DEF Tells
<1>1. Loud(p)
  BY DEF Loud, CodesOf
<1>2. SaysSo(p)
  BY DEF SaysSo, Unmeasured, counted_as_delivered
<1> QED
  BY <1>1, <1>2

\* revise(): a delivery that contradicts the prediction, or that no packet explains, is told.
LEMMA RevisedIs ==
  ASSUME NEW p, NEW ps, NEW stats,
         DOMAIN p.verdict = Fields, p.measured.transports \in Seq(Transports)
  PROVE  Tells(revise(p, ps, stats), p.measured)
<1> DEFINE m == p.measured
           extra == (IF m.lost_packets > 0 THEN {"rtps-packets-lost"} ELSE {})
                      \cup (IF m.skew THEN {"latency-clock-skew-suspected"} ELSE {})
           v == Warn(p.verdict, extra)
           intra == "intra-process" \in v.reasons
           out == IF intra THEN NotIntra(v) ELSE v
           u == revise(p, ps, stats)
<1>1. u = IF UnmatchedPair(v) THEN Warn(v, Contradicted(v, m))
          ELSE IF "shm-ipc-namespace-split" \in v.warnings THEN check_split(v, m)
          ELSE IF ~m.available THEN Warn(v, {"stats-not-enabled-on-writer"})
          ELSE IF intra /\ m.packets = 0
               THEN Warn(v, IF m.delivered THEN {} ELSE {"no-traffic-observed"})
          ELSE IF out.transport = "DATA_SHARING" THEN check_datasharing(out, m, p, ps)
          ELSE IF m.transports = <<>> THEN check_silent(out, m, p, stats)
          ELSE check_traffic(out, m, stats)
  BY DEF revise
<1>2. DOMAIN v = Fields
  BY CodesAdded
<1> HIDE DEF v, u, extra
<1>3. DOMAIN out = Fields /\ "intra-process" \notin out.reasons
  BY <1>2 DEF NotIntra, Fields
<1>4. m.transports \in Seq(Transports)
  OBVIOUS
<1> HIDE DEF out, m, intra
<1>5. CASE UnmatchedPair(v)
  <2>1. u = Warn(v, Contradicted(v, m))
    BY <1>1, <1>5
  <2>2. u.warnings = v.warnings \cup Contradicted(v, m)
    BY <1>2, <2>1, CodesAdded
  <2>3. m.delivered => ButDelivered(v) \in u.warnings
    BY <2>2 DEF Contradicted
  <2>4. /\ ButDelivered(v) \in {"qos-incompatible-but-delivered",
             "type-name-mismatch-but-delivered", "type-information-mismatch-but-delivered"}
        /\ ButDelivered(v) = "qos-incompatible-but-delivered" => "qos-incompatible" \in u.warnings
    BY <2>2 DEF ButDelivered
  <2> QED
    BY <2>3, <2>4, TellsBy DEF u, m
<1>6. CASE ~UnmatchedPair(v) /\ "shm-ipc-namespace-split" \in v.warnings
  <2> DEFINE said == Because(v, MeasuredReasons(m))
             non_shm == \E k \in DOMAIN m.locators :
                          m.locators[k].locator.kind # "SHM" /\ m.locators[k].packets > 0
             codes == (IF m.delivered THEN {"shm-ipc-namespace-split-but-delivered"} ELSE {})
                        \cup (IF "both-shm-locators" \in said.reasons /\ non_shm
                              THEN {"shm-ipc-namespace-split-but-non-shm-traffic"} ELSE {})
  <2>1. u = Warn(said, codes)
    BY <1>1, <1>6 DEF check_split
  <2>2. m.delivered => "shm-ipc-namespace-split-but-delivered" \in codes
    OBVIOUS
  <2> HIDE DEF codes
  <2>3. DOMAIN said = Fields /\ said.warnings = v.warnings
    BY <1>2, CodesAdded
  <2> HIDE DEF said
  <2>4. u.warnings = v.warnings \cup codes
    BY <2>1, <2>3, CodesAdded
  <2> QED
    BY <1>6, <2>2, <2>4, TellsBy DEF u, m
<1>7. CASE /\ ~UnmatchedPair(v) /\ "shm-ipc-namespace-split" \notin v.warnings
           /\ ~m.available \/ (intra /\ m.packets = 0)
  <2>1. \/ ~m.available
        \/ m.packets = 0 /\ u = Warn(v, IF m.delivered THEN {} ELSE {"no-traffic-observed"})
           /\ intra
    BY <1>1, <1>7
  <2>2. ~m.available \/ "intra-process" \in u.reasons
    BY <1>2, <2>1, CodesAdded DEF intra
  <2> QED
    BY <2>2, TellsBy DEF u, m
<1>8. CASE /\ ~UnmatchedPair(v) /\ "shm-ipc-namespace-split" \notin v.warnings
           /\ m.available /\ ~(intra /\ m.packets = 0)
  <2>1. CASE out.transport = "DATA_SHARING"
    <3> DEFINE certain == [out EXCEPT !.confidence = "CERTAIN"]
               used == [certain EXCEPT !.transport = m.transports[1]]
               sent == Confirm(used, "datasharing-data-submessages-sent")
               told == Because(sent, MeasuredReasons(m))
    <3>1. \/ \E c : u = Confirm(certain, c)
          \/ \E c : u = Confirm(out, c)
          \/ m.transports # <<>> /\ u = Warn(told, {"datasharing-not-used"})
      BY <1>1, <1>8, <2>1 DEF check_datasharing, NoEntry
    <3>2. DOMAIN certain = Fields /\ certain.transport = "DATA_SHARING"
      BY <1>3, <2>1 DEF Fields
    <3>3. DOMAIN used = Fields /\ used.transport = m.transports[1]
      BY <3>2 DEF Fields
    <3> HIDE DEF certain, used
    <3>4. CASE u.transport = "DATA_SHARING"
      BY <3>4, TellsBy DEF u, m
    <3>5. CASE m.transports # <<>> /\ u = Warn(told, {"datasharing-not-used"})
      <4>1. DOMAIN sent = Fields /\ sent.transport = m.transports[1]
        BY <3>3, CodesAdded
      <4> HIDE DEF sent
      <4>2. /\ DOMAIN told = Fields /\ told.transport = m.transports[1]
            /\ MeasuredReasons(m) \subseteq told.reasons
        BY <4>1, CodesAdded
      <4> HIDE DEF told
      <4>3. /\ u.transport = m.transports[1] /\ MeasuredReasons(m) \subseteq u.reasons
            /\ "datasharing-not-used" \in u.warnings
        BY <3>5, <4>2, CodesAdded
      <4>4. 1 \in DOMAIN m.transports
        BY <1>4, <3>5, EmptySeq, LenProperties
      <4>5. m.transports[1] = "NONE" => "measured-unknown-traffic" \in MeasuredReasons(m)
        BY <4>4 DEF MeasuredReasons, measured_reason, ToSet
      <4> QED
        BY <4>3, <4>5, TellsBy DEF u, m
    <3>6. \/ u.transport = "DATA_SHARING"
          \/ m.transports # <<>> /\ u = Warn(told, {"datasharing-not-used"})
      BY <1>3, <2>1, <3>1, <3>2, CodesAdded
    <3> QED
      BY <3>4, <3>5, <3>6
  <2>2. CASE out.transport # "DATA_SHARING" /\ m.transports = <<>>
    <3>1. \E c : /\ u = Warn(out, {c})
                 /\ m.delivered => c \in {"stats-writer-instance-limit-suspected",
                                          "delivered-without-measured-traffic"}
      BY <1>1, <1>8, <2>2 DEF check_silent
    <3>2. \E c : /\ c \in u.warnings
                 /\ m.delivered => c \in {"stats-writer-instance-limit-suspected",
                                          "delivered-without-measured-traffic"}
      BY <1>3, <3>1, CodesAdded
    <3> QED
      BY <3>2, TellsBy DEF u, m
  <2>3. CASE out.transport # "DATA_SHARING" /\ m.transports # <<>>
    <3> DEFINE hit == out.transport \in ToSet(m.transports)
               elsewhere == /\ hit /\ out.locator # NoLocator
                            /\ \A k \in DOMAIN m.locators :
                                 ~same_locator_local(m.locators[k].locator, out.locator,
                                                     stats.local)
               codes == (IF hit THEN {} ELSE {"measured-transport-mismatch"})
                        \cup (IF m.packets = 0 /\ m.delivered
                              THEN {"delivered-without-measured-traffic"} ELSE {})
                        \cup (IF elsewhere THEN {"measured-locator-mismatch"} ELSE {})
               because == Because(out, MeasuredReasons(m))
               sure == [because EXCEPT !.confidence = IF hit THEN "CERTAIN" ELSE @]
    <3>1. u = Warn(sure, codes)
      BY <1>1, <1>8, <2>3 DEF check_traffic
    <3>2. /\ ~hit => "measured-transport-mismatch" \in codes
          /\ m.packets = 0 /\ m.delivered => "delivered-without-measured-traffic" \in codes
      OBVIOUS
    <3>3. hit /\ out.transport = "NONE" => "measured-unknown-traffic" \in MeasuredReasons(m)
      BY DEF MeasuredReasons, measured_reason
    <3>4. /\ DOMAIN because = Fields /\ because.transport = out.transport
          /\ because.reasons = out.reasons \cup MeasuredReasons(m)
      BY <1>3, CodesAdded
    <3> HIDE DEF because, codes, elsewhere, hit
    <3>5. /\ DOMAIN sure = Fields /\ sure.transport = out.transport
          /\ sure.reasons = out.reasons \cup MeasuredReasons(m)
      BY <3>4 DEF Fields
    <3> HIDE DEF sure
    <3>6. /\ u.transport = out.transport
          /\ MeasuredReasons(m) \subseteq u.reasons /\ codes \subseteq u.warnings
      BY <3>1, <3>5, CodesAdded
    <3> QED
      BY <3>2, <3>3, <3>6, TellsBy DEF u, m
  <2> QED
    BY <2>1, <2>2, <2>3
<1> QED
  BY <1>5, <1>6, <1>7, <1>8

\* Adding codes, and being certain, leaves a verdict.
LEMMA VerdictStays ==
  ASSUME NEW v, IsVerdict(v), NEW c
  PROVE  /\ IsVerdict(Warn(v, c)) /\ IsVerdict(Because(v, c)) /\ IsVerdict(Confirm(v, c))
         /\ IsVerdict(NotIntra(v)) /\ IsVerdict([v EXCEPT !.confidence = "CERTAIN"])
BY DEF IsVerdict, Fields, Warn, Because, Confirm, NotIntra

\* revise() makes a verdict of a verdict.
LEMMA RevisedVerdict ==
  ASSUME NEW p, NEW ps, NEW stats,
         IsVerdict(p.verdict), p.measured.transports \in Seq(Transports)
  PROVE  IsVerdict(revise(p, ps, stats))
<1> DEFINE m == p.measured
           extra == (IF m.lost_packets > 0 THEN {"rtps-packets-lost"} ELSE {})
                      \cup (IF m.skew THEN {"latency-clock-skew-suspected"} ELSE {})
           v == Warn(p.verdict, extra)
           out == IF "intra-process" \in v.reasons THEN NotIntra(v) ELSE v
           u == revise(p, ps, stats)
<1>1. \/ \E c : u = Warn(v, c)
      \/ u = check_split(v, m)
      \/ u = check_datasharing(out, m, p, ps)
      \/ u = check_silent(out, m, p, stats)
      \/ u = check_traffic(out, m, stats)
  BY DEF revise
<1>2. IsVerdict(v)
  BY VerdictStays
<1>3. m.transports \in Seq(Transports)
  OBVIOUS
<1> HIDE DEF v, u, extra, m
<1>4. IsVerdict(out)
  BY <1>2, VerdictStays
<1> HIDE DEF out
<1>5. IsVerdict(check_split(v, m))
  <2>1. \E c, d : check_split(v, m) = Warn(Because(v, c), d)
    BY DEF check_split
  <2> QED
    BY <1>2, <2>1, VerdictStays
<1>6. IsVerdict(check_silent(out, m, p, stats))
  <2>1. \E c : check_silent(out, m, p, stats) = Warn(out, c)
    BY DEF check_silent
  <2> QED
    BY <1>4, <2>1, VerdictStays
<1>7. IsVerdict(check_traffic(out, m, stats))
  <2> DEFINE b == Because(out, MeasuredReasons(m))
             s == [b EXCEPT !.confidence =
                     IF out.transport \in ToSet(m.transports) THEN "CERTAIN" ELSE @]
  <2>1. \E c : check_traffic(out, m, stats) = Warn(s, c)
    BY DEF check_traffic
  <2>2. IsVerdict(b)
    BY <1>4, VerdictStays
  <2> HIDE DEF b
  <2>3. IsVerdict(s)
    BY <2>2 DEF IsVerdict, Fields
  <2> HIDE DEF s
  <2> QED
    BY <2>1, <2>3, VerdictStays
<1>8. IsVerdict(check_datasharing(out, m, p, ps))
  <2> DEFINE d == check_datasharing(out, m, p, ps)
             certain == [out EXCEPT !.confidence = "CERTAIN"]
             used == [certain EXCEPT !.transport = m.transports[1]]
  <2>1. \/ \E c : d = Confirm(certain, c)
        \/ \E c : d = Confirm(out, c)
        \/ m.transports # <<>> /\ \E a, b, c : d = Warn(Because(Confirm(used, a), b), c)
    BY DEF check_datasharing, NoEntry
  <2> HIDE DEF d
  <2>2. IsVerdict(certain)
    BY <1>4, VerdictStays
  <2> HIDE DEF certain
  <2>3. m.transports # <<>> => IsVerdict(used)
    <3> HAVE m.transports # <<>>
    <3>1. m.transports[1] \in Transports
      BY <1>3, EmptySeq, LenProperties, ElementOfSeq
    <3> QED
      BY <2>2, <3>1 DEF IsVerdict, Fields
  <2> HIDE DEF used
  <2>4. IsVerdict(d)
    BY <1>4, <2>1, <2>2, <2>3, VerdictStays
  <2> QED
    BY <2>4 DEF d
<1>9. \A c : IsVerdict(Warn(v, c))
  BY <1>2, VerdictStays
<1>10. IsVerdict(u)
  BY <1>1, <1>5, <1>6, <1>7, <1>8, <1>9
<1> QED
  BY <1>10 DEF u

------------------------------------------------------------------------------
\* The pairs of a topic after each of the first n revisions.
Revisions(f, pairs, order, stats, n) ==
  f = [k \in 0..n |->
         IF k = 0 THEN pairs
         ELSE [f[k - 1] EXCEPT ![order[k]].verdict =
                 revise(f[k - 1][order[k]], f[k - 1], stats)]]

\* ReviseInOrder() is defined: the revisions follow one another.
LEMMA RevisionsDefined ==
  ASSUME NEW pairs, NEW order, NEW stats, NEW n \in Nat
  PROVE  \E f : Revisions(f, pairs, order, stats, n)
<1> DEFINE Next_(q, k) == [q EXCEPT ![order[k]].verdict = revise(q[order[k]], q, stats)]
           S == {k \in Nat : \E f : Revisions(f, pairs, order, stats, k)}
<1>0. ASSUME NEW f, NEW k
      PROVE  Revisions(f, pairs, order, stats, k)
               <=> f = [i \in 0..k |-> IF i = 0 THEN pairs ELSE Next_(f[i - 1], i)]
  BY DEF Revisions
<1> HIDE DEF Next_
<1>1. 0 \in S
  <2> DEFINE f == [i \in 0..0 |-> pairs]
  <2>1. f = [i \in 0..0 |-> IF i = 0 THEN pairs ELSE Next_(f[i - 1], i)]
    OBVIOUS
  <2> HIDE DEF f
  <2>2. Revisions(f, pairs, order, stats, 0)
    BY <1>0, <2>1
  <2> QED
    BY <2>2
<1>2. ASSUME NEW k \in Nat, k \in S PROVE k + 1 \in S
  <2>1. PICK f : Revisions(f, pairs, order, stats, k)
    BY <1>2
  <2>2. f = [i \in 0..k |-> IF i = 0 THEN pairs ELSE Next_(f[i - 1], i)]
    BY <1>0, <2>1
  <2> DEFINE g == [i \in 0..(k + 1) |-> IF i = k + 1 THEN Next_(f[k], i) ELSE f[i]]
  <2>3. \A i \in 0..k : g[i] = f[i] /\ f[i] = IF i = 0 THEN pairs ELSE Next_(f[i - 1], i)
    BY <2>2
  <2>4. \A i \in 0..(k + 1) : g[i] = IF i = 0 THEN pairs ELSE Next_(g[i - 1], i)
    <3> TAKE i \in 0..(k + 1)
    <3>1. CASE i = k + 1
      <4>1. g[k + 1] = Next_(f[k], k + 1) /\ g[k] = f[k] /\ (k + 1) - 1 = k /\ k + 1 # 0
        BY <2>3
      <4> QED
        BY <3>1, <4>1
    <3>2. CASE i \in 0..k
      <4>1. i # 0 => i - 1 \in 0..k
        BY <3>2
      <4> HIDE DEF g
      <4> QED
        BY <2>3, <3>2, <4>1
    <3> QED
      BY <3>1, <3>2
  <2>5. g = [i \in 0..(k + 1) |-> IF i = 0 THEN pairs ELSE Next_(g[i - 1], i)]
    <3>1. g = [i \in 0..(k + 1) |-> g[i]]
      OBVIOUS
    <3> HIDE DEF g
    <3> QED
      BY <2>4, <3>1
  <2> HIDE DEF g
  <2>6. Revisions(g, pairs, order, stats, k + 1)
    BY <1>0, <2>5
  <2> QED
    BY <2>6
<1>3. Nat \subseteq S
  <2> HIDE DEF S
  <2> QED
    BY <1>1, <1>2, NumbersInduct
<1> QED
  BY <1>3

\* Pairs that have been predicted and measured.
PairsMeasured(q) ==
  \E n \in Nat :
    /\ DOMAIN q = 1..n
    /\ \A i \in 1..n : /\ {"verdict", "measured"} \subseteq DOMAIN q[i]
                       /\ IsVerdict(q[i].verdict)
                       /\ q[i].measured.transports \in Seq(Transports)

\* ReviseInOrder(): the first pair first, every pair tells what its measurement asks for.
LEMMA RevisedTell ==
  ASSUME NEW pairs, PairsMeasured(pairs), NEW stats
  PROVE  LET after == ReviseInOrder(pairs, [i \in 1..Len(pairs) |-> i], stats)
         IN /\ DOMAIN after = DOMAIN pairs
            /\ \A i \in DOMAIN pairs : /\ IsVerdict(after[i].verdict)
                                      /\ Tells(after[i].verdict, after[i].measured)
<1>1. PICK n \in Nat :
        /\ DOMAIN pairs = 1..n
        /\ \A i \in 1..n : /\ {"verdict", "measured"} \subseteq DOMAIN pairs[i]
                           /\ IsVerdict(pairs[i].verdict)
                           /\ pairs[i].measured.transports \in Seq(Transports)
  BY DEF PairsMeasured
<1> DEFINE order == [i \in 1..Len(pairs) |-> i]
           f == CHOOSE g : Revisions(g, pairs, order, stats, Len(order))
<1>2. Len(pairs) = n
  BY <1>1
<1>3. Len(order) = n /\ \A k \in 1..n : order[k] = k
  BY <1>2
<1> HIDE DEF order
<1>4. Revisions(f, pairs, order, stats, Len(order))
  <2>1. \E g : Revisions(g, pairs, order, stats, Len(order))
    BY <1>3, RevisionsDefined
  <2> QED
    BY <2>1, Zenon
<1>5. ReviseInOrder(pairs, order, stats) = f[Len(order)]
  BY Zenon DEF ReviseInOrder, Revisions
<1> HIDE DEF f
<1>6. /\ f[0] = pairs
      /\ \A k \in 1..n :
           f[k] = [f[k - 1] EXCEPT ![k].verdict = revise(f[k - 1][k], f[k - 1], stats)]
  <2> DEFINE Turn(k) == [f[k - 1] EXCEPT ![order[k]].verdict =
                           revise(f[k - 1][order[k]], f[k - 1], stats)]
  <2>1. f = [k \in 0..n |-> IF k = 0 THEN pairs ELSE Turn(k)]
    BY <1>3, <1>4 DEF Revisions
  <2>2. \A k \in 1..n :
          Turn(k) = [f[k - 1] EXCEPT ![k].verdict = revise(f[k - 1][k], f[k - 1], stats)]
    BY <1>3
  <2> HIDE DEF Turn
  <2>3. f[0] = pairs /\ \A k \in 1..n : f[k] = Turn(k)
    BY <2>1
  <2> QED
    BY <2>2, <2>3
<1> DEFINE Done(k, i) ==
             /\ i > k => f[k][i] = pairs[i]
             /\ i <= k => /\ IsVerdict(f[k][i].verdict)
                          /\ Tells(f[k][i].verdict, f[k][i].measured)
           S == {k \in Nat : k <= n => DOMAIN f[k] = 1..n /\ \A i \in 1..n : Done(k, i)}
<1>7. 0 \in S
  BY <1>1, <1>6
<1>8. ASSUME NEW k \in Nat, k \in S PROVE k + 1 \in S
  <2> SUFFICES ASSUME k + 1 <= n
               PROVE  DOMAIN f[k + 1] = 1..n /\ \A i \in 1..n : Done(k + 1, i)
    OBVIOUS
  <2> DEFINE a == f[k]
             u == revise(a[k + 1], a, stats)
  <2>1. k + 1 \in 1..n /\ (k + 1) - 1 = k /\ k <= n
    OBVIOUS
  <2>2. f[k + 1] = [a EXCEPT ![k + 1].verdict = u]
    BY <1>6, <2>1
  <2>3. DOMAIN a = 1..n /\ \A i \in 1..n : Done(k, i)
    BY <1>8, <2>1
  <2>4. a[k + 1] = pairs[k + 1]
    BY <2>1, <2>3
  <2>5. Tells(u, pairs[k + 1].measured) /\ IsVerdict(u)
    BY <1>1, <2>1, <2>4, RevisedIs, RevisedVerdict DEF IsVerdict
  <2> HIDE DEF u, a
  <2>6. DOMAIN f[k + 1] = 1..n
    BY <2>2, <2>3
  <2>7. f[k + 1][k + 1].verdict = u /\ f[k + 1][k + 1].measured = pairs[k + 1].measured
    BY <1>1, <2>1, <2>2, <2>3, <2>4
  <2>8. \A i \in 1..n : i # k + 1 => f[k + 1][i] = a[i]
    BY <2>2, <2>3
  <2>9. ASSUME NEW i \in 1..n PROVE Done(k + 1, i)
    <3>1. CASE i = k + 1
      BY <2>5, <2>7, <3>1
    <3>2. CASE i # k + 1
      BY <2>3, <2>8, <3>2 DEF a
    <3> QED
      BY <3>1, <3>2
  <2> QED
    BY <2>6, <2>9
<1>9. Nat \subseteq S
  <2> HIDE DEF S
  <2> QED
    BY <1>7, <1>8, NumbersInduct
<1>10. /\ DOMAIN f[n] = 1..n
       /\ \A i \in 1..n : /\ IsVerdict(f[n][i].verdict)
                          /\ Tells(f[n][i].verdict, f[n][i].measured)
  BY <1>9
<1> QED
  BY <1>1, <1>3, <1>5, <1>10 DEF order

\* Pairs that have verdicts and tell what their measurements ask for.
PairsTold(q) ==
  \E n \in Nat :
    /\ DOMAIN q = 1..n
    /\ \A i \in 1..n : IsVerdict(q[i].verdict) /\ Loud(q[i]) /\ SaysSo(q[i])

\* What the statistics write to a topic.
StatsFields == {"pairs", "lost_packets", "lost_available", "reliability_available", "resent"}

\* apply_stats(): every pair tells what its measurement asks for, and the rest of a topic but
\* the losses is what it was.
LEMMA AppliedAre ==
  ASSUME NEW topics, \A x \in DOMAIN topics : PairsPredicted(topics[x].pairs),
         NEW stats, NEW n \in Nat, DOMAIN stats.traffic = 1..n
  PROVE  LET applied == apply_stats(topics, stats)
         IN /\ DOMAIN applied = DOMAIN topics
            /\ \A x \in DOMAIN topics :
                 /\ DOMAIN applied[x] = DOMAIN topics[x] \cup StatsFields
                 /\ \A k \in DOMAIN topics[x] \ StatsFields : applied[x][k] = topics[x][k]
                 /\ PairsTold(applied[x].pairs)
<1> DEFINE Measured(t) ==
             [i \in DOMAIN t.pairs |->
                [writer |-> t.pairs[i].writer, reader |-> t.pairs[i].reader,
                 verdict |-> t.pairs[i].verdict, measured |-> measure(t.pairs[i], stats)]]
           After(q) == ReviseInOrder(q, [i \in 1..Len(q) |-> i], stats)
           applied == apply_stats(topics, stats)
<1>1. ASSUME NEW x \in DOMAIN topics PROVE PairsMeasured(Measured(topics[x]))
  <2> DEFINE q == topics[x].pairs
  <2>1. PICK k \in Nat : /\ DOMAIN q = 1..k
                         /\ \A i \in 1..k : \E w, r \in Endpoint : q[i] = Pair(w, r)
    BY <1>1 DEF PairsPredicted
  <2>2. \A i \in 1..k : IsVerdict(q[i].verdict)
    BY <2>1, PairIs
  <2>3. \A i \in 1..k : measure(q[i], stats).transports \in Seq(Transports)
    BY MeasuredTransports
  <2> HIDE DEF q
  <2>4. Measured(topics[x]) =
          [i \in 1..k |-> [writer |-> q[i].writer, reader |-> q[i].reader,
                           verdict |-> q[i].verdict, measured |-> measure(q[i], stats)]]
    BY <2>1 DEF q
  <2>5. \A i \in 1..k :
          LET p == Measured(topics[x])[i]
          IN /\ {"verdict", "measured"} \subseteq DOMAIN p
             /\ p.verdict = q[i].verdict /\ p.measured = measure(q[i], stats)
    BY <2>4
  <2>6. DOMAIN Measured(topics[x]) = 1..k
    BY <2>4
  <2> HIDE DEF Measured
  <2> QED
    BY <2>2, <2>3, <2>5, <2>6 DEF PairsMeasured
<1>2. /\ DOMAIN applied = DOMAIN topics
      /\ \A x \in DOMAIN topics :
           /\ applied[x].pairs = After(Measured(topics[x]))
           /\ DOMAIN applied[x] = DOMAIN topics[x] \cup StatsFields
           /\ \A k \in DOMAIN topics[x] \ StatsFields : applied[x][k] = topics[x][k]
  <2> DEFINE Lost(q) == topic_lost(q, stats)
             LostKnown(q) == \E p \in ToSet(q) : p.measured.lost_available
             Reliable(q) == \E p \in ToSet(q) : p.measured.reliability
             Resent(q) == SumOver(DOMAIN q, LAMBDA i : q[i].measured.resent)
             New(q) == [pairs |-> After(q), lost_packets |-> Lost(q),
                        lost_available |-> LostKnown(q), reliability_available |-> Reliable(q),
                        resent |-> Resent(q)]
  <2>1. applied = [x \in DOMAIN topics |-> With(topics[x], New(Measured(topics[x])))]
    BY Zenon DEF apply_stats
  <2> HIDE DEF Lost, LostKnown, Reliable, Resent, After, Measured
  <2>2. ASSUME NEW t
        PROVE  LET new == With(t, New(Measured(t)))
               IN /\ new.pairs = After(Measured(t))
                  /\ DOMAIN new = DOMAIN t \cup StatsFields
                  /\ \A k \in DOMAIN t \ StatsFields : new[k] = t[k]
    BY DEF With, StatsFields
  <2> HIDE DEF New, applied
  <2> QED
    BY <2>1, <2>2
<1> HIDE DEF Measured, applied
<1>3. ASSUME NEW x \in DOMAIN topics PROVE PairsTold(applied[x].pairs)
  <2> DEFINE q == Measured(topics[x])
  <2>1. /\ DOMAIN After(q) = DOMAIN q
        /\ \A i \in DOMAIN q : /\ IsVerdict(After(q)[i].verdict)
                              /\ Tells(After(q)[i].verdict, After(q)[i].measured)
    BY <1>1, RevisedTell
  <2>2. \E k \in Nat : DOMAIN q = 1..k
    BY <1>1 DEF PairsMeasured
  <2> HIDE DEF After, q
  <2>3. applied[x].pairs = After(q)
    BY <1>2 DEF q
  <2> QED
    BY <2>1, <2>2, <2>3 DEF Tells, PairsTold
<1> QED
  BY <1>2, <1>3 DEF applied

------------------------------------------------------------------------------
\* display_rows(): the pairs of a service or action are spread over the rows by the
\* participants of client and server.
LEMMA RowsAre ==
  ASSUME NEW topics, NEW A, \A t \in DOMAIN topics : Grouped(topics[t], A)
  PROVE  LET rows == display_rows(topics).groups
             PairAt(x) == topics[x[1]].pairs[x[2]]
         IN /\ \A k \in DOMAIN rows :
                 /\ \A x \in rows[k].to_server : /\ PairAt(x).writer.participant = k[2]
                                                /\ PairAt(x).reader.participant = k[3]
                 /\ \A x \in rows[k].to_client : /\ PairAt(x).writer.participant = k[3]
                                                /\ PairAt(x).reader.participant = k[2]
            /\ \A t \in DOMAIN topics :
                 topics[t].kind \in {"service", "action"} =>
                   \A i \in DOMAIN topics[t].pairs :
                     Cardinality({k \in DOMAIN rows :
                                    <<t, i>> \in rows[k].to_server \cup rows[k].to_client}) = 1
<1> DEFINE grouped == {t \in DOMAIN topics : topics[t].kind \in {"service", "action"}}
           real == UNION {{<<t, i>> : i \in DOMAIN topics[t].pairs} : t \in grouped}
           PairAt(x) == topics[x[1]].pairs[x[2]]
           RowKey(x) == Row(topics[x[1]], ClientOf(topics[x[1]], PairAt(x)).participant,
                         ServerOf(topics[x[1]], PairAt(x)).participant)
           lone == UNION {{<<t, e>> : e \in ToSet(topics[t].writers) \cup ToSet(topics[t].readers)}
                            : t \in {u \in grouped : topics[u].pairs = <<>>}}
           LoneKey(x) == IF IsClient(topics[x[1]], x[2])
                         THEN Row(topics[x[1]], x[2].participant, "")
                         ELSE Row(topics[x[1]], "", x[2].participant)
           keys == {RowKey(x) : x \in real} \cup {LoneKey(x) : x \in lone}
           Travels(k, direction) ==
             {x \in real : RowKey(x) = k /\ topics[x[1]].direction = direction}
           lonely(k) == {x \in lone : LoneKey(x) = k}
           rows == display_rows(topics).groups
<1>1. rows = [k \in keys |->
                [to_server |-> Travels(k, "to-server"), to_client |-> Travels(k, "to-client"),
                 unpaired_endpoints |-> {x[2] : x \in lonely(k)},
                 members |-> {x[1] : x \in {y \in real : RowKey(y) = k} \cup lonely(k)}]]
  BY DEF display_rows
<1> HIDE DEF rows, lone, LoneKey, lonely
<1>2. /\ DOMAIN rows = keys
      /\ \A k \in keys : /\ rows[k].to_server = Travels(k, "to-server")
                         /\ rows[k].to_client = Travels(k, "to-client")
  <2> HIDE DEF keys, Travels, real, RowKey
  <2> QED
    BY <1>1
<1>3. \A x \in real : RowKey(x) \in keys
  OBVIOUS
<1>4. \A x \in real : topics[x[1]].direction \in {"to-server", "to-client"}
  BY DEF Grouped
<1>5. \A t \in grouped : \A i \in DOMAIN topics[t].pairs : <<t, i>> \in real
  OBVIOUS
<1> HIDE DEF keys, real, grouped
<1>6. \A k : \A x \in Travels(k, "to-server") : /\ PairAt(x).writer.participant = k[2]
                                              /\ PairAt(x).reader.participant = k[3]
  BY DEF Row, ClientOf, ServerOf
<1>7. \A k : \A x \in Travels(k, "to-client") : /\ PairAt(x).writer.participant = k[3]
                                              /\ PairAt(x).reader.participant = k[2]
  BY DEF Row, ClientOf, ServerOf
<1>8. ASSUME NEW x \in real
      PROVE  {k \in keys : x \in Travels(k, "to-server") \cup Travels(k, "to-client")} = {RowKey(x)}
  <2> HIDE DEF RowKey
  <2>1. \A k : x \in Travels(k, "to-server") \cup Travels(k, "to-client") <=> RowKey(x) = k
    BY <1>4
  <2> QED
    BY <1>3, <2>1
<1> HIDE DEF RowKey, Travels
<1>9. \A x \in real : Cardinality({k \in DOMAIN rows : x \in rows[k].to_server
                                                            \cup rows[k].to_client}) = 1
  <2> TAKE x \in real
  <2>1. {k \in DOMAIN rows : x \in rows[k].to_server \cup rows[k].to_client} = {RowKey(x)}
    BY <1>2, <1>8
  <2> QED
    BY <2>1, FS_Singleton
<1>10. \A k \in DOMAIN rows :
         /\ \A x \in rows[k].to_server : /\ PairAt(x).writer.participant = k[2]
                                        /\ PairAt(x).reader.participant = k[3]
         /\ \A x \in rows[k].to_client : /\ PairAt(x).writer.participant = k[3]
                                        /\ PairAt(x).reader.participant = k[2]
  <2> HIDE DEF PairAt
  <2> QED
    BY <1>2, <1>6, <1>7
<1>11. \A t \in DOMAIN topics :
         topics[t].kind \in {"service", "action"} =>
           \A i \in DOMAIN topics[t].pairs :
             Cardinality({k \in DOMAIN rows :
                            <<t, i>> \in rows[k].to_server \cup rows[k].to_client}) = 1
  <2> TAKE t \in DOMAIN topics
  <2> HAVE topics[t].kind \in {"service", "action"}
  <2> TAKE i \in DOMAIN topics[t].pairs
  <2>1. <<t, i>> \in real
    BY <1>5 DEF grouped
  <2> QED
    BY <1>9, <2>1
<1> QED
  BY <1>10, <1>11 DEF rows

\* note_unmeasured_pairs(): the unmeasured pairs are among the delivered ones, and those
\* without RTPS_SENT among the unmeasured.
LEMMA CountsNested ==
  ASSUME NEW topics, IsFiniteSet(DOMAIN topics), NEW stats,
         \A t \in DOMAIN topics : \E n \in Nat : DOMAIN topics[t].pairs = 1..n
  PROVE  LET counts == note_unmeasured_pairs(topics, stats)
         IN counts.absent <= counts.unmeasured /\ counts.unmeasured <= counts.delivered
<1> DEFINE Of(t) == {<<t, i>> : i \in DOMAIN topics[t].pairs}
           all_pairs == UNION {Of(t) : t \in DOMAIN topics}
           PairAt(x) == topics[x[1]].pairs[x[2]]
           D == {x \in all_pairs : counted_as_delivered(PairAt(x))}
           U == {x \in all_pairs : Unmeasured(PairAt(x))}
           N == {x \in all_pairs : Absent(PairAt(x), stats)}
           counts == note_unmeasured_pairs(topics, stats)
<1>1. counts.delivered = Cardinality(D) /\ counts.unmeasured = Cardinality(U)
      /\ counts.absent = Cardinality(N)
  BY DEF note_unmeasured_pairs
<1>2. N \subseteq U /\ U \subseteq D /\ D \subseteq all_pairs
  BY DEF Absent, Unmeasured
<1>3. \A t \in DOMAIN topics : IsFiniteSet(Of(t))
  <2> TAKE t \in DOMAIN topics
  <2>1. PICK n \in Nat : DOMAIN topics[t].pairs = 1..n
    OBVIOUS
  <2> DEFINE f == [i \in 1..n |-> <<t, i>>]
  <2>2. f \in Surjection(1..n, Of(t))
    BY <2>1 DEF Surjection
  <2> HIDE DEF f
  <2>3. IsFiniteSet(1..n)
    BY FS_Interval
  <2> QED
    BY <2>2, <2>3, FS_Surjection
<1> DEFINE S == {Of(t) : t \in DOMAIN topics}
<1>4. IsFiniteSet(S)
  <2> DEFINE f == [t \in DOMAIN topics |-> Of(t)]
  <2> HIDE DEF Of
  <2>1. f \in Surjection(DOMAIN topics, S)
    BY DEF Surjection
  <2> HIDE DEF f, S
  <2> QED
    BY <2>1, FS_Surjection
<1>5. \A T \in S : IsFiniteSet(T)
  BY <1>3
<1>6. all_pairs = UNION S
  OBVIOUS
<1> HIDE DEF S, D, U, N, all_pairs, counts
<1>7. IsFiniteSet(all_pairs)
  BY <1>4, <1>5, <1>6, FS_UNION
<1>8. IsFiniteSet(D)
  BY <1>2, <1>7, FS_Subset
<1>9. IsFiniteSet(U)
  BY <1>2, <1>8, FS_Subset
<1>10. Cardinality(U) <= Cardinality(D) /\ Cardinality(N) <= Cardinality(U)
  BY <1>2, <1>8, <1>9, FS_Subset
<1> QED
  BY <1>1, <1>10 DEF counts

------------------------------------------------------------------------------
\* Nothing but Collect and Show touches the frame, and while one is shown the world waits: the
\* frame is the one of this moment.  A finite number of counters has arrived.
FrameInv ==
  /\ scenario \in Scenarios
  /\ system \subseteq {e.guid : e \in scenario.endpoints} /\ known \subseteq system
  /\ dropped \in 0..scenario.bounds.lost
  /\ IsFiniteSet(DOMAIN slots)
  /\ frame.shown => \E o \in scenario.options : frame = FrameOf(o)

\* The frame depends on what is discovered and on the statistics, and on nothing else.
LEMMA FrameStays ==
  ASSUME scenario' = scenario, known' = known, slots' = slots, dropped' = dropped, NEW o
  PROVE  FrameOf(o)' = FrameOf(o)
<1>1. Statistics' = Statistics
  <2>1. \A k : Taken(k)' = Taken(k)
    BY DEF Taken
  <2>2. \A c : Entry(c)' = Entry(c) /\ Slot(c)' = Slot(c)
    BY DEF Entry, Slot
  <2>3. \A c : Publisher(c)' = Publisher(c)
    BY DEF Publisher, EndpointOf
  <2>4. \A g : Endpoints(g)' = Endpoints(g)
    BY DEF Endpoints
  <2> QED
    BY <2>1, <2>2, <2>3, <2>4 DEF Statistics
<1>2. Endpoints(known)' = Endpoints(known)
  BY DEF Endpoints
<1> QED
  BY <1>1, <1>2 DEF FrameOf

\* Every step keeps the invariant.
LEMMA FrameInvStep == FrameInv /\ [FrameNext]_frameVars => FrameInv'
<1> SUFFICES ASSUME FrameInv, [FrameNext]_frameVars PROVE FrameInv'
  OBVIOUS
<1> DEFINE Counted == system \subseteq {e.guid : e \in scenario.endpoints} /\ known \subseteq system
                      /\ dropped \in 0..scenario.bounds.lost
<1>1. ASSUME scenario' = scenario, ~frame.shown, frame' = frame, Counted',
             IsFiniteSet(DOMAIN slots')
      PROVE  FrameInv'
  BY <1>1 DEF FrameInv
<1>2. CASE TakeStatistics
  <2>1. PICK c : DOMAIN slots' = DOMAIN slots \cup {c}
    BY <1>2 DEF TakeStatistics
  <2>2. IsFiniteSet(DOMAIN slots \cup {c})
    BY FS_AddElement DEF FrameInv
  <2> QED
    BY <1>1, <1>2, <2>1, <2>2 DEF TakeStatistics, FrameInv
<1>3. CASE Discover
  BY <1>1, <1>3 DEF Discover, FrameInv
<1>4. CASE Leave
  BY <1>1, <1>4 DEF Leave, FrameInv
<1>5. CASE Publish
  BY <1>1, <1>5 DEF Publish, FrameInv
<1>6. CASE Heartbeat \/ LosePacket
  BY <1>1, <1>6 DEF Heartbeat, LosePacket, FrameInv
<1>7. CASE LoseStatistics
  <2>1. /\ scenario' = scenario /\ ~frame.shown /\ frame' = frame /\ slots' = slots
        /\ system' = system /\ known' = known
        /\ dropped' = dropped + 1 /\ dropped < scenario.bounds.lost
    BY <1>7 DEF LoseStatistics
  <2>2. scenario.bounds.lost \in Nat /\ dropped \in 0..scenario.bounds.lost
    BY ScenariosAssumption DEF FrameInv
  <2>3. dropped' \in 0..scenario.bounds.lost
    BY <2>1, <2>2
  <2> QED
    BY <1>1, <2>1, <2>3 DEF FrameInv
<1>8. CASE Collect
  <2>1. PICK o \in scenario.options : frame' = FrameOf(o)
    BY <1>8 DEF Collect
  <2>2. /\ scenario' = scenario /\ system' = system /\ known' = known /\ slots' = slots
        /\ dropped' = dropped
    BY <1>8 DEF Collect
  <2>3. FrameOf(o)' = FrameOf(o)
    BY <2>2, FrameStays
  <2> QED
    BY <2>1, <2>2, <2>3 DEF FrameInv
<1>9. CASE Show
  BY <1>9 DEF Show, NoFrame, FrameInv
<1>10. CASE UNCHANGED frameVars
  <2>1. /\ scenario' = scenario /\ system' = system /\ known' = known /\ slots' = slots
        /\ dropped' = dropped /\ frame' = frame
    BY <1>10 DEF frameVars
  <2>2. \A o : FrameOf(o)' = FrameOf(o)
    BY <2>1, FrameStays
  <2> QED
    BY <2>1, <2>2 DEF FrameInv
<1> QED
  BY <1>2, <1>3, <1>4, <1>5, <1>6, <1>7, <1>8, <1>9, <1>10 DEF FrameNext

\* The invariant of the frame holds.
LEMMA FrameInvHolds == FrameSpec => []FrameInv
<1>1. FrameInit => FrameInv
  <2> SUFFICES ASSUME FrameInit PROVE FrameInv
    OBVIOUS
  <2>1. /\ DOMAIN slots = {} /\ scenario \in Scenarios /\ ~frame.shown
        /\ system = {e.guid : e \in scenario.endpoints} /\ known = scenario.known /\ dropped = 0
    BY DEF FrameInit, NoFrame
  <2>2. scenario.bounds.lost \in Nat /\ scenario.known \subseteq {e.guid : e \in scenario.endpoints}
    BY <2>1, ScenariosAssumption
  <2> QED
    BY <2>1, <2>2, FS_EmptySet DEF FrameInv
<1> QED
  BY <1>1, FrameInvStep, PTL DEF FrameSpec

\* The traffic of a frame is a sequence: one entry per counter that has arrived.
LEMMA TrafficIs ==
  ASSUME IsFiniteSet(DOMAIN slots)
  PROVE  \E n \in Nat : DOMAIN Statistics.traffic = 1..n
<1>1. Taken("sent") \subseteq DOMAIN slots
  BY DEF Taken
<1>2. IsFiniteSet(Taken("sent"))
  BY <1>1, FS_Subset
<1>3. Cardinality(Taken("sent")) \in Nat
  BY <1>2, FS_CardinalityType
<1>4. DOMAIN Statistics.traffic = 1..Cardinality(Taken("sent"))
  BY DEF Statistics
<1> QED
  BY <1>3, <1>4

\* collect(): the frame of this moment, whatever is discovered and whatever has arrived.
LEMMA FrameOfIs ==
  ASSUME FrameInv, NEW o
  PROVE  LET f == FrameOf(o)
             E == Endpoints(known)
         IN /\ f.linked = link_buffer_companions(E)
            /\ DOMAIN f.predicted \subseteq DOMAIN f.all_topics
            /\ DOMAIN f.topics = DOMAIN f.predicted /\ IsFiniteSet(DOMAIN f.topics)
            /\ \A x \in DOMAIN f.predicted : PairsPredicted(f.predicted[x].pairs)
            /\ \A x \in DOMAIN f.topics : /\ PairsTold(f.topics[x].pairs)
                                          /\ Grouped(f.topics[x], scenario.actions)
                                          /\ Partners(f.topics[x], x, E)
            /\ f.counts = note_unmeasured_pairs(f.topics, Statistics)
<1> DEFINE E == Endpoints(known)
           A == scenario.actions
           linked == link_buffer_companions(E)
           kept == Kept(linked, o)
           topics0 == summarize(kept)
           viewed == apply_node_filter(apply_default_view(topics0, o.all), o.nodes)
           topics == apply_stats(viewed, Statistics)
           f == FrameOf(o)
<1>1. E \in SUBSET scenario.endpoints
  BY DEF Endpoints
<1>2. scenario.endpoints \in SUBSET Endpoint /\ IsFiniteSet(scenario.endpoints)
  BY ScenariosAssumption DEF FrameInv
<1>3. /\ f.linked = linked /\ f.all_topics = topics0 /\ f.predicted = viewed
      /\ f.topics = topics /\ f.counts = note_unmeasured_pairs(topics, Statistics)
  BY DEF FrameOf
<1>4. ActionsReal(scenario.endpoints, A)
  BY WorldAssumption DEF FrameInv, ActionsReal
<1> HIDE DEF E, A
<1>5. E \in SUBSET Endpoint /\ IsFiniteSet(E)
  BY <1>1, <1>2, FS_Subset
<1>6. /\ linked \in SUBSET Endpoint /\ IsFiniteSet(linked)
      /\ \A l \in linked : \E e \in E : Copy(l, e)
      /\ \A e \in E : \E l \in linked : Copy(l, e)
  BY <1>5, LinkedAre
<1> HIDE DEF linked
<1>7. ActionsReal(linked, A)
  <2> SUFFICES ASSUME NEW l \in linked,
                      parse_action_member(l.topic, l.dds_type).action_type # ""
               PROVE  parse_action_member(l.topic, l.dds_type).action \in A
    BY Zenon DEF ActionsReal
  <2>1. PICK e \in E : l.topic = e.topic /\ l.dds_type = e.dds_type
    BY <1>6 DEF Copy
  <2>2. parse_action_member(l.topic, l.dds_type) = parse_action_member(e.topic, e.dds_type)
    BY <2>1
  <2>3. parse_action_member(e.topic, e.dds_type).action_type # "" =>
          parse_action_member(e.topic, e.dds_type).action \in A
    BY <1>1, <1>4, Zenon DEF ActionsReal
  <2> QED
    BY <2>2, <2>3
<1>8. /\ kept \in SUBSET linked
      /\ \A k \in kept : \A l \in linked : l.topic = k.topic => l \in kept
  BY DEF Kept
<1> HIDE DEF kept
<1>9. kept \in SUBSET Endpoint /\ IsFiniteSet(kept) /\ ActionsReal(kept, A)
  BY <1>6, <1>7, <1>8, FS_Subset DEF ActionsReal
<1>10. /\ DOMAIN topics0 = {e.topic : e \in kept} /\ IsFiniteSet(DOMAIN topics0)
       /\ \A x \in DOMAIN topics0 : Whole(topics0[x], x, kept, A)
  BY <1>9, SummarizedAre
<1>11. \A x \in DOMAIN topics0 : /\ NoWriter(x, kept) <=> NoWriter(x, E)
                                 /\ NoReader(x, kept) <=> NoReader(x, E)
  <2> TAKE x \in DOMAIN topics0
  <2>1. PICK k \in kept : k.topic = x
    BY <1>10
  <2>2. \A e \in E : e.topic = x => \E l \in kept : Copy(l, e)
    BY <1>6, <1>8, <2>1 DEF Copy
  <2>3. \A l \in kept : \E e \in E : Copy(l, e)
    BY <1>6, <1>8
  <2> QED
    BY <2>2, <2>3 DEF NoWriter, NoReader, Copy
<1> HIDE DEF topics0
<1>12. /\ DOMAIN viewed \subseteq DOMAIN topics0
       /\ \A x \in DOMAIN viewed : Seen(viewed[x], x, kept, A)
  BY <1>10, ViewedAre
<1> HIDE DEF viewed
<1>13. PICK n \in Nat : DOMAIN Statistics.traffic = 1..n
  BY TrafficIs DEF FrameInv
<1>14. \A x \in DOMAIN viewed : PairsPredicted(viewed[x].pairs)
  BY <1>12 DEF Seen
<1>15. /\ DOMAIN topics = DOMAIN viewed
       /\ \A x \in DOMAIN viewed :
            /\ DOMAIN topics[x] = DOMAIN viewed[x] \cup StatsFields
            /\ \A k \in DOMAIN viewed[x] \ StatsFields : topics[x][k] = viewed[x][k]
            /\ PairsTold(topics[x].pairs)
  BY <1>13, <1>14, AppliedAre
<1> HIDE DEF topics
<1>16. ASSUME NEW x \in DOMAIN viewed
       PROVE  Grouped(topics[x], A) /\ Partners(topics[x], x, E)
  <2>1. /\ TopicFields \subseteq DOMAIN viewed[x] /\ Grouped(viewed[x], A)
        /\ Partners(viewed[x], x, kept)
    BY <1>12 DEF Seen
  <2>2. /\ topics[x].kind = viewed[x].kind /\ topics[x].direction = viewed[x].direction
        /\ topics[x].group = viewed[x].group /\ topics[x].unmatched = viewed[x].unmatched
    BY <1>15, <2>1 DEF TopicFields, StatsFields
  <2>3. x \in DOMAIN topics0
    BY <1>12
  <2> QED
    BY <1>11, <2>1, <2>2, <2>3 DEF Grouped, Partners
<1>17. IsFiniteSet(DOMAIN viewed)
  BY <1>10, <1>12, FS_Subset
<1> HIDE DEF f
<1> QED
  BY <1>3, <1>12, <1>14, <1>15, <1>16, <1>17 DEF f, E, A, linked

\* decide(): whatever endpoints there are and whatever part of them is discovered, linked,
\* filtered and viewed, the verdict of every pair of matching endpoints names the fastest
\* transport the two have in common, at a locator of the reader.
THEOREM VerdictIsFastest == FrameSpec => []VerdictFastest
<1>1. FrameInv => VerdictFastest
  <2> SUFFICES ASSUME FrameInv, frame.shown,
                      NEW t \in DOMAIN frame.predicted,
                      NEW p \in ToSet(frame.predicted[t].pairs),
                      ~UnmatchedPair(p.verdict),
                      "shm-ipc-namespace-split" \notin p.verdict.warnings
               PROVE  Fastest(p.verdict, p.writer, p.reader)
    BY DEF VerdictFastest
  <2> DEFINE q == frame.predicted[t].pairs
  <2>1. PairsPredicted(q)
    BY FrameOfIs DEF FrameInv
  <2>2. PICK n \in Nat : /\ DOMAIN q = 1..n
                         /\ \A i \in 1..n : \E w, r \in Endpoint : q[i] = Pair(w, r)
    BY <2>1 DEF PairsPredicted
  <2>3. PICK i \in 1..n : p = q[i]
    BY <2>2 DEF ToSet
  <2>4. PICK w \in Endpoint, r \in Endpoint : p = Pair(w, r)
    BY <2>2, <2>3
  <2> QED
    BY <2>4, PairIs
<1> QED
  BY <1>1, FrameInvHolds, PTL

\* Every pair that is shown.
LEMMA ShownTold ==
  ASSUME FrameInv, frame.shown, NEW p, p \in PairsShown
  PROVE  IsVerdict(p.verdict) /\ Loud(p) /\ SaysSo(p)
<1>1. PICK t \in DOMAIN frame.topics : p \in ToSet(frame.topics[t].pairs)
  BY DEF PairsShown
<1> DEFINE q == frame.topics[t].pairs
<1>2. PairsTold(q)
  BY FrameOfIs DEF FrameInv
<1> QED
  BY <1>1, <1>2 DEF PairsTold, ToSet

\* apply_stats(), note_unmeasured_pairs(): whatever is measured and in whatever order the
\* counters arrive, a delivery that contradicts the prediction, or that no packet explains, is
\* told by a code of its pair.
THEOREM DeliveriesSaid == FrameSpec => []DeliverySaid
<1>1. FrameInv => DeliverySaid
  BY ShownTold DEF DeliverySaid, ContradictionLoud, UnmeasuredSaidSo
<1> QED
  BY <1>1, FrameInvHolds, PTL

\* link_buffer_companions(), classify_topics(), filter_by_node(), display_rows(): whatever is
\* discovered and viewed, companions are linked to their own parents, a side is missing only
\* when none is discovered, services and actions are those of the system, and every pair of
\* one travels in one row.
THEOREM TopicsAreTrue == FrameSpec => []TopicsTrue
<1>1. FrameInv => FrameTypes
  <2> SUFFICES ASSUME FrameInv PROVE FrameTypes
    OBVIOUS
  <2>1. CASE ~frame.shown
    BY <2>1 DEF FrameInv, FrameTypes
  <2>2. CASE frame.shown
    <3>1. PICK o : frame = FrameOf(o)
      BY <2>2 DEF FrameInv
    <3>2. /\ DOMAIN frame.topics \subseteq DOMAIN frame.all_topics
          /\ IsFiniteSet(DOMAIN frame.topics)
          /\ \A x \in DOMAIN frame.topics : PairsTold(frame.topics[x].pairs)
          /\ frame.counts = note_unmeasured_pairs(frame.topics, Statistics)
      BY <3>1, FrameOfIs
    <3>3. \A x \in DOMAIN frame.topics : \E n \in Nat : DOMAIN frame.topics[x].pairs = 1..n
      BY <3>2 DEF PairsTold
    <3>4. /\ frame.counts.absent <= frame.counts.unmeasured
          /\ frame.counts.unmeasured <= frame.counts.delivered
      BY <3>2, <3>3, CountsNested
    <3>5. \A p \in PairsShown : /\ p.verdict.transport \in Transports
                               /\ p.verdict.confidence \in {"CERTAIN", "LIKELY"}
      BY <2>2, ShownTold DEF IsVerdict
    <3> QED
      BY <3>2, <3>4, <3>5 DEF FrameInv, FrameTypes
  <2> QED
    BY <2>1, <2>2
<1>2. FrameInv => LinkTrue
  <2> SUFFICES ASSUME FrameInv, frame.shown,
                      NEW c \in Endpoints(known \cap DOMAIN scenario.parents),
                      scenario.parents[c.guid] \in known
               PROVE  \E e \in frame.linked : /\ e.guid = c.guid
                                              /\ e.parent = scenario.parents[c.guid]
    BY DEF LinkTrue
  <2> DEFINE E == Endpoints(known)
             S == scenario.endpoints
  <2>1. /\ S \in SUBSET Endpoint /\ IsFiniteSet(S)
        /\ \A e, f \in S : e.participant = f.participant /\ e.key = f.key => e = f
    BY ScenariosAssumption, WorldAssumption DEF FrameInv
  <2>2. E \in SUBSET S /\ c \in E /\ c \in S /\ c.guid \in DOMAIN scenario.parents
    BY DEF Endpoints
  <2>3. PICK p \in Candidates(c, S) : /\ p.guid = scenario.parents[c.guid]
                                      /\ p.key + 1 = c.key /\ p.entity_kind = c.entity_kind
    BY <2>2, WorldAssumption DEF FrameInv
  <2>4. p \in E
    BY <2>3 DEF Candidates, Endpoints
  <2>5. frame.linked = link_buffer_companions(E)
    BY FrameOfIs DEF FrameInv
  <2> HIDE DEF E, S
  <2>6. E \in SUBSET Endpoint /\ IsFiniteSet(E)
    BY <2>1, <2>2, FS_Subset
  <2>7. p \in Candidates(c, E)
    BY <2>3, <2>4 DEF Candidates
  <2>8. parent_guid(c, E) = scenario.parents[c.guid]
    <3>1. \A e, f \in E : e.participant = f.participant /\ e.key = f.key => e = f
      BY <2>1, <2>2
    <3> QED
      BY <2>2, <2>3, <2>6, <2>7, <3>1, ParentIs
  <2>9. \E l \in link_buffer_companions(E) : Copy(l, c) /\ l.parent = parent_guid(c, E)
    BY <2>2, <2>6, LinkedAre
  <2> QED
    BY <2>5, <2>8, <2>9 DEF Copy
<1>3. FrameInv => UnmatchedTrue
  <2> SUFFICES ASSUME FrameInv, frame.shown, NEW t \in DOMAIN frame.topics
               PROVE  LET none == frame.topics[t].unmatched
                          ours == {e \in Endpoints(known) : e.topic = t}
                      IN /\ "no-matching-writer" \in none <=> ~\E e \in ours : e.is_writer
                         /\ "no-matching-reader" \in none <=> \A e \in ours : e.is_writer
    BY DEF UnmatchedTrue
  <2>1. Partners(frame.topics[t], t, Endpoints(known))
    BY FrameOfIs DEF FrameInv
  <2> QED
    BY <2>1 DEF Partners, NoWriter, NoReader
<1>4. FrameInv => RowsTrue /\ ActionTrue
  <2> SUFFICES ASSUME FrameInv, frame.shown PROVE RowsTrue /\ ActionTrue
    BY DEF RowsTrue, ActionTrue
  <2>1. \A t \in DOMAIN frame.topics : Grouped(frame.topics[t], scenario.actions)
    BY FrameOfIs DEF FrameInv
  <2>2. ActionTrue
    BY <2>1 DEF ActionTrue, Grouped
  <2>3. RowsTrue
    BY <2>1, RowsAre DEF RowsTrue
  <2> QED
    BY <2>2, <2>3
<1>5. FrameInv => TopicsTrue
  BY <1>1, <1>2, <1>3, <1>4 DEF TopicsTrue
<1> QED
  BY <1>5, FrameInvHolds, PTL

==============================================================================
