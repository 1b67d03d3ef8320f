--------------------------- MODULE LiveStreamProofs ---------------------------
(***************************************************************************)
(* Theorems about the live server and its viewers, for any number of       *)
(* viewers, any connection buffer and any number of documents, cuts and    *)
(* restarts: the server implements latest-value delivery, and a viewer's   *)
(* count of skipped frames is exact.                                       *)
(*                                                                         *)
(* The invariant follows one connection from the stream to the viewer:     *)
(* what the handler has seen, what is on the wire, what the viewer has.    *)
(***************************************************************************)
EXTENDS LiveStream, FiniteSetTheorems, SequenceTheorems, TLAPS

Event == [kind : {"document", "status"}, id : Nat]

\* The places of the documents on a connection.
Docs(w) == {i \in 1..Len(w) : w[i].kind = "document"}

\* The end is on its way to the viewer.
EndSent(w) == \E i \in 1..Len(w) : w[i].kind = "status"

\* Documents go up, from 1 to `high`, and nothing comes after the end.
Ordered(w, high) ==
  /\ \A i \in Docs(w) : 1 <= w[i].id /\ w[i].id <= high
  /\ \A i, j \in Docs(w) : i < j => w[i].id < w[j].id
  /\ \A i \in 1..Len(w) : w[i].kind = "status" => i = Len(w)

\* No document is older than number n.
NoOlder(w, n) == \A i \in Docs(w) : n <= w[i].id

\* Once the viewer has read the connection, it has document n.
Arrives(w, n, had) == (\E i \in Docs(w) : w[i].id = n) \/ (had = n /\ Docs(w) = {})

\* One server thread: once the stream has ended nothing is left to be read.
PumpInv == ended => exited /\ pipe = 0

\* One viewer.  What is on the wire was seen by its handler, in order; it is not older than what
\* the viewer has of this server.
WireInv(c) ==
  /\ wire[c] # <<>> => conn[c] = "open"
  /\ hpc[c] # "none" => up /\ conn[c] = "open"
  /\ conn[c] = "open" => seen[c] <= seq
  /\ Ordered(wire[c], seen[c])
  /\ shown[c].epoch <= epoch
  /\ shown[c].epoch = epoch =>
       last[c] <= seq /\ NoOlder(wire[c], last[c])

\* Its handler between waking up and writing.
HandlerInv(c) ==
  /\ hpc[c] = "send" =>
       /\ seen[c] <= woke[c].seq /\ woke[c].seq <= seq
       /\ shown[c].epoch = epoch => last[c] <= woke[c].seq
       /\ woke[c].ended => ended /\ woke[c].seq = seq
  /\ hpc[c] = "status" \/ EndSent(wire[c]) => ended /\ seen[c] = seq
  /\ EndSent(wire[c]) => hpc[c] = "none"
  /\ (hpc[c] # "none" \/ EndSent(wire[c])) /\ seen[c] > 0 => Arrives(wire[c], seen[c], last[c])

StreamInv == TypeOK /\ PumpInv /\ \A c \in Clients : WireInv(c) /\ HandlerInv(c)

\* What a viewer has taken up from the first server.
TakenInv ==
  /\ epoch >= 1
  /\ epoch = 1 =>
       \A c \in Clients :
         /\ \A n \in taken[c] : 1 <= n /\ n <= last[c]
         /\ last[c] # 0 => last[c] \in taken[c] /\ shown[c].epoch = 1

CountInv == StreamInv /\ TakenInv /\ SkippedExact

------------------------------------------------------------------------------
\* Operations on a connection.

LEMMA WireEmpty ==
  /\ <<>> \in Seq(Event) /\ Docs(<<>>) = {} /\ ~EndSent(<<>>)
  /\ \A high : Ordered(<<>>, high) /\ NoOlder(<<>>, high)
<1>1. Len(<<>>) = 0 /\ <<>> \in Seq(Event)
  BY EmptySeq
<1> QED
  BY <1>1 DEF Docs, EndSent, Ordered, NoOlder

LEMMA DocNumber ==
  ASSUME NEW w \in Seq(Event), NEW i \in Docs(w)
  PROVE  i \in 1..Len(w) /\ w[i].id \in Nat
<1>1. i \in 1..Len(w)
  BY DEF Docs
<1>2. w[i] \in Event
  BY <1>1, ElementOfSeq
<1> QED
  BY <1>1, <1>2 DEF Event

\* A document is written: it is the highest and the last.
LEMMA WireSend ==
  ASSUME NEW w \in Seq(Event), NEW high \in Nat, Ordered(w, high), ~EndSent(w),
         NEW doc \in Event, doc.kind = "document", high < doc.id,
         NEW v, v = Append(w, doc)
  PROVE  /\ v \in Seq(Event) /\ v # <<>>
         /\ Ordered(v, doc.id) /\ ~EndSent(v)
         /\ \A n : NoOlder(w, n) /\ n <= doc.id => NoOlder(v, n)
         /\ \A had : Arrives(v, doc.id, had)
<1>0. doc.id \in Nat
  BY DEF Event
<1>1. /\ v \in Seq(Event) /\ v # <<>> /\ Len(v) = Len(w) + 1
      /\ \A i \in 1..Len(w) : v[i] = w[i]
      /\ v[Len(w) + 1] = doc
      /\ Len(w) \in Nat
  BY <1>0, AppendProperties, LenProperties
<1>2. \A i \in 1..Len(v) : (i \in 1..Len(w) /\ v[i] = w[i]) \/ (i = Len(w) + 1 /\ v[i] = doc)
  BY <1>1
<1>3. \A i \in Docs(v) : (i \in Docs(w) /\ v[i] = w[i]) \/ (i = Len(w) + 1 /\ v[i].id = doc.id)
  BY <1>0, <1>2 DEF Docs
<1>4. Len(w) + 1 \in Docs(v) /\ v[Len(w) + 1].id = doc.id
  BY <1>0, <1>1 DEF Docs
<1>5. ~EndSent(v)
  BY <1>0, <1>2 DEF EndSent
<1>6. \A i \in Docs(w) : i \in 1..Len(w) /\ w[i].id \in Nat /\ 1 <= w[i].id /\ w[i].id <= high
  BY DocNumber DEF Ordered
<1>7. \A i, j \in Docs(v) : i < j => v[i].id < v[j].id
  <2> SUFFICES ASSUME NEW i \in Docs(v), NEW j \in Docs(v), i < j PROVE v[i].id < v[j].id
    OBVIOUS
  <2>1. i \in 1..Len(v) /\ j \in 1..Len(v)
    BY DEF Docs
  <2>2. i \in Docs(w) /\ v[i] = w[i]
    BY <1>1, <1>3, <2>1
  <2>3. CASE j \in Docs(w) /\ v[j] = w[j]
    BY <2>2, <2>3 DEF Ordered
  <2>4. CASE v[j].id = doc.id
    BY <1>0, <1>6, <2>2, <2>4
  <2> QED
    BY <1>3, <2>3, <2>4
<1>8. Ordered(v, doc.id)
  BY <1>0, <1>3, <1>5, <1>6, <1>7 DEF Ordered, EndSent
<1>9. \A had : Arrives(v, doc.id, had)
  BY <1>4 DEF Arrives
<1>10. \A n : NoOlder(w, n) /\ n <= doc.id => NoOlder(v, n)
  BY <1>3 DEF NoOlder
<1> QED
  BY <1>1, <1>5, <1>8, <1>9, <1>10

\* The end is written.
LEMMA WireEnd ==
  ASSUME NEW w \in Seq(Event), NEW high \in Nat, Ordered(w, high), ~EndSent(w)
  PROVE  LET v == Append(w, Status)
         IN /\ v \in Seq(Event) /\ v # <<>>
            /\ Ordered(v, high) /\ EndSent(v)
            /\ \A n : NoOlder(w, n) => NoOlder(v, n)
            /\ \A n, had : Arrives(w, n, had) => Arrives(v, n, had)
<1> DEFINE v == Append(w, Status)
<1>0. Status \in Event /\ Status.kind = "status"
  BY DEF Status, Event
<1>1. /\ v \in Seq(Event) /\ v # <<>> /\ Len(v) = Len(w) + 1
      /\ \A i \in 1..Len(w) : v[i] = w[i]
      /\ v[Len(w) + 1] = Status
      /\ Len(w) \in Nat
  BY <1>0, AppendProperties, LenProperties
<1> HIDE DEF v
<1>2. \A i \in 1..Len(v) : (i \in 1..Len(w) /\ v[i] = w[i]) \/ (i = Len(w) + 1 /\ v[i] = Status)
  BY <1>1
<1>3. /\ \A i \in Docs(v) : i \in Docs(w) /\ v[i] = w[i]
      /\ Docs(v) = Docs(w)
  BY <1>0, <1>1, <1>2 DEF Docs
<1>4. EndSent(v)
  BY <1>0, <1>1 DEF EndSent
<1>5. \A i \in 1..Len(v) : v[i].kind = "status" => i = Len(v)
  BY <1>1, <1>2 DEF EndSent
<1>6. Ordered(v, high)
  BY <1>3, <1>5 DEF Ordered
<1>7. \A n, had : Arrives(w, n, had) => Arrives(v, n, had)
  BY <1>3 DEF Arrives
<1>8. \A n : NoOlder(w, n) => NoOlder(v, n)
  BY <1>3 DEF NoOlder
<1> QED
  BY <1>1, <1>4, <1>6, <1>7, <1>8 DEF v

\* The viewer reads a document: what stays is newer.
LEMMA WireRead ==
  ASSUME NEW w \in Seq(Event), NEW high \in Nat, Ordered(w, high), w # <<>>,
         Head(w).kind = "document"
  PROVE  LET v == Tail(w)
             n == Head(w).id
         IN /\ v \in Seq(Event)
            /\ n \in Nat /\ 1 <= n /\ n <= high
            /\ \A k : NoOlder(w, k) => k <= n
            /\ Ordered(v, high) /\ (EndSent(v) => EndSent(w))
            /\ NoOlder(v, n)
            /\ \A had : Arrives(w, high, had) => Arrives(v, high, n)
<1> DEFINE v == Tail(w)
           n == Head(w).id
<1>1. /\ v \in Seq(Event) /\ Len(v) = Len(w) - 1
      /\ \A i \in 1..Len(v) : v[i] = w[i + 1]
      /\ Head(w) \in Event /\ Head(w) = w[1]
      /\ Len(w) \in Nat /\ Len(w) > 0
  BY HeadTailProperties, EmptySeq, LenProperties
<1> HIDE DEF v
<1>2. 1 \in Docs(w) /\ n = w[1].id
  BY <1>1 DEF Docs
<1>3. n \in Nat /\ 1 <= n /\ n <= high
  BY <1>1, <1>2 DEF Ordered, Event
<1>4. \A i \in Docs(v) : i + 1 \in Docs(w) /\ v[i] = w[i + 1] /\ 1 < i + 1 /\ i \in Nat
  BY <1>1 DEF Docs
<1>5. \A i \in Docs(w) \ {1} : i - 1 \in Docs(v) /\ v[i - 1] = w[i]
  BY <1>1 DEF Docs
<1>6. \A i \in Docs(v) : n < v[i].id
  BY <1>2, <1>4 DEF Ordered
<1>7. Ordered(v, high)
  <2>1. \A i \in Docs(v) : 1 <= v[i].id /\ v[i].id <= high
    BY <1>4 DEF Ordered
  <2>2. \A i, j \in Docs(v) : i < j => v[i].id < v[j].id
    BY <1>4 DEF Ordered
  <2>3. \A i \in 1..Len(v) : v[i].kind = "status" => i = Len(v)
    BY <1>1 DEF Ordered
  <2> QED
    BY <2>1, <2>2, <2>3 DEF Ordered
<1>8. EndSent(v) => EndSent(w)
  BY <1>1 DEF EndSent
<1>9. ASSUME NEW had, Arrives(w, high, had) PROVE Arrives(v, high, n)
  <2>1. PICK i \in Docs(w) : w[i].id = high
    BY <1>2, <1>9 DEF Arrives
  <2>2. CASE i = 1
    <3>1. n = high
      BY <1>2, <2>1, <2>2
    <3>2. ASSUME NEW j \in Docs(v) PROVE FALSE
      <4>1. v[j].id \in Nat /\ v[j].id <= high /\ n < v[j].id
        BY <1>1, <1>6, <1>7, DocNumber DEF Ordered
      <4> QED
        BY <3>1, <4>1
    <3> QED
      BY <3>1, <3>2 DEF Arrives
  <2>3. CASE i # 1
    BY <1>5, <2>1, <2>3 DEF Arrives
  <2> QED
    BY <2>2, <2>3
<1>10. \A k : NoOlder(w, k) => k <= n
  BY <1>2 DEF NoOlder
<1>11. NoOlder(v, n)
  <2> SUFFICES ASSUME NEW i \in Docs(v) PROVE n <= v[i].id
    BY DEF NoOlder
  <2> QED
    BY <1>1, <1>3, <1>6, DocNumber
<1> QED
  BY <1>1, <1>3, <1>7, <1>8, <1>9, <1>10, <1>11 DEF v

\* A cut loses the newest events; if the end survives, nothing was lost.
LEMMA WireCut ==
  ASSUME NEW w \in Seq(Event), NEW high \in Nat, Ordered(w, high), NEW v, \E k \in 0..Len(w) : v = SubSeq(w, 1, k), NEW had
  PROVE  /\ v \in Seq(Event) /\ Ordered(v, high)
         /\ (v # <<>> => w # <<>>) /\ (EndSent(v) => EndSent(w))
         /\ \A n : NoOlder(w, n) => NoOlder(v, n)
         /\ EndSent(v) /\ Arrives(w, high, had) => Arrives(v, high, had)
<1>k. PICK k \in 0..Len(w) : v = SubSeq(w, 1, k)
  OBVIOUS
<1>0. Len(w) \in Nat /\ k \in Nat /\ k <= Len(w) /\ \A i \in 1..k : w[i] \in Event
  BY LenProperties, ElementOfSeq
<1>1. /\ v \in Seq(Event) /\ Len(v) = k
      /\ \A i \in 1..k : v[i] = w[i]
  BY <1>k, <1>0, SubSeqProperties
<1>2. v # <<>> => w # <<>>
  BY <1>0, <1>1, EmptySeq
<1>3. \A i \in Docs(v) : i \in Docs(w) /\ v[i] = w[i]
  BY <1>0, <1>1 DEF Docs
<1>4. EndSent(v) => EndSent(w) /\ k = Len(w)
  BY <1>0, <1>1 DEF EndSent, Ordered
<1>5. Ordered(v, high)
  <2>1. \A i \in 1..Len(v) : v[i].kind = "status" => i = Len(v)
    BY <1>0, <1>1 DEF Ordered
  <2> QED
    BY <1>3, <2>1 DEF Ordered
<1>6. EndSent(v) /\ Arrives(w, high, had) => Arrives(v, high, had)
  <2>1. k = Len(w) => Docs(v) = Docs(w)
    BY <1>0, <1>1 DEF Docs
  <2> QED
    BY <1>3, <1>4, <2>1 DEF Arrives
<1>7. \A n : NoOlder(w, n) => NoOlder(v, n)
  BY <1>3 DEF NoOlder
<1> QED
  BY <1>1, <1>2, <1>4, <1>5, <1>6, <1>7

------------------------------------------------------------------------------
\* The invariant is kept.

LEMMA StreamInit == Init => StreamInv
<1> SUFFICES ASSUME Init PROVE StreamInv
  OBVIOUS
<1> USE DEF Init
<1>1. up \in BOOLEAN /\ exited \in BOOLEAN /\ ended \in BOOLEAN
  BY Zenon
<1>2. [seq |-> 0, ended |-> FALSE] \in [seq : Nat, ended : BOOLEAN]
  OBVIOUS
<1>3. TypeOK
  BY <1>1, <1>2, WireEmpty DEF TypeOK, Event
<1>4. \A c \in Clients : WireInv(c) /\ HandlerInv(c)
  BY WireEmpty DEF WireInv, HandlerInv
<1> QED
  BY <1>3, <1>4 DEF StreamInv, PumpInv

\* A step of one viewer or of its handler leaves the others alone.
LEMMA OneClient ==
  ASSUME StreamInv, NEW c \in Clients, TypeOK', UNCHANGED serverVars,
         \A d \in Clients \ {c} :
           /\ hpc'[d] = hpc[d] /\ seen'[d] = seen[d] /\ woke'[d] = woke[d]
           /\ wire'[d] = wire[d] /\ conn'[d] = conn[d]
           /\ last'[d] = last[d] /\ shown'[d] = shown[d],
         WireInv(c)', HandlerInv(c)'
  PROVE  StreamInv'
<1>1. ASSUME NEW d \in Clients \ {c} PROVE WireInv(d)' /\ HandlerInv(d)'
  BY <1>1 DEF StreamInv, WireInv, HandlerInv, serverVars
<1>2. PumpInv'
  BY DEF StreamInv, PumpInv, serverVars
<1> QED
  BY <1>1, <1>2 DEF StreamInv

\* The server's own threads; the stream ends only when nothing is left to be read.
LEMMA ServerStep ==
  ASSUME StreamInv, PrintLine \/ Exit \/ Pump \/ PumpEnd
  PROVE  StreamInv'
<1> USE DEF PrintLine, Exit, Pump, PumpEnd, push, end, handlerVars, clientVars
<1>1. /\ UNCHANGED <<epoch, up, hpc, seen, woke, wire, cuts, conn, last, skipped, restarts,
                     shown, taken>>
      /\ exited' \in BOOLEAN /\ ended' \in BOOLEAN
  BY Zenon DEF StreamInv, TypeOK
<1>2. /\ printed' \in Nat /\ pipe' \in Nat
      /\ seq' \in Nat /\ seq <= seq' /\ (ended => seq' = seq /\ ended')
  BY DEF StreamInv, TypeOK, PumpInv
<1>3. TypeOK'
  BY <1>1, <1>2 DEF StreamInv, TypeOK
<1>4. PumpInv'
  <2>1. CASE PrintLine \/ Exit \/ Pump
    <3>1. ~ended
      BY <2>1 DEF StreamInv, PumpInv, TypeOK
    <3> QED
      BY <2>1, <3>1 DEF PumpInv
  <2>2. CASE PumpEnd
    BY <2>2 DEF PumpInv
  <2> QED
    BY <2>1, <2>2
<1> HIDE DEF PrintLine, Exit, Pump, PumpEnd
<1>5. ASSUME NEW c \in Clients PROVE WireInv(c)'
  BY <1>1, <1>2 DEF StreamInv, WireInv, TypeOK
<1>6. ASSUME NEW c \in Clients PROVE HandlerInv(c)'
  BY <1>1, <1>2 DEF StreamInv, HandlerInv, TypeOK
<1> QED
  BY <1>3, <1>4, <1>5, <1>6 DEF StreamInv

LEMMA ServerExitStep == ASSUME StreamInv, ServerExit PROVE StreamInv'
<1> USE DEF ServerExit, clientVars
<1>1. up' \in BOOLEAN
  BY Zenon
<1>2. TypeOK'
  BY <1>1 DEF StreamInv, TypeOK
<1>3. ASSUME NEW c \in Clients PROVE WireInv(c)' /\ HandlerInv(c)'
  BY <1>3 DEF StreamInv, WireInv, HandlerInv
<1> QED
  BY <1>2, <1>3 DEF StreamInv, PumpInv

\* A new server: no connection of the old one is open, so nothing is on a wire.
LEMMA RestartStep == ASSUME StreamInv, Restart PROVE StreamInv'
<1> USE DEF Restart, handlerVars, clientVars
<1>1. up' \in BOOLEAN /\ ended' \in BOOLEAN /\ exited' \in BOOLEAN
  BY Zenon
<1>2. TypeOK'
  BY <1>1 DEF StreamInv, TypeOK
<1>3. ASSUME NEW c \in Clients PROVE WireInv(c)' /\ HandlerInv(c)'
  <2>1. wire[c] = <<>> /\ hpc[c] = "none" /\ conn[c] # "open"
    BY DEF StreamInv, WireInv
  <2>2. shown[c].epoch < epoch'
    BY DEF StreamInv, WireInv, TypeOK
  <2>3. shown[c].epoch \in Nat /\ epoch' \in Nat
    BY DEF StreamInv, TypeOK
  <2> QED
    BY <2>1, <2>2, <2>3, WireEmpty DEF WireInv, HandlerInv
<1> QED
  BY <1>2, <1>3 DEF StreamInv, PumpInv

LEMMA ConnectStep == ASSUME StreamInv, NEW c \in Clients, Connect(c) PROVE StreamInv'
<1> USE DEF Connect, clientVars, serverVars
<1>1. TypeOK'
  BY DEF StreamInv, TypeOK
<1>2. wire[c] = <<>> /\ wire' = wire /\ seen'[c] = 0 /\ hpc'[c] = "wait" /\ conn'[c] = "open"
  BY DEF StreamInv, WireInv, TypeOK
<1>3. WireInv(c)' /\ HandlerInv(c)'
  BY <1>2, WireEmpty DEF StreamInv, WireInv, HandlerInv, TypeOK
<1>4. \A d \in Clients \ {c} :
        hpc'[d] = hpc[d] /\ seen'[d] = seen[d] /\ conn'[d] = conn[d]
  BY DEF StreamInv, TypeOK
<1> QED
  BY <1>1, <1>3, <1>4, OneClient

\* stream.wait() returns the latest document, which the viewer has not got, or the end.
LEMMA WaitStep == ASSUME StreamInv, NEW c \in Clients, Wait(c) PROVE StreamInv'
<1> USE DEF Wait, clientVars, serverVars
<1>0. [seq |-> seq, ended |-> ended] \in [seq : Nat, ended : BOOLEAN]
  BY DEF StreamInv, TypeOK
<1>1. TypeOK'
  BY <1>0 DEF StreamInv, TypeOK
<1>2. /\ hpc[c] = "wait" /\ hpc'[c] = "send"
      /\ woke'[c].seq = seq /\ woke'[c].ended = ended
      /\ UNCHANGED <<epoch, up, seq, ended, seen, wire, conn, last, shown>>
  BY DEF StreamInv, TypeOK
<1>3. \A d \in Clients \ {c} : hpc'[d] = hpc[d] /\ woke'[d] = woke[d]
  BY DEF StreamInv, TypeOK
<1> HIDE DEF Wait
<1>4. WireInv(c)'
  BY <1>2 DEF StreamInv, WireInv
<1>5. HandlerInv(c)'
  <2>1. seq \in Nat /\ seen[c] <= seq
    BY <1>2 DEF StreamInv, WireInv, TypeOK
  <2> QED
    BY <1>2, <2>1 DEF StreamInv, WireInv, HandlerInv
<1>6. UNCHANGED serverVars
  BY DEF Wait
<1> QED
  BY <1>1, <1>2, <1>3, <1>4, <1>5, <1>6, OneClient

\* The handler writes the document it woke up with, unless the viewer was sent it before.
LEMMA SendStep == ASSUME StreamInv, NEW c \in Clients, Send(c) PROVE StreamInv'
<1> USE DEF clientVars, serverVars
<1>t. /\ wire \in [Clients -> Seq(Event)] /\ seen \in [Clients -> Nat]
      /\ woke[c].seq \in Nat /\ woke[c].ended \in BOOLEAN /\ last[c] \in Nat
      /\ hpc \in [Clients -> {"none", "wait", "send", "status"}]
      /\ wire[c] \in Seq(Event) /\ seen[c] \in Nat /\ seq \in Nat
  BY DEF StreamInv, TypeOK, Event
<1>1. /\ hpc[c] = "send" /\ hpc'[c] = (IF woke[c].ended THEN "status" ELSE "wait")
      /\ UNCHANGED <<epoch, up, seq, ended, woke, cuts, conn, last, shown>>
      /\ \A d \in Clients \ {c} : hpc'[d] = hpc[d]
      /\ UNCHANGED serverVars
  BY <1>t DEF Send
<1>2. /\ up /\ conn[c] = "open" /\ seen[c] <= woke[c].seq /\ woke[c].seq <= seq
      /\ Ordered(wire[c], seen[c]) /\ ~EndSent(wire[c])
      /\ shown[c].epoch <= epoch
      /\ shown[c].epoch = epoch => last[c] <= woke[c].seq
      /\ shown[c].epoch = epoch => NoOlder(wire[c], last[c])
      /\ shown[c].epoch = epoch => last[c] <= seq
      /\ woke[c].ended => ended /\ woke[c].seq = seq
  BY <1>1 DEF StreamInv, WireInv, HandlerInv
<1>3. CASE woke[c].seq # seen[c]
  <2> DEFINE n == woke[c].seq
  <2>1. /\ wire' = [wire EXCEPT ![c] = Append(@, Document(n))]
        /\ seen' = [seen EXCEPT ![c] = n]
    BY <1>3 DEF Send
  <2>2. /\ wire'[c] = Append(wire[c], Document(n)) /\ seen'[c] = n
        /\ \A d \in Clients \ {c} : wire'[d] = wire[d] /\ seen'[d] = seen[d]
    BY <1>t, <2>1
  <2>3. seen[c] < n /\ n \in Nat
    BY <1>t, <1>2, <1>3
  <2> HIDE DEF n
  <2>4. /\ wire'[c] \in Seq(Event) /\ Ordered(wire'[c], n) /\ ~EndSent(wire'[c])
        /\ \A k : NoOlder(wire[c], k) /\ k <= n => NoOlder(wire'[c], k)
        /\ Arrives(wire'[c], n, last[c])
    <3>1. /\ Document(n) \in Event /\ Document(n).kind = "document"
          /\ Document(n).id = n /\ seen[c] < Document(n).id
      BY <2>3 DEF Document, Event
    <3> DEFINE w == wire[c]
               v == wire'[c]
               high == seen[c]
               had == last[c]
               doc == Document(n)
    <3>2. /\ w \in Seq(Event) /\ high \in Nat /\ Ordered(w, high) /\ ~EndSent(w)
          /\ doc \in Event /\ doc.kind = "document" /\ high < doc.id /\ v = Append(w, doc)
      BY <1>t, <1>2, <2>2, <3>1
    <3> HIDE DEF w, v, high, had, doc
    <3>3. v \in Seq(Event) /\ Ordered(v, doc.id) /\ ~EndSent(v)
      BY <3>2, WireSend
    <3>4. \A k : NoOlder(w, k) /\ k <= doc.id => NoOlder(v, k)
      BY <3>2, WireSend
    <3>5. Arrives(v, doc.id, had)
      BY <3>2, WireSend
    <3> QED
      BY <3>1, <3>3, <3>4, <3>5 DEF w, v, had, doc
  <2>5. TypeOK'
    <3>1. wire' \in [Clients -> Seq(Event)]
      BY <1>t, <2>1, <2>2, <2>4
    <3>2. UNCHANGED <<epoch, up, printed, pipe, exited, seq, ended, woke, cuts, conn, last,
                      skipped, restarts, shown, taken>>
      BY DEF Send
    <3>3. /\ hpc' \in [Clients -> {"none", "wait", "send", "status"}]
          /\ seen' \in [Clients -> Nat]
      BY <1>t, <2>1 DEF Send
    <3> QED
      BY <3>1, <3>2, <3>3 DEF StreamInv, TypeOK, Event
  <2>6. WireInv(c)'
    <3>1. shown[c].epoch = epoch => NoOlder(wire'[c], last[c])
      BY <1>2, <2>4 DEF n
    <3>2. seen'[c] <= seq' /\ Ordered(wire'[c], seen'[c])
      BY <1>1, <1>2, <2>2, <2>4 DEF n
    <3>3. up' /\ conn'[c] = "open" /\ shown'[c].epoch <= epoch'
      BY <1>1, <1>2
    <3>4. shown'[c].epoch = epoch' =>
            last'[c] <= seq' /\ NoOlder(wire'[c], last'[c])
      BY <1>1, <1>2, <3>1
    <3> QED
      BY <3>2, <3>3, <3>4 DEF WireInv
  <2>7. HandlerInv(c)'
    BY <1>t, <1>1, <1>2, <2>2, <2>3, <2>4 DEF HandlerInv, n
  <2> QED
    BY <1>1, <2>2, <2>5, <2>6, <2>7, OneClient
<1>4. CASE woke[c].seq = seen[c]
  <2>1. UNCHANGED <<wire, seen>>
    BY <1>4 DEF Send
  <2>2. TypeOK'
    BY <2>1 DEF Send, StreamInv, TypeOK
  <2>3. WireInv(c)'
    BY <1>1, <1>2, <2>1 DEF StreamInv, WireInv
  <2>4. HandlerInv(c)'
    BY <1>1, <1>2, <1>4, <2>1 DEF StreamInv, HandlerInv
  <2> QED
    BY <1>1, <2>1, <2>2, <2>3, <2>4, OneClient
<1> QED
  BY <1>3, <1>4

\* The handler writes the end, after all it has to write, and is done.
LEMMA SendStatusStep == ASSUME StreamInv, NEW c \in Clients, SendStatus(c) PROVE StreamInv'
<1>t. /\ wire \in [Clients -> Seq(Event)] /\ wire[c] \in Seq(Event) /\ seen[c] \in Nat
      /\ hpc \in [Clients -> {"none", "wait", "send", "status"}]
  BY DEF StreamInv, TypeOK, Event
<1>1. /\ hpc[c] = "status" /\ hpc'[c] = "none" /\ wire'[c] = Append(wire[c], Status)
      /\ UNCHANGED <<serverVars, seen, woke, cuts, conn, clientVars>>
      /\ \A d \in Clients \ {c} : hpc'[d] = hpc[d] /\ wire'[d] = wire[d]
  BY <1>t DEF SendStatus
<1>2. /\ conn[c] = "open" /\ Ordered(wire[c], seen[c]) /\ ~EndSent(wire[c])
      /\ ended /\ seen[c] = seq
      /\ seen[c] > 0 => Arrives(wire[c], seen[c], last[c])
  BY <1>1 DEF StreamInv, WireInv, HandlerInv
<1>3. /\ wire'[c] \in Seq(Event) /\ Ordered(wire'[c], seen[c]) /\ EndSent(wire'[c])
      /\ NoOlder(wire[c], last[c]) => NoOlder(wire'[c], last[c])
      /\ seen[c] > 0 => Arrives(wire'[c], seen[c], last[c])
  BY <1>t, <1>1, <1>2, WireEnd
<1>4. TypeOK'
  <2>1. wire' \in [Clients -> Seq(Event)] /\ hpc' \in [Clients -> {"none", "wait", "send", "status"}]
    BY <1>t, <1>1, <1>3 DEF SendStatus
  <2> QED
    BY <1>1, <2>1 DEF StreamInv, TypeOK, Event, serverVars, clientVars
<1>5. WireInv(c)'
  BY <1>1, <1>2, <1>3 DEF StreamInv, WireInv, serverVars, clientVars
<1>6. HandlerInv(c)'
  BY <1>1, <1>2, <1>3 DEF HandlerInv, serverVars, clientVars
<1> QED
  BY <1>1, <1>4, <1>5, <1>6, OneClient DEF clientVars

\* A cut connection: the handler is gone and nothing more is owed to the viewer, unless the end
\* itself still arrives.
LEMMA CutStep == ASSUME StreamInv, NEW c \in Clients, Cut(c) PROVE StreamInv'
<1>t. /\ wire \in [Clients -> Seq(Event)] /\ wire[c] \in Seq(Event) /\ seen[c] \in Nat
      /\ hpc \in [Clients -> {"none", "wait", "send", "status"}] /\ cuts \in Nat
  BY DEF StreamInv, TypeOK, Event
<1>0. PICK k \in 0..Len(wire[c]) : wire' = [wire EXCEPT ![c] = SubSeq(@, 1, k)]
  BY DEF Cut
<1>1. /\ conn[c] = "open" /\ hpc'[c] = "none" /\ wire'[c] = SubSeq(wire[c], 1, k)
      /\ UNCHANGED <<serverVars, seen, woke, conn, clientVars>> /\ cuts' = cuts + 1
      /\ \A d \in Clients \ {c} : hpc'[d] = hpc[d] /\ wire'[d] = wire[d]
  BY <1>t, <1>0 DEF Cut
<1>2. Ordered(wire[c], seen[c])
  BY DEF StreamInv, WireInv
<1>3. /\ wire'[c] \in Seq(Event) /\ Ordered(wire'[c], seen[c])
      /\ EndSent(wire'[c]) => EndSent(wire[c])
      /\ NoOlder(wire[c], last[c]) => NoOlder(wire'[c], last[c])
      /\ EndSent(wire'[c]) /\ Arrives(wire[c], seen[c], last[c])
           => Arrives(wire'[c], seen[c], last[c])
  <2> DEFINE w == wire[c]
             v == wire'[c]
             high == seen[c]
             had == last[c]
  <2>1. /\ w \in Seq(Event) /\ high \in Nat /\ Ordered(w, high)
        /\ \E j \in 0..Len(w) : v = SubSeq(w, 1, j)
    BY <1>t, <1>1, <1>2
  <2> HIDE DEF w, v, high, had
  <2>2. /\ v \in Seq(Event) /\ Ordered(v, high) /\ (EndSent(v) => EndSent(w))
        /\ NoOlder(w, had) => NoOlder(v, had)
        /\ EndSent(v) /\ Arrives(w, high, had) => Arrives(v, high, had)
    BY <2>1, WireCut
  <2> QED
    BY <2>2 DEF w, v, high, had
<1>4. TypeOK'
  <2>1. wire' \in [Clients -> Seq(Event)] /\ hpc' \in [Clients -> {"none", "wait", "send", "status"}]
    BY <1>t, <1>0, <1>1, <1>3 DEF Cut
  <2>2. cuts' \in Nat
    BY <1>t, <1>1
  <2> QED
    BY <1>1, <2>1, <2>2 DEF StreamInv, TypeOK, Event, serverVars, clientVars
<1>5. WireInv(c)'
  BY <1>1, <1>3 DEF StreamInv, WireInv, serverVars, clientVars
<1>6. HandlerInv(c)'
  BY <1>1, <1>3 DEF StreamInv, HandlerInv, serverVars, clientVars
<1> QED
  BY <1>1, <1>4, <1>5, <1>6, OneClient DEF clientVars

LEMMA LostStep == ASSUME StreamInv, NEW c \in Clients, Lost(c) PROVE StreamInv'
<1> USE DEF Lost, clientVars, handlerVars
<1>1. TypeOK'
  BY DEF StreamInv, TypeOK, serverVars
<1>2. /\ conn'[c] = "connecting" /\ \A d \in Clients \ {c} : conn'[d] = conn[d]
  BY DEF StreamInv, TypeOK
<1>3. WireInv(c)' /\ HandlerInv(c)'
  BY <1>2 DEF StreamInv, WireInv, HandlerInv, serverVars
<1> QED
  BY <1>1, <1>2, <1>3, OneClient

\* What the viewer reads is on the way from the handler, and what stays on the wire is newer.
LEMMA Received ==
  ASSUME StreamInv, NEW c \in Clients, ReceiveDocument(c)
  PROVE  /\ wire'[c] = Tail(wire[c]) /\ wire'[c] \in Seq(Event)
         /\ Head(wire[c]).id \in Nat /\ 1 <= Head(wire[c]).id /\ Head(wire[c]).id <= seen[c]
         /\ seen[c] <= seq
         /\ shown[c].epoch = epoch => last[c] <= Head(wire[c]).id
         /\ Ordered(wire'[c], seen[c]) /\ (EndSent(wire'[c]) => EndSent(wire[c]))
         /\ NoOlder(wire'[c], Head(wire[c]).id)
         /\ Arrives(wire[c], seen[c], last[c]) => Arrives(wire'[c], seen[c], Head(wire[c]).id)
<1>t. /\ wire \in [Clients -> Seq(Event)] /\ wire[c] \in Seq(Event) /\ seen[c] \in Nat
  BY DEF StreamInv, TypeOK, Event
<1>1. /\ conn[c] = "open" /\ wire[c] # <<>> /\ Head(wire[c]).kind = "document"
      /\ wire'[c] = Tail(wire[c])
  BY <1>t DEF ReceiveDocument
<1>2. /\ Ordered(wire[c], seen[c]) /\ seen[c] <= seq
      /\ shown[c].epoch = epoch => NoOlder(wire[c], last[c])
  BY <1>1 DEF StreamInv, WireInv
<1>3. /\ Tail(wire[c]) \in Seq(Event)
      /\ Head(wire[c]).id \in Nat /\ 1 <= Head(wire[c]).id /\ Head(wire[c]).id <= seen[c]
      /\ NoOlder(wire[c], last[c]) => last[c] <= Head(wire[c]).id
      /\ Ordered(Tail(wire[c]), seen[c]) /\ (EndSent(Tail(wire[c])) => EndSent(wire[c]))
      /\ NoOlder(Tail(wire[c]), Head(wire[c]).id)
      /\ Arrives(wire[c], seen[c], last[c]) => Arrives(Tail(wire[c]), seen[c], Head(wire[c]).id)
  BY <1>t, <1>1, <1>2, WireRead
<1> QED
  BY <1>1, <1>2, <1>3

LEMMA ReceiveDocumentStep ==
  ASSUME StreamInv, NEW c \in Clients, ReceiveDocument(c) PROVE StreamInv'
<1> DEFINE n == Head(wire[c]).id
<1>t. /\ wire \in [Clients -> Seq(Event)] /\ seen[c] \in Nat /\ last[c] \in Nat /\ epoch \in Nat
      /\ last \in [Clients -> Nat] /\ skipped \in [Clients -> Nat] /\ restarts \in [Clients -> Nat]
      /\ shown \in [Clients -> [epoch : Nat, id : Nat]] /\ taken \in [Clients -> SUBSET Nat]
  BY DEF StreamInv, TypeOK, Event
<1>1. /\ wire' = [wire EXCEPT ![c] = Tail(@)] /\ conn[c] = "open"
      /\ UNCHANGED <<serverVars, handlerVars, cuts, conn>>
      /\ \A d \in Clients \ {c} : wire'[d] = wire[d]
  BY <1>t DEF ReceiveDocument
<1>2. /\ wire'[c] \in Seq(Event) /\ n \in Nat /\ 1 <= n /\ n <= seen[c] /\ seen[c] <= seq
      /\ shown[c].epoch = epoch => last[c] <= n
      /\ Ordered(wire'[c], seen[c]) /\ (EndSent(wire'[c]) => EndSent(wire[c]))
      /\ NoOlder(wire'[c], n)
      /\ Arrives(wire[c], seen[c], last[c]) => Arrives(wire'[c], seen[c], n)
  BY Received
<1>3. \/ n = last[c] /\ UNCHANGED <<last, skipped, restarts, shown, taken>>
      \/ /\ n # last[c] /\ trackId(c, n)
         /\ shown' = [shown EXCEPT ![c] = [epoch |-> epoch, id |-> n]]
         /\ taken' = [taken EXCEPT ![c] = IF epoch = 1 THEN @ \cup {n} ELSE @]
  BY DEF ReceiveDocument
<1> HIDE DEF n
<1>4. /\ last' \in [Clients -> Nat] /\ skipped' \in [Clients -> Nat]
      /\ restarts' \in [Clients -> Nat] /\ shown' \in [Clients -> [epoch : Nat, id : Nat]]
      /\ taken' \in [Clients -> SUBSET Nat]
  <2>1. CASE UNCHANGED <<last, skipped, restarts, shown, taken>>
    BY <1>t, <2>1
  <2>2. CASE /\ trackId(c, n)
             /\ shown' = [shown EXCEPT ![c] = [epoch |-> epoch, id |-> n]]
             /\ taken' = [taken EXCEPT ![c] = IF epoch = 1 THEN @ \cup {n} ELSE @]
    <3>1. /\ last' \in [Clients -> Nat] /\ restarts' \in [Clients -> Nat]
          /\ shown' \in [Clients -> [epoch : Nat, id : Nat]]
          /\ taken' \in [Clients -> SUBSET Nat]
      BY <1>t, <1>2, <2>2 DEF trackId
    <3>2. skipped' \in [Clients -> Nat]
      BY <1>t, <1>2, <2>2 DEF trackId
    <3> QED
      BY <3>1, <3>2
  <2> QED
    BY <1>3, <2>1, <2>2
<1>5. TypeOK'
  <2>1. wire' \in [Clients -> Seq(Event)]
    BY <1>t, <1>1, <1>2
  <2> QED
    BY <1>1, <1>4, <2>1 DEF StreamInv, TypeOK, Event, serverVars, handlerVars
<1>6. /\ last'[c] = n
      /\ \/ shown'[c].epoch = epoch \/ shown'[c] = shown[c]
      /\ \A d \in Clients \ {c} : last'[d] = last[d] /\ shown'[d] = shown[d]
  BY <1>t, <1>3 DEF trackId
<1>7. WireInv(c)'
  <2>1. shown'[c].epoch <= epoch
    BY <1>6, <1>t DEF StreamInv, WireInv
  <2>2. n <= seq /\ seq \in Nat
    BY <1>t, <1>2 DEF StreamInv, TypeOK
  <2>4. /\ hpc[c] # "none" => up /\ conn[c] = "open"
        /\ conn[c] = "open" => seen[c] <= seq
    BY DEF StreamInv, WireInv
  <2> QED
    BY <1>1, <1>2, <1>6, <2>1, <2>2, <2>4 DEF WireInv, serverVars, handlerVars
<1>8. HandlerInv(c)'
  <2>1. woke[c].seq \in Nat
    BY DEF StreamInv, TypeOK
  <2>2. hpc[c] = "send" => n <= woke[c].seq
    BY <1>2, <1>t, <2>1 DEF StreamInv, HandlerInv
  <2> QED
    BY <1>1, <1>2, <1>6, <2>2 DEF StreamInv, HandlerInv, serverVars, handlerVars
<1> QED
  BY <1>1, <1>5, <1>6, <1>7, <1>8, OneClient DEF handlerVars

LEMMA ReceiveStatusStep ==
  ASSUME StreamInv, NEW c \in Clients, ReceiveStatus(c) PROVE StreamInv'
<1> USE DEF ReceiveStatus, clientVars
<1>1. TypeOK'
  BY WireEmpty DEF StreamInv, TypeOK, Event, serverVars
<1>2. /\ wire'[c] = <<>> /\ hpc'[c] = "none" /\ conn'[c] = "ended"
      /\ \A d \in Clients \ {c} : wire'[d] = wire[d] /\ hpc'[d] = hpc[d] /\ conn'[d] = conn[d]
  BY DEF StreamInv, TypeOK
<1>3. WireInv(c)' /\ HandlerInv(c)'
  BY <1>2, WireEmpty DEF StreamInv, WireInv, HandlerInv, serverVars
<1> QED
  BY <1>1, <1>2, <1>3, OneClient

LEMMA StreamStep == StreamInv /\ [Next]_vars => StreamInv'
<1> SUFFICES ASSUME StreamInv, [Next]_vars PROVE StreamInv'
  OBVIOUS
<1>1. CASE UNCHANGED vars
  BY <1>1 DEF StreamInv, TypeOK, PumpInv, WireInv, HandlerInv, vars, serverVars, handlerVars,
     clientVars
<1>2. ASSUME NEW c \in Clients, Handler(c) \/ Browser(c) \/ Cut(c) PROVE StreamInv'
  BY <1>2, WaitStep, SendStep, SendStatusStep, ConnectStep, LostStep, ReceiveDocumentStep,
     ReceiveStatusStep, CutStep DEF Handler, Browser
<1> QED
  BY <1>1, <1>2, ServerStep, ServerExitStep, RestartStep DEF Next

LEMMA StreamInvariant == Spec => []StreamInv
BY StreamInit, StreamStep, PTL DEF Spec

------------------------------------------------------------------------------
\* The count of skipped frames.

Missed(l, T) == {n \in 1..l : n \notin T /\ \E m \in T : m < n}

\* Taking up number n after l misses what lies between them, and nothing when n is the first.
LEMMA MissedBetween ==
  ASSUME NEW l \in Nat, NEW T \in SUBSET Nat, \A m \in T : 1 <= m /\ m <= l,
         l # 0 => l \in T, NEW n \in Nat, l < n
  PROVE  Cardinality(Missed(n, T \cup {n})) =
           IF l = 0 THEN 0 ELSE Cardinality(Missed(l, T)) + n - l - 1
<1>1. CASE l = 0
  <2>1. T = {}
    BY <1>1
  <2>2. Missed(n, T \cup {n}) = {}
    BY <2>1 DEF Missed
  <2> QED
    BY <1>1, <2>2, FS_EmptySet
<1>2. CASE l # 0
  <2> DEFINE old == Missed(l, T)
             between == (l + 1)..(n - 1)
  <2>1. Missed(n, T \cup {n}) = old \cup between
    <3>1. ASSUME NEW x \in Missed(n, T \cup {n}) PROVE x \in old \cup between
      BY <1>2, <3>1 DEF Missed
    <3>2. ASSUME NEW x \in old PROVE x \in Missed(n, T \cup {n})
      BY <1>2, <3>2 DEF Missed
    <3>3. ASSUME NEW x \in between PROVE x \in Missed(n, T \cup {n})
      BY <1>2, <3>3 DEF Missed
    <3> QED
      BY <3>1, <3>2, <3>3
  <2>2. old \cap between = {}
    BY DEF Missed
  <2>3. IsFiniteSet(old)
    <3>1. old \in SUBSET (1..l)
      BY DEF Missed
    <3>2. IsFiniteSet(1..l)
      BY FS_Interval
    <3> QED
      BY <3>1, <3>2, FS_Subset
  <2>4. IsFiniteSet(between) /\ Cardinality(between) = n - l - 1
    <3>1. /\ IsFiniteSet(between)
          /\ Cardinality(between) = IF l + 1 > n - 1 THEN 0 ELSE (n - 1) - (l + 1) + 1
      <4>1. l + 1 \in Int /\ n - 1 \in Int
        OBVIOUS
      <4> QED
        BY <4>1, FS_Interval, Zenon
    <3> QED
      BY <3>1
  <2>5. Cardinality(old) \in Nat
    BY <2>3, FS_CardinalityType
  <2> HIDE DEF old, between
  <2>6. Cardinality(old \cup between)
          = Cardinality(old) + Cardinality(between) - Cardinality(old \cap between)
    BY <2>3, <2>4, FS_Union
  <2>7. Cardinality(old \cup between) = Cardinality(old) + (n - l - 1)
    <3>1. Cardinality(old \cap between) = 0
      BY <2>2, FS_EmptySet, Zenon
    <3> QED
      BY <2>4, <2>5, <2>6, <3>1
  <2> QED
    BY <1>2, <2>1, <2>5, <2>7 DEF old
<1> QED
  BY <1>1, <1>2

LEMMA CountInit == Init => CountInv
<1> SUFFICES ASSUME Init PROVE CountInv
  OBVIOUS
<1>1. ASSUME NEW c \in Clients
      PROVE  {n \in 1..last[c] : n \notin taken[c] /\ \E m \in taken[c] : m < n} = {}
  BY <1>1 DEF Init
<1>2. SkippedExact
  BY <1>1, FS_EmptySet DEF Init, SkippedExact
<1> QED
  BY <1>2, StreamInit DEF CountInv, TakenInv, Init

\* A document of the first server is taken up.
LEMMA CountReceived ==
  ASSUME CountInv, NEW c \in Clients, ReceiveDocument(c)
  PROVE  TakenInv' /\ SkippedExact'
<1> DEFINE n == Head(wire[c]).id
<1>t. /\ last \in [Clients -> Nat] /\ skipped \in [Clients -> Nat] /\ last[c] \in Nat
      /\ shown \in [Clients -> [epoch : Nat, id : Nat]] /\ taken \in [Clients -> SUBSET Nat]
      /\ taken[c] \in SUBSET Nat /\ skipped[c] \in Nat /\ epoch \in Nat
  BY DEF CountInv, StreamInv, TypeOK
<1>1. n \in Nat /\ 1 <= n /\ (shown[c].epoch = epoch => last[c] <= n)
  BY Received DEF CountInv
<1>2. epoch' = epoch
  BY DEF ReceiveDocument, serverVars
<1>3. \/ n = last[c] /\ UNCHANGED <<last, skipped, restarts, shown, taken>>
      \/ /\ n # last[c] /\ trackId(c, n)
         /\ shown' = [shown EXCEPT ![c] = [epoch |-> epoch, id |-> n]]
         /\ taken' = [taken EXCEPT ![c] = IF epoch = 1 THEN @ \cup {n} ELSE @]
  BY DEF ReceiveDocument
<1> HIDE DEF n
<1>4. CASE UNCHANGED <<last, skipped, restarts, shown, taken>>
  BY <1>2, <1>4 DEF CountInv, TakenInv, SkippedExact
<1>5. CASE epoch # 1
  BY <1>2, <1>5 DEF CountInv, TakenInv, SkippedExact
<1>6. CASE epoch = 1 /\ n # last[c] /\ ~UNCHANGED <<last, skipped, restarts, shown, taken>>
  <2>1. /\ last'[c] = n /\ taken'[c] = taken[c] \cup {n} /\ shown'[c].epoch = 1
        /\ skipped'[c] =
             IF last[c] # 0 /\ n > last[c] THEN skipped[c] + n - last[c] - 1 ELSE skipped[c]
        /\ \A d \in Clients \ {c} : /\ last'[d] = last[d] /\ taken'[d] = taken[d]
                                    /\ shown'[d] = shown[d] /\ skipped'[d] = skipped[d]
    BY <1>t, <1>3, <1>6 DEF trackId
  <2>2. /\ \A m \in taken[c] : 1 <= m /\ m <= last[c]
        /\ last[c] # 0 => last[c] \in taken[c] /\ shown[c].epoch = 1
    BY <1>6 DEF CountInv, TakenInv
  <2>3. last[c] < n
    <3>1. last[c] = 0 \/ last[c] <= n
      BY <1>1, <1>6, <2>2
    <3>2. last[c] \in Nat /\ n \in Nat /\ 1 <= n /\ n # last[c]
      BY <1>t, <1>1, <1>6
    <3> QED
      BY <3>1, <3>2
  <2>4. TakenInv'
    <3>1. \A m \in taken'[c] : 1 <= m /\ m <= n
      BY <1>t, <1>1, <2>1, <2>2, <2>3
    <3> QED
      BY <1>2, <1>6, <2>1, <3>1 DEF CountInv, TakenInv
  <2>5. skipped[c] = Cardinality(Missed(last[c], taken[c]))
    BY <1>6 DEF CountInv, SkippedExact, Missed
  <2>6. Cardinality(Missed(n, taken[c] \cup {n})) =
          IF last[c] = 0 THEN 0 ELSE Cardinality(Missed(last[c], taken[c])) + n - last[c] - 1
    BY <1>t, <1>1, <2>2, <2>3, MissedBetween
  <2>7. last[c] = 0 => skipped[c] = 0
    <3> SUFFICES ASSUME last[c] = 0 PROVE skipped[c] = 0
      OBVIOUS
    <3>1. Missed(0, taken[c]) = {}
      BY DEF Missed
    <3> QED
      BY <2>5, <3>1, FS_EmptySet
  <2>8. skipped'[c] = Cardinality(Missed(last'[c], taken'[c]))
    BY <1>t, <2>1, <2>3, <2>5, <2>6, <2>7
  <2>9. SkippedExact'
    <3> SUFFICES ASSUME NEW d \in Clients
                 PROVE  skipped'[d] = Cardinality(Missed(last'[d], taken'[d]))
      BY DEF SkippedExact, Missed
    <3>1. CASE d # c
      BY <1>6, <2>1, <3>1 DEF CountInv, SkippedExact, Missed
    <3> QED
      BY <2>8, <3>1
  <2> QED
    BY <2>4, <2>9
<1> QED
  BY <1>3, <1>4, <1>5, <1>6

LEMMA CountStep == CountInv /\ [Next]_vars => CountInv'
<1> SUFFICES ASSUME CountInv, [Next]_vars PROVE CountInv'
  OBVIOUS
<1>1. StreamInv'
  BY StreamStep DEF CountInv
<1>2. CASE \E c \in Clients : ReceiveDocument(c)
  BY <1>1, <1>2, CountReceived DEF CountInv
<1>3. CASE Restart
  <2>1. epoch \in Nat /\ epoch >= 1 /\ epoch' = epoch + 1
    BY <1>3 DEF CountInv, StreamInv, TypeOK, TakenInv, Restart
  <2> QED
    BY <1>1, <2>1 DEF CountInv, TakenInv, SkippedExact
<1>4. CASE UNCHANGED <<epoch, last, skipped, shown, taken>>
  BY <1>1, <1>4 DEF CountInv, TakenInv, SkippedExact
<1>5. \/ \E c \in Clients : ReceiveDocument(c)
      \/ Restart
      \/ UNCHANGED <<epoch, last, skipped, shown, taken>>
  BY DEF Next, vars, serverVars, clientVars, PrintLine, Exit, Pump, PumpEnd, Handler, Browser,
     Wait, Send, SendStatus, Connect, Lost, ReceiveStatus, Cut, ServerExit
<1> QED
  BY <1>2, <1>3, <1>4, <1>5

\* What trackId() keeps is of the right type, and "N frames skipped by the stream" is exact while
\* one server runs: the documents between the first and the last one taken up that the viewer
\* never had, however slow its connection is and however often it is cut.
THEOREM SkippedCountExact == Spec => []CountSound
<1>1. CountInv => CountSound
  BY DEF CountInv, StreamInv, CountSound
<1> QED
  BY <1>1, CountInit, CountStep, PTL DEF Spec

------------------------------------------------------------------------------
\* Latest-value delivery: every step is one of the abstract specification, or none.

LEMMA InitImplements == Init => LV!Init
<1> SUFFICES ASSUME Init PROVE LV!Init
  OBVIOUS
<1>1. \A c \in Clients : (shown[c].epoch # epoch) = TRUE /\ (conn[c] = "ended") = FALSE
  BY DEF Init
<1>2. /\ [c \in Clients |-> shown[c].epoch # epoch] = [c \in Clients |-> TRUE]
      /\ [c \in Clients |-> conn[c] = "ended"] = [c \in Clients |-> FALSE]
  BY <1>1
<1> QED
  BY <1>2 DEF Init, LV!Init

\* A step that changes neither the stream, nor what a viewer has, nor whether it was told.
LEMMA Stutters ==
  ASSUME TypeOK, TypeOK',
         UNCHANGED <<seq, ended, last, epoch, shown>>,
         \A c \in Clients : conn'[c] = "ended" <=> conn[c] = "ended"
  PROVE  UNCHANGED LV!vars
<1>1. [c \in Clients |-> conn[c] = "ended"]' = [c \in Clients |-> conn[c] = "ended"]
  BY Zenon
<1> QED
  BY <1>1 DEF LV!vars

\* The viewer takes up a document: it is newer than what it has of this server.
LEMMA ReceiveDelivers ==
  ASSUME StreamInv, StreamInv', NEW c \in Clients, ReceiveDocument(c)
  PROVE  LV!Deliver(c) \/ UNCHANGED LV!vars
<1> DEFINE n == Head(wire[c]).id
<1>t. /\ last \in [Clients -> Nat] /\ last[c] \in Nat /\ seq \in Nat /\ epoch \in Nat
      /\ shown \in [Clients -> [epoch : Nat, id : Nat]] /\ seen[c] \in Nat
  BY DEF StreamInv, TypeOK
<1>1. /\ n \in Nat /\ 1 <= n /\ n <= seen[c] /\ seen[c] <= seq
      /\ shown[c].epoch = epoch => last[c] <= n
  BY Received
<1>2. /\ conn[c] = "open" /\ UNCHANGED <<epoch, seq, ended, conn>>
  BY DEF ReceiveDocument, serverVars
<1>3. \/ n = last[c] /\ UNCHANGED <<last, skipped, restarts, shown, taken>>
      \/ /\ n # last[c] /\ trackId(c, n)
         /\ shown' = [shown EXCEPT ![c] = [epoch |-> epoch, id |-> n]]
         /\ taken' = [taken EXCEPT ![c] = IF epoch = 1 THEN @ \cup {n} ELSE @]
  BY DEF ReceiveDocument
<1> HIDE DEF n
<1>4. CASE UNCHANGED <<last, skipped, restarts, shown, taken>>
  BY <1>2, <1>4, Stutters DEF StreamInv
<1>5. CASE n # last[c] /\ trackId(c, n)
           /\ shown' = [shown EXCEPT ![c] = [epoch |-> epoch, id |-> n]]
  <2>1. n \in 1..seq /\ (shown[c].epoch # epoch \/ n > last[c])
    <3>1. last[c] \in Nat /\ seq \in Nat /\ seen[c] \in Nat /\ n # last[c]
      BY <1>t, <1>5
    <3> QED
      BY <1>1, <3>1
  <2>2. last' = [last EXCEPT ![c] = n]
    BY <1>5 DEF trackId
  <2>3. [d \in Clients |-> shown[d].epoch # epoch]'
          = [[d \in Clients |-> shown[d].epoch # epoch] EXCEPT ![c] = FALSE]
    BY <1>t, <1>2, <1>5
  <2> QED
    BY <1>2, <2>1, <2>2, <2>3 DEF LV!Deliver
<1> QED
  BY <1>3, <1>4, <1>5

\* The viewer reads the end: nothing is left on the wire, so it has the last document.
LEMMA StatusTells ==
  ASSUME StreamInv, NEW c \in Clients, ReceiveStatus(c)
  PROVE  LV!Tell(c)
<1>t. wire[c] \in Seq(Event) /\ conn \in [Clients -> {"connecting", "open", "ended"}]
  BY DEF StreamInv, TypeOK, Event
<1>1. /\ wire[c] # <<>> /\ Head(wire[c]).kind = "status"
      /\ conn' = [conn EXCEPT ![c] = "ended"]
      /\ UNCHANGED <<seq, ended, last, epoch, shown>>
  BY DEF ReceiveStatus, serverVars, clientVars
<1>2. 1 \in 1..Len(wire[c]) /\ wire[c][1].kind = "status" /\ Len(wire[c]) \in Nat
  BY <1>t, <1>1, HeadTailProperties, EmptySeq, LenProperties
<1>3. EndSent(wire[c]) /\ Len(wire[c]) = 1
  BY <1>2 DEF EndSent, StreamInv, WireInv, Ordered
<1>4. Docs(wire[c]) = {}
  BY <1>2, <1>3 DEF Docs
<1>5. ended /\ (seq > 0 => last[c] = seq)
  BY <1>3, <1>4 DEF StreamInv, HandlerInv, Arrives
<1>6. [d \in Clients |-> conn[d] = "ended"]'
        = [[d \in Clients |-> conn[d] = "ended"] EXCEPT ![c] = TRUE]
  BY <1>t, <1>1
<1> QED
  BY <1>1, <1>5, <1>6 DEF LV!Tell

LEMMA StepImplements == StreamInv /\ StreamInv' /\ [Next]_vars => [LV!Next]_(LV!vars)
<1> SUFFICES ASSUME StreamInv, StreamInv', [Next]_vars PROVE [LV!Next]_(LV!vars)
  OBVIOUS
<1>t. TypeOK /\ TypeOK'
  BY DEF StreamInv
<1>1. CASE Pump
  <2>1. ~ended /\ UNCHANGED <<ended, last, epoch, shown, conn>> /\ (seq' = seq + 1 \/ seq' = seq)
    BY <1>1 DEF Pump, push, clientVars, StreamInv, PumpInv, TypeOK
  <2>2. CASE seq' = seq + 1
    BY <2>1, <2>2 DEF LV!Next, LV!Produce
  <2>3. CASE seq' = seq
    BY <1>t, <2>1, <2>3, Stutters
  <2> QED
    BY <2>1, <2>2, <2>3
<1>2. CASE PumpEnd
  BY <1>2 DEF PumpEnd, end, clientVars, LV!Next, LV!Finish
<1>3. CASE Restart
  <2>1. /\ seq' = 0 /\ ended' = FALSE /\ UNCHANGED <<last, shown, conn>> /\ epoch' = epoch + 1
    BY <1>3 DEF Restart, clientVars
  <2>2. \A c \in Clients : shown[c].epoch # epoch'
    BY <2>1 DEF StreamInv, WireInv, TypeOK
  <2>3. [c \in Clients |-> shown[c].epoch # epoch]' = [c \in Clients |-> TRUE]
    BY <2>1, <2>2
  <2> QED
    BY <2>1, <2>3 DEF LV!Next, LV!Restart
<1>4. ASSUME NEW c \in Clients, ReceiveDocument(c) PROVE [LV!Next]_(LV!vars)
  BY <1>4, ReceiveDelivers DEF LV!Next
<1>5. ASSUME NEW c \in Clients, ReceiveStatus(c) PROVE [LV!Next]_(LV!vars)
  BY <1>5, StatusTells DEF LV!Next
<1>6. ASSUME NEW c \in Clients, Connect(c) \/ Lost(c) PROVE [LV!Next]_(LV!vars)
  <2>1. UNCHANGED <<seq, ended, last, epoch, shown>>
    BY <1>6 DEF Connect, Lost, serverVars, clientVars
  <2>2. \A d \in Clients : conn'[d] = "ended" <=> conn[d] = "ended"
    BY <1>6, <1>t DEF Connect, Lost, TypeOK
  <2> QED
    BY <1>t, <2>1, <2>2, Stutters
<1>7. CASE UNCHANGED <<seq, ended, last, epoch, shown, conn>>
  BY <1>t, <1>7, Stutters
<1>8. CASE UNCHANGED vars \/ PrintLine \/ Exit \/ ServerExit
           \/ \E c \in Clients : Handler(c) \/ Cut(c)
  BY <1>7, <1>8 DEF vars, serverVars, clientVars, PrintLine, Exit, ServerExit, Handler, Wait,
     Send, SendStatus, Cut
<1> QED
  BY <1>1, <1>2, <1>3, <1>4, <1>5, <1>6, <1>8 DEF Next, Browser

\* The server and its viewers implement latest-value delivery (Stream, serve_events, connectLive,
\* trackId), for any number of viewers, buffers, cuts and restarts: in order, none twice, and the
\* end only after the last document.
THEOREM ServerImplementsLatestValue == Spec => ImplementsLatestValue
BY InitImplements, StepImplements, StreamInvariant, PTL DEF Spec, LV!Spec, ImplementsLatestValue
==============================================================================
