------------------------------ MODULE LiveStream ------------------------------
(***************************************************************************)
(* The live server (web/serve.py) and the receiving end of the viewer      *)
(* (web/app.js connectLive, web/replay.js trackId).  One thread reads the  *)
(* documents of transport_viz into the stream, one handler per viewer      *)
(* waits for a newer one and writes it to its connection, a third ends the *)
(* server half a second after the stream.  A connection holds a few events *)
(* and can be cut; the browser then connects again.  The server may be     *)
(* stopped and started again.                                              *)
(*                                                                         *)
(* The stream keeps the latest document only, and a document is told apart *)
(* by its number, so `seq` stands for both.                                *)
(***************************************************************************)
EXTENDS Integers, Sequences, FiniteSets

CONSTANTS
  Clients,    \* viewers
  Buffer,     \* events a connection holds before a write blocks
  MaxDocs,    \* bound: lines printed by one transport_viz
  MaxCuts,    \* bound: connections lost
  MaxEpochs   \* bound: servers started one after the other

ASSUME LiveAssumption ==
  /\ Buffer \in Nat \ {0}
  /\ MaxDocs \in Nat /\ MaxCuts \in Nat /\ MaxEpochs \in Nat

VARIABLES
  epoch,      \* external: which server this is, from 1
  up,         \* the server's process runs
  printed,    \* external: lines transport_viz printed
  pipe,       \* external: those not read yet
  exited,     \* external: transport_viz has exited
  seq, ended, \* Stream
  hpc,        \* client -> where its serve_events() is; "none": no connection
  seen,       \* client -> handler's seen
  woke,       \* client -> what its stream.wait() returned: seq, ended
  wire,       \* external: client -> events written and not received
  cuts,       \* connections lost so far
  conn,       \* client -> EventSource: "connecting", "open" or "ended"
  last, skipped, restarts,  \* client -> streamIds(); last = 0 stands for NaN
  shown,      \* client -> the document taken up last: epoch, id
  taken       \* history: client -> numbers taken up from the first server

serverVars == <<epoch, up, printed, pipe, exited, seq, ended>>
handlerVars == <<hpc, seen, woke>>
clientVars == <<last, skipped, restarts, shown, taken>>
vars == <<serverVars, handlerVars, wire, cuts, conn, clientVars>>

Document(n) == [kind |-> "document", id |-> n]
Status == [kind |-> "status", id |-> 0]

TypeOK ==
  /\ epoch \in Nat /\ up \in BOOLEAN
  /\ printed \in Nat /\ pipe \in Nat /\ exited \in BOOLEAN
  /\ seq \in Nat /\ ended \in BOOLEAN
  /\ hpc \in [Clients -> {"none", "wait", "send", "status"}]
  /\ seen \in [Clients -> Nat]
  /\ woke \in [Clients -> [seq : Nat, ended : BOOLEAN]]
  /\ wire \in [Clients -> Seq([kind : {"document", "status"}, id : Nat])]
  /\ cuts \in Nat
  /\ conn \in [Clients -> {"connecting", "open", "ended"}]
  /\ last \in [Clients -> Nat]
  /\ skipped \in [Clients -> Nat]
  /\ restarts \in [Clients -> Nat]
  /\ shown \in [Clients -> [epoch : Nat, id : Nat]]
  /\ taken \in [Clients -> SUBSET Nat]

Init ==
  /\ epoch = 1 /\ up = TRUE
  /\ printed = 0 /\ pipe = 0 /\ exited = FALSE
  /\ seq = 0 /\ ended = FALSE
  /\ hpc = [c \in Clients |-> "none"]
  /\ seen = [c \in Clients |-> 0]
  /\ woke = [c \in Clients |-> [seq |-> 0, ended |-> FALSE]]
  /\ wire = [c \in Clients |-> <<>>]
  /\ cuts = 0
  /\ conn = [c \in Clients |-> "connecting"]
  /\ last = [c \in Clients |-> 0]
  /\ skipped = [c \in Clients |-> 0]
  /\ restarts = [c \in Clients |-> 0]
  /\ shown = [c \in Clients |-> [epoch |-> 0, id |-> 0]]
  /\ taken = [c \in Clients |-> {}]

------------------------------------------------------------------------------
\* external: transport_viz prints a document, and exits.
PrintLine ==
  /\ up /\ ~exited /\ printed < MaxDocs
  /\ printed' = printed + 1
  /\ pipe' = pipe + 1
  /\ UNCHANGED <<epoch, up, exited, seq, ended, handlerVars, wire, cuts, conn, clientVars>>

Exit ==
  /\ up /\ ~exited
  /\ exited' = TRUE
  /\ UNCHANGED <<epoch, up, printed, pipe, seq, ended, handlerVars, wire, cuts, conn, clientVars>>

\* Stream: the number and the document change under the condition's lock.
push == seq' = seq + 1

end == ended' = TRUE

\* pump(): a line becomes the latest document, or is ignored when it cannot be parsed; at
\* the end of the output the stream ends.
Pump ==
  /\ up /\ pipe > 0
  /\ pipe' = pipe - 1
  /\ push \/ UNCHANGED seq
  /\ UNCHANGED <<epoch, up, printed, exited, ended, handlerVars, wire, cuts, conn, clientVars>>

PumpEnd ==
  /\ up /\ exited /\ pipe = 0 /\ ~ended
  /\ end
  /\ UNCHANGED <<epoch, up, printed, pipe, exited, seq, handlerVars, wire, cuts, conn,
                 clientVars>>

------------------------------------------------------------------------------
\* The browser connects; serve_events() starts with nothing seen.
Connect(c) ==
  /\ up /\ conn[c] = "connecting"
  /\ conn' = [conn EXCEPT ![c] = "open"]
  /\ hpc' = [hpc EXCEPT ![c] = "wait"]
  /\ seen' = [seen EXCEPT ![c] = 0]
  /\ UNCHANGED <<serverVars, woke, wire, cuts, clientVars>>

\* Mutant: one new document is not enough to wake up.
WaitForTwo(c) ==
  /\ hpc[c] = "wait"
  /\ seq > seen[c] + 1 \/ ended
  /\ woke' = [woke EXCEPT ![c] = [seq |-> seq, ended |-> ended]]
  /\ hpc' = [hpc EXCEPT ![c] = "send"]
  /\ UNCHANGED <<serverVars, seen, wire, cuts, conn, clientVars>>

\* stream.wait() returns what it finds under the lock.  (After 15 s without news the handler
\* writes a comment line and waits again, which changes nothing here.)
Wait(c) ==
  /\ hpc[c] = "wait"
  /\ seq # seen[c] \/ ended
  /\ woke' = [woke EXCEPT ![c] = [seq |-> seq, ended |-> ended]]
  /\ hpc' = [hpc EXCEPT ![c] = "send"]
  /\ UNCHANGED <<serverVars, seen, wire, cuts, conn, clientVars>>

\* Mutant: the end goes out before the document that came with it.
SendEndFirst(c) ==
  /\ hpc[c] = "send"
  /\ IF woke[c].seq # seen[c] /\ ~woke[c].ended
     THEN /\ Len(wire[c]) < Buffer
          /\ wire' = [wire EXCEPT ![c] = Append(@, Document(woke[c].seq))]
          /\ seen' = [seen EXCEPT ![c] = woke[c].seq]
     ELSE UNCHANGED <<wire, seen>>
  /\ hpc' = [hpc EXCEPT ![c] = IF woke[c].ended THEN "status" ELSE "wait"]
  /\ UNCHANGED <<serverVars, woke, cuts, conn, clientVars>>

\* The document when it is a new one, then the end; a full connection makes the write wait.
Send(c) ==
  /\ hpc[c] = "send"
  /\ IF woke[c].seq # seen[c]
     THEN /\ Len(wire[c]) < Buffer
          /\ wire' = [wire EXCEPT ![c] = Append(@, Document(woke[c].seq))]
          /\ seen' = [seen EXCEPT ![c] = woke[c].seq]
     ELSE UNCHANGED <<wire, seen>>
  /\ hpc' = [hpc EXCEPT ![c] = IF woke[c].ended THEN "status" ELSE "wait"]
  /\ UNCHANGED <<serverVars, woke, cuts, conn, clientVars>>

SendStatus(c) ==
  /\ hpc[c] = "status"
  /\ Len(wire[c]) < Buffer
  /\ wire' = [wire EXCEPT ![c] = Append(@, Status)]
  /\ hpc' = [hpc EXCEPT ![c] = "none"]
  /\ UNCHANGED <<serverVars, seen, woke, cuts, conn, clientVars>>

\* The server goes: Ctrl-C at any time, or watch_producer() after the stream has ended.  Its
\* handlers are daemon threads and go with it; what they wrote may still arrive.
ServerExit ==
  /\ up
  /\ up' = FALSE
  /\ hpc' = [c \in Clients |-> "none"]
  /\ UNCHANGED <<epoch, printed, pipe, exited, seq, ended, seen, woke, wire, cuts, conn,
                 clientVars>>

\* Somebody starts it again, later than the browsers have noticed.
Restart ==
  /\ ~up /\ epoch < MaxEpochs
  /\ \A c \in Clients : conn[c] # "open"
  /\ epoch' = epoch + 1
  /\ up' = TRUE
  /\ printed' = 0 /\ pipe' = 0 /\ exited' = FALSE
  /\ seq' = 0 /\ ended' = FALSE
  /\ UNCHANGED <<handlerVars, wire, cuts, conn, clientVars>>

------------------------------------------------------------------------------
\* external: a connection is cut; some of what was on it is lost.
Cut(c) ==
  /\ conn[c] = "open" /\ cuts < MaxCuts
  /\ cuts' = cuts + 1
  /\ hpc' = [hpc EXCEPT ![c] = "none"]
  /\ \E n \in 0..Len(wire[c]) : wire' = [wire EXCEPT ![c] = SubSeq(@, 1, n)]
  /\ UNCHANGED <<serverVars, seen, woke, conn, clientVars>>

\* EventSource: the end of the connection, read after all that was on it, makes it connect
\* again.
Lost(c) ==
  /\ conn[c] = "open" /\ hpc[c] = "none" /\ wire[c] = <<>>
  /\ conn' = [conn EXCEPT ![c] = "connecting"]
  /\ UNCHANGED <<serverVars, handlerVars, wire, cuts, clientVars>>

\* Mutants: a lower number is a gap too; the gap is the distance.
trackIdNoRestart(c, id) ==
  /\ last' = [last EXCEPT ![c] = id]
  /\ skipped' = [skipped EXCEPT ![c] = IF last[c] # 0 THEN @ + id - last[c] - 1 ELSE @]
  /\ UNCHANGED restarts

trackIdDistance(c, id) ==
  /\ last' = [last EXCEPT ![c] = id]
  /\ skipped' = [skipped EXCEPT ![c] =
                   IF last[c] # 0 /\ id > last[c] THEN @ + id - last[c] ELSE @]
  /\ restarts' = [restarts EXCEPT ![c] = IF id < last[c] THEN @ + 1 ELSE @]

\* trackId(): a lower number is a restart, a gap is counted; the first counts nothing.
trackId(c, id) ==
  /\ last' = [last EXCEPT ![c] = id]
  /\ skipped' = [skipped EXCEPT ![c] =
                   IF last[c] # 0 /\ id > last[c] THEN @ + id - last[c] - 1 ELSE @]
  /\ restarts' = [restarts EXCEPT ![c] = IF id < last[c] THEN @ + 1 ELSE @]

\* The "document" event: a number already seen is dropped, every other taken up (what
\* transport_viz prints parses as a frame).
ReceiveDocument(c) ==
  /\ conn[c] = "open" /\ wire[c] # <<>> /\ Head(wire[c]).kind = "document"
  /\ LET id == Head(wire[c]).id
         doc == [epoch |-> epoch, id |-> id]
     IN \/ id = last[c] /\ UNCHANGED <<last, skipped, restarts, shown, taken>>
        \/ /\ id # last[c]
           /\ trackId(c, id)
           /\ shown' = [shown EXCEPT ![c] = doc]
           /\ taken' = [taken EXCEPT ![c] = IF epoch = 1 THEN @ \cup {id} ELSE @]
  /\ wire' = [wire EXCEPT ![c] = Tail(@)]
  /\ UNCHANGED <<serverVars, handlerVars, cuts, conn>>

\* The "status" event: the viewer closes the connection and shows the end.
ReceiveStatus(c) ==
  /\ conn[c] = "open" /\ wire[c] # <<>> /\ Head(wire[c]).kind = "status"
  /\ conn' = [conn EXCEPT ![c] = "ended"]
  /\ wire' = [wire EXCEPT ![c] = <<>>]
  /\ hpc' = [hpc EXCEPT ![c] = "none"]
  /\ UNCHANGED <<serverVars, seen, woke, cuts, clientVars>>

Handler(c) == Wait(c) \/ Send(c) \/ SendStatus(c)
Browser(c) == Connect(c) \/ Lost(c) \/ ReceiveDocument(c) \/ ReceiveStatus(c)

Next ==
  \/ PrintLine \/ Exit \/ Pump \/ PumpEnd
  \/ \E c \in Clients : Handler(c) \/ Browser(c) \/ Cut(c)
  \/ ServerExit \/ Restart

Spec == Init /\ [][Next]_vars

\* The threads of the server are scheduled, and browsers connect and read.
FairSpec ==
  /\ Spec
  /\ WF_vars(Pump \/ PumpEnd)
  /\ \A c \in Clients : WF_vars(Handler(c)) /\ WF_vars(Browser(c))
------------------------------------------------------------------------------
LV == INSTANCE LatestValue WITH
        produced <- seq,
        finished <- ended,
        have <- last,
        stale <- [c \in Clients |-> shown[c].epoch # epoch],
        told <- [c \in Clients |-> conn[c] = "ended"]

\* The live server implements latest-value delivery (Stream, serve_events, connectLive), in
\* the numbers it gives the documents: in order, none twice, and the end only after the last
\* one, whatever slow connections, cuts and restarts do to the viewers.
ImplementsLatestValue == LV!Spec

\* "N frames skipped by the stream" is exact while one server runs: the documents between
\* the first and the last one taken up that the viewer never had, counted across slow
\* connections, cuts and documents sent again.
SkippedExact ==
  epoch = 1 =>
    \A c \in Clients :
      skipped[c] = Cardinality({n \in 1..last[c] :
                                  n \notin taken[c] /\ \E m \in taken[c] : m < n})

\* What a viewer keeps of the stream: of the right type, with an exact count of what it missed.
CountSound == TypeOK /\ SkippedExact

\* A viewer catches up (serve_events, connectLive): when nothing new is printed it ends with
\* the number of the latest document, and as long as the first server runs with that document,
\* unless the server is stopped or the viewer closed its connection at the end of a stream.
CatchesUp ==
  \A c \in Clients :
    <>[](\/ ~up \/ conn[c] = "ended" \/ seq = 0
         \/ shown[c].id = seq /\ last[c] = seq /\ (epoch = 1 => shown[c].epoch = 1))
==============================================================================
