------------------------------ MODULE LiveHistory ------------------------------
(***************************************************************************)
(* The live history of the web viewer (web/app.js, web/replay.js): the     *)
(* frames it keeps, the recording made of them, the frame the timeline     *)
(* points at and the document on screen, while frames arrive, blobs are    *)
(* read, the bound drops the oldest frames and the user moves about.       *)
(*                                                                         *)
(* JavaScript runs one handler at a time; what interleaves are the events  *)
(* and the reads they wait for.  The page is one record, and every         *)
(* function of app.js that changes it an operator from page to page.       *)
(* Frames are numbered by arrival; indices count from 1, 0 is app.js's -1. *)
(* A read or scan with an old token has no effect, so of each kind only    *)
(* the current one is kept.  A file opened meanwhile is one document.      *)
(***************************************************************************)
EXTENDS Integers, Sequences, SequencesExt

CONSTANTS
  Limits,      \* the bounds on the kept bytes, 0 for no history
  Size(_),     \* the bytes of a frame
  Share,       \* one in Share of the frames is dropped at a time, 10 in the code
  MaxFrames,   \* frames that arrive
  MaxMoves     \* files opened, changes of "match by" and End keys while following
ASSUME HistoryAssumption ==
  /\ Limits \subseteq Nat /\ {Share, MaxFrames} \subseteq Nat \ {0} /\ MaxMoves \in Nat
  /\ \A i \in 1..MaxFrames : Size(i) \in Nat

VARIABLES
  limit,       \* the bound of this page
  arrived,     \* frames that have arrived
  page,        \* the state of app.js: the objects live and replay, and the screen
  moves,       \* opened files and rescans so far
  wanted,      \* history: the frame of the last move on the timeline, 0 when none counts
  overtaken    \* history: Resume's read came back after Pause and a newer frame
vars == <<limit, arrived, page, moves, wanted, overtaken>>

Other == -1                      \* a document from elsewhere
NoRead == [kind |-> "none", frame |-> 0, doc |-> 0]

\* F(p) with p evaluated once.
With(p, F(_)) == CHOOSE r \in {F(q) : q \in {p}} : TRUE

------------------------------------------------------------------------------
Bytes(blobs) ==
  LET Sum[i \in 0..Len(blobs)] == IF i = 0 THEN 0 ELSE Sum[i - 1] + Size(blobs[i])
  IN Sum[Len(blobs)]

\* Mutant: one frame is dropped, however many are too many.
dropOldest(blobs) == 1
dropCount(blobs) ==
  LET last == Len(blobs) - 1
      Step(n) == LET left == Len(blobs) - n
                     part == (left + Share - 1) \div Share
                 IN IF part > last - n THEN last - n ELSE part
      Dropped[n \in 0..last] ==
        IF Bytes(SubSeq(blobs, n + 1, Len(blobs))) > limit /\ n < last
        THEN Dropped[n + Step(n)] ELSE n
  IN Dropped[0]

Drop(seq, n) == SubSeq(seq, n + 1, Len(seq))
\* Mutant: the recording keeps its frames.
dropNoFrames(rec, n) == rec
dropFrames(rec, n) == Drop(rec, n)

\* Mutant: the index stays what it was.
shiftNothing(i, n) == i
shiftIndex(i, n) == IF i <= n THEN 1 ELSE i - n

\* Mutant: a scan goes on.
stopButScan(p) ==
  [p EXCEPT !.live = FALSE, !.rec = <<>>, !.shown = 0, !.index = 1, !.read = NoRead,
            !.load = FALSE, !.timer = 0]
stopReplay(p) ==
  [p EXCEPT !.live = FALSE, !.rec = <<>>, !.shown = 0, !.index = 1, !.scanning = FALSE,
            !.scan = <<>>, !.read = NoRead, !.load = FALSE, !.timer = 0]

\* Mutant: the frame is marked as shown before it has been read.
showFrameEarly(p, i) ==
  IF i \notin 1..Len(p.rec) \/ i = p.shown THEN p
  ELSE [p EXCEPT !.timer = 0, !.index = i, !.shown = i,
                 !.read = [kind |-> "frame", frame |-> i, doc |-> p.blobs[i]]]
\* The file's bytes are read again; a frame on screen is not.
showFrame(p, i) ==
  IF i \notin 1..Len(p.rec) THEN p
  ELSE LET q == [p EXCEPT !.timer = 0, !.index = i]
       IN IF i = p.shown THEN q
          ELSE [q EXCEPT !.read = [kind |-> "frame", frame |-> i, doc |-> p.blobs[i]]]

showNewest(p, doc) ==
  [p EXCEPT !.read = NoRead, !.index = Len(p.rec), !.shown = Len(p.rec), !.screen = doc]

pauseLive(p) == [p EXCEPT !.following = FALSE, !.shownDropped = FALSE]

\* Mutant: the newest frame is left for the next one to replace.
resumeUnread(p) == [p EXCEPT !.following = TRUE, !.shownDropped = FALSE, !.timer = 0]
resumeLive(p) ==
  LET q == [p EXCEPT !.following = TRUE, !.shownDropped = FALSE, !.timer = 0]
      n == Len(p.rec)
  IN IF ~p.live
     THEN IF p.pending = 0 THEN q ELSE [q EXCEPT !.screen = p.pending, !.pending = 0]
     ELSE IF p.scanning \/ n = 0 THEN q
     ELSE [q EXCEPT !.read = [kind |-> "newest", frame |-> n, doc |-> p.blobs[n]]]

\* Mutant: the note is made for the viewer that follows.
FollowedGone(p, n) == p.index <= n /\ p.following
PausedGone(p, n) == p.index <= n /\ ~p.following

trimHistory(p) ==
  LET n == dropCount(p.blobs)
      q == [p EXCEPT !.rec = dropFrames(@, n), !.blobs = Drop(@, n), !.read = NoRead,
                     !.index = shiftIndex(@, n),
                     !.shown = IF @ <= n THEN 0 ELSE shiftIndex(@, n),
                     !.shownDropped = @ \/ PausedGone(p, n)]
      Shown(r) == IF p.following \/ r.shown = r.index THEN r ELSE showFrame(r, r.index)
  IN IF Bytes(p.blobs) <= limit \/ n = 0 THEN p ELSE With(q, Shown)

\* rescanLive() until its first await.
rescanLive(p) ==
  [p EXCEPT !.scanning = TRUE, !.scan = <<>>, !.read = NoRead, !.load = FALSE]

\* ... and after its last one.
FinishScan(p) ==
  LET Show(q) ==
        IF q.following THEN resumeLive(q)
        ELSE showFrame([q EXCEPT !.shown = 0],
                       IF q.index > Len(q.rec) THEN Len(q.rec) ELSE q.index)
  IN With(With([p EXCEPT !.scanning = FALSE, !.rec = p.scan, !.scan = <<>>], trimHistory), Show)

startHistory(p) == rescanLive([stopReplay(p) EXCEPT !.live = TRUE])

appendFrame(p, frame) ==
  LET kept == [p EXCEPT !.blobs = Append(@, frame)]
      Show(q) == IF q.following THEN showNewest(q, frame) ELSE q
  IN IF ~p.live THEN startHistory(kept)
     ELSE IF p.scanning THEN kept
     ELSE With(With([kept EXCEPT !.rec = Append(@, frame)], trimHistory), Show)

\* The listener of `document` events, for a frame that is no duplicate.
OnDocument(p, frame) ==
  IF limit > 0 THEN appendFrame(p, frame)
  ELSE IF p.following THEN [p EXCEPT !.screen = frame]
  ELSE [p EXCEPT !.pending = frame]

------------------------------------------------------------------------------
replaying == Len(page.rec) >= 2

Arrive ==
  /\ arrived < MaxFrames
  /\ arrived' = arrived + 1
  /\ page' = OnDocument(page, arrived + 1)
  /\ wanted' = IF page'.shownDropped THEN 0 ELSE wanted
  /\ overtaken' = (overtaken /\ page'.screen = page.screen)
  /\ UNCHANGED <<limit, moves>>

\* A kept frame has been read into the new recording; the last one ends the scan.
ScanFrame ==
  /\ page.scanning
  /\ LET p == [page EXCEPT !.scan = Append(@, page.blobs[Len(@) + 1])]
     IN page' = IF Len(p.scan) = Len(p.blobs) THEN FinishScan(p) ELSE p
  /\ wanted' = IF Len(page.scan) + 1 = Len(page.blobs) THEN 0 ELSE wanted
  /\ overtaken' = (overtaken /\ page'.shown # 0)
  /\ UNCHANGED <<limit, arrived, moves>>

\* The text of a frame has been read: display() or showNewest().
ReadFrame ==
  /\ page.read # NoRead
  /\ LET r == page.read
     IN page' = IF r.kind = "newest" THEN showNewest(page, r.doc)
                ELSE [page EXCEPT !.read = NoRead, !.index = r.frame, !.shown = r.frame,
                                  !.screen = r.doc]
  /\ overtaken' = (page.read.kind = "newest" /\ page.read.doc # Last(page.blobs))
  /\ UNCHANGED <<limit, arrived, moves, wanted>>

goTo(p, i) == showFrame(IF p.live THEN pauseLive(p) ELSE p, i)

\* The buttons, arrow keys, change marks, charts and the released slider.
GoTo ==
  /\ replaying
  /\ \E i \in 1..Len(page.rec) :
       page' = goTo(page, i) /\ wanted' = page.blobs[i]
  /\ UNCHANGED <<limit, arrived, moves, overtaken>>

\* The slider is dragged, and rests for SLIDER_DEBOUNCE_MS.
Drag ==
  /\ replaying
  /\ \E i \in 1..Len(page.rec) : page' = [page EXCEPT !.timer = i]
  /\ UNCHANGED <<limit, arrived, moves, wanted, overtaken>>

DragRests ==
  /\ page.timer # 0
  /\ page' = goTo([page EXCEPT !.timer = 0], page.timer)
  /\ wanted' = IF page.timer \in 1..Len(page.rec) THEN page.blobs[page.timer] ELSE wanted
  /\ UNCHANGED <<limit, arrived, moves, overtaken>>

Pause ==
  /\ page.following
  /\ page' = pauseLive(page)
  /\ wanted' = 0
  /\ UNCHANGED <<limit, arrived, moves, overtaken>>

Resume ==
  /\ ~page.following
  /\ page' = resumeLive(page)
  /\ wanted' = 0
  /\ UNCHANGED <<limit, arrived, moves, overtaken>>

EndKey ==
  /\ page.live /\ replaying /\ page.following /\ moves < MaxMoves
  /\ page' = resumeLive(page)
  /\ moves' = moves + 1
  /\ wanted' = 0
  /\ UNCHANGED <<limit, arrived, overtaken>>

MatchBy ==
  /\ page.live /\ replaying /\ moves < MaxMoves
  /\ page' = rescanLive(page)
  /\ moves' = moves + 1
  /\ wanted' = 0
  /\ UNCHANGED <<limit, arrived, overtaken>>

\* openBlob() until its first await, and the document it reads.
OpenFile ==
  /\ moves < MaxMoves
  /\ page' = [stopReplay(page) EXCEPT !.load = TRUE]
  /\ moves' = moves + 1
  /\ wanted' = 0
  /\ UNCHANGED <<limit, arrived, overtaken>>

FileRead ==
  /\ page.load
  /\ page' = [page EXCEPT !.load = FALSE, !.screen = Other]
  /\ UNCHANGED <<limit, arrived, moves, wanted, overtaken>>

Init ==
  /\ limit \in Limits
  /\ arrived = 0
  /\ page = [following |-> TRUE, pending |-> 0, blobs |-> <<>>, shownDropped |-> FALSE,
             scanning |-> FALSE, live |-> FALSE, rec |-> <<>>, scan |-> <<>>, index |-> 1,
             shown |-> 0, read |-> NoRead, load |-> FALSE, timer |-> 0, screen |-> 0]
  /\ moves = 0
  /\ wanted = 0
  /\ overtaken = FALSE

Next ==
  \/ Arrive \/ ScanFrame \/ ReadFrame \/ GoTo \/ Drag \/ DragRests \/ Pause \/ Resume
  \/ EndKey \/ MatchBy \/ OpenFile \/ FileRead

Spec == Init /\ [][Next]_vars
\* Reads and scans end; frames and the user come as they please.
FairSpec == Spec /\ WF_vars(ScanFrame) /\ WF_vars(ReadFrame) /\ WF_vars(FileRead)

------------------------------------------------------------------------------
\* Type correctness: the timeline points at a frame, the frame on screen and the one being
\* read are among the kept ones, and only a scan has read a part of them.
TypeOK ==
  /\ limit \in Limits /\ arrived \in 0..MaxFrames /\ moves \in 0..MaxMoves
  /\ page.screen \in {Other} \cup 0..arrived
  /\ page.rec # <<>> => page.index \in 1..Len(page.rec)
  /\ page.shown \in 0..Len(page.blobs)
  /\ page.read.frame \in 0..Len(page.blobs)
  /\ page.scan # <<>> => page.scanning
  /\ page.scanning => page.live

\* appendFrame(), rescanLive(), trimHistory(): frame i of the recording is the kept blob i,
\* also while a scan and the bound change both; and a scan misses no frame.
RecordingIsBlobs ==
  page.live =>
    /\ IsPrefix(page.rec, page.blobs) /\ IsPrefix(page.scan, page.blobs)
    /\ ~page.scanning => page.rec = page.blobs

\* trimHistory(): outside of a scan the kept frames fit the bound, or there is only one, and
\* they are the newest ones without a hole.
WithinBound ==
  /\ page.live /\ ~page.scanning => Bytes(page.blobs) <= limit \/ Len(page.blobs) = 1
  /\ \A i \in DOMAIN page.blobs : page.blobs[i] = arrived - Len(page.blobs) + i

\* The kept frames: of the right type, the same in the recording and within the bound.
HistorySound == TypeOK /\ RecordingIsBlobs /\ WithinBound

\* display(), showNewest(), trimHistory(): the frame marked as shown is the one on screen,
\* whatever was dropped, read again or received since.  Pause does not cancel the read of
\* Resume, which then takes a frame that arrived in between for the one it has read.
ShownIsOnScreen ==
  page.live /\ page.shown # 0 /\ ~overtaken => page.screen = page.blobs[page.shown]

\* trimHistory(): while paused, a frame that arrives leaves the timeline on the frame it
\* pointed at, or on the oldest one with a note that the frame was dropped.
PausedStays ==
  [][/\ arrived' # arrived /\ ~page.following /\ page.live /\ page.rec # <<>>
     => \/ page'.blobs[page'.index] = page.blobs[page.index]
        \/ page'.index = 1 /\ page'.shownDropped]_vars

\* appendFrame(), resumeLive(), rescanLive(): a page that follows, without another document
\* on it, comes to show the newest frame.
FollowsNewest ==
  <>[](page.following /\ ~page.load /\ page.screen # Other) => <>[](page.screen = arrived)

\* The comment on showFrame(): "the newest request wins".
NewestRequestWins ==
  page.read = NoRead /\ wanted # 0 /\ page.live /\ ~page.scanning /\ ~overtaken
  => page.screen = wanted
================================================================================
