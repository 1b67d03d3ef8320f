--------------------------------- MODULE Watch ---------------------------------
(***************************************************************************)
(* The --watch loop of main() (main.cpp) with WatchState (render_table.cpp)*)
(* and `transport_viz diff` on what it recorded: frames are collected when *)
(* they are due or a key forces one, compared with the frame shown before, *)
(* decorated with marks and ghost rows, painted and kept.                  *)
(*                                                                         *)
(* A frame here is the states of its pairs, as pair_states() gives them;   *)
(* what a state holds is left to the constant States.                      *)
(***************************************************************************)
EXTENDS Changes

CONSTANTS
  Pairs,          \* keys <<topic, writer, reader>> of the pairs there may be
  Hidden,         \* those the default view leaves out
  States,         \* pair -> what pair_state() can be of it
  kHoldFrames     \* how many frames a mark or ghost stays
ASSUME WatchAssumption == kHoldFrames \in Nat \ {0} /\ Hidden \subseteq Pairs

VARIABLES
  network,        \* pair -> state: the pairs that exist
  all, paused, force,   \* --all (key a), key p, a frame out of turn
  loop,           \* "wait" (for a key or the interval), "collected", "done"
  snap,           \* the frame collect() returned
  last_rendered,  \* the frame kept, with last_snapshot
  have_previous,
  mark, mark_ttl, \* pair -> "+" or "~", pair -> frames left
  ghosts,         \* the rows [key, state] of pairs that are gone, with the state they had
  ghost_ttl,
  frames          \* history: the last frames that were painted, the newest last
ws == <<last_rendered, have_previous, mark, mark_ttl, ghosts, ghost_ttl>>
vars == <<network, all, paused, force, loop, snap, ws, frames>>

NoPairs == <<>>
Views ==
  UNION {{f \in [S -> UNION {States[k] : k \in S}] : \A k \in S : f[k] \in States[k]}
           : S \in SUBSET Pairs}
View(pairs, with_all) ==
  [k \in {p \in DOMAIN pairs : with_all \/ p \notin Hidden} |-> pairs[k]]

------------------------------------------------------------------------------
\* WatchState::diff() step by step: what is left after ageing, then the new marks and ghosts.
\* Mutant: one frame too many.
OlderLate(ttl) == [k \in {p \in DOMAIN ttl : ttl[p] > 0} |-> ttl[k] - 1]
Older(ttl) == [k \in {p \in DOMAIN ttl : ttl[p] > 1} |-> ttl[k] - 1]
Held(keys) == [k \in keys |-> kHoldFrames]
WithoutGhosts(g, keys) == {x \in g : x.key \notin keys}

Only(f, keys) == [k \in keys |-> f[k]]
Over(f, g) == [k \in DOMAIN f \cup DOMAIN g |-> IF k \in DOMAIN f THEN f[k] ELSE g[k]]
GhostRows(keys, before) == {[key |-> k, state |-> before[k]] : k \in keys}

ChangesOf(current) ==
  IF have_previous THEN diff(last_rendered, current)
  ELSE [added |-> {}, removed |-> {}, changed |-> {}]

NewMarks(c) ==
  Over([k \in c.changed |-> "~"], Over([k \in c.added |-> "+"],
       Only(mark, DOMAIN Older(mark_ttl))))
\* Mutant: a mark that is there already is not held for longer.
MarkTtlOfFirst(c) == Over(Older(mark_ttl), Held(c.added \cup c.changed))
NewMarkTtl(c) == Over(Held(c.added \cup c.changed), Older(mark_ttl))

Expired(ttl) == DOMAIN ttl \ DOMAIN Older(ttl)
\* Mutant: a pair that came back stays a ghost.
KeptGhostsOfAll(c) == WithoutGhosts(ghosts, Expired(ghost_ttl) \cup c.removed)
KeptGhosts(c) == WithoutGhosts(ghosts, Expired(ghost_ttl) \cup c.removed \cup c.added)
NewGhosts(c) == KeptGhosts(c) \cup GhostRows(c.removed, last_rendered)
NewGhostTtl(c) ==
  LET ttl == Over(Held(c.removed), Older(ghost_ttl)) IN Only(ttl, DOMAIN ttl \ c.added)

------------------------------------------------------------------------------
\* The observed system.
Appear ==
  /\ \E k \in Pairs \ DOMAIN network : \E s \in States[k] :
       network' = Over([x \in {k} |-> s], network)
  /\ UNCHANGED <<all, paused, force, loop, snap, ws, frames>>

Vanish ==
  /\ \E k \in DOMAIN network : network' = Only(network, DOMAIN network \ {k})
  /\ UNCHANGED <<all, paused, force, loop, snap, ws, frames>>

Alter ==
  /\ \E k \in DOMAIN network : \E s \in States[k] :
       s # network[k] /\ network' = [network EXCEPT ![k] = s]
  /\ UNCHANGED <<all, paused, force, loop, snap, ws, frames>>

\* A frame is due (the interval has passed) or forced.
\* Mutant: only a key brings a new frame.
DueIfForced == force
Due == force \/ ~paused

\* collect() returns; a key pressed meanwhile is only read after the frame.
CollectFrame ==
  /\ loop = "wait" /\ Due
  /\ force' = FALSE
  /\ snap' = View(network, all)
  /\ loop' = "collected"
  /\ UNCHANGED <<network, all, paused, ws, frames>>

\* diff(), the painting of the frame, and keep().
Paint ==
  /\ loop = "collected"
  /\ LET c == ChangesOf(snap)
     IN /\ mark' = NewMarks(c)
        /\ mark_ttl' = NewMarkTtl(c)
        /\ ghosts' = NewGhosts(c)
        /\ ghost_ttl' = NewGhostTtl(c)
  /\ last_rendered' = snap
  /\ have_previous' = TRUE
  /\ frames' = LET f == Append(frames, snap)
               IN IF Len(f) > kHoldFrames + 1 THEN Tail(f) ELSE f
  /\ snap' = NoPairs
  /\ loop' = "wait"
  /\ UNCHANGED <<network, all, paused, force>>

\* The keys; v, e, l and f change what is printed of a frame and force one.
Key ==
  /\ loop = "wait"
  /\ \E key \in {"p", "a", "v"} :
       /\ paused' = (paused # (key = "p"))
       /\ all' = (all # (key = "a"))
  /\ force' = TRUE
  /\ UNCHANGED <<network, loop, snap, ws, frames>>

Quit ==
  /\ loop = "wait"
  /\ loop' = "done"
  /\ UNCHANGED <<network, all, paused, force, snap, ws, frames>>

\* Ctrl-C during a slow collect(): the frame is not painted.
Interrupt ==
  /\ loop = "collected"
  /\ loop' = "done"
  /\ snap' = NoPairs
  /\ UNCHANGED <<network, all, paused, force, ws, frames>>

Init ==
  /\ network \in Views
  /\ all \in BOOLEAN
  /\ paused = FALSE /\ force = TRUE
  /\ loop = "wait" /\ snap = NoPairs
  /\ last_rendered = NoPairs /\ have_previous = FALSE
  /\ mark = <<>> /\ mark_ttl = <<>>
  /\ ghosts = {} /\ ghost_ttl = <<>>
  /\ frames = <<>>

Next ==
  \/ Appear \/ Vanish \/ Alter \/ CollectFrame \/ Paint \/ Key \/ Quit \/ Interrupt

Spec == Init /\ [][Next]_vars
\* The loop itself keeps running.
FairSpec == Spec /\ WF_vars(CollectFrame) /\ WF_vars(Paint)

------------------------------------------------------------------------------
\* Type correctness: every mark and ghost has a time left of at most kHoldFrames, and the
\* frame compared with is the one painted last.
TypeOK ==
  /\ network \in Views /\ snap \in Views /\ last_rendered \in Views
  /\ {all, paused, force, have_previous} \subseteq BOOLEAN
  /\ loop \in {"wait", "collected", "done"}
  /\ mark \in UNION {[S -> {"+", "~"}] : S \in SUBSET Pairs}
  /\ DOMAIN mark_ttl = DOMAIN mark
  /\ \A ttl \in {mark_ttl, ghost_ttl} : \A k \in DOMAIN ttl : ttl[k] \in 1..kHoldFrames
  /\ have_previous = (frames # <<>>)
  /\ have_previous => last_rendered = frames[Len(frames)]

\* What happened to pair k in painted frame j, against the frame before it.
Event(k, j) ==
  IF k \in DOMAIN frames[j]
  THEN IF k \notin DOMAIN frames[j - 1] THEN "+"
       ELSE IF frames[j][k] # frames[j - 1][k] THEN "~" ELSE ""
  ELSE IF k \in DOMAIN frames[j - 1] THEN "-" ELSE ""
Recent(k) == {j \in 2..Len(frames) : j > Len(frames) - kHoldFrames /\ Event(k, j) # ""}
Latest(S) == CHOOSE j \in S : \A i \in S : i <= j

\* WatchState::diff(): however a pair is added, changed, removed and added again, its row
\* carries the mark of the latest of these in the last kHoldFrames frames, and no other.
MarksExact ==
  \A k \in DOMAIN last_rendered :
    IF Recent(k) = {} THEN k \notin DOMAIN mark
    ELSE k \in DOMAIN mark /\ mark[k] = Event(k, Latest(Recent(k)))

\* WatchState::diff(): the ghost rows are the pairs that were removed in one of the last
\* kHoldFrames frames and have not come back, one row each, with the state they had last.
GhostsExact ==
  LET gone == {k \in Pairs \ DOMAIN last_rendered : Recent(k) # {}}
  IN ghosts = {[key |-> k, state |-> frames[Latest(Recent(k)) - 1][k]] : k \in gone}

\* What WatchState adds to the rows of a frame: marks and ghosts are those of the last frames.
DecorationExact == TypeOK /\ MarksExact /\ GhostsExact

\* The watch loop: a session that is neither paused nor left shows what the network has come
\* to, once that stays as it is.
FollowsNetwork ==
  \A v \in Views :
    <>[](loop # "done" /\ ~paused /\ network = v)
      => <>[](last_rendered \in {View(v, b) : b \in BOOLEAN})
================================================================================
