# TLA+ model of fastdds_transport_viz

`fastdds_transport_viz` watches a running ROS 2 system from outside: it joins
the DDS domain as one more participant, collects what discovery and the Fast
DDS statistics topics say, decides for every writer-reader pair which transport
it uses, and prints that once or frame by frame (`--watch`), as a table, JSON or
CSV, or to a web viewer. The tool is hard to test where it is concurrent (it
reads state that Fast DDS threads and its own drain thread write, at several
instants of one frame, of a system that changes meanwhile) and where a verdict
rests on many partial observations that arrive in any order.

Paths below are relative to `src/src/fastdds_transport_viz/src/` unless they
name a directory.

## The system's parts

| Part | State | Operations | Talks to |
| --- | --- | --- | --- |
| Discovery observer (`discovery_observer.cpp`) | endpoints, participants, time and number of the last callback, one mutex | a callback per discovered, changed or removed endpoint or participant; accessors | called by Fast DDS threads; read by the main thread |
| Observation loop (`main.cpp:1112-1332`) | elapsed time, quiet flag, cached reader destinations, last change of what is measured, why it stopped | an iteration every 50 ms; the warning; one-shot output; `--watch` frames | polls both observers, ends on time, silence, settled statistics, Ctrl-C |
| Collecting a frame (`main.cpp:517-860`) | the node name table, the graph's names, when the graph was last asked | poll names, snapshot, refresh graph, judge completeness, name endpoints, filter, decide, apply statistics | discovery observer, `ros_discovery_info`, rmw graph, `/dev/shm`, statistics |
| Statistics observer (`stats_observer.cpp`) | ten readers, aggregate behind one mutex, per-second slots, atomic loss counters | drain (two threads), prune, settle status, snapshot, listener callbacks, destructor | Fast DDS readers and listener threads, main thread |
| Transport decision (`decision.cpp`) | none | predict a pair's transport, group topics, count pairs | pure functions of one frame |
| Applying statistics (`decision.cpp`) | the verdicts, revised in place | attach what was measured, confirm, contradict, revise | pure on one frame, but in the order of the pairs |
| Shared-memory scan (`shm_info.cpp`) | none | list segments, probe port locks | `/dev/shm`, while its owners come and go |
| Differences and watch marks (`decision.cpp`, `render_table.cpp:206-262`) | marks and ghosts of the last frames | diff, keep | one frame after the other |
| Rendering and parsing (`render_*.cpp`, `parse_json.cpp`) | none | format a frame, read a saved one, compare two | terminal, files |
| Live server (`web/serve.py`) | the latest document, its id, the clients | pump documents, serve events, shut down | the tool's stdout, browsers |
| Viewer (`web/app.js`, `web/replay.js`) | kept frames, recording, position, document on screen, reads under way | append, trim, rescan, pause, resume, move, replay | the live server, recorded files |

Where it is hard, and what makes each part correct:

* **Observation loop.** Time, event count, snapshot and settle status are read
  one after the other while callbacks run. Correct: it never calls a system
  quiet that is not, never judges the statistics against readers that have
  moved, and always ends.
* **Frame.** Names, endpoints, graph and live participants come from four
  instants. Correct: a frame that says "complete" misses nothing announced,
  "incomplete" goes away, every lasting endpoint gets its node name, a skipped
  graph query skips nothing.
* **Statistics.** Two threads take from the same readers and give the mutex
  away in the middle; the listener's counters are separate atomics; samples
  come out of order. Correct: counters never go back, a snapshot is a full
  sweep and agrees with itself, losses are counted once, rates and gaps are
  those of the samples received, the destructor never deletes a reader in use.
* **Verdicts.** Endpoints are discovered one at a time and leave, each counter
  of the statistics has its own delay and base line, and a pair is judged
  knowing what its siblings became. Correct: a claim marked certain is true of
  the system, a contradiction never goes unsaid, and the result does not hang
  on the order in which things arrived.
* **Shared memory.** Port locks are probed one after the other while
  participants start, exit and crash, and ports of two IPC namespaces have the
  same numbers. Correct: a claimed split is one.
* **Saved frames.** Keys are absent, null or from an older version. Correct: a
  frame read back is the frame, and a restart is no difference for
  `diff --key node`.
* **Live server and viewer.** Slow and cut connections, a document and the end
  of the stream at the same moment, a restarted server, frames dropped while
  one is read. Correct: documents come in order and none twice, the end comes
  after the last one, a viewer catches up, what was left out is counted, and
  what is marked as shown is what is on screen.

`PROJECT.json` lists all parts and, under `hazards`, each place where this bites.

## Modules

| Module | Models |
| --- | --- |
| `DiscoveryObserver` | the maps, `last_event_`, `event_count_`; `touch`, `upsert`, `erase`, every callback and accessor. No `Next`: which callback comes when is said by the two modules that extend it |
| `WaitLoop` | `main()` from the wait to the end, composed with the observer and with what the settle rule reads of the statistics |
| `Collect` | frame after frame of `collect()` up to the named endpoints, composed with the observer, `NodeNameTable`, `RosGraphResolver`, `RosDiscoveryInfoObserver` |
| `StatsDrain` | `drain()`, `drain_loop()`, `snapshot()`, constructor and destructor |
| `StatsListener` | the four listener callbacks, access by access, and the counter reads of `snapshot()` |
| `RateWindow` | the HISTORY_LATENCY loop, `set_rate_window()`, `prune_rate_window()` and its reduction in `snapshot()` |
| `Decision` | `decide()` and all it calls: locators, QoS, types, data-sharing, IPC split, intra-process |
| `Topics` | companion links, `summarize()`, `classify_topics()`, `display_rows()`, `filter_by_node()`, the default view |
| `ApplyStats` | `apply_stats()`, `note_unmeasured_pairs()` and the counting they rest on |
| `Codes` | the table `explanations()` |
| `Changes` | `pair_states()`, `diff()`, `diff_snapshots()` |
| `Document` | `render_json()`, `parse_json()`, `apply_view_filters()`, `run_diff()` |
| `Frame` | the rest of `collect()` and `count_measurable_pairs()`, composed of the six modules above, inside a small world of endpoints, packets and statistics |
| `ShmScan` | `held_port_locks()`, `scan_shm()`, `participant_shm_visibility()`, and `Decision` on their result |
| `Watch` | the `--watch` loop with its keys, and `WatchState` |
| `LatestValue` | abstract: what the live server promises a viewer |
| `LiveStream` | `Stream`, `pump()`, `serve_events()`, the end of `main()` in `web/serve.py`; `connectLive()` and `trackId()` in the viewer |
| `LiveHistory` | the viewer's page: kept frames, recording, timeline, reads, in `web/app.js` and `web/replay.js` |
| `MC*` | constants of the instances |
| `WaitLoopProofs`, `CollectProofs`, `StatsDrainProofs`, `StatsProofs`, `ShmScanProofs`, `FrameProofs`, `LiveStreamProofs`, `LiveHistoryProofs` | theorems about the module they are named for; `StatsProofs` about `StatsListener` and `RateWindow`, `FrameProofs` about `Frame` and `Watch` |

A step of a thread is the code between two accesses to state others write.
What the observer does under its mutex is one step; two accessor calls are two
steps. In the viewer a step is one event handler or the end of one read, as
JavaScript schedules them. Variables and operators keep the source's names; a
phase of a function is named for what it does (`JudgeQuiet`, `TakePicture`),
and its `pc` value for where it stands. Pure functions of the code are
operators; they are checked on the states that the surrounding world reaches.

Data is abstract: an endpoint is a model value (`WaitLoop`, `Collect`) or a
record of the fields the decision reads (`Decision`, `Topics`); a name is never
made of characters, so demangling is the tables `TopicInfo` and `TypeInfo`; a
list of codes is a set, since their order is only the order of printing; a
sample is a counter value or a number and a second. A JSON document is a record
whose optional keys may be absent and whose nullable values may be null, since
that is what reading it back has to cope with. Seconds are whole: thresholds
are compared the way the code compares them.

External, modelled from how the code uses it: Fast DDS discovery delivers a
participant before its endpoints and removes it after them; the rmw creates,
announces, withdraws, destroys in this order and a process may vanish anywhere;
`ros_discovery_info` keeps the newest sample per writer, earlier ones may
already be queued; a KEEP_LAST 1 reader replaces what was not taken; a
best-effort reader loses samples and pushes out the oldest; a reader hands out
one instance after the other (the comment at `stats_observer.cpp:328`); a
listening shared-memory port is a locked file, which a crash leaves behind
unlocked. GUIDs are not reused.

In `Frame`, `Collect` and `ShmScan` the observed system is part of the state.
That is what lets a property compare what the tool says with what is so: `truth`
counts the packets really sent, lost and delivered, `copies` and `sends` of a
scenario say which pairs really share memory, `where` is the namespace a
participant really is in.

Operators marked *Mutant* are wrong versions of the definition after them,
kept to show that the property named in `PROJECT.json` would notice.

## Runs

| Run | Question | Result |
| --- | --- | --- |
| `wait` | all eight modes, a writer and a far reader, callbacks, statistics and Ctrl-C anywhere in the loop | the cached destinations and pair count are never stale behind the remembered event count; a settled run was judged on what is discovered; quiet is never claimed before an event or inside the window; the wait ends; Ctrl-C ends every mode |
| `collect` | a node that creates, announces, withdraws and destroys, or just goes, between the reads of a frame | a complete frame misses no announced endpoint; a skipped query skips nothing; "incomplete" clears; lasting endpoints are named |
| `stats_drain` | two drainers, two readers, failing drains, the destructor | counters go forward; snapshots are full sweeps and coherent; nothing taken after delete; snapshots return, the destructor ends, counters catch up |
| `stats_listener` | two threads in callbacks, a snapshot reading meanwhile | losses are counted once; a snapshot's loss counters add up; what it leaves for the counter readers is too much by at most the callbacks half way when it began |
| `rate_window` | samples of two pairs over four seconds, lost, late or pushed out | the window of each pair is exact; without a sliding window the gap is exact |
| `frames` | what a frame says, against the system it was taken of | see below |
| `node_filter` | are all readers of a writer with `datasharing-data-submessages-sent` sharing? | violated, see findings |
| `shm_split` | three participants of two namespaces start, exit, crash during a scan, with and without a listable `/dev/shm`, procfs and readable locks | visible means in the tool's namespace; a claimed split is one, also of a crashed participant whose numbers nobody else used; a lasting provable split is claimed in the end |
| `watch_marks` | pairs that come, go and change; pause, "all topics", Ctrl-C | a mark is what happened in the last three frames; a ghost was removed in them and is not back; an unpaused watch ends on the network as it is |
| `live_stream` | a connection that holds one event, a cut, a server stopped and started again | the stream implements `LatestValue`; "skipped" is exact while one server runs; the viewer ends with the latest number, and with the latest document while one server runs |
| `live_history` | frames arrive and are dropped while the user pauses, moves, drags, opens a file | recording and kept frames agree; the bound holds; what is marked as shown is on screen; a paused frame stays while it is kept; following ends on the newest |
| `live_request` | does the newest request win? | violated, see findings |

The invariants of a module are conjunctions of named parts, and a run may check
the conjunction (`TopicsTrue`, `SharingTrue`, `DeliverySaid`, `CountsTrue`,
`DocumentTrue`, `ScanSound`, `DecorationExact`, `HistorySound`, `CountSound`,
`RateSound`); each part has its own wrong version of the code in `PROJECT.json`
that breaks it. The type invariants of `WaitLoop` and `StatsDrain` are proved.

What `frames` shows:

* of a single pair, over all combinations of host, locators, data-sharing and
  domain ids: no faster transport that both ends announce is passed over
  (`VerdictFastest`);
* of topics, whatever is discovered in whatever order: a companion is linked
  to its real parent once that is discovered (`LinkTrue`), a topic is called
  unmatched exactly when it is (`UnmatchedTrue`), every pair is in the one row of
  its client and server (`RowsTrue`), an action is a real one (`ActionTrue`), the pair
  count kept per topic and process is the number of pairs (`MeasurableExact`);
* of statistics that arrive late and one at a time: a lost packet is not
  reported for two pairs (`LossCountedOnce`); zero-copy is confirmed and
  refuted only where it is true (`CertainSharingTrue`, `NotUsedTrue`);
  revising the pairs in another order warns of the same writers (`OrderFree`);
  a delivery that contradicts the prediction, and a delivery that no packet
  explains, are said (`ContradictionLoud`, `UnmeasuredSaidSo`);
* of the document: every code can be explained (`CodesExplained`), a frame read
  back is the same (`RoundTrip`), the default view of a document saved with
  `--all` is the default view (`ViewSame`), a document without classification
  is classified alike (`OldDocumentSame`), `diff --key node` sees no change in a
  restart and `--key guid` sees every pair change (`RestartQuiet`).

Bounds, and why they are enough:

* `wait` (510,000 states): two callbacks discover both ends, or discover and
  move or remove one; three seconds hold the minimum time, the window and the
  cap; one writer with one far reader is the least that has a destination.
* `collect`: four callbacks let the participant and its endpoint come and go;
  names the graph learns at once, a grace period of zero and one tick, so that
  frames fall inside and outside it. `HasNames` is on and `SeparateReader` off:
  the tool of Jazzy and later.
* `stats_drain`: batches of two samples, so that a sweep both keeps and gives
  away the lock, and counters of two values, so that an old sample can meet a
  new one; one failing drain.
* `stats_listener`: three losses, two threads, one writer, one tick.
* `rate_window`: a reader two deep and a window of two seconds in four.
* `frames` (33,000 states): ten families of scenarios, each the smallest
  system that has the case: a data-sharing writer with two readers (all four
  ways of delivery, and one reader without data-sharing), two such writers with
  one reader, two readers behind one locator with a writer in their own process,
  three readers that should not match but receive, a reader whose locator is of a
  kind the tool does not know, another vendor, two
  publishers and a subscription with companions, a service with two clients, an
  action beside a service named like one, and 588 single pairs. Two samples
  separate a base line from traffic. Each scenario is looked at with `--all` and,
  where they make a difference, in the default view, with `--node` and `--topic`.
* `shm_split` (803,000 states): two participants run when the tool starts, one
  of each namespace; the third may be in either; one of them ends. Three proof
  and three flow ports, so that numbers are reused. The machine without procfs is
  also the one with a lock that cannot be opened, of another port than the tool's.
* `watch_marks` (308,000 states): marks live three frames, as in the code; one
  pair that changes, one that the default view leaves out.
* `live_history` (66,000 states): six frames of one and two units with a bound
  of five, so that half of the frames go several times; also without history.
* `live_stream`: one viewer, since viewers share only the stream, which none of
  them changes; three documents, so that one can be skipped between two; a
  connection of one event, so that writes wait; one cut and two servers.

The deadlock check is off where a model ends: the tool stops, or its bounds are
used up. It is on in `frames`, `node_filter` and `shm_split`.

Fairness. The main thread is scheduled and the clock runs (`WF`); that is all
the wait needs. `Collect`: discovery and the main thread go on (`WF`); a sample
that waits in the reader whenever `poll()` runs is taken sooner or later (`SF`:
`ros_discovery_info` is reliable and transient-local). The observed processes
have no fairness: they may stop changing at any point. `StatsDrain`: both
threads are scheduled and the counter readers are reliable (`WF`); the main
thread gets the mutex it keeps asking for (`SF`), since the drain thread sleeps
50 ms between drains and yields between batches (`stats_observer.cpp:270-272`,
`425`). `ShmScan`: `--watch` keeps collecting frames, and discovery of what
started or ended gets through (`WF`). `Watch`: a frame that is due is collected
and painted (`WF`). `LiveStream`: the server's threads run, browsers connect
again and read (`WF`); nobody has to print, exit, stop or restart anything.
`LiveHistory`: a blob or file that is being read is read in the end (`WF`); no
frame has to arrive and the user has to do nothing.

## Proofs

`WaitLoopProofs` proves for any endpoints, options, locators and bounds that
`WaitLoop` keeps its type (`TypeCorrect`), that the settle rule's cache is
coherent (`CacheCoherent`), that `quiet_now` is sound (`QuietSound`) and that a
settled run was judged on the current picture (`SettledSound`). None of these
is inductive. `WaitInv` adds what the steps hand on to each other:

* time stamps lie in the past (`ClockInv`) and the remembered count is one the
  observer has had (`CountInv`), so that a count that differs stays different;
* between the snapshot and the refresh, a count that is still current means the
  picture is still the observer's (`PictureInv`). Remembering the count *before*
  the snapshot makes this inductive; the other order breaks it;
* `since_last` is the distance to the last event, or the event came after the
  clock sample (`SinceInv`), and the same for the pass that judges the settle
  rule (`PassInv`, `SettledInv`).

The proof has a step per action and, inside, one per conjunct the action can
disturb. It assumes only the named `ASSUME`s of the two modules: sets are
subsets of each other, options are records of the right type, constants are
naturals.

`StatsDrainProofs` proves for any finite set of instances, any readers and any
batch size the type (`DrainTypeCorrect`), that counters never go back
(`CountersForward`), that a snapshot is a full sweep (`SnapshotSweeps`) and
agrees with itself (`SnapshotAgrees`), and that nothing is taken from a deleted
reader (`DeleteAfterUse`). All follow from
the invariant `DrainInv`: only the holder of the mutex is between taking a
sample and folding it in (`MutexInv`, `HandInv`); what it holds is no older than
the slot, what the reader holds is newer than both (`OrderInv`); unless a drain
threw, what had arrived is in the slot, in hand or in a reader (`NoneLost`), and
behind the sweep of `snapshot()` nothing that had arrived at the call is left
(`SweepInv`); the settle status it read is covered by the slots (`SettleInv`);
the readers go after the thread (`LifeInv`).

`CollectProofs` proves for any participants and endpoints that `Collect` keeps
its type (`CollectTypes`), that a graph query is skipped only when nothing
happened since the last one began (`SkippedQueryIsSafe`), and that a complete
frame misses nothing announced (`CompleteIsComplete`). The last one assumes
`SeparateReader = FALSE`, the tool of Jazzy and later: on Humble it does not hold,
see below. The argument of `CollectInv`: an endpoint that exists
lives in a process that is there, and a sample names only endpoints of its own
participant that were announced (`HeardInv`); a participant is among the live ones
from discovery until its process leaves, and a sample reaches the tool only from a
participant it has discovered (`DeliveredInv`). So when completeness is judged, an
announced endpoint that the table names has a live participant and is missing
aloud if it is not in the picture, and what changes between the judgement and the
frame only withdraws announcements (`JudgedInv`). The count remembered with a
query is never ahead of the events (`EventsInv`).

`StatsProofs` proves for any finite set of Fast DDS threads the type
(`ListenerTypes`), that each loss is counted once (`EveryLossCounted`) and that
what `snapshot()` reads without a lock adds up (`SnapshotSound`). What a callback
holds between two atomics is counted as the number of threads at that step, so
the sum of counters and hands is the number of losses at every instant; the
counters a snapshot has not read yet can only grow past those it has. The latency
part is read last: a loss of the event reader that is counted meanwhile is in `lost`
now but not in the copy, so the copied part may be the larger one; the bound on what
is left for the counter readers counts the callbacks between their two counters when
`lost` was read, and those now (`ReadsInv`).

`StatsProofs` also proves, for any pairs, window, depth of the reader and numbers
of samples and seconds, that the rate window of a pair is exact (`RateIsSound`) and
that without a sliding window the gap is (`GapsAreExact`). The slots are sums, so
the proof is about what each of them stands for. `RateInv`: a number is given once,
so none in the reader has been taken (`NumbersInv`); the slots of a pair are in the
order of their seconds, and what the reader still holds of the pair is not older
than any of them (`InOrder`); hence every sample taken since the first second of
the window has its slot (`Slotted`), and a slot has exactly the samples of its
second: their number, the least and the greatest (`Filled`). Of the writer, whose samples come
late and may be filed under a newer second, this is not so; its slots only span the
numbers taken, and count each once, while nothing is pruned (`Spanned`). That the
sum over the slots is the number of samples is an induction over the slots from the
well-foundedness of `<` (`SetInduction`, `CountsOneMore`, `SlotsCount`), and that
pruning takes away a prefix is `PrunedIs`.

`ShmScanProofs` proves for any finite set of participants and any ports that a
scan is sound while its subjects start, exit and crash (`ScanIsSound`), and, as a
fact about `decide()` alone, that a split is warned of only where one of the two
lists of reasons has an entry (`SplitNeedsEvidence`). `ShmInv` says what the world
keeps (`PortsApart`: no two running participants of a namespace have a number in
common; `FilesInv`: a held lock file has a holder, a running participant holds its
own, a crashed one left them free unless the number was used again) and what a
scan knows half way (`ProbedInv`: a held lock is one the tool knows as its own, or that of a
participant of its namespace in the snapshot; a missing file proves its owner absent, and that
stays so while participants go on to start and end), and from this what a frame
says (`ShownInv`). The first attempt failed for a
good reason: with more than one participant ending, a crashed one's number can be
taken by another that exits and removes the file, and the crashed one looks absent;
`SplitSound` now leaves such numbers out.

`FrameProofs` proves three properties of `Frame`, for any finite set of endpoints
with any locators, QoS and visibility, any options of the frame and any statistics:
`VerdictIsFastest`, `DeliveriesSaid` and `TopicsAreTrue`. The world waits while a
frame is on screen, so the invariant `FrameInv` is small (a frame shown is
`FrameOf` what is discovered and counted now), and the work is in what `FrameOf`
computes. It follows the code, one lemma per function:

* sequences and order: a finite set of numbers has an ascending enumeration
  (`AscendingIs`), so a list in GUID order has each endpoint once (`GuidOrderIs`), the
  pairs of a topic are all pairs of a writer and a reader (`PairsAre`), and what a filter
  keeps of a list is what it should (`EntriesAre`, `PruneIs`);
* `decide()`: the branches for data-sharing, shared memory, network and one process
  each name the fastest transport in common, or warn of a split (`DatasharingIs`,
  `ShmIs`, `NetworkIs`, `SameTypeIs`, `PairIs`);
* topics: linking changes nothing but the links (`LinkedAre`), and of several
  candidates the one with the entity key before the companion's is the parent
  (`ParentIs`); what `summarize()` says of a topic's sides, reasons and group
  (`SummaryIs`, `ClassifiedAre`, `SummarizedAre`) survives the default view and `--node`
  (`SidesKept`, `ViewedAre`); the rows split the pairs (`RowsAre`);
* statistics: whatever entries match, the transports measured are transports
  (`MeasuredTransports`), revising a pair takes no telling code away (`VerdictStays`,
  `CodesAdded`) and adds one where a delivery does not fit (`RevisedIs`, `RevisedTell`). The
  pairs of a topic are revised one after the other, each seeing what was done to the
  ones before; that all of them tell is an induction over their positions from the
  well-foundedness of `<` (`NumbersInduct`, `RevisionsDefined`, `AppliedAre`).

Beside the types of endpoints (`ScenariosAssumption`) `TopicsAreTrue` needs what
`WorldAssumption` says of the observed system: a participant numbers its endpoints
from one counter and a companion comes right after its parent (the comment at
`decision.cpp:544`), and a type of an action's member is that of an action. `MCFrame`
checks both on its scenarios.

The proof of `DeliveriesSaid` failed at first for a locator of a kind the tool does not know,
which no scenario had; it is now a family of `frames`, see the notes below.

`FrameProofs` also proves for any pairs and any length of a watch that marks and
ghosts are exact (`DecorationsAreExact`). The tool keeps no history, only a
countdown per row. `WatchInv` says that the time left tells the age of the newest
change of the pair: it happened so many frames ago and none came after it; a pair
without mark or ghost had none in the frames of the countdown (`MarkInv`,
`GhostInv`). Painting a frame shifts all ages by one and forgets the oldest frame,
which is when a countdown reaches zero.

`LiveStreamProofs` proves for any viewers, any number of documents, servers and
cuts that `LiveStream` implements `LatestValue` (`ServerImplementsLatestValue`:
initial states map to initial states, every step to a step or a stutter) and that
the number of skipped frames is exact while one server runs
(`SkippedCountExact`). `StreamInv` orders the numbers along
the way: what is on the wire is in order and not older than what the viewer has of
this server (`WireInv`), the handler's own copy lies between what it sent and what
was printed, and the end is only sent when the last document is on the wire or
taken up (`HandlerInv`). `CountInv` adds that the last number a viewer has is the
largest it took, and relates the count to those it took.

`LiveHistoryProofs` proves for any bound, any sizes and any number of frames that
the kept frames are sound (`HistoryIsSound`), that the frame marked as shown is the
one on screen (`ShownIsShown`) and that a paused page stays on its frame
(`PausedFrameStays`). `trimHistory()` drops by a loop over the kept frames, here
the recursive functions of `Bytes` and `dropCount`. `Induction`, for a set and drawn
from the well-foundedness of `<`, shows that both are defined, and `DropCountSound`
that the loop ends inside the kept frames and leaves no more than the bound or a
single frame. `HistoryInv` then says: the recording is that of the kept
frames or, during a rescan, of the first of them, and the rescan has something left
to read (`RecordInv`); timeline, shown frame and pending read point into the
recording, and a read brings the document of its frame wherever that has moved
(`PointsInv`); the screen has the frame marked as shown unless a read was overtaken
(`ScreenInv`); the kept frames are the newest (`Newest`) and fit (`Fits`).

Beside types (sets are subsets of each other, constants are naturals) the proofs
assume: finitely many instances (`StatsDrain`), threads (`StatsListener`) and
participants (`ShmScan`) and endpoints (`Frame`), that no participant is an endpoint
(`Collect`), and `WorldAssumption` of `Frame`.

Only model-checked:

* everything under fairness (`WaitEnds`, `InterruptEnds`, `IncompleteClears`,
  `NamedEventually`, `CallsReturn`, `CatchesUp`, `SplitSettles`, `FollowsNetwork`,
  `FollowsNewest`), since the prover has no rule for `ENABLED`;
* five of the properties of `frames`: `CountsTrue` and `SharingTrue` are about sums over
  entries and pairs, `OrderFree` about every permutation of the pairs, `DocumentTrue` and
  `RestartQuiet` about documents written, sorted, read back and compared. What such a fold
  or sort computes for every input needs an induction that takes the operator as a
  parameter, which the provers cannot instantiate;
* `NewestRequestWins` and the property of `node_filter`, which the code violates.

## Findings

1. **`--node` and data-sharing** (`main.cpp:787`, run `node_filter`). The node
   filter runs before `apply_stats()`, so a writer's reader without data-sharing
   is gone when the verdict on the data-sharing reader is revised. The DATA the
   writer sends to the one is put down to the other, and the pair is reported as
   not using zero-copy, explained by "Every reader of this writer announces
   data-sharing" (`decision.cpp:1950`).
2. **An older request wins** (`src/web/app.js:840`, run `live_request`).
   `showFrame()` returns for the frame on screen before it takes a new token, so
   a move away and back before the read ends leaves the viewer on the frame it
   moved away from. The comment says "the newest request wins" (`app.js:832`).

Met while modelling, without a run of their own; the properties say where they
leave such a case out:

* Ctrl-C leaves `stopped_on` at "timeout" (`main.cpp:1181`), which the schema
  lists as `--timeout` (`src/schema/transport_viz.schema.json:1123`); a
  `--stats` run then also prints the warning of a run that hit the cap.
* On Humble the names come through a participant of their own, so a row can
  name a participant that is not discovered yet; it is skipped like one that
  has left, and the frame is complete (`decision.cpp:1417`).
* The first match between the two reads of `on_sample_lost()` moves a loss out
  of `lost_at_start` (`stats_observer.cpp:71`).
* `snapshot()` reads `lost` first and `lost_latency` last (`stats_observer.cpp:514`,
  `518`), so a loss of the event reader in between makes the copied part larger than
  the whole, which `render_json.cpp:408` calls "Part of samples_lost";
  `statistics_counter_samples_lost()` takes it for zero (`decision.cpp:1552`).
* After a restart of the server the page knows documents by number only: one with the
  number seen last is taken for the latest document sent again (`replay.js:258`), and
  if no other is printed the viewer stays on the old server's; a first one with a
  higher number is counted as a gap.
* A companion discovered before its own parent is linked to the only other candidate
  until the parent is there too (`decision.cpp:542`).
* Without procfs the tool does not know the port of its discovery participant as its
  own, and a participant elsewhere that announces that number looks visible
  (`main.cpp:609`).
* Under `--watch` a sample taken late is filed under the newest second of its
  writer; when the older second is pruned its numbers look lost
  (`stats_observer.cpp:347`).
* Which of a writer's pairs carries the warning about mixed readers follows the
  order of GUIDs, so a restart can move it.
* A delivery that is proved does not count for a writer that publishes no
  statistics of its own.
* A packet sent to a locator of a kind the tool does not know is measured as traffic
  of no transport: a pair predicted NONE is then certain of it, with the reason
  `measured-unknown-traffic` and no warning (`decision.cpp:921-943`).
* A pair of one process predicted NONE that delivers gets no warning
  (`decision.cpp:1203-1216`).
* A crashed participant's port number that another takes over within the lease
  looks like a collision, hence a split; when the one that took it exits, the lock
  file goes and the crashed one looks absent, hence split too; an undiscovered participant of the
  tool's namespace with the number of another makes that one look visible.
* In the viewer, Pause does not cancel the read of Resume (`app.js:690`), and a
  frame that arrives in between leaves the older document marked as the newest.
* A document saved with `--node` and without classification may lose the
  grouping of an action, since the members that name it are filtered out.

## Not modelled

* **Table and CSV** (`render_table.cpp` but for `WatchState`, `render_csv.cpp`):
  layout of what `Topics` and `Document` already have; nothing reads it back.
* **Command line, terminal, environment checks, discovery servers from the
  environment**: text in, settings out, before the observation starts.
* **Version shims** (`compat`): accessors without control flow.
* **`ros2 transport`, test nodes, probes, scripts**: start the tool or its load.
* **Viewer**: opening a recording from a file (here a file is one document),
  charts, layout and drawing. Its own marks (`web/model.js`) are the hold rule
  of `Watch` on what the stream delivers.
* **Server**: static files, `/metrics`, the recording.
* **Values**: bytes, latencies, rates other than the window, host names, the
  capacity warning, `fastdds shm clean` run during a scan.
* **Endpoint by endpoint discovery** in `ShmScan`: all endpoints of a participant are
  discovered in one step. Half discovered, a participant announces one of its two
  ports; the other is then held by one that was not copied, which the properties of
  the scan leave out.
* Allocation failures and exceptions of the main thread's own drain end the
  program and are left out.
* Unbounded publishers: the models' counters are bounded, so that a sweep ends;
  whether a reader can be filled faster than it is emptied is a question of
  rates.

## Plan

1. Done: observation loop, frame with decision, statistics and document,
   statistics observer, shared-memory scan, watch marks, live stream and live
   history; proofs for the loop, the frame's completeness, the drain, the
   listener, the delivered rate, the scan, the verdicts, topics and deliveries of a
   frame, the marks, the live stream and the live history.
2. Next: that `count_measurable_pairs()` counts pairs (`MeasurableExact`), which
   needs sums over finite sets; then that zero-copy is confirmed only where it is
   true (`CertainSharingTrue`).
