----------------------------- MODULE CollectProofs -----------------------------
(***************************************************************************)
(* Theorems about the frames of --watch, for any processes, endpoints and  *)
(* announcements: what a frame that calls discovery complete means, and    *)
(* that a skipped query of the ROS graph loses nothing.                    *)
(***************************************************************************)
EXTENDS Collect, SequenceTheorems, TLAPS

\* The endpoints a participant may have announced, given the lives of all.
Said(lives, p) == {e \in EndpointsOf(p) : lives[e] \in {"announced", "retired", "gone"}}

\* An endpoint lives in a process that is there; a sample, taken or not, names only endpoints of
\* its own participant that were announced before.
HeardInv ==
  /\ \A e \in Endpoints :
       life[e] \in {"exists", "announced", "retired"} => proc[ParticipantOf[e]] = "in"
  /\ \A p \in Participants : pending[p] \in Seq(SUBSET Said(life, p))
  /\ \A p \in DOMAIN table_ : table_[p] \subseteq Said(life, p)

\* A participant discovery delivered is live until it leaves; a sample reaches a reader on the
\* observed participant only from a participant that one has discovered.
DeliveredInv ==
  /\ \A p \in Participants \cap delivered :
       proc[p] # "out" /\ (proc[p] = "in" => p \in participants_)
  /\ ~SeparateReader => DOMAIN table_ \subseteq delivered

\* The verdict of a frame, from the moment it is judged.
JudgedInv ==
  (pc \in {"name", "frame"} /\ complete = "true" /\ ~SeparateReader)
    => \A e \in Endpoints : (life[e] = "announced" /\ lookup(e)) => e \in Discovered(picture)

\* The argument `events` is never ahead of what has happened, and what is remembered with a
\* query not ahead of what had happened when the query began.
EventsInv ==
  /\ asked <= event_count_ + samples_taken_
  /\ pc \in {"argSince", "refresh", "list", "infos"} => events <= event_count_ + samples_taken_
  /\ pc = "infos" => events <= asked
  /\ SkipIsSafe

CollectInv == TypeOK /\ HeardInv /\ DeliveredInv /\ JudgedInv /\ EventsInv

------------------------------------------------------------------------------
\* Samples that name more endpoints may name fewer.
LEMMA SeqGrows ==
  ASSUME NEW A, NEW B, A \subseteq B, NEW s \in Seq(SUBSET A)
  PROVE  s \in Seq(SUBSET B)
<1>1. \A i \in 1..Len(s) : s[i] \in SUBSET B
  BY ElementOfSeq
<1> QED
  BY <1>1, SeqDef

\* Replacing the last sample of a queue.
LEMMA SeqReplaceLast ==
  ASSUME NEW A, NEW s \in Seq(SUBSET A), s # <<>>, NEW x \in SUBSET A
  PROVE  [s EXCEPT ![Len(s)] = x] \in Seq(SUBSET A)
BY ExceptSeq, EmptySeq

\* The rows of the table.
LEMMA TableRows ==
  ASSUME NEW t
  PROVE  t \in UNION {[D -> SUBSET Endpoints] : D \in SUBSET Participants}
         <=> /\ DOMAIN t \subseteq Participants
             /\ t \in [DOMAIN t -> SUBSET Endpoints]
OBVIOUS

LEMMA CollectInit == Init => CollectInv
<1> SUFFICES ASSUME Init PROVE CollectInv
  OBVIOUS
<1> USE DEF Init, DiscoveryInit
<1>1. \A S : <<>> \in Seq(S)
  BY EmptySeq
<1>2. ok \in BOOLEAN /\ refreshed_ \in BOOLEAN
  BY Zenon
<1>3. DOMAIN table_ = {} /\ table_ \in [DOMAIN table_ -> SUBSET Endpoints]
  OBVIOUS
<1>4. TypeOK
  <2>1. table_ \in UNION {[D -> SUBSET Endpoints] : D \in SUBSET Participants}
    BY <1>3, TableRows
  <2>2. pending \in [Participants -> Seq(SUBSET Endpoints)]
    BY <1>1
  <2> QED
    BY <1>2, <2>1, <2>2 DEF TypeOK, DiscoveryTypeOK
<1>5. HeardInv
  BY <1>1, <1>3 DEF HeardInv
<1> QED
  BY <1>3, <1>4, <1>5 DEF CollectInv, DeliveredInv, JudgedInv, EventsInv, SkipIsSafe

------------------------------------------------------------------------------
\* The observed processes: only lives, processes, queues and the graph change.

\* What was announced stays announced, retired or gone; so what the table and a frame already
\* say of the endpoints stands.
LEMMA LivesGoOn ==
  ASSUME CollectInv,
         \A e \in Endpoints : life[e] \in {"announced", "retired", "gone"}
                               => life'[e] \in {"announced", "retired", "gone"},
         \A e \in Endpoints : life'[e] = "announced" => life[e] \in {"exists", "announced"},
         UNCHANGED <<pc, nameVars, picture, frameVars>>
  PROVE  /\ \A p \in Participants : Said(life, p) \subseteq Said(life', p)
         /\ \A p \in DOMAIN table_ : table_[p] \subseteq Said(life', p)
         /\ JudgedInv'
<1>1. \A p : Said(life, p) \subseteq Said(life', p)
  BY DEF Said, EndpointsOf
<1>2. \A p \in DOMAIN table_ : table_[p] \subseteq Said(life, p)
  BY DEF CollectInv, HeardInv
<1>3. JudgedInv'
  <2> SUFFICES ASSUME pc \in {"name", "frame"}, complete = "true", ~SeparateReader,
                      NEW e \in Endpoints, life'[e] = "announced",
                      NEW p \in DOMAIN table_, e \in table_[p]
               PROVE  e \in Discovered(picture)
    BY DEF JudgedInv, lookup, nameVars, frameVars, Discovered
  <2>1. life[e] = "announced"
    BY <1>2 DEF Said
  <2> QED
    BY <2>1 DEF CollectInv, JudgedInv, lookup
<1> QED
  BY <1>1, <1>2, <1>3

\* A queue that gets a sample, or whose last sample is overtaken by it.
LEMMA PublishQueues ==
  ASSUME TypeOK, NEW S, NEW p \in Participants, NEW entities \in SUBSET S,
         \A q \in Participants : pending[q] \in Seq(SUBSET Endpoints),
         pending[p] \in Seq(SUBSET S), Publish(p, entities)
  PROVE  /\ \A q \in Participants \ {p} : pending'[q] = pending[q]
         /\ pending'[p] \in Seq(SUBSET S)
         /\ DOMAIN pending' = Participants
         /\ pending' = [q \in Participants |-> pending'[q]]
<1>0. DOMAIN pending = Participants /\ pending = [q \in Participants |-> pending[q]]
  BY DEF TypeOK
<1>1. CASE pending' = [pending EXCEPT ![p] = Append(@, entities)]
  BY <1>0, <1>1, AppendProperties
<1>2. CASE /\ pending[p] # <<>>
           /\ pending' = [pending EXCEPT ![p][Len(pending[p])] = entities]
  <2>1. pending'[p] = [pending[p] EXCEPT ![Len(pending[p])] = entities]
    BY <1>0, <1>2
  <2> QED
    BY <1>0, <1>2, <2>1, SeqReplaceLast
<1> QED
  BY <1>1, <1>2 DEF Publish

\* What a step of the processes has to show; nothing else of the invariant can change.
LEMMA WorldFrame ==
  ASSUME CollectInv,
         UNCHANGED <<clock, discoveryVars, ok, pc, nameVars, picture, argVars, resolverVars,
                     listed, asked, frameVars>>,
         proc' \in [Participants -> {"out", "in", "left"}],
         life' \in [Endpoints -> {"unborn", "exists", "announced", "retired", "gone"}],
         pending' \in [Participants -> Seq(SUBSET Endpoints)],
         graph' \in SUBSET Endpoints,
         delivered' = delivered,
         \A e \in Endpoints : life[e] \in {"announced", "retired", "gone"}
                               => life'[e] \in {"announced", "retired", "gone"},
         \A e \in Endpoints : life'[e] = "announced" => life[e] \in {"exists", "announced"},
         \A e \in Endpoints :
           life'[e] \in {"exists", "announced", "retired"} => proc'[ParticipantOf[e]] = "in",
         \A p \in Participants : pending'[p] \in Seq(SUBSET Said(life', p)),
         \A p \in Participants \cap delivered :
           proc'[p] # "out" /\ (proc'[p] = "in" => p \in participants_)
  PROVE  CollectInv'
<1> USE DEF discoveryVars, nameVars, argVars, resolverVars, frameVars
<1>1. TypeOK'
  <2>1. /\ table_' \in UNION {[D -> SUBSET Endpoints] : D \in SUBSET Participants}
        /\ ok' \in BOOLEAN /\ refreshed_' \in BOOLEAN
    BY Zenon DEF CollectInv, TypeOK
  <2> QED
    BY <2>1 DEF CollectInv, TypeOK, DiscoveryTypeOK
<1>2. HeardInv' /\ JudgedInv'
  BY LivesGoOn DEF HeardInv
<1>3. DeliveredInv'
  BY DEF CollectInv, DeliveredInv
<1>4. EventsInv'
  BY DEF CollectInv, EventsInv, SkipIsSafe
<1> QED
  BY <1>1, <1>2, <1>3, <1>4 DEF CollectInv

LEMMA JoinLeaveStep ==
  ASSUME CollectInv, NEW p \in Participants, Join(p) \/ Leave(p),
         UNCHANGED <<clock, discoveryVars, ok, pc, nameVars, picture, argVars, resolverVars,
                     listed, asked, frameVars>>
  PROVE  CollectInv'
<1>t. /\ proc \in [Participants -> {"out", "in", "left"}]
      /\ life \in [Endpoints -> {"unborn", "exists", "announced", "retired", "gone"}]
      /\ pending \in [Participants -> Seq(SUBSET Endpoints)]
      /\ graph \in SUBSET Endpoints
      /\ ParticipantOf \in [Endpoints -> Participants]
      /\ \A q \in Participants : pending[q] \in Seq(SUBSET Said(life, q))
      /\ \A e \in Endpoints :
           life[e] \in {"exists", "announced", "retired"} => proc[ParticipantOf[e]] = "in"
      /\ \A q \in Participants \cap delivered :
           proc[q] # "out" /\ (proc[q] = "in" => q \in participants_)
  BY CollectAssumption DEF CollectInv, TypeOK, HeardInv, DeliveredInv
<1>1. CASE Join(p)
  <2>0. /\ proc[p] = "out" /\ proc' = [proc EXCEPT ![p] = "in"]
        /\ UNCHANGED <<life, pending, graph, delivered>>
    BY <1>1 DEF Join
  <2>1. p \notin delivered
    BY <1>t, <2>0
  <2> QED
    BY <1>t, <2>0, <2>1, WorldFrame
<1>2. CASE Leave(p)
  <2>1. PICK n \in 0..Len(pending[p]) : pending' = [pending EXCEPT ![p] = SubSeq(@, 1, n)]
    BY <1>2 DEF Leave
  <2>2. /\ proc[p] = "in" /\ proc' = [proc EXCEPT ![p] = "left"]
        /\ life' = [e \in Endpoints |-> IF e \in EndpointsOf(p) THEN "gone" ELSE life[e]]
        /\ UNCHANGED <<graph, delivered>>
    BY <1>2 DEF Leave
  <2>3. \A S : pending[p] \in Seq(S) => SubSeq(pending[p], 1, n) \in Seq(S)
    <3> SUFFICES ASSUME NEW S, pending[p] \in Seq(S) PROVE SubSeq(pending[p], 1, n) \in Seq(S)
      OBVIOUS
    <3>1. n \in Int /\ \A i \in 1..n : pending[p][i] \in S
      BY ElementOfSeq, LenProperties
    <3> QED
      BY <3>1, SubSeqProperties
  <2>4. \A q : Said(life, q) \subseteq Said(life', q)
    BY <2>2 DEF Said, EndpointsOf
  <2>5. \A q \in Participants : pending'[q] \in Seq(SUBSET Said(life, q))
    BY <1>t, <2>1, <2>3
  <2>6. \A q \in Participants : pending'[q] \in Seq(SUBSET Said(life', q))
    BY <2>4, <2>5, SeqGrows
  <2>7. pending' \in [Participants -> Seq(SUBSET Endpoints)]
    BY <1>t, <2>1, <2>3
  <2>8. \A e \in Endpoints :
          /\ life'[e] \in {"exists", "announced", "retired"} => proc'[ParticipantOf[e]] = "in"
          /\ life'[e] = "announced" => life[e] \in {"exists", "announced"}
          /\ life[e] \in {"announced", "retired", "gone"}
               => life'[e] \in {"announced", "retired", "gone"}
    BY <1>t, <2>2 DEF EndpointsOf
  <2>9. /\ proc' \in [Participants -> {"out", "in", "left"}]
        /\ life' \in [Endpoints -> {"unborn", "exists", "announced", "retired", "gone"}]
        /\ \A q \in Participants \cap delivered :
             proc'[q] # "out" /\ (proc'[q] = "in" => q \in participants_)
    BY <1>t, <2>2
  <2> QED
    BY <1>t, <2>2, <2>6, <2>7, <2>8, <2>9, WorldFrame
<1> QED
  BY <1>1, <1>2

\* One endpoint moves on; its participant may publish what it announces from now on.
LEMMA EndpointStep ==
  ASSUME CollectInv, NEW e \in Endpoints,
         Create(e) \/ Announce(e) \/ Retire(e) \/ Destroy(e) \/ GraphChanges(e),
         UNCHANGED <<clock, discoveryVars, ok, pc, nameVars, picture, argVars, resolverVars,
                     listed, asked, frameVars>>
  PROVE  CollectInv'
<1> DEFINE p == ParticipantOf[e]
<1>t. /\ proc \in [Participants -> {"out", "in", "left"}]
      /\ life \in [Endpoints -> {"unborn", "exists", "announced", "retired", "gone"}]
      /\ pending \in [Participants -> Seq(SUBSET Endpoints)]
      /\ graph \in SUBSET Endpoints
      /\ ParticipantOf \in [Endpoints -> Participants]
      /\ \A q \in Participants : pending[q] \in Seq(SUBSET Said(life, q))
      /\ \A x \in Endpoints :
           life[x] \in {"exists", "announced", "retired"} => proc[ParticipantOf[x]] = "in"
      /\ \A q \in Participants \cap delivered :
           proc[q] # "out" /\ (proc[q] = "in" => q \in participants_)
  BY CollectAssumption DEF CollectInv, TypeOK, HeardInv, DeliveredInv
<1>1. /\ proc' = proc /\ delivered' = delivered /\ graph' \in SUBSET Endpoints
      /\ life' \in [Endpoints -> {"unborn", "exists", "announced", "retired", "gone"}]
      /\ \A x \in Endpoints :
           /\ life'[x] \in {"exists", "announced", "retired"} => proc[ParticipantOf[x]] = "in"
           /\ life'[x] = "announced" => life[x] \in {"exists", "announced"}
           /\ life[x] \in {"announced", "retired", "gone"}
                => life'[x] \in {"announced", "retired", "gone"}
  BY <1>t DEF Create, Announce, Retire, Destroy, GraphChanges
<1>2. \A q : Said(life, q) \subseteq Said(life', q)
  BY <1>1 DEF Said, EndpointsOf
<1>3. \A q \in Participants : pending[q] \in Seq(SUBSET Said(life', q))
  BY <1>t, <1>2, SeqGrows
<1>4. CASE UNCHANGED pending
  BY <1>t, <1>1, <1>3, <1>4, WorldFrame
<1>5. ASSUME NEW entities \in SUBSET Said(life', p), Publish(p, entities)
      PROVE  CollectInv'
  <2>1. p \in Participants /\ Said(life', p) \subseteq Endpoints
    BY <1>t DEF Said, EndpointsOf
  <2>2. /\ \A q \in Participants \ {p} : pending'[q] = pending[q]
        /\ pending'[p] \in Seq(SUBSET Said(life', p))
        /\ pending' = [q \in Participants |-> pending'[q]]
    BY <1>t, <1>3, <1>5, <2>1, PublishQueues DEF CollectInv
  <2>3. \A q \in Participants : pending'[q] \in Seq(SUBSET Said(life', q))
    BY <1>3, <2>2
  <2>4. pending'[p] \in Seq(SUBSET Endpoints)
    BY <2>1, <2>2, SeqGrows
  <2>5. pending' \in [Participants -> Seq(SUBSET Endpoints)]
    BY <1>t, <2>2, <2>4
  <2> QED
    BY <1>t, <1>1, <2>3, <2>5, WorldFrame
<1>6. CASE Announce(e)
  <2>1. Announced(p) \cup {e} \in SUBSET Said(life', p)
    BY <1>t, <1>6 DEF Announce, Announced, Said, EndpointsOf
  <2> QED
    BY <1>5, <1>6, <2>1 DEF Announce
<1>7. CASE Retire(e)
  <2>1. Announced(p) \ {e} \in SUBSET Said(life', p)
    BY <1>t, <1>7 DEF Retire, Announced, Said, EndpointsOf
  <2> QED
    BY <1>5, <1>7, <2>1 DEF Retire
<1> QED
  BY <1>4, <1>6, <1>7 DEF Create, Destroy, GraphChanges

------------------------------------------------------------------------------
\* The discovery callbacks.

LEMMA DiscoveryStep == ASSUME CollectInv, Discovery PROVE CollectInv'
<1> USE DEF nameVars, argVars, resolverVars, frameVars
<1>0. /\ UNCHANGED <<proc, life, pending, graph, ok, pc, nameVars, picture, argVars,
                     resolverVars, listed, asked, frameVars>>
      /\ \/ \E e \in Endpoints : DeliverEndpoint(e) \/ DeliverRemoval(e)
         \/ \E p \in Participants : DeliverParticipant(p)
  BY DEF Discovery
<1>1. touch
  BY <1>0 DEF DeliverEndpoint, DeliverRemoval, DeliverParticipant, endpoint_discovered,
     endpoint_removed, participant_discovered, participant_removed, upsert, erase
<1>2. /\ participants_' \in SUBSET Participants
      /\ endpoints_' \in [Endpoints -> Contents \cup {NoEntry}]
      /\ delivered \subseteq delivered' /\ delivered' \subseteq Endpoints \cup Participants
  BY <1>0 DEF CollectInv, TypeOK, DiscoveryTypeOK, DeliverEndpoint, DeliverRemoval,
     DeliverParticipant, endpoint_discovered, endpoint_removed, participant_discovered,
     participant_removed, upsert, erase
<1>3. \A p \in Participants \cap delivered' :
        proc[p] # "out" /\ (proc[p] = "in" => p \in participants_')
  <2>0. \A p \in Participants \cap delivered :
          proc[p] # "out" /\ (proc[p] = "in" => p \in participants_)
    BY DEF CollectInv, DeliveredInv
  <2>1. ASSUME NEW e \in Endpoints, DeliverEndpoint(e) \/ DeliverRemoval(e)
        PROVE  participants_' = participants_ /\ delivered' \subseteq delivered \cup {e}
    BY <2>1 DEF DeliverEndpoint, DeliverRemoval, endpoint_discovered, endpoint_removed
  <2>2. ASSUME NEW p \in Participants, DeliverParticipant(p)
        PROVE  \A q \in Participants \cap delivered' :
                 proc[q] # "out" /\ (proc[q] = "in" => q \in participants_')
    BY <2>0, <2>2 DEF DeliverParticipant, participant_discovered, participant_removed
  <2>3. ASSUME NEW e \in Endpoints, participants_' = participants_,
               delivered' \subseteq delivered \cup {e}
        PROVE  Participants \cap delivered' \subseteq delivered
    BY <2>3, CollectAssumption
  <2> QED
    BY <1>0, <2>0, <2>1, <2>2, <2>3
<1>4. TypeOK'
  <2>1. /\ table_' \in UNION {[D -> SUBSET Endpoints] : D \in SUBSET Participants}
        /\ ok' \in BOOLEAN /\ refreshed_' \in BOOLEAN
    BY <1>0, Zenon DEF CollectInv, TypeOK
  <2> QED
    BY <1>0, <1>1, <1>2, <2>1 DEF CollectInv, TypeOK, DiscoveryTypeOK, touch
<1>5. HeardInv'
  BY <1>0 DEF CollectInv, HeardInv
<1>6. DeliveredInv'
  BY <1>0, <1>2, <1>3 DEF CollectInv, DeliveredInv
<1>7. JudgedInv'
  BY <1>0 DEF CollectInv, JudgedInv, lookup, Discovered
<1>8. EventsInv'
  BY <1>0, <1>1 DEF CollectInv, EventsInv, SkipIsSafe, touch, TypeOK, DiscoveryTypeOK
<1> QED
  BY <1>4, <1>5, <1>6, <1>7, <1>8 DEF CollectInv

------------------------------------------------------------------------------
\* collect().

\* A sample is taken: its row is all announced, and its participant discovered.
LEMMA PollTakeStep ==
  ASSUME CollectInv, NEW p \in Participants, PollTake(p), UNCHANGED <<clock, discoveryVars, ok>>
  PROVE  CollectInv'
<1> USE DEF PollTake, discoveryVars, argVars, resolverVars, frameVars
<1>1. /\ Head(pending[p]) \in SUBSET Said(life, p)
      /\ Tail(pending[p]) \in Seq(SUBSET Said(life, p))
  BY HeadTailProperties DEF CollectInv, HeardInv
<1>2. /\ Head(pending[p]) \in SUBSET Endpoints
      /\ Tail(pending[p]) \in Seq(SUBSET Endpoints)
  BY HeadTailProperties DEF CollectInv, TypeOK
<1>3. /\ DOMAIN table_ \subseteq Participants
      /\ \A q \in DOMAIN table_ : table_[q] \in SUBSET Endpoints
  BY TableRows DEF CollectInv, TypeOK
<1>4. /\ DOMAIN table_' = DOMAIN table_ \cup {p}
      /\ table_' = [q \in DOMAIN table_' |-> table_'[q]]
      /\ table_'[p] = Head(pending[p])
      /\ \A q \in DOMAIN table_ \ {p} : table_'[q] = table_[q]
  BY DEF update
<1>5. TypeOK'
  <2>1. DOMAIN table_' \subseteq Participants /\ table_' \in [DOMAIN table_' -> SUBSET Endpoints]
    BY <1>2, <1>3, <1>4
  <2>2. table_' \in UNION {[D -> SUBSET Endpoints] : D \in SUBSET Participants}
    BY <2>1, TableRows
  <2>3. pending' \in [Participants -> Seq(SUBSET Endpoints)]
    BY <1>2 DEF CollectInv, TypeOK
  <2>4. ok' \in BOOLEAN /\ refreshed_' \in BOOLEAN
    BY Zenon DEF CollectInv, TypeOK
  <2> QED
    BY <2>2, <2>3, <2>4 DEF CollectInv, TypeOK, DiscoveryTypeOK
<1>6. HeardInv'
  <2>1. \A q \in Participants : pending'[q] \in Seq(SUBSET Said(life, q))
    BY <1>1 DEF CollectInv, HeardInv, TypeOK
  <2>2. \A q \in DOMAIN table_' : table_'[q] \subseteq Said(life, q)
    BY <1>1, <1>4 DEF CollectInv, HeardInv
  <2> QED
    BY <2>1, <2>2 DEF CollectInv, HeardInv
<1>7. DeliveredInv'
  BY <1>4 DEF CollectInv, DeliveredInv
<1>8. JudgedInv' /\ EventsInv'
  BY DEF CollectInv, JudgedInv, EventsInv, SkipIsSafe, TypeOK, DiscoveryTypeOK
<1> QED
  BY <1>5, <1>6, <1>7, <1>8 DEF CollectInv

\* A step of collect() that takes no sample: the processes and the table stay as they are.
LEMMA MainFrame ==
  ASSUME CollectInv, UNCHANGED <<clock, discoveryVars, ok, worldVars, nameVars>>
  PROVE  HeardInv' /\ DeliveredInv'
BY DEF CollectInv, HeardInv, DeliveredInv, discoveryVars, worldVars, nameVars

\* The verdict: the announced endpoints of a row belong to a process that is there, so that its
\* participant is among those compared.
LEMMA JudgeStep ==
  ASSUME CollectInv, JudgeCompleteness, UNCHANGED <<clock, discoveryVars, ok>>
  PROVE  CollectInv'
<1> USE DEF JudgeCompleteness, discoveryVars, worldVars, nameVars, argVars, resolverVars
<1>1. TypeOK'
  <2>1. /\ table_' \in UNION {[D -> SUBSET Endpoints] : D \in SUBSET Participants}
        /\ ok' \in BOOLEAN /\ refreshed_' \in BOOLEAN
    BY Zenon DEF CollectInv, TypeOK
  <2>2. \A q \in DOMAIN table_ : table_[q] \in SUBSET Endpoints
    BY TableRows DEF CollectInv, TypeOK
  <2>3. missing' \in SUBSET Endpoints /\ complete' \in {"unset", "true", "false"}
    BY <2>2
  <2> QED
    BY <2>1, <2>3 DEF CollectInv, TypeOK, DiscoveryTypeOK
<1>2. JudgedInv'
  <2> SUFFICES ASSUME complete' = "true", ~SeparateReader,
                      NEW e \in Endpoints, life[e] = "announced",
                      NEW p \in DOMAIN table_, e \in table_[p]
               PROVE  e \in Discovered(picture)
    BY DEF JudgedInv, lookup, Discovered
  <2>1. p = ParticipantOf[e] /\ p \in Participants /\ proc[p] = "in" /\ p \in delivered
    BY CollectAssumption DEF CollectInv, HeardInv, DeliveredInv, Said, EndpointsOf
  <2>2. p \in participants_
    BY <2>1 DEF CollectInv, DeliveredInv
  <2>3. \A x \in table_[p] : x \in UNION {table_[q] : q \in DOMAIN table_ \cap participants_}
    BY <2>2, Zenon
  <2>4. (UNION {table_[q] : q \in DOMAIN table_ \cap participants_}) \ Discovered(picture) = {}
    BY <2>2 DEF live_participants
  <2> QED
    BY <2>3, <2>4
<1>3. EventsInv'
  BY DEF CollectInv, EventsInv, SkipIsSafe
<1> QED
  BY <1>1, <1>2, <1>3, MainFrame DEF CollectInv

\* Every other step of collect().
LEMMA OtherMainStep ==
  ASSUME CollectInv,
         \/ PollDone \/ TakeSnapshot \/ ReadEvents \/ ReadSince \/ RefreshIfChanged
         \/ ListTopics \/ QueryEndpoints \/ QueryThrows \/ NameEndpoints \/ NextFrame,
         UNCHANGED <<clock, discoveryVars, ok>>
  PROVE  CollectInv'
<1> USE DEF PollDone, TakeSnapshot, ReadEvents, ReadSince, RefreshIfChanged, ListTopics,
       QueryEndpoints, QueryThrows, NameEndpoints, NextFrame, RememberRefresh,
       discoveryVars, worldVars, nameVars, argVars, resolverVars, frameVars
<1>0. UNCHANGED <<clock, discoveryVars, ok, worldVars, nameVars>>
  OBVIOUS
<1>1. HeardInv' /\ DeliveredInv'
  BY <1>0, MainFrame
<1>2. /\ table_' \in UNION {[D -> SUBSET Endpoints] : D \in SUBSET Participants}
      /\ ok' \in BOOLEAN
  BY <1>0, Zenon DEF CollectInv, TypeOK
<1>3. refreshed_' \in BOOLEAN
  BY Zenon DEF CollectInv, TypeOK
<1>4. TypeOK'
  BY <1>2, <1>3 DEF CollectInv, TypeOK, DiscoveryTypeOK, snapshot, Discovered
<1>5. JudgedInv'
  BY DEF CollectInv, JudgedInv, lookup, Discovered
<1>6. EventsInv'
  BY DEF CollectInv, EventsInv, SkipIsSafe, TypeOK, DiscoveryTypeOK
<1> QED
  BY <1>1, <1>4, <1>5, <1>6 DEF CollectInv

LEMMA CollectStep == CollectInv /\ [Next]_vars => CollectInv'
<1> SUFFICES ASSUME CollectInv, [Next]_vars PROVE CollectInv'
  OBVIOUS
<1>1. CASE World
  BY <1>1, JoinLeaveStep, EndpointStep DEF World
<1>2. CASE Discovery
  BY <1>2, DiscoveryStep
<1>3. CASE Main
  BY <1>3, PollTakeStep, JudgeStep, OtherMainStep DEF Main
<1>4. CASE Interrupt \/ PassTime \/ UNCHANGED vars
  <2> USE <1>4 DEF Interrupt, PassTime, Tick, Others, vars, discoveryVars, worldVars, nameVars,
          argVars, resolverVars, frameVars
  <2>1. /\ table_' \in UNION {[D -> SUBSET Endpoints] : D \in SUBSET Participants}
        /\ ok' \in BOOLEAN /\ refreshed_' \in BOOLEAN
    BY Zenon DEF CollectInv, TypeOK
  <2>2. TypeOK'
    BY <2>1 DEF CollectInv, TypeOK, DiscoveryTypeOK
  <2>3. HeardInv' /\ DeliveredInv' /\ JudgedInv'
    BY DEF CollectInv, HeardInv, DeliveredInv, JudgedInv, lookup, Discovered
  <2>4. EventsInv'
    BY DEF CollectInv, EventsInv, SkipIsSafe
  <2> QED
    BY <2>2, <2>3, <2>4 DEF CollectInv
<1> QED
  BY <1>1, <1>2, <1>3, <1>4 DEF Next

LEMMA CollectInvariant == Spec => []CollectInv
BY CollectInit, CollectStep, PTL DEF Spec

------------------------------------------------------------------------------
\* The world, the observers and every variable of collect() keep their types.
THEOREM CollectTypes == Spec => []TypeOK
BY CollectInvariant, PTL DEF CollectInv

\* RosGraphResolver::refresh_if_changed(): the count remembered with a query is never ahead of
\* the events and samples there were when the query began, so that a skipped query loses nothing.
THEOREM SkippedQueryIsSafe == Spec => []SkipIsSafe
BY CollectInvariant, PTL DEF CollectInv, EventsInv

\* A frame that calls discovery complete misses no announced endpoint, where the reader of
\* ros_discovery_info is on the observed participant (every distribution but Humble, whose reader
\* has a participant of its own and can hear of a participant before discovery does).
THEOREM CompleteIsComplete ==
  ASSUME SeparateReader = FALSE
  PROVE  Spec => []CompleteMeansNothingMissed
<1>1. CollectInv => CompleteMeansNothingMissed
  BY DEF CollectInv, JudgedInv, CompleteMeansNothingMissed
<1> QED
  BY <1>1, CollectInvariant, PTL
==============================================================================
