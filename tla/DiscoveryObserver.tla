-------------------------- MODULE DiscoveryObserver --------------------------
(***************************************************************************)
(* DiscoveryObserver (discovery_observer.cpp): what the discovery          *)
(* callbacks of Fast DDS, which run on its own threads, record for the     *)
(* main thread.  One mutex protects all of it, so each callback and each   *)
(* accessor is one atomic step; a main thread that calls two accessors in  *)
(* a row may see a callback between them.                                  *)
(*                                                                         *)
(* The module has the state and the handlers.  Which callback Fast DDS may *)
(* deliver when is said by the modules that extend this one.               *)
(***************************************************************************)
EXTENDS Integers

CONSTANTS
  Endpoints,     \* remote DataWriters and DataReaders, by GUID
  Participants,  \* remote DomainParticipants, by GUID prefix
  Contents,      \* what an endpoint's discovery data can say (make_endpoint)
  NoEntry,       \* "no entry for this GUID"
  MaxEvents,     \* bound: discovery callbacks delivered in one run
  MaxClock       \* bound: the largest clock reading of one run

ASSUME DiscoveryAssumption ==
  /\ NoEntry \notin Contents
  /\ MaxEvents \in Nat
  /\ MaxClock \in Nat

VARIABLES
  clock,         \* std::chrono::steady_clock, 0 when the tool starts
  endpoints_,    \* the map GUID -> Endpoint
  participants_, \* the keys of the map GUID prefix -> ParticipantData
  last_event_,   \* clock reading of the last callback
  event_count_   \* callbacks so far

discoveryVars == <<endpoints_, participants_, last_event_, event_count_>>

DiscoveryTypeOK ==
  /\ clock \in Nat
  /\ endpoints_ \in [Endpoints -> Contents \cup {NoEntry}]
  /\ participants_ \in SUBSET Participants
  /\ last_event_ \in Nat
  /\ event_count_ \in Nat

\* The constructor stamps last_event_ before the participant can call back.
DiscoveryInit ==
  /\ clock = 0
  /\ endpoints_ = [e \in Endpoints |-> NoEntry]
  /\ participants_ = {}
  /\ last_event_ = 0
  /\ event_count_ = 0

Tick ==
  /\ clock < MaxClock
  /\ clock' = clock + 1
  /\ UNCHANGED discoveryVars

------------------------------------------------------------------------------

touch ==
  /\ event_count_ < MaxEvents
  /\ last_event_' = clock
  /\ event_count_' = event_count_ + 1
  /\ UNCHANGED clock

upsert(e, content) ==
  /\ endpoints_' = [endpoints_ EXCEPT ![e] = content]
  /\ touch

erase(e) ==
  /\ endpoints_' = [endpoints_ EXCEPT ![e] = NoEntry]
  /\ touch

\* on_data_writer_discovery and on_data_reader_discovery (and their Fast DDS 2
\* forms): DISCOVERED and CHANGED_QOS upsert, REMOVED erases, every other
\* status changes nothing and is no event either.
endpoint_discovered(e, content) ==
  /\ upsert(e, content)
  /\ UNCHANGED participants_

endpoint_removed(e) ==
  /\ erase(e)
  /\ UNCHANGED participants_

\* on_participant_discovery touches whatever the status.
participant_discovered(p) ==
  /\ participants_' = participants_ \cup {p}
  /\ touch
  /\ UNCHANGED endpoints_

participant_removed(p) ==
  /\ participants_' = participants_ \ {p}
  /\ touch
  /\ UNCHANGED endpoints_

participant_other_status ==
  /\ touch
  /\ UNCHANGED <<endpoints_, participants_>>

\* The accessors snapshot() and live_participants().
snapshot == endpoints_
live_participants == participants_
Discovered(picture) == {e \in Endpoints : picture[e] # NoEntry}
==============================================================================
