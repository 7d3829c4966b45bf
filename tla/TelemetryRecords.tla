------------------------- MODULE TelemetryRecords -------------------------
(***************************************************************************)
(* The typed records of the MT5 telemetry store: file locators, the local  *)
(* state manifest and its validity rules, the set of files a recovery root *)
(* needs, and the storage budget.  (TradeOpsTelemetryStorage.mqh,          *)
(* TradeOpsTelemetryStorageCodec.mqh and the pure parts of                 *)
(* TradeOpsTelemetryState.mqh.)                                            *)
(*                                                                         *)
(* A SHA-256 digest of a file is represented by the file's locator: the    *)
(* store never writes two different frames under one locator, which is     *)
(* what NamesNeverReused of module TelemetryState checks.                  *)
(***************************************************************************)
EXTENDS Integers, FiniteSets, FiniteSetsExt

CONSTANTS
    Observations,   \* event candidates, records [event_id, deal_id, revision]
    Bodies,         \* distinguishable encodings of one request (body_sha)
    NoBody,         \* the "-" of an absent body_sha
    Cursors,        \* distinguishable capture checkpoints, a set of naturals
    MaxCounter,     \* TOV2_LOCAL_MAX_COUNTER
    BatchMax,       \* TOV2_LOCAL_BATCH
    EventsMax,      \* TOV2_LOCAL_EVENTS
    NormalFiles,    \* TOV2_STORAGE_NORMAL_FILES
    ReserveFiles,   \* TOV2_STORAGE_RESERVE_FILES
    DeleteBatch     \* TOV2_STORAGE_DELETE_BATCH

ASSUME CounterAssumption ==
    /\ MaxCounter \in Nat \ {0}
    /\ BatchMax \in Nat \ {0}
    /\ EventsMax \in Nat
    /\ NormalFiles \in Nat
    /\ ReserveFiles \in Nat
    /\ DeleteBatch \in Nat
    /\ DeleteBatch >= 2

Generation == 1 .. MaxCounter

Ordinal == 1 .. (BatchMax + 1)

Counter == 1 .. MaxCounter

(***************************************************************************)
(* Locators (Tov2Storage*Locator).                                         *)
(***************************************************************************)
RegistrationLocator == [kind |-> "REGISTRATION", generation |-> 1, ordinal |-> 0]

ObjectLocator(g, o) == [kind |-> "OBJECT", generation |-> g, ordinal |-> o]

StateLocator(g) == [kind |-> "STATE", generation |-> g, ordinal |-> 0]

CommitLocator(g) == [kind |-> "COMMIT", generation |-> g, ordinal |-> 0]

\* An absent reference (Tov2LocalEmptyRef).
NoLocator == [kind |-> "-", generation |-> 0, ordinal |-> 0]

ObjectLocators == {ObjectLocator(g, o) : g \in Generation, o \in Ordinal}

Locators == {RegistrationLocator} \cup ObjectLocators
              \cup {StateLocator(g) : g \in Generation}
              \cup {CommitLocator(g) : g \in Generation}

(***************************************************************************)
(* The state manifest (Tov2LocalState).  `events' maps the sequence number *)
(* of every unacknowledged event to its object and its observation, and    *)
(* every other number to NoEvent.                                          *)
(***************************************************************************)
NoEvent == [at |-> NoLocator,
            obs |-> [event_id |-> 0, deal_id |-> "-", revision |-> 0]]

ASSUME DomainAssumption ==
    /\ NoBody \notin Bodies
    /\ Cursors \subseteq Nat
    /\ 0 \in Cursors
    /\ NoEvent.obs \notin Observations

NoPending == [at |-> NoLocator, request |-> 0, body |-> NoBody, prior |-> 0,
              final |-> 0, count |-> 0, produced |-> 0]

\* `witness' is the PENDING file whose digest is ack_pending_sha.
NoAck == [at |-> NoLocator, request |-> 0, body |-> NoBody,
          witness |-> NoLocator, event |-> 0]

ClearState ==
    [generation |-> 0, parent_generation |-> 0, produced |-> 0,
     accepted_request |-> 0, accepted_event |-> 0,
     capture |-> [at |-> NoLocator, cursor |-> 0],
     events |-> [n \in Counter |-> NoEvent],
     pending |-> NoPending, ack |-> NoAck,
     completeness |-> "CATCHING_UP", last_error |-> "NONE"]

Completeness == {"CATCHING_UP", "RECONCILIATION_REQUIRED", "DATA_MISSING", "UP_TO_DATE"}

\* Tov2LocalError, the named causes told apart by LocalStateValid.
Errors == {"NONE", "RECONCILIATION_REQUIRED", "IO_ERROR"}

HasPending(s) == s.pending.at # NoLocator

HasAck(s) == s.ack.at # NoLocator

EventCount(s) == s.produced - s.accepted_event

\* The sequence numbers of the unacknowledged events.
Queue(s) == (s.accepted_event + 1) .. s.produced

EventLocators(s) == {s.events[n].at : n \in Queue(s)}

PendingLocators(s) == {s.pending.at} \ {NoLocator}

AckLocators(s) == {s.ack.at} \ {NoLocator}

\* The objects named by the manifest itself.
ObjectReferences(s) ==
    {s.capture.at} \cup EventLocators(s) \cup PendingLocators(s) \cup AckLocators(s)

WitnessLocators(s) == {s.ack.witness} \ {NoLocator}

\* No two events share an id, nor a deal and revision.
DistinctObservations(a, b) ==
    /\ a.event_id # b.event_id
    /\ a.deal_id # "-" => <<a.deal_id, a.revision>> # <<b.deal_id, b.revision>>

\* The cross-field rules of Tov2LocalStateValid; the ranges of single fields
\* are in LocalStates below.
LocalStateValid(s) ==
    /\ s.completeness = "UP_TO_DATE" =>
          s.last_error = "NONE" /\ EventCount(s) = 0 /\ ~HasPending(s)
    /\ s.completeness = "DATA_MISSING" => s.last_error # "NONE"
    /\ s.completeness = "RECONCILIATION_REQUIRED" =>
          s.last_error = "RECONCILIATION_REQUIRED"
    /\ IF s.generation = 1
       THEN s.parent_generation = 0 /\ s.produced = 0 /\ ~HasPending(s) /\ ~HasAck(s)
       ELSE s.parent_generation \in 1 .. (s.generation - 1)
    /\ s.accepted_event <= s.produced
    /\ EventCount(s) <= EventsMax
    /\ \A m, n \in Queue(s) :
          m # n => /\ DistinctObservations(s.events[m].obs, s.events[n].obs)
                   /\ s.events[m].at # s.events[n].at
    /\ HasPending(s) =>
          /\ s.accepted_request < MaxCounter
          /\ s.pending.request = s.accepted_request + 1
          /\ s.pending.prior = s.accepted_event
          /\ s.pending.count <= BatchMax
          /\ s.pending.final = s.accepted_event + s.pending.count
          /\ s.pending.final <= s.pending.produced
          /\ s.pending.produced <= s.produced
          /\ \A m, n \in (s.pending.prior + 1) .. s.pending.final :
                m # n /\ s.events[m].obs.deal_id # "-" =>
                    s.events[m].obs.deal_id # s.events[n].obs.deal_id
    /\ IF HasAck(s)
       THEN s.ack.request = s.accepted_request /\ s.ack.event = s.accepted_event
       ELSE s.accepted_request = 0 /\ s.accepted_event = 0
    /\ \A l \in ObjectReferences(s) : l.generation <= s.generation
    /\ s.capture.at \notin EventLocators(s) \cup PendingLocators(s) \cup AckLocators(s)
    /\ PendingLocators(s) \cap (EventLocators(s) \cup AckLocators(s)) = {}
    /\ AckLocators(s) \cap EventLocators(s) = {}

(***************************************************************************)
(* The files a recovery root needs (AddRootLocators).  The production wire *)
(* adapter requires the acknowledged request to be kept as a witness.      *)
(***************************************************************************)
RootLocators(s) ==
    {RegistrationLocator, StateLocator(s.generation), CommitLocator(s.generation)}
    \cup ObjectReferences(s) \cup WitnessLocators(s)

(***************************************************************************)
(* Storage budget (Tov2StorageBudget, Tov2StoragePreflight), by file count.*)
(***************************************************************************)
Transitions == {"INIT", "APPEND", "PREPARE", "ACK", "REPLACE", "CHECKPOINT", "DIAGNOSTIC"}

ReserveTransition(t) == t \in {"ACK", "CHECKPOINT", "DIAGNOSTIC"}

FileLimit(t) == IF ReserveTransition(t) THEN NormalFiles + ReserveFiles ELSE NormalFiles

\* Mutant: the commit file is not counted.
PreflightOffByOne(count, t, added) == added - 1 <= FileLimit(t) - count

Preflight(count, t, added) == added <= FileLimit(t) - count

(***************************************************************************)
(* The order in which a call touches a set of files: publication writes    *)
(* registration, objects by ordinal, manifest, commit; retirement deletes  *)
(* objects by generation and ordinal, an ACK's witness after them, then    *)
(* the manifest and the commit last.                                       *)
(***************************************************************************)
Rank(l, witness) ==
    CASE l.kind = "REGISTRATION" -> 0
      [] l.kind = "OBJECT" /\ l # witness -> 1
      [] l.kind = "OBJECT" /\ l = witness -> 2
      [] l.kind = "STATE" -> 3
      [] OTHER -> 4

Precedes(l, m, witness) ==
    \/ Rank(l, witness) < Rank(m, witness)
    \/ /\ Rank(l, witness) = Rank(m, witness)
       /\ \/ l.generation < m.generation
          \/ l.generation = m.generation /\ l.ordinal < m.ordinal

=============================================================================
