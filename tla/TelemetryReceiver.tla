------------------------- MODULE TelemetryReceiver -------------------------
(***************************************************************************)
(* The telemetry v2 receiver of the execution edge for one account: the    *)
(* Worker route (handleTelemetryV2), the account's Durable Object with its *)
(* serial queue (TelemetryQueueV2, syncTelemetryV2) and the D1 tables that *)
(* acceptTelemetryV2 reads and writes.                                     *)
(*                                                                         *)
(* A handler is one HTTP call.  It awaits the queue, the snapshot read,    *)
(* the write batch and the read-back, so each of these is a step and other *)
(* calls, a restart of the Durable Object and the clock run in between.    *)
(* The Durable Object runs at most once, but a batch it sent to D1 before  *)
(* it was lost may still be applied later.                                 *)
(*                                                                         *)
(* body_sha256 is represented by the request itself, and record_sha256 by  *)
(* the event_id of the record: equal digests mean equal contents.          *)
(***************************************************************************)
EXTENDS Integers, Sequences, FiniteSets, SequencesExt

CONSTANTS
    Handlers,     \* concurrent calls
    Identities,   \* records [agent, tracking]
    NoIdentity,
    Arrivals,     \* the requests clients may send
    NullRequest,
    NoRecord,     \* a null previous_record_sha256
    EventsPerRequest,  \* 32
    QueueMax,     \* 8
    Freshness,    \* 30 seconds
    MaxTime       \* bound of the clock

\* A deal or a protection change ("-"), by its number, with the record it
\* replaces; and the part of a request the receiver's decisions depend on.
Observations == [event_id : Nat, deal_id : STRING, revision : Nat, previous : Nat \cup {NoRecord}]

Requests ==
    [identity : Identities, request : Nat, prior : Nat,
     events : Seq([sequence : Nat, obs : Observations]),
     sent_at : Nat, produced : Nat,
     scan_finished : BOOLEAN, record_gap : BOOLEAN, complete : BOOLEAN]

ASSUME ReceiverAssumption ==
    /\ NoIdentity \notin Identities
    /\ Arrivals \subseteq Requests
    /\ NullRequest \notin Arrivals
    /\ EventsPerRequest \in Nat
    /\ QueueMax \in Nat \ {0}
    /\ Freshness \in Nat
    /\ MaxTime \in Nat

VARIABLES
    pin,        \* the agent pinned by protocol v1 (sync_state_v1)
    session,    \* telemetry_session_v2
    receipts,   \* telemetry_receipt_v2 by request sequence
    journal,    \* telemetry_event_v2 by event sequence
    current,    \* telemetry_deal_current_v2 by deal
    queue,      \* TelemetryQueueV2: the calls waiting or running, in order
    handler,    \* what each call has read so far
    replies,    \* accepted responses that left the receiver
    now

tables == <<session, receipts, journal, current>>

calls == <<queue, handler, replies>>

vars == <<pin, session, receipts, journal, current, queue, handler, replies, now>>

NoSession == [identity |-> NoIdentity, last_request |-> 0, last_event |-> 0,
              coverage |-> "NOT_STARTED", exposure |-> 0]

IdleHandler == [phase |-> "IDLE", request |-> NullRequest, now |-> 0, previous |-> 0]

Empty == [x \in {} |-> x]

Init ==
    /\ pin = NoIdentity
    /\ session = NoSession
    /\ receipts = Empty
    /\ journal = Empty
    /\ current = Empty
    /\ queue = <<>>
    /\ handler = [h \in Handlers |-> IdleHandler]
    /\ replies = {}
    /\ now = 0

(***************************************************************************)
(* Pure parts: parseTelemetryV2, decideAdmissionV2, deriveCoverageV2.      *)
(***************************************************************************)
\* The last event sequence of a request, its prior acknowledgement if empty.
FinalEvent(r) == IF r.events = <<>> THEN r.prior ELSE r.events[Len(r.events)].sequence

\* validateRequest: no event or deal twice, first revisions have no previous
\* record and later ones do, and the agent has produced what it sends.
WellFormed(r) ==
    /\ Len(r.events) <= EventsPerRequest
    /\ \A j, k \in DOMAIN r.events : j # k =>
          /\ r.events[j].obs.event_id # r.events[k].obs.event_id
          /\ r.events[j].obs.deal_id = "-" \/ r.events[j].obs.deal_id # r.events[k].obs.deal_id
    /\ \A e \in Range(r.events) :
          /\ e.obs.deal_id # "-" => (e.obs.revision = 1 <=> e.obs.previous = NoRecord)
          /\ e.sequence <= r.produced
    /\ r.prior <= r.produced

\* Mutant: only the order of the events is checked, not where they start.
ContiguousFromAny(r) ==
    \A k \in DOMAIN r.events : r.events[k].sequence = r.events[1].sequence + k - 1

Contiguous(r) ==
    /\ r.prior = session.last_event
    /\ \A k \in DOMAIN r.events : r.events[k].sequence = session.last_event + k

Fresh(r, t) == t - r.sent_at <= Freshness /\ r.sent_at - t <= Freshness

\* Mutant: freshness is judged before the receipt is looked up.
AdmissionFreshFirst(r, t) ==
    IF session # NoSession /\ session.identity # r.identity THEN "IDENTITY_MISMATCH"
    ELSE IF ~Fresh(r, t) THEN "STALE_ENVELOPE"
    ELSE IF r.request \in DOMAIN receipts
         THEN IF receipts[r.request].digest = r THEN "REPLAY" ELSE "REPLAY_CONFLICT"
    ELSE IF r.request # session.last_request + 1 THEN "SEQUENCE_INVALID"
    ELSE IF ~Contiguous(r) THEN "EVENT_SEQUENCE_INVALID"
    ELSE "NEW"

\* An exact retry is recognised before its freshness is judged.
Admission(r, t) ==
    IF session # NoSession /\ session.identity # r.identity THEN "IDENTITY_MISMATCH"
    ELSE IF r.request \in DOMAIN receipts
         THEN IF receipts[r.request].digest = r THEN "REPLAY" ELSE "REPLAY_CONFLICT"
    ELSE IF r.request <= session.last_request THEN "RECEIPT_MISSING"
    ELSE IF r.request # session.last_request + 1 THEN "SEQUENCE_INVALID"
    ELSE IF ~Fresh(r, t) THEN "STALE_ENVELOPE"
    ELSE IF ~Contiguous(r) THEN "EVENT_SEQUENCE_INVALID"
    ELSE "NEW"

\* Mutant: a finished scan alone is coverage.
CoverageByScan(r) ==
    IF r.record_gap THEN "DATA_MISSING"
    ELSE IF r.scan_finished THEN "UP_TO_DATE" ELSE "CATCHING_UP"

Coverage(r) ==
    IF r.record_gap THEN "DATA_MISSING"
    ELSE IF r.scan_finished /\ r.produced = FinalEvent(r) THEN "UP_TO_DATE" ELSE "CATCHING_UP"

(***************************************************************************)
(* The write batch of statementsV2, atomic in D1.                          *)
(***************************************************************************)
CurrentRevision(d) == IF d \in DOMAIN current THEN current[d].revision ELSE 0

CurrentRecord(d) == IF d \in DOMAIN current THEN current[d].record ELSE NoRecord

\* Primary keys, UNIQUE constraints and the telemetry_event_v2_revision
\* trigger, which reads the pointer before the batch moves it.
EventAdmissible(e) ==
    /\ e.sequence \notin DOMAIN journal
    /\ \A n \in DOMAIN journal : journal[n].event_id # e.obs.event_id
    /\ e.obs.deal_id # "-" =>
          /\ e.obs.revision = CurrentRevision(e.obs.deal_id) + 1
          /\ e.obs.previous = CurrentRecord(e.obs.deal_id)

\* The session row is inserted, or updated only from the request sequence
\* that the call had read; anything else fails a CHECK and the whole batch.
BatchApplies(r, previous) ==
    /\ IF session = NoSession
       THEN TRUE
       ELSE session.last_request = previous /\ session.identity = r.identity
    /\ r.request \notin DOMAIN receipts
    /\ \A e \in Range(r.events) : EventAdmissible(e)

Deals(r) == {e \in Range(r.events) : e.obs.deal_id # "-"}

\* The request whose exposure the session shows.
NextExposure(r) == IF r.complete THEN r.request ELSE session.exposure

ApplyBatch(r, t) ==
    /\ session' = [identity |-> r.identity, last_request |-> r.request,
                   last_event |-> FinalEvent(r), coverage |-> Coverage(r),
                   exposure |-> NextExposure(r)]
    /\ receipts' = (r.request :> [digest |-> r, ack |-> FinalEvent(r), accepted_at |-> t]) @@ receipts
    /\ journal' = [n \in {e.sequence : e \in Range(r.events)} |->
                      (CHOOSE e \in Range(r.events) : e.sequence = n).obs] @@ journal
    /\ current' = [d \in {e.obs.deal_id : e \in Deals(r)} |->
                      LET e == CHOOSE x \in Deals(r) : x.obs.deal_id = d
                      IN [sequence |-> e.sequence, revision |-> e.obs.revision,
                          record |-> e.obs.event_id]] @@ current

(***************************************************************************)
(* A call leaves the receiver.                                             *)
(***************************************************************************)

Leave(h) ==
    /\ handler' = [handler EXCEPT ![h] = IdleHandler]
    /\ queue' = SelectSeq(queue, LAMBDA g : g # h)

\* An error response; the client learns nothing it can rely on.
Refuse(h) == Leave(h) /\ UNCHANGED replies

Accept(h, r) ==
    /\ Leave(h)
    /\ replies' = replies \cup {[request |-> r, ack |-> receipts[r.request].ack,
                                 accepted_at |-> receipts[r.request].accepted_at]}

Running(h) == queue # <<>> /\ Head(queue) = h

(***************************************************************************)
(* Steps.                                                                  *)
(***************************************************************************)
\* The first accepted v1 heartbeat pins the agent; later ones must match it.
PinAgent(identity) ==
    /\ pin = NoIdentity
    /\ pin' = identity.agent
    /\ UNCHANGED <<session, receipts, journal, current, queue, handler, replies, now>>

\* The Worker parses the body and forwards it; a malformed one, or one that
\* meets a full queue (TELEMETRY_BUSY), is refused at once.
Receive(h, r) ==
    /\ handler[h] = IdleHandler
    /\ WellFormed(r)
    /\ Len(queue) < QueueMax
    /\ queue' = Append(queue, h)
    /\ handler' = [handler EXCEPT ![h] = [IdleHandler EXCEPT !.phase = "QUEUED", !.request = r]]
    /\ UNCHANGED <<pin, session, receipts, journal, current, replies, now>>

\* Mutant: a call of an agent that is not pinned waits in the queue.
StartWaits(h) ==
    /\ Running(h)
    /\ handler[h].phase = "QUEUED"
    /\ pin = handler[h].request.identity.agent
    /\ handler' = [handler EXCEPT ![h].phase = "LOAD", ![h].now = now]
    /\ UNCHANGED <<pin, session, receipts, journal, current, queue, replies, now>>

\* The call's turn: compare with the v1 pin and read the clock once.
Start(h) ==
    /\ Running(h)
    /\ handler[h].phase = "QUEUED"
    /\ IF pin = handler[h].request.identity.agent
       THEN /\ handler' = [handler EXCEPT ![h].phase = "LOAD", ![h].now = now]
            /\ UNCHANGED <<queue, replies>>
       ELSE Refuse(h)
    /\ UNCHANGED <<pin, session, receipts, journal, current, now>>

\* loadV2 and the decision.
Load(h) ==
    LET r == handler[h].request
        decision == Admission(r, handler[h].now)
    IN /\ Running(h)
       /\ handler[h].phase = "LOAD"
       /\ \/ decision = "REPLAY" /\ Accept(h, r)
          \/ /\ decision = "NEW"
             /\ handler' = [handler EXCEPT ![h].phase = "COMMIT",
                                           ![h].previous = session.last_request]
             /\ UNCHANGED <<queue, replies>>
          \/ decision \notin {"REPLAY", "NEW"} /\ Refuse(h)
       /\ UNCHANGED <<pin, session, receipts, journal, current, now>>

\* Any storage read may fail (TELEMETRY_STORAGE_UNAVAILABLE).
ReadFails(h) ==
    /\ Running(h)
    /\ handler[h].phase \in {"LOAD", "REREAD"}
    /\ Refuse(h)
    /\ UNCHANGED <<pin, session, receipts, journal, current, now>>

\* The batch runs, or fails without effect; whatever D1 reports, the call
\* reads back what is stored.
Commit(h) ==
    /\ Running(h)
    /\ handler[h].phase = "COMMIT"
    /\ \/ /\ BatchApplies(handler[h].request, handler[h].previous)
          /\ ApplyBatch(handler[h].request, handler[h].now)
       \/ UNCHANGED tables
    /\ handler' = [handler EXCEPT ![h].phase = "REREAD"]
    /\ UNCHANGED <<pin, queue, replies, now>>

\* Mutant: any stored receipt with this sequence is an ACK.
ReadBackBySequence(h) ==
    /\ Running(h)
    /\ handler[h].phase = "REREAD"
    /\ IF handler[h].request.request \in DOMAIN receipts
       THEN Accept(h, handler[h].request)
       ELSE Refuse(h)
    /\ UNCHANGED <<pin, session, receipts, journal, current, now>>

\* committedBytes: only the stored receipt of this very request is an ACK.
ReadBack(h) ==
    /\ Running(h)
    /\ handler[h].phase = "REREAD"
    /\ IF Admission(handler[h].request, handler[h].now) = "REPLAY"
       THEN Accept(h, handler[h].request)
       ELSE Refuse(h)
    /\ UNCHANGED <<pin, session, receipts, journal, current, now>>

\* The Durable Object is lost with its queue; a batch already sent to D1 is
\* not recalled.
Evict ==
    /\ queue # <<>>
    /\ queue' = <<>>
    /\ handler' = [h \in Handlers |->
                      IF handler[h].phase = "COMMIT" THEN [handler[h] EXCEPT !.phase = "IN_FLIGHT"]
                      ELSE IF handler[h].phase = "IN_FLIGHT" THEN handler[h]
                      ELSE IdleHandler]
    /\ UNCHANGED <<pin, session, receipts, journal, current, replies, now>>

\* A batch of a lost call reaches D1, or is dropped.
Land(h) ==
    /\ handler[h].phase = "IN_FLIGHT"
    /\ \/ /\ BatchApplies(handler[h].request, handler[h].previous)
          /\ ApplyBatch(handler[h].request, handler[h].now)
       \/ UNCHANGED tables
    /\ handler' = [handler EXCEPT ![h] = IdleHandler]
    /\ UNCHANGED <<pin, queue, replies, now>>

Tick ==
    /\ now < MaxTime
    /\ now' = now + 1
    /\ UNCHANGED <<pin, session, receipts, journal, current, queue, handler, replies>>

Turn == \E h \in Handlers : Start(h) \/ Load(h) \/ ReadFails(h) \/ Commit(h) \/ ReadBack(h)

Next ==
    \/ \E identity \in Identities : PinAgent(identity)
    \/ \E h \in Handlers, r \in Arrivals : Receive(h, r)
    \/ Turn
    \/ Evict
    \/ \E h \in Handlers : Land(h)
    \/ Tick

\* Every await of the handler settles: D1 answers or fails, and the queue's
\* tail is a promise that always resolves.
Fairness == WF_vars(Turn) /\ \A h \in Handlers : WF_vars(Land(h))

Spec == Init /\ [][Next]_vars /\ Fairness

(***************************************************************************)
(* Properties.                                                             *)
(***************************************************************************)

\* The journal is exactly what the receipts acknowledge, in order and without
\* a gap: request n stored the events between the acknowledgements of n - 1
\* and n, however retries, conflicting requests and late batches interleave
\* (statementsV2).
JournalMatchesReceipts ==
    LET ack(n) == IF n = 0 THEN 0 ELSE receipts[n].ack
    IN /\ DOMAIN receipts = 1 .. session.last_request
       /\ ack(session.last_request) = session.last_event
       /\ DOMAIN journal = 1 .. session.last_event
       /\ \A n \in DOMAIN receipts :
             LET r == receipts[n].digest
             IN /\ r.request = n
                /\ r.identity = session.identity
                /\ r.prior = ack(n - 1)
                /\ receipts[n].ack = ack(n - 1) + Len(r.events)
                /\ \A k \in DOMAIN r.events : journal[ack(n - 1) + k] = r.events[k].obs

\* No acknowledgement leaves before its receipt is stored, and every
\* acknowledgement of one request is the same (committedBytes).
RepliesAreReceipts ==
    \A p \in replies :
        /\ p.request.request \in DOMAIN receipts
        /\ receipts[p.request.request] =
               [digest |-> p.request, ack |-> p.ack, accepted_at |-> p.accepted_at]

\* Every call leaves the receiver: a failed or conflicting call does not block
\* the calls queued behind it (TelemetryQueueV2).
CallsEnd == \A h \in Handlers : handler[h].phase # "IDLE" ~> handler[h].phase = "IDLE"

=============================================================================
