------------------------- MODULE TelemetryDelivery -------------------------
(***************************************************************************)
(* End to end: the agent's durable outbox (Outbox, which TelemetryState    *)
(* implements), a network that loses, delays and reorders in both          *)
(* directions, and TelemetryReceiver.  The agent freezes one request,      *)
(* sends its stored bytes as often as it takes until a response validates  *)
(* against them (CTov2TelemetryOutboxV2::ValidateResponse), and only then  *)
(* goes on.                                                                *)
(*                                                                         *)
(* The body of a frozen request is the whole wire request, so the outbox's *)
(* body digest and the receiver's request digest are the same thing.       *)
(***************************************************************************)
EXTENDS TelemetryReceiver

CONSTANTS
    Self,        \* the agent's identity
    Captured,    \* what capture observes, in order
    BatchMax,    \* TOV2_LOCAL_BATCH
    EventsMax,   \* TOV2_LOCAL_EVENTS
    MaxRequests  \* bound of the request counter

ASSUME DeliveryAssumption ==
    /\ Self \in Identities
    /\ Captured \in Seq(Observations)
    /\ BatchMax \in 1 .. EventsPerRequest
    /\ EventsMax \in Nat
    /\ MaxRequests \in Nat

VARIABLES
    enrolled, produced, unacknowledged, accepted_request, accepted_event, pending, sent,
    wire         \* copies of requests in the network

agent == <<enrolled, produced, unacknowledged, accepted_request, accepted_event, pending, sent>>

all == <<vars, agent, wire>>

Agent == INSTANCE Outbox WITH
            Observations <- Range(Captured),
            Bodies <- {},
            NoBody <- NullRequest,
            MaxCounter <- Len(Captured),
            Replaceable <- FALSE,
            queue <- unacknowledged

\* CTov2TelemetryOutboxV2::Assemble: the first `count' unacknowledged events.
Envelope(count) ==
    [identity |-> Self,
     request |-> accepted_request + 1,
     prior |-> accepted_event,
     events |-> [k \in 1 .. count |-> [sequence |-> accepted_event + k,
                                       obs |-> unacknowledged[accepted_event + k]]],
     sent_at |-> now,
     produced |-> produced,
     scan_finished |-> produced = Len(Captured),
     record_gap |-> FALSE,
     complete |-> TRUE]

Enroll == Agent!Enroll /\ UNCHANGED <<vars, wire>>

\* Capture hands over the next n observations.
Capture(n) ==
    /\ produced + n <= Len(Captured)
    /\ Agent!Append(n)
    /\ \A m \in (produced + 1) .. (produced + n) : unacknowledged'[m] = Captured[m]
    /\ UNCHANGED <<vars, wire>>

Freeze(count) ==
    /\ accepted_request < MaxRequests
    /\ count <= produced - accepted_event
    /\ Agent!Prepare(Envelope(count), count)
    /\ UNCHANGED <<vars, wire>>

\* First transmission and every retry: the stored bytes.
Upload ==
    /\ Agent!Send
    /\ wire' = wire \cup {pending.body}
    /\ UNCHANGED vars

\* Mutant: any response settles the pending request.
SettleAny ==
    /\ replies # {}
    /\ Agent!Acknowledge
    /\ UNCHANGED <<vars, wire>>

\* AcceptResponse: sequence, digest and final event must be the pending ones.
Settle ==
    /\ \E p \in replies : p.request = pending.body /\ p.ack = pending.final
    /\ Agent!Acknowledge
    /\ UNCHANGED <<vars, wire>>

Deliver(h, r) ==
    /\ r \in wire
    /\ Receive(h, r)
    /\ wire' = wire \ {r}
    /\ UNCHANGED agent

Lose(r) ==
    /\ wire' = wire \ {r}
    /\ UNCHANGED <<vars, agent>>

ReceiverStep ==
    /\ \/ PinAgent(Self)
       \/ Turn
       \/ Evict
       \/ \E h \in Handlers : Land(h)
       \/ Tick
    /\ UNCHANGED <<agent, wire>>

DeliveryInit == Init /\ Agent!Init /\ wire = {}

DeliveryNext ==
    \/ Enroll
    \/ \E n \in 1 .. BatchMax : Capture(n)
    \/ \E count \in 0 .. BatchMax : Freeze(count)
    \/ Upload
    \/ Settle
    \/ \E h \in Handlers, r \in wire : Deliver(h, r)
    \/ \E r \in wire : Lose(r)
    \/ ReceiverStep

\* The agent keeps retrying, and neither the network nor the platform fails
\* for ever: a copy sent again and again is delivered, a call started again
\* and again reads and commits.
DeliveryFairness ==
    /\ WF_all(Enroll) /\ WF_all(ReceiverStep /\ PinAgent(Self))
    /\ \A n \in 1 .. BatchMax : WF_all(Capture(n))
    /\ WF_all(\E count \in 0 .. BatchMax : Freeze(count))
    /\ WF_all(Upload) /\ WF_all(Settle)
    /\ WF_all(ReceiverStep /\ Turn)
    /\ WF_all(ReceiverStep /\ \E h \in Handlers : Land(h))
    /\ SF_all(pending.body \in wire /\ \E h \in Handlers : Deliver(h, pending.body))
    /\ SF_all(ReceiverStep /\ \E h \in Handlers : Start(h))
    /\ SF_all(ReceiverStep /\ \E h \in Handlers : Load(h))
    /\ SF_all(ReceiverStep /\ (\E h \in Handlers : Commit(h)) /\ receipts' # receipts)
    /\ SF_all(ReceiverStep /\ \E h \in Handlers : ReadBack(h))

DeliverySpec == DeliveryInit /\ [][DeliveryNext]_all /\ DeliveryFairness

(***************************************************************************)
(* Properties.                                                             *)
(***************************************************************************)
\* What the receiver stores is what capture observed, each observation once
\* and in its order; the agent never believes more than is stored, and keeps
\* every observation until it is stored (acceptTelemetryV2 with
\* CTov2TelemetryState::AcceptResponse).
ExactlyOnceInOrder ==
    /\ \A n \in DOMAIN journal : journal[n] = Captured[n]
    /\ accepted_event <= session.last_event
    /\ session.last_event <= produced
    /\ \A n \in 1 .. produced : n \in DOMAIN unacknowledged \/ n \in DOMAIN journal

\* Coverage is honest: when the receiver shows UP_TO_DATE, everything capture
\* had observed when that request was frozen is stored (deriveCoverageV2).
CoverageHonest ==
    session.coverage = "UP_TO_DATE" => DOMAIN journal = 1 .. Len(Captured)

\* A stale request that was never accepted is never renewed either
\* (ValidateReplacement is false): it stays pending.
Abandoned ==
    /\ pending # Agent!NoRequest
    /\ ~Fresh(pending.body, now)
    /\ pending.request \notin DOMAIN receipts

\* A frozen request is settled unless it became stale before the receiver
\* accepted it, whatever was lost in between (PreparePending returns the stored
\* bytes, decideAdmissionV2 recognises them).
PendingSettles ==
    pending # Agent!NoRequest ~> (pending = Agent!NoRequest \/ Abandoned)

=============================================================================
