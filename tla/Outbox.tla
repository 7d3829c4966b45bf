------------------------------ MODULE Outbox ------------------------------
(***************************************************************************)
(* What the durable telemetry state promises its users: an ordered queue   *)
(* of observations with contiguous sequence numbers, one frozen upload     *)
(* request at a time, and acceptance that only an acknowledged request can *)
(* advance.  No files, no crashes: the four public transitions of          *)
(* CTov2TelemetryState (Append, PreparePending, AcceptResponse,            *)
(* ReplaceRejected) as single steps.  TelemetryOutbox shows that           *)
(* TelemetryState implements it.                                           *)
(***************************************************************************)
EXTENDS Integers

CONSTANTS
    Observations,
    Bodies,
    NoBody,
    MaxCounter,   \* TOV2_LOCAL_MAX_COUNTER
    BatchMax,     \* TOV2_LOCAL_BATCH
    EventsMax,    \* TOV2_LOCAL_EVENTS
    Replaceable

VARIABLES
    enrolled,          \* InitializeNew has been committed
    produced,          \* last sequence number given out
    queue,             \* unacknowledged observations by sequence number
    accepted_request,
    accepted_event,
    pending,           \* the frozen request
    sent               \* requests handed to the transport

vars == <<enrolled, produced, queue, accepted_request, accepted_event, pending, sent>>

NoRequest == [request |-> 0, body |-> NoBody, final |-> 0]

Init ==
    /\ enrolled = FALSE
    /\ produced = 0
    /\ queue = [n \in {} |-> 0]
    /\ accepted_request = 0
    /\ accepted_event = 0
    /\ pending = NoRequest
    /\ sent = {}

Enroll ==
    /\ ~enrolled
    /\ enrolled' = TRUE
    /\ UNCHANGED <<produced, queue, accepted_request, accepted_event, pending, sent>>

\* Give the next contiguous numbers to observations that are not queued.
Append(n) ==
    /\ produced' = produced + n
    /\ enrolled
    /\ produced + n <= MaxCounter
    /\ produced + n - accepted_event <= EventsMax
    /\ queue' \in [(accepted_event + 1) .. (produced + n) -> Observations]
    /\ \A m \in DOMAIN queue : queue'[m] = queue[m]
    /\ \A j, k \in DOMAIN queue' : j # k => queue'[j].event_id # queue'[k].event_id
    /\ UNCHANGED <<enrolled, accepted_request, accepted_event, pending, sent>>

\* Freeze a request for a prefix of the queue with no deal twice; an empty one
\* is a heartbeat.
Prepare(body, count) ==
    /\ pending = NoRequest
    /\ pending' = [request |-> accepted_request + 1, body |-> body,
                   final |-> accepted_event + count]
    /\ enrolled
    /\ accepted_request < MaxCounter
    /\ count <= produced - accepted_event
    /\ count = 0 => produced = accepted_event
    /\ \A j, k \in (accepted_event + 1) .. (accepted_event + count) :
          j # k => queue[j].deal_id = "-" \/ queue[j].deal_id # queue[k].deal_id
    /\ UNCHANGED <<enrolled, produced, queue, accepted_request, accepted_event, sent>>

Send ==
    /\ pending # NoRequest
    /\ sent' = sent \cup {pending}
    /\ UNCHANGED <<enrolled, produced, queue, accepted_request, accepted_event, pending>>

\* Only the outstanding request, and only after it was sent.
Acknowledge ==
    /\ pending \in sent
    /\ accepted_request' = pending.request
    /\ accepted_event' = pending.final
    /\ queue' = [m \in (pending.final + 1) .. produced |-> queue[m]]
    /\ pending' = NoRequest
    /\ UNCHANGED <<enrolled, produced, sent>>

Replace(body) ==
    /\ Replaceable
    /\ pending # NoRequest
    /\ pending' = [pending EXCEPT !.body = body]
    /\ UNCHANGED <<enrolled, produced, queue, accepted_request, accepted_event, sent>>

Next ==
    \/ Enroll
    \/ \E n \in 1 .. BatchMax : Append(n)
    \/ \E body \in Bodies, count \in 0 .. BatchMax : Prepare(body, count)
    \/ Send
    \/ Acknowledge
    \/ \E body \in Bodies : Replace(body)

Spec == Init /\ [][Next]_vars

=============================================================================
