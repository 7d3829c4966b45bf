----------------------------- MODULE AgentSync -----------------------------
(***************************************************************************)
(* Heartbeats of protocol v1: TradeOpsPostHeartbeat of the MT5 agent with  *)
(* its journal file, the /api/v1/agent/sync route of the execution edge,   *)
(* the account's coordinator (coordinateAgentSyncV1), and the audit and    *)
(* health rows the route writes.                                           *)
(*                                                                         *)
(* A call is one HTTP request.  The agent gives up waiting after 1.5 s,    *)
(* but the call goes on at the edge; each of its awaits is a step.  The    *)
(* coordinator's own read-decide-write is one step: a Durable Object gets  *)
(* no other event while its storage is read, and hashing the response does *)
(* no I/O.                                                                 *)
(*                                                                         *)
(* The agent's memory and its journal agree at every step, because state   *)
(* is replaced only after TradeOpsSaveSyncState succeeded, so a restart of *)
(* the terminal only forgets the call it waits for.                        *)
(***************************************************************************)
EXTENDS Integers

CONSTANTS
    Agents,      \* installations that use the account
    NoAgent,
    Calls,       \* HTTP calls in progress
    NoCall,
    NoPayload,
    Freshness,   \* 30 seconds
    MaxTime,     \* bound of the clock
    MaxSequence  \* bound of request_sequence

ASSUME SyncAssumption ==
    /\ NoAgent \notin Agents
    /\ NoCall \notin Calls
    /\ Freshness \in Nat
    /\ MaxTime \in Nat
    /\ MaxSequence \in Nat \ {0}

VARIABLES
    journal,      \* sync-state.ini of each agent
    waiting,      \* the call WebRequest is waiting for
    call,         \* the calls
    coordinator,  \* sync_state_v1
    audit,        \* agent_sync_audit_v1: the rows of accepted heartbeats
    health,       \* agent_health_current_v1 by installation
    now

vars == <<journal, waiting, call, coordinator, audit, health, now>>

IdleCall == [phase |-> "IDLE", payload |-> NoPayload, fresh |-> FALSE, received |-> 0, outcome |-> "NONE"]

NoHealth == [sequence |-> 0, accepted_at |-> 0]

Init ==
    /\ journal = [a \in Agents |-> [sequence |-> 1, acknowledged |-> 0, pending |-> NoPayload]]
    /\ waiting = [a \in Agents |-> NoCall]
    /\ call = [c \in Calls |-> IdleCall]
    /\ coordinator = [agent |-> NoAgent, sequence |-> 0, digest |-> NoPayload]
    /\ audit = {}
    /\ health = [a \in Agents |-> NoHealth]
    /\ now = 0

(***************************************************************************)
(* The agent.                                                              *)
(***************************************************************************)
\* The journaled payload, or a new one with the current time.
PayloadToSend(a) ==
    IF journal[a].pending = NoPayload
    THEN [agent |-> a, sequence |-> journal[a].sequence, sent_at |-> now]
    ELSE journal[a].pending

\* OnTimer: journal the payload, then send it.
PostHeartbeat(a, c) ==
    /\ waiting[a] = NoCall
    /\ call[c] = IdleCall
    /\ journal[a].sequence <= MaxSequence
    /\ journal' = [journal EXCEPT ![a].pending = PayloadToSend(a)]
    /\ waiting' = [waiting EXCEPT ![a] = c]
    /\ call' = [call EXCEPT ![c] = [IdleCall EXCEPT !.phase = "SENT", !.payload = PayloadToSend(a)]]
    /\ UNCHANGED <<coordinator, audit, health, now>>

\* WebRequest gives up, or the terminal restarts.
StopWaiting(a) ==
    /\ waiting[a] # NoCall
    /\ waiting' = [waiting EXCEPT ![a] = NoCall]
    /\ UNCHANGED <<journal, call, coordinator, audit, health, now>>

\* Mutant: a stale answer settles the payload.
SettledStale(entry, outcome) ==
    IF outcome \in {"ACCEPTED", "EXACT_RETRY", "STALE_TIMESTAMP"}
    THEN [sequence |-> entry.sequence + 1, acknowledged |-> entry.sequence, pending |-> NoPayload]
    ELSE entry

\* What the response does to the journal: a valid one advances, a stale one
\* drops the payload, any other one is retried.
Settled(entry, outcome) ==
    IF outcome \in {"ACCEPTED", "EXACT_RETRY"}
    THEN [sequence |-> entry.sequence + 1, acknowledged |-> entry.sequence, pending |-> NoPayload]
    ELSE IF outcome = "STALE_TIMESTAMP" THEN [entry EXCEPT !.pending = NoPayload]
    ELSE entry

\* The response reaches an agent that still waits, which settles its journal;
\* a response nobody waits for, or whose journal write fails, has no effect.
Respond(c) ==
    LET a == call[c].payload.agent
    IN /\ call[c].phase = "ANSWER"
       /\ IF waiting[a] = c
          THEN /\ journal' = [journal EXCEPT ![a] = Settled(@, call[c].outcome)]
               /\ waiting' = [waiting EXCEPT ![a] = NoCall]
          ELSE UNCHANGED <<journal, waiting>>
       /\ call' = [call EXCEPT ![c] = IdleCall]
       /\ UNCHANGED <<coordinator, audit, health, now>>

(***************************************************************************)
(* The edge.                                                               *)
(***************************************************************************)
\* The route parses the body; freshness is judged here, once.
Arrive(c) ==
    /\ call[c].phase = "SENT"
    /\ call' = [call EXCEPT ![c].phase = "PARSED",
                            ![c].fresh = now - call[c].payload.sent_at <= Freshness,
                            ![c].received = now]
    /\ UNCHANGED <<journal, waiting, coordinator, audit, health, now>>

\* Mutant: a request is judged stale before it is compared with the last one.
DecisionFreshFirst(c) ==
    LET p == call[c].payload
    IN IF coordinator.sequence > 0 /\ coordinator.agent # p.agent THEN "IDENTITY_MISMATCH"
       ELSE IF ~call[c].fresh THEN "STALE_TIMESTAMP"
       ELSE IF coordinator.sequence > 0 /\ p.sequence = coordinator.sequence
            THEN IF p = coordinator.digest THEN "EXACT_RETRY" ELSE "REPLAY_CONFLICT"
       ELSE IF p.sequence # coordinator.sequence + 1 THEN "SEQUENCE_INVALID"
       ELSE "ACCEPTED"

Decision(c) ==
    LET p == call[c].payload
    IN IF coordinator.sequence > 0 /\ coordinator.agent # p.agent THEN "IDENTITY_MISMATCH"
       ELSE IF coordinator.sequence > 0 /\ p.sequence = coordinator.sequence
            THEN IF p = coordinator.digest THEN "EXACT_RETRY" ELSE "REPLAY_CONFLICT"
       ELSE IF ~call[c].fresh THEN "STALE_TIMESTAMP"
       ELSE IF p.sequence # coordinator.sequence + 1 THEN "SEQUENCE_INVALID"
       ELSE "ACCEPTED"

Coordinate(c) ==
    LET p == call[c].payload
    IN /\ call[c].phase = "PARSED"
       /\ call' = [call EXCEPT ![c].phase = "AUDIT", ![c].outcome = Decision(c)]
       /\ coordinator' = IF Decision(c) = "ACCEPTED"
                         THEN [agent |-> p.agent, sequence |-> p.sequence, digest |-> p]
                         ELSE coordinator
       /\ UNCHANGED <<journal, waiting, audit, health, now>>

\* The health row of the installation, never replaced by an older request.
HealthAfter(a, c) ==
    IF call[c].payload.sequence > health[a].sequence
    THEN [sequence |-> call[c].payload.sequence, accepted_at |-> call[c].received]
    ELSE health[a]

\* Mutant: nothing is written for an exact retry.
WriteAuditOnce(c) ==
    LET a == call[c].payload.agent
    IN /\ call[c].phase = "AUDIT"
       /\ audit' = IF call[c].outcome = "ACCEPTED" THEN audit \cup {call[c].payload} ELSE audit
       /\ health' = IF call[c].outcome = "ACCEPTED" THEN [health EXCEPT ![a] = HealthAfter(a, c)]
                    ELSE health
       /\ call' = [call EXCEPT ![c].phase = "ANSWER"]
       /\ UNCHANGED <<journal, waiting, coordinator, now>>

\* The audit row, and for a new heartbeat the health row with it.  A rejection
\* is written in the same way; nothing reads its row.
WriteAudit(c) ==
    LET a == call[c].payload.agent
    IN /\ call[c].phase = "AUDIT"
       /\ audit' = IF call[c].outcome \in {"ACCEPTED", "EXACT_RETRY"}
                   THEN audit \cup {call[c].payload}
                   ELSE audit
       /\ health' = IF call[c].outcome = "ACCEPTED" THEN [health EXCEPT ![a] = HealthAfter(a, c)]
                    ELSE health
       /\ call' = [call EXCEPT ![c].phase = "ANSWER"]
       /\ UNCHANGED <<journal, waiting, coordinator, now>>

\* AGENT_SYNC_AUDIT_UNAVAILABLE: the answer is an error.
AuditFails(c) ==
    /\ call[c].phase = "AUDIT"
    /\ call' = [call EXCEPT ![c].phase = "ANSWER", ![c].outcome = "UNAVAILABLE"]
    /\ UNCHANGED <<journal, waiting, coordinator, audit, health, now>>

\* The call is lost: on the way, with the Worker, or on the way back.
Drop(c) ==
    /\ call[c].phase # "IDLE"
    /\ call' = [call EXCEPT ![c] = IdleCall]
    /\ waiting' = [a \in Agents |-> IF waiting[a] = c THEN NoCall ELSE waiting[a]]
    /\ UNCHANGED <<journal, coordinator, audit, health, now>>

Tick ==
    /\ now < MaxTime
    /\ now' = now + 1
    /\ UNCHANGED <<journal, waiting, call, coordinator, audit, health>>

Next ==
    \/ \E a \in Agents, c \in Calls : PostHeartbeat(a, c)
    \/ \E a \in Agents : StopWaiting(a)
    \/ \E c \in Calls : Arrive(c) \/ Coordinate(c) \/ WriteAudit(c) \/ AuditFails(c)
                        \/ Respond(c) \/ Drop(c)
    \/ Tick

\* Each agent's timer fires again, and what a call awaits settles.
Fairness ==
    /\ \A a \in Agents : WF_vars(\E c \in Calls : PostHeartbeat(a, c))
    /\ \A c \in Calls :
          WF_vars(Arrive(c) \/ Coordinate(c) \/ WriteAudit(c) \/ AuditFails(c) \/ Respond(c))

Spec == Init /\ [][Next]_vars /\ Fairness

(***************************************************************************)
(* Properties.                                                             *)
(***************************************************************************)

\* The coordinator is at most one heartbeat ahead of the agent it is pinned to
\* and never behind it, through lost answers, retries and restarts: the agent
\* advances only over what was accepted (TradeOpsPostHeartbeat with
\* coordinateAgentSyncV1).
InStep ==
    \A a \in Agents :
        /\ a = coordinator.agent => journal[a].sequence - coordinator.sequence \in {0, 1}
        /\ a # coordinator.agent => journal[a].sequence = 1

\* The agent never counts a heartbeat as delivered that has no audit row
\* (writeAcceptedSyncAuditAndHealth, writeSyncAudit).
AckedIsAudited ==
    \A a \in Agents : \A n \in 1 .. journal[a].acknowledged :
        \E row \in audit : row.agent = a /\ row.sequence = n

\* From some point on no call times out, is lost (to any effect) or fails to be
\* audited.
Quiet ==
    <>[][/\ \A a \in Agents : ~StopWaiting(a)
         /\ \A c \in Calls : (Drop(c) => Respond(c)) /\ ~AuditFails(c)]_vars

\* A heartbeat whose answer was lost is settled by an exact retry, however
\* late it comes: the coordinator recognises its last request before it judges
\* freshness.  (A stale answer already on its way is AcceptedIsPending.)
LostAnswerRecovers ==
    Quiet =>
        \A a \in Agents : \A n \in 1 .. MaxSequence :
            (/\ coordinator.agent = a
             /\ coordinator.sequence = n
             /\ journal[a].pending = coordinator.digest
             /\ \A c \in Calls : call[c].outcome # "STALE_TIMESTAMP")
                ~> journal[a].sequence > n

\* The agent's README: the pending payload "is replayed byte-for-byte after a
\* lost response or restart", so the agent still holds what was accepted under
\* its current sequence.
AcceptedIsPending ==
    \A a \in Agents :
        coordinator.agent = a /\ coordinator.sequence = journal[a].sequence =>
            journal[a].pending = coordinator.digest

=============================================================================
