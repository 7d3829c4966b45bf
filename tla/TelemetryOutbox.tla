-------------------------- MODULE TelemetryOutbox --------------------------
(***************************************************************************)
(* TelemetryState implements Outbox.  The abstract state is what the       *)
(* highest complete commit says; creating the commit file is the point at  *)
(* which a transition happens, whatever becomes of the call that wrote it. *)
(***************************************************************************)
EXTENDS TelemetryState

RequestOf(p) == [request |-> p.request, body |-> p.body, final |-> p.final]

A == INSTANCE Outbox WITH
        enrolled <- DurableGeneration # 0,
        produced <- DurableRoot.produced,
        queue <- [n \in Queue(DurableRoot) |-> DurableRoot.events[n].obs],
        accepted_request <- DurableRoot.accepted_request,
        accepted_event <- DurableRoot.accepted_event,
        pending <- RequestOf(DurableRoot.pending),
        sent <- {RequestOf(p) : p \in exposed}

\* CTov2TelemetryState as a whole: through crashes, partial writes, failed
\* deletes, compaction and takeover, the directory behaves as one atomic
\* outbox whose steps are Enroll, Append, Prepare, Send, Acknowledge, Replace.
\* This is A!Spec: the mapping reads nothing but the three expressions named
\* below, so a step that keeps them keeps A!vars, and TLC need not try A!Next.
ImplementsOutbox == A!Init /\ [][UNCHANGED <<DurableGeneration, DurableRoot, exposed>> \/ A!Next]_(A!vars)

=============================================================================
