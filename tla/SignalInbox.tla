---------------------------- MODULE SignalInbox ----------------------------
(***************************************************************************)
(* The receiver of signal deliveries at the execution edge.  A visit reads  *)
(* the delivery, checks its window, inserts under two unique constraints,   *)
(* and reads the winner when the insertion did nothing; visits interleave   *)
(* between any two of these database calls.  The body is a delivery that    *)
(* decodeSignalDeliveryV1 accepts.                                          *)
(***************************************************************************)
EXTENDS Integers, FiniteSets

VARIABLES
    inbox,    \* rows of signal_evidence_inbox_v1
    visits    \* the invocations under way and their answers, by claim token

inboxVars == <<inbox, visits>>

InboxInit == inbox = {} /\ visits = [k \in {} |-> [pc |-> "done"]]

Step(k, v) == visits' = [visits EXCEPT ![k] = v]

Done(k, status) == Step(k, [pc |-> "done", status |-> status])

\* The request of claim k arrives with its namespace and body.
Visit(k, ns, body, at) ==
    /\ k \notin DOMAIN visits
    /\ visits' = [j \in DOMAIN visits \cup {k} |->
                     IF j = k THEN [pc |-> "read", ns |-> ns, body |-> body, at |-> at] ELSE visits[j]]
    /\ UNCHANGED inbox

Leave(k) == visits' = [j \in DOMAIN visits \ {k} |-> visits[j]]

ReadDelivery(k) ==
    /\ visits[k].pc = "read"
    /\ LET v == visits[k]
           existing == {r \in inbox : r.body.id = v.body.id}
       IN  IF existing # {} THEN Done(k, IF \E r \in existing : r.body = v.body THEN 200 ELSE 409)
           ELSE IF v.at < v.body.admitted \/ v.at >= v.body.expires THEN Done(k, 422)
           ELSE Step(k, [v EXCEPT !.pc = "insert"])
    /\ UNCHANGED inbox

\* ON CONFLICT DO NOTHING: the primary key and UNIQUE(namespace, attempt_key).
InsertDelivery(k) ==
    /\ visits[k].pc = "insert"
    /\ LET v == visits[k]
           clash == \E r \in inbox : r.body.id = v.body.id \/ (r.ns = v.ns /\ r.body.attempt = v.body.attempt)
       IN  IF clash THEN Step(k, [v EXCEPT !.pc = "winner"]) /\ UNCHANGED inbox
           ELSE /\ inbox' = inbox \cup {[ns |-> v.ns, body |-> v.body, received |-> v.at]}
                /\ Done(k, 201)

ReadWinner(k) ==
    /\ visits[k].pc = "winner"
    /\ LET v == visits[k]
           winner == {r \in inbox : r.ns = v.ns /\ r.body.attempt = v.body.attempt}
       IN  Done(k, IF winner = {} THEN 503 ELSE IF \E r \in winner : r.body = v.body THEN 200 ELSE 409)
    /\ UNCHANGED inbox

\* A database call fails.
VisitFails(k) ==
    /\ visits[k].pc # "done"
    /\ Done(k, 503)
    /\ UNCHANGED inbox

\* The insertion reaches the table and its answer does not come back.
InsertUnheard(k) ==
    /\ visits[k].pc = "insert"
    /\ \A r \in inbox : r.body.id # visits[k].body.id
                        /\ ~(r.ns = visits[k].ns /\ r.body.attempt = visits[k].body.attempt)
    /\ inbox' = inbox \cup {[ns |-> visits[k].ns, body |-> visits[k].body, received |-> visits[k].at]}
    /\ Done(k, 503)

InboxStep(k) == ReadDelivery(k) \/ InsertDelivery(k) \/ ReadWinner(k)

InboxFault(k) == VisitFails(k) \/ InsertUnheard(k)

=============================================================================
