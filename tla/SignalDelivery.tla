--------------------------- MODULE SignalDelivery ---------------------------
(***************************************************************************)
(* Signal admission, its outbox and the inbox of the execution edge, end to *)
(* end.  Scheduled dispatchers claim a delivery, recheck it, send it, and   *)
(* settle what they heard; each of these is one database call or one fetch, *)
(* and a dispatcher may end after any of them.  The fetch may fail, time    *)
(* out while the receiver goes on, or lose its answer.                      *)
(***************************************************************************)
EXTENDS SignalAdmission, SignalInbox

VARIABLES
    dispatchers   \* what each scheduled invocation is doing

deliveryVars == <<dispatchers>>

all == <<vars, inboxVars, deliveryVars>>

Dispatchers == 1 .. workload.dispatchers

Due == {"PENDING", "RETRY"}

(***************************************************************************)
(* The outbox statements.                                                  *)
(***************************************************************************)
\* The delivery still belongs to the active stream of an enabled registration
\* and to the reservation of an undisputed attempt.
Deliverable(o) ==
    LET r == Row(db.registrations, o.reg)
        a == Row(db.attempts, <<o.ns, o.body.attempt>>)
        s == Row(db.streams, <<o.reg, o.gen>>)
    IN  /\ r # Null /\ r.enabled /\ r.gen = o.gen
        /\ s # Null /\ s.state = "ACTIVE" /\ s.registry = r.revision
        /\ a # Null /\ ~a.disputed /\ a.evidence = o.body.evidence

LastSeen(o) == IF o.last = Null THEN o.body.admitted ELSE o.last

\* Mutant: a claim that was abandoned is never taken over.
ClaimableWhenDue(o, at) == o.status \in Due /\ o.next <= at

Claimable(o, at) ==
    /\ o.status \in Open
    /\ \/ o.status \in Due /\ o.next <= at
       \/ o.status = "CLAIMED" /\ o.lease <= at
       \/ o.body.expires <= at
       \/ ~Deliverable(o)
       \/ at < LastSeen(o)

\* The status a claim or a settlement leaves, and why.
Verdict(o, at, requested, exhausted) ==
    IF ~Deliverable(o) THEN "QUARANTINED"
    ELSE IF o.body.expires <= at THEN "EXPIRED"
    ELSE IF at < LastSeen(o) \/ exhausted THEN "FAILED_TERMINAL" ELSE requested

Claimed(k, o, at) ==
    LET exhausted == o.attempts >= MaxAttempts
        status == Verdict(o, at, "CLAIMED", exhausted)
    IN  [o EXCEPT !.status = status,
                  !.token = IF status = "CLAIMED" THEN <<k, o.attempts + 1>> ELSE Null,
                  !.lease = IF status = "CLAIMED" THEN at + Lease ELSE Null,
                  !.attempts = IF status = "CLAIMED" THEN @ + 1 ELSE @,
                  !.failure = IF at < LastSeen(o) THEN "CLOCK_REGRESSION"
                              ELSE IF exhausted THEN "ATTEMPTS_EXHAUSTED" ELSE Null,
                  !.last = Max({at, LastSeen(o)})]

\* Mutant: a settlement looks only at the status of the row.
FencedLoosely(o, token, at) == o.status = "CLAIMED"

\* The fence of recheck and settlement.
Fenced(o, token, at) ==
    /\ o.status = "CLAIMED" /\ o.token = token
    /\ o.lease > at \/ o.body.expires <= at \/ ~Deliverable(o) \/ at < o.last

Settled(o, at, requested) ==
    LET exhausted == requested = "RETRY" /\ o.attempts >= MaxAttempts
        status == Verdict(o, at, requested, exhausted)
    IN  [o EXCEPT !.status = status,
                  !.token = IF status = "CLAIMED" THEN @ ELSE Null,
                  !.lease = IF status = "CLAIMED" THEN @ ELSE Null,
                  !.next = IF status = "RETRY" THEN at + 2 ^ o.attempts ELSE @,
                  !.failure = IF at < o.last THEN "CLOCK_REGRESSION"
                              ELSE IF exhausted THEN "ATTEMPTS_EXHAUSTED"
                              ELSE IF requested = "FAILED_TERMINAL" THEN "DELIVERY_FAILED" ELSE @,
                  !.last = Max({at, o.last})]

(***************************************************************************)
(* The dispatcher.                                                         *)
(***************************************************************************)
Resting == [pc |-> "idle"]

Goto(d, state) == dispatchers' = [dispatchers EXCEPT ![d] = state]

\* claimSignalDelivery: the first claimable row by next attempt; rows with
\* the same next attempt are in the order of their digests.
Claim(d, at) ==
    /\ dispatchers[d].pc = "idle"
    /\ \E k \in DOMAIN db.outbox :
          /\ Claimable(db.outbox[k], at)
          /\ \A j \in DOMAIN db.outbox :
                Claimable(db.outbox[j], at) => db.outbox[k].next <= db.outbox[j].next
          /\ LET o == Claimed(k, db.outbox[k], at) IN
             /\ db' = [db EXCEPT !.outbox[k] = o]
             /\ Goto(d, IF o.status = "CLAIMED" THEN [pc |-> "recheck", id |-> k, token |-> o.token]
                        ELSE Resting)
    /\ UNCHANGED <<calls, acked, now, workload, inboxVars>>

\* settleSignalDelivery on the claimed row; a fenced-off settlement does nothing.
Settle(d, requested, at) ==
    LET k == dispatchers[d].id IN
    db' = IF Fenced(db.outbox[k], dispatchers[d].token, at)
          THEN [db EXCEPT !.outbox[k] = Settled(@, at, requested)] ELSE db

Recheck(d, at) ==
    /\ dispatchers[d].pc = "recheck"
    /\ Settle(d, "CLAIMED", at)
    /\ LET k == dispatchers[d].id IN
       Goto(d, IF Fenced(db.outbox[k], dispatchers[d].token, at) /\ db'.outbox[k].status = "CLAIMED"
               THEN [dispatchers[d] EXCEPT !.pc = "send"] ELSE Resting)
    /\ UNCHANGED <<calls, acked, now, workload, inboxVars>>

Send(d, at) ==
    /\ dispatchers[d].pc = "send"
    /\ LET k == dispatchers[d].id IN Visit(dispatchers[d].token, db.outbox[k].ns, db.outbox[k].body, at)
    /\ Goto(d, [dispatchers[d] EXCEPT !.pc = "wait"])
    /\ UNCHANGED vars

\* The fetch fails before the receiver sees it, or the six seconds pass.
Unheard(d) ==
    /\ dispatchers[d].pc \in {"send", "wait"} /\ workload.lossy
    /\ Goto(d, [pc |-> "settle", id |-> dispatchers[d].id, token |-> dispatchers[d].token,
                outcome |-> "RETRY"])
    /\ IF dispatchers[d].token \in DOMAIN visits /\ visits[dispatchers[d].token].pc = "done"
       THEN Leave(dispatchers[d].token) ELSE UNCHANGED visits
    /\ UNCHANGED <<vars, inbox>>

\* Mutant: every answer that is not a server error is an acknowledgement.
HearAnyAnswer(d) ==
    /\ dispatchers[d].pc = "wait" /\ visits[dispatchers[d].token].pc = "done"
    /\ Goto(d, [pc |-> "settle", id |-> dispatchers[d].id, token |-> dispatchers[d].token,
                outcome |-> IF visits[dispatchers[d].token].status < 500 THEN "ACKNOWLEDGED" ELSE "RETRY"])
    /\ Leave(dispatchers[d].token)
    /\ UNCHANGED <<vars, inbox>>

\* The answer: an acknowledgement names the delivery and its digest.
Hear(d) ==
    /\ dispatchers[d].pc = "wait" /\ visits[dispatchers[d].token].pc = "done"
    /\ LET status == visits[dispatchers[d].token].status IN
       Goto(d, [pc |-> "settle", id |-> dispatchers[d].id, token |-> dispatchers[d].token,
                outcome |-> IF status \in {200, 201} THEN "ACKNOWLEDGED"
                            ELSE IF status >= 500 THEN "RETRY" ELSE "FAILED_TERMINAL"])
    /\ Leave(dispatchers[d].token)
    /\ UNCHANGED <<vars, inbox>>

Finalize(d, at) ==
    /\ dispatchers[d].pc = "settle"
    /\ Settle(d, dispatchers[d].outcome, at)
    /\ Goto(d, Resting)
    /\ UNCHANGED <<calls, acked, now, workload, inboxVars>>

\* The scheduled invocation ends early.
Vanish(d) ==
    /\ dispatchers[d].pc # "idle"
    /\ Goto(d, Resting)
    /\ UNCHANGED <<vars, inboxVars>>

DeliveryInit ==
    /\ AdmissionInit /\ InboxInit
    /\ dispatchers = [d \in Dispatchers |-> Resting]

Dispatch(d) ==
    \/ \E at \in Clocks : Claim(d, at) \/ Recheck(d, at) \/ Send(d, at) \/ Finalize(d, at)
    \/ Unheard(d) \/ Hear(d)

DeliveryNext ==
    \/ AdmissionNext /\ UNCHANGED <<inboxVars, deliveryVars>>
    \/ \E d \in Dispatchers : Dispatch(d) \/ Vanish(d)
    \/ \E k \in DOMAIN visits :
          /\ InboxStep(k) \/ (workload.lossy /\ InboxFault(k))
          /\ UNCHANGED <<vars, deliveryVars>>

\* Time passes, and the scheduler keeps running each dispatcher, which goes
\* on to its next database call, its fetch or its timeout; nothing is assumed
\* of the admission calls, or of how often a dispatcher ends early.
DeliveryFairness ==
    /\ WF_all(Tick /\ UNCHANGED <<inboxVars, deliveryVars>>)
    /\ WF_all(\E d \in Dispatchers, at \in Clocks : Claim(d, at))
    /\ WF_all(\E d \in Dispatchers, at \in Clocks : Recheck(d, at) \/ Finalize(d, at))
    /\ WF_all(\E d \in Dispatchers : Unheard(d) \/ Hear(d) \/ \E at \in Clocks : Send(d, at))
    /\ WF_all(\E k \in DOMAIN visits : InboxStep(k) /\ UNCHANGED <<vars, deliveryVars>>)

DeliverySpec == DeliveryInit /\ [][DeliveryNext]_all /\ DeliveryFairness

(***************************************************************************)
(* Properties.                                                             *)
(***************************************************************************)

\* The execution edge holds, of an economic attempt, the one piece of
\* evidence that reserved it: across generations, registrations, repeats and
\* receivers that race, no attempt is ever delivered under a second identity.
OneDeliveryPerAttempt ==
    /\ \A j, k \in DOMAIN db.outbox :
          /\ db.outbox[j].ns = db.outbox[k].ns
          /\ db.outbox[j].body.attempt = db.outbox[k].body.attempt => j = k
    /\ \A r \in inbox :
          /\ r.body.id \in DOMAIN db.outbox /\ db.outbox[r.body.id].body = r.body
          /\ Row(db.attempts, <<r.ns, r.body.attempt>>) # Null
          /\ db.attempts[<<r.ns, r.body.attempt>>].evidence = r.body.evidence

\* A delivery settled as acknowledged is in the inbox, body for body.
AcknowledgedIsStored ==
    \A k \in DOMAIN db.outbox :
        db.outbox[k].status = "ACKNOWLEDGED" => \E r \in inbox : r.body = db.outbox[k].body

\* A settled delivery stays as it was settled, and a delivery is acknowledged
\* only in the name of its newest claim while that claim's lease runs.
SettlementsAreFinal ==
    [][\A k \in DOMAIN db.outbox :
          /\ db.outbox[k].status \notin Open => db'.outbox[k] = db.outbox[k]
          /\ db.outbox[k].status \in Open /\ db'.outbox[k].status = "ACKNOWLEDGED" =>
                \E d \in Dispatchers :
                    /\ dispatchers[d].pc = "settle" /\ dispatchers'[d].pc = "idle"
                    /\ dispatchers[d].token = db.outbox[k].token
                    /\ db.outbox[k].lease > now - workload.skew]_all

\* Every delivery is settled in the end, whatever the receiver, the network,
\* the producers and the dispatchers do: the lease of a dispatcher that ended
\* early runs out, attempts are bounded, and deliveries expire.
EveryDeliveryIsSettled ==
    workload.dispatchers > 0 => <>[](\A k \in DOMAIN db.outbox : db.outbox[k].status \notin Open)

=============================================================================
