-------------------------- MODULE SignalAdmission --------------------------
(***************************************************************************)
(* Signal admission at the observation edge: registered producers send      *)
(* numbered evidence envelopes over streams, one stream per generation of   *)
(* a registration.  An admission call reads the registration, the stream,   *)
(* the receipt and the facts its entries rest on in separate database       *)
(* calls, decides, and writes one batch whose guards reassert everything it *)
(* read; a refused guard is contention and the call starts over.  The first *)
(* selected entry of an economic attempt reserves it and puts a delivery in *)
(* the outbox, which scheduled dispatchers claim under a lease and settle.  *)
(*                                                                         *)
(* Digests are compared by value: a request stands for its own digest.      *)
(* Requests carry the credential of their registration.                     *)
(***************************************************************************)
EXTENDS Integers, Sequences, SequencesExt, FiniteSets, FiniteSetsExt, Functions

CONSTANTS
    Registrations, \* registration identifiers
    Namespace,     \* producer namespace of each registration
    Scope,         \* scope key of each registration
    Requests,      \* admission requests that may arrive
    Workloads,     \* what the environment does, see workload
    Freshness,     \* the freshness policy of the registrations
    ActiveUntil,   \* end of the registrations' active window
    MaxTries,      \* admission tries before giving up
    MaxAttempts,   \* delivery attempts before giving up
    Lease,         \* seconds a claim lasts
    Null

ASSUME AdmissionAssumption ==
    /\ Namespace \in [Registrations -> STRING] /\ Scope \in [Registrations -> STRING]
    /\ \A q, r \in Registrations : Scope[q] = Scope[r] => Namespace[q] = Namespace[r]
    /\ Freshness \in [event : Nat \ {0}, observation : Nat \ {0}, future : Nat, queue : Nat \ {0}]
    /\ {ActiveUntil, MaxTries, MaxAttempts, Lease} \subseteq Nat \ {0}
    /\ \A t \in Requests :
          /\ t.reg \in Registrations /\ {t.gen, t.seq} \subseteq Nat \ {0}
          /\ t.observed \in Nat /\ t.valid \in BOOLEAN /\ t.event \in STRING
          /\ \A i \in DOMAIN t.entries :
                LET e == t.entries[i] IN
                /\ {e.attempt, e.formation, e.selection} \subseteq STRING
                /\ e.selected \in BOOLEAN /\ e.trigger \in Nat
    /\ Workloads \subseteq [requests : SUBSET Requests,
                             plan : Seq([reg : Registrations, enabled : BOOLEAN]),
                             skew : Nat, sequential : BOOLEAN, lossy : BOOLEAN, calls : Nat, until : Nat, horizon : Nat,
                             handlers : Nat, dispatchers : Nat]

VARIABLES
    db,        \* the tables of the observation database
    calls,     \* what each admission call is doing
    acked,     \* per stream, the last sequence the producer knows is settled
    now,       \* the time
    workload   \* the requests the environment sends, in any order and number;
               \* the registrations it installs, in order; how far behind a
               \* Worker's clock may be; whether each stream's producer sends
               \* one sequence at a time; whether fetches fail and time out and
               \* the receiver's database fails; how many calls arrive, and until
               \* when; when the clock stops; how many calls and dispatchers
               \* run at a time

vars == <<db, calls, acked, now, workload>>

Handlers == 1 .. workload.handlers

Open == {"PENDING", "RETRY", "CLAIMED"}

\* A Worker's clock.
Clocks == {c \in now - workload.skew .. now : c >= 0}

(***************************************************************************)
(* Identities.                                                             *)
(***************************************************************************)
Stream(t) == <<t.reg, t.gen>>

ReceiptId(t) == <<t.reg, t.gen, t.seq>>

\* The validated observation inside an envelope: everything but the stream.
Observation(t) == [instance |-> t.reg, seq |-> t.seq, event |-> t.event,
                   observed |-> t.observed, entries |-> t.entries]

EvidenceId(t, e) == <<Namespace[t.reg], t.reg, t.event, t.seq, e.attempt>>

\* Digest of an evidence body: the formation's entry within its observation.
EvidenceHash(t, e) == <<Observation(t), e.attempt>>

AttemptKey(t, e) == <<Namespace[t.reg], e.attempt>>

\* Evidence reused by another event carries another selection only when the
\* trigger itself, not its chart-local identities, differs.
SelectionKey(e) == IF e.selected THEN e.selection ELSE Null

DeliveryId(t, e) == <<e.attempt, EvidenceId(t, e)>>

DeliveryBody(t, e, at, expires) ==
    [id |-> DeliveryId(t, e), receipt |-> ReceiptId(t), attempt |-> e.attempt,
     evidence |-> EvidenceId(t, e), hash |-> EvidenceHash(t, e),
     admitted |-> at, expires |-> expires]

(***************************************************************************)
(* The decision.                                                           *)
(***************************************************************************)
Quarantine(code, keys) == [kind |-> "QUARANTINE", code |-> code, keys |-> keys]

Expiry(e, observed, at) ==
    Min({observed + Freshness.observation,
         IF e.selected THEN e.trigger + Freshness.event ELSE ActiveUntil,
         at + Freshness.queue,
         ActiveUntil})

\* An entry's time against the freshness policy.
Untimely(t, e, at) ==
    IF t.observed > at + Freshness.future \/ (e.selected /\ e.trigger > at + Freshness.future)
    THEN "FUTURE"
    ELSE IF at >= Expiry(e, t.observed, at) THEN "STALE" ELSE Null

\* An entry that contradicts the facts already recorded of its attempt or
\* evidence.  s.attempts and s.evidence hold Null where there is no row.
Conflicting(t, e, s) ==
    LET a == s.attempts[AttemptKey(t, e)]
        f == s.evidence[EvidenceId(t, e)]
    IN  \/ f # Null /\ (f.attempt # e.attempt \/ f.hash # EvidenceHash(t, e))
        \/ /\ a # Null
           /\ \/ a.disputed
              \/ a.formation # e.formation
              \/ a.evidence = EvidenceId(t, e) /\ a.hash # EvidenceHash(t, e)
              \/ /\ e.selected /\ a.trigger # Null
                 /\ \/ e.trigger < a.trigger
                    \/ e.trigger = a.trigger /\ SelectionKey(e) # a.selection

EntryAction(t, e, s) ==
    LET a == s.attempts[AttemptKey(t, e)] IN
    IF ~e.selected THEN "NO_CANDIDATE"
    ELSE IF a # Null /\ a.evidence # Null THEN "AUDIT_ONLY" ELSE "NEW"

\* Mutant: the sequence is compared before the receipt is consulted.
SequenceFirst(t, r, s, at) ==
    IF s.state # "ACTIVE" \/ s.revision # r.revision THEN [kind |-> "BLOCKED"]
    ELSE IF t.seq # s.next
         THEN Quarantine(IF t.seq > s.next THEN "SEQUENCE_GAP" ELSE "UNKNOWN_OLD_SEQUENCE", {})
         ELSE [kind |-> "COMMIT"]

EvaluateAdmission(t, r, s, at) ==
    LET entries == Range(t.entries)
        untimely == SelectSeq(t.entries, LAMBDA e : Untimely(t, e, at) # Null)
        conflicts == {e \in entries : Conflicting(t, e, s)}
    IN  IF s.receipt # Null
        THEN IF s.receipt.body = t THEN [kind |-> "DUPLICATE"] ELSE Quarantine("BODY_CONFLICT", {})
        ELSE IF s.state # "ACTIVE" \/ s.revision # r.revision THEN [kind |-> "BLOCKED"]
        ELSE IF t.seq # s.next
        THEN Quarantine(IF t.seq > s.next THEN "SEQUENCE_GAP" ELSE "UNKNOWN_OLD_SEQUENCE", {})
        ELSE IF s.last # Null /\ at < s.last THEN Quarantine("CLOCK_REGRESSION", {})
        ELSE IF ~t.valid \/ entries = {} THEN Quarantine("INVALID_EVIDENCE", {})
        ELSE IF untimely # <<>> THEN Quarantine(Untimely(t, untimely[1], at), {})
        ELSE IF conflicts # {}
        THEN Quarantine("ATTEMPT_CONFLICT", {AttemptKey(t, e) : e \in conflicts})
        ELSE [kind |-> "COMMIT"]

(***************************************************************************)
(* The tables.  A table is a function from keys to rows.                   *)
(***************************************************************************)
Row(table, key) == IF key \in DOMAIN table THEN table[key] ELSE Null

Put(table, key, row) == [k \in DOMAIN table \cup {key} |-> IF k = key THEN row ELSE table[k]]

EmptyTables ==
    [registrations |-> <<>>, streams |-> <<>>, receipts |-> <<>>, evidence |-> <<>>,
     attempts |-> <<>>, links |-> {}, outbox |-> <<>>, audit |-> {}]

\* The guard rows of a batch: everything the call read is still so.
Guards(d, t, r, s) ==
    LET stream == Row(d.streams, Stream(t)) IN
    /\ stream # Null
    /\ stream.revision = s.cas /\ stream.registry = r.revision
    /\ stream.next = s.next /\ stream.state = s.state
    /\ Row(d.registrations, t.reg) = r /\ r.gen = t.gen /\ r.enabled
    /\ IF s.receipt = Null THEN ReceiptId(t) \notin DOMAIN d.receipts
       ELSE ReceiptId(t) \in DOMAIN d.receipts /\ d.receipts[ReceiptId(t)].body = s.receipt.body
    /\ \A k \in DOMAIN s.attempts : Row(d.attempts, k) = s.attempts[k]
    /\ \A k \in DOMAIN s.evidence : Row(d.evidence, k) = s.evidence[k]

Receipt(t, outcome, code, at) == [body |-> t, outcome |-> outcome, code |-> code, admitted |-> at]

\* A rejected envelope quarantines its stream, disputes the attempts it
\* contradicts and, when it contradicts an earlier envelope, every attempt
\* that envelope's receipt admitted; open deliveries of all of these stop.
QuarantineBatch(d, t, s, decision, at) ==
    LET linked == IF decision.code = "BODY_CONFLICT"
                  THEN {l.attempt : l \in {m \in d.links : m.receipt = ReceiptId(t)}} ELSE {}
        disputed == decision.keys \cup linked
        stopped == {k \in DOMAIN d.outbox :
                       /\ d.outbox[k].status \in Open
                       /\ \/ <<d.outbox[k].reg, d.outbox[k].gen>> = Stream(t)
                          \/ <<d.outbox[k].ns, d.outbox[k].body.attempt>> \in disputed}
    IN  [d EXCEPT
            !.receipts = IF s.receipt = Null
                         THEN Put(@, ReceiptId(t), Receipt(t, "REJECTED", decision.code, at)) ELSE @,
            !.audit = @ \cup {<<ReceiptId(t), decision.code>>},
            !.attempts = [k \in DOMAIN @ |-> [@[k] EXCEPT !.disputed = @ \/ k \in disputed]],
            !.outbox = [k \in DOMAIN @ |->
                IF k \in stopped THEN [@[k] EXCEPT !.status = "QUARANTINED", !.token = Null, !.lease = Null]
                ELSE @[k]],
            !.streams[Stream(t)] = [@ EXCEPT !.state = "QUARANTINED", !.revision = @ + 1]]

\* A delivery as the batch inserts it.
Delivery(t, e, at) ==
    [ns |-> Namespace[t.reg], reg |-> t.reg, gen |-> t.gen,
     body |-> DeliveryBody(t, e, at, Expiry(e, t.observed, at)),
     status |-> "PENDING", token |-> Null, lease |-> Null, attempts |-> 0,
     next |-> at, last |-> Null, failure |-> Null]

\* The evidence, attempt and link rows of one entry.
RecordEntry(d, t, e) ==
    LET k == AttemptKey(t, e) IN
    [d EXCEPT
        !.evidence = IF EvidenceId(t, e) \in DOMAIN @ THEN @
                     ELSE Put(@, EvidenceId(t, e), [attempt |-> e.attempt, hash |-> EvidenceHash(t, e)]),
        !.attempts = IF k \in DOMAIN @ THEN @
                     ELSE Put(@, k, [formation |-> e.formation, evidence |-> Null, hash |-> Null,
                                     trigger |-> Null, selection |-> Null, disputed |-> FALSE]),
        !.links = @ \cup {[receipt |-> ReceiptId(t), evidence |-> EvidenceId(t, e), attempt |-> k]}]

\* The reservation of the attempt and its delivery.
ReserveEntry(d, t, e, at) ==
    [d EXCEPT
        !.attempts[AttemptKey(t, e)] =
            [@ EXCEPT !.evidence = EvidenceId(t, e), !.hash = EvidenceHash(t, e),
                      !.trigger = e.trigger, !.selection = SelectionKey(e)],
        !.outbox = Put(@, DeliveryId(t, e), Delivery(t, e, at))]

\* Mutant: an entry that is only audited is delivered as well.
CommitEntryAlways(d, t, e, s, at) ==
    LET recorded == RecordEntry(d, t, e) IN
    IF EntryAction(t, e, s) = "NO_CANDIDATE" THEN recorded ELSE ReserveEntry(recorded, t, e, at)

\* One entry of an accepted envelope.
CommitEntry(d, t, e, s, at) ==
    LET recorded == RecordEntry(d, t, e) IN
    IF EntryAction(t, e, s) # "NEW" THEN recorded ELSE ReserveEntry(recorded, t, e, at)

Outcome(t, s) ==
    LET actions == {EntryAction(t, e, s) : e \in Range(t.entries)} IN
    IF "NEW" \in actions THEN "ACCEPTED"
    ELSE IF "AUDIT_ONLY" \in actions THEN "AUDIT_ONLY" ELSE "NO_CANDIDATE"

\* An accepted envelope: its receipt, its entries, and the stream moves on.
CommitBatch(d, t, s, at) ==
    LET received == [d EXCEPT !.receipts = Put(@, ReceiptId(t), Receipt(t, Outcome(t, s), Null, at))]
        recorded == FoldLeft(LAMBDA acc, e : CommitEntry(acc, t, e, s, at), received, t.entries)
    IN  [recorded EXCEPT !.streams[Stream(t)] =
            [@ EXCEPT !.next = @ + 1, !.revision = @ + 1, !.last = at]]

\* A batch is refused when an open reservation is gone: changes() is not 1.
Reservable(d, t, s) ==
    \A e \in Range(t.entries) :
        EntryAction(t, e, s) = "NEW" =>
            LET a == Row(d.attempts, AttemptKey(t, e)) IN a = Null \/ (a.evidence = Null /\ ~a.disputed)

(***************************************************************************)
(* Provisioning.  The next revision of a registration opens a new           *)
(* generation and retires the stream of the one before.                     *)
(***************************************************************************)
Installable(d, r) ==
    /\ \A q \in DOMAIN d.registrations :
          q # r.reg /\ r.enabled /\ d.registrations[q].enabled => Scope[q] # Scope[r.reg]
    /\ r.reg \in DOMAIN d.registrations =>
          d.registrations[r.reg].gen < r.gen /\ d.registrations[r.reg].revision + 1 = r.revision

InstallGeneration(d, r) ==
    LET old == Row(d.registrations, r.reg)
        retired == IF old = Null THEN d.streams
                   ELSE [d.streams EXCEPT ![<<r.reg, old.gen>>] =
                           [@ EXCEPT !.state = "RETIRED", !.revision = @ + 1]]
    IN  [d EXCEPT
            !.registrations = Put(@, r.reg, r),
            !.streams = Put(retired, <<r.reg, r.gen>>,
                            [registry |-> r.revision, revision |-> 1, next |-> 1,
                             state |-> "ACTIVE", last |-> Null]),
            !.audit = @ \cup {<<<<r.reg, r.gen, 0>>, "INSTALLED">>}]

Install ==
    /\ workload.plan # <<>>
    /\ LET p == Head(workload.plan)
           old == Row(db.registrations, p.reg)
           r == [reg |-> p.reg, enabled |-> p.enabled,
                 gen |-> IF old = Null THEN 1 ELSE old.gen + 1,
                 revision |-> IF old = Null THEN 1 ELSE old.revision + 1]
       IN  db' = IF Installable(db, r) THEN InstallGeneration(db, r) ELSE db
    /\ workload' = [workload EXCEPT !.plan = Tail(@)]
    /\ UNCHANGED <<calls, acked, now>>

(***************************************************************************)
(* The admission call.                                                     *)
(***************************************************************************)
Idle == [pc |-> "idle"]

Reply(h, reply) == calls' = [calls EXCEPT ![h] = [pc |-> "reply", request |-> @.request, reply |-> reply]]

\* handleSignalAdmission reads its clock before anything else.  A producer
\* that sends one sequence at a time sends the one after the last settled.
Arrive(h, t, at) ==
    /\ calls[h].pc = "idle" /\ t \in workload.requests /\ workload.calls > 0 /\ now <= workload.until
    /\ workload.sequential => t.seq = (IF Row(acked, Stream(t)) = Null THEN 0 ELSE acked[Stream(t)]) + 1
    /\ calls' = [calls EXCEPT ![h] = [pc |-> "registration", request |-> t, at |-> at, tries |-> 1]]
    /\ workload' = [workload EXCEPT !.calls = @ - 1]
    /\ UNCHANGED <<db, acked, now>>

Authenticated(t, r, at) ==
    r # Null /\ r.enabled /\ r.reg = t.reg /\ r.gen = t.gen /\ at < ActiveUntil

ReadRegistration(h) ==
    /\ calls[h].pc = "registration"
    /\ LET c == calls[h]
           r == Row(db.registrations, c.request.reg)
       IN  IF Authenticated(c.request, r, c.at)
           THEN calls' = [calls EXCEPT ![h] = [pc |-> "stream", request |-> c.request, at |-> c.at,
                                               tries |-> 1, r |-> r]]
           ELSE Reply(h, [status |-> 401, outcome |-> "REJECTED", code |-> Null])
    /\ UNCHANGED <<db, acked, now, workload>>

\* snapshot: the stream joined with its registration.
ReadStream(h) ==
    /\ calls[h].pc = "stream"
    /\ LET t == calls[h].request
           stream == Row(db.streams, Stream(t))
       IN  IF stream = Null THEN Reply(h, [status |-> 503, outcome |-> "REJECTED", code |-> Null])
           ELSE calls' = [calls EXCEPT ![h] =
                   [pc |-> "receipt", request |-> t, at |-> @.at, tries |-> @.tries, r |-> @.r,
                    s |-> [state |-> stream.state, cas |-> stream.revision,
                           revision |-> stream.registry, next |-> stream.next, last |-> stream.last,
                           registration |-> db.registrations[t.reg],
                           receipt |-> Null, attempts |-> <<>>, evidence |-> <<>>]]]
    /\ UNCHANGED <<db, acked, now, workload>>

ReadReceipt(h) ==
    /\ calls[h].pc = "receipt"
    /\ LET t == calls[h].request
           receipt == Row(db.receipts, ReceiptId(t))
           facts == IF receipt = Null /\ calls[h].s.state = "ACTIVE" /\ t.valid THEN t.entries ELSE <<>>
       IN  calls' = [calls EXCEPT ![h] =
               [pc |-> IF facts = <<>> THEN "batch" ELSE "attempt", request |-> t, at |-> @.at,
                tries |-> @.tries, r |-> @.r, s |-> [@.s EXCEPT !.receipt = receipt], todo |-> facts]]
    /\ UNCHANGED <<db, acked, now, workload>>

ReadAttempt(h) ==
    /\ calls[h].pc = "attempt"
    /\ LET k == AttemptKey(calls[h].request, Head(calls[h].todo)) IN
       calls' = [calls EXCEPT ![h] = [@ EXCEPT !.pc = "evidence",
                                               !.s.attempts = Put(@, k, Row(db.attempts, k))]]
    /\ UNCHANGED <<db, acked, now, workload>>

ReadEvidence(h) ==
    /\ calls[h].pc = "evidence"
    /\ LET k == EvidenceId(calls[h].request, Head(calls[h].todo)) IN
       calls' = [calls EXCEPT ![h] =
           [@ EXCEPT !.pc = IF Len(calls[h].todo) = 1 THEN "batch" ELSE "attempt",
                     !.todo = Tail(@),
                     !.s.evidence = Put(@, k, Row(db.evidence, k))]]
    /\ UNCHANGED <<db, acked, now, workload>>

\* The decision on the snapshot, and its batch.
Decide(h) ==
    /\ calls[h].pc = "batch"
    /\ LET c == calls[h]
           t == c.request
           s == c.s
           decision == EvaluateAdmission(t, c.r, s, c.at)
           blocked == \/ decision.kind = "BLOCKED"
                      \/ c.r # s.registration
                      \/ /\ s.state # "ACTIVE"
                         /\ ~(/\ s.state = "QUARANTINED" /\ s.receipt # Null
                              /\ decision.kind = "QUARANTINE")
       IN  IF decision.kind = "DUPLICATE"
           THEN /\ Reply(h, [status |-> 200, outcome |-> s.receipt.outcome, code |-> s.receipt.code])
                /\ UNCHANGED db
           ELSE IF blocked
           THEN /\ Reply(h, [status |-> 409, outcome |-> "REJECTED", code |-> "STREAM_BLOCKED"])
                /\ UNCHANGED db
           ELSE IF ~Guards(db, t, c.r, s) \/ (decision.kind = "COMMIT" /\ ~Reservable(db, t, s))
           THEN /\ IF c.tries = MaxTries
                   THEN Reply(h, [status |-> 503, outcome |-> "REJECTED", code |-> Null])
                   ELSE calls' = [calls EXCEPT ![h] =
                           [pc |-> "stream", request |-> t, at |-> c.at, tries |-> c.tries + 1, r |-> c.r]]
                /\ UNCHANGED db
           ELSE IF decision.kind = "QUARANTINE"
           THEN /\ db' = QuarantineBatch(db, t, s, decision, c.at)
                /\ Reply(h, [status |-> IF decision.code \in {"INVALID_EVIDENCE", "STALE", "FUTURE"}
                                        THEN 422 ELSE 409,
                             outcome |-> "REJECTED", code |-> decision.code])
           ELSE /\ db' = CommitBatch(db, t, s, c.at)
                /\ Reply(h, [status |-> 202, outcome |-> Outcome(t, s), code |-> Null])
    /\ UNCHANGED <<acked, now, workload>>

\* The producer hears the answer; an accepted or repeated sequence is settled.
Answer(h) ==
    /\ calls[h].pc = "reply"
    /\ LET t == calls[h].request IN
       acked' = IF calls[h].reply.status \in {200, 202}
                   /\ (Row(acked, Stream(t)) = Null \/ acked[Stream(t)] < t.seq)
                THEN Put(acked, Stream(t), t.seq) ELSE acked
    /\ calls' = [calls EXCEPT ![h] = Idle]
    /\ UNCHANGED <<db, now, workload>>

\* A database call fails or the invocation ends, and no answer is heard; what
\* it wrote stays.
Drop(h) ==
    /\ calls[h].pc # "idle"
    /\ calls' = [calls EXCEPT ![h] = Idle]
    /\ UNCHANGED <<db, acked, now, workload>>

Tick ==
    /\ now < workload.horizon
    /\ now' = now + 1
    /\ UNCHANGED <<db, calls, acked, workload>>

AdmissionInit ==
    /\ workload \in Workloads
    /\ db = EmptyTables
    /\ calls = [h \in Handlers |-> Idle]
    /\ acked = <<>>
    /\ now = 0

AdmissionNext ==
    \/ Install
    \/ Tick
    \/ \E h \in Handlers :
          \/ \E t \in workload.requests, at \in Clocks : Arrive(h, t, at)
          \/ ReadRegistration(h) \/ ReadStream(h) \/ ReadReceipt(h)
          \/ ReadAttempt(h) \/ ReadEvidence(h) \/ Decide(h)
          \/ Answer(h) \/ Drop(h)

(***************************************************************************)
(* Properties.                                                             *)
(***************************************************************************)

\* A producer that sends one sequence at a time and repeats the same body
\* until it hears of it is never quarantined for its sequence, its body or
\* its clock, however its abandoned calls and its repeats interleave.
OrderlyProducersAreNotQuarantined ==
    workload.sequential /\ workload.skew = 0 =>
        \A a \in db.audit : a[2] \notin {"SEQUENCE_GAP", "UNKNOWN_OLD_SEQUENCE",
                                         "BODY_CONFLICT", "CLOCK_REGRESSION"}

=============================================================================
