-------------------------- MODULE TelemetryState --------------------------
(***************************************************************************)
(* The durable telemetry state machine of the MT5 agent                    *)
(* (CTov2TelemetryState over ITov2TelemetryStorage).                       *)
(*                                                                         *)
(* Every terminal of `Instances' runs one state machine over the same      *)
(* directory.  A public operation is checked in one step (the exclusive    *)
(* owner.lock keeps every other writer out) and then touches one file per  *)
(* step, so that a crash, an I/O error, or a takeover by another terminal  *)
(* can fall between any two files.                                         *)
(***************************************************************************)
EXTENDS TelemetryRecords, Sequences

CONSTANTS
    Instances,     \* terminals sharing the common-data directory
    NoOwner,       \* owner.lock is not held
    Batches,       \* the event batches capture hands to Append
    Diagnostics,   \* the (completeness, error) pairs handed to PublishDiagnostic
    Replaceable,   \* does the outbox adapter's ValidateReplacement accept?
    OwnerListed    \* does the store's Inventory list owner.lock?

ASSUME InstanceAssumption ==
    /\ NoOwner \notin Instances
    /\ Batches \subseteq Seq(Observations)
    /\ \A b \in Batches : Len(b) <= BatchMax
    /\ Diagnostics \subseteq Completeness \X Errors
    /\ Replaceable \in BOOLEAN
    /\ OwnerListed \in BOOLEAN

VARIABLES
    \* the directory
    files,         \* locators of complete record files
    torn,          \* locators of files holding a proper, non-empty prefix
    hollow,        \* locators of zero-length files
    manifest,      \* what each state file says
    marker,        \* the transition each commit file names
    owner,         \* who holds owner.lock
    \* the terminals
    opened,        \* m_open
    loaded,        \* m_loaded
    empty_ready,   \* m_empty_ready
    reload,        \* m_reload_required
    mem,           \* m_state
    job,           \* the call in progress: files still to write or delete
    \* the transport
    exposed        \* pending requests handed out for sending

disk == <<files, torn, hollow, manifest, marker>>
flags == <<opened, loaded, empty_ready, reload, mem>>
vars == <<disk, owner, flags, job, exposed>>

IdleJob == [phase |-> "IDLE", transition |-> "-", candidate |-> ClearState, todo |-> {}]

Init ==
    /\ files = {}
    /\ torn = {}
    /\ hollow = {}
    /\ manifest = [g \in Generation |-> ClearState]
    /\ marker = [g \in Generation |-> "-"]
    /\ owner = NoOwner
    /\ opened = [i \in Instances |-> FALSE]
    /\ loaded = [i \in Instances |-> FALSE]
    /\ empty_ready = [i \in Instances |-> FALSE]
    /\ reload = [i \in Instances |-> FALSE]
    /\ mem = [i \in Instances |-> ClearState]
    /\ job = [i \in Instances |-> IdleJob]
    /\ exposed = {}

(***************************************************************************)
(* What a verified inventory of the directory shows.                       *)
(***************************************************************************)
Present == files \cup torn \cup hollow

\* m_highest_observed: abandoned files count too.
HighestObserved == Max({l.generation : l \in Present} \cup {0})

HighestCommit == Max({l.generation : l \in {c \in Present : c.kind = "COMMIT"}} \cup {0})

\* Inventory refuses a directory with a zero-length record (CONFLICT) or one
\* above the budget (RECOVERY_REQUIRED).
InventoryOK == hollow = {} /\ Cardinality(Present) <= NormalFiles + ReserveFiles

LoadRoot(g) ==
    /\ {CommitLocator(g), StateLocator(g)} \subseteq files
    /\ RootLocators(manifest[g]) \subseteq files

(***************************************************************************)
(* Guard and FreshOutboxRoot / VerifyCurrentRootFresh.                     *)
(***************************************************************************)
Guard(i) ==
    /\ opened[i]
    /\ job[i].phase = "IDLE"
    /\ ~reload[i]
    /\ owner = i

FreshRoot(i) ==
    /\ Guard(i)
    /\ loaded[i]
    /\ InventoryOK
    /\ HighestCommit = mem[i].generation
    /\ LoadRoot(mem[i].generation)
    /\ manifest[mem[i].generation] = mem[i]

(***************************************************************************)
(* Publish: after validation and preflight the call owes the directory the *)
(* new objects, the manifest and, last, the commit.                        *)
(***************************************************************************)
Successor(s) ==
    [s EXCEPT !.generation = HighestObserved + 1, !.parent_generation = s.generation]

Publish(i, transition, candidate, objects) ==
    LET todo == objects \cup {StateLocator(candidate.generation),
                              CommitLocator(candidate.generation)}
    IN /\ candidate.generation <= MaxCounter
       /\ candidate.produced <= MaxCounter
       /\ LocalStateValid(candidate)
       /\ Preflight(Cardinality(Present), transition, Cardinality(todo))
       /\ job' = [job EXCEPT ![i] = [phase |-> "WRITE", transition |-> transition,
                                     candidate |-> candidate, todo |-> todo]]
       /\ UNCHANGED <<disk, owner, flags, exposed>>

(***************************************************************************)
(* Recover reads the highest commit and nothing older.                     *)
(***************************************************************************)
RecoveredRoot(i) ==
    /\ owner = i
    /\ InventoryOK
    /\ HighestCommit > 0
    /\ LoadRoot(HighestCommit)

RecoverFlags(i, ok, empty, again) ==
    /\ loaded' = [loaded EXCEPT ![i] = ok]
    /\ empty_ready' = [empty_ready EXCEPT ![i] = empty]
    /\ reload' = [reload EXCEPT ![i] = again]
    /\ mem' = [mem EXCEPT ![i] = IF ok THEN manifest[HighestCommit] ELSE ClearState]
    /\ UNCHANGED <<opened, owner, disk>>

\* The public Recover().  Lost ownership sets m_reload_required again.
Recover(i) ==
    /\ opened[i]
    /\ job[i].phase = "IDLE"
    /\ RecoverFlags(i, RecoveredRoot(i),
                    owner = i /\ InventoryOK /\ Present = {}, owner # i)
    /\ UNCHANGED <<job, exposed>>

(***************************************************************************)
(* Compact retires only the immediate grandparent of a CHECKPOINT root.    *)
(***************************************************************************)
Grandparent(s) ==
    IF s.parent_generation = 0 THEN 0 ELSE manifest[s.parent_generation].parent_generation

\* Mutant: only the files of the roots' own generations are protected.
ProtectedOwn(s) ==
    {l \in RootLocators(s) : l.generation \in {s.generation, s.parent_generation}}

\* AddRootLocators(current) and AddRootLocators(previous).
Protected(s) == RootLocators(s) \cup RootLocators(manifest[s.parent_generation])

\* RetiredReferenceEligible for every reference of the retired manifest and
\* for the witness of its ACK.
Eligible(retired, s) ==
    LET acknowledged == {n \in Queue(retired) : n <= s.accepted_event}
    IN {retired.capture.at}
       \cup {retired.events[n].at : n \in acknowledged}
       \cup {l \in PendingLocators(retired) : retired.pending.request <= s.accepted_request}
       \cup {l \in AckLocators(retired) \cup WitnessLocators(retired) :
                retired.ack.request <= s.accepted_request}

\* Mutant: collect every unreferenced object, abandoned ones included.
RetireSweep(s) == {l \in files : l.kind = "OBJECT" /\ l \notin Protected(s)}

\* The files one call of Compact deletes, given the current root s.
RetireBatch(s) ==
    LET g == Grandparent(s)
        retired == manifest[g]
        loose == (ObjectReferences(retired) \cup WitnessLocators(retired)) \ Protected(s)
        live == loose \cap Eligible(retired, s) \cap files
        strays == {l \in Present : /\ l.kind = "OBJECT"
                                   /\ l.generation = g
                                   /\ l \notin ObjectReferences(retired)}
        ineligible == ~(loose \subseteq Eligible(retired, s)) \/ strays # {}
        limit == IF ineligible THEN DeleteBatch ELSE DeleteBatch - 2
        batch == {l \in live :
                    Cardinality({m \in live : Precedes(m, l, retired.ack.witness)}) < limit}
    IN IF StateLocator(g) \notin Present
       THEN {CommitLocator(g)}
       ELSE batch \cup (IF ineligible \/ batch # live
                        THEN {}
                        ELSE {StateLocator(g), CommitLocator(g)})

RetireJob(s) ==
    IF \/ Grandparent(s) = 0
       \/ CommitLocator(Grandparent(s)) \notin Present
       \/ RetireBatch(s) = {}
    THEN IdleJob
    ELSE [phase |-> "RETIRE", transition |-> "-",
          candidate |-> manifest[Grandparent(s)], todo |-> RetireBatch(s)]

\* A CHECKPOINT root whose grandparent still has its commit: resume cleanup
\* instead of publishing another checkpoint.
ContinueCleanup(s) ==
    /\ marker[s.generation] = "CHECKPOINT"
    /\ Grandparent(s) # 0
    /\ CommitLocator(Grandparent(s)) \in Present

Compact(i) ==
    /\ FreshRoot(i)
    /\ marker[mem[i].generation] = "CHECKPOINT" => LoadRoot(mem[i].parent_generation)
    /\ \/ /\ ContinueCleanup(mem[i])
          /\ job' = [job EXCEPT ![i] = RetireJob(mem[i])]
          /\ UNCHANGED <<disk, owner, flags, exposed>>
       \/ /\ ~ContinueCleanup(mem[i])
          /\ marker[mem[i].generation] = "CHECKPOINT" =>
                StateLocator(Grandparent(mem[i])) \notin Present
          /\ Publish(i, "CHECKPOINT", Successor(mem[i]), {})

(***************************************************************************)
(* Enrollment and the outbox operations.                                   *)
(***************************************************************************)
InitialState ==
    [ClearState EXCEPT !.generation = 1,
                       !.capture = [at |-> ObjectLocator(1, 1), cursor |-> 0]]

\* RefreshInventory() = NOT_STARTED: the store answered ABSENT, which a store
\* that lists owner.lock never does.
InitializeNew(i) ==
    /\ Guard(i)
    /\ ~loaded[i]
    /\ empty_ready[i]
    /\ Present = {}
    /\ ~OwnerListed
    /\ Publish(i, "INIT", InitialState, {RegistrationLocator, ObjectLocator(1, 1)})

\* The positions of an observation in the queue, by event id.
Queued(s, o) == {n \in Queue(s) : s.events[n].obs.event_id = o.event_id}

\* Candidates already queued must be a contiguous, unchanged prefix of the
\* batch; nothing may clash on deal and revision or repeat inside the batch.
BatchAccepted(s, batch, prefix) ==
    /\ \A k \in 1 .. Len(batch) : (Queued(s, batch[k]) # {}) <=> k <= prefix
    /\ \E start \in 0 .. MaxCounter :
          \A k \in 1 .. prefix : start + k \in Queue(s) /\ s.events[start + k].obs = batch[k]
    /\ \A k \in 1 .. Len(batch), n \in Queue(s) :
          n \in Queued(s, batch[k]) \/ DistinctObservations(batch[k], s.events[n].obs)
    /\ \A j, k \in 1 .. Len(batch) : j # k => DistinctObservations(batch[j], batch[k])

\* The objects a publication adds: ordinals 1 to n of its generation.
NewObjects(n) == {ObjectLocator(HighestObserved + 1, o) : o \in 1 .. n}

\* The candidates after `prefix' are numbered from produced + 1 and stored as
\* objects 1, 2, ...; the capture checkpoint is the last object.
AppendCandidate(s, batch, prefix, cursor) ==
    LET new == Len(batch) - prefix
        object(o) == ObjectLocator(HighestObserved + 1, o)
    IN [Successor(s) EXCEPT
          !.produced = s.produced + new,
          !.capture = [at |-> object(new + 1), cursor |-> cursor],
          !.events = [n \in Counter |->
                        IF n \in (s.produced + 1) .. (s.produced + new)
                        THEN [at |-> object(n - s.produced),
                              obs |-> batch[prefix + (n - s.produced)]]
                        ELSE s.events[n]]]

\* A pure replay (the whole batch is queued) returns the old sequences and
\* writes nothing, so here some candidate is new or the batch is empty.
AppendEvents(i, batch, cursor) ==
    /\ FreshRoot(i)
    /\ cursor >= mem[i].capture.cursor
    /\ \E prefix \in 0 .. Len(batch) :
         /\ BatchAccepted(mem[i], batch, prefix)
         /\ prefix < Len(batch) \/ Len(batch) = 0
         /\ prefix > 0 => mem[i].events[mem[i].produced].obs = batch[prefix]
         /\ EventCount(mem[i]) + Len(batch) - prefix <= EventsMax
         /\ Publish(i, "APPEND", AppendCandidate(mem[i], batch, prefix, cursor),
                    NewObjects(Len(batch) - prefix + 1))

PrepareCandidate(s, body, count) ==
    [Successor(s) EXCEPT
       !.pending = [at |-> ObjectLocator(HighestObserved + 1, 1),
                    request |-> s.accepted_request + 1, body |-> body,
                    prior |-> s.accepted_event, final |-> s.accepted_event + count,
                    count |-> count, produced |-> s.produced],
       !.completeness = IF s.completeness = "UP_TO_DATE" THEN "CATCHING_UP" ELSE s.completeness]

\* A committed request wins; otherwise a request for a contiguous prefix of
\* the queue is made durable before it can be sent.
PreparePending(i, body, count) ==
    /\ FreshRoot(i)
    /\ ~HasPending(mem[i])
    /\ mem[i].accepted_request < MaxCounter
    /\ count <= BatchMax
    /\ count <= EventCount(mem[i])
    /\ count = 0 => EventCount(mem[i]) = 0
    /\ Publish(i, "PREPARE", PrepareCandidate(mem[i], body, count), NewObjects(1))

\* ReadPending: hand the durable request to the transport.
ReadPending(i) ==
    /\ FreshRoot(i)
    /\ HasPending(mem[i])
    /\ exposed' = exposed \cup {mem[i].pending}
    /\ UNCHANGED <<disk, owner, flags, job>>

\* Mutant: an acknowledgement empties the queue.
AcceptCandidateDropsAll(s) ==
    [Successor(s) EXCEPT
       !.ack = [at |-> ObjectLocator(HighestObserved + 1, 2), request |-> s.pending.request,
                body |-> s.pending.body, witness |-> s.pending.at, event |-> s.produced],
       !.accepted_request = s.pending.request,
       !.accepted_event = s.produced,
       !.events = [n \in Counter |-> NoEvent],
       !.pending = NoPending]

\* The request that was answered stays behind as the witness of the ACK.
AcceptCandidate(s) ==
    [Successor(s) EXCEPT
       !.ack = [at |-> ObjectLocator(HighestObserved + 1, 2), request |-> s.pending.request,
                body |-> s.pending.body, witness |-> s.pending.at, event |-> s.pending.final],
       !.accepted_request = s.pending.request,
       !.accepted_event = s.pending.final,
       !.events = [n \in Counter |-> IF n <= s.pending.final THEN NoEvent ELSE s.events[n]],
       !.pending = NoPending]

\* Mutant: the answer to a request that was replaced since is accepted.
AcceptResponseAnyBody(i, response) ==
    /\ FreshRoot(i)
    /\ HasPending(mem[i])
    /\ response.request = mem[i].pending.request
    /\ response.final = mem[i].pending.final
    /\ Publish(i, "ACK", AcceptCandidate(mem[i]), {ObjectLocator(HighestObserved + 1, 2)})

\* A response names the request, its body and the final event it accepts; the
\* server may answer any request it was sent, late or twice.
AcceptResponse(i, response) ==
    /\ FreshRoot(i)
    /\ HasPending(mem[i])
    /\ response.request = mem[i].pending.request
    /\ response.body = mem[i].pending.body
    /\ response.final = mem[i].pending.final
    /\ Publish(i, "ACK", AcceptCandidate(mem[i]), {ObjectLocator(HighestObserved + 1, 2)})

ReplaceCandidate(s, body) ==
    [Successor(s) EXCEPT
       !.pending = [@ EXCEPT !.at = ObjectLocator(HighestObserved + 1, 1), !.body = body]]

ReplaceRejected(i, body) ==
    /\ FreshRoot(i)
    /\ HasPending(mem[i])
    /\ Replaceable
    /\ body # mem[i].pending.body
    /\ Publish(i, "REPLACE", ReplaceCandidate(mem[i], body), NewObjects(1))

PublishDiagnostic(i, completeness, error) ==
    /\ FreshRoot(i)
    /\ Publish(i, "DIAGNOSTIC",
         [Successor(mem[i]) EXCEPT !.completeness = completeness, !.last_error = error], {})

(***************************************************************************)
(* One file per step (CreateExact and its read-back, DeleteExact).         *)
(***************************************************************************)
NextFile(i, l) ==
    /\ l \in job[i].todo
    /\ \A m \in job[i].todo \ {l} : Precedes(l, m, job[i].candidate.ack.witness)

\* What an attempt to create file l of the call in progress leaves on disk.
Leave(i, l, residue) ==
    LET whole(kind) == residue = "WHOLE" /\ l.kind = kind
    IN /\ files' = IF residue = "WHOLE" THEN files \cup {l} ELSE files
       /\ torn' = IF residue = "TORN" THEN torn \cup {l} ELSE torn
       /\ hollow' = IF residue = "HOLLOW" THEN hollow \cup {l} ELSE hollow
       /\ manifest' = IF whole("STATE")
                      THEN [manifest EXCEPT ![l.generation] = job[i].candidate]
                      ELSE manifest
       /\ marker' = IF whole("COMMIT")
                    THEN [marker EXCEPT ![l.generation] = job[i].transition]
                    ELSE marker

\* CreateAndVerify succeeds; after the commit the call recovers from disk.
WriteFile(i, l) ==
    LET rest == job[i].todo \ {l}
    IN /\ job[i].phase = "WRITE"
       /\ owner = i
       /\ NextFile(i, l)
       /\ l \notin Present
       /\ Leave(i, l, "WHOLE")
       /\ job' = [job EXCEPT ![i].todo = rest,
                             ![i].phase = IF rest = {} THEN "RECOVER" ELSE "WRITE"]
       /\ reload' = [reload EXCEPT ![i] = @ \/ rest = {}]
       /\ UNCHANGED <<owner, opened, loaded, empty_ready, mem, exposed>>

\* Mutant: a failed write does not demand a reload.
WriteFailsQuietly(i, l, residue) ==
    /\ job[i].phase = "WRITE"
    /\ owner = i
    /\ NextFile(i, l)
    /\ l \notin Present
    /\ Leave(i, l, residue)
    /\ job' = [job EXCEPT ![i] = IdleJob]
    /\ UNCHANGED <<owner, flags, exposed>>

\* CreateAndVerify fails: the file may be absent, empty, partial, or complete
\* with only the read-back lost.  The call stops and demands a reload.
WriteFails(i, l, residue) ==
    /\ job[i].phase = "WRITE"
    /\ owner = i
    /\ NextFile(i, l)
    /\ l \notin Present
    /\ Leave(i, l, residue)
    /\ job' = [job EXCEPT ![i] = IdleJob]
    /\ reload' = [reload EXCEPT ![i] = TRUE]
    /\ UNCHANGED <<owner, opened, loaded, empty_ready, mem, exposed>>

\* The Recover() that ends Publish, and what the calling operation does with
\* the new root: Prepare and Replace read the request back for the transport,
\* Compact goes on to retire the grandparent.
FinishPublish(i) ==
    LET ok == RecoveredRoot(i)
        root == manifest[HighestCommit]
    IN /\ job[i].phase = "RECOVER"
       /\ RecoverFlags(i, ok, FALSE, FALSE)
       /\ job' = [job EXCEPT ![i] =
                    IF ok /\ job[i].transition = "CHECKPOINT" /\ LoadRoot(root.parent_generation)
                    THEN RetireJob(root) ELSE IdleJob]
       /\ exposed' = IF ok /\ job[i].transition \in {"PREPARE", "REPLACE"}
                     THEN exposed \cup {root.pending} ELSE exposed

Remove(l) ==
    /\ files' = files \ {l}
    /\ manifest' = IF l.kind = "STATE"
                   THEN [manifest EXCEPT ![l.generation] = ClearState] ELSE manifest
    /\ marker' = IF l.kind = "COMMIT"
                 THEN [marker EXCEPT ![l.generation] = "-"] ELSE marker
    /\ UNCHANGED <<torn, hollow>>

\* DeleteAuthorized succeeds.
DeleteFile(i, l) ==
    LET rest == job[i].todo \ {l}
    IN /\ job[i].phase = "RETIRE"
       /\ owner = i
       /\ NextFile(i, l)
       /\ Remove(l)
       /\ job' = [job EXCEPT ![i] = IF rest = {} THEN IdleJob ELSE [@ EXCEPT !.todo = rest]]
       /\ UNCHANGED <<owner, flags, exposed>>

\* DeleteAuthorized reports an error, with or without the file gone.
DeleteFails(i, l) ==
    /\ job[i].phase = "RETIRE"
    /\ owner = i
    /\ NextFile(i, l)
    /\ Remove(l) \/ UNCHANGED disk
    /\ job' = [job EXCEPT ![i] = IdleJob]
    /\ reload' = [reload EXCEPT ![i] = TRUE]
    /\ UNCHANGED <<owner, opened, loaded, empty_ready, mem, exposed>>

(***************************************************************************)
(* Failed reads, the lock, and the process.                                *)
(***************************************************************************)
\* A read of the store fails with IO_ERROR inside an operation: reload.
ReadFails(i) ==
    /\ opened[i]
    /\ job[i].phase = "IDLE"
    /\ reload' = [reload EXCEPT ![i] = TRUE]
    /\ UNCHANGED <<disk, owner, opened, loaded, empty_ready, mem, job, exposed>>

\* A read fails inside Recover, public or at the end of Publish.
RecoverFails(i) ==
    /\ opened[i]
    /\ job[i].phase \in {"IDLE", "RECOVER"}
    /\ RecoverFlags(i, FALSE, FALSE, TRUE)
    /\ job' = [job EXCEPT ![i] = IdleJob]
    /\ UNCHANGED exposed

\* Revalidate finds the owner handle damaged: the store closes it and every
\* call answers OWNERSHIP_LOST until Close and Open.  (Inside Recover this is
\* RecoverFails followed by LoseOwnership.)
LoseOwnership(i) ==
    /\ owner = i
    /\ job[i].phase # "RECOVER"
    /\ owner' = NoOwner
    /\ job' = [job EXCEPT ![i] = IdleJob]
    /\ reload' = [reload EXCEPT ![i] = TRUE]
    /\ UNCHANGED <<disk, opened, loaded, empty_ready, mem, exposed>>

Forget(i) ==
    /\ loaded' = [loaded EXCEPT ![i] = FALSE]
    /\ empty_ready' = [empty_ready EXCEPT ![i] = FALSE]
    /\ reload' = [reload EXCEPT ![i] = FALSE]
    /\ mem' = [mem EXCEPT ![i] = ClearState]
    /\ job' = [job EXCEPT ![i] = IdleJob]

Open(i) ==
    /\ ~opened[i]
    /\ owner = NoOwner
    /\ owner' = i
    /\ opened' = [opened EXCEPT ![i] = TRUE]
    /\ Forget(i)
    /\ UNCHANGED <<disk, exposed>>

Close(i) ==
    /\ opened[i]
    /\ job[i].phase = "IDLE"
    /\ owner' = IF owner = i THEN NoOwner ELSE owner
    /\ opened' = [opened EXCEPT ![i] = FALSE]
    /\ Forget(i)
    /\ UNCHANGED <<disk, exposed>>

\* The terminal dies; the operating system drops its lock, and the file being
\* created may be left absent, empty or partial.
Crash(i) ==
    /\ opened[i]
    /\ owner' = IF owner = i THEN NoOwner ELSE owner
    /\ opened' = [opened EXCEPT ![i] = FALSE]
    /\ Forget(i)
    /\ \/ UNCHANGED disk
       \/ /\ job[i].phase = "WRITE"
          /\ \E l \in job[i].todo, residue \in {"TORN", "HOLLOW"} :
                NextFile(i, l) /\ l \notin Present /\ Leave(i, l, residue)
    /\ UNCHANGED exposed

Operation(i) ==
    \/ Recover(i)
    \/ InitializeNew(i)
    \/ \E batch \in Batches, cursor \in Cursors : AppendEvents(i, batch, cursor)
    \/ \E body \in Bodies, count \in 0 .. BatchMax : PreparePending(i, body, count)
    \/ ReadPending(i)
    \/ \E response \in exposed : AcceptResponse(i, response)
    \/ \E body \in Bodies : ReplaceRejected(i, body)
    \/ \E d \in Diagnostics : PublishDiagnostic(i, d[1], d[2])
    \/ Compact(i)

FileStep(i) ==
    \/ \E l \in job[i].todo : WriteFile(i, l) \/ DeleteFile(i, l)
    \/ FinishPublish(i)

Fault(i) ==
    \/ \E l \in job[i].todo, residue \in {"ABSENT", "HOLLOW", "TORN", "WHOLE"} :
          WriteFails(i, l, residue)
    \/ \E l \in job[i].todo : DeleteFails(i, l)
    \/ ReadFails(i)
    \/ RecoverFails(i)
    \/ LoseOwnership(i)
    \/ Crash(i)

Next == \E i \in Instances : Operation(i) \/ FileStep(i) \/ Fault(i) \/ Open(i) \/ Close(i)

Spec == Init /\ [][Next]_vars

(***************************************************************************)
(* Properties.                                                             *)
(***************************************************************************)
\* The commit that recovery is entitled to: the highest complete one.
DurableGeneration == Max({g \in Generation : CommitLocator(g) \in files} \cup {0})

DurableRoot == IF DurableGeneration = 0 THEN ClearState ELSE manifest[DurableGeneration]

EventReferences == [at : ObjectLocators, obs : Observations]

PendingRecords ==
    [at : ObjectLocators \cup {NoLocator}, request : 0 .. MaxCounter,
     body : Bodies \cup {NoBody}, prior : 0 .. MaxCounter, final : 0 .. MaxCounter,
     count : 0 .. BatchMax, produced : 0 .. MaxCounter]

AckRecords ==
    [at : ObjectLocators \cup {NoLocator}, request : 0 .. MaxCounter,
     body : Bodies \cup {NoBody}, witness : ObjectLocators \cup {NoLocator},
     event : 0 .. MaxCounter]

LocalStates ==
    [generation : 0 .. MaxCounter, parent_generation : 0 .. MaxCounter,
     produced : 0 .. MaxCounter, accepted_request : 0 .. MaxCounter,
     accepted_event : 0 .. MaxCounter,
     capture : [at : ObjectLocators \cup {NoLocator}, cursor : Cursors],
     events : [Counter -> EventReferences \cup {NoEvent}], pending : PendingRecords, ack : AckRecords,
     completeness : Completeness, last_error : Errors]

Jobs == [phase : {"IDLE", "WRITE", "RECOVER", "RETIRE"}, transition : Transitions \cup {"-"},
         candidate : LocalStates, todo : SUBSET Locators]

\* Every variable of the state machine (CTov2TelemetryState and the directory
\* under it) keeps its type: counters stay within TOV2_LOCAL_MAX_COUNTER and
\* every manifest, in memory or on disk, is a well-formed Tov2LocalState.
TypeOK ==
    /\ files \in SUBSET Locators
    /\ torn \in SUBSET Locators
    /\ hollow \in SUBSET Locators
    /\ manifest \in [Generation -> LocalStates]
    /\ marker \in [Generation -> Transitions \cup {"-"}]
    /\ owner \in Instances \cup {NoOwner}
    /\ opened \in [Instances -> BOOLEAN]
    /\ loaded \in [Instances -> BOOLEAN]
    /\ empty_ready \in [Instances -> BOOLEAN]
    /\ reload \in [Instances -> BOOLEAN]
    /\ mem \in [Instances -> LocalStates]
    /\ job \in [Instances -> Jobs]
    /\ exposed \in SUBSET PendingRecords

\* Publish and Compact: whatever the order of crashes, failed writes, failed
\* deletes and takeovers, the highest complete commit can be loaded with every
\* file it references, and so can the root before it.
RootsRetained ==
    DurableGeneration # 0 =>
        /\ LoadRoot(DurableGeneration)
        /\ DurableRoot.parent_generation # 0 => LoadRoot(DurableRoot.parent_generation)

\* Recover and Guard: a terminal that may run an operation works on the highest
\* commit of the directory.  It never falls back to an older commit, and memory
\* from before a lost lock or a failed write is never used.
MemoryIsRoot ==
    \A i \in Instances :
        Guard(i) /\ loaded[i] =>
            /\ HighestCommit = DurableGeneration
            /\ mem[i] = DurableRoot

\* CreateExact and DeleteExact: a new file is always above the durable root and
\* a deleted one below it, so a retired file name is never used again and
\* nothing an abandoned publication left is ever deleted.
NamesNeverReused ==
    [][/\ \A l \in Present' \ Present : l.generation > DurableGeneration
       /\ \A l \in Present \ Present' : l.generation < DurableGeneration]_vars

\* Publish: the generation of a publication in progress is unused, so CreateExact
\* never meets an existing file, not even one abandoned by another terminal.
NoCollision ==
    \A i \in Instances : job[i].phase = "WRITE" => job[i].todo \cap Present = {}

\* Preflight: the directory never outgrows the budget, which Inventory would
\* answer with a permanent refusal, even while a publication is half done.
WithinBudget == Cardinality(Present) <= NormalFiles + ReserveFiles

\* The recovery rules of the persistence design: newer object or state files
\* without a commit are preserved and the last verified commit is recovered.
AbandonedFilesRecoverable ==
    DurableGeneration # 0 /\ HighestCommit = DurableGeneration =>
        InventoryOK /\ LoadRoot(HighestCommit)

\* The enrollment rule of the persistence design: InitializeNew is permitted on
\* an inspected namespace that is empty apart from owner.lock.
EnrollmentPermitted ==
    \A i \in Instances :
        Guard(i) /\ empty_ready[i] /\ Present = {} => ENABLED InitializeNew(i)

=============================================================================
