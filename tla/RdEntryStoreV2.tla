----------------------------- MODULE RdEntryStoreV2 -----------------------------
(***************************************************************************)
(* The store of the second entry contract (rd-entry-store.ts, over the     *)
(* statements of rd-entry-queries.ts and the constraints and triggers of   *)
(* migration 0023).  A producer sends one batch per bar, in chunks; the    *)
(* append that brings the last chunk evaluates every setup of the batch    *)
(* over all bars stored for it and completes the batch.                    *)
(*                                                                         *)
(* Every read and every transaction of an append is one step, so that the  *)
(* appends of several requests interleave as the database lets them.  A    *)
(* request is known by its message; Observation gives what the validation  *)
(* of a message yields, and stands for its digest.  A receipt, the         *)
(* heartbeat and the chunk that are always written with it are one row.    *)
(***************************************************************************)
EXTENDS RdEntryParityV2

CONSTANTS
  Handlers,           \* requests the worker can serve at the same time
  Observation(_)      \* the validated observation of a message, Null when it is refused

VARIABLES
  deployment,         \* the approved promotion, and what the environment says of it
  receipts,           \* messages stored, each with its receipt, heartbeat and chunk
  batches,            \* rows of the batches
  completions,        \* identities of the batches that are complete
  events,             \* bars stored for each setup
  terminals,          \* how attempts ended
  objects,            \* candidates, evidence and handling, by identity
  selections,         \* what each evaluation selected, with its members and parity
  catalog,            \* whether the source claims are stored
  quarantine,         \* what was refused as a conflict
  calls,              \* the append each handler is running, Null when it is free
  answers             \* what was answered to a message

tables == <<receipts, batches, completions, events, terminals, objects, selections, catalog>>

storeVars == <<deployment, tables, quarantine, calls, answers>>

EntryStoreConflictCode ==
  {"INCONSISTENT_CHUNK_COUNT", "INCONSISTENT_BATCH_METADATA", "BATCH_SETUP_LIMIT",
   "DUPLICATE_SETUP_ACROSS_CHUNKS", "IMMUTABLE_ID_CONFLICT", "EVENT_STREAM_CONTEXT_MISSING",
   "EVENT_STREAM_CONFLICT", "TERMINAL_FACT_CONFLICT"}

(***************************************************************************)
(* Promotion.                                                              *)
(***************************************************************************)

promotionDeploymentArmed(env) == env.binding # Null /\ env.enabled /\ env.matches

promotionCodeIdentityMatches(env, metadata) ==
  env.binding # Null /\ metadata.settings_hash = env.binding.settings_hash

canonicalPaperSelectionConfigured(env, metadata) ==
  promotionDeploymentArmed(env) /\ promotionCodeIdentityMatches(env, metadata)

(***************************************************************************)
(* Rows.                                                                   *)
(***************************************************************************)

BatchRow(o) == [batch_id |-> o.identity, metadata |-> o.metadata, chunk_count |-> o.chunkCount]

Sequence(row) == row.batch_id.sequence

BarClose(row) == row.batch_id.bar_close_epoch

OfProducer(o) == {b \in batches : b.batch_id.producer_instance_id = o.identity.producer_instance_id}

ChunksOf(o) == {m \in receipts : Observation(m).identity = o.identity}

sameProducerIdentity(row, metadata) == row.metadata.settings_hash = metadata.settings_hash

(* The nearest batches before and after. *)
Neighbors(o) ==
  {b \in OfProducer(o) :
     \/ Sequence(b) < o.identity.sequence
          /\ ~\E c \in OfProducer(o) : Sequence(c) \in Sequence(b) + 1 .. o.identity.sequence - 1
     \/ Sequence(b) > o.identity.sequence
          /\ ~\E c \in OfProducer(o) : Sequence(c) \in o.identity.sequence + 1 .. Sequence(b) - 1}

OutOfOrder(row, o) ==
  \/ Sequence(row) < o.identity.sequence /\ BarClose(row) >= o.identity.bar_close_epoch
  \/ Sequence(row) > o.identity.sequence /\ BarClose(row) <= o.identity.bar_close_epoch

(* Candidates, evidence and handling each have their digest as identity. *)
ObjectId(row) ==
  IF "handling_id" \in DOMAIN row THEN row.handling_id
  ELSE IF "evidence_id" \in DOMAIN row THEN row.evidence_id
  ELSE row.candidate_id

ObjectsOf(backend) == backend.candidates \cup backend.evidence \cup backend.handling

CloseOf(request) == request.confirmed_bar.close_epoch

(***************************************************************************)
(* Assembly and evaluation.                                                *)
(***************************************************************************)

Indexes(messages) == {Observation(m).chunkIndex : m \in messages}

(* The stored chunks of a batch together with the one being appended, which  *)
(* is counted again when another request has stored it in the meantime.      *)
assembleValidatedChunks(stored, message) ==
  LET Of(m)   == Observation(m)
      all     == stored \cup {message}
      first   == Of(CHOOSE m \in all : \A n \in all : Of(m).chunkIndex <= Of(n).chunkIndex)
      Size(m) == Cardinality(Of(m).entryBatches) * (IF m = message /\ m \in stored THEN 2 ELSE 1)
      setups  == UNION {Of(m).entryBatches : m \in all}
      total   == MapThenSumSet(Size, all)
      Assembly(status) == [status |-> status, setups |-> setups]
  IN  IF \E m \in all : Of(m).chunkCount # first.chunkCount THEN Assembly("INCONSISTENT_CHUNK_COUNT")
      ELSE IF \E m \in all : BatchRow(Of(m)) # BatchRow(first) THEN Assembly("INCONSISTENT_BATCH_METADATA")
      ELSE IF Indexes(all) # 0 .. first.chunkCount - 1 THEN Assembly("INCOMPLETE")
      ELSE IF total > MAX_ENTRY_SETUPS_PER_BATCH THEN Assembly("BATCH_SETUP_LIMIT")
      ELSE IF Cardinality({b.setupId : b \in setups}) # total THEN Assembly("DUPLICATE_SETUP_ACROSS_CHUNKS")
      ELSE Assembly("COMPLETE")

(* The bars an entry repeats must be stored as it repeats them. *)
retainedContextConflict(retained, stored) ==
  LET At(r) == {e \in stored : CloseOf(e) = CloseOf(r)}
      unmet == {r \in retained : r \notin stored}
      first == CHOOSE r \in unmet : \A q \in unmet : CloseOf(r) <= CloseOf(q)
  IN  IF unmet = {} THEN Null
      ELSE IF At(first) = {} THEN "EVENT_STREAM_CONTEXT_MISSING" ELSE "EVENT_STREAM_CONFLICT"

(* The stored bars of a setup and the new ones, or why they do not fit. *)
loadStream(entry, stored) ==
  LET conflict == retainedContextConflict(entry.retainedContext, stored)
  IN  IF conflict # Null THEN [conflict |-> conflict]
      ELSE IF \E e \in stored, r \in entry.events : CloseOf(e) = CloseOf(r) /\ e # r
           THEN [conflict |-> "EVENT_STREAM_CONFLICT"]
      ELSE [conflict |-> Null, stream |-> stored \cup entry.events, newEvents |-> entry.events \ stored]

accumulatedInvalidated(stream) ==
  \E e \in stream : e.setup.terminal_reason = "INVALIDATED" /\ e.setup.invalidated_before_entry

(* An evaluation refers only to what it contains. *)
validateEvaluationOwnership(setupId, backend) ==
  LET selection == backend.selection
      ids == {c.candidate_id : c \in backend.candidates}
  IN  /\ \A c \in backend.candidates : c.setup_id = setupId
      /\ \A e \in backend.evidence : e.candidate_id \in ids
      /\ \A h \in backend.handling :
           \E e \in backend.evidence : e.evidence_id = h.evidence_id /\ e.candidate_id = h.candidate_id
      /\ IF selection.canonical_candidate_id = Null
         THEN selection.canonical_evidence_id = Null /\ selection.canonical_model = Null
         ELSE /\ selection.canonical_candidate_id \in selection.candidate_ids_considered
              /\ \E c \in backend.candidates : /\ c.candidate_id = selection.canonical_candidate_id
                                               /\ c.model = selection.canonical_model
              /\ \E e \in backend.evidence : /\ e.evidence_id = selection.canonical_evidence_id
                                             /\ e.candidate_id = selection.canonical_candidate_id

(* How a stream ended. *)
TerminalOf(stream) ==
  LET ended == {e \in stream : e.setup.terminal_reason # Null}
      first == CHOOSE e \in ended : \A f \in ended : CloseOf(e) <= CloseOf(f)
  IN  IF ended = {} THEN Null
      ELSE [reason |-> first.setup.terminal_reason, epoch |-> first.setup.terminal_epoch]

(* The evaluation of a stream as of its last bar. *)
EvaluationOf(stream, revision) ==
  evaluateEntryStream(stream, accumulatedInvalidated(stream), revision, Max({CloseOf(e) : e \in stream}))

(* An evaluation together with what it means for the producer's report. *)
Prepared(env, entry, metadata, loaded, backend) ==
  LET parity   == compareProducerDiagnostic(backend, entry.producerDiagnostic)
      mismatch == /\ promotionDeploymentArmed(env)
                  /\ metadata.settings_hash # env.binding.settings_hash
  IN  IF loaded.conflict # Null THEN [conflict |-> loaded.conflict]
      ELSE IF backend = Null THEN [conflict |-> "TERMINAL_FACT_CONFLICT"]
      ELSE IF ~validateEvaluationOwnership(entry.setupId, backend) THEN [conflict |-> "IMMUTABLE_ID_CONFLICT"]
      ELSE [conflict |-> Null, setupId |-> entry.setupId, backend |-> backend, parity |-> parity,
            effective |-> effectiveSelection(backend.selection, parity,
                            canonicalPaperSelectionConfigured(env, metadata), mismatch),
            stream |-> loaded.stream, newEvents |-> loaded.newEvents, terminal |-> TerminalOf(loaded.stream)]

\* Mutant: only the bars of the report are evaluated.
PrepareNewEvents(env, entry, metadata, stored, maxRevision) ==
  Prepared(env, entry, metadata, loadStream(entry, stored), EvaluationOf(entry.events, maxRevision + 1))

prepareEvaluation(env, entry, metadata, stored, maxRevision) ==
  LET loaded == loadStream(entry, stored)
  IN  Prepared(env, entry, metadata, loaded, EvaluationOf(loaded.stream, maxRevision + 1))

(***************************************************************************)
(* The appends.                                                            *)
(***************************************************************************)

NewCall(message, attempt) ==
  [message |-> message, attempt |-> attempt, pc |-> "RECEIPT", found |-> FALSE, chunks |-> {},
   events |-> Null, revisions |-> Null, terminals |-> Null, identities |-> {}, catalog |-> FALSE,
   known |-> {}, conflict |-> Null]

Goto(h, call, pc) == calls' = [calls EXCEPT ![h] = [call EXCEPT !.pc = pc]]

(* The answer of the ingress handler; the request is over. *)
Reply(h, status, code, assembly) ==
  /\ answers' = answers \cup {[message |-> calls[h].message, status |-> status, code |-> code,
                               assembly |-> assembly]}
  /\ calls' = [calls EXCEPT ![h] = Null]

(* A conflict is put in quarantine before it is answered. *)
Conflict(h, call, id) ==
  /\ calls' = [calls EXCEPT ![h] = [call EXCEPT !.pc = "QUARANTINE_READ", !.conflict = id]]
  /\ UNCHANGED answers

(* recordContinuityConflict identifies what it refuses by the batch. *)
ContinuityConflict(h, call, code, existing) ==
  LET o == Observation(call.message)
  IN  Conflict(h, call, [batch_id |-> o.identity, code |-> code, existing |-> existing,
                         presented |-> BatchRow(o)])

quarantineObjectKind(code) ==
  CASE code \in {"EVENT_STREAM_CONTEXT_MISSING", "EVENT_STREAM_CONFLICT"} -> "SETUP_EVENT"
    [] code = "TERMINAL_FACT_CONFLICT" -> "SETUP_TERMINAL"
    [] code = "IMMUTABLE_ID_CONFLICT" -> "CHUNK"
    [] code \in EntryStoreConflictCode
         \ {"EVENT_STREAM_CONTEXT_MISSING", "EVENT_STREAM_CONFLICT", "TERMINAL_FACT_CONFLICT",
            "IMMUTABLE_ID_CONFLICT"} -> "BATCH"

(* recordStoreConflict identifies it by the chunk. *)
StoreConflict(h, call, code) ==
  LET o == Observation(call.message)
  IN  Conflict(h, call, [batch_id |-> o.identity, chunk_index |-> o.chunkIndex,
                         object_kind |-> quarantineObjectKind(code), presented |-> call.message, code |-> code])

(* A lost race is tried once more; what is lost again is an error. *)
RetryOrFail(h, call) ==
  IF call.attempt = 0
  THEN calls' = [calls EXCEPT ![h] = NewCall(call.message, 1)] /\ UNCHANGED answers
  ELSE Reply(h, 503, "STORAGE_UNAVAILABLE", Null)

(* A request arrives: what is not valid is refused at once. *)
Receive(h, message) ==
  /\ calls[h] = Null
  /\ IF Observation(message) = Null
     THEN /\ answers' = answers \cup {[message |-> message, status |-> 422, code |-> "INVALID_OBSERVATION",
                                       assembly |-> Null]}
          /\ UNCHANGED calls
     ELSE /\ calls' = [calls EXCEPT ![h] = NewCall(message, 0)]
          /\ UNCHANGED answers
  /\ UNCHANGED <<deployment, tables, quarantine>>

(* A step of the handler that only reads. *)
Reading(h, pc) == calls[h] # Null /\ calls[h].pc = pc /\ UNCHANGED <<deployment, tables, quarantine>>

SelectReceipt(h) ==
  LET call == calls[h]
      o    == Observation(call.message)
      same == {m \in receipts : Observation(m).idempotency_key = o.idempotency_key}
  IN  /\ Reading(h, "RECEIPT")
      /\ CASE same = {} -> Goto(h, call, "SEQUENCE") /\ UNCHANGED answers
           [] call.message \in same -> Goto(h, call, "REPLAY_CHUNKS") /\ UNCHANGED answers
           [] same # {} /\ call.message \notin same -> Reply(h, 409, "IDEMPOTENCY_CONFLICT", Null)

(* replayResult: the chunks first, then the completion. *)
ReplayChunks(h) ==
  LET call == calls[h]
  IN  /\ Reading(h, "REPLAY_CHUNKS")
      /\ Goto(h, [call EXCEPT !.chunks = ChunksOf(Observation(call.message))], "REPLAY_COMPLETION")
      /\ UNCHANGED answers

ReplayCompletion(h) ==
  LET call == calls[h]
      o    == Observation(call.message)
      complete == o.identity \in completions \/ Indexes(call.chunks) = 0 .. o.chunkCount - 1
  IN  /\ Reading(h, "REPLAY_COMPLETION")
      /\ Reply(h, 200, "DUPLICATE", IF complete THEN "COMPLETE" ELSE "INCOMPLETE")

SelectBySequence(h) ==
  LET call == calls[h]
      o    == Observation(call.message)
      rows == {b \in OfProducer(o) : Sequence(b) = o.identity.sequence}
      other == {b \in rows : b.batch_id # o.identity}
  IN  /\ Reading(h, "SEQUENCE")
      /\ \/ other = {} /\ Goto(h, call, "CLOSE") /\ UNCHANGED answers
         \/ \E b \in other : ContinuityConflict(h, call, "SEQUENCE_CONFLICT", b)

SelectByClose(h) ==
  LET call == calls[h]
      o    == Observation(call.message)
      rows == {b \in OfProducer(o) : BarClose(b) = o.identity.bar_close_epoch}
      other == {b \in rows : b.batch_id # o.identity}
  IN  /\ Reading(h, "CLOSE")
      /\ \/ other = {} /\ Goto(h, call, "BATCH") /\ UNCHANGED answers
         \/ \E b \in other : ContinuityConflict(h, call, "BAR_CLOSE_CONFLICT", b)

SelectBatch(h) ==
  LET call == calls[h]
      o    == Observation(call.message)
      rows == {b \in batches : b.batch_id = o.identity}
  IN  /\ Reading(h, "BATCH")
      /\ CASE \E b \in rows : b.chunk_count # o.chunkCount -> StoreConflict(h, call, "INCONSISTENT_CHUNK_COUNT")
           [] \E b \in rows : b.chunk_count = o.chunkCount /\ b.metadata # o.metadata ->
                StoreConflict(h, call, "INCONSISTENT_BATCH_METADATA")
           [] \A b \in rows : b = BatchRow(o) ->
                Goto(h, [call EXCEPT !.found = rows # {}], "NEIGHBORS") /\ UNCHANGED answers

(* The neighbours are looked at in the order of their sequences. *)
SelectNeighbors(h) ==
  LET call == calls[h]
      o    == Observation(call.message)
      bad  == {b \in Neighbors(o) : ~sameProducerIdentity(b, o.metadata) \/ OutOfOrder(b, o)}
      first == CHOOSE b \in bad : \A c \in bad : Sequence(b) <= Sequence(c)
  IN  /\ Reading(h, "NEIGHBORS")
      /\ IF bad = {} THEN Goto(h, call, "CHUNKS") /\ UNCHANGED answers
         ELSE ContinuityConflict(h, call, IF sameProducerIdentity(first, o.metadata) THEN "SEQUENCE_TIME_CONFLICT"
                                          ELSE "PRODUCER_IDENTITY_CONFLICT", Null)

Assembled(call) == assembleValidatedChunks(call.chunks, call.message)

ListChunks(h) ==
  LET stored   == ChunksOf(Observation(calls[h].message))
      call     == [calls[h] EXCEPT !.chunks = stored]
      index    == Observation(call.message).chunkIndex
      assembly == Assembled(call)
      setups   == {b.setupId : b \in assembly.setups}
  IN  /\ Reading(h, "CHUNKS")
      /\ CASE index \in Indexes(stored \ {call.message}) -> StoreConflict(h, call, "IMMUTABLE_ID_CONFLICT")
           [] index \notin Indexes(stored \ {call.message}) /\ assembly.status \in EntryStoreConflictCode ->
                StoreConflict(h, call, assembly.status)
           [] index \notin Indexes(stored \ {call.message}) /\ assembly.status = "INCOMPLETE" ->
                Goto(h, call, "COMMIT") /\ UNCHANGED answers
           [] index \notin Indexes(stored \ {call.message}) /\ assembly.status = "COMPLETE" ->
                /\ Goto(h, [call EXCEPT !.known = {<<e.setup_id, CloseOf(e.input)>> :
                                                     e \in {f \in events : f.setup_id \in setups}}],
                        IF setups = {} THEN "CATALOG" ELSE "STATE")
                /\ UNCHANGED answers

(***************************************************************************)
(* loadEvaluationState: three reads that run side by side.                 *)
(***************************************************************************)

SetupIds(call) == {b.setupId : b \in Assembled(call).setups}

Loaded(h, call) ==
  /\ calls' = [calls EXCEPT ![h] =
       [call EXCEPT !.pc = IF call.events # Null /\ call.revisions # Null /\ call.terminals # Null
                           THEN "IDENTITIES" ELSE "STATE"]]
  /\ UNCHANGED answers

LoadEvents(h) ==
  LET call == calls[h]
  IN  /\ Reading(h, "STATE")
      /\ call.events = Null
      /\ Loaded(h, [call EXCEPT !.events = {e \in events : e.setup_id \in SetupIds(call)}])

\* Mutant: every evaluation counts as the first of its setup.
LoadRevisionsNever(h) ==
  LET call == calls[h]
  IN  /\ Reading(h, "STATE")
      /\ call.revisions = Null
      /\ Loaded(h, [call EXCEPT !.revisions = [s \in SetupIds(call) |-> 0]])

LoadRevisions(h) ==
  LET call == calls[h]
      Revisions(s) == {r.selection.revision : r \in {q \in selections : q.setup_id = s}}
  IN  /\ Reading(h, "STATE")
      /\ call.revisions = Null
      /\ Loaded(h, [call EXCEPT !.revisions = [s \in SetupIds(call) |-> Max({0} \cup Revisions(s))]])

LoadTerminals(h) ==
  LET call == calls[h]
  IN  /\ Reading(h, "STATE")
      /\ call.terminals = Null
      /\ Loaded(h, [call EXCEPT !.terminals = {t \in terminals : t.setup_id \in SetupIds(call)}])

loadEvaluationState(h) == LoadEvents(h) \/ LoadRevisions(h) \/ LoadTerminals(h)

(***************************************************************************)
(* Evaluation and the transaction.                                         *)
(***************************************************************************)

Evaluations(call) ==
  IF Assembled(call).status # "COMPLETE" THEN {}
  ELSE {prepareEvaluation(deployment, entry, Observation(call.message).metadata,
                          {e.input : e \in {f \in call.events : f.setup_id = entry.setupId}},
                          call.revisions[entry.setupId]) : entry \in Assembled(call).setups}

(* preflightIdentities, once the evaluations are there. *)
PreflightIdentities(h) ==
  /\ Reading(h, "IDENTITIES")
  /\ \E evaluations \in {Evaluations(calls[h])} :
       LET call      == calls[h]
           conflicts == {e.conflict : e \in evaluations} \ {Null}
           wanted    == {ObjectId(row) : row \in UNION {ObjectsOf(e.backend) : e \in evaluations}}
       IN  \/ \E code \in conflicts : StoreConflict(h, call, code)
           \/ /\ conflicts = {}
              /\ Goto(h, [call EXCEPT !.identities = wanted \cap {ObjectId(row) : row \in objects}], "CATALOG")
              /\ UNCHANGED answers

(* sourceCatalogStatements, and the ends of the attempts as they were read. *)
SourceCatalog(h) ==
  LET call == calls[h]
      Ended(e) == {t \in call.terminals : t.setup_id = e.setupId}
  IN  /\ Reading(h, "CATALOG")
      /\ IF \E e \in Evaluations(call) : \E t \in Ended(e) : t.terminal # e.terminal
         THEN StoreConflict(h, call, "TERMINAL_FACT_CONFLICT")
         ELSE Goto(h, [call EXCEPT !.catalog = catalog], "COMMIT") /\ UNCHANGED answers

EventRows(call, evaluations) ==
  UNION {{[setup_id |-> e.setupId, batch_id |-> Observation(call.message).identity, input |-> input] :
            input \in e.newEvents} : e \in evaluations}

TerminalRows(call, evaluations) ==
  {[setup_id |-> e.setupId, terminal |-> e.terminal] :
     e \in {f \in evaluations : f.terminal # Null /\ ~\E t \in call.terminals : t.setup_id = f.setupId}}

ObjectRows(call, evaluations) ==
  {row \in UNION {ObjectsOf(e.backend) : e \in evaluations} : ObjectId(row) \notin call.identities}

(* A selection with its members and its parity, and the bars it was computed from. *)
SelectionRows(call, evaluations) ==
  {[setup_id |-> e.setupId, batch_id |-> Observation(call.message).identity,
    selection |-> e.effective @@ e.backend.selection, parity |-> e.parity,
    members |-> {ObjectId(row) : row \in ObjectsOf(e.backend)},
    stream |-> {CloseOf(r) : r \in e.stream},
    known |-> {k[2] : k \in {j \in call.known : j[1] = e.setupId}}] : e \in evaluations}

\* Mutant: inserting a batch row again is ignored.
BatchClashesWithOthers(call) ==
  LET o == Observation(call.message)
  IN  \E b \in OfProducer(o) : /\ b.batch_id # o.identity
                               /\ \/ Sequence(b) = o.identity.sequence
                                  \/ BarClose(b) = o.identity.bar_close_epoch
                                  \/ ~sameProducerIdentity(b, o.metadata)
                                  \/ OutOfOrder(b, o)

(* The keys and triggers that make a transaction fail so that it is tried again. *)
BatchClashes(call) ==
  LET o == Observation(call.message)
  IN  /\ ~call.found
      /\ \E b \in OfProducer(o) : \/ Sequence(b) = o.identity.sequence
                                  \/ BarClose(b) = o.identity.bar_close_epoch
                                  \/ ~sameProducerIdentity(b, o.metadata)
                                  \/ OutOfOrder(b, o)

ReceiptClashes(call) ==
  \E m \in receipts : Observation(m).idempotency_key = Observation(call.message).idempotency_key

\* Mutant: revisions have no key.
EvaluationClashesWithoutRevision(call, evaluations) ==
  \/ \E r \in EventRows(call, evaluations) : \E e \in events :
       e.setup_id = r.setup_id /\ CloseOf(e.input) = CloseOf(r.input)
  \/ \E r \in TerminalRows(call, evaluations) : \E t \in terminals : t.setup_id = r.setup_id
  \/ \E r \in ObjectRows(call, evaluations) : \E row \in objects : ObjectId(row) = ObjectId(r)

EvaluationClashes(call, evaluations) ==
  \/ \E r \in EventRows(call, evaluations) : \E e \in events :
       e.setup_id = r.setup_id /\ CloseOf(e.input) = CloseOf(r.input)
  \/ \E r \in TerminalRows(call, evaluations) : \E t \in terminals : t.setup_id = r.setup_id
  \/ \E r \in ObjectRows(call, evaluations) : \E row \in objects : ObjectId(row) = ObjectId(r)
  \/ \E r \in SelectionRows(call, evaluations) : \E q \in selections :
       q.setup_id = r.setup_id /\ q.selection.revision = r.selection.revision

(* The source claims and the completion, of a batch that is complete only. *)
CompletionClashes(call) ==
  \/ ~call.catalog /\ catalog
  \/ Observation(call.message).identity \in completions

(* A trigger wants every member that is a candidate among the considered ones. *)
MembersAreConsidered(evaluations) ==
  \A e \in evaluations : \A c \in e.backend.candidates :
    c.candidate_id \in e.backend.selection.candidate_ids_considered

Stored(call, evaluations, complete) ==
  LET o == Observation(call.message)
  IN  /\ receipts' = receipts \cup {call.message}
      /\ batches' = IF call.found THEN batches ELSE batches \cup {BatchRow(o)}
      /\ completions' = IF complete THEN completions \cup {o.identity} ELSE completions
      /\ catalog' = (catalog \/ complete)
      /\ events' = events \cup EventRows(call, evaluations)
      /\ terminals' = terminals \cup TerminalRows(call, evaluations)
      /\ objects' = objects \cup ObjectRows(call, evaluations)
      /\ selections' = selections \cup SelectionRows(call, evaluations)

Commit(h) ==
  /\ calls[h] # Null
  /\ calls[h].pc = "COMMIT"
  /\ \E evaluations \in {Evaluations(calls[h])} :
       LET call     == calls[h]
           complete == Assembled(call).status = "COMPLETE"
       IN  IF \/ ReceiptClashes(call)
              \/ BatchClashes(call)
              \/ complete /\ (CompletionClashes(call) \/ EvaluationClashes(call, evaluations))
           THEN RetryOrFail(h, call) /\ UNCHANGED tables
           ELSE IF ~MembersAreConsidered(evaluations)
           THEN Reply(h, 503, "STORAGE_UNAVAILABLE", Null) /\ UNCHANGED tables
           ELSE Stored(call, evaluations, complete) /\ Goto(h, call, "ANSWER") /\ UNCHANGED answers
  /\ UNCHANGED <<deployment, quarantine>>

(* verifyRepeatedIdentities, and the receipt read back. *)
Answer(h) ==
  LET call == calls[h]
      own  == {r \in selections : r.batch_id = Observation(call.message).identity}
      verified == \A r \in own : r.members \subseteq {ObjectId(row) : row \in objects}
  IN  /\ Reading(h, "ANSWER")
      /\ IF verified /\ call.message \in receipts
         THEN Reply(h, 202, "RECEIVED", IF Assembled(call).status = "COMPLETE" THEN "COMPLETE" ELSE "INCOMPLETE")
         ELSE Reply(h, 503, "STORAGE_UNAVAILABLE", Null)

QuarantineRead(h) ==
  LET call == calls[h]
  IN  /\ Reading(h, "QUARANTINE_READ")
      /\ IF call.conflict \in quarantine THEN Reply(h, 409, call.conflict.code, Null)
         ELSE Goto(h, call, "QUARANTINE_INSERT") /\ UNCHANGED answers

(* An insert that fails because the row is there by now is answered like the other. *)
QuarantineInsert(h) ==
  LET call == calls[h]
  IN  /\ call # Null
      /\ call.pc = "QUARANTINE_INSERT"
      /\ quarantine' = quarantine \cup {call.conflict}
      /\ Reply(h, 409, call.conflict.code, Null)
      /\ UNCHANGED <<deployment, tables>>

(* A request ends without an answer: the worker is stopped or the connection lost. *)
Abandon(h) ==
  /\ calls[h] # Null
  /\ calls' = [calls EXCEPT ![h] = Null]
  /\ UNCHANGED <<deployment, tables, quarantine, answers>>

StoreInit ==
  /\ receipts = {} /\ batches = {} /\ completions = {} /\ events = {} /\ terminals = {}
  /\ objects = {} /\ selections = {} /\ catalog = FALSE /\ quarantine = {}
  /\ calls = [h \in Handlers |-> Null]
  /\ answers = {}

HandlerStep(h) ==
  \/ SelectReceipt(h) \/ ReplayChunks(h) \/ ReplayCompletion(h)
  \/ SelectBySequence(h) \/ SelectByClose(h) \/ SelectBatch(h) \/ SelectNeighbors(h) \/ ListChunks(h)
  \/ loadEvaluationState(h) \/ PreflightIdentities(h) \/ SourceCatalog(h) \/ Commit(h) \/ Answer(h)
  \/ QuarantineRead(h) \/ QuarantineInsert(h)
================================================================================
