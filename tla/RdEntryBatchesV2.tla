---------------------------- MODULE RdEntryBatchesV2 ----------------------------
(***************************************************************************)
(* Batches of the second entry contract on their way from the producer     *)
(* into the store.  A load is a script together with how its reports are   *)
(* split, delivered and disturbed: over how many chunks, in order or not,  *)
(* how many requests run side by side, how often a chunk is delivered      *)
(* again or a request ends without an answer, and which messages come from *)
(* a producer that is not the one the script describes.                    *)
(***************************************************************************)
EXTENDS RdEntryProducerV2

CONSTANTS
  Load(_),            \* the load with a number
  LoadCount           \* how many loads there are

VARIABLES
  load,               \* the number of the load of this behaviour
  delivered,          \* the messages delivered so far
  repeats,            \* deliveries of messages delivered before
  abandoned           \* requests that ended without an answer

vars == <<storeVars, load, delivered, repeats, abandoned>>

Loads == 1 .. LoadCount

(***************************************************************************)
(* The messages of a load.                                                 *)
(***************************************************************************)

(* Applying @@ makes TLC keep the values of a table. *)
AttemptTable == [l \in Loads |-> Attempt(Load(l).script, 1)] @@ <<>>

(* The bars that are reported, one batch each. *)
BarsOf(l) ==
  LET first == EngagedBar(Load(l).script)
  IN  first .. first + Len(AttemptTable[l].events) - 1

BundleTable ==
  [l \in Loads |->
     [k \in BarsOf(l) |-> Bundle(Load(l).script, 1, AttemptTable[l], k - Min(BarsOf(l)) + 1)] @@ <<>>] @@ <<>>

(* The setups of a load are alike, and spread over the chunks in turn. *)
BundlesIn(l, k, chunk) ==
  {[BundleTable[l][k] EXCEPT !.setupId = s] :
     s \in {t \in 1 .. Load(l).setups : (t - 1) % Load(l).chunks = chunk}}

HonestPayload(l, k, chunk) ==
  LET identity == [producer_instance_id |-> "producer", sequence |-> k,
                   kind |-> IF k = Min(BarsOf(l)) THEN "snapshot" ELSE "incremental",
                   bar_close_epoch |-> 300 * k]
  IN  [identity |-> identity,
       metadata |-> [bar_open_epoch |-> 300 * (k - 1), settings_hash |-> Load(l).settings],
       chunk_count |-> Load(l).chunks, chunk_index |-> chunk, idempotency_key |-> <<identity, chunk>>,
       eb |-> BundlesIn(l, k, chunk)]

(* A payload under another sequence. *)
Resequenced(payload, sequence) ==
  LET identity == [payload.identity EXCEPT !.sequence = sequence]
  IN  [payload EXCEPT !.identity = identity, !.idempotency_key = <<identity, payload.chunk_index>>]

(* Diagnostics that differ from what the producer should have said. *)
Misreported(bundle, variant) ==
  CASE variant = "CANDIDATE" ->
         [bundle EXCEPT !.candidates = {[c EXCEPT !.st = IF @ = "MATCHED" THEN "BLOCKED" ELSE @] : c \in @}]
    [] variant = "EVIDENCE" ->
         [bundle EXCEPT !.evidence = {}, !.handling = {}, !.selection = Null]
    [] variant = "HANDLING" ->
         [bundle EXCEPT !.handling = {[h EXCEPT !.px = @ + 1] : h \in @}]
    [] variant = "NO_HANDLING" -> [bundle EXCEPT !.handling = {}]
    [] variant = "NOTHING" ->
         [bundle EXCEPT !.candidates = {}, !.evidence = {}, !.handling = {}, !.selection = Null]
    [] variant = "REASON" ->
         [bundle EXCEPT !.selection = IF @ = Null THEN Null ELSE [@ EXCEPT !.r = "NO_CANDIDATE"]]
    [] variant = "UNSELECTED" -> [bundle EXCEPT !.selection = Null]
    [] variant = "PAST" -> [bundle EXCEPT !.facts.b[1].l = @ - 1]
    [] variant = "LIVE_TICK" ->
         [bundle EXCEPT !.evidence = @ \cup
            {[ci |-> KeyOf(c), t |-> 300, px |-> 0, h |-> {}, f |-> "UNRESOLVED", p |-> "REALTIME_TICK", r |-> 0,
              cs |-> 300, ce |-> 300, ac |-> {"SHADOW_REALTIME_ONLY_NOT_REPLAYABLE"}, pr |-> {}, fr |-> {},
              sc |-> sourceClaimsForModel(c.m)] : c \in bundle.candidates}]

Disagreements == {"CANDIDATE", "EVIDENCE", "HANDLING", "NO_HANDLING", "NOTHING", "REASON", "UNSELECTED"}

Misreports == Disagreements \cup {"PAST", "LIVE_TICK"}

Payload(m) ==
  LET honest == HonestPayload(m.load, m.batch, m.chunk)
  IN  CASE m.variant = "HONEST" -> honest
        [] m.variant \in Misreports -> [honest EXCEPT !.eb = {Misreported(b, m.variant) : b \in @}]
        [] m.variant = "EMPTY" -> [honest EXCEPT !.eb = {}]
        [] m.variant = "SETTINGS" -> [honest EXCEPT !.metadata.settings_hash = "other"]
        [] m.variant = "SEQUENCE" -> Resequenced(honest, m.batch + 1)
        [] m.variant = "COUNT" -> [honest EXCEPT !.chunk_count = @ + 1]
        [] m.variant = "TWICE" -> [honest EXCEPT !.eb = UNION {BundlesIn(m.load, m.batch, c) :
                                                                 c \in 0 .. Load(m.load).chunks - 1}]

Message(l, k, chunk, variant) == [load |-> l, batch |-> k, chunk |-> chunk, variant |-> variant]

HonestMessages(l) == {Message(l, k, c, "HONEST") : k \in BarsOf(l), c \in 0 .. Load(l).chunks - 1}

(* The messages of another producer are given by bar, chunk and variant. *)
OtherMessages(l) == {Message(l, o[1], o[2], o[3]) : o \in {p \in Load(l).others : p[1] \in BarsOf(l)}}

Variants(l) == {"HONEST"} \cup {o[3] : o \in Load(l).others}

ObservationTable ==
  [l \in Loads |->
     [k \in BarsOf(l) |->
        [c \in 0 .. Load(l).chunks - 1 |->
           [v \in Variants(l) |-> validateEntryV2Payload(Payload(Message(l, k, c, v)))] @@ <<>>] @@ <<>>]
       @@ <<>>] @@ <<>>

(* What Observation is in a behaviour. *)
Validated(m) ==
  LET chunks == ObservationTable[m.load][m.batch]
  IN  chunks[m.chunk][m.variant]

(***************************************************************************)
(* Delivery.                                                               *)
(***************************************************************************)

BatchesInit ==
  /\ StoreInit
  /\ load \in Loads
  /\ deployment = Load(load).deployment
  /\ delivered = {} /\ repeats = 0 /\ abandoned = 0

Messages == HonestMessages(load) \cup OtherMessages(load)

Before(m, n) == m.batch < n.batch \/ (m.batch = n.batch /\ m.chunk < n.chunk)

Idle == \A h \in Handlers : calls[h] = Null

Answered(m) == \E a \in answers : a.message = m

(* An orderly load waits for the answer before it goes on.  Handlers have no  *)
(* identity, so the first free one is taken.                                   *)
MayDeliver(h, m) ==
  /\ h <= Load(load).handlers
  /\ \A g \in Handlers : g < h => calls[g] # Null
  /\ Load(load).orderly => /\ Idle
                           /\ \A n \in HonestMessages(load) : Before(n, m) => Answered(n)

Deliver(h, m) ==
  /\ m \in Messages \ delivered
  /\ MayDeliver(h, m)
  /\ Receive(h, m)
  /\ delivered' = delivered \cup {m}
  /\ UNCHANGED <<load, repeats, abandoned>>

(* The sender or the network repeats a request. *)
Redeliver(h, m) ==
  /\ m \in delivered
  /\ repeats < Load(load).repeats
  /\ MayDeliver(h, m)
  /\ Receive(h, m)
  /\ repeats' = repeats + 1
  /\ UNCHANGED <<load, delivered, abandoned>>

Lose(h) ==
  /\ abandoned < Load(load).abandons
  /\ Abandon(h)
  /\ abandoned' = abandoned + 1
  /\ UNCHANGED <<load, delivered, repeats>>

Handle(h) == HandlerStep(h) /\ UNCHANGED <<load, delivered, repeats, abandoned>>

(* Every message is delivered, or waits for one that will not be repeated. *)
Finished == Idle /\ (Messages = delivered \/ abandoned > 0) /\ UNCHANGED vars

BatchesNext ==
  \/ \E h \in Handlers : \E m \in Messages : Deliver(h, m)
  \/ \E h \in Handlers : \E m \in delivered : Redeliver(h, m)
  \/ \E h \in Handlers : Lose(h)
  \/ \E h \in Handlers : Handle(h)
  \/ Finished

BatchesSpec == BatchesInit /\ [][BatchesNext]_vars

(***************************************************************************)
(* What the market says, for reference.                                    *)
(***************************************************************************)

Position(l, k) == k - Min(BarsOf(l)) + 1

OpinionAt(l, k) == Opinion(Load(l).script, AttemptTable[l], Position(l, k))

(* The n-th minute touches the zone, or rises above the higher-timeframe open. *)
Touching(script, n) == Market(script)[n] \in {"Contact", "Spring", "Wild"}

Rising(script, n) == Market(script)[n] \in {"Recross", "Spring", "Wild", "Surge"}

(* A flip in minute m of the candle that starts after minute s: the zone was   *)
(* touched first, this is the first rise, and the feed has every minute up to  *)
(* the end of the bar.                                                         *)
ProvenFlip(script, s, m) ==
  /\ script.fidelity = "EXACT" /\ script.ordered
  /\ Rising(script, m)
  /\ \A n \in s + 1 .. m - 1 : ~Rising(script, n)
  /\ \/ \E n \in s + 1 .. m - 1 : Touching(script, n)
     \/ Market(script)[m] = "Spring"
  /\ script.missing \cap (s + 1 .. 5 * ((m + 4) \div 5)) = {}

ProvenFlips(script, k) ==
  {60 * m : m \in {n \in 1 .. 5 * k : \E c \in script.contexts : ProvenFlip(script, ((n - 1) \div c) * c, n)}}

ProvenCloses(script, k) ==
  {300 * j : j \in {i \in 1 .. k : script.fidelity = "EXACT" /\ Market(script)[5 * i] \in {"Up", "Surge"}}}

TriggerOf(opinion) ==
  (CHOOSE e \in opinion.evidence : e.evidence_id = opinion.selection.canonical_evidence_id).observed_trigger_epoch

(***************************************************************************)
(* Properties of the rules, looked at once for every load.                 *)
(***************************************************************************)

(* The canonical entry of an attempt is one the market proves: a directional   *)
(* close, or a touch of the zone and then the first rise through the open of   *)
(* the higher timeframe in a gapless feed.  No proven entry of the other model *)
(* came before it or in the same instant                                       *)
(* (evaluateEntryMatch, selectCanonicalDecision).                              *)
CanonicalEntryIsProvenFirst ==
  delivered = {} =>
    LET script == Load(load).script
    IN  \A k \in BarsOf(load) : \A opinion \in {OpinionAt(load, k)} \ {Null} :
          /\ opinion.selection.canonical_model = "HTF_FLIP" =>
               /\ TriggerOf(opinion) \in ProvenFlips(script, k)
               /\ \A t \in ProvenCloses(script, k) : t >= EngagedEpoch(script) => TriggerOf(opinion) < t
          /\ opinion.selection.canonical_model = "DIR_CLOSE" =>
               /\ TriggerOf(opinion) \in ProvenCloses(script, k)
               /\ \A t \in ProvenFlips(script, k) : TriggerOf(opinion) < t

(* The vector a test of the shared rules would keep for an attempt. *)
Vector(listed, input, edge, pine) ==
  LET Close(i) == CloseOf(listed[i].match_request)
  IN  [case_id |-> 1, setup_id |-> 1, calculation_start_epoch |-> 0, emission_start_epoch |-> Close(1),
       emission_end_epoch |-> Close(Len(listed)), input |-> input, edge_input |-> edge, pine_edge_input |-> pine,
       expected |-> Evaluated(edge), pine_expected |-> Evaluated(pine)]

VectorOf(listed) ==
  LET input == [setup_id |-> 1, events |-> listed,
                setup_invalidated |-> accumulatedInvalidated({listed[i].match_request : i \in DOMAIN listed}),
                revision |-> 1, evaluated_at_epoch |-> CloseOf(Last(listed).match_request)]
      edge  == expandRawInput(input)
  IN  Vector(listed, input, edge, pineProjection(edge))

(* The vector of every attempt is one the vector contract accepts: the scan,   *)
(* the expanded transcripts and the evaluation agree with one another, and the *)
(* projection for the chart, which lowers the fidelity of the setup, never     *)
(* comes out PAPER_ELIGIBLE (validateCaseSemantics).                           *)
AttemptsMakeVectors ==
  delivered = {} =>
    \A listed \in {AttemptTable[load].events} \ {<<>>} : parseRdEntryOracleVectorDocument({VectorOf(listed)})

(***************************************************************************)
(* Properties of the store.                                                *)
(***************************************************************************)

SelectionsOf(setup) == {r \in selections : r.setup_id = setup}

Revision(row) == row.selection.revision

(* Every later evaluation has seen the bars committed before it began, and     *)
(* only stored bars; the revisions of a setup count its evaluations without a  *)
(* gap, whichever requests computed them side by side                          *)
(* (loadEvaluationState, the revision key of migration 0023).                  *)
SelectionsSeeEarlierCommits ==
  \A r \in selections :
    /\ r.known \subseteq r.stream
    /\ r.stream \subseteq {CloseOf(e.input) : e \in {f \in events : f.setup_id = r.setup_id}}
    /\ {Revision(q) : q \in SelectionsOf(r.setup_id)} = 1 .. Cardinality(SelectionsOf(r.setup_id))

(* A canonical entry is not revised by later bars: an evaluation whose stream  *)
(* only adds later bars to the stream of another keeps its canonical candidate *)
(* and its evidence (evaluateEntryStream over loadStream).                     *)
CanonicalEntryIsKept ==
  \A q, r \in selections :
    /\ q.setup_id = r.setup_id
    /\ q.selection.canonical_candidate_id # Null
    /\ q.stream \subseteq r.stream
    /\ \A t \in r.stream \ q.stream : \A u \in q.stream : u < t
    => /\ r.selection.canonical_candidate_id = q.selection.canonical_candidate_id
       /\ r.selection.canonical_evidence_id = q.selection.canonical_evidence_id

(* A batch whose chunks are all stored is complete, whichever request brought  *)
(* the last one.  The store promises it through the key of the batch row, so   *)
(* only for batches of one or two chunks when requests overlap: of two         *)
(* overlapping chunks after the first neither sees the other (ListChunks).     *)
(* Within that bound an answer that says COMPLETE is true.                     *)
AssembledIsCompleted ==
  \A b \in batches :
    b.chunk_count <= 2 \/ Load(load).handlers = 1 =>
      LET chunks == {m \in receipts : Observation(m).identity = b.batch_id}
      IN  /\ Indexes(chunks) = 0 .. b.chunk_count - 1 => b.batch_id \in completions
          /\ \A a \in answers :
               a.assembly = "COMPLETE" /\ Observation(a.message).identity = b.batch_id => b.batch_id \in completions

(* A stored selection is PAPER_ELIGIBLE only under an armed deployment, for    *)
(* the approved settings, and when the producer reported exactly the           *)
(* candidates, evidence, handling and selection of the evaluation; the ticks   *)
(* it saw live are not compared                                                *)
(* (compareProducerDiagnostic, effectiveSelection).                            *)
PaperNeedsAgreement ==
  \A r \in selections :
    r.selection.action = "PAPER_ELIGIBLE" =>
      /\ deployment = [binding |-> [settings_hash |-> Load(load).settings], enabled |-> TRUE, matches |-> TRUE]
      /\ r.selection.policy_action = "PAPER_ELIGIBLE"
      /\ \E m \in receipts :
           /\ Observation(m).identity = r.batch_id
           /\ r.setup_id \in {b.setupId : b \in Observation(m).entryBatches}
           /\ m.variant \notin Disagreements
           /\ \E said \in {BundleTable[load][m.batch].selection} \ {Null} : said.r = r.selection.reason

ModelsBefore(l, k) ==
  IF k = Min(BarsOf(l)) THEN {} ELSE {c.model : c \in OpinionAt(l, k - 1).candidates}

(* The contract has no place for a bar after which the producer has this       *)
(* opinion: a pattern that is only rejected, more handling than a report may   *)
(* carry, or both models seen other than by a flip and then a close in a later *)
(* bar.                                                                        *)
Unplaceable(l, k, opinion) ==
  \/ \E c \in opinion.candidates : c.model \notin ACTIVE_ENTRY_MODELS
  \/ Cardinality(opinion.handling) > MAX_ENTRY_HANDLING_PER_SETUP
  \/ /\ AttemptTable[l].events[Position(l, k)].match_request.setup.terminal_reason = "BOTH_ACTIVE_MODELS_OBSERVED"
     /\ ModelsBefore(l, k) \cap ACTIVE_ENTRY_MODELS # {"HTF_FLIP"}

(* Nor for any bar after it. *)
Placeable(l) == {k \in BarsOf(l) : \A j \in BarsOf(l) : j <= k => ~Unplaceable(l, j, OpinionAt(l, j))}

(* A producer that reports every bar in order, and repeats what was not        *)
(* answered, has exactly the reports accepted that the contract has a place    *)
(* for.  They are complete, each was evaluated to what the producer itself     *)
(* made of it, and the rows are those of the last evaluation.                  *)
OrderlyReportsAreStored ==
  /\ Load(load).orderly /\ Load(load).others = {}
  /\ Idle /\ \A m \in Messages : Answered(m)
  => /\ {id.sequence : id \in completions} = Placeable(load)
     /\ {Sequence(r) : r \in SelectionsOf(1)} = {id.sequence : id \in completions}
     /\ quarantine = {}
     /\ \A r \in selections : \A opinion \in {OpinionAt(load, Sequence(r))} :
          /\ r.parity.status = IF SelectionWire(opinion.selection) = Null THEN "NOT_PROVIDED" ELSE "MATCH"
          /\ r.selection.reason = opinion.selection.reason
          /\ Sequence(r) = Max({Sequence(q) : q \in selections}) =>
               {row \in objects : row.candidate_id.setup_id = 1} = ObjectsOf(opinion)
================================================================================
