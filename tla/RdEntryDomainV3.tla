---------------------------- MODULE RdEntryDomainV3 ----------------------------
(***************************************************************************)
(* The records of the third entry contract of the observation edge and     *)
(* the validators every one of them passes before it is used               *)
(* (rd-entry-domain-v3.ts): candles, the proofs of the three entry models, *)
(* candidates, evidence, the selection and the whole evaluation.           *)
(*                                                                         *)
(* Epochs are seconds and prices are ticks, as in the code.  A digest is   *)
(* the record it is computed from, so two digests are equal exactly when   *)
(* the hashed fields are; a sorted list of distinct identifiers is a set.  *)
(* A validator that throws is a predicate that is FALSE.                   *)
(***************************************************************************)
EXTENDS Integers, FiniteSets, FiniteSetsExt

CONSTANT Null         \* null and undefined

Nullable(S) == S \cup {Null}

EntryModelV3 == {"BOC", "DIR_CLOSE", "HTF_FLIP"}

BocTier == {"HTF_TIMED", "DISCRETIONARY_5M"}

EvidenceReplayability == {"REPLAYABLE", "LIVE_EXACT_NON_REPLAYABLE"}

EntryDirectionV3 == {"LONG", "SHORT"}

CandidateStateV3 == {"MATCHED", "BLOCKED", "REJECTED"}

CandidateFidelityV3 == {"EXACT", "CALIBRATED", "DISCRETIONARY", "UNRESOLVED"}

LiquidityCohortV3 == {"ONE_CANDLE", "TWO_PLUS_CANDLES"}

ProofPlaneV3 == {"CONFIRMED_5M", "LOWER_TIMEFRAME_REPLAY", "REALTIME_TICK", "EXTERNAL_ARCHIVED_TICK"}

AmbiguityCodeV3 == {"SHADOW_SAME_CHILD_BAR_ORDER", "SHADOW_MISSING_INTRABAR_COVERAGE",
                    "SHADOW_REALTIME_ONLY_NOT_REPLAYABLE"}

CanonicalReasons == {"ONLY_EXACT_TRIGGER", "EARLIEST_EXACT_TRIGGER",
                     "FALLBACK_TO_CONFIRMED_CLOSE", "CO_TRIGGER_SAME_EVENT"}

EmptyActions ==
  [CO_TRIGGER_PRICE_CONFLICT |-> "SHADOW_ONLY", NO_EXACT_CANDIDATE |-> "SHADOW_ONLY",
   SETUP_INVALIDATED |-> "NONE", NO_CANDIDATE |-> "NONE"]

SelectionReasonV3 == CanonicalReasons \cup DOMAIN EmptyActions

Contexts == SUBSET {15, 30, 60}

(***************************************************************************)
(* The records.                                                            *)
(***************************************************************************)

OrderedCandleV3 ==
  [open_epoch: Nat, close_epoch: Nat, open_ticks: Int, high_ticks: Int, low_ticks: Int, close_ticks: Int]

BocProofV3 ==
  [reference_candle: OrderedCandleV3, trigger_candle_open_epoch: Nat, trigger_epoch: Nat,
   trigger_sequence: Nat, trigger_ticks: Int, htf_boundary_epoch: Nullable(Nat),
   htf_context_minutes: Contexts, proof_plane: ProofPlaneV3, replayability: EvidenceReplayability,
   fidelity: CandidateFidelityV3, coverage_start_epoch: Nat, coverage_end_epoch: Nat,
   is_realtime: BOOLEAN]

EntryTriggerProofV3 ==
  [event_anchor_epoch: Nat, trigger_epoch: Nat, trigger_sequence: Nat, trigger_ticks: Int,
   htf_open_ticks: Int, htf_context_minutes: Contexts, proof_plane: ProofPlaneV3,
   replayability: EvidenceReplayability, fidelity: CandidateFidelityV3, coverage_start_epoch: Nat,
   coverage_end_epoch: Nat, is_realtime: BOOLEAN, contact_candle: Nullable(OrderedCandleV3),
   recross_candle: Nullable(OrderedCandleV3), coverage_gap_detected: BOOLEAN,
   full_lifecycle_ordered: BOOLEAN, destination_seen_before_contact: BOOLEAN,
   ambiguity_codes: SUBSET AmbiguityCodeV3]

SetupEntryFactsV3 ==
  [setup_id: Nat, direction: EntryDirectionV3, zone_top_ticks: Int, zone_bottom_ticks: Int,
   zone_engaged_epoch: Nullable(Nat), invalidated_before_entry: BOOLEAN,
   common_fidelity: CandidateFidelityV3, liquidity_cohort: LiquidityCohortV3,
   one_candle_enabled: BOOLEAN]

OpenedSelectionSeed ==
  [confirmed_bar: OrderedCandleV3, trigger_sequence: Nat, revision: Nat, evaluated_at_epoch: Nat]

EntryArbitrationInputV3 ==
  [setup: SetupEntryFactsV3, boc_proof: Nullable(BocProofV3), directional_close: BOOLEAN,
   confirmed_bar: Nullable(OrderedCandleV3), close_trigger_sequence: Nat,
   htf_flip_proof: Nullable(EntryTriggerProofV3), observed_at_epoch: Nat, revision: Nat,
   evaluated_at_epoch: Nat, opened_selection_seed: Nullable(OpenedSelectionSeed)]

NoReference == [f \in {"open_epoch", "open_ticks", "high_ticks", "low_ticks", "close_ticks"} |-> Null]

(* What each model's claim list stands for; the claims of a record are the  *)
(* key of the list it carries.                                              *)
SOURCE_CLAIMS_V3 == {"BOC_HTF_TIMED", "BOC_DISCRETIONARY_5M", "DIR_CLOSE", "HTF_FLIP"}

EXPECTED_RULES ==
  [BOC |-> "ENTRY_BOC_HTF_TIMED", DIR_CLOSE |-> "ENTRY_DIR_CLOSE", HTF_FLIP |-> "ENTRY_HTF_FLIP"]

(***************************************************************************)
(* Identities.                                                             *)
(***************************************************************************)

Hashed(record, unhashed) == [f \in DOMAIN record \ unhashed |-> record[f]]

candidateIdV3(candidate) ==
  Hashed(candidate, {"candidate_id", "state", "source_claim_ids", "observed_at_epoch"})

evidencePayloadSha256V3(evidence) == Hashed(evidence, {"evidence_id", "observed_at_epoch"})

evidenceIdV3(evidence) ==
  [candidate_id |-> evidence.candidate_id, coverage_end_epoch |-> evidence.coverage_end_epoch,
   coverage_start_epoch |-> evidence.coverage_start_epoch,
   observed_trigger_epoch |-> evidence.observed_trigger_epoch,
   payload_sha256 |-> evidencePayloadSha256V3(evidence), proof_plane |-> evidence.proof_plane,
   trigger_sequence |-> evidence.trigger_sequence]

selectionIdV3(selection) ==
  Hashed(selection, {"selection_id", "canonical_model", "evaluated_at_epoch"})

(***************************************************************************)
(* The validators.                                                         *)
(***************************************************************************)

Ordered(open, high, low, close) ==
  /\ high >= Max({open, close, low})
  /\ low <= Min({open, close, high})

validateOrderedCandleV3(candle) ==
  /\ candle \in OrderedCandleV3
  /\ candle.close_epoch > candle.open_epoch
  /\ Ordered(candle.open_ticks, candle.high_ticks, candle.low_ticks, candle.close_ticks)

FiveMinuteBar(candle) ==
  /\ validateOrderedCandleV3(candle)
  /\ candle.close_epoch - candle.open_epoch = 300
  /\ candle.open_epoch % 300 = 0

Covered(proof, observed) ==
  /\ proof.coverage_start_epoch < proof.coverage_end_epoch
  /\ proof.coverage_end_epoch <= observed
  /\ proof.trigger_epoch \in proof.coverage_start_epoch .. proof.coverage_end_epoch

validateBocProofV3(proof, observed) ==
  /\ proof \in BocProofV3
  /\ Covered(proof, observed)
  /\ FiveMinuteBar(proof.reference_candle)
  /\ proof.trigger_candle_open_epoch % 300 = 0
  /\ proof.reference_candle.close_epoch <= proof.trigger_candle_open_epoch
  /\ proof.trigger_epoch \in proof.trigger_candle_open_epoch .. proof.trigger_candle_open_epoch + 299

validateFlipProofV3(proof, observed) ==
  /\ proof \in EntryTriggerProofV3
  /\ Covered(proof, observed)
  /\ \A candle \in {proof.contact_candle, proof.recross_candle} \ {Null} :
       /\ validateOrderedCandleV3(candle)
       /\ candle.open_epoch >= proof.coverage_start_epoch
       /\ candle.close_epoch <= proof.coverage_end_epoch
  /\ proof.contact_candle = Null => proof.recross_candle = Null
  /\ proof.contact_candle # Null => proof.event_anchor_epoch <= proof.contact_candle.open_epoch
  /\ proof.recross_candle # Null =>
       /\ proof.contact_candle.close_epoch <= proof.recross_candle.open_epoch
       /\ proof.trigger_epoch = proof.recross_candle.close_epoch
       /\ proof.trigger_ticks = proof.recross_candle.close_ticks
  /\ \A context \in proof.htf_context_minutes :
       proof.trigger_epoch < proof.event_anchor_epoch + context * 60

validateLiquidityCohortV3(setup) ==
  /\ setup.liquidity_cohort \in LiquidityCohortV3
  /\ setup.one_candle_enabled \in BOOLEAN
  /\ setup.liquidity_cohort = "ONE_CANDLE" => setup.one_candle_enabled /\ setup.common_fidelity # "EXACT"
  /\ setup.liquidity_cohort = "TWO_PLUS_CANDLES" => setup.common_fidelity # "DISCRETIONARY"

validateEntryArbitrationInputV3(input) ==
  /\ input \in EntryArbitrationInputV3
  /\ input.setup.zone_top_ticks > input.setup.zone_bottom_ticks
  /\ validateLiquidityCohortV3(input.setup)
  /\ input.observed_at_epoch <= input.evaluated_at_epoch
  /\ input.directional_close <=> input.confirmed_bar # Null
  /\ input.confirmed_bar # Null => FiveMinuteBar(input.confirmed_bar)
  /\ input.boc_proof # Null => validateBocProofV3(input.boc_proof, input.observed_at_epoch)
  /\ input.htf_flip_proof # Null => validateFlipProofV3(input.htf_flip_proof, input.observed_at_epoch)
  /\ input.opened_selection_seed # Null =>
       /\ input.setup.liquidity_cohort # "ONE_CANDLE"
       /\ FiveMinuteBar(input.opened_selection_seed.confirmed_bar)
       /\ input.opened_selection_seed.evaluated_at_epoch <= input.evaluated_at_epoch

validateEntryCandidateV3(candidate) ==
  /\ candidate.model \in EntryModelV3
  /\ candidate.state \in CandidateStateV3
  /\ candidate.direction \in EntryDirectionV3
  /\ candidate.event_anchor_epoch \in Nat
  /\ candidate.trigger_ordinal \in Nat \ {0}
  /\ candidate.observed_at_epoch \in Nat
  /\ candidate.source_claim_ids \in SOURCE_CLAIMS_V3
  /\ IF candidate.model = "BOC"
     THEN candidate.boc_tier \in BocTier /\ candidate.reference_candle_open_epoch \in Nat
     ELSE candidate.boc_tier = Null /\ candidate.reference_candle_open_epoch = Null

exactEvidenceRuleIsConsistent(candidate, evidence) ==
  /\ evidence.passed_rule_ids = {EXPECTED_RULES[candidate.model]}
  /\ evidence.failed_rule_ids = {}

expectedSourceClaimsV3(candidate) ==
  CASE candidate.model = "BOC" /\ candidate.boc_tier = "HTF_TIMED" -> "BOC_HTF_TIMED"
    [] candidate.model = "BOC" /\ candidate.boc_tier # "HTF_TIMED" -> "BOC_DISCRETIONARY_5M"
    [] candidate.model # "BOC" -> candidate.model

FlipFieldsAbsent(evidence) ==
  /\ evidence.htf_open_ticks = Null
  /\ evidence.contact_candle = Null
  /\ evidence.recross_candle = Null
  /\ evidence.coverage_gap_detected = Null
  /\ evidence.full_lifecycle_ordered = Null
  /\ evidence.destination_seen_before_contact = Null

FlipFieldsComplete(evidence) ==
  /\ evidence.htf_open_ticks \in Int
  /\ validateOrderedCandleV3(evidence.contact_candle)
  /\ validateOrderedCandleV3(evidence.recross_candle)
  /\ evidence.coverage_gap_detected \in BOOLEAN
  /\ evidence.full_lifecycle_ordered \in BOOLEAN
  /\ evidence.destination_seen_before_contact \in BOOLEAN
  /\ evidence.contact_candle.close_epoch <= evidence.recross_candle.open_epoch
  /\ evidence.observed_trigger_epoch = evidence.recross_candle.close_epoch
  /\ evidence.observed_trigger_ticks = evidence.recross_candle.close_ticks

ReferenceComplete(reference) ==
  /\ \A f \in DOMAIN reference : reference[f] # Null
  /\ Ordered(reference.open_ticks, reference.high_ticks, reference.low_ticks, reference.close_ticks)

validateEntryEvidenceV3(evidence) ==
  /\ evidence.observed_trigger_epoch = Null <=> evidence.observed_trigger_ticks = Null
  /\ evidence.fidelity \in CandidateFidelityV3
  /\ evidence.proof_plane \in ProofPlaneV3
  /\ evidence.replayability \in EvidenceReplayability
  /\ evidence.htf_context_minutes \in Contexts
  /\ evidence.ambiguity_codes \subseteq AmbiguityCodeV3
  /\ evidence.coverage_start_epoch < evidence.coverage_end_epoch
  /\ evidence.coverage_end_epoch <= evidence.observed_at_epoch
  /\ evidence.observed_trigger_epoch # Null =>
       evidence.observed_trigger_epoch \in evidence.coverage_start_epoch .. evidence.coverage_end_epoch
  /\ evidence.passed_rule_ids \cap evidence.failed_rule_ids = {}
  /\ evidence.fidelity = "EXACT" => evidence.failed_rule_ids = {} /\ evidence.passed_rule_ids # {}
  /\ IF evidence.boc_tier = Null
     THEN evidence.reference = NoReference
     ELSE evidence.boc_tier \in BocTier /\ ReferenceComplete(evidence.reference)
  /\ FlipFieldsAbsent(evidence) \/ FlipFieldsComplete(evidence)
  /\ evidence.fidelity = "EXACT" =>
       (evidence.replayability = "LIVE_EXACT_NON_REPLAYABLE" <=> evidence.proof_plane = "REALTIME_TICK")

validateSelectionShapeV3(selection) ==
  /\ selection.canonical_candidate_id = Null <=> selection.canonical_evidence_id = Null
  /\ selection.canonical_candidate_id = Null <=> selection.canonical_model = Null
  /\ selection.reason \in SelectionReasonV3
  /\ IF selection.canonical_candidate_id # Null
     THEN /\ selection.fidelity = "EXACT"
          /\ selection.action = "PAPER_ELIGIBLE"
          /\ selection.reason \in CanonicalReasons
     ELSE /\ selection.fidelity = Null
          /\ selection.reason \in DOMAIN EmptyActions
          /\ selection.action = EmptyActions[selection.reason]
  /\ IF selection.reason = "CO_TRIGGER_SAME_EVENT"
     THEN Cardinality(selection.co_triggered_models) >= 2
     ELSE selection.co_triggered_models = {}

(* What exact evidence of each model owes its candidate. *)
TriggerOpen(evidence) == (evidence.observed_trigger_epoch \div 300) * 300

ExactCloseEvidence(candidate, evidence) ==
  /\ candidate.event_anchor_epoch = evidence.coverage_start_epoch
  /\ evidence.coverage_end_epoch - evidence.coverage_start_epoch = 300
  /\ evidence.observed_trigger_epoch = evidence.coverage_end_epoch

ExactBocEvidence(candidate, evidence) ==
  /\ candidate.reference_candle_open_epoch # Null
  /\ evidence.observed_trigger_epoch # Null
  /\ candidate.event_anchor_epoch = candidate.reference_candle_open_epoch
  /\ candidate.reference_candle_open_epoch % 300 = 0
  /\ evidence.reference.open_epoch = candidate.reference_candle_open_epoch
  /\ evidence.reference.open_epoch + 300 <= TriggerOpen(evidence)
  /\ evidence.htf_context_minutes # {}
  /\ \A context \in evidence.htf_context_minutes : TriggerOpen(evidence) % (context * 60) = 0

\* Mutant: on the short side touching the level is enough.
CrossesOrTouches(direction, high, low, level) ==
  IF direction = "LONG" THEN high > level ELSE low <= level

Crosses(direction, high, low, level) == IF direction = "LONG" THEN high > level ELSE low < level

AnchoredFlip(candidate, evidence) ==
  /\ evidence.contact_candle # Null
  /\ evidence.observed_trigger_epoch # Null
  /\ candidate.event_anchor_epoch <= evidence.contact_candle.open_epoch
  /\ evidence.htf_context_minutes # {}
  /\ \A context \in evidence.htf_context_minutes :
       evidence.observed_trigger_epoch < candidate.event_anchor_epoch + context * 60

ExactFlipEvidence(candidate, evidence) ==
  /\ evidence.htf_open_ticks # Null
  /\ evidence.recross_candle # Null
  /\ evidence.coverage_gap_detected = FALSE
  /\ evidence.full_lifecycle_ordered = TRUE
  /\ evidence.destination_seen_before_contact = FALSE
  /\ AnchoredFlip(candidate, evidence)
  /\ ~Crosses(candidate.direction, evidence.contact_candle.high_ticks,
              evidence.contact_candle.low_ticks, evidence.htf_open_ticks)
  /\ Crosses(candidate.direction, evidence.recross_candle.close_ticks,
             evidence.recross_candle.close_ticks, evidence.htf_open_ticks)

ExactEvidence(candidate, evidence) ==
  /\ exactEvidenceRuleIsConsistent(candidate, evidence)
  /\ CASE candidate.model = "DIR_CLOSE" -> ExactCloseEvidence(candidate, evidence)
       [] candidate.model = "BOC"       -> ExactBocEvidence(candidate, evidence)
       [] candidate.model = "HTF_FLIP"  -> ExactFlipEvidence(candidate, evidence)

(* The pair the selection names, when it names one. *)
CanonicalGraph(evaluation) ==
  \E candidate \in evaluation.candidates, evidence \in evaluation.evidence :
    /\ candidate.candidate_id = evaluation.selection.canonical_candidate_id
    /\ evidence.evidence_id = evaluation.selection.canonical_evidence_id
    /\ evidence.candidate_id = candidate.candidate_id
    /\ evaluation.selection.canonical_model = candidate.model
    /\ evaluation.selection.fidelity = evidence.fidelity
    /\ evaluation.selection.action = "PAPER_ELIGIBLE" =>
         /\ candidate.state = "MATCHED"
         /\ evidence.fidelity = "EXACT"
         /\ exactEvidenceRuleIsConsistent(candidate, evidence)
    /\ candidate.model = "HTF_FLIP" => AnchoredFlip(candidate, evidence)

Identified(records, id) == \A a, b \in records : a[id] = b[id] => a = b

validateEntryEvaluationV3(evaluation) ==
  /\ \A candidate \in evaluation.candidates : validateEntryCandidateV3(candidate)
  /\ \A evidence \in evaluation.evidence : validateEntryEvidenceV3(evidence)
  /\ validateSelectionShapeV3(evaluation.selection)
  /\ \A record \in evaluation.candidates \cup evaluation.evidence :
       record.observed_at_epoch <= evaluation.selection.evaluated_at_epoch
  /\ Identified(evaluation.candidates, "candidate_id")
  /\ Identified(evaluation.evidence, "evidence_id")
  /\ evaluation.selection.candidate_ids_considered = {c.candidate_id : c \in evaluation.candidates}
  /\ \A candidate \in evaluation.candidates :
       candidate.source_claim_ids = expectedSourceClaimsV3(candidate)
  /\ \A evidence \in evaluation.evidence :
       \E candidate \in evaluation.candidates :
         /\ candidate.candidate_id = evidence.candidate_id
         /\ evidence.source_claim_ids = expectedSourceClaimsV3(candidate)
         /\ evidence.fidelity = "EXACT" => ExactEvidence(candidate, evidence)
  /\ evaluation.selection.canonical_candidate_id # Null => CanonicalGraph(evaluation)
================================================================================
