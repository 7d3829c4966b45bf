---------------------------- MODULE RdEntryDomainV2 ----------------------------
(***************************************************************************)
(* The records of the second entry contract of the observation edge        *)
(* (rd-entry-domain.ts): a setup, the five-minute bars it lives through,   *)
(* the transcript of a higher-timeframe flip, and what an evaluation of    *)
(* them consists of.                                                       *)
(*                                                                         *)
(* Epochs are seconds and prices are ticks.  A digest is the record it is  *)
(* computed from; a sorted list of distinct values is a set; a list of     *)
(* source claims is the set of the names under which the policy lists      *)
(* them.  A function that throws yields Null, a validator FALSE.           *)
(***************************************************************************)
EXTENDS Integers, FiniteSets, FiniteSetsExt

CONSTANT Null         \* null, undefined, and the result of a throw

Nullable(S) == S \cup {Null}

ACTIVE_ENTRY_MODELS == {"DIR_CLOSE", "HTF_FLIP"}

ALL_ENTRY_MODELS == ACTIVE_ENTRY_MODELS \cup {"LEGACY_BREAK_CANDLE", "LEGACY_REJECTION_RESPECT"}

HTF_CONTEXT_MINUTES == {15, 30, 60}

SELECTION_ACTIONS == {"OBSERVE", "PAPER_ELIGIBLE", "SHADOW_ONLY", "NONE"}

EntryDirection == {"LONG", "SHORT"}

CandidateState == {"MATCHED", "BLOCKED", "REJECTED", "NORMALIZED"}

CandidateFidelity == {"EXACT", "CALIBRATED", "DISCRETIONARY", "UNRESOLVED"}

ProofPlane == {"CONFIRMED_5M", "LOWER_TIMEFRAME_REPLAY", "REALTIME_TICK", "EXTERNAL_ARCHIVED_TICK"}

HandlingMode == {"CLOSE_CONFIRMATION", "INTRABAR_FLIP", "NEXT_CANDLE_WICK", "AGGRESSIVE"}

AttemptKind == {"INITIAL", "RE_ENTRY"}

SetupAttemptTerminalReason == {"INVALIDATED", "BOTH_ACTIVE_MODELS_OBSERVED", "RETENTION_EVICTED"}

SelectionReason ==
  {"ONLY_EXACT_TRIGGER", "EARLIEST_EXACT_TRIGGER", "FALLBACK_TO_CONFIRMED_CLOSE", "NO_EXACT_CANDIDATE",
   "UNRESOLVED_SOURCE_PRIORITY", "SETUP_INVALIDATED", "NO_CANDIDATE"}

AmbiguityCode ==
  {"SHADOW_SAME_CHILD_BAR_ORDER", "SHADOW_MISSING_INTRABAR_COVERAGE", "SHADOW_REALTIME_ONLY_NOT_REPLAYABLE"}

SOURCE_CLAIMS == ALL_ENTRY_MODELS \cup {"NEXT_CANDLE_WICK", "HTF_BOUNDARY"}

OrderedCandle ==
  [open_epoch: Nat, close_epoch: Nat, open_ticks: Int, high_ticks: Int, low_ticks: Int, close_ticks: Int]

SetupEntryFacts ==
  [setup_id: Nat, direction: EntryDirection, zone_top_ticks: Int, zone_bottom_ticks: Int,
   zone_engaged_epoch: Nullable(Nat), invalidated_before_entry: BOOLEAN, common_fidelity: CandidateFidelity,
   terminal_reason: Nullable(SetupAttemptTerminalReason), terminal_epoch: Nullable(Nat)]

HTFFlipProofTranscript ==
  [context_minutes: HTF_CONTEXT_MINUTES, htf_open_epoch: Nat, htf_open_ticks: Int, scan_cutoff_epoch: Nat,
   proof_resolution_seconds: Nat \ {0}, coverage_start_epoch: Nat, coverage_end_epoch: Nat,
   expected_child_count: Nat, observed_child_count: Nat, gap_present: BOOLEAN,
   full_lifecycle_ordered: BOOLEAN, destination_seen_before_contact: BOOLEAN,
   contact_candle: Nullable(OrderedCandle), recross_candle: Nullable(OrderedCandle), same_child: BOOLEAN]

(* The proofs of a request are transcripts, or proofs expanded from them. *)
EntryMatchRequest(proofs) ==
  [setup: SetupEntryFacts, confirmed_bar: OrderedCandle, htf_proofs: SUBSET proofs,
   generic_break_detected: BOOLEAN, rejection_respect_detected: BOOLEAN, attempt_kind: AttemptKind,
   trigger_ordinal: Nat]

CandidateIdentity ==
  [direction: EntryDirection, event_anchor_epoch: Nat, model: ALL_ENTRY_MODELS, setup_id: Nat,
   trigger_ordinal: Nat \ {0}]

EntryCandidate ==
  [candidate_id: CandidateIdentity, setup_id: Nat, model: ALL_ENTRY_MODELS, state: CandidateState,
   event_anchor_epoch: Nat, trigger_ordinal: Nat \ {0}, direction: EntryDirection,
   source_claim_ids: SUBSET SOURCE_CLAIMS, normalized_from: Nullable(ALL_ENTRY_MODELS), observed_at_epoch: Nat]

EVIDENCE_FIELDS ==
  [observed_trigger_epoch: Nullable(Nat), observed_trigger_ticks: Nullable(Int),
   htf_context_minutes: SUBSET HTF_CONTEXT_MINUTES, fidelity: CandidateFidelity, proof_plane: ProofPlane,
   proof_resolution_seconds: Nat \ {0}, coverage_start_epoch: Nat, coverage_end_epoch: Nat,
   ambiguity_codes: SUBSET AmbiguityCode, passed_rule_ids: SUBSET STRING, failed_rule_ids: SUBSET STRING,
   source_claim_ids: SUBSET SOURCE_CLAIMS, observed_at_epoch: Nat]

(***************************************************************************)
(* The digests of the records.                                             *)
(***************************************************************************)

Hashed(record, unhashed) == [f \in DOMAIN record \ unhashed |-> record[f]]

Identified(records, id) == \A a, b \in records : a[id] = b[id] => a = b

candidateId(candidate) ==
  [direction |-> candidate.direction, event_anchor_epoch |-> candidate.event_anchor_epoch,
   model |-> candidate.model, setup_id |-> candidate.setup_id, trigger_ordinal |-> candidate.trigger_ordinal]

payloadSha256(evidence) == Hashed(evidence, {"evidence_id", "payload_sha256", "observed_at_epoch"})

evidenceId(evidence) ==
  [candidate_id |-> evidence.candidate_id, coverage_end_epoch |-> evidence.coverage_end_epoch,
   coverage_start_epoch |-> evidence.coverage_start_epoch,
   observed_trigger_epoch |-> evidence.observed_trigger_epoch,
   payload_sha256 |-> payloadSha256(evidence), proof_plane |-> evidence.proof_plane,
   proof_resolution_seconds |-> evidence.proof_resolution_seconds]

handlingId(handling) == Hashed(handling, {"handling_id"})

selectionId(selection) == Hashed(selection, {"selection_id", "canonical_model", "evaluated_at_epoch"})
================================================================================
