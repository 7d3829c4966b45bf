---------------------------- MODULE RdEntryVectorsV3 ----------------------------
(***************************************************************************)
(* The contract of the third entry contract's oracle vectors               *)
(* (rd-entry-vector-contract-v3.ts): whether an expected evaluation can    *)
(* belong to an input.  It is a second reading of the matcher's rules,     *)
(* written over the expected records rather than the proofs, and the flip  *)
(* is decided here again from the input alone.                             *)
(***************************************************************************)
EXTENDS RdEntryDomainV3

(* The contract's own checks of a proof, made before the domain's. *)
ContractBocProof(proof) ==
  /\ validateOrderedCandleV3(proof.reference_candle)
  /\ proof.htf_context_minutes \in Contexts
  /\ proof.reference_candle.close_epoch - proof.reference_candle.open_epoch = 300
  /\ proof.reference_candle.open_epoch % 300 = 0
  /\ proof.trigger_candle_open_epoch % 300 = 0
  /\ proof.reference_candle.close_epoch <= proof.trigger_candle_open_epoch
  /\ proof.trigger_epoch >= proof.trigger_candle_open_epoch
  /\ proof.trigger_epoch < proof.trigger_candle_open_epoch + 300

ContractFlipProof(proof) ==
  /\ proof.htf_context_minutes \in Contexts
  /\ proof.contact_candle # Null =>
       /\ validateOrderedCandleV3(proof.contact_candle)
       /\ proof.event_anchor_epoch <= proof.contact_candle.open_epoch
  /\ proof.recross_candle # Null =>
       /\ validateOrderedCandleV3(proof.recross_candle)
       /\ proof.contact_candle # Null
  /\ \A context \in proof.htf_context_minutes :
       proof.trigger_epoch < proof.event_anchor_epoch + context * 60

(* A vector's input carries no cohort: it is the default one. *)
validateInput(input) ==
  /\ input.setup.liquidity_cohort = "TWO_PLUS_CANDLES" /\ ~input.setup.one_candle_enabled
  /\ input.setup.zone_top_ticks > input.setup.zone_bottom_ticks
  /\ input.boc_proof # Null => ContractBocProof(input.boc_proof)
  /\ input.confirmed_bar # Null =>
       /\ validateOrderedCandleV3(input.confirmed_bar)
       /\ input.confirmed_bar.close_epoch - input.confirmed_bar.open_epoch = 300
  /\ input.directional_close <=> input.confirmed_bar # Null
  /\ input.htf_flip_proof # Null => ContractFlipProof(input.htf_flip_proof)
  /\ input.opened_selection_seed # Null =>
       validateOrderedCandleV3(input.opened_selection_seed.confirmed_bar)
  /\ validateEntryArbitrationInputV3(input)

ExpectedOf(expected, model) == CHOOSE c \in expected.candidates : c.model = model

evidenceForCandidate(expected, candidate) ==
  CHOOSE e \in expected.evidence : e.candidate_id = candidate.candidate_id

bindClose(bar, sequence, candidate, evidence) ==
  /\ candidate.event_anchor_epoch = bar.open_epoch
  /\ evidence.observed_trigger_epoch = bar.close_epoch
  /\ evidence.trigger_sequence = sequence
  /\ evidence.observed_trigger_ticks = bar.close_ticks
  /\ evidence.htf_context_minutes = {}
  /\ evidence.proof_plane = "CONFIRMED_5M"
  /\ evidence.replayability = "REPLAYABLE"
  /\ evidence.coverage_start_epoch = bar.open_epoch
  /\ evidence.coverage_end_epoch = bar.close_epoch

(* The flip's failure, decided again from the input: the rule each clause    *)
(* names is the first one, in this order, whose condition is met.            *)
FlipFailures(input, proof) ==
  LET setup    == input.setup
      whole    == proof.contact_candle # Null /\ proof.recross_candle # Null
      long     == setup.direction = "LONG"
      realtime == proof.proof_plane = "REALTIME_TICK"
  IN  <<<<"COMMON_SETUP_NOT_EXACT", setup.common_fidelity # "EXACT">>,
        <<"SETUP_INVALIDATED", setup.invalidated_before_entry>>,
        <<"ENTRY_BEFORE_ZONE_ENGAGEMENT",
          setup.zone_engaged_epoch = Null \/ proof.trigger_epoch < setup.zone_engaged_epoch>>,
        <<"HTF_FLIP_INCOMPLETE_LIFECYCLE", ~whole>>,
        <<"HTF_FLIP_COVERAGE_GAP", proof.coverage_gap_detected>>,
        <<"HTF_FLIP_ORDER_UNPROVEN", ~proof.full_lifecycle_ordered>>,
        <<"HTF_FLIP_DESTINATION_BEFORE_CONTACT", proof.destination_seen_before_contact>>,
        <<"HTF_FLIP_AMBIGUOUS", proof.ambiguity_codes # {}>>,
        <<"HTF_FLIP_ANCHOR_AFTER_CONTACT",
          whole /\ proof.event_anchor_epoch > proof.contact_candle.open_epoch>>,
        <<"HTF_FLIP_TRIGGER_OUTSIDE_CONTEXT",
          \E context \in proof.htf_context_minutes :
            proof.trigger_epoch >= proof.event_anchor_epoch + context * 60>>,
        <<"HTF_FLIP_CONTACT_OUTSIDE_ZONE",
          whole /\ (\/ proof.contact_candle.low_ticks > setup.zone_top_ticks
                    \/ proof.contact_candle.high_ticks < setup.zone_bottom_ticks)>>,
        <<"HTF_FLIP_CONTACT_ALREADY_RECROSSED",
          whole /\ (\/ long /\ proof.contact_candle.high_ticks > proof.htf_open_ticks
                    \/ ~long /\ proof.contact_candle.low_ticks < proof.htf_open_ticks)>>,
        <<"HTF_FLIP_OPEN_NOT_RECROSSED",
          whole /\ ~(\/ long /\ proof.recross_candle.close_ticks > proof.htf_open_ticks
                     \/ ~long /\ proof.recross_candle.close_ticks < proof.htf_open_ticks)>>,
        <<"HTF_FLIP_CONTEXT_MISALIGNED",
          \/ proof.htf_context_minutes = {}
          \/ \E context \in proof.htf_context_minutes : proof.event_anchor_epoch % (context * 60) # 0>>,
        <<"REALTIME_EVIDENCE_NOT_LIVE",
          realtime /\ (~proof.is_realtime \/ proof.replayability # "LIVE_EXACT_NON_REPLAYABLE")>>,
        <<"EVIDENCE_REPLAYABILITY_MISMATCH", ~realtime /\ proof.replayability # "REPLAYABLE">>,
        <<"MODEL_EVIDENCE_NOT_EXACT", proof.fidelity # "EXACT">>>>

flipFailure(input, proof) ==
  LET clauses == FlipFailures(input, proof)
      met     == {k \in DOMAIN clauses : clauses[k][2]}
  IN  IF met = {} THEN Null ELSE clauses[Min(met)][1]

BindBoc(proof, candidate, evidence) ==
  LET strict == /\ proof.htf_boundary_epoch = proof.trigger_candle_open_epoch
                /\ proof.htf_context_minutes # {}
                /\ \A context \in proof.htf_context_minutes :
                     proof.trigger_candle_open_epoch % (context * 60) = 0
      tier   == IF strict THEN "HTF_TIMED" ELSE "DISCRETIONARY_5M"
      reference == proof.reference_candle
  IN  /\ candidate.event_anchor_epoch = reference.open_epoch
      /\ candidate.boc_tier = tier
      /\ candidate.reference_candle_open_epoch = reference.open_epoch
      /\ evidence.observed_trigger_epoch = proof.trigger_epoch
      /\ evidence.trigger_sequence = proof.trigger_sequence
      /\ evidence.observed_trigger_ticks = proof.trigger_ticks
      /\ \A f \in {"htf_context_minutes", "proof_plane", "replayability",
                   "coverage_start_epoch", "coverage_end_epoch"} : evidence[f] = proof[f]
      /\ evidence.boc_tier = tier
      /\ \A f \in DOMAIN NoReference : evidence.reference[f] = reference[f]

BindFlip(input, proof, candidate, evidence) ==
  LET failure == flipFailure(input, proof)
  IN  /\ candidate.event_anchor_epoch = proof.event_anchor_epoch
      /\ evidence.observed_trigger_epoch = proof.trigger_epoch
      /\ evidence.trigger_sequence = proof.trigger_sequence
      /\ evidence.observed_trigger_ticks = proof.trigger_ticks
      /\ \A f \in {"htf_context_minutes", "proof_plane", "replayability", "coverage_start_epoch",
                   "coverage_end_epoch", "ambiguity_codes", "htf_open_ticks", "contact_candle",
                   "recross_candle", "coverage_gap_detected", "full_lifecycle_ordered",
                   "destination_seen_before_contact"} : evidence[f] = proof[f]
      /\ candidate.state = (IF failure = Null THEN "MATCHED" ELSE "BLOCKED")
      /\ evidence.fidelity = (IF failure = Null THEN "EXACT" ELSE "UNRESOLVED")
      /\ evidence.passed_rule_ids = (IF failure = Null THEN {"ENTRY_HTF_FLIP"} ELSE {})
      /\ evidence.failed_rule_ids = {failure} \ {Null}

ExpectedModels(input) ==
  {m \in EntryModelV3 : \/ m = "BOC" /\ input.boc_proof # Null
                        \/ m = "DIR_CLOSE" /\ input.directional_close
                        \/ m = "HTF_FLIP" /\ input.htf_flip_proof # Null}

(* The records and the evaluation carry the input's times. *)
BindTimes(expected, observed, revision, evaluated) ==
  /\ expected.selection.revision = revision
  /\ expected.selection.evaluated_at_epoch = evaluated
  /\ \A record \in expected.candidates \cup expected.evidence : record.observed_at_epoch = observed

BindSeed(seed, expected) ==
  /\ {c.model : c \in expected.candidates} = {"DIR_CLOSE"}
  /\ BindTimes(expected, seed.evaluated_at_epoch, seed.revision, seed.evaluated_at_epoch)
  /\ LET candidate == ExpectedOf(expected, "DIR_CLOSE")
     IN  bindClose(seed.confirmed_bar, seed.trigger_sequence, candidate,
                   evidenceForCandidate(expected, candidate))

BindProofs(input, expected) ==
  /\ {c.model : c \in expected.candidates} = ExpectedModels(input)
  /\ BindTimes(expected, input.observed_at_epoch, input.revision, input.evaluated_at_epoch)
  /\ \A candidate \in expected.candidates :
       LET evidence == evidenceForCandidate(expected, candidate)
       IN  CASE candidate.model = "BOC"       -> BindBoc(input.boc_proof, candidate, evidence)
             [] candidate.model = "DIR_CLOSE" ->
                  bindClose(input.confirmed_bar, input.close_trigger_sequence, candidate, evidence)
             [] candidate.model = "HTF_FLIP"  ->
                  BindFlip(input, input.htf_flip_proof, candidate, evidence)

bindExpectedToInput(input, expected) ==
  /\ expected.selection.setup_id = input.setup.setup_id
  /\ \A c \in expected.candidates : c.setup_id = input.setup.setup_id /\ c.direction = input.setup.direction
  /\ \A c, d \in expected.candidates : c.model = d.model => c = d
  /\ \A c \in expected.candidates :
       Cardinality({e \in expected.evidence : e.candidate_id = c.candidate_id}) = 1
  /\ Cardinality(expected.evidence) = Cardinality(expected.candidates)
  /\ IF input.opened_selection_seed # Null
     THEN BindSeed(input.opened_selection_seed, expected)
     ELSE BindProofs(input, expected)

parseEntryV3Vector(input, expected) ==
  /\ validateInput(input)
  /\ validateEntryEvaluationV3(expected)
  /\ bindExpectedToInput(input, expected)
================================================================================
