----------------------------- MODULE RdEntryWireV3 -----------------------------
(***************************************************************************)
(* What the observation edge accepts on the wire of the third entry        *)
(* contract (rd-entry-wire-v3.ts).  A payload carries bundles: a setup,    *)
(* the candidates and evidence its producer matched, the selection it      *)
(* proposes and a trade plan.  The edge believes none of it: it computes   *)
(* the identities, arbitrates again, and holds what would be traded        *)
(* against the market event of the payload.                                *)
(*                                                                         *)
(* Keys, formats and sizes are left out; payload_sha256 is part of the     *)
(* evidence identity.  A list with a repeated member, which the edge       *)
(* refuses, has no counterpart among the sets used here.  The common       *)
(* rules of a setup are the set of those that failed.                      *)
(***************************************************************************)
EXTENDS RdEntryArbitratorV3

REQUIRED_COMMON_RULE_IDS_V3 ==
  {"LIQ_ACTUAL_EXTREME_SWEPT", "LIQ_DISTANCE_INFLUENCES_ZONE", "LIQ_EVENT_ORDER",
   "LIQ_INTERNAL_REBREAK", "LIQ_NORMAL_TWO_OPPOSITE_CANDLES", "LIQ_ONE_CANDLE_EXCEPTION",
   "LIQ_OWN_EXTREME_SAME_LEG", "LIQ_REPLACEMENT_AFTER_STALE_MOVE", "LIQ_STRICT_OWN_EXTREME_BREAK",
   "TIMEFRAME_FIVE_MINUTE_ONLY", "ZONE_ACCURACY_BOUNDS", "ZONE_FRESH_UNTAPPED",
   "ZONE_ORIGIN_OPPOSITE_CANDLE", "ZONE_PRE_ENTRY_CLOSE_OUTSIDE"}

EntryV3MarketEvent ==
  [epoch: Nat, sequence: Nat, tick_price_ticks: Int, confirmed_bar: Nullable(OrderedCandleV3)]

EntryV3TradePlan == [direction: EntryDirectionV3, entry_ticks: Int, stop_ticks: Int, target_ticks: Int]

ExitReasons == {"STOP_LOSS", "TARGET", "AMBIGUOUS_SAME_BAR_EXIT"}

EntryV3ExitEvent ==
  [event_id: Nat, setup_id: Nat, exit_reason: ExitReasons, epoch: Nat, sequence: Nat, price_ticks: Int]

parseCandle(candle, requireFiveMinutes) ==
  /\ validateOrderedCandleV3(candle)
  /\ requireFiveMinutes => FiveMinuteBar(candle)

(***************************************************************************)
(* Identities a producer leaves for the edge to derive.                    *)
(***************************************************************************)

edgeDerivedReference(model) == [edge_derived |-> model]

isEdgeDerivedMarker(id) == id # Null /\ DOMAIN id = {"edge_derived"}

edgeDerivedModel(id) == id.edge_derived

bundleUsesEdgeDerivedIdentity(bundle) ==
  \/ \E c \in bundle.candidates : isEdgeDerivedMarker(c.candidate_id)
  \/ \E e \in bundle.evidence : isEdgeDerivedMarker(e.candidate_id) \/ isEdgeDerivedMarker(e.evidence_id)
  \/ \E id \in {bundle.proposal.selection_id, bundle.proposal.canonical_candidate_id,
                bundle.proposal.canonical_evidence_id} \cup bundle.proposal.candidate_ids_considered :
       isEdgeDerivedMarker(id)

parseCandidate(candidate) == validateEntryCandidateV3(candidate)

parseEvidence(evidence) == validateEntryEvidenceV3(evidence)

parseEdgeDerivedCandidate(candidate) == [candidate EXCEPT !.candidate_id = candidateIdV3(candidate)]

DerivableCandidate(candidate) ==
  /\ isEdgeDerivedMarker(candidate.candidate_id)
  /\ edgeDerivedModel(candidate.candidate_id) = candidate.model
  /\ parseCandidate(candidate)

(* The evidence of the one candidate of the model it refers to. *)
parseEdgeDerivedEvidence(evidence, candidates) ==
  LET candidate   == CHOOSE c \in candidates : c.model = edgeDerivedModel(evidence.candidate_id)
      provisional == [evidence EXCEPT !.candidate_id = candidate.candidate_id]
  IN  [provisional EXCEPT !.evidence_id = evidenceIdV3(provisional)]

DerivableEvidence(evidence, candidates) ==
  /\ isEdgeDerivedMarker(evidence.candidate_id)
  /\ isEdgeDerivedMarker(evidence.evidence_id)
  /\ evidence.candidate_id = evidence.evidence_id
  /\ \E c \in candidates : c.model = edgeDerivedModel(evidence.candidate_id)
  /\ parseEvidence(evidence)

parseSelection(proposal) == validateSelectionShapeV3(proposal)

(* Only the revision and the time of a derived proposal are used; the rest  *)
(* must be well formed and refer to the bundle's candidates.                *)
parseEdgeDerivedSelectionSeed(proposal, models) ==
  /\ proposal.selection_id = edgeDerivedReference("SELECTION")
  /\ proposal.candidate_ids_considered = {edgeDerivedReference(m) : m \in models}
  /\ proposal.canonical_candidate_id = proposal.canonical_evidence_id
  /\ proposal.canonical_candidate_id \in Nullable({edgeDerivedReference(m) : m \in models})
  /\ IF proposal.canonical_model = Null
     THEN proposal.canonical_candidate_id = Null
     ELSE proposal.canonical_candidate_id = edgeDerivedReference(proposal.canonical_model)
  /\ proposal.reason \in SelectionReasonV3 \cup {"ONE_CANDLE_EXPERIMENT_NOT_PROMOTED"}
  /\ proposal.fidelity \in Nullable(CandidateFidelityV3)
  /\ proposal.action \in {"OBSERVE", "PAPER_ELIGIBLE", "SHADOW_ONLY", "NONE"}
  /\ proposal.co_triggered_models \subseteq EntryModelV3

verifyCanonicalDigests(evaluation) ==
  /\ \A c \in evaluation.candidates : c.candidate_id = candidateIdV3(c)
  /\ \A e \in evaluation.evidence : e.evidence_id = evidenceIdV3(e)
  /\ evaluation.selection.selection_id = selectionIdV3(evaluation.selection)

(***************************************************************************)
(* A setup and its plan.                                                   *)
(***************************************************************************)

ONE_CANDLE_EXPECTED_FAILED_RULES == {"LIQ_INTERNAL_REBREAK", "LIQ_NORMAL_TWO_OPPOSITE_CANDLES"}

validateCommonRules(schema, setup, failed, unreviewed) ==
  /\ schema = "3.0" => "LIQ_NORMAL_TWO_OPPOSITE_CANDLES" \notin failed
  /\ IF setup.liquidity_cohort = "TWO_PLUS_CANDLES"
     THEN unreviewed \/ failed = {}
     ELSE /\ "LIQ_ONE_CANDLE_EXCEPTION" \notin failed
          /\ failed \subseteq ONE_CANDLE_EXPECTED_FAILED_RULES
               \cup (IF setup.common_fidelity = "UNRESOLVED" THEN {"LIQ_DISTANCE_INFLUENCES_ZONE"} ELSE {})

parseSetup(setup, failed, unreviewed, schema) ==
  /\ setup \in SetupEntryFactsV3
  /\ schema = "3.0" => setup.liquidity_cohort = "TWO_PLUS_CANDLES" /\ ~setup.one_candle_enabled
  /\ setup.zone_top_ticks > setup.zone_bottom_ticks
  /\ validateLiquidityCohortV3(setup)
  /\ failed \subseteq REQUIRED_COMMON_RULE_IDS_V3
  /\ validateCommonRules(schema, setup, failed, unreviewed)

parseTradePlan(plan, direction) ==
  /\ plan \in EntryV3TradePlan
  /\ plan.direction = direction
  /\ IF direction = "LONG"
     THEN plan.stop_ticks < plan.entry_ticks /\ plan.entry_ticks < plan.target_ticks
     ELSE plan.target_ticks < plan.entry_ticks /\ plan.entry_ticks < plan.stop_ticks

NamesNoEntry(proposal) ==
  /\ proposal.canonical_candidate_id = Null
  /\ proposal.canonical_evidence_id = Null
  /\ proposal.canonical_model = Null
  /\ proposal.fidelity = Null
  /\ proposal.co_triggered_models = {}

(* A producer nobody reviewed may only report that it could not decide. *)
validateUnreviewedBundle(setup, candidates, evidence, proposal, selection) ==
  /\ setup.common_fidelity = "UNRESOLVED"
  /\ \A c \in candidates : c.state # "MATCHED"
  /\ \A e \in evidence : /\ e.fidelity # "EXACT"
                         /\ e.passed_rule_ids = {}
                         /\ e.failed_rule_ids = {"COMMON_SETUP_NOT_EXACT"}
  /\ \/ /\ proposal.action = "SHADOW_ONLY"
        /\ proposal.reason = (IF setup.liquidity_cohort = "ONE_CANDLE"
                              THEN "ONE_CANDLE_EXPERIMENT_NOT_PROMOTED" ELSE "NO_EXACT_CANDIDATE")
     \/ proposal.action = "NONE" /\ proposal.reason \in {"SETUP_INVALIDATED", "NO_CANDIDATE"}
  /\ NamesNoEntry(proposal)
  /\ selection.action \in {"SHADOW_ONLY", "NONE"}
  /\ selection.canonical_candidate_id = Null

(***************************************************************************)
(* A bundle.                                                               *)
(***************************************************************************)

truthfulOneCandleTerminal(proposal) ==
  /\ proposal.action = "SHADOW_ONLY"
  /\ proposal.reason = "ONE_CANDLE_EXPERIMENT_NOT_PROMOTED"
  /\ NamesNoEntry(proposal)

(* The bundle's records can be read in the form, derived or explicit, it uses. *)
ReadableRecords(bundle) ==
  IF bundleUsesEdgeDerivedIdentity(bundle)
  THEN /\ \A c \in bundle.candidates : DerivableCandidate(c)
       /\ \A e \in bundle.evidence : DerivableEvidence(e, bundle.candidates)
       /\ Cardinality({c.model : c \in bundle.candidates}) = Cardinality(bundle.candidates)
       /\ Cardinality(bundle.evidence) = Cardinality(bundle.candidates)
       /\ Cardinality({e.candidate_id : e \in bundle.evidence}) = Cardinality(bundle.evidence)
       /\ parseEdgeDerivedSelectionSeed(bundle.proposal, {c.model : c \in bundle.candidates})
  ELSE /\ \A c \in bundle.candidates : parseCandidate(c)
       /\ \A e \in bundle.evidence : parseEvidence(e)
       /\ parseSelection(bundle.proposal)

(* The evaluation the edge makes of the bundle's records. *)
BundleEvaluation(bundle) ==
  LET derived    == bundleUsesEdgeDerivedIdentity(bundle)
      candidates == IF derived THEN {parseEdgeDerivedCandidate(c) : c \in bundle.candidates}
                               ELSE bundle.candidates
      evidence   == IF derived THEN {parseEdgeDerivedEvidence(e, candidates) : e \in bundle.evidence}
                               ELSE bundle.evidence
  IN  [candidates |-> candidates, evidence |-> evidence,
       selection |-> arbitrateEntryCandidatesV3(
                       bundle.setup.setup_id, candidates, evidence, bundle.setup.invalidated_before_entry,
                       bundle.proposal.revision, bundle.proposal.evaluated_at_epoch, Null,
                       bundle.setup.liquidity_cohort)]

\* Mutant: a trigger in the second of the engagement is too early.
PaperEligibleAfterEngagement(setup, evidence) ==
  /\ setup.common_fidelity = "EXACT"
  /\ ~setup.invalidated_before_entry
  /\ setup.zone_engaged_epoch # Null
  /\ \A e \in evidence : e.observed_trigger_epoch # Null =>
       e.observed_trigger_epoch > setup.zone_engaged_epoch

(* What would be traded comes from an exact, live, engaged setup, and no     *)
(* evidence of the bundle precedes the engagement.                           *)
PaperEligibleSetup(setup, evidence) ==
  /\ setup.common_fidelity = "EXACT"
  /\ ~setup.invalidated_before_entry
  /\ setup.zone_engaged_epoch # Null
  /\ \A e \in evidence : e.observed_trigger_epoch # Null =>
       e.observed_trigger_epoch >= setup.zone_engaged_epoch

AcceptedEvaluation(bundle, evaluation, unreviewed) ==
  /\ evaluation.selection # Null
  /\ bundle.setup.liquidity_cohort = "ONE_CANDLE" => truthfulOneCandleTerminal(bundle.proposal)
  /\ bundleUsesEdgeDerivedIdentity(bundle) \/ evaluation.selection = bundle.proposal
  /\ unreviewed => validateUnreviewedBundle(bundle.setup, evaluation.candidates, evaluation.evidence,
                                            bundle.proposal, evaluation.selection)
  /\ validateEntryEvaluationV3(evaluation)
  /\ verifyCanonicalDigests(evaluation)
  /\ evaluation.selection.action = "PAPER_ELIGIBLE" =>
       PaperEligibleSetup(bundle.setup, evaluation.evidence)

(* The evaluation of a bundle the edge accepts, Null for one it refuses. *)
parseBundle(bundle, unreviewed, schema) ==
  IF /\ parseSetup(bundle.setup, bundle.failed_rules, unreviewed, schema)
     /\ Cardinality(bundle.candidates) <= 3
     /\ ReadableRecords(bundle)
     /\ Identified(bundle.candidates, "candidate_id")
     /\ Identified(bundle.evidence, "evidence_id")
     /\ \A c \in bundle.candidates :
          c.setup_id = bundle.setup.setup_id /\ c.direction = bundle.setup.direction
     /\ bundle.proposal.setup_id = bundle.setup.setup_id
     /\ AcceptedEvaluation(bundle, BundleEvaluation(bundle), unreviewed)
     /\ parseTradePlan(bundle.plan, bundle.setup.direction)
  THEN [setup |-> bundle.setup, plan |-> bundle.plan, evaluation |-> BundleEvaluation(bundle)]
  ELSE Null

(***************************************************************************)
(* What would be traded, held against the market event.                    *)
(***************************************************************************)

selectedAuthoritativePairs(evaluation) ==
  LET selection == evaluation.selection
      canonical == CHOOSE e \in evaluation.evidence : e.evidence_id = selection.canonical_evidence_id
      models    == IF selection.co_triggered_models = {} THEN {selection.canonical_model}
                                                        ELSE selection.co_triggered_models
  IN  {p \in [candidate: evaluation.candidates, evidence: evaluation.evidence] :
         /\ selection.action = "PAPER_ELIGIBLE"
         /\ p.evidence.candidate_id = p.candidate.candidate_id
         /\ p.evidence.fidelity = "EXACT"
         /\ eventKey(p.evidence) = eventKey(canonical)
         /\ p.candidate.model \in models}

AuthoritativeBoc(candidate, evidence) ==
  /\ candidate.reference_candle_open_epoch # Null
  /\ candidate.event_anchor_epoch = candidate.reference_candle_open_epoch
  /\ candidate.reference_candle_open_epoch % 300 = 0
  /\ evidence.reference.open_epoch = candidate.reference_candle_open_epoch
  /\ Crosses(candidate.direction, evidence.observed_trigger_ticks, evidence.observed_trigger_ticks,
             IF candidate.direction = "LONG" THEN evidence.reference.high_ticks
                                             ELSE evidence.reference.low_ticks)

AuthoritativeClose(setup, candidate, evidence, market, role) ==
  /\ ExactCloseEvidence(candidate, evidence)
  /\ candidate.event_anchor_epoch % 300 = 0
  /\ Crosses(candidate.direction, evidence.observed_trigger_ticks, evidence.observed_trigger_ticks,
             IF candidate.direction = "LONG" THEN setup.zone_top_ticks ELSE setup.zone_bottom_ticks)
  /\ role = "ENTRY_DECISION" =>
       /\ market.confirmed_bar # Null
       /\ market.confirmed_bar.open_epoch = evidence.coverage_start_epoch
       /\ market.confirmed_bar.close_epoch = evidence.coverage_end_epoch
       /\ market.confirmed_bar.close_ticks = evidence.observed_trigger_ticks

AuthoritativeFlip(setup, candidate, evidence) ==
  /\ evidence.recross_candle # Null
  /\ evidence.htf_open_ticks # Null
  /\ AnchoredFlip(candidate, evidence)
  /\ \A context \in evidence.htf_context_minutes : candidate.event_anchor_epoch % (context * 60) = 0
  /\ \A candle \in {evidence.contact_candle, evidence.recross_candle} :
       /\ candle.open_epoch >= evidence.coverage_start_epoch
       /\ candle.close_epoch <= evidence.coverage_end_epoch
  /\ evidence.observed_trigger_epoch = evidence.recross_candle.close_epoch
  /\ evidence.observed_trigger_ticks = evidence.recross_candle.close_ticks
  /\ Crosses(candidate.direction, evidence.recross_candle.close_ticks,
             evidence.recross_candle.close_ticks, evidence.htf_open_ticks)
  /\ ~Crosses(candidate.direction, evidence.contact_candle.high_ticks,
              evidence.contact_candle.low_ticks, evidence.htf_open_ticks)
  /\ evidence.contact_candle.low_ticks <= setup.zone_top_ticks
  /\ evidence.contact_candle.high_ticks >= setup.zone_bottom_ticks

\* Mutant: the trigger is not held against the market event.
FactsOfAnyEvent(parsed, market, role) ==
  LET pairs == selectedAuthoritativePairs(parsed.evaluation)
  IN  parsed.evaluation.selection.action = "PAPER_ELIGIBLE" =>
        /\ pairs # {}
        /\ \A p \in pairs : p.evidence.observed_trigger_ticks = parsed.plan.entry_ticks

validateAuthoritativePaperFacts(parsed, market, role) ==
  LET pairs == selectedAuthoritativePairs(parsed.evaluation)
  IN  parsed.evaluation.selection.action = "PAPER_ELIGIBLE" =>
        /\ pairs # {}
        /\ \A p \in pairs :
             /\ p.evidence.observed_trigger_ticks = parsed.plan.entry_ticks
             /\ role = "ENTRY_DECISION" =>
                  /\ eventKey(p.evidence) = <<market.epoch, market.sequence>>
                  /\ p.evidence.observed_trigger_ticks = market.tick_price_ticks
             /\ CASE p.candidate.model = "BOC" -> AuthoritativeBoc(p.candidate, p.evidence)
                  [] p.candidate.model = "DIR_CLOSE" ->
                       AuthoritativeClose(parsed.setup, p.candidate, p.evidence, market, role)
                  [] p.candidate.model = "HTF_FLIP" ->
                       AuthoritativeFlip(parsed.setup, p.candidate, p.evidence)
        /\ role = "ENTRY_DECISION" => parsed.plan.entry_ticks = market.tick_price_ticks

parseMarketEvent(market) ==
  /\ market \in EntryV3MarketEvent
  /\ market.confirmed_bar # Null =>
       /\ parseCandle(market.confirmed_bar, TRUE)
       /\ market.epoch = market.confirmed_bar.close_epoch
       /\ market.tick_price_ticks = market.confirmed_bar.close_ticks

(***************************************************************************)
(* Exits.                                                                  *)
(***************************************************************************)

parseExitEvent(exit) == exit \in EntryV3ExitEvent

validatedExitCausalEpoch(parsed) ==
  LET selection == parsed.evaluation.selection
      selected  == {e \in parsed.evaluation.evidence : e.evidence_id = selection.canonical_evidence_id
                                                       /\ e.observed_trigger_epoch # Null}
  IN  IF selection.canonical_evidence_id # Null /\ selected # {}
      THEN (CHOOSE e \in selected : TRUE).observed_trigger_epoch
      ELSE selection.evaluated_at_epoch

(* A live exit is judged by the tick, a historical one by the whole bar. *)
ExitRange(market, realtime) ==
  IF realtime \/ market.confirmed_bar = Null
  THEN [low |-> market.tick_price_ticks, high |-> market.tick_price_ticks]
  ELSE [low |-> market.confirmed_bar.low_ticks, high |-> market.confirmed_bar.high_ticks]

exitLevelHits(plan, market, realtime) ==
  LET range == ExitRange(market, realtime)
  IN  IF plan.direction = "LONG"
      THEN [stopHit |-> range.low <= plan.stop_ticks, targetHit |-> range.high >= plan.target_ticks]
      ELSE [stopHit |-> range.high >= plan.stop_ticks, targetHit |-> range.low <= plan.target_ticks]

\* Mutant: a bar that reached both levels may be reported as either.
ExitReasonReached(exit, plan, market, realtime) ==
  LET hits == exitLevelHits(plan, market, realtime)
  IN  CASE exit.exit_reason = "AMBIGUOUS_SAME_BAR_EXIT" -> ~realtime /\ hits.stopHit /\ hits.targetHit
        [] exit.exit_reason = "STOP_LOSS"               -> hits.stopHit
        [] exit.exit_reason = "TARGET"                  -> hits.targetHit

ExitReasonHolds(exit, plan, market, realtime) ==
  LET hits == exitLevelHits(plan, market, realtime)
  IN  IF exit.exit_reason = "AMBIGUOUS_SAME_BAR_EXIT"
      THEN /\ ~realtime /\ market.confirmed_bar # Null
           /\ hits.stopHit /\ hits.targetHit
      ELSE /\ ~realtime => market.confirmed_bar # Null /\ ~(hits.stopHit /\ hits.targetHit)
           /\ IF exit.exit_reason = "STOP_LOSS" THEN hits.stopHit ELSE hits.targetHit

validateExitFollowup(exits, realtime, market, parsed) ==
  exits # {} =>
    /\ \A a, b \in exits : a # b => a.event_id # b.event_id /\ a.setup_id # b.setup_id
    /\ {x.setup_id : x \in exits} = {b.setup.setup_id : b \in parsed}
    /\ \A exit \in exits :
         \E bundle \in parsed :
           /\ bundle.setup.setup_id = exit.setup_id
           /\ exit.epoch = market.epoch /\ exit.sequence = market.sequence
           /\ exit.price_ticks = market.tick_price_ticks
           /\ exit.epoch >= validatedExitCausalEpoch(bundle)
           /\ ExitReasonHolds(exit, bundle.plan, market, realtime)

(***************************************************************************)
(* The payload.                                                            *)
(***************************************************************************)

EventRole(payload) == IF payload.exit_events = {} THEN "ENTRY_DECISION" ELSE "EXIT_FOLLOWUP"

(* The bundle says nothing that the payload's own observation could not know. *)
Observable(parsed, payload) ==
  /\ \A record \in parsed.evaluation.candidates \cup parsed.evaluation.evidence :
       record.observed_at_epoch <= payload.observed_at_epoch
  /\ \A e \in parsed.evaluation.evidence :
       EventRole(payload) = "ENTRY_DECISION" /\ e.proof_plane = "REALTIME_TICK" => payload.is_realtime
  /\ parsed.evaluation.selection.evaluated_at_epoch <= payload.observed_at_epoch

(* The bundles of a payload the edge accepts, Null for one it refuses. *)
validateEntryV3Payload(payload) ==
  LET unreviewed == payload.detector_unreviewed
      parsed     == {parseBundle(b, unreviewed, payload.schema_version) : b \in payload.setups}
  IN  IF /\ payload.detector_unreviewed <=> payload.settings_unreviewed
         /\ parseMarketEvent(payload.market_event)
         /\ payload.market_event.epoch <= payload.observed_at_epoch
         /\ \A exit \in payload.exit_events : parseExitEvent(exit)
         /\ payload.setups # {}
         /\ Null \notin parsed
         /\ \A a, b \in payload.setups : a # b => a.setup.setup_id # b.setup.setup_id
         /\ validateExitFollowup(payload.exit_events, payload.is_realtime, payload.market_event, parsed)
         /\ \A bundle \in parsed :
              /\ Observable(bundle, payload)
              /\ validateAuthoritativePaperFacts(bundle, payload.market_event, EventRole(payload))
      THEN parsed ELSE Null
================================================================================
