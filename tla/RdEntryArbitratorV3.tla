--------------------------- MODULE RdEntryArbitratorV3 ---------------------------
(***************************************************************************)
(* The third entry contract's arbitrator (rd-entry-arbitrator-v3.ts): of   *)
(* the candidates whose evidence is exact, the one triggered first is the  *)
(* setup's canonical entry.  A throw is the value Null.                    *)
(***************************************************************************)
EXTENDS RdEntryMatcherV3

CONSTANT Rank(_)      \* the place of a digest among all digests, as localeCompare orders them

eventKey(evidence) == <<evidence.observed_trigger_epoch, evidence.trigger_sequence>>

\* Mutant: the order within a second is not looked at.
compareEpoch(left, right) == left.observed_trigger_epoch < right.observed_trigger_epoch

compareEvent(left, right) ==
  \/ left.observed_trigger_epoch < right.observed_trigger_epoch
  \/ /\ left.observed_trigger_epoch = right.observed_trigger_epoch
     /\ left.trigger_sequence < right.trigger_sequence

(* Evidence gathered live counts only while it says so; every other plane     *)
(* counts for every model, a confirmed bar for a directional close alone.     *)
EligiblePlane(candidate, evidence) ==
  \/ evidence.proof_plane \in {"LOWER_TIMEFRAME_REPLAY", "EXTERNAL_ARCHIVED_TICK"}
  \/ /\ evidence.proof_plane = "REALTIME_TICK"
     /\ evidence.replayability = "LIVE_EXACT_NON_REPLAYABLE"
  \/ /\ candidate.model = "DIR_CLOSE"
     /\ evidence.proof_plane = "CONFIRMED_5M"
     /\ evidence.replayability = "REPLAYABLE"

exactEligibleV3(candidate, evidence) ==
  /\ candidate.state = "MATCHED"
  /\ evidence.fidelity = "EXACT"
  /\ evidence.observed_trigger_epoch # Null
  /\ evidence.ambiguity_codes = {}
  /\ evidence.boc_tier = candidate.boc_tier
  /\ evidence.reference.open_epoch = candidate.reference_candle_open_epoch
  /\ ExactEvidence(candidate, evidence)
  /\ candidate.model = "BOC" => candidate.boc_tier = "HTF_TIMED"
  /\ candidate.model # "HTF_FLIP" => FlipFieldsAbsent(evidence)
  /\ EligiblePlane(candidate, evidence)

(* The first eligible evidence of every candidate that has one. *)
FirstEvidence(items) ==
  CHOOSE e \in items :
    \A f \in items \ {e} :
      \/ compareEvent(e, f)
      \/ eventKey(e) = eventKey(f) /\ Rank(e.evidence_id) < Rank(f.evidence_id)

EligiblePairs(candidates, evidence) ==
  LET Exact(c) == {e \in evidence : e.candidate_id = c.candidate_id /\ exactEligibleV3(c, e)}
  IN  {[candidate |-> c, evidence |-> FirstEvidence(Exact(c))] :
         c \in {d \in candidates : Exact(d) # {}}}

Selection(setupId, revision, evaluated, considered, canonical, reason, action, models) ==
  LET identity ==
        [setup_id |-> setupId, revision |-> revision, candidate_ids_considered |-> considered,
         canonical_candidate_id |-> IF canonical = Null THEN Null ELSE canonical.candidate.candidate_id,
         canonical_evidence_id |-> IF canonical = Null THEN Null ELSE canonical.evidence.evidence_id,
         reason |-> reason, fidelity |-> IF canonical = Null THEN Null ELSE canonical.evidence.fidelity,
         action |-> action, co_triggered_models |-> models]
  IN  [selection_id |-> selectionIdV3(identity),
       canonical_model |-> IF canonical = Null THEN Null ELSE canonical.candidate.model,
       evaluated_at_epoch |-> evaluated] @@ identity

(* The pairs no other pair precedes. *)
EarliestPairs(eligible) ==
  {p \in eligible : \A q \in eligible : ~compareEvent(q.evidence, p.evidence)}

(* An aggressive model that was proposed and is not eligible. *)
HasBlockedAggressive(candidates, eligible) ==
  \E c \in candidates :
    /\ c.model \in {"BOC", "HTF_FLIP"}
    /\ c.candidate_id \notin {p.candidate.candidate_id : p \in eligible}

LeastCandidate(pairs) ==
  CHOOSE p \in pairs :
    \A q \in pairs : Rank(p.candidate.candidate_id) <= Rank(q.candidate.candidate_id)

WellFormedArbitration(setupId, candidates, evidence) ==
  /\ \A c \in candidates : c.setup_id = setupId
  /\ Identified(candidates, "candidate_id")
  /\ Identified(evidence, "evidence_id")
  /\ \A e \in evidence : \E c \in candidates : c.candidate_id = e.candidate_id

Chosen(canonical, reason, action, models) ==
  [canonical |-> canonical, reason |-> reason, action |-> action, models |-> models]

(* The choice among the earliest eligible pairs. *)
Choice(candidates, eligible) ==
  LET earliest == EarliestPairs(eligible)
      models   == {p.candidate.model : p \in earliest}
      prices   == {p.evidence.observed_trigger_ticks : p \in earliest}
      first    == LeastCandidate(earliest)
  IN  CASE Cardinality(models) > 1 /\ Cardinality(prices) > 1 ->
             Chosen(Null, "CO_TRIGGER_PRICE_CONFLICT", "SHADOW_ONLY", {})
        [] Cardinality(models) > 1 /\ Cardinality(prices) = 1 ->
             Chosen(first, "CO_TRIGGER_SAME_EVENT", "PAPER_ELIGIBLE", models)
        [] Cardinality(models) = 1 ->
             Chosen(first,
                    CASE /\ first.candidate.model = "DIR_CLOSE"
                         /\ HasBlockedAggressive(candidates, eligible) -> "FALLBACK_TO_CONFIRMED_CLOSE"
                      [] OTHER -> IF Cardinality(candidates) = 1
                                  THEN "ONLY_EXACT_TRIGGER" ELSE "EARLIEST_EXACT_TRIGGER",
                    "PAPER_ELIGIBLE", {})

(* A setup that already opened keeps the selection it opened with. *)
KeptSelection(opened, setupId, evaluated, cohort) ==
  IF /\ cohort # "ONE_CANDLE"
     /\ opened.setup_id = setupId
     /\ opened.action = "PAPER_ELIGIBLE"
     /\ opened.evaluated_at_epoch <= evaluated
  THEN opened ELSE Null

arbitrateEntryCandidatesV3(setupId, candidates, evidence, invalidated, revision, evaluated, opened, cohort) ==
  LET Select(decision) ==
        Selection(setupId, revision, evaluated, {c.candidate_id : c \in candidates},
                  decision.canonical, decision.reason, decision.action, decision.models)
      eligible == EligiblePairs(candidates, evidence)
  IN  IF \E record \in candidates \cup evidence : record.observed_at_epoch > evaluated THEN Null
      ELSE IF opened # Null THEN KeptSelection(opened, setupId, evaluated, cohort)
      ELSE IF ~WellFormedArbitration(setupId, candidates, evidence) THEN Null
      ELSE IF invalidated THEN Select(Chosen(Null, "SETUP_INVALIDATED", "NONE", {}))
      ELSE IF candidates = {} THEN Select(Chosen(Null, "NO_CANDIDATE", "NONE", {}))
      ELSE IF eligible = {} \/ cohort = "ONE_CANDLE"
           THEN Select(Chosen(Null, "NO_EXACT_CANDIDATE", "SHADOW_ONLY", {}))
      ELSE Select(Choice(candidates, eligible))

evaluateWithoutOpenedSeed(input) ==
  LET pairs      == matchEntryCandidatesV3(input)
      candidates == {p.candidate : p \in pairs}
      evidence   == {p.evidence : p \in pairs}
  IN  [candidates |-> candidates, evidence |-> evidence,
       selection |-> arbitrateEntryCandidatesV3(
                       input.setup.setup_id, candidates, evidence, input.setup.invalidated_before_entry,
                       input.revision, input.evaluated_at_epoch, Null, input.setup.liquidity_cohort)]

(* A setup that is already open is evaluated again on the bar it opened with. *)
Reopened(input) ==
  LET seed == input.opened_selection_seed
  IN  [input EXCEPT !.setup.common_fidelity = "EXACT", !.setup.invalidated_before_entry = FALSE,
                    !.boc_proof = Null, !.directional_close = TRUE, !.confirmed_bar = seed.confirmed_bar,
                    !.close_trigger_sequence = seed.trigger_sequence, !.htf_flip_proof = Null,
                    !.observed_at_epoch = seed.evaluated_at_epoch, !.revision = seed.revision,
                    !.evaluated_at_epoch = seed.evaluated_at_epoch, !.opened_selection_seed = Null]

(* The evaluation before it is validated: evaluateEntryV3Bundle returns it if  *)
(* validateEntryEvaluationV3 accepts it and throws otherwise.                  *)
EvaluationOf(input) ==
  evaluateWithoutOpenedSeed(IF input.opened_selection_seed = Null THEN input ELSE Reopened(input))

evaluateEntryV3Bundle(input) ==
  LET evaluation == EvaluationOf(input)
  IN  IF /\ validateEntryArbitrationInputV3(input)
         /\ evaluation.selection # Null
         /\ validateEntryEvaluationV3(evaluation)
      THEN evaluation ELSE Null
================================================================================
