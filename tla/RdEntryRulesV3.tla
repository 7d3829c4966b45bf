---------------------------- MODULE RdEntryRulesV3 ----------------------------
(***************************************************************************)
(* The life of one observation under the third entry contract: its setup   *)
(* and proofs are evaluated, the producer reports the evaluation, and the  *)
(* observation edge judges the report.  The steps are pure functions of    *)
(* the code; what is checked is how the matcher, the arbitrator, the       *)
(* vector contract and the wire validator agree.                           *)
(***************************************************************************)
EXTENDS RdEntryWireV3, RdEntryVectorsV3

CONSTANTS Inputs,          \* the arbitration inputs that are tried
          Alterations,     \* the ways a report may differ from what was evaluated
          Altered(_, _),   \* the payload an alteration makes of an honest one
          Reportable(_, _) \* whether an input is carried on to such a report

ASSUME InputsAssumption == Inputs \subseteq EntryArbitrationInputV3

VARIABLES phase,           \* "observed", "evaluated", "reported" or "judged"
          input,           \* the arbitration input
          evaluation,      \* what evaluateEntryV3Bundle returned, Null for a throw
          report,          \* the payload the producer sent and how it was made
          verdict          \* what the edge made of it, Null for a refusal

vars == <<phase, input, evaluation, report, verdict>>

(***************************************************************************)
(* The producer.  It sends what it evaluated, with identities of its own   *)
(* or markers for the edge to derive them.                                 *)
(***************************************************************************)

Opened(canonical) == CHOOSE e \in evaluation.evidence : e.evidence_id = canonical

(* The event the report is about: the canonical trigger, if there is one. *)
MarketEvent ==
  LET selection == evaluation.selection
      chosen    == Opened(selection.canonical_evidence_id)
      bar       == input.confirmed_bar
      closes    == /\ bar # Null
                   /\ bar.close_epoch = chosen.observed_trigger_epoch
                   /\ bar.close_ticks = chosen.observed_trigger_ticks
  IN  IF selection.canonical_evidence_id = Null
      THEN [epoch |-> input.observed_at_epoch, sequence |-> 1,
            tick_price_ticks |-> input.setup.zone_top_ticks, confirmed_bar |-> Null]
      ELSE [epoch |-> chosen.observed_trigger_epoch, sequence |-> chosen.trigger_sequence,
            tick_price_ticks |-> chosen.observed_trigger_ticks,
            confirmed_bar |-> IF closes THEN bar ELSE Null]

Risk == 10

TradePlan(entry) ==
  LET side == IF input.setup.direction = "LONG" THEN 1 ELSE -1
  IN  [direction |-> input.setup.direction, entry_ticks |-> entry,
       stop_ticks |-> entry - side * Risk, target_ticks |-> entry + 2 * side * Risk]

(* A setup of the experimental cohort is reported as never promoted. *)
Proposal ==
  IF input.setup.liquidity_cohort = "TWO_PLUS_CANDLES" THEN evaluation.selection
  ELSE [evaluation.selection EXCEPT !.reason = "ONE_CANDLE_EXPERIMENT_NOT_PROMOTED",
                                    !.action = "SHADOW_ONLY"]

ExplicitBundle ==
  [setup |-> input.setup, failed_rules |-> {}, candidates |-> evaluation.candidates,
   evidence |-> evaluation.evidence, proposal |-> Proposal,
   plan |-> TradePlan(MarketEvent.tick_price_ticks)]

(* The same bundle with every identity left to the edge. *)
DerivedBundle ==
  LET Marker(id) == IF id = Null THEN Null ELSE edgeDerivedReference(id.model)
  IN  [ExplicitBundle EXCEPT
         !.candidates = {[c EXCEPT !.candidate_id = Marker(@)] : c \in @},
         !.evidence = {[e EXCEPT !.candidate_id = Marker(@), !.evidence_id = Marker(e.candidate_id)] : e \in @},
         !.proposal = [@ EXCEPT !.selection_id = edgeDerivedReference("SELECTION"),
                                !.candidate_ids_considered = {Marker(id) : id \in @},
                                !.canonical_candidate_id = Marker(@),
                                !.canonical_evidence_id =
                                   Marker(evaluation.selection.canonical_candidate_id)]]

Honest(form) ==
  [schema_version |-> "3.1", detector_unreviewed |-> FALSE, settings_unreviewed |-> FALSE,
   observed_at_epoch |-> input.evaluated_at_epoch,
   is_realtime |-> TRUE, market_event |-> MarketEvent, exit_events |-> {},
   setups |-> {IF form = "DERIVED" THEN DerivedBundle ELSE ExplicitBundle}]

(***************************************************************************)
(* The steps.                                                              *)
(***************************************************************************)

Init ==
  /\ phase = "observed"
  /\ input \in Inputs
  /\ evaluation = Null /\ report = Null /\ verdict = Null

Evaluate ==
  /\ phase = "observed"
  /\ phase' = "evaluated"
  /\ evaluation' = evaluateEntryV3Bundle(input)
  /\ UNCHANGED <<input, report, verdict>>

Report(form, a) ==
  /\ phase = "evaluated"
  /\ evaluation # Null
  /\ Reportable(input, a)
  /\ phase' = "reported"
  /\ report' = [form |-> form, alteration |-> a, payload |-> Altered(a, Honest(form))]
  /\ UNCHANGED <<input, evaluation, verdict>>

Validate ==
  /\ phase = "reported"
  /\ phase' = "judged"
  /\ verdict' = validateEntryV3Payload(report.payload)
  /\ UNCHANGED <<input, evaluation, report>>

Next ==
  \/ Evaluate
  \/ \E form \in {"DERIVED", "EXPLICIT"}, a \in Alterations : Report(form, a)
  \/ Validate

Spec == Init /\ [][Next]_vars

(***************************************************************************)
(* What the evaluation of an input must be.                                *)
(***************************************************************************)

(* The triggers an input proves, read from the proofs alone: when, in which   *)
(* order within the second, and at what price.                                *)
Proven(model, proof, ok) ==
  IF ok /\ proof.proof_plane # "CONFIRMED_5M"
  THEN {[model |-> model, at |-> <<proof.trigger_epoch, proof.trigger_sequence>>,
         ticks |-> proof.trigger_ticks]}
  ELSE {}

TriggerAllowed(epoch) ==
  /\ input.setup.common_fidelity = "EXACT"
  /\ ~input.setup.invalidated_before_entry
  /\ input.setup.zone_engaged_epoch # Null
  /\ input.setup.zone_engaged_epoch <= epoch

Beyond(ticks, candle) ==
  IF input.setup.direction = "LONG" THEN ticks > candle.high_ticks ELSE ticks < candle.low_ticks

TimedBreak(proof) ==
  /\ TriggerAllowed(proof.trigger_epoch)
  /\ proof.fidelity = "EXACT"
  /\ Beyond(proof.trigger_ticks, proof.reference_candle)
  /\ proof.htf_boundary_epoch = proof.trigger_candle_open_epoch
  /\ proof.htf_context_minutes # {}
  /\ \A m \in proof.htf_context_minutes : proof.htf_boundary_epoch % (60 * m) = 0
  /\ proof.replayability = "REPLAYABLE" <=> proof.proof_plane # "REALTIME_TICK"
  /\ proof.proof_plane = "REALTIME_TICK" => proof.is_realtime

ProvenTriggers ==
  (IF input.boc_proof = Null THEN {} ELSE Proven("BOC", input.boc_proof, TimedBreak(input.boc_proof)))
    \cup (IF input.htf_flip_proof = Null THEN {}
          ELSE Proven("HTF_FLIP", input.htf_flip_proof, flipFailure(input, input.htf_flip_proof) = Null))
    \cup (IF input.confirmed_bar = Null \/ ~TriggerAllowed(input.confirmed_bar.close_epoch) THEN {}
          ELSE {[model |-> "DIR_CLOSE", ticks |-> input.confirmed_bar.close_ticks,
                 at |-> <<input.confirmed_bar.close_epoch, input.close_trigger_sequence>>]})

Before(a, b) == a[1] < b[1] \/ (a[1] = b[1] /\ a[2] < b[2])

FirstTriggers == {t \in ProvenTriggers : \A u \in ProvenTriggers : ~Before(u.at, t.at)}

(* The canonical entry is the first trigger the proofs establish, whichever    *)
(* digest sorts first; triggers of one event at two prices select nothing.     *)
(* (A setup that is not open yet.)                                             *)
EarliestExactTriggerWins ==
  phase = "evaluated" /\ evaluation # Null /\ input.opened_selection_seed = Null =>
    LET selection == evaluation.selection
        agreed    == Cardinality({t.ticks : t \in FirstTriggers}) = 1
    IN  /\ selection.action = "PAPER_ELIGIBLE" <=> agreed
        /\ agreed =>
             /\ \E t \in FirstTriggers :
                  /\ t.model = selection.canonical_model
                  /\ t.at = eventKey(Opened(selection.canonical_evidence_id))
                  /\ t.ticks = Opened(selection.canonical_evidence_id).observed_trigger_ticks
             /\ Cardinality(FirstTriggers) > 1 =>
                  selection.co_triggered_models = {t.model : t \in FirstTriggers}

(* The same market upside down. *)
MirrorCandle(c) ==
  IF c = Null THEN Null
  ELSE [c EXCEPT !.open_ticks = -@, !.high_ticks = -c.low_ticks, !.low_ticks = -c.high_ticks,
                 !.close_ticks = -@]

Mirror(i) ==
  [i EXCEPT
     !.setup = [@ EXCEPT !.direction = IF @ = "LONG" THEN "SHORT" ELSE "LONG",
                         !.zone_top_ticks = -i.setup.zone_bottom_ticks,
                         !.zone_bottom_ticks = -i.setup.zone_top_ticks],
     !.boc_proof = IF @ = Null THEN Null
                   ELSE [@ EXCEPT !.reference_candle = MirrorCandle(@), !.trigger_ticks = -@],
     !.confirmed_bar = MirrorCandle(@),
     !.htf_flip_proof = IF @ = Null THEN Null
                        ELSE [@ EXCEPT !.trigger_ticks = -@, !.htf_open_ticks = -@,
                                       !.contact_candle = MirrorCandle(@),
                                       !.recross_candle = MirrorCandle(@)],
     !.opened_selection_seed = IF @ = Null THEN Null ELSE [@ EXCEPT !.confirmed_bar = MirrorCandle(@)]]

(* What an evaluation decides, without prices and identities.  Which of        *)
(* several co-triggered models is the canonical one depends on the digests.    *)
Decision(e) ==
  IF e = Null THEN Null
  ELSE [states |-> {<<c.model, c.state, c.boc_tier>> : c \in e.candidates},
        rules |-> {<<v.candidate_id.model, v.fidelity, v.failed_rule_ids>> : v \in e.evidence},
        reason |-> e.selection.reason, action |-> e.selection.action,
        models |-> IF e.selection.reason = "CO_TRIGGER_SAME_EVENT" THEN e.selection.co_triggered_models
                   ELSE {e.selection.canonical_model}]

(* Long and short are decided by mirrored rules, although every comparison of  *)
(* the matcher and the validators is written twice.                            *)
DirectionsAreMirrored ==
  phase = "evaluated" => Decision(evaluateEntryV3Bundle(Mirror(input))) = Decision(evaluation)

(* The vector contract accepts every evaluation of the code it is the oracle   *)
(* of, and no evaluation in which one candidate's verdict was turned around.   *)
VectorContractAgrees ==
  phase = "evaluated" /\ evaluation # Null /\ ~input.setup.one_candle_enabled =>
    /\ parseEntryV3Vector(input, evaluation)
    /\ \A c \in evaluation.candidates :
         c.model = "HTF_FLIP" =>
           ~parseEntryV3Vector(input,
              [evaluation EXCEPT !.candidates =
                 {IF d = c THEN [d EXCEPT !.state = IF @ = "MATCHED" THEN "BLOCKED" ELSE "MATCHED"] ELSE d :
                    d \in @}])

(***************************************************************************)
(* What the edge accepts.                                                  *)
(***************************************************************************)

Traded ==
  {b \in IF verdict = Null THEN {} ELSE verdict : b.evaluation.selection.action = "PAPER_ELIGIBLE"}

(* The reasons for which the edge refuses an evaluation although the producer  *)
(* reports it as it is: the arbitrator may fall back to a confirmed close when *)
(* an earlier trigger preceded the engagement, and it takes a close inside the *)
(* zone; the wire takes neither.                                               *)
StricterOnTheWire ==
  LET selection == evaluation.selection
  IN  /\ selection.action = "PAPER_ELIGIBLE"
      /\ \/ \E e \in evaluation.evidence : e.observed_trigger_epoch < input.setup.zone_engaged_epoch
         \/ /\ "DIR_CLOSE" \in {selection.canonical_model} \cup selection.co_triggered_models
            /\ LET close == MarketEvent.tick_price_ticks
               IN  IF input.setup.direction = "LONG" THEN close <= input.setup.zone_top_ticks
                                                     ELSE close >= input.setup.zone_bottom_ticks

(* An honest report is accepted with the evaluation it reports, in either      *)
(* form of identities; a setup of the experimental cohort only in the derived  *)
(* form, because its proposal names a reason the arbitrator never gives.       *)
HonestReportIsAccepted ==
  phase = "judged" /\ report.alteration.kind = "none" =>
    IF \/ StricterOnTheWire
       \/ input.setup.liquidity_cohort = "ONE_CANDLE" /\ report.form = "EXPLICIT"
    THEN verdict = Null
    ELSE verdict # Null /\ {b.evaluation : b \in verdict} = {evaluation}

(* Nothing is traded on a report that is not about the present event of a      *)
(* reviewed producer: the plan enters at the tick of the market event, at the  *)
(* second the trigger fired, on an engaged zone of the promoted cohort.        *)
TradedEntryIsAuthoritative ==
  phase = "judged" /\ report.payload.exit_events = {} =>
    \A b \in Traded :
      LET market == report.payload.market_event
          chosen == CHOOSE e \in b.evaluation.evidence :
                      e.evidence_id = b.evaluation.selection.canonical_evidence_id
      IN  /\ ~report.payload.detector_unreviewed
          /\ b.setup.liquidity_cohort = "TWO_PLUS_CANDLES"
          /\ b.setup.common_fidelity = "EXACT"
          /\ chosen.fidelity = "EXACT"
          /\ b.plan.entry_ticks = market.tick_price_ticks
          /\ eventKey(chosen) = <<market.epoch, market.sequence>>
          /\ b.setup.zone_engaged_epoch <= market.epoch
          /\ market.epoch <= report.payload.observed_at_epoch
          /\ (b.plan.stop_ticks < b.plan.entry_ticks) = (b.setup.direction = "LONG")
          /\ (b.plan.target_ticks > b.plan.entry_ticks) = (b.setup.direction = "LONG")
          /\ chosen.proof_plane = "REALTIME_TICK" => report.payload.is_realtime

(* One market event closes a trade in one way: when the edge accepts an exit   *)
(* it would have refused the two other reasons for the same event.             *)
ExitReasonIsDetermined ==
  phase = "judged" /\ verdict # Null =>
    \A exit \in report.payload.exit_events :
    \A reason \in ExitReasons \ {exit.exit_reason} :
      validateEntryV3Payload([report.payload EXCEPT !.exit_events =
                                {[x EXCEPT !.exit_reason = reason] : x \in @}]) = Null
================================================================================
