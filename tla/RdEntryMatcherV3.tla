---------------------------- MODULE RdEntryMatcherV3 ----------------------------
(***************************************************************************)
(* The third entry contract's matcher (rd-entry-matcher-v3.ts): each proof *)
(* of a setup becomes one candidate with its evidence, matched when every  *)
(* check of its model holds and named after the first that does not.       *)
(*                                                                         *)
(* A request is the arbitration input itself: its setup, its proofs and    *)
(* the time of observation.                                                *)
(***************************************************************************)
EXTENDS RdEntryDomainV3, TLC

\* Mutant: the last check that fails names the failure.
LastFailure(checks) ==
  LET failed == {k \in DOMAIN checks : ~checks[k].holds}
  IN  IF failed = {} THEN Null ELSE checks[Max(failed)].rule

FirstFailure(checks) ==
  LET failed == {k \in DOMAIN checks : ~checks[k].holds}
  IN  IF failed = {} THEN Null ELSE checks[Min(failed)].rule

FirstOf(failures) ==
  LET failed == {k \in DOMAIN failures : failures[k] # Null}
  IN  IF failed = {} THEN Null ELSE failures[Min(failed)]

bocBreaksReference(request, proof) ==
  Crosses(request.setup.direction, proof.trigger_ticks, proof.trigger_ticks,
          IF request.setup.direction = "LONG" THEN proof.reference_candle.high_ticks
                                              ELSE proof.reference_candle.low_ticks)

strictBocContext(proof) ==
  /\ proof.htf_boundary_epoch = proof.trigger_candle_open_epoch
  /\ proof.htf_context_minutes # {}
  /\ \A context \in proof.htf_context_minutes : proof.htf_boundary_epoch % (context * 60) = 0

(* The common failure after which no model may match; Null when there is none. *)
commonFailure(request, triggerEpoch) ==
  FirstFailure(<<
    [rule |-> "COMMON_SETUP_NOT_EXACT", holds |-> request.setup.common_fidelity = "EXACT"],
    [rule |-> "SETUP_INVALIDATED", holds |-> ~request.setup.invalidated_before_entry],
    [rule |-> "ENTRY_BEFORE_ZONE_ENGAGEMENT",
     holds |-> /\ request.setup.zone_engaged_epoch # Null
               /\ triggerEpoch >= request.setup.zone_engaged_epoch]>>)

realtimeFailure(proof) ==
  CASE proof.proof_plane = "REALTIME_TICK" ->
         IF proof.is_realtime /\ proof.replayability = "LIVE_EXACT_NON_REPLAYABLE"
         THEN Null ELSE "REALTIME_EVIDENCE_NOT_LIVE"
    [] proof.proof_plane # "REALTIME_TICK" ->
         IF proof.replayability = "REPLAYABLE" THEN Null ELSE "EVIDENCE_REPLAYABILITY_MISMATCH"

contactsZone(request, candle) ==
  /\ candle.low_ticks <= request.setup.zone_top_ticks
  /\ candle.high_ticks >= request.setup.zone_bottom_ticks

candleCrossesHtfOpen(request, proof, candle) ==
  Crosses(request.setup.direction, candle.high_ticks, candle.low_ticks, proof.htf_open_ticks)

actualTickCrossesHtfOpen(request, proof, candle) ==
  Crosses(request.setup.direction, candle.close_ticks, candle.close_ticks, proof.htf_open_ticks)

(* The checks of a flip's life, in the code's order: the first one that      *)
(* fails names the failure.                                                  *)
FlipChecks(request, proof) ==
  <<[rule |-> "HTF_FLIP_COVERAGE_GAP", holds |-> ~proof.coverage_gap_detected],
    [rule |-> "HTF_FLIP_ORDER_UNPROVEN", holds |-> proof.full_lifecycle_ordered],
    [rule |-> "HTF_FLIP_DESTINATION_BEFORE_CONTACT", holds |-> ~proof.destination_seen_before_contact],
    [rule |-> "HTF_FLIP_AMBIGUOUS", holds |-> proof.ambiguity_codes = {}],
    [rule |-> "HTF_FLIP_ANCHOR_AFTER_CONTACT",
     holds |-> proof.event_anchor_epoch <= proof.contact_candle.open_epoch],
    [rule |-> "HTF_FLIP_TRIGGER_OUTSIDE_CONTEXT",
     holds |-> \A context \in proof.htf_context_minutes :
                 proof.trigger_epoch < proof.event_anchor_epoch + context * 60],
    [rule |-> "HTF_FLIP_CONTACT_OUTSIDE_ZONE", holds |-> contactsZone(request, proof.contact_candle)],
    [rule |-> "HTF_FLIP_CONTACT_ALREADY_RECROSSED",
     holds |-> ~candleCrossesHtfOpen(request, proof, proof.contact_candle)],
    [rule |-> "HTF_FLIP_OPEN_NOT_RECROSSED",
     holds |-> actualTickCrossesHtfOpen(request, proof, proof.recross_candle)],
    [rule |-> "HTF_FLIP_CONTEXT_MISALIGNED",
     holds |-> /\ proof.htf_context_minutes # {}
               /\ \A context \in proof.htf_context_minutes :
                    proof.event_anchor_epoch % (context * 60) = 0]>>

flipLifecycleFailure(request, proof) ==
  IF proof.contact_candle = Null \/ proof.recross_candle = Null
  THEN "HTF_FLIP_INCOMPLETE_LIFECYCLE"
  ELSE FirstFailure(FlipChecks(request, proof))

Identity(request, model, anchor, tier, reference) ==
  [setup_id |-> request.setup.setup_id, model |-> model, direction |-> request.setup.direction,
   event_anchor_epoch |-> anchor, trigger_ordinal |-> 1, boc_tier |-> tier,
   reference_candle_open_epoch |-> reference]

Candidate(request, identity, state, claims) ==
  [candidate_id |-> identity, setup_id |-> identity.setup_id, model |-> identity.model,
   direction |-> identity.direction, event_anchor_epoch |-> identity.event_anchor_epoch,
   trigger_ordinal |-> identity.trigger_ordinal, boc_tier |-> identity.boc_tier,
   reference_candle_open_epoch |-> identity.reference_candle_open_epoch,
   state |-> state, source_claim_ids |-> claims, observed_at_epoch |-> request.observed_at_epoch]

Evidence(request, payload) ==
  [evidence_id |-> evidenceIdV3(payload), observed_at_epoch |-> request.observed_at_epoch] @@ payload

(* The flip fields of an evidence that is not a flip's. *)
NoFlip ==
  [htf_open_ticks |-> Null, contact_candle |-> Null, recross_candle |-> Null,
   coverage_gap_detected |-> Null, full_lifecycle_ordered |-> Null,
   destination_seen_before_contact |-> Null, ambiguity_codes |-> {}]

(* The facts of a trigger that its evidence copies from the proof. *)
Trigger(proof) ==
  [observed_trigger_epoch |-> proof.trigger_epoch, trigger_sequence |-> proof.trigger_sequence,
   observed_trigger_ticks |-> proof.trigger_ticks, htf_context_minutes |-> proof.htf_context_minutes,
   proof_plane |-> proof.proof_plane, replayability |-> proof.replayability,
   coverage_start_epoch |-> proof.coverage_start_epoch,
   coverage_end_epoch |-> proof.coverage_end_epoch]

Verdict(id, claims, tier, reference, fidelity, failure, rule) ==
  [candidate_id |-> id, source_claim_ids |-> claims, boc_tier |-> tier, reference |-> reference,
   fidelity |-> fidelity,
   passed_rule_ids |-> IF failure = Null THEN {rule} ELSE {},
   failed_rule_ids |-> {failure} \ {Null}]

Pair(request, identity, state, claims, payload) ==
  [candidate |-> Candidate(request, identity, state, claims), evidence |-> Evidence(request, payload)]

matchBoc(request, proof) ==
  LET strict   == strictBocContext(proof)
      tier     == IF strict THEN "HTF_TIMED" ELSE "DISCRETIONARY_5M"
      claims   == IF strict THEN "BOC_HTF_TIMED" ELSE "BOC_DISCRETIONARY_5M"
      open     == proof.reference_candle.open_epoch
      identity == Identity(request, "BOC", open, tier, open)
      common   == commonFailure(request, proof.trigger_epoch)
      broke    == bocBreaksReference(request, proof)
      failure  == FirstOf(<<common,
                            IF broke THEN Null ELSE "BOC_WRONG_DIRECTION",
                            realtimeFailure(proof),
                            IF proof.fidelity = "EXACT" THEN Null ELSE "MODEL_EVIDENCE_NOT_EXACT",
                            IF strict THEN Null ELSE "BOC_DISCRETIONARY_CONTEXT_UNQUANTIFIED">>)
      state    == CASE failure \in {Null, "BOC_DISCRETIONARY_CONTEXT_UNQUANTIFIED"} -> "MATCHED"
                    [] failure = "BOC_WRONG_DIRECTION"                              -> "REJECTED"
                    [] OTHER                                                       -> "BLOCKED"
      fidelity == CASE failure = Null \/ proof.fidelity # "EXACT"           -> proof.fidelity
                    [] failure = "BOC_DISCRETIONARY_CONTEXT_UNQUANTIFIED" -> "DISCRETIONARY"
                    [] OTHER                                              -> "UNRESOLVED"
      reference == [f \in DOMAIN NoReference |-> proof.reference_candle[f]]
  IN  Pair(request, identity, state, claims,
           Verdict(identity, claims, tier, reference, fidelity, failure, "ENTRY_BOC_HTF_TIMED")
             @@ Trigger(proof) @@ NoFlip)

matchClose(request, bar) ==
  LET identity == Identity(request, "DIR_CLOSE", bar.open_epoch, Null, Null)
      failure  == FirstOf(<<commonFailure(request, bar.close_epoch),
                            IF bar.close_epoch - bar.open_epoch = 300
                            THEN Null ELSE "DIR_CLOSE_NOT_CONFIRMED_5M">>)
  IN  Pair(request, identity, IF failure = Null THEN "MATCHED" ELSE "BLOCKED", "DIR_CLOSE",
           Verdict(identity, "DIR_CLOSE", Null, NoReference,
                   IF failure = Null THEN "EXACT" ELSE "UNRESOLVED", failure, "ENTRY_DIR_CLOSE")
             @@ NoFlip
             @@ [observed_trigger_epoch |-> bar.close_epoch,
                 trigger_sequence |-> request.close_trigger_sequence,
                 observed_trigger_ticks |-> bar.close_ticks, htf_context_minutes |-> {},
                 proof_plane |-> "CONFIRMED_5M", replayability |-> "REPLAYABLE",
                 coverage_start_epoch |-> bar.open_epoch, coverage_end_epoch |-> bar.close_epoch])

matchFlip(request, proof) ==
  LET identity == Identity(request, "HTF_FLIP", proof.event_anchor_epoch, Null, Null)
      failure  == FirstOf(<<commonFailure(request, proof.trigger_epoch),
                            flipLifecycleFailure(request, proof),
                            realtimeFailure(proof),
                            IF proof.fidelity = "EXACT" THEN Null ELSE "MODEL_EVIDENCE_NOT_EXACT">>)
  IN  Pair(request, identity, IF failure = Null THEN "MATCHED" ELSE "BLOCKED", "HTF_FLIP",
           Verdict(identity, "HTF_FLIP", Null, NoReference,
                   IF failure = Null THEN "EXACT" ELSE "UNRESOLVED", failure, "ENTRY_HTF_FLIP")
             @@ Trigger(proof)
             @@ [f \in DOMAIN NoFlip |-> proof[f]])

matchEntryCandidatesV3(request) ==
  (IF request.boc_proof # Null THEN {matchBoc(request, request.boc_proof)} ELSE {})
    \cup (IF request.directional_close THEN {matchClose(request, request.confirmed_bar)} ELSE {})
    \cup (IF request.htf_flip_proof # Null THEN {matchFlip(request, request.htf_flip_proof)} ELSE {})
================================================================================
