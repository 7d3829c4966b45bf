---------------------------- MODULE RdEntryMatcherV2 ----------------------------
(***************************************************************************)
(* The second entry contract's matcher (rd-entry-matcher.ts): what one     *)
(* five-minute bar of a setup proposes.  A directional close is read from  *)
(* the bar, a flip from the transcripts of the higher timeframes, and the  *)
(* two legacy models are only ever rejected.                               *)
(***************************************************************************)
EXTENDS RdEntryDomainV2, TLC

(***************************************************************************)
(* Validation.                                                             *)
(***************************************************************************)

validateSetup(setup) ==
  /\ setup \in SetupEntryFacts
  /\ setup.zone_top_ticks > setup.zone_bottom_ticks
  /\ setup.terminal_reason = Null <=> setup.terminal_epoch = Null
  /\ setup.terminal_epoch # Null /\ setup.zone_engaged_epoch # Null =>
       setup.terminal_epoch >= setup.zone_engaged_epoch
  /\ setup.invalidated_before_entry => setup.terminal_reason = "INVALIDATED"

validateCandle(candle) ==
  /\ candle \in OrderedCandle
  /\ candle.close_epoch > candle.open_epoch
  /\ candle.high_ticks >= Max({candle.open_ticks, candle.close_ticks, candle.low_ticks})
  /\ candle.low_ticks <= Min({candle.open_ticks, candle.close_ticks, candle.high_ticks})

FIDELITY_TRUST == [EXACT |-> 0, CALIBRATED |-> 1, DISCRETIONARY |-> 2, UNRESOLVED |-> 3]

leastTrusted(first, second) == IF FIDELITY_TRUST[first] >= FIDELITY_TRUST[second] THEN first ELSE second

CoverageSeconds(transcript) == transcript.scan_cutoff_epoch - transcript.htf_open_epoch

validateCompletedHtfPrefix(transcript) ==
  /\ transcript.context_minutes \in HTF_CONTEXT_MINUTES
  /\ transcript.proof_resolution_seconds < 300
  /\ 300 % transcript.proof_resolution_seconds = 0
  /\ CoverageSeconds(transcript) \in 1 .. transcript.context_minutes * 60
  /\ CoverageSeconds(transcript) % 300 = 0
  /\ CoverageSeconds(transcript) % transcript.proof_resolution_seconds = 0

Overlaps(setup, candle) ==
  candle.low_ticks <= setup.zone_top_ticks /\ candle.high_ticks >= setup.zone_bottom_ticks

Recrosses(setup, transcript, candle) ==
  IF setup.direction = "LONG" THEN candle.high_ticks > transcript.htf_open_ticks
                              ELSE candle.low_ticks < transcript.htf_open_ticks

(* The boundary of a scan and the number of candles it saw. *)
CoverageIsConsistent(transcript) ==
  /\ transcript \in HTFFlipProofTranscript
  /\ validateCompletedHtfPrefix(transcript)
  /\ transcript.coverage_start_epoch = transcript.htf_open_epoch
  /\ transcript.coverage_end_epoch = transcript.scan_cutoff_epoch
  /\ transcript.expected_child_count =
       CoverageSeconds(transcript) \div transcript.proof_resolution_seconds
  /\ transcript.observed_child_count <= transcript.expected_child_count
  /\ transcript.gap_present <=> transcript.observed_child_count # transcript.expected_child_count

(* The candles it kept lie on its grid. *)
RetainedCandles(transcript) == {transcript.contact_candle, transcript.recross_candle} \ {Null}

RetainedAreCovered(transcript) ==
  /\ \A candle \in RetainedCandles(transcript) :
       /\ validateCandle(candle)
       /\ candle.open_epoch >= transcript.coverage_start_epoch
       /\ candle.close_epoch <= transcript.coverage_end_epoch
       /\ candle.close_epoch - candle.open_epoch = transcript.proof_resolution_seconds
       /\ (candle.open_epoch - transcript.coverage_start_epoch) % transcript.proof_resolution_seconds = 0
  /\ transcript.observed_child_count >=
       Cardinality({<<c.open_epoch, c.close_epoch>> : c \in RetainedCandles(transcript)})

(* A contact with the zone, then a recross of the higher timeframe's open. *)
LifecycleIsOrdered(setup, transcript) ==
  LET contact == transcript.contact_candle
      recross == transcript.recross_candle
      matched == contact # Null /\ recross # Null
      sameInterval == /\ matched
                      /\ contact.open_epoch = recross.open_epoch
                      /\ contact.close_epoch = recross.close_epoch
  IN  /\ recross # Null => contact # Null
      /\ transcript.same_child <=> sameInterval
      /\ sameInterval => contact = recross
      /\ contact # Null => Overlaps(setup, contact)
      /\ recross # Null => Recrosses(setup, transcript, recross)
      /\ matched /\ ~sameInterval => contact.close_epoch <= recross.open_epoch
      /\ contact # Null /\ Recrosses(setup, transcript, contact) =>
           transcript.same_child /\ contact = recross

validTranscript(setup, transcript) ==
  /\ CoverageIsConsistent(transcript)
  /\ RetainedAreCovered(transcript)
  /\ LifecycleIsOrdered(setup, transcript)

\* Mutant: a flip inside one candle is taken for ordered.
SameChildTrusted(setup, transcript) == FALSE

(* Contact and recross in one candle prove their order only if it opened in the zone. *)
SameChildAmbiguous(setup, transcript) ==
  /\ transcript.contact_candle # Null /\ transcript.recross_candle # Null
  /\ transcript.same_child
  /\ transcript.contact_candle.open_ticks \notin setup.zone_bottom_ticks .. setup.zone_top_ticks

expandTranscript(setup, transcript) ==
  LET matched   == transcript.contact_candle # Null /\ transcript.recross_candle # Null
      ambiguous == SameChildAmbiguous(setup, transcript)
      exact     == /\ matched
                   /\ ~transcript.gap_present
                   /\ transcript.full_lifecycle_ordered
                   /\ ~transcript.destination_seen_before_contact
                   /\ ~ambiguous
  IN  [matched |-> matched, event_anchor_epoch |-> transcript.htf_open_epoch,
       trigger_epoch |-> IF transcript.recross_candle = Null THEN Null
                         ELSE transcript.recross_candle.close_epoch,
       trigger_ticks |-> IF transcript.recross_candle = Null THEN Null ELSE transcript.htf_open_ticks,
       htf_context_minutes |-> {transcript.context_minutes},
       fidelity |-> IF exact THEN "EXACT" ELSE "UNRESOLVED", proof_plane |-> "LOWER_TIMEFRAME_REPLAY",
       proof_resolution_seconds |-> transcript.proof_resolution_seconds,
       coverage_start_epoch |-> transcript.coverage_start_epoch,
       coverage_end_epoch |-> transcript.coverage_end_epoch,
       coverage_expected_child_count |-> transcript.expected_child_count,
       coverage_observed_child_count |-> transcript.observed_child_count,
       coverage_gap_detected |-> transcript.gap_present,
       contact_child |-> transcript.contact_candle, recross_child |-> transcript.recross_candle,
       destination_seen_before_contact |-> transcript.destination_seen_before_contact,
       ambiguity_codes |-> (IF ambiguous THEN {"SHADOW_SAME_CHILD_BAR_ORDER"} ELSE {})
                             \cup (IF transcript.gap_present THEN {"SHADOW_MISSING_INTRABAR_COVERAGE"} ELSE {}),
       transcript_sha256 |-> transcript, full_lifecycle_ordered |-> transcript.full_lifecycle_ordered,
       transcript |-> transcript]

isExpandedHtfFlipProof(proof) == "matched" \in DOMAIN proof

TranscriptOf(proof) == IF isExpandedHtfFlipProof(proof) THEN proof.transcript ELSE proof

validateHtfFlipProof(setup, proof) ==
  LET transcript == TranscriptOf(proof)
  IN  IF /\ validateSetup(setup)
         /\ validTranscript(setup, transcript)
         /\ isExpandedHtfFlipProof(proof) => proof = expandTranscript(setup, transcript)
      THEN expandTranscript(setup, transcript) ELSE Null

(***************************************************************************)
(* Building candidates, evidence and handling.                             *)
(***************************************************************************)

directionalClose(request) ==
  LET bar == request.confirmed_bar
  IN  IF request.setup.direction = "LONG"
      THEN bar.close_ticks > bar.open_ticks /\ bar.close_ticks > request.setup.zone_top_ticks
      ELSE bar.close_ticks < bar.open_ticks /\ bar.close_ticks < request.setup.zone_bottom_ticks

modelSourceClaims(model) == {model}

buildCandidate(request, model, state, anchor, observed, normalizedFrom) ==
  LET identity == [direction |-> request.setup.direction, event_anchor_epoch |-> anchor, model |-> model,
                   setup_id |-> request.setup.setup_id, trigger_ordinal |-> request.trigger_ordinal]
  IN  identity @@ [candidate_id |-> identity, state |-> state, source_claim_ids |-> modelSourceClaims(model),
                   normalized_from |-> normalizedFrom, observed_at_epoch |-> observed]

buildEvidence(candidate, fields) ==
  LET evidence == [candidate_id |-> candidate.candidate_id] @@ fields
  IN  [evidence_id |-> evidenceId(evidence), payload_sha256 |-> payloadSha256(evidence)] @@ evidence

buildEntryHandlingObservation(candidate, evidence, mode, attempt, observed, ticks, fidelity, claims) ==
  LET handling == [candidate_id |-> candidate.candidate_id, evidence_id |-> evidence.evidence_id,
                   handling_mode |-> mode, attempt_kind |-> attempt, observed_epoch |-> observed,
                   observed_ticks |-> ticks, fidelity |-> fidelity, source_claim_ids |-> claims]
  IN  [handling_id |-> handlingId(handling)] @@ handling

Handled(request, candidate, evidence, mode, claims) ==
  buildEntryHandlingObservation(
    candidate, evidence, mode, request.attempt_kind,
    IF evidence.observed_trigger_epoch = Null THEN evidence.observed_at_epoch
                                              ELSE evidence.observed_trigger_epoch,
    evidence.observed_trigger_ticks, evidence.fidelity, claims)

CONFIRMED_RULES ==
  [DIR_CLOSE |-> "ENTRY_DIR_CLOSE", LEGACY_BREAK_CANDLE |-> "ENTRY_BREAK_CANDLE_NORMALIZATION",
   LEGACY_REJECTION_RESPECT |-> "ENTRY_REJECTION_RESPECT_DISABLED"]

(* A candidate read from the confirmed bar alone. *)
appendConfirmedMatch(request, model, state) ==
  LET bar       == request.confirmed_bar
      candidate == buildCandidate(request, model, state, bar.open_epoch, bar.close_epoch, Null)
      rule      == {CONFIRMED_RULES[model]}
      active    == model = "DIR_CLOSE"
      evidence  == buildEvidence(candidate,
                     [observed_trigger_epoch |-> bar.close_epoch, observed_trigger_ticks |-> bar.close_ticks,
                      htf_context_minutes |-> {},
                      fidelity |-> leastTrusted(request.setup.common_fidelity, "EXACT"),
                      proof_plane |-> "CONFIRMED_5M", proof_resolution_seconds |-> 300,
                      coverage_start_epoch |-> bar.open_epoch, coverage_end_epoch |-> bar.close_epoch,
                      ambiguity_codes |-> {}, passed_rule_ids |-> IF active THEN rule ELSE {},
                      failed_rule_ids |-> IF active THEN {} ELSE rule,
                      source_claim_ids |-> modelSourceClaims(model), observed_at_epoch |-> bar.close_epoch])
  IN  [candidate |-> candidate, evidence |-> {evidence},
       handling |-> {Handled(request, candidate, evidence, "CLOSE_CONFIRMATION", modelSourceClaims(model))}]

proofIsOrderProven(proof) ==
  proof.fidelity = "EXACT" /\ proof.full_lifecycle_ordered /\ proof.ambiguity_codes = {}

proofBoundaryContainsConfirmedBar(request, proof) ==
  \E context \in proof.htf_context_minutes :
    /\ proof.event_anchor_epoch <= request.confirmed_bar.open_epoch
    /\ request.confirmed_bar.close_epoch <= proof.event_anchor_epoch + context * 60

(* What the evidence of a proof says, contexts aside, and what tells two     *)
(* proofs of one flip apart.                                                 *)
PreparedProof(request, proof, normalized) ==
  LET proven == proofIsOrderProven(proof)
  IN  [observed_trigger_epoch |-> proof.trigger_epoch, observed_trigger_ticks |-> proof.trigger_ticks,
       fidelity |-> leastTrusted(request.setup.common_fidelity, proof.fidelity),
       proof_plane |-> proof.proof_plane, proof_resolution_seconds |-> proof.proof_resolution_seconds,
       coverage_start_epoch |-> proof.coverage_start_epoch, coverage_end_epoch |-> proof.coverage_end_epoch,
       ambiguity_codes |-> proof.ambiguity_codes,
       passed_rule_ids |-> IF proven THEN {"ENTRY_HTF_FLIP"} ELSE {},
       failed_rule_ids |-> IF proven THEN {}
                           ELSE {"ENTRY_HTF_FLIP"}
                                  \cup (IF proof.destination_seen_before_contact /\ ~proof.coverage_gap_detected
                                        THEN {"ENTRY_HTF_ZONE_SIDE_FIRST"} ELSE {}),
       source_claim_ids |-> {"HTF_FLIP"} \cup (IF normalized THEN {"LEGACY_BREAK_CANDLE"} ELSE {})
                              \cup (IF proof.full_lifecycle_ordered THEN {} ELSE {"HTF_BOUNDARY"}),
       observed_at_epoch |-> proof.transcript.scan_cutoff_epoch]

evidenceGroupingKey(request, proof, normalized) ==
  <<PreparedProof(request, proof, normalized), proof.coverage_expected_child_count,
    proof.coverage_observed_child_count, proof.coverage_gap_detected>>

(* One flip, seen from one or more higher timeframes. *)
appendHtfGroup(request, proofs, normalized) ==
  LET Key(p)    == evidenceGroupingKey(request, p, normalized)
      candidate == buildCandidate(request, "HTF_FLIP",
                     CASE normalized -> "NORMALIZED"
                       [] ~normalized -> IF \E p \in proofs : proofIsOrderProven(p) THEN "MATCHED" ELSE "BLOCKED",
                     (CHOOSE p \in proofs : TRUE).event_anchor_epoch,
                     Max({p.transcript.scan_cutoff_epoch : p \in proofs}),
                     IF normalized THEN "LEGACY_BREAK_CANDLE" ELSE Null)
      Evidence(key) ==
        buildEvidence(candidate, key[1] @@
          [htf_context_minutes |-> UNION {p.htf_context_minutes : p \in {q \in proofs : Key(q) = key}}])
      evidence  == {Evidence(key) : key \in {Key(p) : p \in proofs}}
  IN  [candidate |-> candidate, evidence |-> evidence,
       handling |-> {Handled(request, candidate, e, "INTRABAR_FLIP", {"HTF_FLIP"}) : e \in evidence}]

(***************************************************************************)
(* The match of one request.                                               *)
(***************************************************************************)

validateAttempt(request) ==
  /\ request.attempt_kind \in AttemptKind
  /\ request.trigger_ordinal >= 1
  /\ request.attempt_kind = "INITIAL" => request.trigger_ordinal = 1
  /\ request.attempt_kind = "RE_ENTRY" => request.trigger_ordinal >= 2

validateEntryRequestShape(request) ==
  /\ request \in EntryMatchRequest(request.htf_proofs)
  /\ validateSetup(request.setup)
  /\ validateCandle(request.confirmed_bar)
  /\ request.confirmed_bar.close_epoch - request.confirmed_bar.open_epoch = 300
  /\ validateAttempt(request)
  /\ request.setup.zone_engaged_epoch # Null =>
       request.setup.zone_engaged_epoch <= request.confirmed_bar.close_epoch
  /\ Cardinality(request.htf_proofs) <= 3

ProofsAreTimely(request, proofs) ==
  /\ Cardinality({p.htf_context_minutes : p \in proofs}) = Cardinality(request.htf_proofs)
  /\ \A p \in proofs :
       /\ p.coverage_end_epoch <= request.confirmed_bar.close_epoch
       /\ p.transcript.scan_cutoff_epoch = p.coverage_end_epoch
       /\ p.matched =>
            /\ p.trigger_epoch \in p.coverage_start_epoch .. p.coverage_end_epoch
            /\ request.setup.zone_engaged_epoch # Null =>
                 request.setup.zone_engaged_epoch <= p.trigger_epoch

NoEntryExpected(setup) ==
  \/ setup.zone_engaged_epoch = Null
  \/ setup.invalidated_before_entry
  \/ setup.terminal_reason \in {"INVALIDATED", "RETENTION_EVICTED"}

(* The matches of a request, a set: of one model at most one comes from the   *)
(* bar, and flips differ in their anchors.                                    *)
Matches(request, proofs) ==
  LET matched == {p \in proofs : p.matched}
      Group(anchor) == {p \in matched : p.event_anchor_epoch = anchor}
      Normalized(group) ==
        /\ request.generic_break_detected
        /\ \A p \in group : p.trigger_epoch = request.confirmed_bar.close_epoch
        /\ \E p \in group : proofBoundaryContainsConfirmedBar(request, p)
      groups == {Group(p.event_anchor_epoch) : p \in matched}
  IN  (IF directionalClose(request) THEN {appendConfirmedMatch(request, "DIR_CLOSE", "MATCHED")} ELSE {})
        \cup {appendHtfGroup(request, g, Normalized(g)) : g \in groups}
        \cup (IF request.generic_break_detected /\ \A g \in groups : ~Normalized(g)
              THEN {appendConfirmedMatch(request, "LEGACY_BREAK_CANDLE", "REJECTED")} ELSE {})
        \cup (IF request.rejection_respect_detected
              THEN {appendConfirmedMatch(request, "LEGACY_REJECTION_RESPECT", "REJECTED")} ELSE {})

(* Two flips of one anchor with different triggers would share an identity. *)
FlipsCollide(proofs) ==
  \E p, q \in {r \in proofs : r.matched} :
    p.event_anchor_epoch = q.event_anchor_epoch /\ p.trigger_epoch # q.trigger_epoch

evaluateEntryMatch(request) ==
  LET proofs == {validateHtfFlipProof(request.setup, p) : p \in request.htf_proofs}
  IN  IF \/ ~validateEntryRequestShape(request)
         \/ request.setup.terminal_epoch \notin {Null, request.confirmed_bar.close_epoch}
         \/ Null \in proofs
         \/ ~ProofsAreTimely(request, proofs)
      THEN Null
      ELSE IF NoEntryExpected(request.setup) THEN {}
      ELSE IF FlipsCollide(proofs) THEN Null
      ELSE Matches(request, proofs)
================================================================================
