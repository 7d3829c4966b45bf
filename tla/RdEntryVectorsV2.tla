---------------------------- MODULE RdEntryVectorsV2 ----------------------------
(***************************************************************************)
(* The contract of the entry test vectors (rd-entry-vector-contract.ts):   *)
(* the scan that turns the one-minute candles of a higher-timeframe candle *)
(* into the transcript of a flip, and what makes a case of the reviewed    *)
(* document consistent.  A case has three views of one attempt: the raw    *)
(* scans, the transcripts the edge evaluates, and the same transcripts at  *)
(* the fidelity Pine can claim.                                            *)
(*                                                                         *)
(* Keys, formats and constant fields are left out, and so are the number   *)
(* and the names of the reviewed cases.                                    *)
(***************************************************************************)
EXTENDS RdEntryArbitratorV2

(***************************************************************************)
(* The views of a case.                                                    *)
(***************************************************************************)

(* Children are a set: the contract wants them in ascending order. *)
RawHtfScanRequest(children) ==
  [timeframe_minutes: HTF_CONTEXT_MINUTES, htf_open_epoch: Nat, scan_cutoff_epoch: Nat,
   htf_open_ticks: Int, children: SUBSET children, proof_resolution_seconds: Nat \ {0},
   full_lifecycle_ordered: BOOLEAN]

candleValue(candle) ==
  /\ candle \in OrderedCandle
  /\ candle.close_epoch > candle.open_epoch
  /\ candle.high_ticks >= Max({candle.open_ticks, candle.close_ticks, candle.low_ticks})
  /\ candle.low_ticks <= Min({candle.open_ticks, candle.close_ticks, candle.high_ticks})

setupValue(setup) ==
  /\ setup \in SetupEntryFacts
  /\ setup.zone_top_ticks > setup.zone_bottom_ticks
  /\ setup.terminal_reason = Null <=> setup.terminal_epoch = Null
  /\ setup.invalidated_before_entry => setup.terminal_reason = "INVALIDATED"
  /\ setup.zone_engaged_epoch # Null /\ setup.terminal_epoch # Null =>
       setup.terminal_epoch >= setup.zone_engaged_epoch

transcriptValue(transcript) ==
  /\ transcript \in HTFFlipProofTranscript
  /\ transcript.contact_candle # Null => candleValue(transcript.contact_candle)
  /\ transcript.recross_candle # Null => candleValue(transcript.recross_candle)

matchRequestValue(request) ==
  /\ \A proof \in request.htf_proofs : transcriptValue(proof)
  /\ setupValue(request.setup)
  /\ candleValue(request.confirmed_bar)
  /\ validateEntryRequestShape(request)
  /\ Identified(request.htf_proofs, "context_minutes")

scanValue(scan) ==
  LET coverage   == scan.scan_cutoff_epoch - scan.htf_open_epoch
      resolution == scan.proof_resolution_seconds
  IN  /\ scan \in RawHtfScanRequest(scan.children)
      /\ \A child \in scan.children : candleValue(child)
      /\ coverage \in 1 .. scan.timeframe_minutes * 60
      /\ coverage % 300 = 0
      /\ resolution < 300 /\ 300 % resolution = 0 /\ coverage % resolution = 0
      /\ Identified(scan.children, "open_epoch")
      /\ \A child \in scan.children : /\ child.open_epoch >= scan.htf_open_epoch
                                      /\ child.close_epoch <= scan.scan_cutoff_epoch
                                      /\ (child.open_epoch - scan.htf_open_epoch) % resolution = 0

(* An event brings its transcripts or the scans they come from, never both. *)
rawEventValue(event) ==
  /\ matchRequestValue(event.match_request)
  /\ \A scan \in event.htf_scan_requests : scanValue(scan)
  /\ event.match_request.htf_proofs = {} \/ event.htf_scan_requests = {}
  /\ Identified(event.htf_scan_requests, "timeframe_minutes")

edgeEventValue(event) == matchRequestValue(event.match_request)

(* The events of an input are a sequence of records with an event_id. *)
rawInputValue(input) ==
  /\ \A i \in DOMAIN input.events : rawEventValue(input.events[i])
  /\ input.revision \in Nat /\ input.evaluated_at_epoch \in Nat

edgeInputValue(input) ==
  /\ \A i \in DOMAIN input.events : edgeEventValue(input.events[i])
  /\ input.revision \in Nat /\ input.evaluated_at_epoch \in Nat

candidateValue(candidate) == candidate \in EntryCandidate

evidenceValue(evidence) ==
  /\ Hashed(evidence, {"evidence_id", "candidate_id", "payload_sha256"}) \in EVIDENCE_FIELDS
  /\ evidence.observed_trigger_epoch = Null <=> evidence.observed_trigger_ticks = Null
  /\ evidence.coverage_end_epoch > evidence.coverage_start_epoch

handlingValue(handling) ==
  /\ handling.handling_mode \in HandlingMode
  /\ handling.attempt_kind \in AttemptKind
  /\ handling.observed_epoch \in Nat
  /\ handling.observed_ticks \in Nullable(Int)
  /\ handling.fidelity \in CandidateFidelity
  /\ handling.source_claim_ids \subseteq SOURCE_CLAIMS

selectionValue(selection) ==
  /\ selection.revision \in Nat /\ selection.evaluated_at_epoch \in Nat
  /\ selection.canonical_model \in Nullable(ALL_ENTRY_MODELS)
  /\ selection.reason \in SelectionReason
  /\ selection.fidelity \in Nullable(CandidateFidelity)
  /\ selection.action \in SELECTION_ACTIONS
  /\ selection.canonical_candidate_id = Null <=> selection.canonical_evidence_id = Null

(* An expected result is a graph whose records own each other by identity. *)
expectedValue(expected) ==
  LET candidateIds == {c.candidate_id : c \in expected.candidates}
      evidenceIds  == {e.evidence_id : e \in expected.evidence}
  IN  /\ \A t \in expected.htf_transcripts : transcriptValue(t)
      /\ \A c \in expected.candidates : candidateValue(c)
      /\ \A e \in expected.evidence : evidenceValue(e)
      /\ \A h \in expected.handling : handlingValue(h)
      /\ selectionValue(expected.selection)
      /\ Identified(expected.htf_transcripts, "context_minutes")
      /\ Identified(expected.candidates, "candidate_id")
      /\ Identified(expected.evidence, "evidence_id")
      /\ Identified(expected.handling, "handling_id")
      /\ \A e \in expected.evidence : e.candidate_id \in candidateIds
      /\ \A h \in expected.handling : h.candidate_id \in candidateIds /\ h.evidence_id \in evidenceIds

caseValue(vector) ==
  /\ rawInputValue(vector.input)
  /\ edgeInputValue(vector.edge_input)
  /\ edgeInputValue(vector.pine_edge_input)
  /\ expectedValue(vector.expected)
  /\ expectedValue(vector.pine_expected)

(***************************************************************************)
(* The scan of a higher-timeframe candle.                                  *)
(***************************************************************************)

contactsZone(setup, candle) ==
  candle.low_ticks <= setup.zone_top_ticks /\ candle.high_ticks >= setup.zone_bottom_ticks

recrossesHtfOpen(setup, htfOpenTicks, candle) ==
  IF setup.direction = "LONG" THEN candle.high_ticks > htfOpenTicks ELSE candle.low_ticks < htfOpenTicks

(* One child of the scan, or Null where the feed has none. *)
ScanChild(setup, htfOpenTicks, found, child) ==
  LET contacts  == contactsZone(setup, child)
      recrosses == recrossesHtfOpen(setup, htfOpenTicks, child)
      recrossed == IF recrosses THEN child ELSE Null
  IN  IF child = Null THEN [found EXCEPT !.contact = Null, !.recross = Null]
      ELSE IF found.recross # Null THEN found
      ELSE IF found.contact # Null THEN [found EXCEPT !.recross = recrossed]
      ELSE IF contacts THEN [found EXCEPT !.contact = child, !.recross = recrossed]
      ELSE [found EXCEPT !.destination = @ \/ recrosses]

(* The transcript of a scan that found a contact and a recross, or neither. *)
ScanTranscript(scan, expected, observed, found) ==
  [context_minutes |-> scan.timeframe_minutes, htf_open_epoch |-> scan.htf_open_epoch,
   htf_open_ticks |-> scan.htf_open_ticks, scan_cutoff_epoch |-> scan.scan_cutoff_epoch,
   proof_resolution_seconds |-> scan.proof_resolution_seconds,
   coverage_start_epoch |-> scan.htf_open_epoch, coverage_end_epoch |-> scan.scan_cutoff_epoch,
   expected_child_count |-> expected, observed_child_count |-> observed,
   gap_present |-> observed # expected, full_lifecycle_ordered |-> scan.full_lifecycle_ordered,
   destination_seen_before_contact |-> found.destination,
   contact_candle |-> found.contact, recross_candle |-> found.recross,
   same_child |-> found.contact # Null /\ found.contact = found.recross]

ValidTranscript(setup, transcript) ==
  IF validateHtfFlipProof(setup, transcript) = Null THEN Null ELSE transcript

scanHtfFlip(setup, scan) ==
  LET resolution == scan.proof_resolution_seconds
      kept       == {c \in scan.children : c.close_epoch - c.open_epoch = resolution}
      expected   == (scan.scan_cutoff_epoch - scan.htf_open_epoch) \div resolution
      ChildAt(i) == LET at == {c \in kept : c.open_epoch = scan.htf_open_epoch + (i - 1) * resolution}
                    IN  IF at = {} THEN Null ELSE CHOOSE c \in at : TRUE
  IN  ValidTranscript(setup,
        ScanTranscript(scan, expected, Cardinality(kept),
          FoldLeft(LAMBDA f, child : ScanChild(setup, scan.htf_open_ticks, f, child),
                   [contact |-> Null, recross |-> Null, destination |-> FALSE],
                   [i \in 1 .. expected |-> ChildAt(i)])))

(***************************************************************************)
(* The views agree.                                                        *)
(***************************************************************************)

expandRawInput(input) ==
  LET Expanded(event) ==
        LET request == event.match_request
        IN  [event_id |-> event.event_id,
             match_request |->
               [request EXCEPT !.htf_proofs =
                  IF @ # {} THEN {TranscriptOf(p) : p \in @}
                  ELSE {scanHtfFlip(request.setup, scan) : scan \in event.htf_scan_requests}]]
  IN  [input EXCEPT !.events = [i \in DOMAIN @ |-> Expanded(@[i])]]

\* Mutant: the projection keeps the fidelity.
PineProjectionUnchanged(input) == input

pineProjection(input) ==
  [input EXCEPT !.events =
     [i \in DOMAIN @ |-> [@[i] EXCEPT !.match_request.setup.common_fidelity = "UNRESOLVED"]]]

(* Of every higher timeframe the transcript that saw most. *)
finalTranscripts(input) ==
  LET all == UNION {{TranscriptOf(p) : p \in input.events[i].match_request.htf_proofs} : i \in DOMAIN input.events}
      Later(t, u) == \/ t.htf_open_epoch > u.htf_open_epoch
                     \/ t.htf_open_epoch = u.htf_open_epoch /\ t.scan_cutoff_epoch > u.scan_cutoff_epoch
  IN  {t \in all : ~\E u \in all : u.context_minutes = t.context_minutes /\ Later(u, t)}

evaluationWithTranscripts(evaluation, input) ==
  IF evaluation = Null THEN Null ELSE [htf_transcripts |-> finalTranscripts(input)] @@ evaluation

(* One event identity names one content. *)
eventIdentityMap(listed) ==
  \A i, j \in DOMAIN listed : listed[i].event_id = listed[j].event_id => listed[i] = listed[j]

(* What an input evaluates to, Null when the stream refuses it. *)
Evaluated(input) ==
  evaluationWithTranscripts(
    evaluateEntryStream({input.events[i].match_request : i \in DOMAIN input.events},
                        input.setup_invalidated, input.revision, input.evaluated_at_epoch), input)

validateCaseSemantics(vector) ==
  LET inputs == {vector.input, vector.edge_input, vector.pine_edge_input}
      Ids(input) == [i \in DOMAIN input.events |-> input.events[i].event_id]
  IN  /\ vector.calculation_start_epoch <= vector.emission_start_epoch
      /\ vector.emission_start_epoch <= vector.emission_end_epoch
      /\ \A input \in inputs : input.setup_id = vector.setup_id
      /\ vector.expected.selection.setup_id = vector.setup_id
      /\ vector.pine_expected.selection.setup_id = vector.setup_id
      /\ vector.pine_expected.selection.action # "PAPER_ELIGIBLE"
      /\ \A input \in inputs : eventIdentityMap(input.events) /\ Ids(input) = Ids(vector.input)
      /\ \A input \in inputs : \A i \in DOMAIN input.events :
           LET request == input.events[i].match_request
           IN  /\ request.setup.setup_id = vector.setup_id
               /\ request.confirmed_bar.close_epoch \in vector.emission_start_epoch .. vector.emission_end_epoch
      /\ \A i \in DOMAIN vector.pine_edge_input.events :
           vector.pine_edge_input.events[i].match_request.setup.common_fidelity = "UNRESOLVED"
      /\ vector.edge_input = expandRawInput(vector.input)
      /\ vector.pine_edge_input = pineProjection(vector.edge_input)
      /\ vector.expected = Evaluated(vector.edge_input)
      /\ vector.pine_expected = Evaluated(vector.pine_edge_input)

(* Case identities are unique, and a setup is attempted in one way only. *)
parseRdEntryOracleVectorDocument(cases) ==
  /\ \A vector \in cases : caseValue(vector)
  /\ Identified(cases, "case_id")
  /\ \A vector \in cases : validateCaseSemantics(vector)
  /\ \A v, w \in cases : v.setup_id = w.setup_id =>
       \A i \in DOMAIN v.input.events : \A j \in DOMAIN w.input.events :
         v.input.events[i].match_request.attempt_kind = w.input.events[j].match_request.attempt_kind
================================================================================
