--------------------------- MODULE RdEntryArbitratorV2 ---------------------------
(***************************************************************************)
(* The second entry contract's arbitrator (rd-entry-arbitrator.ts): the    *)
(* bars of one setup attempt are folded into its candidates, their         *)
(* evidence and handling, and of the candidates with exact evidence the    *)
(* one triggered first is selected.                                        *)
(***************************************************************************)
EXTENDS RdEntryMatcherV2, Sequences, SequencesExt

CONSTANT Rank(_)      \* the place of a digest among all digests, as localeCompare orders them

EXACT_PROOF_PLANES == {"CONFIRMED_5M", "LOWER_TIMEFRAME_REPLAY", "EXTERNAL_ARCHIVED_TICK"}

(* A merge by identity fails when one identity names two different records. *)
mergeImmutable(records, id) == Identified(records, id)

(***************************************************************************)
(* Arbitration.                                                            *)
(***************************************************************************)

validateCandidateDomain(candidate) == candidate \in EntryCandidate

validateEvidenceDomain(evidence) ==
  /\ Hashed(evidence, {"evidence_id", "candidate_id", "payload_sha256"}) \in EVIDENCE_FIELDS
  /\ evidence.candidate_id \in CandidateIdentity

validateCandidateIdentity(candidate, setupId) ==
  /\ validateCandidateDomain(candidate)
  /\ candidate.setup_id = setupId
  /\ candidate.candidate_id = candidateId(candidate)

validateEvidenceIdentity(evidence) ==
  /\ validateEvidenceDomain(evidence)
  /\ evidence.observed_trigger_epoch = Null <=> evidence.observed_trigger_ticks = Null
  /\ evidence.coverage_end_epoch > evidence.coverage_start_epoch
  /\ evidence.observed_trigger_epoch # Null =>
       evidence.observed_trigger_epoch \in evidence.coverage_start_epoch .. evidence.coverage_end_epoch
  /\ evidence.payload_sha256 = payloadSha256(evidence)
  /\ evidence.evidence_id = evidenceId(evidence)

(* The keys by which exact evidence is ranked, the first that differs decides. *)
exactEvidenceRank(evidence) ==
  <<evidence.observed_trigger_epoch, evidence.proof_resolution_seconds,
    -Cardinality(evidence.htf_context_minutes), evidence.coverage_end_epoch, Rank(evidence.evidence_id)>>

RanksBefore(left, right) ==
  \E i \in DOMAIN left : left[i] < right[i] /\ \A j \in 1 .. i - 1 : left[j] = right[j]

isExactEligible(evidence) ==
  /\ evidence.fidelity = "EXACT"
  /\ evidence.proof_plane \in EXACT_PROOF_PLANES
  /\ evidence.observed_trigger_epoch # Null
  /\ evidence.ambiguity_codes = {}

(* The best exact evidence of every candidate that has one. *)
ExactPairs(active, evidence) ==
  LET Exact(c) == {e \in evidence : e.candidate_id = c.candidate_id /\ isExactEligible(e)}
      Best(items) == CHOOSE e \in items :
                       \A f \in items : ~RanksBefore(exactEvidenceRank(f), exactEvidenceRank(e))
  IN  {[candidate |-> c, evidence |-> Best(Exact(c))] : c \in {d \in active : Exact(d) # {}}}

(* The triggers of a candidate's evidence that is not exact; live ticks do not count. *)
NonExactTriggers(candidate, evidence) ==
  {e.observed_trigger_epoch :
     e \in {f \in evidence : /\ f.candidate_id = candidate.candidate_id
                             /\ ~isExactEligible(f)
                             /\ f.proof_plane # "REALTIME_TICK"
                             /\ f.observed_trigger_epoch # Null}}

Decision(pair, action, reason) == [pair |-> pair, action |-> action, reason |-> reason]

selectCanonicalDecision(invalidated, active, exact, evidence) ==
  LET Trigger(p) == p.evidence.observed_trigger_epoch
      exactClose == {p \in exact : p.candidate.model = "DIR_CLOSE"}
      overtaken  == {p \in exactClose :
                       \E c \in active :
                         /\ c.model = "HTF_FLIP"
                         /\ c \notin {q.candidate : q \in exact}
                         /\ \E t \in NonExactTriggers(c, evidence) : t < Trigger(p)}
      earliest   == {p \in exact : \A q \in exact : Trigger(p) <= Trigger(q)}
      The(pairs) == CHOOSE p \in pairs :
                      \A q \in pairs : Rank(p.candidate.candidate_id) <= Rank(q.candidate.candidate_id)
  IN  IF invalidated THEN Decision(Null, "NONE", "SETUP_INVALIDATED")
      ELSE IF active = {} THEN Decision(Null, "NONE", "NO_CANDIDATE")
      ELSE IF exact = {} THEN Decision(Null, "SHADOW_ONLY", "NO_EXACT_CANDIDATE")
      ELSE IF overtaken # {} THEN Decision(The(overtaken), "PAPER_ELIGIBLE", "FALLBACK_TO_CONFIRMED_CLOSE")
      ELSE IF Cardinality(exact) = 1 THEN Decision(The(exact), "PAPER_ELIGIBLE", "ONLY_EXACT_TRIGGER")
      ELSE IF Cardinality({p.candidate.model : p \in earliest}) > 1
           THEN Decision(Null, "SHADOW_ONLY", "UNRESOLVED_SOURCE_PRIORITY")
      ELSE Decision(The(earliest), "PAPER_ELIGIBLE", "EARLIEST_EXACT_TRIGGER")

ArbitrationIsConsistent(setupId, candidates, evidence, evaluated) ==
  /\ mergeImmutable(candidates, "candidate_id")
  /\ \A c \in candidates : validateCandidateIdentity(c, setupId) /\ c.observed_at_epoch <= evaluated
  /\ mergeImmutable(evidence, "evidence_id")
  /\ \A e \in evidence :
       /\ validateEvidenceIdentity(e)
       /\ e.coverage_end_epoch <= e.observed_at_epoch
       /\ e.observed_at_epoch <= evaluated
       /\ \E c \in candidates : c.candidate_id = e.candidate_id

EntrySelection(setupId, revision, evaluated, active, decision) ==
  LET pair     == decision.pair
      identity ==
        [setup_id |-> setupId, revision |-> revision,
         candidate_ids_considered |-> {c.candidate_id : c \in active},
         canonical_candidate_id |-> IF pair = Null THEN Null ELSE pair.candidate.candidate_id,
         canonical_evidence_id |-> IF pair = Null THEN Null ELSE pair.evidence.evidence_id,
         reason |-> decision.reason, fidelity |-> IF pair = Null THEN Null ELSE pair.evidence.fidelity,
         action |-> decision.action]
  IN  [selection_id |-> selectionId(identity),
       canonical_model |-> IF pair = Null THEN Null ELSE pair.candidate.model,
       evaluated_at_epoch |-> evaluated] @@ identity

arbitrateEntryCandidates(setupId, invalidated, revision, candidates, evidence, evaluated) ==
  LET active == {c \in candidates : c.model \in ACTIVE_ENTRY_MODELS /\ c.state # "REJECTED"}
  IN  IF ArbitrationIsConsistent(setupId, candidates, evidence, evaluated)
      THEN EntrySelection(setupId, revision, evaluated, active,
             selectCanonicalDecision(invalidated, active, ExactPairs(active, evidence), evidence))
      ELSE Null

(***************************************************************************)
(* The stream of an attempt.                                               *)
(***************************************************************************)

activeModels(candidates) == {c.model : c \in candidates} \cap ACTIVE_ENTRY_MODELS

Both(models) == ACTIVE_ENTRY_MODELS \subseteq models

(* What a bar may say of the attempt's end, given the models seen before and after it. *)
mergeTerminalFact(current, setup, confirmedEpoch, before, after) ==
  LET completedBothNow == ~Both(before) /\ Both(after)
      presented == [reason |-> setup.terminal_reason, epoch |-> setup.terminal_epoch]
  IN  IF setup.terminal_reason = Null
      THEN setup.terminal_epoch = Null /\ ~setup.invalidated_before_entry /\ ~completedBothNow
      ELSE /\ setup.terminal_epoch = confirmedEpoch
           /\ IF current # Null THEN current = presented
              ELSE /\ completedBothNow <=> setup.terminal_reason = "BOTH_ACTIVE_MODELS_OBSERVED"
                   /\ setup.terminal_reason \in {"INVALIDATED", "RETENTION_EVICTED"} => before = after
                   /\ setup.invalidated_before_entry <=>
                        setup.terminal_reason = "INVALIDATED" /\ before = {}

STATIC_PREFIX ==
  {"context_minutes", "coverage_start_epoch", "full_lifecycle_ordered", "htf_open_epoch", "htf_open_ticks",
   "proof_resolution_seconds"}

(* A longer prefix of the same candle adds to what the shorter one saw. *)
ExtendsPrefix(previous, transcript) ==
  LET expectedDelta == transcript.expected_child_count - previous.expected_child_count
      observedDelta == transcript.observed_child_count - previous.observed_child_count
  IN  /\ \A f \in STATIC_PREFIX : previous[f] = transcript[f]
      /\ expectedDelta > 0
      /\ observedDelta \in 0 .. expectedDelta
      /\ previous.gap_present => transcript.gap_present
      /\ previous.destination_seen_before_contact => transcript.destination_seen_before_contact
      /\ ~previous.gap_present /\ ~transcript.gap_present =>
           \A candle \in {"contact_candle", "recross_candle"} :
             previous[candle] \in {Null, transcript[candle]}

(* May a transcript follow the latest one of its higher timeframe? *)
upsertLatestTranscript(transcripts, transcript) ==
  \A previous \in {t \in transcripts : t.context_minutes = transcript.context_minutes} :
    \/ transcript.htf_open_epoch > previous.htf_open_epoch
    \/ /\ transcript.htf_open_epoch = previous.htf_open_epoch
       /\ \/ transcript = previous
          \/ /\ transcript.scan_cutoff_epoch > previous.scan_cutoff_epoch
             /\ ExtendsPrefix(previous, transcript)

immutableSetupFacts(setup) ==
  Hashed(setup, {"invalidated_before_entry", "terminal_reason", "terminal_epoch"})

validateAttemptScope(requests) ==
  \A a, b \in requests :
    /\ immutableSetupFacts(a.setup) = immutableSetupFacts(b.setup)
    /\ a.attempt_kind = b.attempt_kind
    /\ a.trigger_ordinal = b.trigger_ordinal
    /\ validateAttempt(a)

Wick(direction, bar) == IF direction = "LONG" THEN bar.low_ticks ELSE bar.high_ticks

(* The wick of the bar right after a directional close, as a set of at most one. *)
nextCandleWickHandling(previous, current, candidates, evidence) ==
  LET bar    == current.confirmed_bar
      close  == previous.confirmed_bar.close_epoch
      closes == {c \in candidates : c.model = "DIR_CLOSE" /\ c.observed_at_epoch = close}
      Proof(c) == {e \in evidence : /\ e.candidate_id = c.candidate_id
                                    /\ e.proof_plane = "CONFIRMED_5M"
                                    /\ e.observed_trigger_epoch = close}
      body     == {bar.open_ticks, bar.close_ticks}
  IN  IF previous = Null THEN {}
      ELSE {buildEntryHandlingObservation(
              c, CHOOSE e \in Proof(c) : \A f \in Proof(c) : Rank(e.evidence_id) <= Rank(f.evidence_id),
              "NEXT_CANDLE_WICK", previous.attempt_kind, bar.close_epoch, Wick(c.direction, bar), "DISCRETIONARY",
              {"NEXT_CANDLE_WICK"}) :
            c \in {d \in closes : /\ bar.open_epoch = close
                                  /\ bar.close_epoch = bar.open_epoch + 300
                                  /\ Proof(d) # {}
                                  /\ IF d.direction = "LONG" THEN bar.low_ticks < Min(body)
                                                             ELSE bar.high_ticks > Max(body)}}

exactTerminalGraceFacts(current, authority, terminal) ==
  /\ current.setup.terminal_reason = terminal.reason
  /\ current.setup.terminal_epoch = terminal.epoch
  /\ current.setup = authority.setup
  /\ current.attempt_kind = authority.attempt_kind
  /\ current.trigger_ordinal = authority.trigger_ordinal
  /\ current.htf_proofs = {}
  /\ ~current.generic_break_detected
  /\ ~current.rejection_respect_detected

EmptyStream ==
  [transcripts |-> {}, candidates |-> {}, evidence |-> {}, handling |-> {}, terminal |-> Null,
   grace |-> Null, consumed |-> FALSE, previous |-> Null]

(* After the attempt's end: one bar, and only for its wick. *)
GraceEvent(stream, event) ==
  IF /\ validateEntryRequestShape(event)
     /\ stream.grace # Null
     /\ ~stream.consumed
     /\ exactTerminalGraceFacts(event, stream.grace, stream.terminal)
  THEN [stream EXCEPT
          !.handling = @ \cup nextCandleWickHandling(stream.grace, event, stream.candidates, stream.evidence),
          !.consumed = TRUE, !.previous = event]
  ELSE Null

(* Of every model the stream keeps the first candidate; of several flips of   *)
(* one bar that is the one with the earliest higher-timeframe candle.         *)
Accepted(candidates, matches) ==
  {m \in matches :
     \/ m.candidate \in candidates
     \/ /\ m.candidate.model \notin {c.model : c \in candidates}
        /\ \A n \in matches : n.candidate.model = m.candidate.model =>
             m.candidate.event_anchor_epoch <= n.candidate.event_anchor_epoch}

Upserted(transcripts, proofs) ==
  proofs \cup {t \in transcripts : t.context_minutes \notin {p.context_minutes : p \in proofs}}

(* A bar of an open attempt, and its matches. *)
Merged(stream, event, matches) ==
  LET proofs     == {TranscriptOf(p) : p \in event.htf_proofs}
      accepted   == Accepted(stream.candidates, matches)
      candidates == stream.candidates \cup {m.candidate : m \in accepted}
      before     == activeModels(stream.candidates)
      after      == activeModels(candidates)
      setup      == event.setup
  IN  IF \/ matches = Null
         \/ \E p \in proofs : ~upsertLatestTranscript(stream.transcripts, p)
         \/ ~mergeTerminalFact(Null, setup, event.confirmed_bar.close_epoch, before, after)
      THEN Null
      ELSE [transcripts |-> Upserted(stream.transcripts, proofs),
            candidates |-> candidates,
            evidence |-> stream.evidence \cup UNION {m.evidence : m \in accepted},
            handling |-> stream.handling \cup UNION {m.handling : m \in accepted}
                           \cup nextCandleWickHandling(stream.previous, event, stream.candidates, stream.evidence),
            terminal |-> IF setup.terminal_reason = Null THEN Null
                         ELSE [reason |-> setup.terminal_reason, epoch |-> setup.terminal_epoch],
            grace |-> IF /\ setup.terminal_reason = "BOTH_ACTIVE_MODELS_OBSERVED"
                         /\ "DIR_CLOSE" \in after \ before
                         /\ "HTF_FLIP" \in before
                      THEN event ELSE Null,
            consumed |-> FALSE, previous |-> event]

OpenEvent(stream, event) == Merged(stream, event, evaluateEntryMatch(event))

StreamStep(stream, event) ==
  IF stream = Null THEN Null
  ELSE IF stream.terminal # Null THEN GraceEvent(stream, event)
  ELSE OpenEvent(stream, event)

ByClose(requests) == SetToSortSeq(requests, LAMBDA a, b : a.confirmed_bar.close_epoch < b.confirmed_bar.close_epoch)

(* The bars of a stream are distinct and do not overlap. *)
BarsAreDisjoint(requests) ==
  \A a \in requests : \A b \in requests \ {a} :
    \/ a.confirmed_bar.close_epoch <= b.confirmed_bar.open_epoch
    \/ b.confirmed_bar.close_epoch <= a.confirmed_bar.open_epoch

FoldedStream(requests) == FoldLeft(StreamStep, EmptyStream, ByClose(requests))

(* What a whole stream comes to, Null when it has been refused. *)
StreamResult(stream, setupId, setupInvalidated, revision, evaluatedAtEpoch) ==
  LET invalidated == /\ stream.terminal # Null
                     /\ stream.terminal.reason = "INVALIDATED"
                     /\ activeModels(stream.candidates) = {}
      selection == arbitrateEntryCandidates(setupId, invalidated, revision, stream.candidates,
                                            stream.evidence, evaluatedAtEpoch)
  IN  IF \/ stream = Null
         \/ setupInvalidated # invalidated
         \/ ~mergeImmutable(stream.evidence, "evidence_id")
         \/ selection = Null
      THEN Null
      ELSE [candidates |-> stream.candidates, evidence |-> stream.evidence,
            handling |-> stream.handling, selection |-> selection]

(* The events are match requests; repeated ones count once. *)
evaluateEntryStream(requests, setupInvalidated, revision, evaluatedAtEpoch) ==
  IF \/ requests = {}
     \/ ~validateAttemptScope(requests)
     \/ ~BarsAreDisjoint(requests)
     \/ \E e \in requests : e.confirmed_bar.close_epoch > evaluatedAtEpoch
  THEN Null
  ELSE StreamResult(FoldedStream(requests), (CHOOSE e \in requests : TRUE).setup.setup_id,
                    setupInvalidated, revision, evaluatedAtEpoch)
================================================================================
