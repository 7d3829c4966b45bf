----------------------------- MODULE RdEntryWireV2 -----------------------------
(***************************************************************************)
(* What the observation edge accepts on the wire of the second entry       *)
(* contract (rd-entry-wire.ts).  A payload is one chunk of a batch; for    *)
(* every setup it carries the facts of the setup, its last bars and the    *)
(* transcripts that belong to them, and as a diagnostic what the producer  *)
(* itself made of them.  The edge evaluates the bars again and refuses a   *)
(* diagnostic that contradicts what it can compute.                        *)
(*                                                                         *)
(* Records keep the field names of the wire.  A reference by index is the  *)
(* key of the candidate, or the evidence, it refers to, so that a list     *)
(* whose order means nothing is a set; a list with a repeated member,      *)
(* which the edge refuses, has no counterpart.  Formats, keys, constant    *)
(* fields and the size of the message are left out.                        *)
(***************************************************************************)
EXTENDS RdEntryMatcherV2, Sequences, SequencesExt

MAX_ENTRY_CHUNKS == 12

MAX_ENTRY_SETUPS_PER_BATCH == 256

MAX_ENTRY_BARS_PER_SETUP == 4

MAX_ENTRY_HTF_TRANSCRIPTS_PER_SETUP == 3

MAX_ENTRY_CANDIDATES_PER_SETUP == 4

MAX_ENTRY_EVIDENCE_PER_CANDIDATE == 4

MAX_ENTRY_EVIDENCE_PER_SETUP == 16

MAX_ENTRY_HANDLING_PER_SETUP == 4

(***************************************************************************)
(* The records of the wire.                                                *)
(***************************************************************************)

ConfirmedBarWire ==
  [oe: Nat, ce: Nat, o: Int, h: Int, l: Int, c: Int, gb: BOOLEAN, rr: BOOLEAN]

TranscriptCandleWire == [oe: Nat, ce: Nat, o: Int, h: Int, l: Int, c: Int]

HtfTranscriptWire ==
  [m: HTF_CONTEXT_MINUTES, ae: Nat, ao: Int, cu: Nat, rs: {60}, cs: Nat, ce: Nat, ec: Nat, oc: Nat,
   gp: BOOLEAN, lo: BOOLEAN, db: BOOLEAN, cc: Nullable(TranscriptCandleWire),
   rc: Nullable(TranscriptCandleWire), sb: BOOLEAN]

GraceBarWire == [oe: Nat, ce: Nat, o: Int, h: Int, l: Int, c: Int, ak: {"INITIAL"}]

SetupFactsWire ==
  [zb: Int, zt: Int, ge: Nullable(Nat), iv: BOOLEAN, cf: {"EXACT", "UNRESOLVED"}, ak: {"INITIAL"},
   tr: Nullable(SetupAttemptTerminalReason), te: Nullable(Nat), b: Seq(ConfirmedBarWire),
   x: SUBSET HtfTranscriptWire, ng: Nullable(GraceBarWire)]

ProducerCandidateWire ==
  [m: ALL_ENTRY_MODELS, st: CandidateState, a: Nat, o: {1}, n: Nullable(ALL_ENTRY_MODELS),
   sc: SUBSET SOURCE_CLAIMS]

CandidateKeys == ALL_ENTRY_MODELS \X Nat \X {1}

ProducerEvidenceWire ==
  [ci: CandidateKeys, t: Nullable(Nat), px: Nullable(Int), h: SUBSET HTF_CONTEXT_MINUTES,
   f: CandidateFidelity, p: ProofPlane, r: 0 .. 300, cs: Nat, ce: Nat, ac: SUBSET AmbiguityCode,
   pr: SUBSET STRING, fr: SUBSET STRING, sc: SUBSET SOURCE_CLAIMS]

ProducerHandlingWire ==
  [ci: CandidateKeys, ei: ProducerEvidenceWire, m: HandlingMode, a: {"INITIAL"}, t: Nat,
   px: Nullable(Int), f: CandidateFidelity, sc: SUBSET SOURCE_CLAIMS]

ProducerSelectionWire ==
  [k: Nullable(CandidateKeys), m: Nullable(ALL_ENTRY_MODELS), a: Nullable(Nat), o: Nullable({1}),
   r: SelectionReason, f: Nullable(CandidateFidelity), x: {"SHADOW_ONLY", "NONE"}]

(***************************************************************************)
(* Bars and transcripts.                                                   *)
(***************************************************************************)

validateOhlc(candle) ==
  candle.h >= Max({candle.o, candle.c, candle.l}) /\ candle.l <= Min({candle.o, candle.c, candle.h})

parseOrderedCandle(candle, expectedDuration) ==
  candle.ce - candle.oe = expectedDuration /\ validateOhlc(candle)

parseConfirmedBar(bar) == bar \in ConfirmedBarWire /\ parseOrderedCandle(bar, 300)

confirmedBarCandle(bar) ==
  [open_epoch |-> bar.oe, close_epoch |-> bar.ce, open_ticks |-> bar.o, high_ticks |-> bar.h,
   low_ticks |-> bar.l, close_ticks |-> bar.c]

parseTranscriptCandle(candle) == candle \in TranscriptCandleWire /\ parseOrderedCandle(candle, 60)

transcriptCandle(candle) ==
  [open_epoch |-> candle.oe, close_epoch |-> candle.ce, open_ticks |-> candle.o,
   high_ticks |-> candle.h, low_ticks |-> candle.l, close_ticks |-> candle.c]

parseTranscript(value) ==
  LET coverage == value.cu - value.ae
      kept == {value.cc, value.rc} \ {Null}
      both == value.cc # Null /\ value.rc # Null
      sameInterval == both /\ value.cc.oe = value.rc.oe /\ value.cc.ce = value.rc.ce
  IN  /\ value \in HtfTranscriptWire
      /\ value.ce = value.cu
      /\ value.cs = value.ae
      /\ coverage \in 1 .. value.m * 60
      /\ coverage % value.rs = 0 /\ value.cu % value.rs = 0 /\ value.cs % value.rs = 0
      /\ value.ec = coverage \div value.rs
      /\ value.oc <= value.ec
      /\ value.gp <=> value.oc # value.ec
      /\ \A candle \in kept : parseTranscriptCandle(candle)
      /\ value.sb <=> sameInterval
      /\ value.sb => value.cc = value.rc
      /\ \A candle \in kept : /\ candle.oe >= value.cs /\ candle.ce <= value.ce
                              /\ (candle.oe - value.cs) % value.rs = 0
      /\ both /\ ~value.sb => value.cc.ce <= value.rc.oe

htfTranscript(value) ==
  [context_minutes |-> value.m, htf_open_epoch |-> value.ae, htf_open_ticks |-> value.ao,
   scan_cutoff_epoch |-> value.cu, proof_resolution_seconds |-> value.rs,
   coverage_start_epoch |-> value.cs, coverage_end_epoch |-> value.ce,
   expected_child_count |-> value.ec, observed_child_count |-> value.oc, gap_present |-> value.gp,
   full_lifecycle_ordered |-> value.lo, destination_seen_before_contact |-> value.db,
   contact_candle |-> IF value.cc = Null THEN Null ELSE transcriptCandle(value.cc),
   recross_candle |-> IF value.rc = Null THEN Null ELSE transcriptCandle(value.rc),
   same_child |-> value.sb]

expandWireTranscript(setup, value) == validateHtfFlipProof(setup, htfTranscript(value))

parseGrace(value) == value \in GraceBarWire /\ parseOrderedCandle(value, 300)

OwnsTranscript(bar, transcript) == bar.oe < transcript.cu /\ transcript.cu <= bar.ce

parseSetupFacts(facts) ==
  LET bars == facts.b
  IN  /\ facts \in SetupFactsWire
      /\ facts.zt > facts.zb
      /\ facts.tr = Null <=> facts.te = Null
      /\ facts.iv => facts.tr = "INVALIDATED"
      /\ Len(bars) \in 1 .. MAX_ENTRY_BARS_PER_SETUP
      /\ \A i \in DOMAIN bars : parseConfirmedBar(bars[i]) /\ (i > 1 => bars[i].oe = bars[i - 1].ce)
      /\ facts.te \in {Null, Last(bars).ce}
      /\ Cardinality(facts.x) <= MAX_ENTRY_HTF_TRANSCRIPTS_PER_SETUP
      /\ Identified(facts.x, "m")
      /\ \A transcript \in facts.x :
           /\ parseTranscript(transcript)
           /\ \E i \in DOMAIN bars : OwnsTranscript(bars[i], transcript)
      /\ facts.ng # Null => /\ parseGrace(facts.ng)
                            /\ facts.tr = "BOTH_ACTIVE_MODELS_OBSERVED"
                            /\ facts.ng.oe = facts.te

(***************************************************************************)
(* The diagnostic.                                                         *)
(***************************************************************************)

sourceClaimsForModel(model) == {model}

parseCandidate(candidate) ==
  /\ candidate \in ProducerCandidateWire
  /\ candidate.st = "NORMALIZED" <=> candidate.n # Null
  /\ candidate.n # Null => candidate.m = "HTF_FLIP" /\ candidate.n = "LEGACY_BREAK_CANDLE"
  /\ candidate.sc = sourceClaimsForModel(candidate.m)

KeyOf(candidate) == <<candidate.m, candidate.a, candidate.o>>

expectedConfirmedRule(model) ==
  CASE model = "DIR_CLOSE" -> "ENTRY_DIR_CLOSE"
    [] model = "LEGACY_BREAK_CANDLE" -> "ENTRY_BREAK_CANDLE_NORMALIZATION"
    [] model = "LEGACY_REJECTION_RESPECT" -> "ENTRY_REJECTION_RESPECT_DISABLED"
    [] model = "HTF_FLIP" -> Null

canonicalHtfSourceClaims(values, candidate) ==
  values \ {"HTF_BOUNDARY"} =
    {"HTF_FLIP"} \cup (IF candidate.n = "LEGACY_BREAK_CANDLE" THEN {"LEGACY_BREAK_CANDLE"} ELSE {})

canonicalHtfRuleOutcome(passed, failed) ==
  <<passed, failed>> \in {<<{"ENTRY_HTF_FLIP"}, {}>>, <<{}, {"ENTRY_HTF_FLIP"}>>,
                          <<{}, {"ENTRY_HTF_FLIP", "ENTRY_HTF_ZONE_SIDE_FIRST"}>>}

RealtimeEvidence(item, candidate) ==
  /\ item.t # Null
  /\ item.f = "UNRESOLVED"
  /\ item.r = 0
  /\ item.cs = item.t /\ item.ce = item.t
  /\ item.ac = {"SHADOW_REALTIME_ONLY_NOT_REPLAYABLE"}
  /\ item.h = {}
  /\ item.sc = sourceClaimsForModel(candidate.m)

ConfirmedEvidence(item, candidate) ==
  LET rule == {expectedConfirmedRule(candidate.m)}
      active == candidate.m = "DIR_CLOSE"
  IN  /\ candidate.m # "HTF_FLIP"
      /\ item.r = 300 /\ item.ce - item.cs = 300
      /\ item.h = {} /\ item.ac = {}
      /\ item.sc = sourceClaimsForModel(candidate.m)
      /\ item.pr = (IF active THEN rule ELSE {})
      /\ item.fr = (IF active THEN {} ELSE rule)

HtfEvidence(item, candidate) ==
  /\ candidate.m = "HTF_FLIP"
  /\ item.r = 60
  /\ item.h # {}
  /\ canonicalHtfRuleOutcome(item.pr, item.fr)
  /\ canonicalHtfSourceClaims(item.sc, candidate)

parseEvidence(item, candidates) ==
  LET candidate == CHOOSE c \in candidates : KeyOf(c) = item.ci
  IN  /\ item \in ProducerEvidenceWire
      /\ \E c \in candidates : KeyOf(c) = item.ci
      /\ item.t = Null <=> item.px = Null
      /\ item.p # "EXTERNAL_ARCHIVED_TICK"
      /\ item.pr \cap item.fr = {}
      /\ IF item.p = "REALTIME_TICK" THEN RealtimeEvidence(item, candidate)
         ELSE /\ item.r # 0
              /\ item.ce > item.cs
              /\ item.t # Null => item.t \in item.cs .. item.ce
              /\ "SHADOW_REALTIME_ONLY_NOT_REPLAYABLE" \notin item.ac
              /\ IF item.p = "CONFIRMED_5M" THEN ConfirmedEvidence(item, candidate)
                                            ELSE HtfEvidence(item, candidate)

expectedHandlingClaims(mode, candidate) ==
  CASE mode \in {"CLOSE_CONFIRMATION", "AGGRESSIVE"} -> sourceClaimsForModel(candidate.m)
    [] mode = "INTRABAR_FLIP" -> {"HTF_FLIP"}
    [] mode = "NEXT_CANDLE_WICK" -> {"NEXT_CANDLE_WICK"}

parseHandling(item, candidates, evidence) ==
  /\ item \in ProducerHandlingWire
  /\ item.ei \in evidence /\ item.ei.ci = item.ci
  /\ item.ei.p # "REALTIME_TICK"
  /\ \E candidate \in candidates :
       /\ KeyOf(candidate) = item.ci
       /\ item.sc = expectedHandlingClaims(item.m, candidate)
       /\ item.m = "INTRABAR_FLIP" => candidate.m = "HTF_FLIP"
       /\ item.m = "NEXT_CANDLE_WICK" => candidate.m = "DIR_CLOSE"

parseSelection(selection, candidates, evidence) ==
  \/ selection = Null
  \/ /\ selection \in ProducerSelectionWire
     /\ selection.x = "NONE"
     /\ \A f \in {"k", "m", "a", "o", "f"} : selection[f] = Null
  \/ /\ selection \in ProducerSelectionWire
     /\ selection.x = "SHADOW_ONLY"
     /\ \A f \in {"k", "m", "a", "o", "f"} : selection[f] # Null
     /\ selection.k = KeyOf(selection)
     /\ \E candidate \in candidates : KeyOf(candidate) = selection.k
     /\ \E item \in evidence : /\ item.ci = selection.k
                               /\ item.p # "REALTIME_TICK"
                               /\ item.f = selection.f

parseDiagnosticBundle(bundle) ==
  /\ Cardinality(bundle.candidates) <= MAX_ENTRY_CANDIDATES_PER_SETUP
  /\ \A c \in bundle.candidates : parseCandidate(c)
  /\ \A c, d \in bundle.candidates : KeyOf(c) = KeyOf(d) => c = d
  /\ Cardinality(bundle.evidence) <= MAX_ENTRY_EVIDENCE_PER_SETUP
  /\ \A e \in bundle.evidence : parseEvidence(e, bundle.candidates)
  /\ \A c \in bundle.candidates :
       Cardinality({e \in bundle.evidence : e.ci = KeyOf(c)}) <= MAX_ENTRY_EVIDENCE_PER_CANDIDATE
  /\ Cardinality(bundle.handling) <= MAX_ENTRY_HANDLING_PER_SETUP
  /\ \A h \in bundle.handling : parseHandling(h, bundle.candidates, bundle.evidence)
  /\ parseSelection(bundle.selection, bundle.candidates, bundle.evidence)

parseSetupBundle(bundle) ==
  /\ parseDiagnosticBundle(bundle)
  /\ bundle.setupId \in Nat /\ bundle.direction \in EntryDirection
  /\ parseSetupFacts(bundle.facts)

(***************************************************************************)
(* The requests a bundle stands for.                                       *)
(***************************************************************************)

(* The attempt ends, if it does, with the last bar. *)
setupAtBar(bundle, bar) ==
  LET facts == bundle.facts
      terminal == facts.te = bar.ce
  IN  [setup_id |-> bundle.setupId, direction |-> bundle.direction, zone_top_ticks |-> facts.zt,
       zone_bottom_ticks |-> facts.zb, zone_engaged_epoch |-> facts.ge,
       invalidated_before_entry |-> terminal /\ facts.iv, common_fidelity |-> facts.cf,
       terminal_reason |-> IF terminal THEN facts.tr ELSE Null,
       terminal_epoch |-> IF terminal THEN facts.te ELSE Null]

Request(setup, candle, proofs, genericBreak, rejectionRespect) ==
  [setup |-> setup, confirmed_bar |-> candle, htf_proofs |-> proofs,
   generic_break_detected |-> genericBreak, rejection_respect_detected |-> rejectionRespect,
   attempt_kind |-> "INITIAL", trigger_ordinal |-> 1]

DirectionalBar(request) ==
  LET bar == request.confirmed_bar
  IN  IF request.setup.direction = "LONG"
      THEN bar.close_ticks > bar.open_ticks /\ bar.close_ticks > request.setup.zone_top_ticks
      ELSE bar.close_ticks < bar.open_ticks /\ bar.close_ticks < request.setup.zone_bottom_ticks

isEngagedRequest(request) ==
  /\ request.setup.zone_engaged_epoch # Null
  /\ request.setup.zone_engaged_epoch <= request.confirmed_bar.close_epoch

authoritativeActiveModels(requests) ==
  LET engaged == {r \in requests : isEngagedRequest(r)}
  IN  (IF \E r \in engaged : DirectionalBar(r) THEN {"DIR_CLOSE"} ELSE {})
        \cup (IF \E r \in engaged : \E p \in r.htf_proofs : p.matched THEN {"HTF_FLIP"} ELSE {})

(* A bar before the engagement of the zone is judged as one of an untouched zone. *)
wrapRequestShape(request) ==
  validateEntryRequestShape(
    IF request.setup.zone_engaged_epoch # Null /\ ~isEngagedRequest(request)
    THEN [request EXCEPT !.setup.zone_engaged_epoch = Null] ELSE request)

RequestAt(bundle, bar) ==
  LET setup == setupAtBar(bundle, bar)
  IN  Request(setup, confirmedBarCandle(bar),
              {expandWireTranscript(setup, t) : t \in {u \in bundle.facts.x : OwnsTranscript(bar, u)}},
              bar.gb, bar.rr)

GraceRequest(current, grace) ==
  Request(current.setup,
          [open_epoch |-> grace.oe, close_epoch |-> grace.ce, open_ticks |-> grace.o,
           high_ticks |-> grace.h, low_ticks |-> grace.l, close_ticks |-> grace.c],
          {}, FALSE, FALSE)

(* An attempt ends with both models seen only when the close came last. *)
TerminalTransition(facts, earlierActive, currentActive) ==
  /\ facts.tr = "INVALIDATED" /\ facts.iv => earlierActive = {}
  /\ facts.tr = "BOTH_ACTIVE_MODELS_OBSERVED" =>
       "DIR_CLOSE" \notin earlierActive /\ currentActive = {"DIR_CLOSE"}

projectRequests(bundle) ==
  LET facts    == bundle.facts
      requests == [i \in DOMAIN facts.b |-> RequestAt(bundle, facts.b[i])]
      current  == Last(requests)
      earlier  == Range(Front(requests))
      grace    == IF facts.ng = Null THEN {} ELSE {GraceRequest(current, facts.ng)}
  IN  IF /\ \A r \in Range(requests) : Null \notin r.htf_proofs /\ wrapRequestShape(r)
         /\ facts.ge # Null => facts.ge <= current.confirmed_bar.close_epoch
         /\ TerminalTransition(facts, authoritativeActiveModels(earlier), authoritativeActiveModels({current}))
         /\ \A r \in grace : wrapRequestShape(r)
      THEN [retainedContext |-> earlier, events |-> {current} \cup grace,
            normal |-> earlier \cup {current}]
      ELSE Null

(***************************************************************************)
(* The diagnostic against what the edge computes from the bundle.          *)
(***************************************************************************)

(* The matches of the engaged bars; a set with Null when one cannot be evaluated. *)
localDiagnosticViews(requests) ==
  LET results == {evaluateEntryMatch(r) : r \in {q \in requests : isEngagedRequest(q)}}
  IN  IF Null \in results THEN {Null} ELSE UNION results

sameCandidateSemantic(candidate, key) ==
  key = <<candidate.model, candidate.event_anchor_epoch, candidate.trigger_ordinal>>

CandidateAgrees(candidate, local) ==
  LET matches == {m.candidate : m \in {n \in local : sameCandidateSemantic(n.candidate, KeyOf(candidate))}}
  IN  matches # {} => \E c \in matches : /\ c.state = candidate.st
                                         /\ c.normalized_from = candidate.n
                                         /\ c.source_claim_ids = candidate.sc

(* The local evidence, or the evidence of local handling, of one candidate and coverage. *)
SameCoverage(evidence, item) ==
  /\ evidence.proof_plane = item.p
  /\ evidence.coverage_start_epoch = item.cs
  /\ evidence.coverage_end_epoch = item.ce

EvidenceAgrees(item, local) ==
  LET matches == {e \in UNION {m.evidence : m \in {n \in local : sameCandidateSemantic(n.candidate, item.ci)}} :
                    SameCoverage(e, item)}
  IN  matches # {} => \E e \in matches : /\ e.observed_trigger_epoch = item.t
                                         /\ e.observed_trigger_ticks = item.px
                                         /\ e.htf_context_minutes = item.h
                                         /\ e.fidelity = item.f
                                         /\ e.proof_resolution_seconds = item.r
                                         /\ e.ambiguity_codes = item.ac
                                         /\ e.passed_rule_ids = item.pr
                                         /\ e.failed_rule_ids = item.fr
                                         /\ e.source_claim_ids = item.sc

HandlingAgrees(item, local) ==
  LET Of(m) == {h \in m.handling : /\ h.handling_mode = item.m
                                   /\ \E e \in m.evidence : /\ e.evidence_id = h.evidence_id
                                                            /\ SameCoverage(e, item.ei)}
      matches == UNION {Of(m) : m \in {n \in local : sameCandidateSemantic(n.candidate, item.ci)}}
  IN  matches # {} => \E h \in matches : /\ h.observed_epoch = item.t
                                         /\ h.observed_ticks = item.px
                                         /\ h.fidelity = item.f
                                         /\ h.source_claim_ids = item.sc

(* Only what the bars of the bundle show can contradict it. *)
validateProducerAgainstLocalProjection(bundle, local) ==
  /\ \A c \in bundle.candidates : CandidateAgrees(c, local)
  /\ \A e \in bundle.evidence : e.p # "REALTIME_TICK" => EvidenceAgrees(e, local)
  /\ \A h \in bundle.handling : HandlingAgrees(h, local)

(***************************************************************************)
(* The validated payload.                                                  *)
(***************************************************************************)

ProducerCandidateReference(candidate) ==
  [model |-> candidate.m, state |-> candidate.st, event_anchor_epoch |-> candidate.a,
   trigger_ordinal |-> candidate.o, normalized_from |-> candidate.n, source_claim_ids |-> candidate.sc]

ProducerEvidenceReference(bundle, item) ==
  [candidate |-> ProducerCandidateReference(CHOOSE c \in bundle.candidates : KeyOf(c) = item.ci),
   observed_trigger_epoch |-> item.t, observed_trigger_ticks |-> item.px, htf_context_minutes |-> item.h,
   fidelity |-> item.f, proof_plane |-> item.p, proof_resolution_seconds |-> item.r,
   coverage_start_epoch |-> item.cs, coverage_end_epoch |-> item.ce, ambiguity_codes |-> item.ac,
   passed_rule_ids |-> item.pr, failed_rule_ids |-> item.fr, source_claim_ids |-> item.sc]

ProducerHandlingReference(bundle, item) ==
  [candidate |-> ProducerCandidateReference(CHOOSE c \in bundle.candidates : KeyOf(c) = item.ci),
   evidence |-> ProducerEvidenceReference(bundle, item.ei), handling_mode |-> item.m,
   attempt_kind |-> item.a, observed_epoch |-> item.t, observed_ticks |-> item.px, fidelity |-> item.f,
   source_claim_ids |-> item.sc]

ProducerDiagnosticSelection(selection) ==
  [semantic_key |-> selection.k, model |-> selection.m, event_anchor_epoch |-> selection.a,
   trigger_ordinal |-> selection.o, reason |-> selection.r, fidelity |-> selection.f,
   action |-> selection.x]

(* Live ticks are kept apart: they are stored, never compared. *)
normalizeProducerDiagnostic(bundle) ==
  LET references == {ProducerEvidenceReference(bundle, e) : e \in bundle.evidence}
  IN  [candidates |-> {ProducerCandidateReference(c) : c \in bundle.candidates},
       evidence |-> {r \in references : r.proof_plane # "REALTIME_TICK"},
       realtime_evidence |-> {r \in references : r.proof_plane = "REALTIME_TICK"},
       handling |-> {ProducerHandlingReference(bundle, h) : h \in bundle.handling},
       selection |-> IF bundle.selection = Null THEN Null
                     ELSE ProducerDiagnosticSelection(bundle.selection)]

validateSetupBundle(bundle) ==
  IF ~parseSetupBundle(bundle) THEN Null
  ELSE LET requests == projectRequests(bundle)
           local    == localDiagnosticViews(requests.normal)
       IN  IF \/ requests = Null
              \/ Null \in local
              \/ ~validateProducerAgainstLocalProjection(bundle, local)
           THEN Null
           ELSE [setupId |-> bundle.setupId, retainedContext |-> requests.retainedContext,
                 events |-> requests.events, producerDiagnostic |-> normalizeProducerDiagnostic(bundle)]

EntryBatchSemanticIdentity ==
  [producer_instance_id: STRING, sequence: Nat \ {0}, kind: {"snapshot", "incremental"},
   bar_close_epoch: Nat]

(* What stays the same for all chunks of a batch; the settings stand for  *)
(* every field that describes the producer.                               *)
EntryBatchImmutableMetadata == [bar_open_epoch: Nat, settings_hash: STRING]

(* The bar every bundle of a payload ends with. *)
EndsWithBar(batch, identity, metadata) ==
  \E e \in batch.events : /\ \A f \in batch.events : e.confirmed_bar.close_epoch <= f.confirmed_bar.close_epoch
                          /\ e.confirmed_bar.open_epoch = metadata.bar_open_epoch
                          /\ e.confirmed_bar.close_epoch = identity.bar_close_epoch

validateEntryV2Payload(payload) ==
  LET identity == payload.identity
      entries  == {validateSetupBundle(b) : b \in payload.eb}
  IN  IF /\ identity \in EntryBatchSemanticIdentity
         /\ payload.metadata \in EntryBatchImmutableMetadata
         /\ identity.bar_close_epoch - payload.metadata.bar_open_epoch = 300
         /\ payload.chunk_count \in 1 .. MAX_ENTRY_CHUNKS
         /\ payload.chunk_index \in 0 .. payload.chunk_count - 1
         /\ payload.idempotency_key = <<identity, payload.chunk_index>>
         /\ Cardinality(payload.eb) <= MAX_ENTRY_SETUPS_PER_BATCH
         /\ Null \notin entries
         /\ Identified(payload.eb, "setupId")
         /\ \A b \in entries : EndsWithBar(b, identity, payload.metadata)
      THEN [idempotency_key |-> payload.idempotency_key, identity |-> identity,
            metadata |-> payload.metadata, chunkIndex |-> payload.chunk_index,
            chunkCount |-> payload.chunk_count, entryBatches |-> entries]
      ELSE Null
================================================================================
