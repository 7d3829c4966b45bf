---------------------------- MODULE RdEntryProducerV2 ----------------------------
(***************************************************************************)
(* The other side of the second entry contract: a market, the setups in    *)
(* it, and the producer that scans the market, evaluates every setup with  *)
(* the shared rules and reports it bar by bar.  The producer is not part   *)
(* of the repository; it is modelled from what the wire contract and the   *)
(* test vectors ask of it.                                                 *)
(*                                                                         *)
(* A script is what the market does.  Its bars are made of five one-minute *)
(* candles each; prices are written for the long side and mirrored for the *)
(* short one.  The zone is 10 .. 12 and every higher-timeframe candle      *)
(* opens at 14, so that touching the zone and then rising above 14 is a    *)
(* flip.                                                                   *)
(***************************************************************************)
EXTENDS RdEntryStoreV2, RdEntryVectorsV2

(***************************************************************************)
(* The market.                                                             *)
(***************************************************************************)

(* Open, high, low and close of a one-minute candle. *)
Path ==
  [Away |-> <<13, 13, 13, 13>>, Contact |-> <<13, 13, 11, 13>>, Recross |-> <<13, 15, 13, 13>>,
   Spring |-> <<11, 15, 11, 13>>, Wild |-> <<13, 15, 11, 13>>, Up |-> <<13, 14, 13, 14>>,
   Surge |-> <<13, 15, 13, 14>>]

Quiet(i, kind) == [j \in 1 .. 5 |-> IF j = i THEN kind ELSE "Away"]

Shape ==
  [quiet |-> Quiet(1, "Away"), touch |-> Quiet(2, "Contact"), cross |-> Quiet(3, "Recross"),
   lateCross |-> Quiet(5, "Recross"), spring |-> Quiet(3, "Spring"), wild |-> Quiet(3, "Wild"),
   rise |-> Quiet(5, "Up"), surge |-> Quiet(5, "Surge"),
   touchCross |-> [Quiet(2, "Contact") EXCEPT ![4] = "Recross"],
   touchRise |-> [Quiet(2, "Contact") EXCEPT ![5] = "Up"],
   crossRise |-> [Quiet(3, "Recross") EXCEPT ![5] = "Up"]]

Market(script) == FoldLeft(LAMBDA path, bar : path \o Shape[bar], <<>>, script.bars)

Mirrored(direction, open, high, low, close) ==
  IF direction = "LONG"
  THEN [open_ticks |-> open, high_ticks |-> high, low_ticks |-> low, close_ticks |-> close]
  ELSE [open_ticks |-> -open, high_ticks |-> -low, low_ticks |-> -high, close_ticks |-> -close]

Between(open, close) == [open_epoch |-> open, close_epoch |-> close]

Child(script, n) ==
  LET path == Path[Market(script)[n]]
  IN  Between(60 * (n - 1), 60 * n) @@ Mirrored(script.direction, path[1], path[2], path[3], path[4])

Bar(script, k) ==
  LET paths == [i \in 1 .. 5 |-> Path[Market(script)[5 * (k - 1) + i]]]
  IN  Between(300 * (k - 1), 300 * k)
        @@ Mirrored(script.direction, paths[1][1], Max({paths[i][2] : i \in 1 .. 5}),
                    Min({paths[i][3] : i \in 1 .. 5}), paths[5][4])

HtfOpen(script) == IF script.direction = "LONG" THEN 14 ELSE -14

(***************************************************************************)
(* The setup and its attempt.                                              *)
(***************************************************************************)

OpenSetup(script, id, engaged) ==
  [setup_id |-> id, direction |-> script.direction,
   zone_top_ticks |-> IF script.direction = "LONG" THEN 12 ELSE -10,
   zone_bottom_ticks |-> IF script.direction = "LONG" THEN 10 ELSE -12,
   zone_engaged_epoch |-> engaged, invalidated_before_entry |-> FALSE,
   common_fidelity |-> script.fidelity, terminal_reason |-> Null, terminal_epoch |-> Null]

(* The zone is engaged when the first candle that touches it closes. *)
Contacts(script) ==
  {n \in DOMAIN Market(script) : contactsZone(OpenSetup(script, 1, Null), Child(script, n))}

EngagedEpoch(script) == 60 * Min(Contacts(script))

EngagedBar(script) == IF Contacts(script) = {} THEN Len(script.bars) + 1
                      ELSE (Min(Contacts(script)) + 4) \div 5

(* The scan of a higher-timeframe candle as far as it has come with bar k; *)
(* some of its candles may be missing from the feed.                       *)
Scan(script, context, k) ==
  LET length == context * 60
      start  == ((300 * (k - 1)) \div length) * length
  IN  [timeframe_minutes |-> context, htf_open_epoch |-> start, scan_cutoff_epoch |-> 300 * k,
       htf_open_ticks |-> HtfOpen(script),
       children |-> {Child(script, n) : n \in (start \div 60 + 1 .. 5 * k) \ script.missing},
       proof_resolution_seconds |-> 60, full_lifecycle_ordered |-> script.ordered]

RawEvent(script, id, k, scans) ==
  [event_id |-> k, htf_scan_requests |-> scans,
   match_request |-> Request(OpenSetup(script, id, EngagedEpoch(script)), Bar(script, k), {},
                             k \in script.breaks, k \in script.respects)]

(* The event with its scans made into transcripts. *)
EdgeRequest(event) ==
  [event.match_request EXCEPT !.htf_proofs = {scanHtfFlip(event.match_request.setup, s) :
                                                s \in event.htf_scan_requests}]

(* The end of an attempt: what the script says of its last bar, or both models seen. *)
EndReason(script, k, before, after) ==
  IF k = Len(script.bars) /\ script.ending # Null THEN script.ending
  ELSE IF ~Both(before) /\ Both(after) THEN "BOTH_ACTIVE_MODELS_OBSERVED"
  ELSE Null

(* One more bar of the attempt, and the models it matches. *)
Extended(script, attempt, k, event, models) ==
  LET after  == attempt.models \cup models
      reason == EndReason(script, k, attempt.models, after)
      ended  == [event EXCEPT !.match_request.setup =
                   [@ EXCEPT !.terminal_reason = reason,
                             !.terminal_epoch = IF reason = Null THEN Null ELSE 300 * k,
                             !.invalidated_before_entry = reason = "INVALIDATED" /\ attempt.models = {}]]
  IN  [events |-> Append(attempt.events, ended), models |-> after, closed |-> reason # Null,
       grace |-> /\ reason = "BOTH_ACTIVE_MODELS_OBSERVED"
                 /\ "HTF_FLIP" \in attempt.models
                 /\ script.grace /\ k < Len(script.bars)]

ModelsOf(event) == activeModels({m.candidate : m \in evaluateEntryMatch(EdgeRequest(event))})

(* A flip is not scanned for once it is seen. *)
NextEvent(script, id, attempt, k) ==
  LET scans == IF "HTF_FLIP" \in attempt.models THEN {} ELSE {Scan(script, c, k) : c \in script.contexts}
      event == RawEvent(script, id, k, scans)
  IN  IF k < EngagedBar(script) \/ attempt.closed THEN attempt
      ELSE Extended(script, attempt, k, event, ModelsOf(event))

(* The events of the attempt, from the bar that engages the zone to its end. *)
Attempt(script, id) ==
  FoldLeft(LAMBDA attempt, k : NextEvent(script, id, attempt, k),
           [events |-> <<>>, models |-> {}, closed |-> FALSE, grace |-> FALSE],
           [k \in DOMAIN script.bars |-> k])

(***************************************************************************)
(* The report of a bar.                                                    *)
(***************************************************************************)

(* The j-th event is reported with as many earlier bars as the contract lets *)
(* it repeat: a bundle has one transcript per higher timeframe.              *)
Retained(script, attempt, j) ==
  LET Scans(i) == {s.timeframe_minutes : s \in attempt.events[i].htf_scan_requests}
      Fits(r)  == \A a, b \in j - r .. j : a # b => Scans(a) \cap Scans(b) = {}
  IN  Max({r \in 0 .. Min({script.retain, j - 1}) : Fits(r)})

Carries(attempt, j) == attempt.grace /\ j = Len(attempt.events)

(* The bar after the end of the attempt, reported for its wick. *)
GraceOf(script, attempt, j) ==
  LET last == EdgeRequest(attempt.events[j])
  IN  IF Carries(attempt, j)
      THEN {Request(last.setup, Bar(script, last.confirmed_bar.close_epoch \div 300 + 1), {}, FALSE, FALSE)}
      ELSE {}

StreamAt(script, attempt, j) == {EdgeRequest(attempt.events[i]) : i \in 1 .. j} \cup GraceOf(script, attempt, j)

(* What the producer itself makes of the attempt so far. *)
Opinion(script, attempt, j) == EvaluationOf(StreamAt(script, attempt, j), j)

CandleWire(candle) ==
  [oe |-> candle.open_epoch, ce |-> candle.close_epoch, o |-> candle.open_ticks, h |-> candle.high_ticks,
   l |-> candle.low_ticks, c |-> candle.close_ticks]

BarWire(request) ==
  CandleWire(request.confirmed_bar)
    @@ [gb |-> request.generic_break_detected, rr |-> request.rejection_respect_detected]

TranscriptWire(t) ==
  [m |-> t.context_minutes, ae |-> t.htf_open_epoch, ao |-> t.htf_open_ticks, cu |-> t.scan_cutoff_epoch,
   rs |-> t.proof_resolution_seconds, cs |-> t.coverage_start_epoch, ce |-> t.coverage_end_epoch,
   ec |-> t.expected_child_count, oc |-> t.observed_child_count, gp |-> t.gap_present,
   lo |-> t.full_lifecycle_ordered, db |-> t.destination_seen_before_contact,
   cc |-> IF t.contact_candle = Null THEN Null ELSE CandleWire(t.contact_candle),
   rc |-> IF t.recross_candle = Null THEN Null ELSE CandleWire(t.recross_candle), sb |-> t.same_child]

FactsWire(script, attempt, j) ==
  LET first    == j - Retained(script, attempt, j)
      requests == [i \in first .. j |-> EdgeRequest(attempt.events[i])]
      setup    == attempt.events[j].match_request.setup
  IN  [zb |-> setup.zone_bottom_ticks, zt |-> setup.zone_top_ticks, ge |-> setup.zone_engaged_epoch,
       iv |-> setup.invalidated_before_entry, cf |-> setup.common_fidelity, ak |-> "INITIAL",
       tr |-> setup.terminal_reason, te |-> setup.terminal_epoch,
       b |-> [i \in 1 .. j - first + 1 |-> BarWire(requests[first + i - 1])],
       x |-> UNION {{TranscriptWire(p) : p \in requests[i].htf_proofs} : i \in first .. j},
       ng |-> IF ~Carries(attempt, j) THEN Null
              ELSE CandleWire((CHOOSE r \in GraceOf(script, attempt, j) : TRUE).confirmed_bar)
                     @@ [ak |-> "INITIAL"]]

CandidateWire(candidate) ==
  [m |-> candidate.model, st |-> candidate.state, a |-> candidate.event_anchor_epoch,
   o |-> candidate.trigger_ordinal, n |-> candidate.normalized_from, sc |-> candidate.source_claim_ids]

KeyOfId(id) == <<id.model, id.event_anchor_epoch, id.trigger_ordinal>>

EvidenceWire(item) ==
  [ci |-> KeyOfId(item.candidate_id), t |-> item.observed_trigger_epoch, px |-> item.observed_trigger_ticks,
   h |-> item.htf_context_minutes, f |-> item.fidelity, p |-> item.proof_plane,
   r |-> item.proof_resolution_seconds, cs |-> item.coverage_start_epoch, ce |-> item.coverage_end_epoch,
   ac |-> item.ambiguity_codes, pr |-> item.passed_rule_ids, fr |-> item.failed_rule_ids,
   sc |-> item.source_claim_ids]

HandlingWire(opinion, item) ==
  [ci |-> KeyOfId(item.candidate_id),
   ei |-> EvidenceWire(CHOOSE e \in opinion.evidence : e.evidence_id = item.evidence_id),
   m |-> item.handling_mode, a |-> item.attempt_kind, t |-> item.observed_epoch, px |-> item.observed_ticks,
   f |-> item.fidelity, sc |-> item.source_claim_ids]

(* The producer never claims more than SHADOW_ONLY, and the wire has no form *)
(* for a shadow without a candidate.                                         *)
SelectionWire(selection) ==
  LET id == selection.canonical_candidate_id
  IN  CASE id # Null ->
             [k |-> KeyOfId(id), m |-> id.model, a |-> id.event_anchor_epoch, o |-> id.trigger_ordinal,
              r |-> selection.reason, f |-> selection.fidelity, x |-> "SHADOW_ONLY"]
        [] id = Null /\ selection.action = "NONE" ->
             [k |-> Null, m |-> Null, a |-> Null, o |-> Null, r |-> selection.reason, f |-> Null, x |-> "NONE"]
        [] id = Null /\ selection.action # "NONE" -> Null

DiagnosticWire(opinion) ==
  IF opinion = Null
  THEN [candidates |-> {}, evidence |-> {}, handling |-> {}, selection |-> Null]
  ELSE [candidates |-> {CandidateWire(c) : c \in opinion.candidates},
        evidence |-> {EvidenceWire(e) : e \in opinion.evidence},
        handling |-> {HandlingWire(opinion, h) : h \in opinion.handling},
        selection |-> SelectionWire(opinion.selection)]

Bundle(script, id, attempt, j) ==
  [setupId |-> id, direction |-> script.direction, facts |-> FactsWire(script, attempt, j)]
    @@ DiagnosticWire(Opinion(script, attempt, j))
================================================================================
