---------------------------- MODULE MCRdEntryRules ----------------------------
(***************************************************************************)
(* The inputs for RdEntryRulesV3.  One setup has a zone at 90..98 ticks    *)
(* and three proofs that all trigger at 4500: a break of a candle, a       *)
(* confirmed close and a flip.  The inputs are this one with any proof     *)
(* missing, every proof in every order of time, and each field of each     *)
(* proof and of the setup wrong in turn.                                   *)
(***************************************************************************)
EXTENDS RdEntryRulesV3

Candle(open, close, o, h, l, c) ==
  [open_epoch |-> open, close_epoch |-> close, open_ticks |-> o, high_ticks |-> h,
   low_ticks |-> l, close_ticks |-> c]

(* A record as it is, or with one field replaced by one of the values given. *)
Deviations(r, values) ==
  {[r EXCEPT ![f] = v] : <<f, v>> \in UNION {{<<f, v>> : v \in values[f]} : f \in DOMAIN values}}

BaseSetup ==
  [setup_id |-> 1, direction |-> "LONG", zone_top_ticks |-> 98, zone_bottom_ticks |-> 90,
   zone_engaged_epoch |-> 4200, invalidated_before_entry |-> FALSE, common_fidelity |-> "EXACT",
   liquidity_cohort |-> "TWO_PLUS_CANDLES", one_candle_enabled |-> FALSE]

BaseBoc ==
  [reference_candle |-> Candle(3900, 4200, 98, 104, 95, 103), trigger_candle_open_epoch |-> 4500,
   trigger_epoch |-> 4500, trigger_sequence |-> 1, trigger_ticks |-> 105, htf_boundary_epoch |-> 4500,
   htf_context_minutes |-> {15}, proof_plane |-> "LOWER_TIMEFRAME_REPLAY",
   replayability |-> "REPLAYABLE", fidelity |-> "EXACT", coverage_start_epoch |-> 4200,
   coverage_end_epoch |-> 4560, is_realtime |-> FALSE]

EarlyBoc ==
  [BaseBoc EXCEPT !.reference_candle = Candle(3300, 3600, 98, 104, 95, 103), !.trigger_candle_open_epoch = 3600,
                  !.trigger_epoch = 3660, !.htf_boundary_epoch = 3600, !.coverage_start_epoch = 3300]

LiveBoc == [BaseBoc EXCEPT !.proof_plane = "REALTIME_TICK", !.replayability = "LIVE_EXACT_NON_REPLAYABLE",
                           !.is_realtime = TRUE]

BaseFlip ==
  [event_anchor_epoch |-> 3600, trigger_epoch |-> 4500, trigger_sequence |-> 1, trigger_ticks |-> 105,
   htf_open_ticks |-> 102, htf_context_minutes |-> {30}, proof_plane |-> "LOWER_TIMEFRAME_REPLAY",
   replayability |-> "REPLAYABLE", fidelity |-> "EXACT", coverage_start_epoch |-> 4200,
   coverage_end_epoch |-> 4560, is_realtime |-> FALSE,
   contact_candle |-> Candle(4200, 4260, 100, 101, 97, 99),
   recross_candle |-> Candle(4440, 4500, 99, 106, 99, 105), coverage_gap_detected |-> FALSE,
   full_lifecycle_ordered |-> TRUE, destination_seen_before_contact |-> FALSE, ambiguity_codes |-> {}]

EarlyFlip == [BaseFlip EXCEPT !.trigger_epoch = 4440, !.recross_candle = Candle(4380, 4440, 99, 106, 99, 105)]

HighFlip == [BaseFlip EXCEPT !.trigger_ticks = 106, !.recross_candle = Candle(4440, 4500, 99, 106, 99, 106)]

LiveFlip == [BaseFlip EXCEPT !.proof_plane = "REALTIME_TICK", !.replayability = "LIVE_EXACT_NON_REPLAYABLE",
                             !.is_realtime = TRUE]

Bar(open, close) == Candle(open, open + 300, 99, 107, 95, close)

BaseInput ==
  [setup |-> BaseSetup, boc_proof |-> Null, directional_close |-> FALSE, confirmed_bar |-> Null,
   close_trigger_sequence |-> 1, htf_flip_proof |-> Null, observed_at_epoch |-> 4900, revision |-> 1,
   evaluated_at_epoch |-> 5000, opened_selection_seed |-> Null]

Proofs(setups, bocs, bars, sequences, flips) ==
  {[BaseInput EXCEPT !.setup = s, !.boc_proof = b, !.confirmed_bar = bar,
                     !.directional_close = (bar # Null), !.close_trigger_sequence = q,
                     !.htf_flip_proof = f] :
     s \in setups, b \in bocs, bar \in bars, q \in sequences, f \in flips}

Numbered(setups, ids) == {[s EXCEPT !.setup_id = id] : s \in setups, id \in ids}

(* Every proof missing or in its place, in every order of time. *)
Ordered1 ==
  Proofs(Numbered({BaseSetup, [BaseSetup EXCEPT !.zone_engaged_epoch = 3500]}, {1}),
         {Null, EarlyBoc} \cup Deviations(BaseBoc, [trigger_sequence |-> {0, 1, 2}, trigger_epoch |-> {4530},
                                                    trigger_ticks |-> {106}]),
         {Null, Bar(3900, 105), Bar(4200, 105), Bar(4200, 106), Bar(4500, 105)}, {0, 1, 2},
         {Null, EarlyFlip, HighFlip} \cup Deviations(BaseFlip, [trigger_sequence |-> {0, 1, 2}]))

(* Every order of the digests where it matters: triggers of one event. *)
Tied ==
  Proofs(Numbered({BaseSetup}, 2 .. 6), {Null, BaseBoc, LiveBoc}, {Null, Bar(4200, 105)}, {1},
         {Null, BaseFlip, HighFlip})

Setups ==
  {BaseSetup, [BaseSetup EXCEPT !.one_candle_enabled = TRUE],
   [BaseSetup EXCEPT !.common_fidelity = "UNRESOLVED", !.invalidated_before_entry = TRUE],
   [BaseSetup EXCEPT !.liquidity_cohort = "ONE_CANDLE", !.one_candle_enabled = TRUE,
                     !.common_fidelity = "DISCRETIONARY"],
   [BaseSetup EXCEPT !.liquidity_cohort = "ONE_CANDLE"]}
    \cup Deviations(BaseSetup, [zone_engaged_epoch |-> {Null, 4500, 4501},
                                invalidated_before_entry |-> {TRUE}, zone_top_ticks |-> {90, 107},
                                common_fidelity |-> {"CALIBRATED", "DISCRETIONARY", "UNRESOLVED"}])

Bocs ==
  {LiveBoc, [LiveBoc EXCEPT !.is_realtime = FALSE]}
    \cup Deviations(BaseBoc,
           [trigger_ticks |-> {104}, htf_boundary_epoch |-> {Null, 4200}, htf_context_minutes |-> {{}, {15, 30}},
            proof_plane |-> {"CONFIRMED_5M", "REALTIME_TICK", "EXTERNAL_ARCHIVED_TICK"},
            replayability |-> {"LIVE_EXACT_NON_REPLAYABLE"}, fidelity |-> {"CALIBRATED", "UNRESOLVED"},
            trigger_epoch |-> {4499, 4799, 4800}, coverage_end_epoch |-> {4500, 4800, 4901},
            trigger_candle_open_epoch |-> {4200, 4501}])

Flips ==
  {LiveFlip, [LiveFlip EXCEPT !.is_realtime = FALSE],
   [BaseFlip EXCEPT !.contact_candle = Null, !.recross_candle = Null],
   [BaseFlip EXCEPT !.event_anchor_epoch = 3900, !.htf_context_minutes = {15, 30}]}
    \cup Deviations(BaseFlip,
           [contact_candle |-> {Null, Candle(4200, 4260, 100, 101, 99, 99), Candle(4200, 4260, 100, 103, 97, 99),
                                Candle(4140, 4200, 100, 101, 97, 99)},
            recross_candle |-> {Null, Candle(4200, 4500, 99, 106, 99, 105)},
            htf_open_ticks |-> {101, 105, 106}, coverage_gap_detected |-> {TRUE},
            full_lifecycle_ordered |-> {FALSE}, destination_seen_before_contact |-> {TRUE},
            ambiguity_codes |-> {{"SHADOW_SAME_CHILD_BAR_ORDER"}}, htf_context_minutes |-> {{}, {15}, {30, 60}},
            event_anchor_epoch |-> {3900, 4200, 4260}, proof_plane |-> {"CONFIRMED_5M", "REALTIME_TICK"},
            replayability |-> {"LIVE_EXACT_NON_REPLAYABLE"}, fidelity |-> {"CALIBRATED"},
            trigger_ticks |-> {104}])

Bars == {Bar(4200, 97), Bar(4200, 98), Bar(4800, 105), Bar(4201, 105), Candle(4200, 4560, 99, 107, 95, 105)}

(* One proof wrong at a time, beside the others right or missing. *)
Wrong ==
  Proofs(Setups, {Null, BaseBoc}, {Null, Bar(4200, 105)}, {1}, {Null, BaseFlip})
    \cup Proofs({BaseSetup}, Bocs, {Null, Bar(4200, 105)}, {1}, {Null, BaseFlip})
    \cup Proofs({BaseSetup}, {Null, BaseBoc}, {Null, Bar(4200, 105)}, {1}, Flips)
    \cup Proofs({BaseSetup}, {Null, BaseBoc}, Bars, {1}, {Null, BaseFlip})

(* A setup that opened earlier on a confirmed close. *)
Seeded ==
  {[i EXCEPT !.opened_selection_seed = seed] :
     i \in Proofs(Setups, {Null, BaseBoc}, {Null, Bar(4200, 105)}, {2}, {Null, BaseFlip}),
     seed \in Deviations([confirmed_bar |-> Bar(4200, 105), trigger_sequence |-> 1, revision |-> 0,
                          evaluated_at_epoch |-> 4600],
                         [confirmed_bar |-> {Bar(4200, 105), Bar(3900, 105), Bar(4500, 105)},
                          evaluated_at_epoch |-> {5001}])}

(* Every input of the first two setups is reported as it is; the alterations *)
(* are tried on those whose close has its usual place, exits on ties.  An  *)
(* opening is not reported again.                                            *)
MCReportable(i, a) ==
  i.opened_selection_seed = Null /\
  CASE a.kind = "none" -> i.setup.setup_id <= 2
    [] a.kind = "exit" -> i.setup.setup_id = 2
    [] OTHER           -> i.setup.setup_id = 1 /\ i.close_trigger_sequence = 1

MCInputs == UNION {{i, Mirror(i)} : i \in Ordered1 \cup Tied \cup Wrong \cup Seeded}

(* The order of the digests of a setup's candidates: each of the six setups  *)
(* has another one.                                                          *)
ModelOrders ==
  <<<<"BOC", "DIR_CLOSE", "HTF_FLIP">>, <<"BOC", "HTF_FLIP", "DIR_CLOSE">>,
    <<"DIR_CLOSE", "BOC", "HTF_FLIP">>, <<"DIR_CLOSE", "HTF_FLIP", "BOC">>,
    <<"HTF_FLIP", "BOC", "DIR_CLOSE">>, <<"HTF_FLIP", "DIR_CLOSE", "BOC">>>>

MCRank(id) ==
  LET candidate == IF "model" \in DOMAIN id THEN id ELSE id.candidate_id
      order     == ModelOrders[candidate.setup_id]
  IN  CHOOSE k \in 1 .. 3 : order[k] = candidate.model

(***************************************************************************)
(* The reports.                                                            *)
(***************************************************************************)

(* What an exit report may show: a bar or a tick around the plan's levels. *)
ExitAlterations ==
  [kind: {"exit"}, reason: ExitReasons, low: {-Risk, 0}, high: {0, 2 * Risk}, tick: {-Risk, 0, 2 * Risk},
   realtime: BOOLEAN, barred: BOOLEAN, late: BOOLEAN]

FieldAlterations ==
  [kind: {"none", "tick", "late", "sequence", "no bar", "entry", "stop", "historical", "unreviewed",
          "half reviewed", "legacy", "failed rule", "early payload", "no candidates", "twice"}]

MCAlterations == FieldAlterations \cup {a \in ExitAlterations : ~a.realtime => a.barred}

InBundles(payload, Change(_)) == [payload EXCEPT !.setups = {Change(b) : b \in @}]

AlteredField(kind, p) ==
  LET Entry(b)  == [b EXCEPT !.plan.entry_ticks = @ + 1]
      Stop(b)   == [b EXCEPT !.plan.stop_ticks = b.plan.target_ticks]
      Failed(b) == [b EXCEPT !.failed_rules = {"LIQ_EVENT_ORDER"}]
      Again(b)  == [b EXCEPT !.plan.target_ticks = @ + b.plan.entry_ticks - b.plan.stop_ticks]
      Bare(b)   == [b EXCEPT !.candidates = {}, !.evidence = {}]
  IN  CASE kind = "none"          -> p
        [] kind = "tick"          -> [p EXCEPT !.market_event.tick_price_ticks = @ + 1]
        [] kind = "late"          -> [p EXCEPT !.market_event.epoch = @ + 30]
        [] kind = "sequence"      -> [p EXCEPT !.market_event.sequence = @ + 1]
        [] kind = "no bar"        -> [p EXCEPT !.market_event.confirmed_bar = Null]
        [] kind = "entry"         -> InBundles(p, Entry)
        [] kind = "stop"          -> InBundles(p, Stop)
        [] kind = "historical"    -> [p EXCEPT !.is_realtime = FALSE]
        [] kind = "unreviewed"    -> [p EXCEPT !.detector_unreviewed = TRUE, !.settings_unreviewed = TRUE]
        [] kind = "half reviewed" -> [p EXCEPT !.detector_unreviewed = TRUE]
        [] kind = "legacy"        -> [p EXCEPT !.schema_version = "3.0"]
        [] kind = "failed rule"   -> InBundles(p, Failed)
        [] kind = "early payload" -> [p EXCEPT !.observed_at_epoch = 4499]
        [] kind = "no candidates" -> InBundles(p, Bare)
        [] kind = "twice"         -> [p EXCEPT !.setups = @ \cup {Again(b) : b \in @}]

(* The report of an exit at or before the end of the bar after the entry. *)
AlteredExit(a, p) ==
  LET bundle == CHOOSE b \in p.setups : TRUE
      entry  == bundle.plan.entry_ticks
      close  == IF a.late THEN 5100 ELSE 4200
      side   == IF bundle.setup.direction = "LONG" THEN 1 ELSE -1
      Level(offset) == entry + side * offset
      levels == {Level(a.low), Level(a.high), Level(a.tick), entry}
      bar    == Candle(close - 300, close, entry, Max(levels), Min(levels), Level(a.tick))
  IN  [p EXCEPT !.observed_at_epoch = 5100, !.is_realtime = a.realtime,
                !.market_event = [epoch |-> close, sequence |-> 7, tick_price_ticks |-> Level(a.tick),
                                  confirmed_bar |-> IF a.barred THEN bar ELSE Null],
                !.exit_events = {[event_id |-> 1, setup_id |-> bundle.setup.setup_id, exit_reason |-> a.reason,
                                  epoch |-> close, sequence |-> 7, price_ticks |-> Level(a.tick)]}]

MCAltered(a, p) == IF a.kind = "exit" THEN AlteredExit(a, p) ELSE AlteredField(a.kind, p)
================================================================================
