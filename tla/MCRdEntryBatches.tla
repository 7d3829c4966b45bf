---------------------------- MODULE MCRdEntryBatches ----------------------------
EXTENDS RdEntryBatchesV2

BaseScript ==
  [direction |-> "LONG", bars |-> <<"touch">>, missing |-> {}, breaks |-> {}, respects |-> {},
   fidelity |-> "EXACT", contexts |-> {15}, ordered |-> TRUE, ending |-> Null, grace |-> FALSE, retain |-> 3]

Armed == [binding |-> [settings_hash |-> "approved"], enabled |-> TRUE, matches |-> TRUE]

BaseLoad ==
  [script |-> BaseScript, setups |-> 1, chunks |-> 1, settings |-> "approved", deployment |-> Armed,
   orderly |-> TRUE, handlers |-> 1, repeats |-> 0, abandons |-> 0, others |-> {}]

First == <<"touch", "spring", "wild", "touchCross", "touchRise", "quiet">>

Then == <<"quiet", "touch", "cross", "lateCross", "spring", "wild", "rise", "surge", "touchCross", "touchRise", "crossRise">>

Last3 == <<"quiet", "cross", "surge", "touchRise">>

Bars(i) == <<First[1 + (i % 6)], Then[1 + ((i \div 6) % 11)], Last3[1 + ((i \div 66) % 4)]>>

(* Three bars in many combinations, long and short. *)
Path3(i) ==
  [BaseLoad EXCEPT !.script.bars = Bars(i), !.script.direction = IF i % 2 = 0 THEN "SHORT" ELSE "LONG"]

(* What else can happen to a setup. *)
Turns ==
  <<[BaseLoad EXCEPT !.script.missing = {4}],
    [BaseLoad EXCEPT !.script.missing = {7}, !.script.retain = 0],
    [BaseLoad EXCEPT !.script.breaks = {2}],
    [BaseLoad EXCEPT !.script.respects = {2}],
    [BaseLoad EXCEPT !.script.fidelity = "UNRESOLVED"],
    [BaseLoad EXCEPT !.script.contexts = {15, 30}],
    [BaseLoad EXCEPT !.script.ordered = FALSE],
    [BaseLoad EXCEPT !.script.ending = "INVALIDATED"],
    [BaseLoad EXCEPT !.script.ending = "RETENTION_EVICTED"],
    [BaseLoad EXCEPT !.script.grace = TRUE, !.script.retain = 1],
    [BaseLoad EXCEPT !.deployment.enabled = FALSE],
    [BaseLoad EXCEPT !.settings = "other"]>>

(* Two bars, one turn, and the bar after the end where it is reported. *)
Turned(i) ==
  LET turn == Turns[1 + (i \div 66)]
      two  == SubSeq(Bars(i), 1, 2)
  IN  [turn EXCEPT !.script.bars = IF turn.script.grace THEN Append(two, "touchRise") ELSE two]

(* How reports can be disturbed on their way. *)
Overlapping == [BaseLoad EXCEPT !.orderly = FALSE, !.handlers = 2]

Disturbed ==
  <<[BaseLoad EXCEPT !.script.bars = <<"touchCross", "rise">>, !.repeats = 2, !.abandons = 1],
    [BaseLoad EXCEPT !.script.bars = <<"touchCross", "rise">>, !.chunks = 2, !.setups = 3, !.repeats = 1],
    [Overlapping EXCEPT !.script.bars = <<"touchCross", "rise">>],
    [Overlapping EXCEPT !.script.bars = <<"touchCross", "quiet", "rise">>, !.script.retain = 0],
    [Overlapping EXCEPT !.script.bars = <<"touchCross">>, !.repeats = 1],
    [Overlapping EXCEPT !.script.bars = <<"touchCross">>, !.chunks = 2, !.setups = 2, !.repeats = 1],
    [Overlapping EXCEPT !.script.bars = <<"touchCross">>, !.chunks = 3, !.repeats = 1],
    [Overlapping EXCEPT !.script.bars = <<"touch", "cross">>, !.script.retain = 0, !.others = {<<1, 0, "SETTINGS">>}],
    [Overlapping EXCEPT !.script.bars = <<"touch", "cross">>, !.script.retain = 0, !.others = {<<1, 0, "SEQUENCE">>}]>>

Variety == <<"CANDIDATE", "EVIDENCE", "HANDLING", "NO_HANDLING", "NOTHING", "REASON", "UNSELECTED", "LIVE_TICK", "PAST",
             "EMPTY", "SETTINGS", "SEQUENCE", "COUNT", "TWICE">>

(* One message of another producer, in both chunks of a batch. *)
Mixed(i) ==
  [BaseLoad EXCEPT !.script.bars = <<"touchCross", "rise">>, !.chunks = 2, !.setups = 2,
                   !.others = {<<1 + (i % 2), 0, Variety[1 + (i \div 2)]>>}]

PathCount == 264

TurnedCount == 66 * Len(Turns)

MCLoad(l) ==
  IF l <= PathCount THEN Path3(l - 1)
  ELSE IF l <= PathCount + TurnedCount THEN Turned(l - PathCount - 1)
  ELSE IF l <= PathCount + TurnedCount + Len(Disturbed) THEN Disturbed[l - PathCount - TurnedCount]
  ELSE Mixed(l - PathCount - TurnedCount - Len(Disturbed) - 1)

MCLoadCount == PathCount + TurnedCount + Len(Disturbed) + 2 * Len(Variety)

MCRank(id) == IF "payload_sha256" \in DOMAIN id THEN SumSet(id.payload_sha256.htf_context_minutes) ELSE id.event_anchor_epoch
================================================================================
