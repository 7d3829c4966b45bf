--------------------------- MODULE PaperSimulator ---------------------------
(***************************************************************************)
(* The paper-trading ledger and simulator of the observation edge: paper    *)
(* accounts and their manual ledger, trade intents with one allocation per  *)
(* account, settlements, the kill switch, and the TradingView envelopes     *)
(* that open and settle trades automatically.                               *)
(*                                                                         *)
(* All state is in one D1 database.  A request handler is a Worker          *)
(* invocation that reads, decides and writes in separate database calls, so *)
(* handlers interleave between any two of them; a batch is one transaction. *)
(* The constraints and triggers of the schema are part of each insertion.   *)
(***************************************************************************)
EXTENDS PaperGate, Sequences, FiniteSets, FiniteSetsExt, SequencesExt

CONSTANTS
    Handlers,       \* concurrent invocations of the Worker
    Accounts,       \* account identifiers
    Opening,        \* opening balance of each account
    Requests,       \* requests that may arrive
    Controls,       \* kill-switch commands that may arrive
    Workloads,      \* what arrives together, see workload
    NullRequest

VARIABLES
    db,             \* the tables, all of them append-only
    calls,          \* what each handler is doing
    day,            \* the UTC day
    workload        \* what the environment does: the requests it sends, any
                    \* number of times each, the kill-switch commands and the
                    \* accounts it creates, and how many days it lasts

vars == <<db, calls, day, workload>>

\* Content is compared by digest in the code and by value here.
Opens == [bps : 1 .. 500, accounts : Seq(Accounts)]

Commands(Id) == [action : {"OPEN"}, id : Id, open : Opens]
                \cup [action : {"SETTLE"}, id : Id, outcome : -1000 .. 10000]

RequestIds == UNION {
    {c.id : c \in Range(r.commands)} : r \in {q \in Requests : q.kind = "envelope"}}
    \cup {r.id : r \in {q \in Requests : q.kind \in {"create", "settle"}}}

ASSUME SimulatorAssumption ==
    /\ Opening \in [Accounts -> 0 .. MaxSafe]
    /\ \A r \in Requests :
          \/ r.kind = "envelope" /\ r.commands \in Seq(Commands(RequestIds))
          \/ r.kind = "create" /\ r.open \in Opens
          \/ r.kind = "settle" /\ r.outcome \in -1000 .. 10000
          \/ r.kind = "ledger" /\ r.account \in Accounts /\ r.amount \in SafeInts \ {0}
    /\ Controls \subseteq [key : STRING, enabled : BOOLEAN]
    /\ Workloads \subseteq [requests : SUBSET Requests, controls : SUBSET Controls,
                             accounts : SUBSET Accounts, days : Nat]

(***************************************************************************)
(* Views.                                                                  *)
(***************************************************************************)
\* CAST(x / y AS INTEGER) and BigInt division both truncate towards zero.
Truncated(x, y) == IF x >= 0 THEN x \div y ELSE -((-x) \div y)

Risk(balance, bps) == Truncated(balance * bps, Bps)
Pnl(risk, outcome) == Truncated(risk * outcome, 1000)

Intent(d, id)     == {r \in d.intents : r.id = id}
Blocked(d, id)    == {r \in d.blocked : r.id = id}
Settlement(d, id) == {s \in Range(d.settlements) : s.id = id}
AllocationsOf(d, id) == {l \in Range(d.allocations) : l.id = id}
Receipt(d, key)   == {e \in d.receipts : e.key = key}
Entry(d, r)       == {l \in d.ledger : l.account = r.account /\ l.sequence = r.sequence}
KillSwitch(d)     == Last(d.controls).enabled

\* Settlements of an account's trades, and those up to the i-th on the curve.
Settled(d, a) ==
    {i \in DOMAIN d.settlements :
        \E l \in AllocationsOf(d, d.settlements[i].id) : l.account = a}
UpTo(d, a, i) ==
    {j \in Settled(d, a) :
        \/ d.settlements[j].at < d.settlements[i].at
        \/ d.settlements[j].at = d.settlements[i].at /\ j <= i}
PnlAt(d, a, i) ==
    LET l == CHOOSE l \in AllocationsOf(d, d.settlements[i].id) : l.account = a
    IN  Pnl(l.risk, d.settlements[i].outcome)
Cumulative(d, a, I) == MapThenSumSet(LAMBDA i : PnlAt(d, a, i), I)
OpenAllocations(d, a) ==
    {i \in DOMAIN d.allocations :
        d.allocations[i].account = a /\ Settlement(d, d.allocations[i].id) = {}}
OpenRisk(d, I) == MapThenSumSet(LAMBDA i : d.allocations[i].risk, I)

\* View paper_account_projections.
LedgerOf(d, a) == {l \in d.ledger : l.account = a}
LastSequence(d, a) == Max({0} \cup {l.sequence : l \in LedgerOf(d, a)})
ManualDelta(d, a) == MapThenSumSet(LAMBDA l : l.amount, LedgerOf(d, a))
LedgerDelta(d, a) == ManualDelta(d, a) + Cumulative(d, a, Settled(d, a))
Balance(d, a) == Opening[a] + LedgerDelta(d, a)
ProjectionIsSafe(d, a) == LedgerDelta(d, a) \in SafeInts /\ Balance(d, a) \in SafeInts

\* View paper_account_readiness_metrics.
Drawdown(d, a, i) ==
    Max({0} \cup {Cumulative(d, a, UpTo(d, a, j)) : j \in UpTo(d, a, i)})
        - Cumulative(d, a, UpTo(d, a, i))
Metric(d, a) ==
    [opening   |-> Opening[a],
     balance   |-> Balance(d, a),
     daily     |-> Cumulative(d, a, {i \in Settled(d, a) : d.settlements[i].at = day}),
     drawdown  |-> Max({0} \cup {Drawdown(d, a, i) : i \in Settled(d, a)}),
     risk      |-> OpenRisk(d, OpenAllocations(d, a)),
     positions |-> Cardinality(OpenAllocations(d, a))]

(***************************************************************************)
(* Statements, with the constraints and triggers of the schema.            *)
(***************************************************************************)
Ok(d) == [db |-> d, error |-> "none"]
Abort(d, e) == [db |-> d, error |-> e]

InsertReceipt(d, s) ==
    IF Receipt(d, s.envelope.key) # {}
    THEN Abort(d, "unique")
    ELSE Ok([d EXCEPT !.receipts = @ \cup {s.envelope}])

\* Mutant: the trigger against blocked identifiers is missing.
InsertIntentUnguarded(d, s) ==
    IF Intent(d, s.id) # {}
    THEN Abort(d, "unique")
    ELSE Ok([d EXCEPT !.intents = @ \cup {[id |-> s.id, open |-> s.open]}])

InsertIntent(d, s) ==
    CASE Blocked(d, s.id) # {} -> Abort(d, "already blocked")
      [] Intent(d, s.id) # {}  -> Abort(d, "unique")
      [] OTHER -> Ok([d EXCEPT !.intents = @ \cup {[id |-> s.id, open |-> s.open]}])

\* Mutant: the gate does not look at the kill switch.
GateBlocksUnstopped(d, a, bps) ==
    \/ a \notin d.accounts
    \/ TriggerBlocks(Metric(d, a), Risk(Balance(d, a), bps))

\* The whole trigger paper_trade_allocations_readiness_gate; a missing account
\* or a non-positive balance reaches it as a NULL risk amount.
GateBlocks(d, a, bps) ==
    \/ a \notin d.accounts
    \/ KillSwitch(d)
    \/ TriggerBlocks(Metric(d, a), Risk(Balance(d, a), bps))

InsertAllocation(d, s) ==
    IF GateBlocks(d, s.account, s.bps)
    THEN Abort(d, "gate")
    ELSE Ok([d EXCEPT !.allocations = Append(@,
            [id |-> s.id, account |-> s.account,
             risk |-> Risk(Balance(d, s.account), s.bps),
             before |-> Balance(d, s.account)])])

InsertBlocked(d, s) ==
    CASE Intent(d, s.id) # {}  -> Abort(d, "already live")
      [] Blocked(d, s.id) # {} -> Abort(d, "unique")
      [] OTHER -> Ok([d EXCEPT !.blocked = @ \cup
                        {[id |-> s.id, open |-> s.open, reason |-> s.reason]}])

\* Mutant: the range is checked against the balance before the settlement.
SettlementOutOfRangeStale(d, id, outcome) ==
    \/ AllocationsOf(d, id) = {}
    \/ \E l \in AllocationsOf(d, id) : Balance(d, l.account) \notin SafeInts

\* Trigger paper_trade_settlement_safe_balance.
SettlementOutOfRange(d, id, outcome) ==
    \/ AllocationsOf(d, id) = {}
    \/ \E l \in AllocationsOf(d, id) :
          Balance(d, l.account) + Pnl(l.risk, outcome) \notin SafeInts

InsertSettlement(d, s) ==
    CASE SettlementOutOfRange(d, s.id, s.outcome) -> Abort(d, "range")
      [] Settlement(d, s.id) # {} -> Abort(d, "unique")
      [] OTHER -> Ok([d EXCEPT !.settlements = Append(@,
                        [id |-> s.id, outcome |-> s.outcome, at |-> s.at])])

Exec(result, s) ==
    CASE result.error # "none"   -> result
      [] s.into = "receipts"    -> InsertReceipt(result.db, s)
      [] s.into = "intents"     -> InsertIntent(result.db, s)
      [] s.into = "allocations" -> InsertAllocation(result.db, s)
      [] s.into = "blocked"     -> InsertBlocked(result.db, s)
      [] s.into = "settlements" -> InsertSettlement(result.db, s)

\* A D1 batch: all of the statements or none.
RunBatch(statements) ==
    LET result == FoldLeft(Exec, Ok(db), statements)
    IN  IF result.error = "none" THEN result ELSE Abort(db, result.error)

\* INSERT_PAPER_LEDGER_ENTRY_SQL with its triggers: the next sequence of the
\* account, and a balance and a ledger sum that stay in range.
EntryFits(d, r) ==
    /\ r.account \in d.accounts
    /\ r.sequence = LastSequence(d, r.account) + 1
    /\ Balance(d, r.account) + r.amount \in SafeInts
    /\ LedgerDelta(d, r.account) + r.amount \in SafeInts
    /\ Opening[r.account] + ManualDelta(d, r.account) + r.amount \in SafeInts
    /\ ManualDelta(d, r.account) + r.amount \in SafeInts

(***************************************************************************)
(* Handlers.                                                               *)
(*   req       the request, NullRequest before the first one               *)
(*   step      the database call the handler makes next                    *)
(*   at        the day its timestamp was taken                             *)
(*   kill      the kill switch as read; force: block every OPEN            *)
(*   second    this is the second preparation of the envelope              *)
(*   plan      the statements prepared, outcomes: what became of the       *)
(*             commands prepared so far                                    *)
(*   seen      the metrics a manual trade was judged by                    *)
(*   error     why the batch failed, reply: the answer                     *)
(***************************************************************************)
Idle == [req |-> NullRequest, step |-> "idle", at |-> 0, kill |-> FALSE,
         force |-> FALSE, second |-> FALSE, plan |-> <<>>, outcomes |-> <<>>,
         seen |-> <<>>, error |-> "none", reply |-> "none"]

\* The command an envelope is preparing.
Command(c) == c.req.commands[Len(c.outcomes) + 1]

At(h, kind, step) == calls[h].step = step /\ calls[h].req.kind = kind
Preparing(h, action, step) == At(h, "envelope", step) /\ Command(calls[h]).action = action
Goto(h, c) == calls' = [calls EXCEPT ![h] = c]
Answer(h, reply) ==
    Goto(h, [Idle EXCEPT !.req = calls[h].req, !.step = "done", !.reply = reply,
                         !.outcomes = calls[h].outcomes])
Then(h, step) == Goto(h, [calls[h] EXCEPT !.step = step])

\* A command is finished with its outcome and its statements.
NextCommand(c) == IF Len(c.outcomes) = Len(c.req.commands) THEN "batch" ELSE "bundle"
Finished(c, outcome, statements) ==
    LET done == [c EXCEPT !.outcomes = Append(@, outcome), !.plan = @ \o statements]
    IN  [done EXCEPT !.step = NextCommand(done)]

Call(h, r) ==
    /\ calls[h].step \in {"idle", "done"}
    /\ Goto(h, [Idle EXCEPT !.req = r,
                  !.step = CASE r.kind = "envelope" -> "receipt"
                             [] r.kind = "ledger"   -> "entry"
                             [] OTHER               -> "bundle"])
    /\ UNCHANGED <<db, day>>

\* preparePaperAutomation starts with the kill switch when anything opens.
Prepare(c, force) ==
    LET start == [c EXCEPT !.plan = <<>>, !.outcomes = <<>>, !.kill = FALSE,
                           !.force = force, !.error = "none"]
    IN  [start EXCEPT !.step =
            IF \E x \in Range(c.req.commands) : x.action = "OPEN"
            THEN "kill" ELSE NextCommand(start)]

(***************************************************************************)
(* POST of a TradingView envelope: appendAutomatedObservation and            *)
(* preparePaperAutomation.                                                  *)
(***************************************************************************)
\* Mutant: a replay is not compared with the stored content.
ReplayUnread(h) == Answer(h, "DUPLICATE")

\* automatedReceiptReplayResponse.
Replay(h) ==
    Answer(h, IF calls[h].req \in db.receipts THEN "DUPLICATE" ELSE "CONFLICT")

ReadReceipt(h) ==
    /\ At(h, "envelope", "receipt")
    /\ IF Receipt(db, calls[h].req.key) # {}
       THEN Replay(h)
       ELSE Goto(h, Prepare([calls[h] EXCEPT !.at = day], FALSE))
    /\ UNCHANGED <<db, day>>

ReadKillSwitch(h) ==
    /\ At(h, "envelope", "kill")
    /\ Goto(h, [calls[h] EXCEPT !.kill = KillSwitch(db), !.step = "bundle"])
    /\ UNCHANGED <<db, day>>

\* killSwitchUnavailable: every OPEN is blocked as after a lost race.
KillSwitchUnavailable(h) ==
    /\ At(h, "envelope", "kill")
    /\ Goto(h, [calls[h] EXCEPT !.force = TRUE, !.step = "bundle"])
    /\ UNCHANGED <<db, day>>

OpenReadBundle(h) ==
    LET x == Command(calls[h])
    IN  /\ Preparing(h, "OPEN", "bundle")
        /\ IF Intent(db, x.id) = {}
           THEN Then(h, "blocked")
           ELSE Goto(h, Finished(calls[h],
                    IF [id |-> x.id, open |-> x.open] \in db.intents
                    THEN "duplicate" ELSE "conflict", <<>>))
        /\ UNCHANGED <<db, day>>

Block(x, reason) ==
    <<[into |-> "blocked", id |-> x.id, open |-> x.open, reason |-> reason]>>

\* Mutant: a forced block is reported and not recorded.
OpenReadBlockedSilently(h) ==
    LET c == calls[h]
        x == Command(c)
    IN  /\ Preparing(h, "OPEN", "blocked")
        /\ CASE Blocked(db, x.id) # {} \/ c.force -> Goto(h, Finished(c, "blocked", <<>>))
             [] Blocked(db, x.id) = {} /\ ~c.force /\ c.kill ->
                    Goto(h, Finished(c, "blocked", Block(x, "KILL_SWITCH_ENABLED")))
             [] OTHER -> Then(h, "metrics")
        /\ UNCHANGED <<db, day>>

\* A terminal block answers the command; a forced or engaged stop blocks it.
OpenReadBlocked(h) ==
    LET c == calls[h]
        x == Command(c)
    IN  /\ Preparing(h, "OPEN", "blocked")
        /\ CASE Blocked(db, x.id) # {} ->
                    Goto(h, Finished(c, IF \E b \in Blocked(db, x.id) : b.open = x.open
                                        THEN "blocked" ELSE "conflict", <<>>))
             [] Blocked(db, x.id) = {} /\ c.force ->
                    Goto(h, Finished(c, "blocked", Block(x, "SAFETY_GATE_RACE")))
             [] Blocked(db, x.id) = {} /\ ~c.force /\ c.kill ->
                    Goto(h, Finished(c, "blocked", Block(x, "KILL_SWITCH_ENABLED")))
             [] OTHER -> Then(h, "metrics")
        /\ UNCHANGED <<db, day>>

\* Why an account refuses a trade, given what the same request already asks of
\* it, and the first refusal in account order.
Objection(a, bps, pending) ==
    LET m == Metric(db, a)
        risk == Risk(m.balance, bps)
        mine == {i \in DOMAIN pending : pending[i].into = "allocations"
                                        /\ pending[i].account = a}
    IN  CASE a \notin db.accounts -> "ACCOUNT_NOT_FOUND"
          [] a \in db.accounts /\ ~InputIsSafe(m) -> "SAFETY_GATE_RACE"
          [] a \in db.accounts /\ InputIsSafe(m) /\ risk <= 0 -> "NON_POSITIVE_BALANCE"
          [] OTHER ->
                IF AllowsNewOpen(m, risk + MapThenSumSet(LAMBDA i : pending[i].judged, mine),
                                 1 + Cardinality(mine))
                THEN "none" ELSE "RISK_LIMIT_REACHED"

Refusal(open, pending) ==
    LET objections == [i \in DOMAIN open.accounts |->
                          Objection(open.accounts[i], open.bps, pending)]
        raised == {i \in DOMAIN objections : objections[i] # "none"}
    IN  IF raised = {} THEN "none" ELSE objections[Min(raised)]

\* The intent row and one allocation per account; judged is the risk amount the
\* worker computed, which the insertion computes again.
OpenStatements(x) ==
    <<[into |-> "intents", id |-> x.id, open |-> x.open]>> \o
    [i \in DOMAIN x.open.accounts |->
        [into |-> "allocations", id |-> x.id, account |-> x.open.accounts[i],
         bps |-> x.open.bps,
         judged |-> Risk(Balance(db, x.open.accounts[i]), x.open.bps)]]

OpenReadMetrics(h) ==
    LET c == calls[h]
        x == Command(c)
        refusal == Refusal(x.open, c.plan)
    IN  /\ Preparing(h, "OPEN", "metrics")
        /\ Goto(h, IF refusal = "none"
                   THEN Finished(c, "opened", OpenStatements(x))
                   ELSE Finished(c, "blocked", Block(x, refusal)))
        /\ UNCHANGED <<db, day>>

SettleReadBundle(h) ==
    LET x == Command(calls[h])
    IN  /\ Preparing(h, "SETTLE", "bundle")
        /\ CASE Intent(db, x.id) = {} -> Then(h, "blocked")
             [] Settlement(db, x.id) # {} ->
                    Goto(h, Finished(calls[h],
                        IF \E s \in Settlement(db, x.id) : s.outcome = x.outcome
                        THEN "duplicate" ELSE "conflict", <<>>))
             [] OTHER -> Then(h, "projection")
        /\ UNCHANGED <<db, day>>

SettleReadBlocked(h) ==
    /\ Preparing(h, "SETTLE", "blocked")
    /\ Goto(h, Finished(calls[h],
                IF Blocked(db, Command(calls[h]).id) # {} THEN "blocked" ELSE "conflict", <<>>))
    /\ UNCHANGED <<db, day>>

\* The worker's own range check: the projections it read, each pnl on its own.
SettlementSafe(l, x) ==
    /\ ProjectionIsSafe(db, l.account)
    /\ Balance(db, l.account) + Pnl(l.risk, x.outcome) \in SafeInts

Settle(x, at) ==
    <<[into |-> "settlements", id |-> x.id, outcome |-> x.outcome, at |-> at]>>

SettleReadProjection(h) ==
    LET c == calls[h]
        x == Command(c)
    IN  /\ Preparing(h, "SETTLE", "projection")
        /\ Goto(h, IF \A l \in AllocationsOf(db, x.id) : SettlementSafe(l, x)
                   THEN Finished(c, "settled", Settle(x, c.at))
                   ELSE Finished(c, "conflict", <<>>))
        /\ UNCHANGED <<db, day>>

EnvelopeStatements(c) == <<[into |-> "receipts", envelope |-> c.req]>> \o c.plan

Status(outcomes) ==
    LET happened == Range(outcomes)
    IN  CASE happened = {} -> "NONE"
          [] happened # {} /\ happened \cap {"blocked", "conflict"} = {} -> "APPLIED"
          [] /\ happened \cap {"blocked", "conflict"} # {}
             /\ happened \cap {"opened", "settled"} # {} -> "PARTIAL"
          [] OTHER -> "BLOCKED"

\* The receipt and everything prepared, in one transaction.
ApplyBatch(h) ==
    LET result == RunBatch(EnvelopeStatements(calls[h]))
    IN  /\ At(h, "envelope", "batch")
        /\ db' = result.db
        /\ IF result.error = "none"
           THEN Answer(h, Status(calls[h].outcomes))
           ELSE Goto(h, [calls[h] EXCEPT !.step = "raced", !.error = result.error])
        /\ UNCHANGED day

\* A batch whose answer is lost, and which D1 executed or not.
LoseBatch(h, executed) ==
    /\ At(h, "envelope", "batch")
    /\ db' = IF executed THEN RunBatch(EnvelopeStatements(calls[h])).db ELSE db
    /\ Goto(h, [calls[h] EXCEPT !.step = "raced", !.error = "storage"])
    /\ UNCHANGED day

\* automationBatchRaceIsRetryable.
Retryable(error) == error \in {"unique", "gate", "already blocked", "already live"}

\* After a failed batch: the receipt of a twin, one more preparation, or 503.
ReadRaced(h) ==
    LET c == calls[h]
    IN  /\ At(h, "envelope", "raced")
        /\ CASE Receipt(db, c.req.key) # {} -> Replay(h)
             [] Receipt(db, c.req.key) = {} /\ Retryable(c.error) /\ ~c.second ->
                    Goto(h, Prepare([c EXCEPT !.second = TRUE], c.error = "gate"))
             [] OTHER -> Answer(h, "UNAVAILABLE")
        /\ UNCHANGED <<db, day>>

(***************************************************************************)
(* POST of a manual trade: createPaperTradeIntent.                          *)
(***************************************************************************)
AnswerIntent(h) ==
    LET x == calls[h].req
    IN  Answer(h, IF [id |-> x.id, open |-> x.open] \in db.intents
                  THEN "DUPLICATE" ELSE "CONFLICT")
AnswerBlocked(h) ==
    LET x == calls[h].req
    IN  Answer(h, IF \E b \in Blocked(db, x.id) : b.open = x.open
                  THEN "TERMINALLY_BLOCKED" ELSE "CONFLICT")

CreateReadBundle(h) ==
    /\ At(h, "create", "bundle")
    /\ IF Intent(db, calls[h].req.id) # {} THEN AnswerIntent(h) ELSE Then(h, "blocked")
    /\ UNCHANGED <<db, day>>

CreateReadBlocked(h) ==
    /\ At(h, "create", "blocked")
    /\ IF Blocked(db, calls[h].req.id) # {} THEN AnswerBlocked(h) ELSE Then(h, "kill")
    /\ UNCHANGED <<db, day>>

CreateReadKillSwitch(h) ==
    /\ At(h, "create", "kill")
    /\ IF KillSwitch(db) THEN Answer(h, "KILL_SWITCH_ENABLED") ELSE Then(h, "metrics")
    /\ UNCHANGED <<db, day>>

MetricsOf(open) == [i \in DOMAIN open.accounts |-> Metric(db, open.accounts[i])]

CreateReadMetrics(h) ==
    LET x == calls[h].req
        refusal == Refusal(x.open, <<>>)
    IN  /\ At(h, "create", "metrics")
        /\ CASE refusal = "none" ->
                    Goto(h, [calls[h] EXCEPT !.step = "batch", !.seen = MetricsOf(x.open)])
             [] refusal = "SAFETY_GATE_RACE" -> Answer(h, "UNAVAILABLE")
             [] OTHER -> Answer(h, refusal)
        /\ UNCHANGED <<db, day>>

\* A refusal by the gate is answered as a change of the safety state.
CreateBatch(h) ==
    LET result == RunBatch(OpenStatements(calls[h].req))
    IN  /\ At(h, "create", "batch")
        /\ db' = result.db
        /\ CASE result.error = "none" -> Answer(h, "CREATED")
             [] result.error = "gate" -> Answer(h, "SAFETY_GATE_CHANGED")
             [] OTHER -> Then(h, "raced")
        /\ UNCHANGED day

LoseCreate(h, executed) ==
    /\ At(h, "create", "batch")
    /\ db' = IF executed THEN RunBatch(OpenStatements(calls[h].req)).db ELSE db
    /\ Then(h, "raced")
    /\ UNCHANGED day

CreateReadRaced(h) ==
    /\ At(h, "create", "raced")
    /\ IF Intent(db, calls[h].req.id) # {} THEN AnswerIntent(h) ELSE Then(h, "racedBlocked")
    /\ UNCHANGED <<db, day>>

CreateReadRacedBlocked(h) ==
    /\ At(h, "create", "racedBlocked")
    /\ IF Blocked(db, calls[h].req.id) # {} THEN AnswerBlocked(h) ELSE Answer(h, "UNAVAILABLE")
    /\ UNCHANGED <<db, day>>

(***************************************************************************)
(* POST of a manual settlement: settlePaperTradeIntent.                     *)
(***************************************************************************)
AnswerSettlement(h) ==
    Answer(h, IF \E s \in Settlement(db, calls[h].req.id) : s.outcome = calls[h].req.outcome
              THEN "DUPLICATE" ELSE "CONFLICT")

ManualReadBundle(h) ==
    LET x == calls[h].req
    IN  /\ At(h, "settle", "bundle")
        /\ CASE Intent(db, x.id) = {} -> Answer(h, "NOT_FOUND")
             [] Settlement(db, x.id) # {} -> AnswerSettlement(h)
             [] OTHER -> Then(h, "projection")
        /\ UNCHANGED <<db, day>>

\* The first allocation the check fails for decides the answer.
ManualReadProjection(h) ==
    LET x == calls[h].req
        failing == {i \in DOMAIN db.allocations :
                        db.allocations[i].id = x.id /\ ~SettlementSafe(db.allocations[i], x)}
    IN  /\ At(h, "settle", "projection")
        /\ CASE failing = {} ->
                    Goto(h, [calls[h] EXCEPT !.step = "batch", !.at = day])
             [] failing # {} /\ ~ProjectionIsSafe(db, db.allocations[Min(failing)].account) ->
                    Answer(h, "UNAVAILABLE")
             [] OTHER -> Answer(h, "OUT_OF_RANGE")
        /\ UNCHANGED <<db, day>>

ManualSettle(h) ==
    LET result == RunBatch(Settle(calls[h].req, calls[h].at))
    IN  /\ At(h, "settle", "batch")
        /\ db' = result.db
        /\ IF result.error = "none" THEN Answer(h, "SETTLED") ELSE Then(h, "raced")
        /\ UNCHANGED day

LoseSettle(h, executed) ==
    /\ At(h, "settle", "batch")
    /\ db' = IF executed THEN RunBatch(Settle(calls[h].req, calls[h].at)).db ELSE db
    /\ Then(h, "raced")
    /\ UNCHANGED day

ManualReadRaced(h) ==
    /\ At(h, "settle", "raced")
    /\ IF Settlement(db, calls[h].req.id) # {}
       THEN AnswerSettlement(h)
       ELSE Answer(h, "UNAVAILABLE")
    /\ UNCHANGED <<db, day>>

(***************************************************************************)
(* POST of a manual ledger entry: appendPaperLedgerEntry.                   *)
(***************************************************************************)
AnswerEntry(h) ==
    Answer(h, IF \E l \in Entry(db, calls[h].req) : l.amount = calls[h].req.amount
              THEN "DUPLICATE" ELSE "CONFLICT")

\* What the projection says about the next entry; "none" when it may go in.
EntryRefusal(r) ==
    CASE r.account \notin db.accounts -> "NOT_FOUND"
      [] r.account \in db.accounts /\ ~ProjectionIsSafe(db, r.account) -> "UNAVAILABLE"
      [] /\ r.account \in db.accounts
         /\ ProjectionIsSafe(db, r.account)
         /\ r.sequence # LastSequence(db, r.account) + 1 -> "SEQUENCE_CONFLICT"
      [] OTHER ->
            IF /\ Balance(db, r.account) + r.amount \in SafeInts
               /\ LedgerDelta(db, r.account) + r.amount \in SafeInts
            THEN "none" ELSE "OUT_OF_RANGE"

LedgerReadEntry(h) ==
    /\ At(h, "ledger", "entry")
    /\ IF Entry(db, calls[h].req) # {} THEN AnswerEntry(h) ELSE Then(h, "projection")
    /\ UNCHANGED <<db, day>>

LedgerReadProjection(h) ==
    LET refusal == EntryRefusal(calls[h].req)
    IN  /\ At(h, "ledger", "projection")
        /\ IF refusal = "none" THEN Then(h, "batch") ELSE Answer(h, refusal)
        /\ UNCHANGED <<db, day>>

\* The insertion and, whatever came of it, the read of what is stored.
LedgerInsert(h) ==
    LET r == calls[h].req
    IN  /\ At(h, "ledger", "batch")
        /\ db' = IF EntryFits(db, r)
                 THEN [db EXCEPT !.ledger = @ \cup {[account |-> r.account,
                            sequence |-> r.sequence, amount |-> r.amount]}]
                 ELSE db
        /\ IF EntryFits(db, r) THEN Answer(h, "RECORDED") ELSE Then(h, "stored")
        /\ UNCHANGED day

LoseInsert(h, executed) ==
    LET r == calls[h].req
    IN  /\ At(h, "ledger", "batch")
        /\ db' = IF executed /\ EntryFits(db, r)
                 THEN [db EXCEPT !.ledger = @ \cup {[account |-> r.account,
                            sequence |-> r.sequence, amount |-> r.amount]}]
                 ELSE db
        /\ Then(h, "stored")
        /\ UNCHANGED day

LedgerReadStored(h) ==
    /\ At(h, "ledger", "stored")
    /\ IF Entry(db, calls[h].req) # {} THEN AnswerEntry(h) ELSE Then(h, "after")
    /\ UNCHANGED <<db, day>>

LedgerReadAfter(h) ==
    LET refusal == EntryRefusal(calls[h].req)
    IN  /\ At(h, "ledger", "after")
        /\ Answer(h, IF refusal = "none" THEN "UNAVAILABLE" ELSE refusal)
        /\ UNCHANGED <<db, day>>

(***************************************************************************)
(* The remaining requests, each of which changes the database in a single   *)
(* insertion and decides nothing from an earlier read.                      *)
(***************************************************************************)
\* createPaperAccount: INSERT OR IGNORE.
CreateAccount(a) ==
    /\ a \notin db.accounts
    /\ db' = [db EXCEPT !.accounts = @ \cup {a}]
    /\ UNCHANGED <<calls, day>>

\* setPaperKillSwitch: INSERT OR IGNORE under the idempotency key.
SetKillSwitch(c) ==
    /\ \A e \in Range(db.controls) : e.key # c.key
    /\ db' = [db EXCEPT !.controls = Append(@, c)]
    /\ UNCHANGED <<calls, day>>

\* A read of D1 throws; only the kill switch of an envelope may be missed.
Fail(h) ==
    /\ calls[h].step \notin {"idle", "done", "batch"}
    /\ ~At(h, "envelope", "kill")
    /\ Answer(h, "UNAVAILABLE")
    /\ UNCHANGED <<db, day>>

NextDay ==
    /\ day < workload.days
    /\ day' = day + 1
    /\ UNCHANGED <<db, calls>>

Lose(h, executed) ==
    \/ LoseBatch(h, executed)
    \/ LoseCreate(h, executed)
    \/ LoseSettle(h, executed)
    \/ LoseInsert(h, executed)

Envelope(h) ==
    \/ ReadReceipt(h) \/ ReadKillSwitch(h) \/ KillSwitchUnavailable(h)
    \/ OpenReadBundle(h) \/ OpenReadBlocked(h) \/ OpenReadMetrics(h)
    \/ SettleReadBundle(h) \/ SettleReadBlocked(h) \/ SettleReadProjection(h)
    \/ ApplyBatch(h) \/ ReadRaced(h)

Manual(h) ==
    \/ CreateReadBundle(h) \/ CreateReadBlocked(h) \/ CreateReadKillSwitch(h)
    \/ CreateReadMetrics(h) \/ CreateBatch(h)
    \/ CreateReadRaced(h) \/ CreateReadRacedBlocked(h)
    \/ ManualReadBundle(h) \/ ManualReadProjection(h)
    \/ ManualSettle(h) \/ ManualReadRaced(h)
    \/ LedgerReadEntry(h) \/ LedgerReadProjection(h) \/ LedgerInsert(h)
    \/ LedgerReadStored(h) \/ LedgerReadAfter(h)

\* Migration 0018 starts with the kill switch engaged.
Init ==
    /\ db = [accounts |-> {}, ledger |-> {}, receipts |-> {}, intents |-> {},
             allocations |-> <<>>, settlements |-> <<>>, blocked |-> {},
             controls |-> <<[key |-> "initial", enabled |-> TRUE]>>]
    /\ calls = [h \in Handlers |-> Idle]
    /\ day = 0
    /\ workload \in Workloads

Step ==
    \/ \E h \in Handlers :
          \/ \E r \in workload.requests : Call(h, r)
          \/ Envelope(h)
          \/ Manual(h)
          \/ \E executed \in BOOLEAN : Lose(h, executed)
          \/ Fail(h)
    \/ \E a \in workload.accounts : CreateAccount(a)
    \/ \E c \in workload.controls : SetKillSwitch(c)
    \/ NextDay

Next == Step /\ UNCHANGED workload

Spec == Init /\ [][Next]_vars

-----------------------------------------------------------------------------

\* An intent identifier is a live trade or a terminal block, never both,
\* although the worker looks at the two tables in separate reads (the
\* reciprocal triggers of migration 0019).
LiveXorBlocked ==
    \A r \in db.intents : Blocked(db, r.id) = {}

\* However requests interleave, the risk open on an account when a position
\* was added, that position included, was within the open-risk limit of the
\* balance it was added to, and an account never holds too many positions.
RiskBudget ==
    \A a \in db.accounts :
        LET open == OpenAllocations(db, a)
        IN  /\ Cardinality(open) <= MaxOpenPositions
            /\ \A i \in open :
                  OpenRisk(db, {j \in open : j <= i})
                      <= FloorBps(db.allocations[i].before, MaxOpenRiskBps)

\* While the kill switch is engaged no trade becomes live, whatever a handler
\* read before it was engaged.
KillSwitchStops ==
    [][KillSwitch(db) => /\ db'.intents = db.intents
                         /\ db'.allocations = db.allocations]_vars

\* Balances stay in the safe integer range although each settlement and each
\* ledger entry was judged against a balance read earlier.
BalanceInRange == \A a \in db.accounts : Balance(db, a) \in SafeInts

\* Every OPEN of an envelope with a receipt is accounted for: there is a live
\* trade or a terminal block under its identifier.  A receipt is never stored
\* without what it stands for, since no redelivery would come back to it.
OpenAccounted ==
    \A e \in db.receipts : \A x \in Range(e.commands) :
        x.action = "OPEN" => Intent(db, x.id) \cup Blocked(db, x.id) # {}

\* What the outcome reported for a command of an envelope promises.
Promised(x, outcome) ==
    LET live == Intent(db, x.id)
        blocked == Blocked(db, x.id)
        settlement == Settlement(db, x.id)
    IN  CASE x.action = "OPEN" /\ outcome \in {"opened", "duplicate"} ->
                [id |-> x.id, open |-> x.open] \in live
          [] x.action = "OPEN" /\ outcome = "blocked" -> \E b \in blocked : b.open = x.open
          [] x.action = "OPEN" /\ outcome = "conflict" ->
                \E r \in live \cup blocked : r.open # x.open
          [] x.action = "SETTLE" /\ outcome \in {"settled", "duplicate"} ->
                \E s \in settlement : s.outcome = x.outcome
          [] x.action = "SETTLE" /\ outcome = "blocked" -> blocked # {}
          [] OTHER -> TRUE

\* A request is stored with its own content.
Stored(r) ==
    CASE r.kind = "envelope" -> r \in db.receipts
      [] r.kind = "create" -> [id |-> r.id, open |-> r.open] \in db.intents
      [] r.kind = "settle" -> \E s \in Settlement(db, r.id) : s.outcome = r.outcome
      [] r.kind = "ledger" -> \E l \in Entry(db, r) : l.amount = r.amount

\* An answer tells what is stored: a command reported opened, settled or
\* duplicate is in the database with the content it was sent with, a block is
\* terminal, and a duplicate answer means the very same request was stored.
RepliesHonest ==
    \A h \in Handlers :
        LET r == calls[h].req
            reply == calls[h].reply
        IN  CASE reply \in {"APPLIED", "PARTIAL", "BLOCKED"} ->
                    /\ r \in db.receipts
                    /\ \A i \in DOMAIN r.commands :
                          Promised(r.commands[i], calls[h].outcomes[i])
              [] reply = "TERMINALLY_BLOCKED" -> Blocked(db, r.id) # {}
              [] reply \in {"CREATED", "SETTLED", "RECORDED", "DUPLICATE"} -> Stored(r)
              [] OTHER -> TRUE

\* A manual trade refused with "Paper safety state changed before the trade
\* could be recorded" really met a change: the kill switch or the metrics are
\* not those it was judged by, so the two computations of the gate agree.
GateChangeIsReal ==
    [][\A h \in Handlers :
          /\ calls[h].reply # "SAFETY_GATE_CHANGED"
          /\ calls'[h].reply = "SAFETY_GATE_CHANGED"
          => KillSwitch(db) \/ calls[h].seen # MetricsOf(calls[h].req.open)]_vars
=============================================================================
