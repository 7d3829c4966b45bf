----------------------------- MODULE PaperGate -----------------------------
(***************************************************************************)
(* The paper-account risk gate, which the observation edge computes twice:  *)
(* in TypeScript before it prepares a trade (paper-readiness.ts) and in SQL *)
(* when an allocation row is inserted (migration 0019).  The two are written *)
(* with different arithmetic, basis-point ratios against floors and         *)
(* ceilings of the limits, and have to take the same decision.              *)
(*                                                                         *)
(* A metric is one row of the view paper_account_readiness_metrics.         *)
(***************************************************************************)
EXTENDS Integers

CONSTANTS
    MaxSafe,                \* Number.MAX_SAFE_INTEGER
    MaxDailyLossBps,        \* max_daily_loss_bps, 500 in the code
    MaxTotalDrawdownBps,    \* max_total_drawdown_bps, 1000 in the code
    MaxOpenRiskBps,         \* max_open_risk_bps, 200 in the code
    MaxOpenPositions        \* max_open_positions, 4 in the code

\* Basis points in a whole.
Bps == 10000

\* The limits are positive shares of the balance and well below 2^53.
ASSUME GateAssumption ==
    /\ MaxSafe \in Nat
    /\ MaxDailyLossBps \in 1 .. Bps /\ MaxDailyLossBps <= MaxSafe
    /\ MaxTotalDrawdownBps \in 1 .. Bps /\ MaxTotalDrawdownBps <= MaxSafe
    /\ MaxOpenRiskBps \in 1 .. Bps
    /\ MaxOpenPositions \in Nat /\ MaxOpenPositions < MaxSafe

SafeInts == -MaxSafe .. MaxSafe

Metrics == [opening : Int, balance : Int, daily : Int, drawdown : Int,
            risk : Int, positions : Int]

\* paperReadinessAccountInputIsSafe: a row the worker is willing to judge.
InputIsSafe(m) ==
    /\ m.opening \in 1 .. MaxSafe
    /\ m.balance \in SafeInts
    /\ m.daily \in SafeInts
    /\ m.drawdown \in 0 .. MaxSafe
    /\ m.risk \in 0 .. MaxSafe
    /\ m.positions \in 0 .. MaxSafe

DailyLoss(m) == IF m.daily < 0 THEN -m.daily ELSE 0

\* ratioBps, saturated at the largest safe integer.
RatioBps(numerator, denominator) ==
    IF numerator <= 0 \/ denominator <= 0
    THEN 0
    ELSE LET value == (numerator * Bps) \div denominator
         IN  IF value > MaxSafe THEN MaxSafe ELSE value

RatioExceedsBps(numerator, denominator, limit) ==
    /\ numerator > 0 /\ denominator > 0
    /\ numerator * Bps > denominator * limit

\* accountReport(...).state = "READY".
AccountReady(m) ==
    /\ m.balance > 0
    /\ RatioBps(DailyLoss(m), m.opening) < MaxDailyLossBps
    /\ RatioBps(m.drawdown, m.opening) < MaxTotalDrawdownBps
    /\ ~RatioExceedsBps(m.risk, m.balance, MaxOpenRiskBps)
    /\ m.positions <= MaxOpenPositions

\* paperAccountAllowsNewOpen: the account stays ready with the candidates on it.
AllowsNewOpen(m, candidateRisk, candidatePositions) ==
    /\ candidateRisk \in 1 .. MaxSafe
    /\ candidatePositions \in 1 .. MaxSafe
    /\ m.risk + candidateRisk <= MaxSafe
    /\ m.positions + candidatePositions <= MaxSafe
    /\ AccountReady([m EXCEPT !.risk = @ + candidateRisk,
                              !.positions = @ + candidatePositions])

\* The limits as the trigger computes them, without a product that could
\* leave 64 bits: a ceiling for the losses, a floor for the open risk.
CeilingBps(amount, limit) ==
    (amount \div Bps) * limit + ((amount % Bps) * limit + Bps - 1) \div Bps

\* Mutant: the remainder of the division is lost.
FloorBpsCoarse(amount, limit) == (amount \div Bps) * limit

FloorBps(amount, limit) ==
    (amount \div Bps) * limit + ((amount % Bps) * limit) \div Bps

\* Mutant: the new risk is left out of the sum.
TriggerBlocksLate(m, newRisk) ==
    \/ newRisk <= 0
    \/ m.balance <= 0
    \/ DailyLoss(m) >= CeilingBps(m.opening, MaxDailyLossBps)
    \/ m.drawdown >= CeilingBps(m.opening, MaxTotalDrawdownBps)
    \/ m.risk > FloorBps(m.balance, MaxOpenRiskBps)
    \/ m.positions >= MaxOpenPositions

\* The account half of trigger paper_trade_allocations_readiness_gate.
TriggerBlocks(m, newRisk) ==
    \/ newRisk <= 0
    \/ m.balance <= 0
    \/ DailyLoss(m) >= CeilingBps(m.opening, MaxDailyLossBps)
    \/ m.drawdown >= CeilingBps(m.opening, MaxTotalDrawdownBps)
    \/ m.risk + newRisk > FloorBps(m.balance, MaxOpenRiskBps)
    \/ m.positions >= MaxOpenPositions
=============================================================================
