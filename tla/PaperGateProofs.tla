--------------------------- MODULE PaperGateProofs ---------------------------
(***************************************************************************)
(* The two computations of the paper risk gate take the same decision, for  *)
(* every account state the worker judges and every candidate risk.          *)
(***************************************************************************)
EXTENDS PaperGate, TLAPS

\* A quotient reaches a bound exactly when the dividend reaches the product:
\* what the basis-point ratio of ratioBps says about the amounts themselves.
LEMMA QuotientReaches ==
    ASSUME NEW a \in Nat, NEW b \in Nat \ {0}, NEW c \in Nat
    PROVE  (a \div b >= c) <=> (a >= c * b)
PROOF
<1>1. PICK q \in Nat, r \in Nat : a = b * q + r /\ r < b /\ q = a \div b
    BY Z3 DEF Bps
<1>2. CASE q >= c
    BY <1>1, <1>2, Z3
<1>3. CASE q < c
    BY <1>1, <1>3, Z3
<1> QED BY <1>1, <1>2, <1>3

\* A product distributes over the split of an amount into ten-thousands.
LEMMA SplitProduct ==
    ASSUME NEW q \in Nat, NEW r \in Nat, NEW limit \in Nat
    PROVE  /\ q * limit \in Nat
           /\ r * limit \in Nat
           /\ (Bps * q + r) * limit = Bps * (q * limit) + r * limit
PROOF
    BY Z3 DEF Bps

\* The trigger's split of a limit into whole ten-thousands and a remainder,
\* rounded up, is the exact comparison of the products.
LEMMA CeilingReached ==
    ASSUME NEW loss \in Nat, NEW amount \in Nat, NEW limit \in Nat
    PROVE  (loss >= CeilingBps(amount, limit)) <=> (loss * Bps >= amount * limit)
PROOF
<1>1. PICK q \in Nat, r \in Nat :
          amount = Bps * q + r /\ q = amount \div Bps /\ r = amount % Bps
    BY Z3 DEF Bps
<1>2. PICK p \in Nat : p = r * limit
    BY SplitProduct
<1>3. PICK u \in Nat : u = q * limit
    BY SplitProduct
<1>4. CeilingBps(amount, limit) = u + (p + Bps - 1) \div Bps
    BY <1>1, <1>2, <1>3, Zenon DEF CeilingBps
<1>5. amount * limit = Bps * u + p
    <2>1. (Bps * q + r) * limit = Bps * (q * limit) + r * limit
        BY SplitProduct
    <2> QED BY <1>1, <1>2, <1>3, <2>1, Zenon
<1>6. (loss >= u + (p + Bps - 1) \div Bps) <=> (loss * Bps >= Bps * u + p)
    BY Z3 DEF Bps
<1> QED BY <1>4, <1>5, <1>6, Zenon

\* The same for the open-risk limit, rounded down and compared strictly.
LEMMA FloorExceeded ==
    ASSUME NEW risk \in Nat, NEW amount \in Nat, NEW limit \in Nat
    PROVE  (risk > FloorBps(amount, limit)) <=> (risk * Bps > amount * limit)
PROOF
<1>1. PICK q \in Nat, r \in Nat :
          amount = Bps * q + r /\ q = amount \div Bps /\ r = amount % Bps
    BY Z3 DEF Bps
<1>2. PICK p \in Nat : p = r * limit
    BY SplitProduct
<1>3. PICK u \in Nat : u = q * limit
    BY SplitProduct
<1>4. FloorBps(amount, limit) = u + p \div Bps
    BY <1>1, <1>2, <1>3, Zenon DEF FloorBps
<1>5. amount * limit = Bps * u + p
    <2>1. (Bps * q + r) * limit = Bps * (q * limit) + r * limit
        BY SplitProduct
    <2> QED BY <1>1, <1>2, <1>3, <2>1, Zenon
<1>6. (risk > u + p \div Bps) <=> (risk * Bps > Bps * u + p)
    BY Z3 DEF Bps
<1> QED BY <1>4, <1>5, <1>6, Zenon

\* A share of at most ten thousand basis points is at most the whole.
LEMMA ProductBound ==
    ASSUME NEW b \in Nat, NEW limit \in 1 .. Bps
    PROVE  b * limit \in Int /\ b * limit <= b * Bps
PROOF
    BY Z3 DEF Bps

\* A loss reaches its limit in ratioBps exactly when it reaches the trigger's
\* ceiling: the saturation at MaxSafe never hides a breach.
LEMMA LossLimitsAgree ==
    ASSUME NEW loss \in Nat, NEW opening \in Nat \ {0},
           NEW limit \in 1 .. Bps, limit <= MaxSafe
    PROVE  (RatioBps(loss, opening) < limit) <=> ~(loss >= CeilingBps(opening, limit))
PROOF
<1>1. (loss >= CeilingBps(opening, limit)) <=> (loss * Bps >= opening * limit)
    BY CeilingReached
<1>2. CASE loss = 0
    <2>1. RatioBps(loss, opening) = 0
        BY <1>2 DEF RatioBps
    <2>2. opening * limit > 0
        BY Z3
    <2>3. loss * Bps = 0
        BY <1>2 DEF Bps
    <2> QED BY <1>1, <2>1, <2>2, <2>3
<1>3. CASE loss > 0
    <2> DEFINE value == (loss * Bps) \div opening
    <2>1. value \in Nat
        BY Z3 DEF Bps
    <2>2. (value >= limit) <=> (loss * Bps >= limit * opening)
        <3>1. loss * Bps \in Nat /\ limit \in Nat
            BY DEF Bps
        <3> QED BY <3>1, QuotientReaches, Zenon
    <2>3. limit * opening = opening * limit
        BY Z3
    <2>4. RatioBps(loss, opening) = IF value > MaxSafe THEN MaxSafe ELSE value
        BY <1>3 DEF RatioBps
    <2>5. (RatioBps(loss, opening) < limit) <=> ~(value >= limit)
        <3> HIDE DEF value
        <3> QED BY <2>1, <2>4, GateAssumption
    <2> QED BY <1>1, <2>2, <2>3, <2>5
<1> QED BY <1>2, <1>3

\* The worker's decision on a new trade (paperAccountAllowsNewOpen with one
\* candidate) and the allocation trigger's are the same decision, for every
\* account row the worker is willing to judge and every risk amount.  The
\* pre-check never lets through what the trigger must refuse on the same
\* state, and never refuses what the trigger would accept.
THEOREM GatesAgree ==
    ASSUME NEW m \in Metrics, InputIsSafe(m), NEW risk \in 1 .. MaxSafe
    PROVE  AllowsNewOpen(m, risk, 1) <=> ~TriggerBlocks(m, risk)
PROOF
<1> DEFINE n == [m EXCEPT !.risk = @ + risk, !.positions = @ + 1]
<1>1. /\ m.opening \in Nat \ {0} /\ m.balance \in Int /\ m.balance <= MaxSafe
      /\ m.drawdown \in Nat /\ m.risk \in Nat /\ m.positions \in Nat
      /\ DailyLoss(m) \in Nat /\ MaxSafe \in Nat
    BY GateAssumption DEF InputIsSafe, Metrics, SafeInts, DailyLoss
<1>2. /\ n.opening = m.opening /\ n.balance = m.balance
      /\ n.drawdown = m.drawdown /\ DailyLoss(n) = DailyLoss(m)
      /\ n.risk = m.risk + risk /\ n.positions = m.positions + 1
    BY DEF Metrics, DailyLoss
<1>3. (RatioBps(DailyLoss(n), n.opening) < MaxDailyLossBps)
          <=> ~(DailyLoss(m) >= CeilingBps(m.opening, MaxDailyLossBps))
    <2>1. MaxDailyLossBps \in 1 .. Bps /\ MaxDailyLossBps <= MaxSafe
        BY GateAssumption
    <2>2. (RatioBps(DailyLoss(m), m.opening) < MaxDailyLossBps)
              <=> ~(DailyLoss(m) >= CeilingBps(m.opening, MaxDailyLossBps))
        BY <1>1, <2>1, LossLimitsAgree, Zenon
    <2> HIDE DEF n
    <2> QED BY <1>2, <2>2, Zenon
<1>4. (RatioBps(n.drawdown, n.opening) < MaxTotalDrawdownBps)
          <=> ~(m.drawdown >= CeilingBps(m.opening, MaxTotalDrawdownBps))
    <2>1. MaxTotalDrawdownBps \in 1 .. Bps /\ MaxTotalDrawdownBps <= MaxSafe
        BY GateAssumption
    <2>2. (RatioBps(m.drawdown, m.opening) < MaxTotalDrawdownBps)
              <=> ~(m.drawdown >= CeilingBps(m.opening, MaxTotalDrawdownBps))
        BY <1>1, <2>1, LossLimitsAgree, Zenon
    <2> HIDE DEF n
    <2> QED BY <1>2, <2>2, Zenon
<1>5. ASSUME m.balance > 0
      PROVE  /\ RatioExceedsBps(n.risk, n.balance, MaxOpenRiskBps)
                    <=> m.risk + risk > FloorBps(m.balance, MaxOpenRiskBps)
             /\ m.risk + risk > MaxSafe
                    => m.risk + risk > FloorBps(m.balance, MaxOpenRiskBps)
    <2>1. (m.risk + risk > FloorBps(m.balance, MaxOpenRiskBps))
              <=> ((m.risk + risk) * Bps > m.balance * MaxOpenRiskBps)
        <3>1. m.risk + risk \in Nat /\ m.balance \in Nat /\ MaxOpenRiskBps \in Nat
            BY <1>1, <1>5, GateAssumption
        <3> QED BY <3>1, FloorExceeded
    <2>2. RatioExceedsBps(n.risk, n.balance, MaxOpenRiskBps)
              <=> ((m.risk + risk) * Bps > m.balance * MaxOpenRiskBps)
        BY <1>1, <1>2, <1>5 DEF RatioExceedsBps
    <2>3. m.balance * MaxOpenRiskBps \in Int /\ m.balance * MaxOpenRiskBps <= m.balance * Bps
        <3>1. m.balance \in Nat /\ MaxOpenRiskBps \in 1 .. Bps
            BY <1>1, <1>5, GateAssumption
        <3> QED BY <3>1, ProductBound, Zenon
    <2>4. m.risk + risk > MaxSafe => (m.risk + risk) * Bps > m.balance * MaxOpenRiskBps
        BY <1>1, <2>3 DEF Bps
    <2> QED BY <2>1, <2>2, <2>4
<1>6. (m.positions + 1 <= MaxSafe /\ n.positions <= MaxOpenPositions)
          <=> ~(m.positions >= MaxOpenPositions)
    BY <1>1, <1>2, GateAssumption
<1>7. AccountReady(n) <=>
          /\ m.balance > 0
          /\ ~(DailyLoss(m) >= CeilingBps(m.opening, MaxDailyLossBps))
          /\ ~(m.drawdown >= CeilingBps(m.opening, MaxTotalDrawdownBps))
          /\ ~RatioExceedsBps(n.risk, n.balance, MaxOpenRiskBps)
          /\ n.positions <= MaxOpenPositions
    <2> HIDE DEF n
    <2> QED BY <1>2, <1>3, <1>4 DEF AccountReady
<1>8. AllowsNewOpen(m, risk, 1) <=>
          m.risk + risk <= MaxSafe /\ m.positions + 1 <= MaxSafe /\ AccountReady(n)
    <2>1. 1 \in 1 .. MaxSafe
        BY GateAssumption
    <2> QED BY <2>1 DEF AllowsNewOpen
<1>9. ~(risk <= 0)
    OBVIOUS
<1>10. TriggerBlocks(m, risk) <=>
          \/ m.balance <= 0
          \/ DailyLoss(m) >= CeilingBps(m.opening, MaxDailyLossBps)
          \/ m.drawdown >= CeilingBps(m.opening, MaxTotalDrawdownBps)
          \/ m.risk + risk > FloorBps(m.balance, MaxOpenRiskBps)
          \/ m.positions >= MaxOpenPositions
    BY <1>9 DEF TriggerBlocks
<1>11. CASE m.balance > 0
    <2>1. m.risk + risk > MaxSafe \/ m.risk + risk <= MaxSafe
        BY <1>1
    <2>2. ~(m.balance <= 0)
        BY <1>1, <1>11
    <2> HIDE DEF n
    <2> QED BY <1>5, <1>6, <1>7, <1>8, <1>10, <1>11, <2>1, <2>2, Zenon
<1>12. CASE m.balance <= 0
    <2>1. ~(m.balance > 0)
        BY <1>1, <1>12
    <2> QED BY <1>7, <1>8, <1>10, <1>12, <2>1, Zenon
<1> QED BY <1>1, <1>11, <1>12
=============================================================================
