SPECIFICATION Spec
CONSTANTS
    h1 = h1
    h2 = h2
    NullRequest = NullRequest
    Handlers <- MCHandlers
    Accounts <- MCAccounts
    Opening <- MCOpening
    Requests <- MCRequests
    Workloads <- MCWorkloads
    Controls <- MCControls
    MaxSafe = 10250
    MaxDailyLossBps = 100
    MaxTotalDrawdownBps = 1000
    MaxOpenRiskBps = 200
    MaxOpenPositions = 4
SYMMETRY Symmetry
INVARIANTS
    LiveXorBlocked
    RiskBudget
    BalanceInRange
    OpenAccounted
    RepliesHonest
PROPERTIES
    KillSwitchStops
    GateChangeIsReal
