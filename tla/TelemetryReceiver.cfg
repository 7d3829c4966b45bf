SPECIFICATION Spec
CONSTANTS
    Handlers = {h1, h2}
    Identities <- MCIdentities
    NoIdentity = NoIdentity
    Arrivals <- MCArrivals
    NullRequest = NullRequest
    NoRecord = 0
    EventsPerRequest = 2
    QueueMax = 2
    Freshness = 1
    MaxTime = 3
INVARIANTS JournalMatchesReceipts RepliesAreReceipts
PROPERTIES CallsEnd
