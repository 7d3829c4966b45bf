SPECIFICATION DeliverySpec
CONSTANTS
    Handlers = {h1, h2}
    Identities <- MCIdentities
    NoIdentity = NoIdentity
    Arrivals = {}
    NullRequest = NullRequest
    NoRecord = 0
    EventsPerRequest = 2
    QueueMax = 2
    Freshness = 0
    MaxTime = 1
    Self <- MCSelf
    Captured <- MCCaptured
    BatchMax = 2
    EventsMax = 3
    MaxRequests = 2
INVARIANTS ExactlyOnceInOrder  CoverageHonest
 
CHECK_DEADLOCK FALSE
