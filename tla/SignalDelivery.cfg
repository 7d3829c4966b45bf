SPECIFICATION DeliverySpec
CHECK_DEADLOCK FALSE
CONSTANTS
    Null = Null
    Registrations <- MCRegistrations
    Namespace <- MCNamespace
    Scope <- MCScope
    Requests <- MCRequests
    Workloads <- MCWorkloads
    Freshness <- MCFreshness
    ActiveUntil = 4
    MaxTries = 2
    MaxAttempts = 2
    Lease = 1
INVARIANTS
    OrderlyProducersAreNotQuarantined
    OneDeliveryPerAttempt
    AcknowledgedIsStored
PROPERTIES
    SettlementsAreFinal
    EveryDeliveryIsSettled
