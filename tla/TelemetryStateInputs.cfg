SPECIFICATION Spec
CONSTANTS
    Observations <- MCObservations
    Bodies = {b1, b2}
    NoBody = NoBody
    Cursors = {0, 1}
    MaxCounter = 5
    MaxAbandoned = 0
    BatchMax = 2
    EventsMax = 2
    NormalFiles = 14
    ReserveFiles = 3
    DeleteBatch = 3
    Instances = {t1}
    NoOwner = NoOwner
    Batches <- MCInputBatches
    Diagnostics <- MCDiagnostics
    Replaceable = TRUE
    OwnerListed = FALSE
INVARIANTS WithinBudget
PROPERTIES ImplementsOutbox
CONSTRAINT FewAbandoned
