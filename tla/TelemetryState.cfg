SPECIFICATION Spec
CONSTANTS
    Observations <- MCObservations
    Bodies = {b1}
    NoBody = NoBody
    Cursors = {0}
    MaxCounter = 5
    MaxAbandoned = 1
    BatchMax = 2
    EventsMax = 2
    NormalFiles = 30
    ReserveFiles = 4
    DeleteBatch = 3
    Instances = {t1, t2}
    NoOwner = NoOwner
    Batches <- MCOneBatch
    Diagnostics <- MCNoDiagnostics
    Replaceable = FALSE
    OwnerListed = FALSE
INVARIANTS RootsRetained MemoryIsRoot
PROPERTIES NamesNeverReused ImplementsOutbox
CONSTRAINT FewAbandoned
SYMMETRY Terminals
