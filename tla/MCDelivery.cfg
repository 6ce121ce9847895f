CONSTANTS
    Chunk <- OneChunk
    Task = {t1, t2}
    Coordinator = {k1, k2}
    NoTask = NoTask
    NoCoordinator = NoCoordinator
    NoMessage = NoMessage
    WindowSize = 1
    MaxRecoveries = 1
    MaxRetries = 1
    MayDisconnect = TRUE
    MaxWaits = 1
    MaxFaults = 2
    DropFaults = 2
SYMMETRY Processes
SPECIFICATION Spec
INVARIANTS TypeOK NoLostWork OneSettler BoundedCopies
CHECK_DEADLOCK FALSE
