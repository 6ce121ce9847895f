SPECIFICATION Spec
CONSTANTS
    c1 = c1
    k1 = k1
    k2 = k2
    t1 = t1
    t2 = t2
    w1 = w1
    w2 = w2
    Chunk = {c1}
    Case = {k1}
    Task = {t1, t2}
    Worker = {w1, w2}
    ChunkOf <- OneChunk
    WorkerOf <- TwoWorkers
    NoChunk = NoChunk
    NoWorker = NoWorker
    BatchSize = 1
    MaxAttempts = 2
    MaxRecoveries = 1
    ClaimLease = 1
    ProcessingLease = 1
    AttemptLease = 1
    RedeliveryGrace = 1
    RetryDelays = {1}
    TxLag = 1
    Unlucky = {}
    MaxClock = 3
    MaxToken = 2
    MaxEpoch = 1
PROPERTIES
    ClaimsOnlyRunningRun
CHECK_DEADLOCK FALSE
