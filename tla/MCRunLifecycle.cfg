CONSTANTS
    s1 = s1
    a1 = a1
    Run = {r1}
    Shard = {s1}
    Database = {a1, a2}
    Home <- AtFirst
    Chunks = 2
    Window = 1
    Coordinator = {c1, c2}
    Canceller = {k1}
    Nobody = none
    Poison = {}
    MaxDispatch = 2
    MaxFinalize = 1
    MaxFaults = 1
    MaxEpoch = 2
SPECIFICATION Behaviours
SYMMETRY Interchangeable
INVARIANTS
    CompletedIsWhole
    CancelledIsClean
    NoChunkForgotten
PROPERTY
    EndsOnce
CHECK_DEADLOCK FALSE
