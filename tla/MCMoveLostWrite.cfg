CONSTANTS
    a1 = a1
    a2 = a2
    Alias = {a1, a2}
    Physical <- Apart
    Control = a1
    Keys = 1
    Mover = {m1}
    Aborter = p1
    Nobody = Nobody
    OnlineBatches = 1
    FinalKeyLimit = 1
    MaxMoves = 1
    MaxClaims = 2
    MaxAborts = 1
    MaxFaults = 0
SPECIFICATION Spec
INVARIANT NothingLost
CHECK_DEADLOCK FALSE
