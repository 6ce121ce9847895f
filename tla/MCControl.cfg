CONSTANTS
    none = none
    s1 = s1
    s2 = s2
    c1 = c1
    c2 = c2
    r1 = r1
    p1 = p1
    a1 = a1
    a2 = a2
    k1 = k1
    m1 = m1
    m2 = m2
    w1 = w1
    w2 = w2
    d1 = d1
SPECIFICATION Spec
INVARIANTS
    ControlTypeOK
    SummariesAreExact
    RunsAreWhole
    OwnersServe
    MovesLoseNothing
PROPERTIES
    NothingUndone
    WritesAreRouted
CHECK_DEADLOCK FALSE
