CONSTANTS
    none = none
    s1 = s1
    s2 = s2
    c1 = c1
    d1 = d1
    r1 = r1
    r2 = r2
    p1 = p1
    u1 = u1
    w1 = w1
    a1 = a1
    a2 = a2
    b1 = b1
    b2 = b2
    k1 = k1
    q1 = q1
    q2 = q2
    t1 = t1
    t2 = t2
    x1 = x1
    m1 = m1
    m2 = m2
    m3 = m3
    e1 = e1
    e2 = e2
SPECIFICATION Spec
PROPERTIES
    RunsEnd
    UploadsEnd
    MessagesSettle
    CommandsEnd
CHECK_DEADLOCK FALSE
