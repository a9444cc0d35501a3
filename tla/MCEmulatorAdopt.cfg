CONSTANTS
    t1 = t1
    t2 = t2
    t3 = t3
    i1 = i1
    i2 = i2
    Threads = {t1, t2, t3}
    First = t1
    NPIDS = 4
    NOFILE = 2
    Items = {i1, i2}
    Std <- OneStd
    SignBit = 16
    MaxCalls = 1
    Seekers = {}
    Nobody = Nobody
SYMMETRY Symmetry
SPECIFICATION EmulatorSpec
CHECK_DEADLOCK FALSE
INVARIANTS ChildrenAreForked
