CONSTANTS
    t1 = t1
    t2 = t2
    t3 = t3
    i1 = i1
    i2 = i2
    Threads = {t1, t2, t3}
    First = t1
    NPIDS = 3
    NOFILE = 2
    Items = {i1, i2}
    Std <- OneStd
    SignBit = 2
    MaxCalls = 1
    Seekers = {i1}
    Nobody = Nobody
SPECIFICATION EmulatorFairSpec
CHECK_DEADLOCK FALSE
PROPERTIES WaitReturns
