CONSTANTS
    p1 = p1
    p2 = p2
    p3 = p3
    Procs = {p1, p2, p3}
    Creator = p1
    PIPSIZ = 1
    Failing = FALSE
    MaxReq = 2
    MaxCalls = 2
    MaxSync = 1
    MaxSig = 0
CHECK_DEADLOCK FALSE
SPECIFICATION FairSpec
PROPERTIES
    CallsReturn
    InodeIsFreed
