CONSTANTS
    p1 = p1
    p2 = p2
    p3 = p3
    Procs = {p1, p2, p3}
    Creator = p1
    PIPSIZ = 2
    Failing = TRUE
    MaxReq = 3
    MaxCalls = 2
    MaxSync = 1
    MaxSig = 1
SYMMETRY Symmetry
CHECK_DEADLOCK FALSE
SPECIFICATION Spec
INVARIANTS PipeOK SleepsForAReason
PROPERTIES ImplementsChannel
