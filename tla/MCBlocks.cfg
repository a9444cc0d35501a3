CONSTANTS
    Allocators = {p1, p2}
    Area = {1, 2, 3}
    NICFREE = 2
    InitFree = {1}
    Residues <- ThreeLists
    MaxFailures = 2
    MaxBegun = 1
    NoBlock = NoBlock
    Names = {q1, q2}
    Chars = {c, d}
    NBLOCK = 3
    CBSIZE = 2
    MaxMove = 2
SPECIFICATION BlocksSpec
CHECK_DEADLOCK FALSE
INVARIANTS FreeListOK BlocksConserved
PROPERTIES ClistsAreQueues Allocates Returns
