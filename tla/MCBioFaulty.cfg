CONSTANTS
    b1 = b1
    b2 = b2
    Procs = {p, q}
    Bufs = {b1, b2}
    Pool <- Pool2
    Blocks = {x, y}
    Nil = Nil
    FreeHdr = FreeHdr
    Tape = {}
    Faulty = TRUE
    MaxOps = 3
SPECIFICATION FairSpec
INVARIANTS
    CacheOK
    SleepersAreMarked
PROPERTIES
    CallsReturn
