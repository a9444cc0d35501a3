CONSTANTS
    b1 = b1
    b2 = b2
    Procs = {p, q}
    Bufs = {b1, b2}
    Pool <- Pool2
    Blocks = {x, y, z}
    Nil = Nil
    FreeHdr = FreeHdr
    Tape = {x, y}
    Faulty = FALSE
    MaxOps = 3
SPECIFICATION Spec
SYMMETRY Symmetry
CHECK_DEADLOCK FALSE
PROPERTIES ImplementsStore TapeInOrder
