CONSTANTS
    p1 = p1
    p2 = p2
    a = a
    Procs = {p1, p2}
    d1 = d1
    d2 = d2
    Dirs = {d1, d2}
    Components = {a}
    NINODE = 2
    NDINODE = 3
    NICINOD = 2
    INOPB = 2
    MaxErrors = 1
    None = None
    Ops <- LinkByOne
    MaxOps <- TwoAndOne
    Bufs = {b, c}
    Units = {0, 1}
    NoBuf = NoBuf
    Cylinders = {0, 1}
    MaxErrcnt = 1
    MaxRequests = 3
    MaxEvents = 1
    Xfers = {p, q, r}
    NREG = 4
    NBDP = 1
    XferSizes = {1, 2, 3}
    MaxXfers = 3
    Callers = {p, q, r}
    swbuf1 = swbuf1
    swbuf2 = swbuf2
    rhpbuf = rhpbuf
    MaxParts = 2
    MaxRaw = 3
    Tapes <- TwoTapes
    MaxBlkno = 3
    MaxErr = 2
    MaxIO = 4
    MaxSoft = 1
    Users = {p, q}
    Nobody = Nobody
    Typed = {"a", "nl", "intr", "stop"}
    MaxTyped = 3
    MaxCalls = 3
    Modes <- Modes3
    MaxWrite = 3
    NCLIST = 6
    TTYHOG = 3
    TTIME = 1
    TTLOWAT = 1
    CANBSIZ = 3
SPECIFICATION AnswersSpec
CHECK_DEADLOCK FALSE
INVARIANTS
    TableOK TtyOK RegistersAreOwned TransfersInPlace
PROPERTIES
    TransfersKeep AllAnswered
