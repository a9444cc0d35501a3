CONSTANTS
    p1 = p1
    p2 = p2
    a = a
    Procs = {p1, p2}
    d1 = d1
    d2 = d2
    Dirs = {d1, d2}
    Components = {a}
    NINODE = 2
    NDINODE = 3
    NICINOD = 2
    INOPB = 2
    MaxErrors = 0
    None = None
    Ops <- NoLink
    MaxOps <- ThreeAndTwo
    Callers = {ra, rb}
    Opened = {fo}
    FileOf <- SharedFile
    Direct = 1
    Unit = 2
    Disk = {1, 2, 3, 4, 5, 6}
    Seeks = {3, 13, 29}
    Counts = {2}
    MaxMoves = 3
    MaxTroubles = 1
    Clients = {u, v}
    Server = owner
    NCHANS = 2
    NINDEX = 2
    HighWater = 1
    LowWater = 1
    MaxMx = 3
CHECK_DEADLOCK FALSE
SPECIFICATION FileSystemSpec
SYMMETRY FileSystemSymmetry
INVARIANTS FilesOK AllocatesUnused FileHolds BlocksAccounted ChannelsOK
