SPECIFICATION MountSpec
CONSTANTS
    Mounters = {p1, p2, p3}
    Devs = {d1, d2}
    RootDev = rootdev
    Dirs = {a, b}
    NINODE = 5
    NMOUNT = 3
    MaxMount = 4
INVARIANTS NoFsCannotHappen
CHECK_DEADLOCK FALSE
