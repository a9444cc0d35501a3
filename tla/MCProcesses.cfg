CONSTANTS
    p1 = p1
    p2 = p2
    p3 = p3
    Procs = {p1, p2, p3}
    Sched = Sched
    None = None
    First = p1
    Core = 3
    MaxSize = 2
    MaxOps = 5
    Users = {up, uq}
    Programs = {pf, pg}
    Slots = {1}
    Sticky = {pg}
    Proc0 = sched
    Unlinker = xrele
    Unmounter = xumount
    Nil = nil
    ProcEntries = {1, 2, 3, 4, 5}
    Signals = {2, 9}
    SIGKIL = 9
    MaxPid = 16
    Terminals = {console}
    Groups = {0, 3}
    MaxEvents = 2
    Starts <- Families
    Execs = {e1, e2}
    Images = {sh, ed}
    Vectors <- ExecVectors
    Fault = fault
    chx = chx
    chy = chy
    chz = chz
    BSIZE = 4
    NCARGS = 10
    USRSTACK = 100
    MaxExec = 2
    Tasks = {t1, t2}
    Parent = t1
    NFILE = 3
    NOFILE = 2
    Inodes = {reg, tty}
    Devices = {tty}
    Broken = {"open", "close"}
    MaxFio = 6
    Mounters = {m1, m2, m3}
    Devs = {d1, d2}
    RootDev = rootdev
    Dirs = {a, b}
    NINODE = 5
    NMOUNT = 3
    MaxMount = 4
    Funs = {scan, f}
    Periodic = scan
    Period = 2
    NCALL = 4
    HZ = 2
    AlarmUsers = {p}
    MaxTicks = 5
    MaxTim = 3
    MaxDeltat = 2
    FrameHolders = {ha, hb}
    firstfree = 3
    maxfree = 8
    NICMEM = 2
    MaxHeld = 3
SYMMETRY Symmetry
SPECIFICATION ProcessesSpec
CHECK_DEADLOCK FALSE
INVARIANTS ProcessesOK TextOK NothingSleptThrough FamiliesOK ArgsArrive FilesCounted MountsAreFound ClockOK MemoryAccounted
