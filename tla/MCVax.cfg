CONSTANTS
    t1 = t1
    t2 = t2
    t3 = t3
    i1 = i1
    i2 = i2
    Threads = {t1, t2, t3}
    First = t1
    NPIDS = 3
    NOFILE = 2
    Items = {i1, i2}
    Std <- OneStd
    SignBit = 4
    MaxCalls = 3
    Seekers = {i1}
    Nobody = Nobody
    ByteBits = 5
    Size <- Sizes
    Values <- SmallValues
    Ops = {"ADD", "SUB", "MUL", "DIV", "CMP", "INC", "DEC", "MNEG", "MCOM", "TST", "CVT",
           "CASE", "ASH", "AOB", "SOB"}
    LeafProc = 100
    SavingProc = 200
    Procs = {100, 200}
    Mask <- Masks
    Enables <- EnablesOf
    Top = 92
    Regs = {1, 2}
    Vals = {5, 6}
    MaxSteps = 6
    Junk = Junk
SYMMETRY Symmetry
SPECIFICATION VaxSpec
CHECK_DEADLOCK FALSE
INVARIANTS Computes EmulatorOK
PROPERTIES FramesRight ChannelsStayOpen
