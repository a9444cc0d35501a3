-------------------------------- MODULE Rdwr --------------------------------
(***************************************************************************)
(* The contents of a file: rdwr and seek (sys2.c), readi, writei and       *)
(* iomove (rdwri.c), bmap (subr.c).  Processes share a descriptor or have  *)
(* their own.  The inode is locked for a whole call; a step is one turn of *)
(* the loop of readi or writei, which handles one block.                   *)
(***************************************************************************)
EXTENDS Integers, FiniteSets, FiniteSetsExt, SequencesExt, Functions

CONSTANTS
    Callers,      \* processes
    Opened,       \* entries of file[], all open on the file
    FileOf,       \* the one each process has
    Direct,       \* NADDR - 3: blocks whose address is in the inode
    Unit,         \* BSIZE in units of data, and NINDIR
    Disk,         \* the blocks that may be allocated
    Seeks,        \* what seek sets the offset to
    Counts,       \* what read and write are called with
    MaxMoves, MaxTroubles      \* bounds: calls, and blocks that cannot be read

ASSUME RdwrAssumption ==
    /\ Direct \in Nat \ {0} /\ Unit \in Nat \ {0, 1}
    /\ Disk \subseteq Nat \ {0} /\ IsFiniteSet(Disk)
    /\ FileOf \in [Callers -> Opened] /\ Seeks \subseteq Nat /\ Counts \subseteq Nat \ {0}

VARIABLES
    addr,         \* i_addr: the direct blocks, and one, two and three levels of others
    block,        \* what the blocks of the disk hold: data or numbers of blocks
    unused,       \* the free list
    isize,        \* i_size
    holder,       \* the process that has the inode
    offset,       \* f_offset
    call,         \* the call of each process: u_offset, u_count, the offset it began with
    file,         \* history: what the writes that succeeded have left in the file
    moves, troubles

rdwrVars == <<addr, block, unused, isize, holder, offset, call, file, moves, troubles>>

Top == Direct + 2

Levels == 1..3

Empty == [i \in 0..Unit - 1 |-> 0]

Nobody == "none"

Capacity == Direct + Unit + Unit^2 + Unit^3

\* All offsets a call can reach.
Reach == 0..Max(Seeks) + Max(Counts) * MaxMoves

NoCall == [at |-> "user", mode |-> "READ", offset |-> 0, count |-> 0, first |-> 0, data |-> 0]

RdwrInit ==
    /\ addr = [i \in 0..Top |-> 0]
    /\ block = [b \in Disk |-> Empty]
    /\ unused = Disk
    /\ isize = 0 /\ holder = Nobody
    /\ offset = [f \in Opened |-> 0]
    /\ call = [p \in Callers |-> NoCall]
    /\ file = [o \in Reach |-> 0]
    /\ moves = 0 /\ troubles = 0

----------------------------------------------------------------------------
(* bmap.                                                                   *)

DigitsUnshifted(l, n) == [k \in 1..l |-> (n \div Unit^(l - k + 1)) % Unit]

Digits(l, n) == [k \in 1..l |-> (n \div Unit^(l - k)) % Unit]

\* The ways to the blocks of a file, in their order: the entry of the inode, then that of
\* each indirect block.
Under(l) == [i \in 1..Unit^l |-> <<Direct + l - 1>> \o Digits(l, i - 1)]

Paths == [i \in 1..Direct |-> <<i - 1>>] \o Under(1) \o Under(2) \o Under(3)

\* The search: where it is (0 in the inode), how many entries it has passed, and its end.
Searching == [in |-> 0, passed |-> 0, done |-> FALSE, bn |-> 0, err |-> "",
              addr |-> addr, block |-> block, unused |-> unused]

SetInInode(s, i, b) == IF s.in = 0 THEN [s EXCEPT !.addr[i] = b] ELSE s

SetEntry(s, i, b) ==
    IF s.in = 0 THEN [s EXCEPT !.addr[i] = b] ELSE [s EXCEPT !.block[s.in][i] = b]

\* alloc: a block of zeroes.
Alloc(s, i) ==
    LET b == Min(s.unused) IN
    [SetEntry([s EXCEPT !.unused = @ \ {b}, !.block[b] = Empty], i, b)
        EXCEPT !.bn = b, !.in = b]

\* One entry; the indirect block after bad of them cannot be read.
Step(s, i, write, bad) ==
    LET nb == IF s.in = 0 THEN s.addr[i] ELSE s.block[s.in][i]
        Ends(bn, err) == [s EXCEPT !.done = TRUE, !.bn = bn, !.err = err]
    IN
    IF s.done THEN s
    ELSE IF s.in # 0 /\ s.passed = bad THEN Ends(0, "EIO")
    ELSE IF nb # 0 THEN [s EXCEPT !.in = nb, !.bn = nb, !.passed = @ + 1]
    ELSE IF ~write THEN Ends(-1, "")
    ELSE IF s.unused = {} THEN Ends(-1, "ENOSPC")
    ELSE [Alloc(s, i) EXCEPT !.passed = @ + 1]

bmap(bn, write, bad) ==
    IF bn >= Capacity THEN [Searching EXCEPT !.err = "EFBIG"]   \* and block 0
    ELSE FoldLeft(LAMBDA s, i : Step(s, i, write, bad), Searching, Paths[bn + 1])

\* The block that holds the n-th of the file, 0 in a hole and above the largest.
BlockAt(n) ==
    LET way == Paths[n + 1]
        at[k \in 1..Len(way)] ==
            IF k = 1 THEN addr[way[1]]
            ELSE IF at[k - 1] = 0 THEN 0 ELSE block[at[k - 1]][way[k]]
    IN IF n < Capacity THEN at[Len(way)] ELSE 0

----------------------------------------------------------------------------

Errs(bad) ==
    IF bad = 0 THEN UNCHANGED troubles
    ELSE troubles < MaxTroubles /\ troubles' = troubles + 1

\* rdwr takes the offset before it waits for the inode.
rdwr(p, mode, n) ==
    /\ call[p].at = "user" /\ moves < MaxMoves
    /\ moves' = moves + 1
    /\ call' = [call EXCEPT ![p] = [at |-> "lock", mode |-> mode, offset |-> offset[FileOf[p]],
                                    count |-> n, first |-> n, data |-> moves']]
    /\ UNCHANGED <<addr, block, unused, isize, holder, offset, file, troubles>>

Locks(p) ==
    /\ call[p].at = "lock" /\ holder = Nobody
    /\ holder' = p
    /\ call' = [call EXCEPT ![p].at = "loop"]
    /\ UNCHANGED <<addr, block, unused, isize, offset, file, moves, troubles>>

\* At most to the end of the block.
InBlock(c) == Min({Unit - (c.offset % Unit), c.count})

Moved(p, n, more) ==
    call' = [call EXCEPT ![p].offset = @ + n, ![p].count = @ - n,
                         ![p].at = IF more /\ call[p].count > n THEN "loop" ELSE "end"]

\* iomove, by its effect on a function of the offsets.
Overwritten(f, o, n, d) == [x \in DOMAIN f |-> IF x \in o..o + n - 1 THEN d ELSE f[x]]

\* What can go wrong in a turn: an indirect block (1..3) or the data cannot be read (4), the
\* user's address is not his (5).
Troubles == 0..5

Meets(bad, s, reads) ==
    CASE bad = 0 -> s.err # "EIO"
      [] bad \in Levels -> s.err = "EIO"
      [] bad = 4 -> reads /\ s.bn > 0
      [] OTHER -> s.err = ""

\* One turn of readi.  What is read is not kept: FileHolds compares it.
readi(p, bad) ==
    LET c == call[p]
        n == Min({InBlock(c), isize - c.offset})
        s == bmap(c.offset \div Unit, FALSE, bad)
    IN
    /\ c.at = "loop" /\ c.mode = "READ"
    /\ Errs(bad)
    /\ \/ n <= 0 /\ bad = 0 /\ Moved(p, 0, FALSE)
       \/ n > 0 /\ Meets(bad, s, TRUE)
          /\ IF s.err # "" \/ bad = 5 THEN Moved(p, 0, FALSE) ELSE Moved(p, n, bad = 0)
    /\ UNCHANGED <<addr, block, unused, isize, holder, offset, file, moves>>

\* One turn of writei: it stops when bmap finds no block, and after any error; but then the
\* offset may have moved and the size grown all the same.
writei(p, bad) ==
    LET c == call[p]
        n == IF bad = 5 THEN 0 ELSE InBlock(c)
        o == c.offset % Unit
        s == bmap(c.offset \div Unit, TRUE, bad)
        failed == s.err # "" \/ bad # 0
    IN
    /\ c.at = "loop" /\ c.mode = "WRITE"
    /\ Meets(bad, s, InBlock(c) < Unit)
    /\ Errs(bad)
    /\ addr' = s.addr /\ unused' = s.unused
    /\ block' = IF failed THEN s.block
                ELSE [s.block EXCEPT ![s.bn] = Overwritten(@, o, n, c.data)]
    /\ file' = IF failed THEN file ELSE Overwritten(file, c.offset, n, c.data)
    /\ IF s.bn = -1 THEN Moved(p, 0, FALSE) /\ UNCHANGED isize
       ELSE Moved(p, n, ~failed) /\ isize' = Max({isize, c.offset + n})
    /\ UNCHANGED <<holder, offset, moves>>

\* The inode is unlocked, and the offset goes on from where it is now.
Advanced(f, c) == [offset EXCEPT ![f] = @ + c.first - c.count]

Prele(p) ==
    LET c == call[p] f == FileOf[p] IN
    /\ c.at = "end"
    /\ holder' = Nobody
    /\ offset' = Advanced(f, c)
    /\ call' = [call EXCEPT ![p] = NoCall]
    /\ UNCHANGED <<addr, block, unused, isize, file, moves, troubles>>

seek(p, o) ==
    /\ call[p].at = "user" /\ moves < MaxMoves
    /\ offset' = [offset EXCEPT ![FileOf[p]] = o]
    /\ UNCHANGED <<addr, block, unused, isize, holder, call, file, moves, troubles>>

RdwrNext ==
    \E p \in Callers :
        \/ \E n \in Counts, mode \in {"READ", "WRITE"} : rdwr(p, mode, n)
        \/ \E o \in Seeks : seek(p, o)
        \/ Locks(p) \/ Prele(p)
        \/ \E bad \in Troubles : readi(p, bad) \/ writei(p, bad)

RdwrSpec == RdwrInit /\ [][RdwrNext]_rdwrVars

----------------------------------------------------------------------------

\* The offsets in each block.
OffsetsOf == [n \in {o \div Unit : o \in Reach} |-> {o \in Reach : o \div Unit = n}]

\* The file holds what was written where it was written, at any depth of indirection and
\* whatever failed in between, and zeroes elsewhere; and what was written can be read.
FileHolds ==
    \A n \in DOMAIN OffsetsOf :
        LET b == BlockAt(n) IN
        \A o \in OffsetsOf[n] :
            /\ file[o] = IF b = 0 THEN 0 ELSE block[b][o % Unit]
            /\ file[o] # 0 => o < isize

\* The blocks that those of a set name, and those under an entry of the inode.
Below(S) == UNION {Range(block[b]) : b \in S} \ {0}

Root(l) == {addr[Direct + l - 1]} \ {0}

Indirect ==
    LET Inner == Root(3) \cup Below(Root(3)) IN
    Root(1) \cup Root(2) \cup Below(Root(2)) \cup Inner \cup Below(Inner)

InFile == (Range(addr) \ {0}) \cup Below(Indirect)

\* Every block is free or in the file, and there in one place: a write that runs out of
\* space or cannot read an indirect block leaves what it had allocated where it belongs.
BlocksAccounted ==
    /\ InFile = Disk \ unused
    /\ Cardinality(InFile) = Cardinality({i \in 0..Top : addr[i] # 0})
         + Cardinality({e \in Indirect \X (0..Unit - 1) : block[e[1]][e[2]] # 0})
=============================================================================
