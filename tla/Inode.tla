------------------------------- MODULE Inode -------------------------------
(***************************************************************************)
(* The inode table and the list of free inodes of one file system: iget,   *)
(* iput, iupdat of sys/sys/iget.c; ialloc, ifree of alloc.c; prele of      *)
(* pipe.c.                                                                 *)
(*                                                                         *)
(* The kernel is not preempted: a process that has begun an action goes on *)
(* until it sleeps (cur).  The procedures are called by those of the       *)
(* module that extends this one: Call pushes where the caller goes on.     *)
(* The disk is seen through the buffer cache, so that a read or a write of *)
(* a disk inode is one step, after which the caller wakes up.              *)
(***************************************************************************)
EXTENDS Integers, SequencesExt, FiniteSetsExt, Functions

CONSTANTS
    Procs,      \* processes
    NINODE,     \* slots of the inode table
    NDINODE,    \* inodes of the file system
    NICINOD,    \* inodes the superblock remembers
    INOPB,      \* inodes per block
    MaxErrors,  \* bound: the reads that fail
    None        \* no process, no inode

ASSUME InodeAssumption ==
    /\ NINODE \in Nat \ {0} /\ NDINODE \in Nat \ {0}
    /\ NICINOD \in Nat \ {0} /\ INOPB \in Nat \ {0}
    /\ MaxErrors \in Nat
    /\ None \notin Procs /\ None \notin Nat

Slots == 1..NINODE
Inums == 1..NDINODE
Blocks == 1..((NDINODE + INOPB - 1) \div INOPB)

VARIABLES
    number,     \* i_number, 0 if the slot holds no inode
    count,      \* i_count
    flag,       \* i_flag: ILOCK, IWANT, and IUPD for IUPD, IACC and ICHG
    mode,       \* i_mode: "free" (0) or "file"
    nlink,      \* i_nlink
    dmode, dnlink,  \* di_mode, di_nlink
    sinode,     \* s_inode, s_ninode
    ilock,      \* s_ilock
    cur,        \* the process on the CPU, None when all sleep
    pc,         \* where each process is
    cont,       \* cont[p]: where its callers go on
    ino,        \* ino[p]: the argument of iget
    ip,         \* ip[p]: the argument of iput, the result of iget and ialloc
    adr,        \* adr[p]: the block ialloc reads
    held,       \* held[p]: the inodes p has locked and not released
    errors      \* counter for the bound

table == <<number, count, flag, mode, nlink>>
disk == <<dmode, dnlink>>
super == <<sinode, ilock>>
frame == <<pc, cont, ino, ip, adr>>
inodeVars == <<table, disk, super, cur, frame, held, errors>>

----------------------------------------------------------------------------
(* Processes *)

\* p runs now: at label l, nobody else having the CPU.
At(p, l) == pc[p] = l /\ cur \in {p, None}

GoOn(p) == cur' = p
SleepNow == cur' = None

Goto(p, l) == pc' = [pc EXCEPT ![p] = l] /\ UNCHANGED cont

Call(p, l, ret) ==
    /\ pc' = [pc EXCEPT ![p] = l]
    /\ cont' = [cont EXCEPT ![p] = <<ret>> \o @]

ReturnTo(p) ==
    /\ pc' = [pc EXCEPT ![p] = Head(cont[p])]
    /\ cont' = [cont EXCEPT ![p] = Tail(@)]

\* prele of slot s by p, and what p does next: those who want it try again.
Waiters(s) == {q \in Procs : pc[q] = "iwait" /\ ip[q] = s}

AwakePc(s) ==
    [q \in Procs |->
        IF "IWANT" \in flag[s] /\ q \in Waiters(s) THEN Head(cont[q]) ELSE pc[q]]

AwakeCont(s) ==
    [q \in Procs |->
        IF "IWANT" \in flag[s] /\ q \in Waiters(s) THEN Tail(cont[q]) ELSE cont[q]]

\* prele, and p goes on at l.
PreleGoto(p, s, l) ==
    /\ flag' = [flag EXCEPT ![s] = @ \ {"ILOCK", "IWANT"}]
    /\ pc' = [AwakePc(s) EXCEPT ![p] = l]
    /\ cont' = AwakeCont(s)
    /\ held' = [held EXCEPT ![p] = @ \ {s}]

\* prele, and p returns; the flags that stay are fl.
PreleReturn(p, s, fl) ==
    /\ flag' = [flag EXCEPT ![s] = fl]
    /\ pc' = [AwakePc(s) EXCEPT ![p] = Head(cont[p])]
    /\ cont' = [AwakeCont(s) EXCEPT ![p] = Tail(@)]
    /\ held' = [held EXCEPT ![p] = @ \ {s}]

WaitForSilently(p, s, l) ==
    /\ UNCHANGED flag
    /\ ip' = [ip EXCEPT ![p] = s]
    /\ Call(p, "iwait", l)
    /\ SleepNow

\* p waits for slot s, and then goes on at l.
WaitFor(p, s, l) ==
    /\ flag' = [flag EXCEPT ![s] = @ \cup {"IWANT"}]
    /\ ip' = [ip EXCEPT ![p] = s]
    /\ Call(p, "iwait", l)
    /\ SleepNow

Lock(p, s) == held' = [held EXCEPT ![p] = @ \cup {s}]

----------------------------------------------------------------------------
(* iget *)

Find(i) == {s \in Slots : number[s] = i}

FreeSlots == {s \in Slots : count[s] = 0}

IgetLocked(p) ==
    /\ At(p, "iget")
    /\ \E s \in Find(ino[p]) :
        /\ "ILOCK" \in flag[s]
        /\ WaitFor(p, s, "iget")
    /\ UNCHANGED <<number, count, mode, nlink, disk, super, ino, adr, held, errors>>

IgetFound(p) ==
    /\ At(p, "iget")
    /\ \E s \in Find(ino[p]) :
        /\ "ILOCK" \notin flag[s]
        /\ count' = [count EXCEPT ![s] = @ + 1]
        /\ flag' = [flag EXCEPT ![s] = @ \cup {"ILOCK"}]
        /\ ip' = [ip EXCEPT ![p] = s]
        /\ Lock(p, s)
    /\ ReturnTo(p)
    /\ GoOn(p)
    /\ UNCHANGED <<number, mode, nlink, disk, super, ino, adr, errors>>

\* The flags are set anew; what the slot held before stays until it is read.
IgetMiss(p) ==
    /\ At(p, "iget")
    /\ Find(ino[p]) = {} /\ FreeSlots # {}
    /\ LET s == Min(FreeSlots) IN
        /\ number' = [number EXCEPT ![s] = ino[p]]
        /\ flag' = [flag EXCEPT ![s] = {"ILOCK"}]
        /\ count' = [count EXCEPT ![s] = @ + 1]
        /\ ip' = [ip EXCEPT ![p] = s]
        /\ Lock(p, s)
    /\ Goto(p, "iread")
    /\ SleepNow
    /\ UNCHANGED <<mode, nlink, disk, super, ino, adr, errors>>

\* Inode table overflow.
IgetFull(p) ==
    /\ At(p, "iget")
    /\ Find(ino[p]) = {} /\ FreeSlots = {}
    /\ ip' = [ip EXCEPT ![p] = None]
    /\ ReturnTo(p)
    /\ GoOn(p)
    /\ UNCHANGED <<table, disk, super, ino, adr, held, errors>>

IgetRead(p) ==
    /\ At(p, "iread")
    /\ mode' = [mode EXCEPT ![ip[p]] = dmode[ino[p]]]
    /\ nlink' = [nlink EXCEPT ![ip[p]] = dnlink[ino[p]]]
    /\ ReturnTo(p)
    /\ GoOn(p)
    /\ UNCHANGED <<number, count, flag, disk, super, ino, ip, adr, held, errors>>

Error ==
    /\ errors < MaxErrors
    /\ errors' = errors + 1

IgetErrorLeak(p) ==
    /\ At(p, "iread") /\ Error
    /\ Goto(p, "inull")
    /\ GoOn(p)
    /\ UNCHANGED <<table, disk, super, ino, ip, adr, held>>

IgetError(p) ==
    /\ At(p, "iread") /\ Error
    /\ Call(p, "iput", "inull")
    /\ GoOn(p)
    /\ UNCHANGED <<table, disk, super, ino, ip, adr, held>>

IgetNull(p) ==
    /\ At(p, "inull")
    /\ ip' = [ip EXCEPT ![p] = None]
    /\ ReturnTo(p)
    /\ GoOn(p)
    /\ UNCHANGED <<table, disk, super, ino, adr, held, errors>>

----------------------------------------------------------------------------
(* iput, iupdat, ifree *)

\* There are other references: the lock is released, whosever it is.
Iput(p) ==
    /\ At(p, "iput")
    /\ LET s == ip[p] IN
        /\ count[s] # 1
        /\ count' = [count EXCEPT ![s] = @ - 1]
        /\ PreleReturn(p, s, flag[s] \ {"ILOCK", "IWANT"})
    /\ GoOn(p)
    /\ UNCHANGED <<number, mode, nlink, disk, super, ino, ip, adr, errors>>

\* The last reference: the slot is given up.
Forget(p, s) ==
    /\ number' = [number EXCEPT ![s] = 0]
    /\ count' = [count EXCEPT ![s] = @ - 1]
    /\ PreleReturn(p, s, {})
    /\ GoOn(p)

IputCleanAlways(p) ==
    /\ At(p, "iput")
    /\ LET s == ip[p] IN
        /\ count[s] = 1 /\ nlink[s] > 0
        /\ Forget(p, s)
    /\ UNCHANGED <<mode, nlink, disk, super, ino, ip, adr, errors>>

IputClean(p) ==
    /\ At(p, "iput")
    /\ LET s == ip[p] IN
        /\ count[s] = 1 /\ nlink[s] > 0 /\ "IUPD" \notin flag[s]
        /\ Forget(p, s)
    /\ UNCHANGED <<mode, nlink, disk, super, ino, ip, adr, errors>>

IputDirty(p) ==
    /\ At(p, "iput")
    /\ LET s == ip[p] IN
        /\ count[s] = 1 /\ nlink[s] > 0 /\ "IUPD" \in flag[s]
        /\ flag' = [flag EXCEPT ![s] = @ \cup {"ILOCK"}]
        /\ Lock(p, s)
    /\ Goto(p, "iupdat")
    /\ SleepNow
    /\ UNCHANGED <<number, count, mode, nlink, disk, super, ino, ip, adr, errors>>

\* No link is left: the blocks of the file are freed first.
IputTrunc(p) ==
    /\ At(p, "iput")
    /\ LET s == ip[p] IN
        /\ count[s] = 1 /\ nlink[s] <= 0 /\ mode[s] = "file"
        /\ flag' = [flag EXCEPT ![s] = @ \cup {"ILOCK"}]
        /\ Lock(p, s)
    /\ Goto(p, "itrunc")
    /\ SleepNow
    /\ UNCHANGED <<number, count, mode, nlink, disk, super, ino, ip, adr, errors>>

Ifree(i) ==
    /\ sinode' = IF ilock # 0 \/ Len(sinode) >= NICINOD THEN sinode
                 ELSE Append(sinode, i)
    /\ UNCHANGED ilock

IputFreeKeeps(p) ==
    /\ At(p, "itrunc")
    /\ LET s == ip[p] IN
        /\ flag' = [flag EXCEPT ![s] = @ \cup {"ILOCK", "IUPD"}]
        /\ Ifree(number[s])
        /\ Lock(p, s)
    /\ Goto(p, "iupdat")
    /\ SleepNow
    /\ UNCHANGED <<number, count, mode, nlink, disk, ino, ip, adr, errors>>

IputFree(p) ==
    /\ \/ At(p, "itrunc")
       \/ At(p, "iput") /\ count[ip[p]] = 1 /\ nlink[ip[p]] <= 0 /\ mode[ip[p]] = "free"
    /\ LET s == ip[p] IN
        /\ mode' = [mode EXCEPT ![s] = "free"]
        /\ flag' = [flag EXCEPT ![s] = @ \cup {"ILOCK", "IUPD"}]
        /\ Ifree(number[s])
        /\ Lock(p, s)
    /\ Goto(p, "iupdat")
    /\ SleepNow
    /\ UNCHANGED <<number, count, nlink, disk, ino, ip, adr, errors>>

\* iupdat has read the block of the inode and writes it back, or could not read it.
Written(s) ==
    /\ dmode' = [dmode EXCEPT ![number[s]] = mode[s]]
    /\ dnlink' = [dnlink EXCEPT ![number[s]] = nlink[s]]
    /\ UNCHANGED errors

IupdatEnd(p) ==
    /\ At(p, "iupdat")
    /\ Written(ip[p]) \/ (Error /\ UNCHANGED disk)
    /\ Forget(p, ip[p])
    /\ UNCHANGED <<mode, nlink, super, ino, ip, adr>>

----------------------------------------------------------------------------
(* ialloc *)

IallocNext(p) ==
    \/ At(p, "ialloc") /\ ilock = 0
    \/ At(p, "iloop")

IallocWait(p) ==
    /\ At(p, "ialloc") /\ cur = p /\ ilock # 0
    /\ SleepNow
    /\ UNCHANGED <<table, disk, super, frame, held, errors>>

\* getfs: an impossible count makes it forget all.
Getfs(p) == IF pc[p] = "ialloc" /\ Len(sinode) > NICINOD THEN <<>> ELSE sinode

IallocPop(p) ==
    /\ IallocNext(p) /\ Getfs(p) # <<>>
    /\ ino' = [ino EXCEPT ![p] = Last(Getfs(p))]
    /\ sinode' = Front(Getfs(p))
    /\ Call(p, "iget", "igot")
    /\ GoOn(p)
    /\ UNCHANGED <<table, disk, ilock, ip, adr, held, errors>>

IallocGotAny(p) ==
    /\ At(p, "igot")
    /\ ReturnTo(p)
    /\ GoOn(p)
    /\ UNCHANGED <<table, disk, super, ino, ip, adr, held, errors>>

\* The list was right, or the inode was allocated after all.
IallocGot(p) ==
    /\ At(p, "igot")
    /\ IF ip[p] = None THEN TRUE ELSE mode[ip[p]] = "free"
    /\ ReturnTo(p)
    /\ GoOn(p)
    /\ UNCHANGED <<table, disk, super, ino, ip, adr, held, errors>>

IallocAgain(p) ==
    /\ At(p, "igot")
    /\ ip[p] # None /\ mode[ip[p]] # "free"
    /\ Call(p, "iput", "iloop")
    /\ GoOn(p)
    /\ UNCHANGED <<table, disk, super, ino, ip, adr, held, errors>>

IallocScan(p) ==
    /\ IallocNext(p) /\ Getfs(p) = <<>>
    /\ sinode' = <<>>
    /\ ilock' = ilock + 1
    /\ adr' = [adr EXCEPT ![p] = 1]
    /\ Goto(p, "iscan")
    /\ SleepNow
    /\ UNCHANGED <<table, disk, ino, ip, held, errors>>

\* The inodes of block b that are free and not in core.
UnusedIn(b) ==
    {i \in Inums : (i - 1) \div INOPB = b - 1 /\ dmode[i] = "free" /\ Find(i) = {}}

\* They are appended until the list is full, which is looked at after each.
Collect(b) ==
    LET all == SetToSortSeq(UnusedIn(b), <)
        room == IF NICINOD > Len(sinode) THEN NICINOD - Len(sinode) ELSE 1
    IN sinode \o SubSeq(all, 1, IF room < Len(all) THEN room ELSE Len(all))

IallocBlock(p) ==
    /\ At(p, "iscan")
    /\ \/ sinode' = Collect(adr[p]) /\ UNCHANGED errors
       \/ Error /\ UNCHANGED sinode
    /\ IF adr[p] + 1 \in Blocks /\ (Len(sinode') < NICINOD \/ errors' # errors)
         THEN /\ adr' = [adr EXCEPT ![p] = @ + 1]
              /\ SleepNow
              /\ UNCHANGED <<ilock, pc, ip, cont>>
         ELSE /\ adr' = [adr EXCEPT ![p] = 1]
              /\ ilock' = 0
              /\ GoOn(p)
              /\ IF sinode' = <<>>
                   THEN ReturnTo(p) /\ ip' = [ip EXCEPT ![p] = None]
                   ELSE Goto(p, "iloop") /\ UNCHANGED ip
    /\ UNCHANGED <<table, disk, ino, held>>

----------------------------------------------------------------------------

InodeStep(p) ==
    \/ IgetLocked(p) \/ IgetFound(p) \/ IgetMiss(p) \/ IgetFull(p) \/ IgetRead(p)
    \/ IgetError(p) \/ IgetNull(p)
    \/ Iput(p) \/ IputClean(p) \/ IputDirty(p) \/ IputTrunc(p) \/ IputFree(p)
    \/ IupdatEnd(p)
    \/ IallocWait(p) \/ IallocPop(p) \/ IallocGot(p) \/ IallocAgain(p)
    \/ IallocScan(p) \/ IallocBlock(p)

\* Every inode is in core at most once.
OneCopy ==
    \A s, t \in Slots : number[s] = number[t] /\ number[s] # 0 => s = t

\* What the file system holds of inode i: in core if it has been read, else on disk.
Unread(s) ==
    \E p \in Procs :
        ip[p] = s /\ (pc[p] = "iread" \/ (cont[p] # <<>> /\ Head(cont[p]) = "inull"))

ReadCopies(i) == {s \in Find(i) : ~Unread(s)}

ModeOf(i) ==
    IF ReadCopies(i) = {} THEN dmode[i] ELSE mode[CHOOSE s \in ReadCopies(i) : TRUE]

NlinkOf(i) ==
    IF ReadCopies(i) = {} THEN dnlink[i] ELSE nlink[CHOOSE s \in ReadCopies(i) : TRUE]
=============================================================================
