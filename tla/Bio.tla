-------------------------------- MODULE Bio --------------------------------
(***************************************************************************)
(* The block buffer cache of sys/sys/bio.c: getblk, geteblk, bread,        *)
(* breada, bwrite, bdwrite, bawrite, brelse, bflush, iowait and iodone.    *)
(*                                                                         *)
(* The kernel is not preemptive: the process on the CPU gives it up only   *)
(* in sleep() or when its call returns, so between two sleeps only device  *)
(* interrupts happen (iodone), and only where the code does not hold the   *)
(* processor at spl6.  An action of a process is therefore a stretch of    *)
(* code that runs at spl6 or that no interrupt can tell apart.             *)
(*                                                                         *)
(* A buffer's association b_dev, b_blkno is one value blk[b], with Nil for *)
(* NODEV: the blocks are those of a disk and of a tape.  Its contents are  *)
(* the number of the write that produced them.                             *)
(***************************************************************************)
EXTENDS Naturals, SequencesExt

CONSTANTS
    Procs,      \* processes
    Bufs,       \* the buffer pool
    Pool,       \* the array buf[NBUF], in which order binit frees the buffers
    Blocks,     \* blocks of the devices
    Nil,        \* NODEV, a null pointer, no channel, no process
    FreeHdr,    \* the address of bfreelist, as a sleep channel
    Tape,       \* the blocks of the device whose d_tab has B_TAPE
    Faulty,     \* the devices may report errors (B_ERROR)
    MaxOps      \* bound: number of calls made by all processes

ASSUME BioAssumption ==
    /\ Nil \notin Procs \cup Bufs \cup Blocks
    /\ FreeHdr \notin Bufs \cup {Nil}
    /\ Pool \in Seq(Bufs)
    /\ \A b \in Bufs : Contains(Pool, b)
    /\ IsInjective(Pool)
    /\ Tape \subseteq Blocks
    /\ Faulty \in BOOLEAN
    /\ MaxOps \in Nat

VARIABLES
    flags,      \* flags[b]: b_flags
    blk,        \* blk[b]: the block b is associated with, Nil for NODEV
    data,       \* data[b]: b_un, the contents
    avail,      \* the av_forw list from bfreelist, first victim first
    wanted,     \* bfreelist.b_flags & B_WANTED
    queue,      \* buffers handed to d_strategy and not yet done
    disk,       \* disk[x]: the contents of block x on the device
    cur,        \* the process on the CPU inside the kernel, Nil if none
    pc,         \* where each process is
    wchan,      \* the channel each process sleeps on, Nil if none
    want,       \* blkno of the call in progress, Nil for geteblk
    ra,         \* rablkno of breada
    ret,        \* the routine that getblk, iowait or bwrite returns to
    bp,         \* the buffer the process owns
    cand,       \* the buffer getblk has in hand
    writes,     \* number of modifications so far
    ops         \* number of calls so far

bufVars  == <<flags, blk, data, avail, wanted>>
ioVars   == <<queue, disk>>
procVars == <<cur, pc, wchan, want, ra, ret, bp, cand>>
vars     == <<bufVars, ioVars, procVars, writes, ops>>

Flag == {"BUSY", "DONE", "READ", "ASYNC", "DELWRI", "WANTED", "AGE", "ERROR"}

PC == {"user", "getblk", "match", "got", "ahead", "raend", "iowait", "have",
       "age", "sync"}

Ret == {"none", "bread", "breada", "ra", "getblk", "geteblk", "bwrite",
        "bawrite", "sync"}

----------------------------------------------------------------------------
(* Helpers *)

OnCPU(p) == cur = p \/ (cur = Nil /\ wchan[p] = Nil)

Incore(x) == \E b \in Bufs : blk[b] = x

\* The block getblk is looking for on behalf of p.
Target(p) == IF ret[p] = "ra" THEN ra[p] ELSE want[p]

Wakeup(chans) ==
    [p \in Procs |-> IF wchan[p] \in chans THEN Nil ELSE wchan[p]]

\* sleep(c, pri) by the process on the CPU.
Sleep(p, c) ==
    /\ wchan' = [wchan EXCEPT ![p] = c]
    /\ cur' = Nil

\* p goes on inside the kernel, at pc l.
Goto(p, l) ==
    /\ pc' = [pc EXCEPT ![p] = l]
    /\ cur' = p

\* The call returns to user mode, where another process may be scheduled.
Return(p) ==
    /\ pc' = [pc EXCEPT ![p] = "user"]
    /\ cur' = Nil
    /\ want' = [want EXCEPT ![p] = Nil]
    /\ ra' = [ra EXCEPT ![p] = Nil]
    /\ ret' = [ret EXCEPT ![p] = "none"]
    /\ bp' = [bp EXCEPT ![p] = Nil]
    /\ cand' = [cand EXCEPT ![p] = Nil]

ReleasedBusy(f) == f \ {"WANTED", "ASYNC", "AGE"}

Released(f) == f \ {"WANTED", "BUSY", "ASYNC", "AGE"}

BrelseChansNoFree(b, f) == IF "WANTED" \in f THEN {b} ELSE {}

\* Whom brelse wakes: waiters for the buffer, and for any buffer.
BrelseChans(b, f) ==
    (IF "WANTED" \in f THEN {b} ELSE {}) \cup (IF wanted THEN {FreeHdr} ELSE {})

DropAssoc(b, f) == IF "ERROR" \in f THEN [blk EXCEPT ![b] = Nil] ELSE blk

\* brelse(b), b having the flags f when it is called.
Brelse(b, f) ==
    /\ flags' = [flags EXCEPT ![b] = Released(f)]
    /\ blk' = DropAssoc(b, f)
    /\ avail' = IF "AGE" \in f THEN <<b>> \o avail ELSE Append(avail, b)
    /\ wanted' = FALSE
    /\ wchan' = Wakeup(BrelseChans(b, f))

\* The flags with which bwrite hands the buffer to the device.
WriteFlags(f) == f \ {"READ", "DONE", "ERROR", "DELWRI", "AGE"}

----------------------------------------------------------------------------
(* The calls a process makes *)

Call(p, l, x, y, r) ==
    /\ pc[p] = "user" /\ OnCPU(p) /\ ops < MaxOps
    /\ ops' = ops + 1
    /\ Goto(p, l)
    /\ want' = [want EXCEPT ![p] = x]
    /\ ra' = [ra EXCEPT ![p] = y]
    /\ ret' = [ret EXCEPT ![p] = r]
    /\ UNCHANGED <<bufVars, ioVars, wchan, bp, cand, writes>>

CallBread(p) == \E x \in Blocks : Call(p, "getblk", x, Nil, "bread")

CallGetblk(p) == \E x \in Blocks : Call(p, "getblk", x, Nil, "getblk")

CallGeteblk(p) == Call(p, "getblk", Nil, Nil, "geteblk")

CallBflush(p) == Call(p, "sync", Nil, Nil, "sync")

\* breada first looks whether its block is in core; only if it is not does it
\* get the buffer before turning to the block to read ahead.
CallBreada(p) ==
    \E x \in Blocks : \E y \in Blocks \ {x} :
        IF Incore(x) THEN Call(p, "ahead", x, y, "breada")
                     ELSE Call(p, "getblk", x, y, "breada")

----------------------------------------------------------------------------
(* getblk and geteblk *)

\* The search of the device's chain finds the block (at spl0).
GetblkFound(p) ==
    /\ pc[p] = "getblk" /\ OnCPU(p)
    /\ Target(p) # Nil
    /\ \E b \in Bufs :
        /\ blk[b] = Target(p)
        /\ cand' = [cand EXCEPT ![p] = b]
    /\ Goto(p, "match")
    /\ UNCHANGED <<bufVars, ioVars, wchan, want, ra, ret, bp, writes, ops>>

\* From spl6 on: a busy buffer is waited for, another one taken.
GetblkBusy(p) ==
    /\ pc[p] = "match" /\ OnCPU(p)
    /\ "BUSY" \in flags[cand[p]]
    /\ flags' = [flags EXCEPT ![cand[p]] = @ \cup {"WANTED"}]
    /\ Sleep(p, cand[p])
    /\ pc' = [pc EXCEPT ![p] = "getblk"]
    /\ cand' = [cand EXCEPT ![p] = Nil]
    /\ UNCHANGED <<blk, data, avail, wanted, ioVars, want, ra, ret, bp, writes, ops>>

GetblkTake(p) ==
    /\ pc[p] = "match" /\ OnCPU(p)
    /\ "BUSY" \notin flags[cand[p]]
    /\ \E i \in 1..Len(avail) :
        /\ avail[i] = cand[p]
        /\ avail' = RemoveAt(avail, i)
    /\ flags' = [flags EXCEPT ![cand[p]] = @ \cup {"BUSY"}]
    /\ Goto(p, "got")
    /\ UNCHANGED <<blk, data, wanted, ioVars, wchan, want, ra, ret, bp, cand,
                   writes, ops>>

NotSearched(p) == TRUE

NotCached(p) == Target(p) = Nil \/ ~Incore(Target(p))

\* Nothing is available: wait on the free list.
GetblkNoneFree(p) ==
    /\ pc[p] = "getblk" /\ OnCPU(p)
    /\ NotCached(p)
    /\ avail = <<>>
    /\ wanted' = TRUE
    /\ Sleep(p, FreeHdr)
    /\ UNCHANGED <<flags, blk, data, avail, ioVars, pc, want, ra, ret, bp, cand,
                   writes, ops>>

MustCleanNever(b) == FALSE

MustClean(b) == "DELWRI" \in flags[b]

\* The oldest buffer holds a delayed write: write it out and look again.
GetblkClean(p) ==
    /\ pc[p] = "getblk" /\ OnCPU(p)
    /\ NotCached(p)
    /\ avail # <<>>
    /\ LET b == Head(avail) IN
        /\ MustClean(b)
        /\ flags' = [flags EXCEPT ![b] = WriteFlags(@ \cup {"BUSY", "ASYNC"})]
        /\ queue' = Append(queue, b)
        /\ cand' = [cand EXCEPT ![p] = b]
    /\ avail' = Tail(avail)
    /\ Goto(p, "age")
    /\ UNCHANGED <<blk, data, wanted, disk, wchan, want, ra, ret, bp, writes, ops>>

\* The oldest buffer is given to the block.
GetblkReassign(p) ==
    /\ pc[p] = "getblk" /\ OnCPU(p)
    /\ NotCached(p)
    /\ avail # <<>>
    /\ LET b == Head(avail) IN
        /\ ~MustClean(b)
        /\ flags' = [flags EXCEPT ![b] = {"BUSY"}]
        /\ blk' = [blk EXCEPT ![b] = Target(p)]
        /\ cand' = [cand EXCEPT ![p] = b]
    /\ avail' = Tail(avail)
    /\ Goto(p, "got")
    /\ UNCHANGED <<data, wanted, ioVars, wchan, want, ra, ret, bp, writes, ops>>

\* bwrite of a delayed write, after d_strategy has returned: the mark goes on
\* whatever has become of the buffer in between.
MarkAge(p) ==
    /\ pc[p] = "age" /\ OnCPU(p)
    /\ flags' = [flags EXCEPT ![cand[p]] = @ \cup {"AGE"}]
    /\ UNCHANGED <<blk, data, avail, wanted, ioVars, wchan, writes, ops>>

\* getblk or bflush called bwrite, and goes back to its search.
BwriteLoop(p) ==
    /\ MarkAge(p)
    /\ ret[p] # "bawrite"
    /\ Goto(p, IF ret[p] = "sync" THEN "sync" ELSE "getblk")
    /\ cand' = [cand EXCEPT ![p] = Nil]
    /\ UNCHANGED <<want, ra, ret, bp>>

BawriteEnd(p) == MarkAge(p) /\ ret[p] = "bawrite" /\ Return(p)

----------------------------------------------------------------------------
(* What getblk's caller does with the buffer *)

\* getblk or geteblk itself was called: the buffer is the caller's.
GotBuffer(p) ==
    /\ pc[p] = "got" /\ OnCPU(p)
    /\ ret[p] \in {"getblk", "geteblk"}
    /\ bp' = [bp EXCEPT ![p] = cand[p]]
    /\ cand' = [cand EXCEPT ![p] = Nil]
    /\ Goto(p, "have")
    /\ UNCHANGED <<bufVars, ioVars, wchan, want, ra, ret, writes, ops>>

\* bread, and breada for its own block: start reading unless B_DONE.
GotToRead(p) ==
    /\ pc[p] = "got" /\ OnCPU(p)
    /\ ret[p] \in {"bread", "breada"}
    /\ bp' = [bp EXCEPT ![p] = cand[p]]
    /\ cand' = [cand EXCEPT ![p] = Nil]
    /\ IF "DONE" \in flags[cand[p]]
         THEN /\ Goto(p, IF ret[p] = "bread" THEN "have" ELSE "ahead")
              /\ UNCHANGED <<flags, queue>>
         ELSE /\ flags' = [flags EXCEPT ![cand[p]] = @ \cup {"READ"}]
              /\ queue' = Append(queue, cand[p])
              /\ Goto(p, IF ret[p] = "bread" THEN "iowait" ELSE "ahead")
    /\ UNCHANGED <<blk, data, avail, wanted, disk, wchan, want, ra, ret, writes, ops>>

\* breada, second part: get a buffer for the read-ahead block if it has none.
ReadAhead(p) ==
    /\ pc[p] = "ahead" /\ OnCPU(p)
    /\ IF Incore(ra[p])
         THEN Goto(p, "raend") /\ UNCHANGED ret
         ELSE Goto(p, "getblk") /\ ret' = [ret EXCEPT ![p] = "ra"]
    /\ UNCHANGED <<bufVars, ioVars, wchan, want, ra, bp, cand, writes, ops>>

\* The buffer for the read-ahead block is released, or read asynchronously.
GotAheadDone(p) ==
    /\ pc[p] = "got" /\ OnCPU(p)
    /\ ret[p] = "ra"
    /\ "DONE" \in flags[cand[p]]
    /\ Brelse(cand[p], flags[cand[p]])
    /\ cand' = [cand EXCEPT ![p] = Nil]
    /\ Goto(p, "raend")
    /\ UNCHANGED <<data, ioVars, want, ra, ret, bp, writes, ops>>

GotAheadRead(p) ==
    /\ pc[p] = "got" /\ OnCPU(p)
    /\ ret[p] = "ra"
    /\ "DONE" \notin flags[cand[p]]
    /\ flags' = [flags EXCEPT ![cand[p]] = @ \cup {"READ", "ASYNC"}]
    /\ queue' = Append(queue, cand[p])
    /\ cand' = [cand EXCEPT ![p] = Nil]
    /\ Goto(p, "raend")
    /\ UNCHANGED <<blk, data, avail, wanted, disk, wchan, want, ra, ret, bp,
                   writes, ops>>

\* The end of breada: wait for its own block, or bread it after all.
BreadaEnd(p) ==
    /\ pc[p] = "raend" /\ OnCPU(p)
    /\ Goto(p, IF bp[p] = Nil THEN "getblk" ELSE "iowait")
    /\ ret' = [ret EXCEPT ![p] = "bread"]
    /\ UNCHANGED <<bufVars, ioVars, wchan, want, ra, bp, cand, writes, ops>>

----------------------------------------------------------------------------
(* iowait *)

IowaitSleep(p) ==
    /\ pc[p] = "iowait" /\ OnCPU(p)
    /\ "DONE" \notin flags[bp[p]]
    /\ Sleep(p, bp[p])
    /\ UNCHANGED <<bufVars, ioVars, pc, want, ra, ret, bp, cand, writes, ops>>

IowaitRead(p) ==
    /\ pc[p] = "iowait" /\ OnCPU(p)
    /\ ret[p] = "bread"
    /\ "DONE" \in flags[bp[p]]
    /\ Goto(p, "have")
    /\ UNCHANGED <<bufVars, ioVars, wchan, want, ra, ret, bp, cand, writes, ops>>

\* A synchronous bwrite releases the buffer when the device is done with it.
IowaitWrite(p) ==
    /\ pc[p] = "iowait" /\ OnCPU(p)
    /\ ret[p] = "bwrite"
    /\ "DONE" \in flags[bp[p]]
    /\ Brelse(bp[p], flags[bp[p]])
    /\ Return(p)
    /\ UNCHANGED <<data, ioVars, writes, ops>>

----------------------------------------------------------------------------
(* What a caller that owns a buffer may do with it *)

\* brelse: done with it, nothing changed.
Release(p) ==
    /\ pc[p] = "have" /\ OnCPU(p)
    /\ Brelse(bp[p], flags[bp[p]])
    /\ Return(p)
    /\ UNCHANGED <<data, ioVars, writes, ops>>

\* The caller changes the contents before it writes.  It does not when bread
\* told it of an error, and a buffer of geteblk is not written.
Modify(p) ==
    /\ pc[p] = "have" /\ OnCPU(p)
    /\ "ERROR" \notin flags[bp[p]]
    /\ blk[bp[p]] # Nil
    /\ writes' = writes + 1
    /\ data' = [data EXCEPT ![bp[p]] = writes + 1]

Bwrite(p) ==
    /\ Modify(p)
    /\ flags' = [flags EXCEPT ![bp[p]] = WriteFlags(@)]
    /\ queue' = Append(queue, bp[p])
    /\ ret' = [ret EXCEPT ![p] = "bwrite"]
    /\ Goto(p, "iowait")
    /\ UNCHANGED <<blk, avail, wanted, disk, wchan, want, ra, bp, cand, ops>>

\* bawrite; a buffer that held a delayed write is marked B_AGE afterwards.
Bawrite(p) ==
    /\ Modify(p)
    /\ flags' = [flags EXCEPT ![bp[p]] = WriteFlags(@ \cup {"ASYNC"})]
    /\ queue' = Append(queue, bp[p])
    /\ IF "DELWRI" \in flags[bp[p]]
         THEN /\ Goto(p, "age")
              /\ cand' = [cand EXCEPT ![p] = bp[p]]
              /\ ret' = [ret EXCEPT ![p] = "bawrite"]
              /\ bp' = [bp EXCEPT ![p] = Nil]
              /\ UNCHANGED <<want, ra>>
         ELSE Return(p)
    /\ UNCHANGED <<blk, avail, wanted, disk, wchan, ops>>

CleanRelease(p) ==
    /\ Modify(p)
    /\ Brelse(bp[p], flags[bp[p]] \cup {"DONE"})
    /\ Return(p)
    /\ UNCHANGED <<ioVars, ops>>

\* The release of bdwrite: what is in the buffer is valid, and not yet written.
DelayedRelease(p) ==
    /\ Modify(p)
    /\ Brelse(bp[p], flags[bp[p]] \cup {"DELWRI", "DONE"})
    /\ Return(p)
    /\ UNCHANGED <<ioVars, ops>>

BdwriteOnTape(p) == DelayedRelease(p)

Bdwrite(p) ==
    /\ pc[p] = "have"
    /\ IF blk[bp[p]] \in Tape THEN Bawrite(p) ELSE DelayedRelease(p)

----------------------------------------------------------------------------
(* bflush: write out every delayed write on the free list, one at a time *)

FirstDelayed(i) ==
    /\ i \in 1..Len(avail)
    /\ "DELWRI" \in flags[avail[i]]
    /\ \A j \in 1..(i - 1) : "DELWRI" \notin flags[avail[j]]

BflushWrite(p) ==
    /\ pc[p] = "sync" /\ OnCPU(p)
    /\ \E i \in 1..Len(avail) :
        /\ FirstDelayed(i)
        /\ LET b == avail[i] IN
            /\ flags' = [flags EXCEPT ![b] = WriteFlags(@ \cup {"BUSY", "ASYNC"})]
            /\ queue' = Append(queue, b)
            /\ cand' = [cand EXCEPT ![p] = b]
        /\ avail' = RemoveAt(avail, i)
    /\ Goto(p, "age")
    /\ UNCHANGED <<blk, data, wanted, disk, wchan, want, ra, ret, bp, writes, ops>>

BflushEnd(p) ==
    /\ pc[p] = "sync" /\ OnCPU(p)
    /\ \A i \in 1..Len(avail) : "DELWRI" \notin flags[avail[i]]
    /\ Return(p)
    /\ UNCHANGED <<bufVars, ioVars, wchan, writes, ops>>

----------------------------------------------------------------------------
(* A device finishes a transfer, and iodone runs in its interrupt.  A disk  *)
(* driver sorts its transfers.                                              *)

Transfer(b, failed) ==
    /\ disk' = IF "READ" \notin flags[b] /\ ~failed
                 THEN [disk EXCEPT ![blk[b]] = data[b]] ELSE disk
    /\ data' = IF "READ" \in flags[b] /\ ~failed
                 THEN [data EXCEPT ![b] = disk[blk[b]]] ELSE data

IodoneFlags(b, failed) ==
    flags[b] \cup {"DONE"} \cup (IF failed THEN {"ERROR"} ELSE {})

IodoneReleases(b, f) == Brelse(b, f)

Iodone(b, f) ==
    IF "ASYNC" \in f
      THEN Brelse(b, f)
      ELSE /\ flags' = [flags EXCEPT ![b] = f \ {"WANTED"}]
           /\ wchan' = Wakeup({b})
           /\ UNCHANGED <<blk, avail, wanted>>

\* A tape does its transfers in the order of its queue.
InTurn(i) ==
    blk[queue[i]] \in Tape => \A j \in 1..(i - 1) : blk[queue[j]] \notin Tape

Interrupt ==
    \E i \in 1..Len(queue), failed \in BOOLEAN :
        /\ InTurn(i)
        /\ failed => Faulty
        /\ Transfer(queue[i], failed)
        /\ Iodone(queue[i], IodoneFlags(queue[i], failed))
        /\ queue' = RemoveAt(queue, i)
        /\ UNCHANGED <<cur, pc, want, ra, ret, bp, cand, writes, ops>>

----------------------------------------------------------------------------
(* The specification *)

Init ==
    /\ flags = [b \in Bufs |-> {}]
    /\ blk = [b \in Bufs |-> Nil]
    /\ data = [b \in Bufs |-> 0]
    /\ avail = Pool
    /\ wanted = FALSE
    /\ queue = <<>>
    /\ disk = [x \in Blocks |-> 0]
    /\ cur = Nil
    /\ pc = [p \in Procs |-> "user"]
    /\ wchan = [p \in Procs |-> Nil]
    /\ want = [p \in Procs |-> Nil]
    /\ ra = [p \in Procs |-> Nil]
    /\ ret = [p \in Procs |-> "none"]
    /\ bp = [p \in Procs |-> Nil]
    /\ cand = [p \in Procs |-> Nil]
    /\ writes = 0
    /\ ops = 0

NewCall(p) ==
    \/ CallBread(p) \/ CallBreada(p) \/ CallGetblk(p) \/ CallGeteblk(p)
    \/ CallBflush(p)

Step(p) ==
    \/ GetblkFound(p) \/ GetblkBusy(p) \/ GetblkTake(p) \/ GetblkNoneFree(p)
    \/ GetblkClean(p) \/ GetblkReassign(p) \/ BwriteLoop(p)
    \/ BawriteEnd(p)
    \/ GotBuffer(p) \/ GotToRead(p) \/ ReadAhead(p) \/ GotAheadDone(p)
    \/ GotAheadRead(p) \/ BreadaEnd(p)
    \/ IowaitSleep(p) \/ IowaitRead(p) \/ IowaitWrite(p)
    \/ Release(p) \/ Bwrite(p) \/ Bawrite(p) \/ Bdwrite(p)
    \/ BflushWrite(p) \/ BflushEnd(p)

\* All calls have been made and have returned.
Finished == ops = MaxOps /\ (\A p \in Procs : pc[p] = "user") /\ UNCHANGED vars

Next == (\E p \in Procs : NewCall(p) \/ Step(p)) \/ Interrupt \/ Finished

Spec == Init /\ [][Next]_vars

\* A process that can run is run in the end, and a transfer that was started
\* ends.  Calls need not be made.
FairSpec == Spec /\ (\A p \in Procs : WF_vars(Step(p))) /\ WF_vars(Interrupt)
----------------------------------------------------------------------------
(* Properties *)

\* Every variable has its type.
TypeOK ==
    /\ flags \in [Bufs -> SUBSET Flag]
    /\ blk \in [Bufs -> Blocks \cup {Nil}]
    /\ DOMAIN data = Bufs
    /\ avail \in Seq(Bufs)
    /\ wanted \in BOOLEAN
    /\ queue \in Seq(Bufs)
    /\ DOMAIN disk = Blocks
    /\ cur \in Procs \cup {Nil}
    /\ pc \in [Procs -> PC]
    /\ wchan \in [Procs -> Bufs \cup {FreeHdr, Nil}]
    /\ want \in [Procs -> Blocks \cup {Nil}]
    /\ ra \in [Procs -> Blocks \cup {Nil}]
    /\ ret \in [Procs -> Ret]
    /\ bp \in [Procs -> Bufs \cup {Nil}]
    /\ cand \in [Procs -> Bufs \cup {Nil}]
    /\ writes \in Nat
    /\ ops \in Nat

\* buf.h:12-14: a buffer is on the available list if and only if it is not
\* marked BUSY (and it is there once).
AvailIffNotBusy ==
    /\ \A b \in Bufs : Contains(avail, b) <=> "BUSY" \notin flags[b]
    /\ IsInjective(avail)

\* No two buffers are associated with the same block, whatever happened while
\* getblk slept (it starts over from its search).
OneBufferPerBlock ==
    \A a, b \in Bufs : blk[a] = blk[b] /\ blk[a] # Nil => a = b

\* The buffers that p has taken off the available list and not yet let go.
Owned(p) == ({bp[p]} \cup IF pc[p] = "got" THEN {cand[p]} ELSE {}) \ {Nil}

\* A busy buffer belongs to one process or to a transfer nobody waits for,
\* never to two of these at once.
OneOwner ==
    /\ \A p \in Procs : \A b \in Owned(p) :
        /\ "BUSY" \in flags[b] /\ "ASYNC" \notin flags[b]
        /\ \A q \in Procs \ {p} : b \notin Owned(q)
    /\ \A b \in Bufs : "BUSY" \in flags[b] =>
        (\E p \in Procs : b \in Owned(p)) \/ (Contains(queue, b) /\ "ASYNC" \in flags[b])

\* A transfer is in the device's queue once, on a busy buffer that is not done,
\* and no available buffer is marked asynchronous.
QueueOK ==
    /\ IsInjective(queue)
    /\ \A b \in Bufs : Contains(queue, b) =>
        "BUSY" \in flags[b] /\ "DONE" \notin flags[b]
    /\ \A b \in Bufs : "ASYNC" \in flags[b] => "BUSY" \in flags[b]

\* Whatever interrupts did in the middle of getblk, bwrite or bflush, and whatever happened
\* while it slept, the flags of every buffer agree with the two lists it may be on, it has
\* one owner while it is busy, and no block has two.
CacheOK == TypeOK /\ AvailIffNotBusy /\ OneBufferPerBlock /\ OneOwner /\ QueueOK

\* Every sleeper has someone who will wake it: a wait for a buffer is marked on
\* the buffer or the transfer is under way, and a wait for any buffer is marked
\* on the free list, which is empty.
SleeperIsMarked(p) ==
    /\ wchan[p] = FreeHdr => wanted /\ avail = <<>>
    /\ wchan[p] \in Bufs /\ pc[p] = "getblk" =>
          {"BUSY", "WANTED"} \subseteq flags[wchan[p]]
    /\ wchan[p] \in Bufs /\ pc[p] = "iowait" =>
          wchan[p] = bp[p] /\ Contains(queue, bp[p])

SleepersAreMarked == \A p \in Procs : SleeperIsMarked(p)

\* bio.c:150-154: on a tape, writes are done in the order they were requested
\* (the contents are numbered in that order).
TapeInOrder ==
    [][\A x, y \in Tape : disk'[x] # disk[x] => disk'[x] > disk[y]]_vars

\* The cache implements the store of BlockStore.tla, when the device works.
Valid(b) == "DONE" \in flags[b] \/ (Contains(queue, b) /\ "READ" \notin flags[b])

StoreOf(x) ==
    IF \E b \in Bufs : blk[b] = x /\ Valid(b)
      THEN data[CHOOSE b \in Bufs : blk[b] = x /\ Valid(b)]
      ELSE disk[x]

Holds(p, x) == pc[p] = "have" /\ blk[bp[p]] = x

HolderOf(x) ==
    IF \E p \in Procs : Holds(p, x) THEN CHOOSE p \in Procs : Holds(p, x) ELSE Nil

SeenOf(x) ==
    IF HolderOf(x) # Nil /\ ret[HolderOf(x)] # "getblk"
      THEN data[bp[HolderOf(x)]]
      ELSE Nil

Store == INSTANCE BlockStore
    WITH Nobody <- Nil, Values <- 0..MaxOps,
         store <- [x \in Blocks |-> StoreOf(x)],
         holder <- [x \in Blocks |-> HolderOf(x)],
         seen <- [x \in Blocks |-> SeenOf(x)]

ImplementsStore == Store!StoreSpec

\* Every call returns.
CallsReturn == \A p \in Procs : pc[p] # "user" ~> pc[p] = "user"
=============================================================================
