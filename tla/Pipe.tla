-------------------------------- MODULE Pipe --------------------------------
(***************************************************************************)
(* One pipe: readp, writep, plock and prele of sys/sys/pipe.c, the close   *)
(* of its ends by closef (fio.c) and iput (iget.c), and update (alloc.c),  *)
(* which visits every inode that is not locked.                            *)
(*                                                                         *)
(* The inode has three sleep channels: ip (locked), ip+1 (a writer waits   *)
(* for room), ip+2 (a reader waits for bytes).  A process runs until it    *)
(* sleeps, so an action is the code between two sleeps; readi, writei,     *)
(* itrunc and iupdat sleep for the disk with the inode locked.             *)
(*                                                                         *)
(* A byte is a pair of its writer and what was left of the write; Stale is *)
(* what a place of the file holds that the disk has failed to take.        *)
(***************************************************************************)
EXTENDS Integers, SequencesExt

CONSTANTS
    Procs,      \* processes
    Creator,    \* the process that called pipe()
    PIPSIZ,     \* a writer waits when this many bytes are in the pipe
    Failing,    \* the disk may fail: readi, writei, and the write of a buffer
    MaxReq,     \* bound: the largest count of a read or a write
    MaxCalls,   \* bound: the number of reads and writes
    MaxSync,    \* bound: the number of updates
    MaxSig      \* bound: the number of signals

ASSUME PipeAssumption ==
    /\ Creator \in Procs
    /\ PIPSIZ \in Nat \ {0}
    /\ Failing \in BOOLEAN
    /\ MaxReq \in Nat /\ MaxCalls \in Nat /\ MaxSync \in Nat /\ MaxSig \in Nat

VARIABLES
    file,       \* the contents of the inode; i_size is its length
    offset,     \* f_offset of the file structure for reading
    mode,       \* the bits IREAD and IWRITE of i_mode
    ilock,      \* i_flag & ILOCK
    iwant,      \* i_flag & IWANT
    count,      \* i_count
    inuse,      \* inuse[e]: the file structure of the end e has f_count > 0
    fds,        \* fds[e]: the processes with a descriptor for the end e
    syncing,    \* update() is writing this inode
    pc,         \* where each process is
    wchan,      \* the channel each process sleeps on, "none" if none
    n,          \* n[p]: u_count of a read, what a write has left
    result,     \* what the process's last read or write returned
    err,        \* u_error has been set in this write
    calls, syncs, sigs      \* counters for the bounds

inodeVars == <<file, offset, mode, ilock, iwant, count>>
fileVars  == <<inuse, fds>>
procVars  == <<pc, wchan, n, result, err>>
counters  == <<calls, syncs, sigs>>
vars == <<inodeVars, fileVars, syncing, procVars, counters>>

End == {"r", "w"}

\* No byte of a write has the number 0.
Stale == <<Creator, 0>>

PC == {"unborn", "user", "readp", "readi", "writep", "writei", "closer",
       "closew", "iput"}

Size == Len(file)

Awake(p) == wchan[p] = "none"

At(p, l) == pc[p] = l /\ Awake(p)

Wakeup(chans) ==
    [p \in Procs |-> IF wchan[p] \in chans THEN "none" ELSE wchan[p]]

Sleep(p, c) == wchan' = [wchan EXCEPT ![p] = c]

\* prele(ip): the channels it wakes.
IwantNoWakeup == {}

IwantChans == IF iwant THEN {"ip"} ELSE {}

Prele(chans) ==
    /\ ilock' = FALSE
    /\ iwant' = FALSE
    /\ wchan' = Wakeup(chans \cup IwantChans)

\* What a call gives its caller: a word, and the bytes that were read.
Outcome(w, b) == [what |-> w, bytes |-> b]

Return(p, r) ==
    /\ pc' = [pc EXCEPT ![p] = "user"]
    /\ n' = [n EXCEPT ![p] = 0]
    /\ result' = [result EXCEPT ![p] = r]
    /\ err' = [err EXCEPT ![p] = FALSE]

\* plock(ip) finds the inode locked.
PlockSleep(p) ==
    /\ pc[p] \in {"readp", "writep", "closer", "closew"} /\ Awake(p)
    /\ ilock
    /\ iwant' = TRUE
    /\ Sleep(p, "ip")
    /\ UNCHANGED <<file, offset, mode, ilock, count, fileVars, syncing, pc, n,
                   result, err, counters>>

Call(p, e, l) ==
    /\ At(p, "user") /\ p \in fds[e] /\ calls < MaxCalls
    /\ pc' = [pc EXCEPT ![p] = l]
    /\ \E c \in 0..MaxReq : n' = [n EXCEPT ![p] = c]
    /\ result' = [result EXCEPT ![p] = Outcome("none", <<>>)]
    /\ calls' = calls + 1
    /\ UNCHANGED <<inodeVars, fileVars, syncing, wchan, err, syncs, sigs>>

----------------------------------------------------------------------------
(* readp *)

Read(p) == Call(p, "r", "readp")

\* An empty pipe: end of file, or wait for a writer.
ReadpEof(p) ==
    /\ At(p, "readp") /\ ~ilock
    /\ Size = 0 /\ count < 2
    /\ Return(p, Outcome("eof", <<>>))
    /\ UNCHANGED <<inodeVars, fileVars, syncing, wchan, counters>>

ReadpWait(p) ==
    /\ At(p, "readp") /\ ~ilock
    /\ Size = 0 /\ count >= 2
    /\ mode' = mode \cup {"IREAD"}
    /\ Sleep(p, "ip2")
    /\ UNCHANGED <<file, offset, ilock, iwant, count, fileVars, syncing, pc, n,
                   result, err, counters>>

ReadpStart(p) ==
    /\ At(p, "readp") /\ ~ilock
    /\ Size > 0
    /\ ilock' = TRUE
    /\ pc' = [pc EXCEPT ![p] = "readi"]
    /\ UNCHANGED <<file, offset, mode, iwant, count, fileVars, syncing, wchan, n,
                   result, err, counters>>

\* Readers that have caught up empty the file and let the writers go on.
CaughtUpNoWakeup(o) == {}

CaughtUpChans(o) == IF o = Size /\ "IWRITE" \in mode THEN {"ip1"} ELSE {}

\* readi moves all it can, or the disk fails: then the call does, although the
\* offset has gone past what was moved, the block that failed included.
ReadpEnd(p) ==
    /\ At(p, "readi")
    /\ LET most == Min({n[p], Size - offset}) IN
       \E k \in 0..most, ok \in BOOLEAN :
        /\ IF ok THEN k = most ELSE Failing /\ most > 0
        /\ LET o == offset + k IN
            /\ offset' = IF o = Size THEN 0 ELSE o
            /\ file' = IF o = Size THEN <<>> ELSE file
            /\ mode' = IF o = Size THEN mode \ {"IWRITE"} ELSE mode
            /\ Prele(CaughtUpChans(o))
            /\ Return(p, IF ok THEN Outcome("data", SubSeq(file, offset + 1, o))
                                ELSE Outcome("error", <<>>))
    /\ UNCHANGED <<count, fileVars, syncing, counters>>

----------------------------------------------------------------------------
(* writep *)

Write(p) == Call(p, "w", "writep")

WritepDone(p) ==
    /\ At(p, "writep") /\ ~ilock
    /\ n[p] = 0
    /\ Return(p, Outcome(IF err[p] THEN "error" ELSE "ok", <<>>))
    /\ UNCHANGED <<inodeVars, fileVars, syncing, wchan, counters>>

\* Nobody can read: EPIPE and SIGPIPE.
WritepBroken(p) ==
    /\ At(p, "writep") /\ ~ilock
    /\ n[p] > 0 /\ count < 2
    /\ Return(p, Outcome("EPIPE", <<>>))
    /\ UNCHANGED <<inodeVars, fileVars, syncing, wchan, counters>>

FullOffByOne == Size > PIPSIZ

Full == Size >= PIPSIZ

WritepFull(p) ==
    /\ At(p, "writep") /\ ~ilock
    /\ n[p] > 0 /\ count >= 2 /\ Full
    /\ mode' = mode \cup {"IWRITE"}
    /\ Sleep(p, "ip1")
    /\ UNCHANGED <<file, offset, ilock, iwant, count, fileVars, syncing, pc, n,
                   result, err, counters>>

WritepStart(p) ==
    /\ At(p, "writep") /\ ~ilock
    /\ n[p] > 0 /\ count >= 2 /\ ~Full
    /\ ilock' = TRUE
    /\ pc' = [pc EXCEPT ![p] = "writei"]
    /\ UNCHANGED <<file, offset, mode, iwant, count, fileVars, syncing, wchan, n,
                   result, err, counters>>

ChunkOne(p) == 1

ChunkFull(p) == PIPSIZ

\* What writei is given at once.
ChunkSize(p) == Min({n[p], PIPSIZ})

\* A part of a write, of which the file takes the first k; only the first good
\* of them reach a buffer that will be written.
Bytes(p, good, k) == [i \in 1..k |-> IF i <= good THEN <<p, n[p] - i + 1>> ELSE Stale]

\* All of the part goes in; or the disk fails.  A block that cannot be read is
\* filled all the same and given up, and i_size grows over it.  u_error stays set:
\* each later part has its first block filled and given up in the same way.
WritepEnd(p) ==
    /\ At(p, "writei")
    /\ \E k \in 0..ChunkSize(p) : \E good \in 0..k :
        /\ IF good = ChunkSize(p) THEN ~err[p] ELSE Failing /\ (err[p] => good = 0)
        /\ file' = file \o Bytes(p, good, k)
        /\ err' = [err EXCEPT ![p] = @ \/ good < ChunkSize(p)]
    /\ n' = [n EXCEPT ![p] = @ - ChunkSize(p)]
    /\ mode' = mode \ {"IREAD"}
    /\ Prele(IF "IREAD" \in mode THEN {"ip2"} ELSE {})
    /\ pc' = [pc EXCEPT ![p] = "writep"]
    /\ UNCHANGED <<offset, count, fileVars, syncing, result, counters>>

\* A delayed write of a block of the file fails, and brelse forgets the buffer.
\* Only what is yet to be read matters.
DelwriFails ==
    /\ Failing
    /\ \E i \in offset + 1..Size : file' = [file EXCEPT ![i] = Stale]
    /\ UNCHANGED <<offset, mode, ilock, iwant, count, fileVars, syncing, procVars,
                   counters>>

\* A signal ends a wait for bytes or for room; the rest of the call is not done.
\* An error of an earlier part is what the caller is told.
Signal(p) ==
    /\ wchan[p] \in {"ip1", "ip2"} /\ sigs < MaxSig
    /\ Return(p, Outcome(IF err[p] THEN "error" ELSE "EINTR", <<>>))
    /\ wchan' = [wchan EXCEPT ![p] = "none"]
    /\ sigs' = sigs + 1
    /\ UNCHANGED <<inodeVars, fileVars, syncing, calls, syncs>>

----------------------------------------------------------------------------
(* fork, close, update *)

\* newproc: the child has its parent's descriptors.
Fork(p, q) ==
    /\ At(p, "user") /\ pc[q] = "unborn"
    /\ fds' = [e \in End |-> IF p \in fds[e] THEN fds[e] \cup {q} ELSE fds[e]]
    /\ pc' = [pc EXCEPT ![q] = "user"]
    /\ UNCHANGED <<inodeVars, inuse, syncing, wchan, n, result, err, counters>>

\* close: closef has more to do for the last descriptor of an end.
Close(p) ==
    /\ At(p, "user")
    /\ \E e \in End :
        /\ p \in fds[e]
        /\ fds' = [fds EXCEPT ![e] = @ \ {p}]
        /\ pc' = IF fds[e] = {p}
                   THEN [pc EXCEPT ![p] = IF e = "r" THEN "closer" ELSE "closew"]
                   ELSE pc
    /\ UNCHANGED <<inodeVars, inuse, syncing, wchan, n, result, err, counters>>

ClosefNoWakeup == {}

ClosefChans == {"ip1", "ip2"}

\* closef, with the lock: the other side is woken, and iput takes i_count down.
Closef(p, e) ==
    /\ At(p, IF e = "r" THEN "closer" ELSE "closew") /\ ~ilock
    /\ inuse' = [inuse EXCEPT ![e] = FALSE]
    /\ mode' = {}
    /\ wchan' = Wakeup(ClosefChans)
    /\ IF count = 1
         THEN /\ ilock' = TRUE
              /\ pc' = [pc EXCEPT ![p] = "iput"]
              /\ UNCHANGED count
         ELSE /\ count' = count - 1
              /\ pc' = [pc EXCEPT ![p] = "user"]
              /\ UNCHANGED ilock
    /\ UNCHANGED <<file, offset, iwant, fds, syncing, n, result, err, counters>>

\* iput, last reference: itrunc, ifree and iupdat are done, the inode is free.
IputEnd(p) ==
    /\ At(p, "iput")
    /\ file' = <<>>
    /\ count' = 0
    /\ Prele({})
    /\ pc' = [pc EXCEPT ![p] = "user"]
    /\ UNCHANGED <<offset, mode, fileVars, syncing, n, result, err, counters>>

\* update looks only at inodes in use that nobody has locked.
UpdateFindsLocked == count > 0

UpdateFinds == ~ilock /\ count > 0

UpdateStart ==
    /\ ~syncing /\ UpdateFinds /\ syncs < MaxSync
    /\ syncing' = TRUE
    /\ ilock' = TRUE
    /\ count' = count + 1
    /\ syncs' = syncs + 1
    /\ UNCHANGED <<file, offset, mode, iwant, fileVars, procVars, calls, sigs>>

UpdateEnd ==
    /\ syncing
    /\ syncing' = FALSE
    /\ count' = count - 1
    /\ Prele({})
    /\ UNCHANGED <<file, offset, mode, fileVars, pc, n, result, err, counters>>

----------------------------------------------------------------------------
(* The specification *)

\* pipe() has made the inode and the two file structures.
Init ==
    /\ file = <<>> /\ offset = 0
    /\ mode = {} /\ ilock = FALSE /\ iwant = FALSE /\ count = 2
    /\ inuse = [e \in End |-> TRUE]
    /\ fds = [e \in End |-> {Creator}]
    /\ syncing = FALSE
    /\ pc = [p \in Procs |-> IF p = Creator THEN "user" ELSE "unborn"]
    /\ wchan = [p \in Procs |-> "none"]
    /\ n = [p \in Procs |-> 0]
    /\ result = [p \in Procs |-> Outcome("none", <<>>)]
    /\ err = [p \in Procs |-> FALSE]
    /\ calls = 0 /\ syncs = 0 /\ sigs = 0

Continue(p) ==
    \/ PlockSleep(p)
    \/ ReadpEof(p) \/ ReadpWait(p) \/ ReadpStart(p) \/ ReadpEnd(p)
    \/ WritepDone(p) \/ WritepBroken(p) \/ WritepFull(p) \/ WritepStart(p)
    \/ WritepEnd(p)
    \/ Closef(p, "r") \/ Closef(p, "w") \/ IputEnd(p)

Next ==
    \/ \E p \in Procs :
        \/ Read(p) \/ Write(p) \/ Close(p) \/ Signal(p) \/ Continue(p)
        \/ \E q \in Procs : Fork(p, q)
    \/ UpdateStart \/ UpdateEnd \/ DelwriFails

Spec == Init /\ [][Next]_vars

\* A process that can run is run; every process exits in the end, which closes
\* its descriptors; the disk finishes what update started.
FairSpec ==
    /\ Spec
    /\ \A p \in Procs : WF_vars(Continue(p)) /\ WF_vars(Close(p))
    /\ WF_vars(UpdateEnd)
----------------------------------------------------------------------------
(* Properties *)

\* Every variable has its type.
TypeOK ==
    /\ file \in Seq(Procs \X Nat) /\ offset \in Nat
    /\ mode \in SUBSET {"IREAD", "IWRITE"}
    /\ ilock \in BOOLEAN /\ iwant \in BOOLEAN /\ syncing \in BOOLEAN
    /\ count \in Nat
    /\ inuse \in [End -> BOOLEAN]
    /\ fds \in [End -> SUBSET Procs]
    /\ pc \in [Procs -> PC]
    /\ wchan \in [Procs -> {"none", "ip", "ip1", "ip2"}]
    /\ n \in [Procs -> Nat]
    /\ DOMAIN result = Procs
    /\ err \in [Procs -> BOOLEAN]
    /\ calls \in Nat /\ syncs \in Nat /\ sigs \in Nat

Working(p) == pc[p] \in {"readi", "writei", "iput"}

\* ILOCK excludes: while it is set exactly one process, or update, works on the
\* inode, and nobody does while it is clear.
LockExcludes ==
    /\ ilock <=> syncing \/ \E p \in Procs : Working(p)
    /\ \A p \in Procs : Working(p) => ~syncing /\ \A q \in Procs : Working(q) => p = q

One(b) == IF b THEN 1 ELSE 0

\* Readers and writers judge by i_count whether the other side is there, so
\* when they may look, it must count the open ends and nothing else.
CountTellsTheEnds == ~ilock => count = One(inuse["r"]) + One(inuse["w"])

\* A process is asleep only for a reason that still holds, and where the one
\* that ends the reason will see that it must wake it: no wakeup is lost.
SleepsForAReason ==
    \A p \in Procs :
        /\ wchan[p] = "ip" => ilock /\ iwant
        /\ wchan[p] = "ip1" =>
              "IWRITE" \in mode /\ Size >= PIPSIZ /\ inuse["r"]
        /\ wchan[p] = "ip2" => "IREAD" \in mode /\ Size = 0 /\ inuse["w"]

\* pipe.c:10-12 gives PIPSIZ as "the max size of the file"; but a write that found room
\* goes in whole (pipe.c:168-169).
FileWithinTwoWrites == Size < 2 * PIPSIZ /\ (inuse["r"] => offset <= Size)

\* pipe.c:84, 144, 167-187: whoever sleeps in the middle of a call, the inode tells the truth
\* of the pipe: its lock, its count of the ends and its size.
PipeOK == TypeOK /\ LockExcludes /\ CountTellsTheEnds /\ FileWithinTwoWrites

\* The pipe implements the channel: bytes come out in the order they went in,
\* each part of a write in one piece, and end of file and EPIPE tell the truth.
\* A disk that fails can make a byte stale, cut a part of a write whose caller
\* then hears of an error, and lose what a read that fails has gone past.
Chan == INSTANCE Channel
    WITH Part <- PIPSIZ,
         buf <- SubSeq(file, offset + 1, Size),
         open <- inuse,
         todo <- [p \in Procs |-> IF pc[p] \in {"writep", "writei"} THEN n[p] ELSE 0],
         last <- result,
         failed <- err

ImplementsChannel == Chan!ChannelSpec

\* A call ends once the processes at the other end have closed it.  What can
\* keep it waiting is a process that sleeps on the pipe and holds that end.
OtherEnd(p) == IF pc[p] = "readp" THEN "w" ELSE "r"

SelfMade(p) == \E q \in fds[OtherEnd(p)] : wchan[q] \in {"ip1", "ip2"}

CallsReturn ==
    \A p \in Procs : pc[p] # "user" /\ pc[p] # "unborn" ~> pc[p] = "user" \/ SelfMade(p)

\* Once every descriptor is closed the inode is freed.
InodeIsFreed == (fds["r"] = {} /\ fds["w"] = {}) ~> count = 0
=============================================================================
