------------------------------- MODULE Files -------------------------------
(***************************************************************************)
(* Directories and the files in them: open, creat, close, link of sys2.c,  *)
(* unlink of sys4.c, with namei, falloc, maknode and wdir, a write through *)
(* a descriptor (rdwr, plock), and update, all on the inodes of Inode.tla. *)
(*                                                                         *)
(* The inode of a directory is held by somebody for ever, so only its lock *)
(* matters (dlock).  Nobody is the super-user.                             *)
(*                                                                         *)
(* The operators named *Always, *Any, *Leak, *Keeps, *Silently, *Unlocked  *)
(* and *Uncounted here and in Inode.tla are deliberate errors against      *)
(* which the properties are tried.                                         *)
(***************************************************************************)
EXTENDS Inode

CONSTANTS
    Dirs,       \* directories
    Components, \* last components of file names
    Ops,        \* Ops[p]: the system calls p makes
    MaxOps      \* bound: MaxOps[p], how many

ASSUME FilesAssumption ==
    /\ MaxOps \in [Procs -> Nat]
    /\ Ops \in [Procs -> SUBSET {"open", "creat", "unlink", "link", "close", "write",
                                 "update"}]

Names == Dirs \X Components

VARIABLES
    dir,        \* dir[n]: the inode n is an entry for, 0 if none
    dlock,      \* who has locked each directory
    op, name, newname,  \* the call of each process and its arguments
    fd,         \* fd[p]: the inode p has open
    keep,       \* keep[p]: the inode link holds unlocked
    updated,    \* the slot update has come to, NINODE + 1 when nobody is in it
    ops         \* counters for the bound

callVars == <<dir, dlock, op, name, newname, fd, keep, updated, ops>>
vars == <<inodeVars, callVars>>

----------------------------------------------------------------------------

Start(p, o, n, m) ==
    /\ At(p, "idle")
    /\ ops[p] < MaxOps[p] /\ o \in Ops[p]
    /\ o \in {"open", "creat"} => fd[p] = None
    /\ o \in {"close", "write"} => fd[p] # None
    /\ o = "update" => updated = NINODE + 1
    /\ op' = [op EXCEPT ![p] = o]
    /\ name' =
        [name EXCEPT ![p] = IF o \in {"close", "write", "update"} THEN None ELSE n]
    /\ newname' = [newname EXCEPT ![p] = IF o = "link" THEN m ELSE None]
    /\ updated' = IF o = "update" THEN 0 ELSE updated
    /\ ops' = [ops EXCEPT ![p] = @ + 1]
    /\ Goto(p, CASE o \in {"close", "write"} -> "plock"
                 [] o = "update" -> "upd"
                 [] OTHER -> "namei")
    /\ GoOn(p)
    /\ UNCHANGED <<table, disk, super, ino, ip, adr, held, errors, dir, dlock,
                   fd, keep>>

\* The end of a call: its arguments are gone.
Done(p) ==
    /\ At(p, "done")
    /\ Goto(p, "idle")
    /\ SleepNow
    /\ op' = [op EXCEPT ![p] = "none"]
    /\ name' = [name EXCEPT ![p] = None]
    /\ newname' = [newname EXCEPT ![p] = None]
    /\ ino' = [ino EXCEPT ![p] = 0]
    /\ ip' = [ip EXCEPT ![p] = None]
    /\ UNCHANGED <<table, disk, super, adr, held, errors, dir, dlock, fd, keep, updated,
                   ops>>

----------------------------------------------------------------------------
(* namei *)

Unlock(p) == [d \in Dirs |-> IF dlock[d] = p THEN None ELSE dlock[d]]

\* iget of the directory d.  link calls namei twice.
Namei(p, l, d, next) ==
    /\ At(p, l)
    /\ IF dlock[d] = None
         THEN dlock' = [dlock EXCEPT ![d] = p] /\ Goto(p, next)
         ELSE cur = p /\ UNCHANGED <<dlock, pc, cont>>
    /\ SleepNow
    /\ UNCHANGED <<table, disk, super, ino, ip, adr, held, errors, dir, op, name,
                   newname, fd, keep, updated, ops>>

Found(p, i, ret) ==
    /\ ino' = [ino EXCEPT ![p] = i]
    /\ Call(p, "iget", ret)
    /\ GoOn(p)
    /\ UNCHANGED <<table, disk, super, ip, adr, held, errors, dir, op, name, newname,
                   fd, keep, updated, ops>>

\* The directory is released before the inode is looked for.
SearchFound(p) ==
    /\ At(p, "search") /\ op[p] # "unlink" /\ dir[name[p]] # 0
    /\ dlock' = Unlock(p)
    /\ Found(p, dir[name[p]], IF op[p] = "link" THEN "linked" ELSE "opened")

\* It is not for unlink (flag 2).
SearchUnlink(p) ==
    /\ At(p, "search") /\ op[p] = "unlink" /\ dir[name[p]] # 0
    /\ UNCHANGED dlock
    /\ Found(p, dir[name[p]], "unlinking")

SearchNone(p) ==
    /\ At(p, "search") /\ op[p] # "creat" /\ dir[name[p]] = 0
    /\ dlock' = Unlock(p)
    /\ Goto(p, "done")
    /\ GoOn(p)
    /\ UNCHANGED <<table, disk, super, ino, ip, adr, held, errors, dir, op, name,
                   newname, fd, keep, updated, ops>>

\* maknode; the directory stays locked (flag 1).
SearchCreat(p) ==
    /\ At(p, "search") /\ op[p] = "creat" /\ dir[name[p]] = 0
    /\ Call(p, "ialloc", "made")
    /\ GoOn(p)
    /\ UNCHANGED <<table, disk, super, ino, ip, adr, held, errors, callVars>>

----------------------------------------------------------------------------
(* open, creat *)

Failed(p, l) ==
    /\ At(p, l) /\ ip[p] = None
    /\ dlock' = Unlock(p)
    /\ Goto(p, "done")
    /\ GoOn(p)
    /\ UNCHANGED <<table, disk, super, ino, ip, adr, held, errors, dir, op, name,
                   newname, fd, keep, updated, ops>>

\* access: the inode was freed since the name was read.
OpenDenied(p) ==
    /\ At(p, "opened") /\ ip[p] # None /\ mode[ip[p]] = "free"
    /\ Call(p, "iput", "done")
    /\ GoOn(p)
    /\ UNCHANGED <<table, disk, super, ino, ip, adr, held, errors, callVars>>

\* creat of a file that exists truncates it.
OpenTrunc(p) ==
    /\ At(p, "opened") /\ ip[p] # None /\ mode[ip[p]] # "free" /\ op[p] = "creat"
    /\ Goto(p, "truncated")
    /\ SleepNow
    /\ flag' = [flag EXCEPT ![ip[p]] = @ \cup {"IUPD"}]
    /\ UNCHANGED <<number, count, mode, nlink, disk, super, ino, ip, adr, held, errors,
                   callVars>>

OpenUnlock(p) ==
    /\ \/ At(p, "opened") /\ ip[p] # None /\ mode[ip[p]] # "free" /\ op[p] = "open"
       \/ At(p, "truncated")
    /\ PreleGoto(p, ip[p], "falloc")
    /\ GoOn(p)
    /\ UNCHANGED <<number, count, mode, nlink, disk, super, ino, ip, adr, errors,
                   callVars>>

Falloc(p) ==
    /\ At(p, "falloc")
    /\ \/ /\ fd' = [fd EXCEPT ![p] = ip[p]]
          /\ Goto(p, "done")
       \/ /\ Call(p, "iput", "done")    \* no file
          /\ UNCHANGED fd
    /\ GoOn(p)
    /\ UNCHANGED <<table, disk, super, ino, ip, adr, held, errors, dir, dlock, op, name,
                   newname, keep, updated, ops>>

\* maknode fills in the new inode and writes the directory.
Made(p) ==
    /\ At(p, "made") /\ ip[p] # None
    /\ mode' = [mode EXCEPT ![ip[p]] = "file"]
    /\ nlink' = [nlink EXCEPT ![ip[p]] = 1]
    /\ flag' = [flag EXCEPT ![ip[p]] = @ \cup {"IUPD"}]
    /\ Goto(p, "wdir")
    /\ SleepNow
    /\ UNCHANGED <<number, count, disk, super, ino, ip, adr, held, errors, callVars>>

CreatWdir(p) ==
    /\ At(p, "wdir") /\ op[p] = "creat"
    /\ dlock' = Unlock(p)
    /\ \/ /\ dir' = [dir EXCEPT ![name[p]] = number[ip[p]]]
          /\ PreleGoto(p, ip[p], "falloc")
          /\ UNCHANGED errors
       \/ /\ Error
          /\ Call(p, "iput", "done")
          /\ UNCHANGED <<dir, flag, held>>
    /\ GoOn(p)
    /\ UNCHANGED <<number, count, mode, nlink, disk, super, ino, ip, adr, op, name,
                   newname, fd, keep, updated, ops>>

----------------------------------------------------------------------------
(* unlink *)

Unlinking(p) ==
    /\ At(p, "unlinking") /\ ip[p] # None
    /\ Goto(p, "unlink")
    /\ SleepNow
    /\ UNCHANGED <<table, disk, super, ino, ip, adr, held, errors, callVars>>

\* The entry has been cleared, or could not be: the link is taken off all the same.
Unlink(p) ==
    /\ At(p, "unlink")
    /\ \/ dir' = [dir EXCEPT ![name[p]] = 0] /\ UNCHANGED errors
       \/ Error /\ UNCHANGED dir
    /\ nlink' = [nlink EXCEPT ![ip[p]] = @ - 1]
    /\ flag' = [flag EXCEPT ![ip[p]] = @ \cup {"IUPD"}]
    /\ Call(p, "iput", "unlinked")
    /\ GoOn(p)
    /\ UNCHANGED <<number, count, mode, disk, super, ino, ip, adr, held, dlock, op,
                   name, newname, fd, keep, updated, ops>>

Unlinked(p) ==
    /\ At(p, "unlinked")
    /\ dlock' = Unlock(p)
    /\ Goto(p, "done")
    /\ GoOn(p)
    /\ UNCHANGED <<table, disk, super, ino, ip, adr, held, errors, dir, op, name,
                   newname, fd, keep, updated, ops>>

----------------------------------------------------------------------------
(* link *)

\* The inode is released, not its lock kept, while the second name is looked up.
Linked(p) ==
    /\ At(p, "linked") /\ ip[p] # None
    /\ keep' = [keep EXCEPT ![p] = ip[p]]
    /\ PreleGoto(p, ip[p], "namei2")
    /\ GoOn(p)
    /\ UNCHANGED <<number, count, mode, nlink, disk, super, ino, ip, adr, errors, dir,
                   dlock, op, name, newname, fd, updated, ops>>

Search2Found(p) ==
    /\ At(p, "search2") /\ dir[newname[p]] # 0
    /\ dlock' = Unlock(p)
    /\ Found(p, dir[newname[p]], "exists")

Search2None(p) ==
    /\ At(p, "search2") /\ dir[newname[p]] = 0
    /\ Goto(p, "wdir")
    /\ SleepNow
    /\ UNCHANGED <<table, disk, super, ino, ip, adr, held, errors, callVars>>

Exists(p) ==
    /\ At(p, "exists")
    /\ IF ip[p] = None THEN Goto(p, "linkout") ELSE Call(p, "iput", "linkout")
    /\ GoOn(p)
    /\ UNCHANGED <<table, disk, super, ino, ip, adr, held, errors, callVars>>

LinkWdir(p) ==
    /\ At(p, "wdir") /\ op[p] = "link"
    /\ dlock' = Unlock(p)
    /\ LET s == keep[p] IN
       \/ /\ dir' = [dir EXCEPT ![newname[p]] = number[s]]
          /\ nlink' = [nlink EXCEPT ![s] = @ + 1]
          /\ flag' = [flag EXCEPT ![s] = @ \cup {"IUPD"}]
          /\ UNCHANGED errors
       \/ Error /\ UNCHANGED <<dir, nlink, flag>>
    /\ Goto(p, "linkout")
    /\ GoOn(p)
    /\ UNCHANGED <<number, count, mode, disk, super, ino, ip, adr, held, op, name,
                   newname, fd, keep, updated, ops>>

LinkOut(p) ==
    /\ At(p, "linkout")
    /\ ip' = [ip EXCEPT ![p] = keep[p]]
    /\ keep' = [keep EXCEPT ![p] = None]
    /\ Call(p, "iput", "done")
    /\ GoOn(p)
    /\ UNCHANGED <<table, disk, super, ino, adr, held, errors, dir, dlock, op, name,
                   newname, fd, updated, ops>>

----------------------------------------------------------------------------
(* close and write through a descriptor: plock *)

PlockWait(p) ==
    /\ At(p, "plock") /\ "ILOCK" \in flag[fd[p]]
    /\ WaitFor(p, fd[p], "plock")
    /\ UNCHANGED <<number, count, mode, nlink, disk, super, ino, adr, held, errors,
                   callVars>>

PlockAlways(p) ==
    /\ At(p, "plock")
    /\ ip' = [ip EXCEPT ![p] = fd[p]]
    /\ IF op[p] = "close"
         THEN Call(p, "iput", "done") /\ GoOn(p) /\ fd' = [fd EXCEPT ![p] = None]
         ELSE Goto(p, "io") /\ SleepNow /\ UNCHANGED fd
    /\ UNCHANGED <<table, disk, super, ino, adr, held, errors, dir, dlock,
                   op, name, newname, keep, updated, ops>>

Plock(p) ==
    /\ At(p, "plock") /\ "ILOCK" \notin flag[fd[p]]
    /\ flag' = [flag EXCEPT ![fd[p]] = @ \cup {"ILOCK"}]
    /\ Lock(p, fd[p])
    /\ ip' = [ip EXCEPT ![p] = fd[p]]
    /\ IF op[p] = "close"
         THEN Call(p, "iput", "done") /\ GoOn(p) /\ fd' = [fd EXCEPT ![p] = None]
         ELSE Goto(p, "io") /\ SleepNow /\ UNCHANGED fd
    /\ UNCHANGED <<number, count, mode, nlink, disk, super, ino, adr, errors, dir,
                   dlock, op, name, newname, keep, updated, ops>>

IOEnd(p) ==
    /\ At(p, "io")
    /\ LET s == ip[p] IN
        /\ flag' = [flag EXCEPT ![s] = (@ \ {"ILOCK", "IWANT"}) \cup {"IUPD"}]
        /\ pc' = [AwakePc(s) EXCEPT ![p] = "done"]
        /\ cont' = AwakeCont(s)
        /\ held' = [held EXCEPT ![p] = @ \ {s}]
    /\ GoOn(p)
    /\ UNCHANGED <<number, count, mode, nlink, disk, super, ino, ip, adr, errors,
                   callVars>>

----------------------------------------------------------------------------
(* update *)

ToUpdate == {s \in Slots : s > updated /\ "ILOCK" \notin flag[s] /\ count[s] > 0}

\* The next inode that must be written; the others are locked and released at once.
UpdateNext(p) ==
    /\ At(p, "upd")
    /\ LET todo == {s \in ToUpdate : "IUPD" \in flag[s]} IN
        IF todo = {}
        THEN /\ updated' = NINODE + 1
             /\ Goto(p, "done")
             /\ GoOn(p)
             /\ UNCHANGED <<count, flag, ip, held>>
        ELSE LET s == Min(todo) IN
             /\ updated' = s
             /\ count' = [count EXCEPT ![s] = @ + 1]
             /\ flag' = [flag EXCEPT ![s] = @ \cup {"ILOCK"}]
             /\ Lock(p, s)
             /\ ip' = [ip EXCEPT ![p] = s]
             /\ Goto(p, "updw")
             /\ SleepNow
    /\ UNCHANGED <<number, mode, nlink, disk, super, ino, adr, errors, dir, dlock, op,
                   name, newname, fd, keep, ops>>

UpdateWrite(p) ==
    /\ At(p, "updw")
    /\ LET s == ip[p] IN
       \/ Written(s) /\ flag' = [flag EXCEPT ![s] = @ \ {"IUPD"}]
       \/ Error /\ UNCHANGED <<disk, flag>>
    /\ Call(p, "iput", "upd")
    /\ GoOn(p)
    /\ UNCHANGED <<number, count, mode, nlink, super, ino, ip, adr, held, callVars>>

----------------------------------------------------------------------------

Init ==
    /\ number = [s \in Slots |-> 0]
    /\ count = [s \in Slots |-> 0]
    /\ flag = [s \in Slots |-> {}]
    /\ mode = [s \in Slots |-> "free"]
    /\ nlink = [s \in Slots |-> 0]
    /\ \E n \in Names : dir = [m \in Names |-> IF m = n THEN 1 ELSE 0]
    /\ dmode = [i \in Inums |-> IF i = 1 THEN "file" ELSE "free"]
    /\ dnlink = [i \in Inums |-> IF i = 1 THEN 1 ELSE 0]
    /\ sinode = <<>>
    /\ ilock = 0
    /\ cur = None
    /\ pc = [p \in Procs |-> "idle"]
    /\ cont = [p \in Procs |-> <<>>]
    /\ ino = [p \in Procs |-> 0]
    /\ ip = [p \in Procs |-> None]
    /\ adr = [p \in Procs |-> 1]
    /\ held = [p \in Procs |-> {}]
    /\ errors = 0
    /\ dlock = [d \in Dirs |-> None]
    /\ op = [p \in Procs |-> "none"]
    /\ name = [p \in Procs |-> None] /\ newname = [p \in Procs |-> None]
    /\ fd = [p \in Procs |-> None]
    /\ keep = [p \in Procs |-> None]
    /\ updated = NINODE + 1
    /\ ops = [p \in Procs |-> 0]

CallStep(p) ==
    \/ Done(p)
    \/ Namei(p, "namei", name[p][1], "search")
    \/ Namei(p, "namei2", newname[p][1], "search2")
    \/ SearchFound(p) \/ SearchUnlink(p) \/ SearchNone(p) \/ SearchCreat(p)
    \/ \E l \in {"opened", "made", "unlinking", "linked"} : Failed(p, l)
    \/ OpenDenied(p) \/ OpenTrunc(p) \/ OpenUnlock(p) \/ Falloc(p)
    \/ Made(p) \/ CreatWdir(p)
    \/ Unlinking(p) \/ Unlink(p) \/ Unlinked(p)
    \/ Linked(p) \/ Search2Found(p) \/ Search2None(p) \/ Exists(p)
    \/ LinkWdir(p) \/ LinkOut(p)
    \/ PlockWait(p) \/ Plock(p) \/ IOEnd(p)
    \/ UpdateNext(p) \/ UpdateWrite(p)

ProcStep(p) == CallStep(p) \/ (InodeStep(p) /\ UNCHANGED callVars)

Next ==
    \E p \in Procs :
        \/ ProcStep(p)
        \/ \E o \in Ops[p], n, m \in Names : Start(p, o, n, m)

Spec == Init /\ [][Next]_vars

FairSpec == Spec /\ \A p \in Procs : WF_vars(ProcStep(p))

----------------------------------------------------------------------------
(* Properties *)

PC == {"idle", "done", "namei", "search", "opened", "truncated", "falloc", "made",
       "wdir", "unlinking", "unlink", "unlinked", "linked", "namei2", "search2",
       "exists", "linkout", "plock", "io", "upd", "updw", "iget", "iwait", "iread",
       "inull", "iput", "itrunc", "iupdat", "ialloc", "iloop", "igot", "iscan"}

\* Every variable has its type; in particular no reference count becomes negative.
TypeOK ==
    /\ number \in [Slots -> 0..NDINODE]
    /\ count \in [Slots -> Nat]
    /\ flag \in [Slots -> SUBSET {"ILOCK", "IWANT", "IUPD"}]
    /\ mode \in [Slots -> {"free", "file"}] /\ dmode \in [Inums -> {"free", "file"}]
    /\ nlink \in [Slots -> Int] /\ dnlink \in [Inums -> Int]
    /\ sinode \in Seq(Inums) /\ ilock \in Nat
    /\ cur \in Procs \cup {None}
    /\ pc \in [Procs -> PC] /\ cont \in [Procs -> Seq(PC)]
    /\ ino \in [Procs -> 0..NDINODE]
    /\ ip \in [Procs -> Slots \cup {None}]
    /\ adr \in [Procs -> Blocks]
    /\ held \in [Procs -> SUBSET Slots]
    /\ dir \in [Names -> 0..NDINODE] /\ dlock \in [Dirs -> Procs \cup {None}]
    /\ fd \in [Procs -> Slots \cup {None}] /\ keep \in [Procs -> Slots \cup {None}]
    /\ updated \in 0..(NINODE + 1)

\* iget.c:15: the locking protocol.  Who has locked an inode has it to itself until it
\* releases it.
LockExcludes ==
    \A p \in Procs : \A s \in held[p] :
        /\ "ILOCK" \in flag[s]
        /\ \A q \in Procs \ {p} : s \notin held[q]

\* Where a process has a reference to ip[p].
Referring == {"iread", "iput", "itrunc", "iupdat", "igot", "opened", "truncated",
              "falloc", "made", "unlinking", "unlink", "linked", "exists", "updw"}

References(s) ==
    Cardinality({p \in Procs : pc[p] \in Referring /\ ip[p] = s})
      + Cardinality({p \in Procs : pc[p] = "wdir" /\ op[p] = "creat" /\ ip[p] = s})
      + Cardinality({p \in Procs : fd[p] = s})
      + Cardinality({p \in Procs : keep[p] = s})

\* The count of an inode is the number of those who refer to it, so that it is given
\* up with the last one and not before.
CountIsReferences == \A s \in Slots : count[s] = References(s)

\* iget.c:8-20: whatever sleeps or fails in the middle of iget, iput and ialloc, an inode
\* is in the table once, with its references counted.
TableOK == TypeOK /\ OneCopy /\ CountIsReferences

Entries(i) == Cardinality({n \in Names : dir[n] = i})

\* inode.h: "i_nlink: directory entries".  There are never more entries than links, and
\* a file with an entry is not free.
LinksCounted ==
    \A i \in Inums : Entries(i) > 0 => Entries(i) <= NlinkOf(i) /\ ModeOf(i) = "file"

\* alloc.c:134: "Allocate an unused I node": nobody else has it and it has no entry.
AllocatesUnused ==
    \A p \in Procs : pc[p] = "made" /\ ip[p] # None =>
        /\ Entries(number[ip[p]]) = 0
        /\ count[ip[p]] = 1

\* What is not in core is on disk: an inode leaves the table with what it held written
\* out, and a freed one is free there.
OnDisk ==
    \A i \in Inums : Find(i) = {} =>
        (dmode[i] = "file") = (dnlink[i] > 0)

\* Whatever sleeps in the middle of a call, the locks, the references and the links of every
\* inode agree, in core and on the disk (iget.c:8-20, nami.c:179-219).
FilesOK == LockExcludes /\ LinksCounted /\ OnDisk

\* A call has yet to return.
CallPending == \E p \in Procs : pc[p] # "idle"
=============================================================================
