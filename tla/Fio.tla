--------------------------------- MODULE Fio ---------------------------------
(***************************************************************************)
(* Descriptors and entries of file[]: open, close, dup (sys2.c, sys3.c),   *)
(* closef, openi, ufalloc, falloc (fio.c), what fork, exec and exit do to  *)
(* descriptors (slp.c, sys1.c).  Processes wait for inodes that others     *)
(* have, and in the open and close routines of devices.                    *)
(***************************************************************************)
EXTENDS Integers, FiniteSets, FiniteSetsExt

CONSTANTS
    Tasks, Parent,    \* processes, and the one that is there at first
    NFILE, NOFILE,
    Inodes, Devices,  \* the inodes that are opened; those of special files
    Broken,           \* what a signal may break off: "open", "close", "dup", "exec"
    MaxFio            \* bound: the number of calls

\* Where a process may be, other than at work on an inode.
FioPlaces == {"user", "unborn", "openi", "plock", "dclose", "exec", "exit", "dead"}

ASSUME FioAssumption ==
    /\ Parent \in Tasks /\ Devices \subseteq Inodes /\ IsFiniteSet(Tasks)
    /\ NFILE \in Nat \ {0} /\ NOFILE \in Nat \ {0} /\ MaxFio \in Nat
    /\ Broken \subseteq {"open", "close", "dup", "exec"}
    /\ 0 \notin Tasks
    /\ Inodes \cap FioPlaces = {}

FileEntries == 1..NFILE

FileSlots == 0..NOFILE - 1

VARIABLES
    ft,           \* the tables: f_count and f_inode of the entries, u_ofile (0 for NULL) and
                  \* the slots with EXCLOSE of each process, i_count, and who has an inode
    busy,         \* the call each process is in, where it waits, its slot and its entries
    fioCalls

fioVars == <<ft, busy, fioCalls>>

NotBusy == [call |-> "", at |-> "user", slot |-> 0, f |-> 0, from |-> 0]

FioInit ==
    /\ ft = [count |-> [f \in FileEntries |-> 0],
            inode |-> [f \in FileEntries |-> CHOOSE ip \in Inodes : TRUE],
            ofile |-> [p \in Tasks |-> [i \in FileSlots |-> 0]], excl |-> [p \in Tasks |-> {}],
            icount |-> [ip \in Inodes |-> 0], keeper |-> [ip \in Inodes |-> 0]]
    /\ busy = [p \in Tasks |-> [NotBusy EXCEPT !.at = IF p = Parent THEN "user" ELSE "unborn"]]
    /\ fioCalls = 0

FioEnters(p) == busy[p].at = "user" /\ fioCalls < MaxFio /\ fioCalls' = fioCalls + 1

TurnsTo(p, c) == busy' = [busy EXCEPT ![p] = c] /\ UNCHANGED fioCalls

\* ufalloc and falloc: the first slot, whose EXCLOSE is cleared, and the first entry.
FreeSlots(p) == {i \in FileSlots : ft.ofile[p][i] = 0}

FreeEntries == {f \in FileEntries : ft.count[f] = 0}

falloc(p, i, f, ip) ==
    [ft EXCEPT !.ofile[p][i] = f, !.excl[p] = @ \ {i}, !.count[f] = 1, !.inode[f] = ip,
              !.icount[ip] = @ + 1]

----------------------------------------------------------------------------
(* open, and a call that keeps an inode locked while it waits for the disk *)

\* open1 to its end, or to the wait in the routine of the device.  With no slot or entry, or
\* without permission, nothing has changed in the end.
open(p, ip) ==
    /\ FioEnters(p) /\ ft.keeper[ip] = 0
    /\ FreeSlots(p) # {} /\ FreeEntries # {}
    /\ LET i == Min(FreeSlots(p)) f == Min(FreeEntries) IN
        /\ ft' = falloc(p, i, f, ip)
        /\ busy' = IF ip \notin Devices THEN busy
                   ELSE [busy EXCEPT ![p] = [call |-> "open", at |-> "openi", slot |-> i,
                                             f |-> f, from |-> 0]]

\* The device is open, or a signal has broken off the wait for it: the descriptor stays.
OpenEnded(p) ==
    /\ busy[p].at = "openi"
    /\ TurnsTo(p, NotBusy)
    /\ UNCHANGED ft

\* The device cannot be opened: iput, which takes the lock from whoever has it by now.
OpenFails(p) ==
    LET c == busy[p] ip == ft.inode[c.f] IN
    /\ c.at = "openi"
    /\ ft' = [ft EXCEPT !.ofile[p][c.slot] = 0, !.count[c.f] = @ - 1,
                      !.icount[ip] = @ - 1, !.keeper[ip] = 0]
    /\ TurnsTo(p, NotBusy)

statCall(p, ip) ==
    /\ FioEnters(p) /\ ft.keeper[ip] = 0
    /\ ft' = [ft EXCEPT !.icount[ip] = @ + 1, !.keeper[ip] = p]
    /\ busy' = [busy EXCEPT ![p] = [NotBusy EXCEPT !.call = "stat", !.at = ip]]

StatEnds(p) ==
    LET ip == busy[p].at IN
    /\ busy[p].call = "stat"
    /\ ft' = [ft EXCEPT !.icount[ip] = @ - 1, !.keeper[ip] = 0]
    /\ TurnsTo(p, NotBusy)

----------------------------------------------------------------------------
(* closef, and the calls that use it                                       *)

\* What the caller does after closef, to the tables s and to its call c.
TablesAfter(p, s, c) ==
    CASE c.call = "dup" -> [s EXCEPT !.ofile[p][c.slot] = c.from, !.count[c.from] = @ + 1]
      [] c.call = "exec" -> [s EXCEPT !.ofile[p][c.slot] = 0, !.excl[p] = @ \ {c.slot}]
      [] OTHER -> s

CallAfter(c) ==
    IF c.call \in {"exec", "exit"} THEN [NotBusy EXCEPT !.call = c.call, !.at = c.call]
    ELSE NotBusy

\* closef: an entry that others have is left to them; for the last the inode is locked first.
closef(p, s, c) ==
    IF c.f # 0 /\ s.count[c.f] <= 1
    THEN /\ ft' = s
         /\ busy' = [busy EXCEPT ![p] = [c EXCEPT !.at = "plock"]]
    ELSE /\ ft' = TablesAfter(p, IF c.f = 0 THEN s ELSE [s EXCEPT !.count[c.f] = @ - 1], c)
         /\ busy' = [busy EXCEPT ![p] = CallAfter(c)]

\* The entry is free; the device is closed if no other entry names it.
Plocked(p) ==
    LET c == busy[p] ip == ft.inode[c.f]
        s == [ft EXCEPT !.count[c.f] = 0, !.icount[ip] = @ - 1]
        others == {f \in FileEntries : s.count[f] # 0 /\ s.inode[f] = ip}
    IN
    /\ c.at = "plock" /\ ft.keeper[ip] = 0
    /\ IF ip \in Devices /\ others = {}
       THEN ft' = s /\ TurnsTo(p, [c EXCEPT !.at = "dclose"])
       ELSE ft' = TablesAfter(p, s, c) /\ TurnsTo(p, CallAfter(c))

DeviceClosed(p) ==
    /\ busy[p].at = "dclose"
    /\ ft' = TablesAfter(p, ft, busy[p]) /\ TurnsTo(p, CallAfter(busy[p]))

\* A signal breaks the wait in the close routine off, and the call with it.
CloseBroken(p) ==
    /\ busy[p].at = "dclose" /\ busy[p].call \in Broken
    /\ TurnsTo(p, NotBusy)
    /\ UNCHANGED ft

Call(name, i, f) == [call |-> name, at |-> "", slot |-> i, f |-> f, from |-> 0]

close(p, i) ==
    /\ FioEnters(p) /\ ft.ofile[p][i] # 0
    /\ closef(p, [ft EXCEPT !.ofile[p][i] = 0], Call("close", i, ft.ofile[p][i]))

\* dup to slot i: the first free one, or one the caller names, which is closed first.
dup(p, from, i) ==
    /\ FioEnters(p) /\ ft.ofile[p][from] # 0 /\ i # from
    /\ LET s == IF i \in FreeSlots(p) THEN [ft EXCEPT !.excl[p] = @ \ {i}] ELSE ft
           c == [Call("dup", i, ft.ofile[p][i]) EXCEPT !.from = ft.ofile[p][from]]
       IN \/ i \in FreeSlots(p) /\ i = Min(FreeSlots(p)) /\ closef(p, s, c)
          \/ closef(p, ft, c)

\* ioctl FIOCLEX.
Fioclex(p, i) ==
    /\ FioEnters(p) /\ ft.ofile[p][i] # 0
    /\ ft' = [ft EXCEPT !.excl[p] = @ \cup {i}]
    /\ UNCHANGED busy

\* exec and exit close one descriptor after the other.
exec(p) ==
    /\ FioEnters(p)
    /\ busy' = [busy EXCEPT ![p] = CallAfter(Call("exec", 0, 0))]
    /\ UNCHANGED ft

setregs(p) ==
    /\ busy[p].at = "exec"
    /\ UNCHANGED fioCalls
    /\ IF ft.excl[p] = {} THEN busy' = [busy EXCEPT ![p] = NotBusy] /\ UNCHANGED ft
       ELSE LET i == Min(ft.excl[p]) IN closef(p, ft, Call("exec", i, ft.ofile[p][i]))

exitCloses(p) ==
    /\ FioEnters(p)
    /\ busy' = [busy EXCEPT ![p] = CallAfter(Call("exit", 0, 0))]
    /\ UNCHANGED ft

ExitCloses(p) ==
    LET held_ == FileSlots \ FreeSlots(p) IN
    /\ busy[p].at = "exit"
    /\ UNCHANGED fioCalls
    /\ IF held_ = {}
       THEN busy' = [busy EXCEPT ![p] = [NotBusy EXCEPT !.at = "dead"]] /\ UNCHANGED ft
       ELSE LET i == Min(held_) IN
            closef(p, [ft EXCEPT !.ofile[p][i] = 0], Call("exit", i, ft.ofile[p][i]))

\* newproc: the child has the descriptors of the parent.
SharedOnce(p) ==
    [f \in FileEntries |-> IF \E i \in FileSlots : ft.ofile[p][i] = f THEN 1 ELSE 0]

Shared(p) == [f \in FileEntries |-> Cardinality({i \in FileSlots : ft.ofile[p][i] = f})]

newproc(p, q) ==
    /\ FioEnters(p) /\ busy[q].at = "unborn"
    /\ ft' = [ft EXCEPT !.ofile[q] = ft.ofile[p], !.excl[q] = ft.excl[p],
                      !.count = [f \in FileEntries |-> @[f] + Shared(p)[f]]]
    /\ busy' = [busy EXCEPT ![q] = NotBusy]

FioNext ==
    \E p \in Tasks :
        \/ \E ip \in Inodes : open(p, ip) \/ statCall(p, ip)
        \/ \E i \in FileSlots : close(p, i) \/ Fioclex(p, i)
        \/ \E i, j \in FileSlots : dup(p, j, i)
        \/ exec(p) \/ exitCloses(p) \/ \E q \in Tasks : newproc(p, q)
        \/ OpenEnded(p) \/ OpenFails(p) \/ StatEnds(p) \/ Plocked(p) \/ DeviceClosed(p)
        \/ CloseBroken(p) \/ setregs(p) \/ ExitCloses(p)

FioSpec == FioInit /\ [][FioNext]_fioVars

----------------------------------------------------------------------------
(* Properties *)

\* The slots that hold an entry, those of a call that has let it go already left out, and
\* the calls that have still to let it go.
Refers(f) ==
    {r \in Tasks \X FileSlots :
        LET c == busy[r[1]] IN
        \/ ft.ofile[r[1]][r[2]] = f
             /\ ~(c.at = "dclose" /\ c.call \in {"dup", "exec"} /\ c.slot = r[2])
        \/ c.at = "plock" /\ c.call \in {"close", "exit"} /\ c.slot = r[2] /\ c.f = f}

\* h/file.h: f_count counts the descriptors of an entry, and i_count the entries and calls
\* that use an inode, while processes share, replace and close descriptors and wait in
\* between: no descriptor is left that names an entry given to somebody else.
FilesCounted ==
    /\ \A f \in FileEntries : ft.count[f] = Cardinality(Refers(f))
    /\ \A ip \in Inodes :
        ft.icount[ip] = Cardinality({f \in FileEntries : ft.count[f] > 0 /\ ft.inode[f] = ip})
                       + Cardinality({p \in Tasks : busy[p].call = "stat" /\ busy[p].at = ip})
=============================================================================
