-------------------------------- MODULE Mount --------------------------------
(***************************************************************************)
(* The mount table: smount, sumount (sys3.c), update (alloc.c), and the    *)
(* references that walks take on inodes through it (iget and iput of       *)
(* iget.c).  A process keeps the processor until it sleeps: the labels of  *)
(* Awake are the places between two sleeps, and whoever is at one of them  *)
(* is the only process that moves.                                         *)
(***************************************************************************)
EXTENDS Integers, FiniteSets, FiniteSetsExt

CONSTANTS
    Mounters, Devs, RootDev,  \* processes; the devices that can be mounted, and the root's
    Dirs,                    \* the directories of the root device that calls name
    NINODE, NMOUNT,
    MaxMount                 \* bound: the number of calls

ASSUME MountAssumption ==
    /\ RootDev \notin Devs
    /\ NINODE \in Nat \ {0} /\ NMOUNT \in Nat \ {0} /\ MaxMount \in Nat
    /\ IsFiniteSet(Mounters) /\ "none" \notin Dirs

RootIno == "root"   \* ROOTINO, on every device

Unnamed == <<RootDev, "none">>

Entry == [bufp : BOOLEAN, dev : Devs \cup {RootDev}, inodp : 0..NINODE]

VARIABLES
    inodes,      \* inode[]: device and number, i_count, ILOCK, IMOUNT
    mounts,      \* mount[]: whether m_bufp is set, m_dev, m_inodp
    updlock,
    at,          \* of each process: its call, where it is in it, its device, the name it
                 \* walks to, its inode, its entry of the mount table or index in update
    clashed,     \* history: two calls have made their checks for one entry or one device
    mountCalls

mountVars == <<inodes, mounts, updlock, at, clashed, mountCalls>>

FreeInode == [name |-> Unnamed, count |-> 0, lock |-> FALSE, mount |-> FALSE]

AtUser == [call |-> "none", pc |-> "user", dev |-> RootDev, want |-> Unnamed, ip |-> 0, i |-> 0]

\* iinit and main: the root device is in the table's first entry, its root directory in core.
MountInit ==
    /\ inodes = [s \in 1..NINODE |->
                    IF s = 1 THEN [FreeInode EXCEPT !.name = <<RootDev, RootIno>>, !.count = 1]
                    ELSE FreeInode]
    /\ mounts = [m \in 1..NMOUNT |-> [bufp |-> m = 1, dev |-> RootDev, inodp |-> 0]]
    /\ updlock = FALSE
    /\ at = [p \in Mounters |-> AtUser]
    /\ clashed = FALSE
    /\ mountCalls = 0

AwakeAt == {p \in Mounters : at[p].pc \in {"iget", "got", "update", "check", "super", "inodes", "plock"}}

Go(p, pc) == at' = [at EXCEPT ![p].pc = pc]

Ends(p) == at' = [at EXCEPT ![p] = AtUser]

StartsCall(p, c) ==
    /\ at[p].pc = "user" /\ mountCalls < MaxMount
    /\ at' = [at EXCEPT ![p] = c]
    /\ mountCalls' = mountCalls + 1
    /\ UNCHANGED <<inodes, mounts, updlock, clashed>>

CallMount(p, d, dir) ==
    StartsCall(p, [AtUser EXCEPT !.call = "mount", !.pc = "iget", !.dev = d,
                                 !.want = <<RootDev, dir>>])

CallOpen(p, dir) ==
    StartsCall(p, [AtUser EXCEPT !.call = "open", !.pc = "iget", !.want = <<RootDev, dir>>])

CallUmount(p, d) ==
    StartsCall(p, [AtUser EXCEPT !.call = "umount", !.pc = "update", !.dev = d])

CallSync(p) == StartsCall(p, [AtUser EXCEPT !.call = "sync", !.pc = "update"])

----------------------------------------------------------------------------
(* iget and iput                                                           *)

Inode(s) == inodes[s]

Found(name) == {s \in 1..NINODE : Inode(s).name = name}

Mounted(d) == {m \in 1..NMOUNT : mounts[m].bufp /\ mounts[m].dev = d}

LedTo(s) == {m \in 1..NMOUNT : mounts[m].inodp = s}

\* iget: an inode that is locked is waited for, one that is mounted on leads to the root of
\* the device of the first entry that names it, without a sleep.
IgetFollows(p) ==
    /\ at[p].pc = "iget"
    /\ \E s \in Found(at[p].want) :
          /\ ~Inode(s).lock /\ Inode(s).mount /\ LedTo(s) # {}
          /\ at' = [at EXCEPT ![p].want = <<mounts[Min(LedTo(s))].dev, RootIno>>]
    /\ UNCHANGED <<inodes, mounts, updlock, clashed, mountCalls>>

IgetSleeps(p) ==
    /\ at[p].pc = "iget"
    /\ \E s \in Found(at[p].want) : Inode(s).lock
    /\ Go(p, "asleep")
    /\ UNCHANGED <<inodes, mounts, updlock, clashed, mountCalls>>

IgetWakes(p) ==
    /\ at[p].pc = "asleep"
    /\ \A s \in Found(at[p].want) : ~Inode(s).lock
    /\ Go(p, "iget")
    /\ UNCHANGED <<inodes, mounts, updlock, clashed, mountCalls>>

IgetFinds(p) ==
    /\ at[p].pc = "iget"
    /\ \E s \in Found(at[p].want) :
          /\ ~Inode(s).lock /\ ~Inode(s).mount
          /\ inodes' = [inodes EXCEPT ![s].count = @ + 1, ![s].lock = TRUE]
          /\ at' = [at EXCEPT ![p].pc = "got", ![p].ip = s]
    /\ UNCHANGED <<mounts, updlock, clashed, mountCalls>>

IgetReads(p) ==
    /\ at[p].pc = "iget" /\ Found(at[p].want) = {}
    /\ LET free == {s \in 1..NINODE : Inode(s).count = 0}
       IN  \/ /\ free # {}
              /\ inodes' = [inodes EXCEPT ![Min(free)] =
                               [FreeInode EXCEPT !.name = at[p].want, !.count = 1, !.lock = TRUE]]
              /\ at' = [at EXCEPT ![p].pc = "bread", ![p].ip = Min(free)]
           \/ free = {} /\ Ends(p) /\ UNCHANGED inodes   \* Inode table overflow
    /\ UNCHANGED <<mounts, updlock, clashed, mountCalls>>

IgetHasRead(p) ==
    /\ at[p].pc = "bread"
    /\ \/ Go(p, "got") /\ UNCHANGED inodes
       \/ Ends(p) /\ inodes' = [inodes EXCEPT ![at[p].ip] = FreeInode]   \* an I/O error: iput
    /\ UNCHANGED <<mounts, updlock, clashed, mountCalls>>

\* iput of an inode p has locked: the last reference sleeps in iupdat and frees the entry.
Iputs(p, s) ==
    IF Inode(s).count = 1
    THEN /\ inodes' = [inodes EXCEPT ![s].lock = TRUE]
         /\ at' = [at EXCEPT ![p].pc = "iput", ![p].ip = s]
    ELSE /\ inodes' = [inodes EXCEPT ![s].count = @ - 1, ![s].lock = FALSE]
         /\ Ends(p)

IputEnds(p) ==
    /\ at[p].pc = "iput"
    /\ inodes' = [inodes EXCEPT ![at[p].ip] = FreeInode]
    /\ mounts' = IF at[p].call = "umount" THEN [mounts EXCEPT ![at[p].i].bufp = FALSE]
                 ELSE mounts
    /\ Ends(p)
    /\ UNCHANGED <<updlock, clashed, mountCalls>>

\* An open file keeps its inode, unlocked, until it is closed.
OpenEnds(p) ==
    /\ at[p].pc = "got" /\ at[p].call = "open"
    /\ inodes' = [inodes EXCEPT ![at[p].ip].lock = FALSE]
    /\ Go(p, "has")
    /\ UNCHANGED <<mounts, updlock, clashed, mountCalls>>

Closes(p) ==
    /\ at[p].pc = "has" /\ ~Inode(at[p].ip).lock
    /\ Iputs(p, at[p].ip)
    /\ UNCHANGED <<mounts, updlock, clashed, mountCalls>>

----------------------------------------------------------------------------
(* smount                                                                  *)

Vacant == {m \in 1..NMOUNT : ~mounts[m].bufp}

\* The checks: nobody else has the directory, the device is not mounted, an entry is free.
Mountable(p) == Inode(at[p].ip).count = 1 /\ Mounted(at[p].dev) = {} /\ Vacant # {}

\* Another call of smount that has made its checks, and has chosen the same entry or mounts
\* the same device: neither is marked in the table before the reads are done.
Mounting(c) == c.call = "mount" /\ c.pc \in {"opens", "geteblk"}

TakenTwice(p, m) ==
    \E q \in Mounters \ {p} : Mounting(at[q]) /\ (at[q].i = m \/ at[q].dev = at[p].dev)

MountChecks(p) ==
    /\ at[p].pc = "got" /\ at[p].call = "mount"
    /\ \/ /\ Mountable(p)
          /\ at' = [at EXCEPT ![p].pc = "opens", ![p].i = Min(Vacant)]
          /\ UNCHANGED inodes
          /\ clashed' = (clashed \/ TakenTwice(p, Min(Vacant)))
       \/ ~Mountable(p) /\ Iputs(p, at[p].ip) /\ UNCHANGED clashed
    /\ UNCHANGED <<mounts, updlock, mountCalls>>

\* d_open and the read of the superblock, in which the process sleeps, and which may fail.
MountReads(p) ==
    /\ at[p].pc = "opens"
    /\ \/ /\ mounts' = [mounts EXCEPT ![at[p].i].inodp = at[p].ip, ![at[p].i].dev = at[p].dev]
          /\ Go(p, "geteblk")
          /\ UNCHANGED inodes
       \/ Iputs(p, at[p].ip) /\ UNCHANGED mounts
    /\ UNCHANGED <<updlock, clashed, mountCalls>>

Mounts(p) ==
    /\ at[p].pc = "geteblk"
    /\ mounts' = [mounts EXCEPT ![at[p].i].bufp = TRUE]
    /\ inodes' = [inodes EXCEPT ![at[p].ip].mount = TRUE, ![at[p].ip].lock = FALSE]
    /\ Ends(p)
    /\ UNCHANGED <<updlock, clashed, mountCalls>>

----------------------------------------------------------------------------
(* update, called by sync and by sumount                                   *)

ToUpdate(i) == {s \in i..NINODE : ~Inode(s).lock /\ Inode(s).count > 0}

\* Another update under way makes this one return at once: sumount then goes on to its checks.
UpdateBegins(p) ==
    /\ at[p].pc = "update"
    /\ updlock' = TRUE
    /\ \/ ~updlock /\ at' = [at EXCEPT ![p].pc = "super", ![p].i = 1]
       \/ updlock /\ IF at[p].call = "umount" THEN Go(p, "check") ELSE Ends(p)
    /\ UNCHANGED <<inodes, mounts, clashed, mountCalls>>

\* The superblocks that are marked as modified are written, each with a sleep in getblk and
\* one in bwrite (FreeList), or none is.
SupersWritten(p) ==
    /\ at[p].pc \in {"super", "bwrite"}
    /\ \/ at[p].pc = "super" /\ Go(p, "bwrite")
       \/ Go(p, "inodes")
    /\ UNCHANGED <<inodes, mounts, updlock, clashed, mountCalls>>

\* Each inode in use and not locked is locked, and iupdat sleeps.
InodeNext(p) ==
    /\ at[p].pc = "inodes"
    /\ \/ \E s \in ToUpdate(at[p].i) :
             /\ \A t \in ToUpdate(at[p].i) : s <= t
             /\ inodes' = [inodes EXCEPT ![s].lock = TRUE, ![s].count = @ + 1]
             /\ at' = [at EXCEPT ![p].pc = "iupdat", ![p].i = s]
             /\ UNCHANGED updlock
       \/ /\ ToUpdate(at[p].i) = {}
          /\ updlock' = FALSE
          /\ IF at[p].call = "umount" THEN Go(p, "check") ELSE Ends(p)
          /\ UNCHANGED inodes
    /\ UNCHANGED <<mounts, clashed, mountCalls>>

Iupdated(p) ==
    /\ at[p].pc = "iupdat"
    /\ inodes' = [inodes EXCEPT ![at[p].i].lock = FALSE, ![at[p].i].count = @ - 1]
    /\ at' = [at EXCEPT ![p].pc = "inodes", ![p].i = @ + 1]
    /\ UNCHANGED <<mounts, updlock, clashed, mountCalls>>

----------------------------------------------------------------------------
(* sumount                                                                 *)

\* An inode of the device in core keeps it mounted.
InUseReferenced(d) == \E s \in 1..NINODE : Inode(s).name[1] = d /\ Inode(s).name[2] # RootIno

InUse(d) == \E s \in 1..NINODE : Inode(s).name[1] = d

\* Another call of sumount gives up the same entry, or one of smount is on its way into the
\* device to mount something there.
Umounting(c) == c.call = "umount" /\ c.pc \in {"plock", "waits", "iput"}

Walking(c) ==
    c.call = "mount" /\ c.pc \in {"iget", "asleep", "bread", "got", "opens", "geteblk"}

LeftTwice(p, m) ==
    \E q \in Mounters \ {p} :
        \/ Umounting(at[q]) /\ at[q].i = m
        \/ Walking(at[q]) /\ at[q].want[1] = at[p].dev

UmountChecks(p) ==
    /\ at[p].pc = "check"
    /\ LET d == at[p].dev IN
       \/ (Mounted(d) = {} \/ InUse(d)) /\ Ends(p) /\ UNCHANGED <<inodes, clashed>>
       \/ \E m \in Mounted(d) :
             /\ ~InUse(d) /\ m = Min(Mounted(d))
             /\ inodes' = [inodes EXCEPT ![mounts[m].inodp].mount = FALSE]
             /\ at' = [at EXCEPT ![p].pc = "plock", ![p].i = m]
             /\ clashed' = (clashed \/ LeftTwice(p, m))
    /\ UNCHANGED <<mounts, updlock, mountCalls>>

\* plock and iput of the directory, then the entry is given up: at once, or after iupdat.
Umounts(p) ==
    /\ at[p].pc = "plock"
    /\ LET s == mounts[at[p].i].inodp IN
          /\ ~Inode(s).lock
          /\ Iputs(p, s)
          /\ mounts' = IF Inode(s).count = 1 THEN mounts
                       ELSE [mounts EXCEPT ![at[p].i].bufp = FALSE]
    /\ UNCHANGED <<updlock, clashed, mountCalls>>

\* plock waits while somebody has the directory.
PlockSleeps(p) ==
    /\ \/ at[p].pc = "plock" /\ Inode(mounts[at[p].i].inodp).lock /\ Go(p, "waits")
       \/ at[p].pc = "waits" /\ ~Inode(mounts[at[p].i].inodp).lock /\ Go(p, "plock")
    /\ UNCHANGED <<inodes, mounts, updlock, clashed, mountCalls>>

----------------------------------------------------------------------------
(* The specification                                                       *)

Walks(p) == \/ IgetFollows(p) \/ IgetSleeps(p) \/ IgetWakes(p) \/ IgetFinds(p) \/ IgetReads(p)
            \/ IgetHasRead(p) \/ IputEnds(p) \/ OpenEnds(p) \/ Closes(p)

Updates(p) == \/ UpdateBegins(p) \/ SupersWritten(p) \/ InodeNext(p) \/ Iupdated(p)

MountNext ==
    \E p \in Mounters :
        /\ AwakeAt \subseteq {p}
        /\ \/ Walks(p) \/ Updates(p) \/ MountChecks(p) \/ MountReads(p) \/ Mounts(p)
           \/ UmountChecks(p) \/ PlockSleeps(p) \/ Umounts(p) \/ CallSync(p)
           \/ \E d \in Devs : CallUmount(p, d)
           \/ \E dir \in Dirs : CallOpen(p, dir)
           \/ \E d \in Devs, dir \in Dirs : CallMount(p, d, dir)

MountSpec == MountInit /\ [][MountNext]_mountVars

----------------------------------------------------------------------------
(* Properties                                                              *)

\* iget never fails on an inode that is mounted on: the first entry of the table that names it
\* is in use, so that a walk goes on in a file system that is mounted; an entry in use keeps its
\* directory in core, of the root device or of another mounted one; and no device has two
\* entries.  sys3.c:153-177 and 213-232 see to that until two calls have clashed: smount and
\* sumount sleep between what they look for in the table and what they change there.
MountsAreFound ==
    \/ clashed
    \/ /\ \A s \in 1..NINODE : Inode(s).mount => LedTo(s) # {} /\ mounts[Min(LedTo(s))].bufp
       /\ \A m \in 2..NMOUNT : mounts[m].bufp => /\ Inode(mounts[m].inodp).count > 0
                                                 /\ Mounted(Inode(mounts[m].inodp).name[1]) # {}
       /\ \A d \in Devs : \A m, n \in Mounted(d) : m = n

\* "no fs -- the device is not mounted. this "cannot happen"" (alloc.c:251-252): somebody who
\* has a file of a device finds the device in the mount table.
NoFsCannotHappen ==
    \A p \in Mounters : at[p].pc = "has" => Mounted(Inode(at[p].ip).name[1]) # {}
=============================================================================
