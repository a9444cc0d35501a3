------------------------------ MODULE Emulator ------------------------------
(***************************************************************************)
(* The system calls of the emulator: fork, exit, wait of Kernel.java and   *)
(* the descriptors of Context.User on the channels of FileItem.java.       *)
(*                                                                         *)
(* Every emulated process is a thread (Process.java) that holds the        *)
(* monitor of Context.class during an instruction, so a system call is     *)
(* atomic except where it waits in the monitor, or for the terminal with   *)
(* the monitor in its hands.  A thread that an exception ends is dead: its *)
(* process stays in procSet and keeps its descriptors.                     *)
(***************************************************************************)
EXTENDS Integers, SequencesExt, FiniteSetsExt, Functions

CONSTANTS
    Threads,    \* bound: the threads there can be at once, with zombies
    First,      \* the process the emulator starts
    NPIDS,      \* process numbers, 31..60 in the code
    NOFILE,     \* descriptors of a process
    Items,      \* bound: the open files there can be at once
    Std,        \* stdin, stdout and stderr: what First has open
    SignBit,    \* the value of the sign bit of f_count, 128 in the code
    Seekers,    \* those of them that programs seek on
    MaxCalls,   \* bound: the calls of open, close, dup and dup2
    Nobody

ASSUME EmulatorAssumption ==
    /\ First \in Threads /\ Nobody \notin Threads \cup Items
    /\ IsFiniteSet(Threads)
    /\ NPIDS \in Nat \ {0} /\ NOFILE \in Nat \ {0} /\ SignBit \in Nat \ {0, 1}
    /\ Std \in Seq(Items) /\ IsInjective(Std) /\ Len(Std) <= NOFILE
    /\ Seekers \subseteq Range(Std) /\ MaxCalls \in Nat

Pids == 1..NPIDS
StartPid == 0
Fds == 0..NOFILE - 1

VARIABLES
    pidFree,    \* pidFreeSet, in the order of insertion
    stat,       \* p_stat, "none" if the process is not in procSet
    pid, ppid,  \* p_pid, p_ppid
    creator,    \* creator[t]: the process that forked t, Nobody if it is gone
    does,       \* where each thread is
    ofile,      \* u_ofile
    f_count,    \* f_count
    open,       \* open[i]: the channel of i is open
    reading,    \* the process that reads the terminal with the monitor locked
    made       \* counter for the bound

procVars == <<pidFree, stat, pid, ppid, creator>>
fileVars == <<ofile, f_count, open>>
emulatorVars == <<procVars, does, fileVars, reading, made>>

----------------------------------------------------------------------------
(* Reference counts *)

\* A Java byte, if SignBit is 128.
Wrap(n) == ((n + SignBit) % (2 * SignBit)) - SignBit

RefsOf(t, i) == Cardinality({d \in Fds : ofile[t][d] = i})

\* Closing i k times: the channel is closed if the count is found not positive.
Drop(k) == [i \in Items |-> Wrap(f_count[i] - k[i])]

Shut(k) == [i \in Items |-> open[i] /\ \A j \in 1..k[i] : Wrap(f_count[i] - j) > 0]

DropOne(i) == [j \in Items |-> IF j = i THEN 1 ELSE 0]

\* ufalloc: the lowest free descriptor, -1 if there is none.
Ufalloc(t) ==
    LET free == {d \in Fds : ofile[t][d] = Nobody}
    IN IF free = {} THEN -1 ELSE Min(free)

----------------------------------------------------------------------------
(* Processes *)

procSet == {t \in Threads : stat[t] # "none"}

\* An instruction of t: it needs the monitor.
Runs(t) == does[t] = "run" /\ reading = Nobody

\* The children of t by their p_ppid, which is how the code finds them.
Children(t) == {q \in procSet : ppid[q] = pid[t]}

Die(t) == does' = [does EXCEPT ![t] = "dead"]

AddRefsOfOne(t) ==
    [i \in Items |-> IF RefsOf(t, i) > 0 THEN Wrap(f_count[i] + 1) ELSE f_count[i]]

AddRefs(t) == [i \in Items |-> Wrap(f_count[i] + RefsOf(t, i))]

Fork(t, c) ==
    /\ Runs(t)
    /\ pidFree # <<>>
    /\ stat[c] = "none"
    /\ pidFree' = Tail(pidFree)
    /\ stat' = [stat EXCEPT ![c] = "SRUN"]
    /\ pid' = [pid EXCEPT ![c] = Head(pidFree)]
    /\ ppid' = [ppid EXCEPT ![c] = pid[t]]
    /\ creator' = [creator EXCEPT ![c] = t]
    /\ does' = [does EXCEPT ![c] = "run"]
    /\ ofile' = [ofile EXCEPT ![c] = ofile[t]]
    /\ f_count' = AddRefs(t)
    /\ UNCHANGED <<open, reading, made>>

\* allocPid finds no number, after the references have been added.
ForkFails(t) ==
    /\ Runs(t)
    /\ pidFree = <<>>
    /\ f_count' = AddRefs(t)
    /\ does' = [does EXCEPT ![t] = "nopid"]
    /\ UNCHANGED <<procVars, ofile, open, reading, made>>

NotifiedNever == does

Notified == [t \in Threads |-> IF does[t] = "wait" THEN "woken" ELSE does[t]]

Exit(t) ==
    /\ Runs(t)
    /\ LET k == [i \in Items |-> RefsOf(t, i)] IN
        /\ f_count' = Drop(k)
        /\ open' = Shut(k)
    /\ ofile' = [ofile EXCEPT ![t] = [d \in Fds |-> Nobody]]
    /\ stat' = [stat EXCEPT ![t] = "SZOMB"]
    /\ LET woken == IF \E q \in procSet : pid[q] = ppid[t] THEN Notified ELSE does
       IN does' = [woken EXCEPT ![t] = "none"]
    /\ UNCHANGED <<pidFree, pid, ppid, creator, reading, made>>

ReapedKeepsPid(q) ==
    /\ stat' = [stat EXCEPT ![q] = "none"]
    /\ pid' = [pid EXCEPT ![q] = StartPid]
    /\ ppid' = [ppid EXCEPT ![q] = StartPid]
    /\ creator' = [t \in Threads |-> IF t = q \/ creator[t] = q THEN Nobody ELSE creator[t]]
    /\ UNCHANGED pidFree

\* freePid and procSet.remove.
Reaped(q) ==
    /\ pidFree' = Append(pidFree, pid[q])
    /\ stat' = [stat EXCEPT ![q] = "none"]
    /\ pid' = [pid EXCEPT ![q] = StartPid]
    /\ ppid' = [ppid EXCEPT ![q] = StartPid]
    /\ creator' = [t \in Threads |-> IF t = q \/ creator[t] = q THEN Nobody ELSE creator[t]]

\* wait, at its beginning or notified; isFound is never reset.
Wait(t) ==
    /\ does[t] \in {"run", "woken"} /\ reading = Nobody
    /\ LET zombies == {q \in Children(t) : stat[q] = "SZOMB"} IN
       IF zombies # {}
       THEN /\ \E q \in zombies : Reaped(q)
            /\ does' = [does EXCEPT ![t] = "run"]
       ELSE /\ does' = [does EXCEPT ![t] =
                    IF Children(t) # {} \/ does[t] = "woken" THEN "wait" ELSE "run"]
            /\ UNCHANGED procVars
    /\ UNCHANGED <<fileVars, reading, made>>

----------------------------------------------------------------------------
(* Files *)

Counted == made < MaxCalls /\ made' = made + 1

\* open and creat; without a descriptor the file stays open.
Open(t) ==
    /\ Runs(t) /\ Counted
    /\ \E i \in Items \ Range(Std) :
        /\ ~open[i] /\ \A q \in Threads : RefsOf(q, i) = 0
        /\ f_count' = [f_count EXCEPT ![i] = 1]
        /\ open' = [open EXCEPT ![i] = TRUE]
        /\ LET d == Ufalloc(t) IN
            ofile' = IF d = -1 THEN ofile ELSE [ofile EXCEPT ![t][d] = i]
    /\ UNCHANGED <<procVars, does, reading>>

Close(t, d) ==
    /\ Runs(t) /\ Counted
    /\ ofile[t][d] # Nobody
    /\ ofile' = [ofile EXCEPT ![t][d] = Nobody]
    /\ f_count' = Drop(DropOne(ofile[t][d]))
    /\ open' = Shut(DropOne(ofile[t][d]))
    /\ UNCHANGED <<procVars, does, reading>>

\* fileDuplicate: what the new descriptor had open is closed.
DuplicateLeaks(t, d, e) ==
    /\ ofile' = [ofile EXCEPT ![t][e] = ofile[t][d]]
    /\ f_count' = [f_count EXCEPT ![ofile[t][d]] = Wrap(@ + 1)]
    /\ UNCHANGED open

Duplicate(t, d, e) ==
    LET k == IF ofile[t][e] = Nobody THEN [i \in Items |-> 0] ELSE DropOne(ofile[t][e])
    IN /\ ofile' = [ofile EXCEPT ![t][e] = ofile[t][d]]
       /\ f_count' = [Drop(k) EXCEPT ![ofile[t][d]] = Wrap(@ + 1)]
       /\ open' = Shut(k)

Dup(t, d) ==
    /\ Runs(t) /\ Counted
    /\ ofile[t][d] # Nobody /\ Ufalloc(t) # -1
    /\ Duplicate(t, d, Ufalloc(t))
    /\ UNCHANGED <<procVars, does, reading>>

Dup2(t, d, e) ==
    /\ Runs(t) /\ Counted
    /\ ofile[t][d] # Nobody /\ d # e
    /\ Duplicate(t, d, e)
    /\ UNCHANGED <<procVars, does, reading>>

\* A read or write of a channel that has been closed: a RuntimeException.
UseClosed(t, d) ==
    /\ Runs(t)
    /\ ofile[t][d] # Nobody
    /\ ~open[ofile[t][d]]
    /\ Die(t)
    /\ UNCHANGED <<procVars, fileVars, reading, made>>

\* The channel of a standard file cannot be cast to a SeekableByteChannel.
SeekStd(t, d) ==
    /\ Runs(t)
    /\ ofile[t][d] \in Seekers
    /\ Die(t)
    /\ UNCHANGED <<procVars, fileVars, reading, made>>

\* A read of the terminal returns when a line is typed.
ReadStdin(t, d) ==
    /\ Runs(t)
    /\ Std # <<>> /\ ofile[t][d] = Head(Std) /\ open[Head(Std)]
    /\ reading' = t
    /\ UNCHANGED <<procVars, does, fileVars, made>>

Input ==
    /\ reading # Nobody
    /\ reading' = Nobody
    /\ UNCHANGED <<procVars, does, fileVars, made>>

----------------------------------------------------------------------------

EmulatorInit ==
    /\ pidFree = [k \in 1..NPIDS - 1 |-> k + 1]
    /\ stat = [t \in Threads |-> IF t = First THEN "SRUN" ELSE "none"]
    /\ pid = [t \in Threads |-> IF t = First THEN 1 ELSE StartPid]
    /\ ppid = [t \in Threads |-> StartPid]
    /\ creator = [t \in Threads |-> Nobody]
    /\ does = [t \in Threads |-> IF t = First THEN "run" ELSE "none"]
    /\ ofile = [t \in Threads |-> [d \in Fds |->
                    IF t = First /\ d < Len(Std) THEN Std[d + 1] ELSE Nobody]]
    /\ f_count = [i \in Items |-> IF i \in Range(Std) THEN 1 ELSE 0]
    /\ open = [i \in Items |-> i \in Range(Std)]
    /\ reading = Nobody
    /\ made = 0

ThreadStep(t) ==
    \/ \E c \in Threads : Fork(t, c)
    \/ ForkFails(t)
    \/ Exit(t) \/ Wait(t)
    \/ Open(t)
    \/ \E d \in Fds :
        \/ Close(t, d) \/ Dup(t, d) \/ UseClosed(t, d) \/ SeekStd(t, d)
        \/ ReadStdin(t, d)
        \/ \E e \in Fds : Dup2(t, d, e)

EmulatorNext == Input \/ \E t \in Threads : ThreadStep(t)

EmulatorSpec == EmulatorInit /\ [][EmulatorNext]_emulatorVars

\* A thread gets the monitor if it is free again and again, every program ends, and
\* somebody types.
EmulatorFairSpec ==
    /\ EmulatorSpec
    /\ \A t \in Threads : SF_emulatorVars(Wait(t)) /\ SF_emulatorVars(Exit(t))
    /\ WF_emulatorVars(Input)

----------------------------------------------------------------------------
(* Properties *)

\* Every variable has its type.
EmulatorTypeOK ==
    /\ pidFree \in Seq(Pids)
    /\ stat \in [Threads -> {"none", "SRUN", "SZOMB"}]
    /\ pid \in [Threads -> Pids \cup {StartPid}]
    /\ ppid \in [Threads -> Pids \cup {StartPid}]
    /\ creator \in [Threads -> Threads \cup {Nobody}]
    /\ does \in [Threads -> {"none", "run", "wait", "woken", "dead",
                         "nopid"}]
    /\ ofile \in [Threads -> [Fds -> Items \cup {Nobody}]]
    /\ f_count \in [Items -> -SignBit..SignBit - 1]
    /\ open \in [Items -> BOOLEAN]
    /\ reading \in Threads \cup {Nobody}
    /\ made \in 0..MaxCalls

\* Kernel.java:101-142: every process number is free or belongs to one process of
\* procSet, whatever the order of forks, exits and waits.
PidsAccounted ==
    /\ \A p \in Pids :
        Cardinality({t \in procSet : pid[t] = p}) + (IF Contains(pidFree, p) THEN 1 ELSE 0) = 1
    /\ IsInjective(pidFree)

\* The descriptors that refer to i.  A process that died in fork has left its copy of
\* them behind.
Referring(i) == {w \in Threads \X Fds : ofile[w[1]][w[2]] = i}

LeftBehind(i) == {w \in Referring(i) : does[w[1]] = "nopid"}

Descriptors(i) == Cardinality(Referring(i)) + Cardinality(LeftBehind(i))

\* file.h:11: f_count is the "reference count": the number of descriptors that refer to
\* the open file, in all processes, as far as it fits into the byte it is kept in.
ReferencesCounted ==
    \A i \in Items : Descriptors(i) > 0 => f_count[i] = Wrap(Descriptors(i))

\* FileItem.java:122-125: nobody's channel is closed by what others close, unless more
\* descriptors refer to it than f_count can count.
ChannelsStayOpen ==
    [][\A i \in Items : open[i] /\ ~open'[i] =>
           Descriptors(i)' = 0 \/ Descriptors(i) >= SignBit]_emulatorVars

\* The tables of processes and descriptors have their form, and numbers are neither lost
\* nor given twice.
TablesOK == EmulatorTypeOK /\ PidsAccounted

\* Kernel.java:161-165, 236-240: no notification is missed: a process does not wait while
\* one of its children is a zombie.
WaitersAreNotified ==
    \A t \in Threads : does[t] = "wait" => \A q \in Children(t) : stat[q] # "SZOMB"

\* Kernel.java:101-245, FileItem.java:122-125: forks, exits and waits in any order leave the
\* numbers, the references and the waiting parents in agreement.
EmulatorOK == TablesOK /\ ReferencesCounted /\ WaitersAreNotified

\* sys1.c:397-403: wait searches for a child: whom it finds has been forked by the waiter.
ChildrenAreForked ==
    \A t \in procSet : stat[t] = "SRUN" => \A q \in Children(t) : creator[q] = t

\* Kernel.java:217-245: every wait returns, unless an exception has ended a thread,
\* whose process then never becomes a zombie, or a process has become the child of one
\* that did not fork it: two processes may then wait for each other.
Broken == \E q \in Threads : does[q] \in {"dead", "nopid"}

WaitReturns ==
    \A t \in Threads :
        does[t] \in {"wait", "woken"} ~>
            (does[t] \notin {"wait", "woken"} \/ Broken \/ ~ChildrenAreForked)
=============================================================================
