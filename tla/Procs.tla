------------------------------- MODULE Procs -------------------------------
(***************************************************************************)
(* The life of processes: fork, exit and wait (sys1.c, slp.c), signals and *)
(* tracing (sig.c, sys4.c).  The kernel is not preempted: a step is what a *)
(* process does from one sleep, or its return to user mode, to the next.   *)
(***************************************************************************)
EXTENDS Naturals, FiniteSets, FiniteSetsExt

CONSTANTS
    ProcEntries,      \* the numbers of proc[1] and the entries after it
    Signals,      \* numbers of signals
    SIGKIL,       \* the one that ssig refuses
    MaxPid,       \* 30000 in newproc
    Terminals,
    Groups,       \* bound: the groups that are asked for by number
    MaxEvents,    \* bound: calls of fork, pause, kill, signal, ssig, ptrace
    Starts        \* states to start with: the table, ipc, t_pgrp and how many events there were

ASSUME ProcsAssumption ==
    /\ 1 \in ProcEntries /\ ProcEntries \subseteq Nat /\ IsFiniteSet(ProcEntries)
    /\ Signals \subseteq Nat \ {0} /\ SIGKIL \in Signals
    /\ MaxPid \in Nat /\ MaxPid > 3 * Cardinality(ProcEntries)
    /\ Groups \subseteq Nat

\* The signals with a function that psig leaves in place.
SIGINS == 4

SIGTRC == 5

\* The entry of process 1.
Init1 == 1

VARIABLES
    proc,         \* proc[], with what the u area of each process has to do with signals
    ipc,          \* the request of a tracer to the process it traces
    mpid,         \* the process number given last
    t_pgrp,       \* the group that the signals of a terminal go to, 0 if none
    byNumber,     \* history: a process took the number of a group it found nobody in
    events

procsVars == <<proc, ipc, mpid, t_pgrp, byNumber, events>>

Users1 == ProcEntries \ {Init1}

NoChan == <<"none", 0>>

NoProc == [stat |-> "none", pid |-> 0, ppid |-> 0, pgrp |-> 0, sig |-> {}, traced |-> FALSE,
           swted |-> FALSE, low |-> FALSE, chan |-> <<"none", 0>>, at |-> "none", peer |-> 0,
           req |-> <<"none", 0>>, act |-> [n \in Signals |-> "dfl"]]

Newborn(pid, ppid, pgrp) ==
    [NoProc EXCEPT !.stat = "SRUN", !.pid = pid, !.ppid = ppid, !.pgrp = pgrp, !.at = "user"]

\* The request is what is asked, "none" when it has been answered, "error" when it failed.
NoRequest == [lock |-> 0, req |-> <<"none", 0>>]

\* A request and the signal it goes on with, if it does.
Requests ==
    {<<"read", 0>>, <<"bad", 0>>, <<"kill", 0>>} \cup {<<"go", n>> : n \in Signals \cup {0}}

----------------------------------------------------------------------------
(* sleep, wakeup and psignal.                                              *)

Awake(P, S) ==
    [s \in ProcEntries |-> IF s \in S THEN [P[s] EXCEPT !.stat = "SRUN", !.chan = NoChan]
                       ELSE P[s]]

Wakeup(P, c) == Awake(P, {s \in ProcEntries : P[s].stat = "SSLEEP" /\ P[s].chan = c})

\* What wait sleeps on.
ChanOf(pid) == <<"proc", pid>>

Ipc == <<"ipc", 0>>

Disturbed(P, S) == {s \in S : P[s].stat = "SSLEEP" /\ P[s].low}

psignal(P, S, n) ==
    Awake([s \in ProcEntries |-> IF s \in S THEN [P[s] EXCEPT !.sig = @ \cup {n}] ELSE P[s]],
          Disturbed(P, S))

\* The signals issig stops at: it drops the ignored ones it meets before.
Deliverable(x) == IF x.traced THEN x.sig ELSE {n \in x.sig : x.act[n] # "ign"}

issig(x) ==
    [x EXCEPT !.sig = IF Deliverable(x) = {} THEN {}
                      ELSE {n \in @ : n >= Min(Deliverable(x))}]

SleptUnchecked(x, c) == [x EXCEPT !.stat = "SSLEEP", !.chan = c, !.low = TRUE]

\* sleep above PZERO: with a signal the call is given up.
Slept(x, c) ==
    IF Deliverable(x) # {} THEN [issig(x) EXCEPT !.at = "out"]
    ELSE SleptUnchecked(issig(x), c)

SleptHigh(x, c) == [x EXCEPT !.stat = "SSLEEP", !.chan = c, !.low = FALSE]

Enters(p, where) == proc[p].stat = "SRUN" /\ proc[p].at = where

\* Back from sleep above PZERO.
Interrupted(p) == Deliverable(proc[p]) # {}

SameGroups == UNCHANGED <<t_pgrp, byNumber>>

Unbounded == SameGroups /\ UNCHANGED <<mpid, events>>

Counted == events < MaxEvents /\ events' = events + 1

----------------------------------------------------------------------------
(* exit, wait and fork.                                                    *)

\* exit ignores all signals and stops being traced before it closes the files.
Exiting(x) ==
    [x EXCEPT !.traced = FALSE, !.act = [n \in Signals |-> "ign"], !.at = "exit",
              !.stat = "SRUN"]

rexit(p) ==
    /\ p # Init1 /\ Enters(p, "user")
    /\ proc' = [proc EXCEPT ![p] = Exiting(@)]
    /\ UNCHANGED ipc /\ Unbounded

Children(p) == {q \in ProcEntries : proc[q].stat # "none" /\ proc[q].ppid = proc[p].pid}

StoppedForgotten(p) == {}

StoppedChildren(p) == {q \in Children(p) : proc[q].stat = "SSTOP"}

exit(p) ==
    LET orphans == [s \in ProcEntries |->
            IF s \in Children(p) THEN [proc[s] EXCEPT !.ppid = 1] ELSE proc[s]]
        woken == IF Children(p) = {} THEN orphans ELSE Wakeup(orphans, ChanOf(1))
        running == Awake(woken, StoppedChildren(p))
    IN
    /\ Enters(p, "exit")
    /\ proc' = Wakeup([running EXCEPT ![p].stat = "SZOMB", ![p].at = "none"],
                      ChanOf(proc[p].ppid))
    /\ UNCHANGED ipc /\ Unbounded

\* wait takes a zombie or reports a stopped child once, or sleeps while it has children.
Buried(q) == proc[q].stat = "SZOMB"

Reports(q) == proc[q].stat = "SSTOP" /\ ~proc[q].swted

WaitReturns(P, p) == [P EXCEPT ![p].at = "user"]

wait(p) ==
    /\ Enters(p, "user") \/ (Enters(p, "wait") /\ ~Interrupted(p))
    /\ \/ \E q \in Children(p) :
            \/ Buried(q) /\ proc' = WaitReturns([proc EXCEPT ![q] = NoProc], p)
            \/ Reports(q) /\ proc' = WaitReturns([proc EXCEPT ![q].swted = TRUE], p)
       \/ /\ \A q \in Children(p) : ~Buried(q) /\ ~Reports(q)
          /\ Children(p) # {}
          /\ proc' = [proc EXCEPT ![p] = Slept([@ EXCEPT !.at = "wait"], ChanOf(@.pid))]
       \/ /\ Children(p) = {} /\ proc' = WaitReturns(proc, p)
    /\ UNCHANGED ipc /\ Unbounded

NumbersOfProcesses(n) == {n} \cup {proc[s].pid : s \in ProcEntries}

\* newproc gives the next number that is neither a process nor a group.
Numbers(n) ==
    {n} \cup {proc[s].pgrp : s \in ProcEntries} \cup {proc[s].pid : s \in ProcEntries}

NextPid ==
    LET after(k) == 1 + ((mpid + k - 1) % (MaxPid - 1))
    IN after(Min({k \in 1..MaxPid : after(k) \notin Numbers(0)}))

Free == {q \in ProcEntries : proc[q].stat = "none"}

fork(p) ==
    /\ Enters(p, "user") /\ Counted
    /\ Free # {}
    /\ mpid' = NextPid
    /\ proc' = [proc EXCEPT ![Min(Free)] =
           [Newborn(NextPid, proc[p].pid, proc[p].pgrp) EXCEPT !.act = proc[p].act]]
    /\ UNCHANGED ipc /\ SameGroups

Group(g) == {q \in Users1 : proc[q].stat # "none" /\ proc[q].pgrp = g}

Joins(p, g) == proc' = [proc EXCEPT ![p].pgrp = g] /\ UNCHANGED ipc

\* A process without a group opens a terminal: it starts the terminal's group, or joins it.
ttyopen(p, t) ==
    /\ p # Init1 /\ Enters(p, "user") /\ proc[p].pgrp = 0
    /\ LET g == IF t_pgrp[t] = 0 THEN proc[p].pid ELSE t_pgrp[t] IN
       /\ Joins(p, g)
       /\ t_pgrp' = [t_pgrp EXCEPT ![t] = g]
       /\ byNumber' = (byNumber \/ (t_pgrp[t] # 0 /\ Group(g) = {}))
    /\ UNCHANGED <<mpid, events>>

\* The last close: whoever has the terminal open, of the group or not, keeps the number there.
ttyclose(t) ==
    /\ t_pgrp[t] # 0
    /\ t_pgrp' = [t_pgrp EXCEPT ![t] = 0]
    /\ UNCHANGED <<proc, ipc, mpid, byNumber, events>>

\* A process asks mpx for a group of its own, or for any other.
npgrp(p, g) ==
    /\ p # Init1 /\ Enters(p, "user") /\ Counted
    /\ Joins(p, IF g = 0 THEN proc[p].pid ELSE g)
    /\ byNumber' = (byNumber \/ g \notin {0, proc[p].pid})
    /\ UNCHANGED <<mpid, t_pgrp>>

----------------------------------------------------------------------------
(* Signals: kill and the terminals send them, ssig chooses what they do.   *)

Sends(S, n) ==
    /\ S # {} /\ Counted
    /\ proc' = psignal(proc, S, n)
    /\ UNCHANGED <<ipc, mpid>> /\ SameGroups

\* To one process or to the caller's group; process 1 belongs to the super-user.
kill(p, n) ==
    /\ p # Init1 /\ Enters(p, "user")
    /\ \/ Sends(Group(proc[p].pgrp), n)
       \/ \E q \in Users1 : proc[q].stat # "none" /\ Sends({q}, n)

signal(n) == \E q \in Users1 : proc[q].pgrp # 0 /\ Sends(Group(proc[q].pgrp), n)

ssig(p, n, a) ==
    /\ p # Init1 /\ Enters(p, "user") /\ n # SIGKIL /\ Counted
    /\ proc' = [proc EXCEPT ![p].act[n] = a, ![p].sig = @ \ {n}]
    /\ UNCHANGED <<ipc, mpid>> /\ SameGroups

pause(p) ==
    /\ \/ p # Init1 /\ Enters(p, "user") /\ Counted
       \/ Enters(p, "pause") /\ ~Interrupted(p) /\ UNCHANGED events
    /\ proc' = [proc EXCEPT ![p] = Slept([@ EXCEPT !.at = "pause"], <<"u", 0>>)]
    /\ UNCHANGED <<ipc, mpid>> /\ SameGroups

\* An interrupted sleep: the system call returns with EINTR.
GivesUp(p) ==
    /\ Enters(p, "wait") \/ Enters(p, "pause")
    /\ Interrupted(p)
    /\ proc' = [proc EXCEPT ![p] = [issig(@) EXCEPT !.at = "out"]]
    /\ UNCHANGED ipc /\ Unbounded

\* A function is called once, but for those two.
HandlersAfter(act, n) == IF n \in {SIGINS, SIGTRC} THEN act ELSE [act EXCEPT ![n] = "dfl"]

\* What psig does with the first signal, in u_signal: nothing, a function, or exit.
Acts(x) ==
    IF x.sig = {} THEN [x EXCEPT !.at = "user", !.stat = "SRUN"]
    ELSE LET n == Min(x.sig)
             y == [x EXCEPT !.sig = @ \ {n}, !.stat = "SRUN"]
         IN IF x.act[n] = "dfl" THEN Exiting(y)
            ELSE [y EXCEPT !.act = HandlersAfter(y.act, n), !.at = "user"]

\* stop: the parent is told, if it is not process 1.
stop(P, p) ==
    IF P[p].ppid # 1 /\ \E q \in ProcEntries : P[q].stat # "none" /\ P[q].pid = P[p].ppid
    THEN Wakeup([P EXCEPT ![p].stat = "SSTOP", ![p].at = "stop"], ChanOf(P[p].ppid))
    ELSE [P EXCEPT ![p] = Exiting(@)]

\* On the way to user mode a process looks at its signals.
psig(p) ==
    LET x == issig(proc[p]) IN
    /\ Enters(p, "out") \/ (Enters(p, "user") /\ proc[p].sig # {})
    /\ proc' = IF x.sig = {} THEN [proc EXCEPT ![p] = [x EXCEPT !.at = "user"]]
               ELSE IF x.traced THEN stop([proc EXCEPT ![p] = x], p)
               ELSE [proc EXCEPT ![p] = Acts(x)]
    /\ UNCHANGED ipc /\ Unbounded

----------------------------------------------------------------------------
(* Tracing.                                                                *)

TraceMe(p) ==
    /\ p # Init1 /\ Enters(p, "user") /\ ~proc[p].traced /\ Counted
    /\ proc' = [proc EXCEPT ![p].traced = TRUE]
    /\ UNCHANGED <<ipc, mpid>> /\ SameGroups

\* The tracer has the lock: it asks, and sleeps until the answer.
Asks(p, q, r) ==
    /\ ipc' = [lock |-> proc[q].pid, req |-> r]
    /\ proc' = Awake([proc EXCEPT ![q].swted = FALSE, ![p] = SleptHigh(
                        [@ EXCEPT !.at = "asked", !.peer = 0, !.req = NoRequest.req], Ipc)], {q})

Ask(p, q, r) ==
    \/ ipc.lock = 0 /\ Asks(p, q, r)
    \/ /\ ipc.lock # 0
       /\ proc' = [proc EXCEPT ![p] = SleptHigh(
              [@ EXCEPT !.at = "asks", !.peer = proc[q].pid, !.req = r], Ipc)]
       /\ UNCHANGED ipc

ptrace(p, r) ==
    /\ Enters(p, "user") /\ p # Init1 /\ Counted
    /\ \E q \in Children(p) : proc[q].stat = "SSTOP" /\ Ask(p, q, r)
    /\ UNCHANGED mpid /\ SameGroups

\* It had to wait for the lock.
AsksAgain(p) ==
    /\ Enters(p, "asks")
    /\ \E q \in ProcEntries : proc[q].pid = proc[p].peer /\ Ask(p, q, proc[p].req)
    /\ Unbounded

Answered(p) ==
    /\ Enters(p, "asked")
    /\ \/ /\ ipc.req[1] \in {"none", "error"}
          /\ ipc' = NoRequest
          /\ proc' = Wakeup([proc EXCEPT ![p].at = "user"], Ipc)
       \/ /\ ipc.req[1] \notin {"none", "error"}
          /\ proc' = [proc EXCEPT ![p] = SleptHigh(@, Ipc)]
          /\ UNCHANGED ipc
    /\ Unbounded

\* procxmt: the traced process does what it is asked, and stops again unless it may go.
Served(p, P) ==
    CASE ipc.req[1] = "kill" -> [P EXCEPT ![p] = Exiting(@)]
      [] ipc.req[1] \in {"read", "bad"} -> stop(P, p)
      [] ipc.req[1] = "go" -> [P EXCEPT ![p] = Acts([@ EXCEPT !.sig = {ipc.req[2]} \ {0}])]

Continues(p) ==
    /\ Enters(p, "stop")
    /\ \/ /\ ipc.lock = proc[p].pid
          /\ proc' = Served(p, Wakeup(proc, Ipc))
          /\ ipc' = [ipc EXCEPT !.req = <<IF @[1] = "bad" THEN "error" ELSE "none", 0>>]
       \/ /\ ipc.lock # proc[p].pid
          /\ proc' = stop(proc, p)
          /\ UNCHANGED ipc
    /\ Unbounded

----------------------------------------------------------------------------
(* What the process table is like after every step, whatever it started as. *)

Stats == {"none", "SRUN", "SSLEEP", "SSTOP", "SZOMB"}

Places == {"none", "user", "out", "exit", "wait", "pause", "stop", "asked", "asks"}

Asked == {"none", "error", "read", "bad", "kill", "go"} \X (Signals \cup {0})

Processes ==
    [stat : Stats, pid : Nat, ppid : Nat, pgrp : Nat, sig : SUBSET Signals,
     traced : BOOLEAN, swted : BOOLEAN, low : BOOLEAN,
     chan : {"none", "ipc", "u", "proc"} \X Nat, at : Places, peer : Nat, req : Asked,
     act : [Signals -> {"dfl", "ign", "fun"}]]

\* Process 1 only waits and forks.
Quiet(x) ==
    /\ x.pid = 1 /\ x.ppid = 0 /\ x.pgrp = 0 /\ x.sig = {} /\ ~x.traced
    /\ x.stat \in {"SRUN", "SSLEEP"} /\ x.at \in {"user", "wait"}

\* Where a process is fits its state.
Placed(x) ==
    /\ x.stat = "none" <=> x.pid = 0
    /\ x.stat \in {"none", "SZOMB"} => x.at = "none"
    /\ x.stat = "SSTOP" => x.at = "stop" /\ x.ppid # 1
    /\ x.stat = "SSLEEP" =>
         \/ x.at = "wait" /\ x.low /\ x.chan = ChanOf(x.pid)
         \/ x.at = "pause" /\ x.low
         \/ x.at \in {"asked", "asks"} /\ ~x.low /\ x.chan = Ipc

Kid(P, p, q) == P[q].stat # "none" /\ P[q].ppid = P[p].pid

News(x) == x.stat = "SZOMB" \/ (x.stat = "SSTOP" /\ ~x.swted)

TableTypes(P, i) ==
    /\ P \in [ProcEntries -> Processes]
    /\ i \in [lock : Nat, req : Asked]
    /\ Quiet(P[Init1])
    /\ \A s \in ProcEntries : Placed(P[s])

\* Every process but 1 has a parent, which is no zombie.
ParentsLive(P) ==
    \A s \in ProcEntries \ {Init1} : P[s].stat # "none" =>
        \E q \in ProcEntries : P[q].stat \notin {"none", "SZOMB"} /\ Kid(P, q, s)

NumbersName(P) ==
    \A p, q \in ProcEntries : P[p].stat # "none" /\ P[q].stat # "none" =>
        /\ P[p].pid = P[q].pid => p = q
        /\ P[p].pid = P[q].pgrp => P[p].pgrp = P[q].pgrp

\* Who waits or pauses has no signal to act on, and who waits has children, none with news.
Heard(P) ==
    \A p \in ProcEntries : P[p].stat = "SSLEEP" =>
        /\ P[p].at \in {"wait", "pause"} => Deliverable(P[p]) = {}
        /\ P[p].at = "wait" => /\ \E q \in ProcEntries : Kid(P, p, q)
                               /\ \A q \in ProcEntries : Kid(P, p, q) => ~News(P[q])

\* A stopped process that has been let go on, and has not yet.
AboutToAnswer(x) == x.stat = "SRUN" /\ x.at = "stop"

\* The one request is that of the one who has asked: its child is about to answer, or has
\* answered and the tracer is about to run.
OneAsks(P, i) ==
    /\ \A p \in ProcEntries : P[p].at = "asked" =>
        /\ i.lock # 0
        /\ \A q \in ProcEntries : P[q].at = "asked" => p = q
        /\ \E q \in ProcEntries :
             /\ Kid(P, p, q) /\ P[q].pid = i.lock
             /\ \/ i.req \in Requests /\ AboutToAnswer(P[q])
                \/ /\ i.req[1] \in {"none", "error"} /\ P[p].stat = "SRUN"
                   /\ ~AboutToAnswer(P[q])
    /\ i.lock # 0 => \E p \in ProcEntries : P[p].at = "asked"

\* Whom a process waits to ask stays stopped, and it waits for one who has asked.
OthersWait(P) ==
    \A p \in ProcEntries : P[p].at = "asks" =>
        /\ P[p].req \in Requests
        /\ \E q \in ProcEntries : Kid(P, p, q) /\ P[q].pid = P[p].peer /\ P[q].stat = "SSTOP"
        /\ P[p].stat = "SSLEEP" => \E q \in ProcEntries : P[q].at = "asked"

TableSound(P, i) ==
    /\ TableTypes(P, i) /\ ParentsLive(P) /\ NumbersName(P) /\ Heard(P)
    /\ OneAsks(P, i) /\ OthersWait(P)

\* A behaviour starts as the table may be then: as it is when only process 1 runs, or as it
\* has become since.
ASSUME StartsAssumption ==
    \A start \in Starts :
        TableSound(start.table, start.ipc) /\ start.t_pgrp \in [Terminals -> Nat]

----------------------------------------------------------------------------

ProcsInit ==
    /\ \E start \in Starts : /\ proc = start.table /\ ipc = start.ipc
                             /\ t_pgrp = start.t_pgrp /\ events = start.had
    /\ mpid = MaxPid - 1 /\ byNumber = FALSE

Kernel(p) ==
    \/ Enters(p, "wait") /\ wait(p)
    \/ Enters(p, "pause") /\ pause(p)
    \/ exit(p) \/ GivesUp(p) \/ psig(p) \/ AsksAgain(p) \/ Answered(p) \/ Continues(p)

Calls(p) ==
    \/ Enters(p, "user") /\ wait(p)
    \/ Enters(p, "user") /\ pause(p)
    \/ rexit(p) \/ fork(p) \/ TraceMe(p)
    \/ \E t \in Terminals : ttyopen(p, t)
    \/ \E g \in Groups : npgrp(p, g)
    \/ \E n \in Signals : kill(p, n) \/ \E a \in {"dfl", "ign", "fun"} : ssig(p, n, a)
    \/ \E r \in Requests : ptrace(p, r)

ProcsNext ==
    \/ \E p \in ProcEntries : Kernel(p) \/ Calls(p)
    \/ \E n \in Signals : signal(n)
    \/ \E t \in Terminals : ttyclose(t)

ProcsSpec == ProcsInit /\ [][ProcsNext]_procsVars

----------------------------------------------------------------------------

\* Nobody sleeps through what he waits for, whatever came between his look and his sleep:
\* a sleeper in wait has no child to take or report, one above PZERO no signal to act on;
\* a tracer that has asked is answered by a process that is about to run, and one that
\* waits to ask is woken by that tracer.
NothingSleptThrough ==
    \A p \in ProcEntries : proc[p].stat = "SSLEEP" =>
        CASE proc[p].at = "wait" ->
               /\ Deliverable(proc[p]) = {} /\ Children(p) # {}
               /\ \A q \in Children(p) : ~Buried(q) /\ ~Reports(q)
          [] proc[p].at = "pause" -> Deliverable(proc[p]) = {}
          [] proc[p].at = "asked" ->
               /\ ipc.req \in Requests
               /\ \E q \in Children(p) : proc[q].pid = ipc.lock /\ Enters(q, "stop")
          [] proc[p].at = "asks" -> \E q \in ProcEntries : proc[q].at = "asked"

\* A number names one process, though numbers are used again.  It is not that of a group the
\* process is not in, else a signal would reach strangers, until a process has taken the number
\* of a group by itself: that of a terminal which others kept open when the group was gone
\* (newproc does not look there), or any it asked mpx for.
NumbersAreUnique ==
    \A p, q \in ProcEntries : proc[p].stat # "none" /\ proc[q].stat # "none" =>
        /\ proc[p].pid = proc[q].pid => p = q
        /\ byNumber \/ (proc[p].pid = proc[q].pgrp => proc[p].pgrp = proc[q].pgrp)

\* A stopped process has a tracer that can let it go: its parent lives and is not 1.
StoppedAreTraced ==
    \A p \in ProcEntries : proc[p].stat = "SSTOP" =>
        \E q \in Users1 : proc[q].pid = proc[p].ppid /\ proc[q].stat \notin {"none", "SZOMB"}

\* slp.c:504-515, sys1.c:381-386: whatever exits, forks and traces come in between, the process
\* table names each process by one number, and no stopped one has lost its tracer.
FamiliesOK == NumbersAreUnique /\ StoppedAreTraced
=============================================================================
