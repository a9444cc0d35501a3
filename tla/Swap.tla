-------------------------------- MODULE Swap --------------------------------
(***************************************************************************)
(* Processes, the CPU and core: sleep, wakeup, setrun, swtch, sched,       *)
(* swapin, newproc and expand of sys/sys/slp.c, and xswap of text.c.       *)
(*                                                                         *)
(* Core is counted in units.  A process runs in the kernel until it sleeps *)
(* or is rescheduled; interrupts (a device, the clock) come between any    *)
(* two actions.  The ages by which sched chooses (p_time, p_nice) and the  *)
(* priorities by which swtch chooses are left open: any choice they could  *)
(* lead to is possible.  Text segments are in Text.tla.                    *)
(***************************************************************************)
EXTENDS Integers, FiniteSetsExt, Functions

CONSTANTS
    Procs,      \* slots of the process table but slot 0
    Sched,      \* slot 0, the scheduling process
    None,       \* no process
    First,      \* the process that exists in the beginning
    Core,       \* units of core
    MaxSize,    \* bound: the largest process
    MaxOps      \* bound: the number of forks, expansions and exits

ASSUME SwapAssumption ==
    /\ Sched \notin Procs /\ None \notin Procs \cup {Sched}
    /\ First \in Procs
    /\ Core \in Nat /\ MaxSize \in Nat /\ MaxOps \in Nat
    /\ Core >= MaxSize /\ MaxSize >= 1

VARIABLES
    stat,       \* p_stat
    flag,       \* p_flag
    wchan,      \* p_wchan, "none" when not asleep
    high,       \* high[p]: p sleeps at a priority above PZERO
    runq,       \* the processes on the run queue
    cur,        \* the process on the CPU, None while swtch looks for one
    runout,     \* sched waits for somebody to swap in
    runin,      \* sched waits for core
    freemem,    \* free core
    size,       \* p_size
    swsize,     \* p_swsize: how much of p is swapped out, if SSPART
    core,       \* core[p]: what p has in core
    base,       \* base[p]: whose core p_addr points to
    pc,         \* where each process is
    slot,       \* slot[c]: the swap map c uses in xswap
    target,     \* target[c]: the process c swaps, out or in
    amount,     \* amount[c]: -ff of a partial swap, All or Copy
    xswaplock, xswapwant,   \* text.c
    parent,     \* parent[q]: who waits in newproc for q to be swapped out
    raced,      \* history, not in the code: sched chose a process that waits in
                \* xswap for a map, which text.c:48 lets happen; some invariants
                \* hold only until then
    ops         \* counter for the bound

All == -1       \* xswap with ff = 1: everything is freed
Copy == 0       \* xswap with ff = 0: nothing is freed

schedVars == <<runout, runin>>
memVars == <<freemem, size, swsize, core, base>>
swapVars == <<slot, target, amount, xswaplock, xswapwant, parent, raced>>
vars == <<stat, flag, wchan, high, runq, cur, schedVars, memVars, pc, swapVars, ops>>

Entries == Procs \cup {Sched}

Stat == {"none", "SSLEEP", "SRUN", "SIDL"}

Flag == {"SLOAD", "SLOCK", "SSPART"}

Chan == {"none", "event", "io", "map1", "map2", "runout", "runin"}

PC == {"run", "scan", "swapin", "xswap", "xwait", "xio"}

----------------------------------------------------------------------------
(* sleep, wakeup, setrun, swtch *)

Sleepers(chans) == {p \in Entries : wchan[p] \in chans}

\* The operators named *Never, *Locked, *Any, *Lost, *Full and *New are deliberate
\* errors against which the properties are tried.
\* setrun for every process of S; one that is swapped out wakes the swapper
\* where it waits for work.
WakesSchedNever(S) == FALSE

WakesSched(S) ==
    runout /\ \E p \in S : "SLOAD" \notin flag[p]

Woken(S) == S \cup IF WakesSched(S) THEN Sleepers({"runout"}) ELSE {}

Setrun(S) ==
    /\ stat' = [p \in Entries |-> IF p \in Woken(S) THEN "SRUN" ELSE stat[p]]
    /\ wchan' = [p \in Entries |-> IF p \in Woken(S) THEN "none" ELSE wchan[p]]
    /\ runq' = runq \cup Woken(S)
    /\ runout' = (runout /\ ~WakesSched(S))

\* sleep by p on c, and swtch.
Sleep(p, c, hi) ==
    /\ stat' = [stat EXCEPT ![p] = "SSLEEP"]
    /\ wchan' = [wchan EXCEPT ![p] = c]
    /\ high' = [high EXCEPT ![p] = hi]
    /\ cur' = None

RunnableAny(p) == stat[p] = "SRUN"

Runnable(p) == stat[p] = "SRUN" /\ "SLOAD" \in flag[p]

\* swtch picks a process and takes it off the queue.
Swtch(p) ==
    /\ cur = None
    /\ p \in runq /\ Runnable(p)
    /\ runq' = runq \ {p}
    /\ cur' = p
    /\ UNCHANGED <<stat, flag, wchan, high, schedVars, memVars, pc, swapVars, ops>>

QswtchLost(p) ==
    /\ cur = p /\ p # Sched /\ pc[p] = "run"
    /\ cur' = None
    /\ UNCHANGED <<stat, flag, wchan, high, runq, schedVars, memVars, pc, swapVars, ops>>

\* qswtch on the way back to user mode.
Qswtch(p) ==
    /\ cur = p /\ p # Sched /\ pc[p] = "run"
    /\ runq' = runq \cup {p}
    /\ cur' = None
    /\ UNCHANGED <<stat, flag, wchan, high, schedVars, memVars, pc, swapVars, ops>>

\* A system call waits for a device or for another process.  At a priority
\* above PZERO that tells sched that there may be core.
SleepLow(p) ==
    /\ cur = p /\ p # Sched /\ pc[p] = "run"
    /\ Sleep(p, "event", FALSE)
    /\ UNCHANGED <<flag, runq, schedVars, memVars, pc, swapVars, ops>>

SleepHigh(p) ==
    /\ cur = p /\ p # Sched /\ pc[p] = "run"
    /\ high' = [high EXCEPT ![p] = TRUE]
    /\ cur' = None
    /\ LET w == IF runin THEN Sleepers({"runin"}) ELSE {} IN
        /\ stat' = [q \in Entries |->
                      IF q = p THEN "SSLEEP" ELSE IF q \in w THEN "SRUN" ELSE stat[q]]
        /\ wchan' = [q \in Entries |->
                      IF q = p THEN "event" ELSE IF q \in w THEN "none" ELSE wchan[q]]
        /\ runq' = runq \cup w
    /\ runin' = FALSE
    /\ UNCHANGED <<flag, runout, memVars, pc, swapVars, ops>>

\* What somebody waits for happens, or its transfer ends.
Interrupt ==
    /\ \E p \in Sleepers({"event", "io"}) : Setrun({p})
    /\ UNCHANGED <<flag, high, cur, runin, memVars, pc, swapVars, ops>>

\* clock, once a second.
Clock ==
    /\ runin
    /\ Setrun(Sleepers({"runin"}))
    /\ runin' = FALSE
    /\ UNCHANGED <<flag, high, cur, memVars, pc, swapVars, ops>>

----------------------------------------------------------------------------
(* sched and swapin *)

Waiting == {p \in Procs : stat[p] = "SRUN" /\ "SLOAD" \notin flag[p]}

SchedIdle ==
    /\ cur = Sched /\ pc[Sched] = "scan"
    /\ Waiting = {}
    /\ runout' = TRUE
    /\ Sleep(Sched, "runout", FALSE)
    /\ UNCHANGED <<flag, runq, runin, memVars, pc, swapVars, ops>>

\* What p needs in order to be in core.
Need(p) == IF "SSPART" \in flag[p] THEN swsize[p] ELSE size[p]

SwapinStartFull(p) ==
    /\ cur = Sched /\ pc[Sched] = "scan"
    /\ p \in Waiting /\ size[p] <= freemem
    /\ freemem' = freemem - size[p]
    /\ target' = [target EXCEPT ![Sched] = p]
    /\ pc' = [pc EXCEPT ![Sched] = "swapin"]
    /\ Sleep(Sched, "io", FALSE)
    /\ UNCHANGED <<flag, runq, schedVars, size, swsize, core, base, slot, amount,
                   xswaplock, xswapwant, parent, raced, ops>>

\* There is core for p, one of those that wait: it is read in.
SwapinStart(p) ==
    /\ cur = Sched /\ pc[Sched] = "scan"
    /\ p \in Waiting /\ Need(p) <= freemem
    /\ freemem' = freemem - Need(p)
    /\ target' = [target EXCEPT ![Sched] = p]
    /\ pc' = [pc EXCEPT ![Sched] = "swapin"]
    /\ Sleep(Sched, "io", FALSE)
    /\ UNCHANGED <<flag, runq, schedVars, size, swsize, core, base, slot, amount,
                   xswaplock, xswapwant, parent, raced, ops>>

SwapinEnd ==
    /\ cur = Sched /\ pc[Sched] = "swapin"
    /\ LET p == target[Sched] IN
        /\ core' = [core EXCEPT ![p] = @ + Need(p)]
        /\ base' = [base EXCEPT ![p] = p]
        /\ flag' = [flag EXCEPT ![p] = (@ \ {"SSPART"}) \cup {"SLOAD"}]
    /\ target' = [target EXCEPT ![Sched] = None]
    /\ pc' = [pc EXCEPT ![Sched] = "scan"]
    /\ UNCHANGED <<stat, wchan, high, runq, cur, schedVars, freemem, size, swsize, slot,
                   amount, xswaplock, xswapwant, parent, raced, ops>>

EvictableLocked(p) == "SLOAD" \in flag[p]

\* Whom sched may swap out at all.
Evictable(p) == {"SLOAD", "SLOCK"} \cap flag[p] = {"SLOAD"}

Partial(inp) == {p \in Procs \ {inp} : stat[p] # "none" /\ "SSPART" \in flag[p]}

BadSleepers(inp) ==
    {p \in Procs \ {inp} : Evictable(p) /\ stat[p] = "SSLEEP" /\ high[p]}

Old(inp) ==
    {p \in Procs \ {inp} : Evictable(p) /\ stat[p] \in {"SRUN", "SSLEEP"}}

Victims(inp) ==
    IF Partial(inp) # {} THEN Partial(inp)
    ELSE IF BadSleepers(inp) # {}
      THEN {p \in BadSleepers(inp) : \A q \in BadSleepers(inp) : size[q] <= size[p]}
      ELSE Old(inp)

\* What sched takes the victim to have in core: memleft.
Left(p) == IF "SSPART" \in flag[p] THEN size[p] - swsize[p] ELSE size[p]

\* There is no core for inp: swap out a victim, or enough of it.  How much more
\* than enough depends on SWAPSIZE.
Swapout(inp, v) ==
    /\ cur = Sched /\ pc[Sched] = "scan"
    /\ inp \in Waiting /\ Need(inp) > freemem
    /\ v \in Victims(inp)
    /\ \E a \in 1..Left(v) :
        /\ a >= Need(inp) - freemem \/ a = Left(v)
        /\ amount' = [amount EXCEPT ![Sched] = a]
    /\ flag' = [flag EXCEPT ![v] = @ \ {"SLOAD"}]
    /\ target' = [target EXCEPT ![Sched] = v]
    /\ pc' = [pc EXCEPT ![Sched] = "xswap"]
    /\ raced' = (raced \/ \E c \in Procs : pc[c] = "xwait" /\ target[c] = v)
    /\ UNCHANGED <<stat, wchan, high, runq, cur, schedVars, memVars, slot, xswaplock,
                   xswapwant, parent, ops>>

\* Nobody may be swapped out yet: wait for the core situation to change.
SchedNoCore ==
    /\ cur = Sched /\ pc[Sched] = "scan"
    /\ \E inp \in Waiting :
        /\ Need(inp) > freemem
        /\ Partial(inp) = {} /\ BadSleepers(inp) = {}
    /\ runin' = TRUE
    /\ Sleep(Sched, "runin", FALSE)
    /\ UNCHANGED <<flag, runq, runout, memVars, pc, swapVars, ops>>

----------------------------------------------------------------------------
(* xswap *)

Map(s) == IF s = 1 THEN "map1" ELSE "map2"

\* The second swap map is used when the first is taken and it is not.
Slot(c) ==
    IF pc[c] = "xwait" THEN slot[c]
    ELSE IF 1 \in xswaplock /\ 2 \notin xswaplock THEN 2 ELSE 1

XswapWait(c) ==
    /\ cur = c /\ pc[c] \in {"xswap", "xwait"}
    /\ Slot(c) \in xswaplock
    /\ xswapwant' = xswapwant \cup {Slot(c)}
    /\ slot' = [slot EXCEPT ![c] = Slot(c)]
    /\ pc' = [pc EXCEPT ![c] = "xwait"]
    /\ Sleep(c, Map(Slot(c)), FALSE)
    /\ UNCHANGED <<flag, runq, schedVars, memVars, target, amount, xswaplock, parent,
                   raced, ops>>

XswapStart(c) ==
    /\ cur = c /\ pc[c] \in {"xswap", "xwait"}
    /\ Slot(c) \notin xswaplock
    /\ xswaplock' = xswaplock \cup {Slot(c)}
    /\ slot' = [slot EXCEPT ![c] = Slot(c)]
    /\ LET t == target[c] IN
        /\ flag' = [flag EXCEPT ![t] =
                      @ \cup {"SLOCK"} \cup (IF amount[c] > 0 THEN {"SSPART"} ELSE {})]
        /\ swsize' = [swsize EXCEPT ![t] = IF "SSPART" \in flag[t] THEN @ ELSE 0]
    /\ pc' = [pc EXCEPT ![c] = "xio"]
    /\ Sleep(c, "io", FALSE)
    /\ UNCHANGED <<runq, schedVars, freemem, size, core, base, target, amount, xswapwant,
                   parent, raced, ops>>

\* The core that xswap frees: none for the copy a fork needs, and for an expansion
\* the size before it.
Freed(c) ==
    IF amount[c] = Copy THEN 0
    ELSE IF amount[c] = All THEN size[target[c]] - 1 ELSE amount[c]

FreeCore(c) ==
    LET t == target[c] IN
    /\ freemem' = freemem + Freed(c)
    /\ core' = [core EXCEPT ![base[t]] = @ - Freed(c)]
    /\ swsize' = [swsize EXCEPT ![t] = @ + (IF amount[c] > 0 THEN amount[c] ELSE 0)]
    /\ flag' = [flag EXCEPT ![t] =
                  @ \ ({"SLOAD", "SLOCK"} \cup
                       (IF amount[c] = Left(t) THEN {"SSPART"} ELSE {}))]
    /\ base' = [base EXCEPT ![t] = t]

\* The end of xswap wakes sched and whoever waits for the map.
XswapWakes(c) ==
    (IF runout THEN Sleepers({"runout"}) ELSE {})
      \cup (IF slot[c] \in xswapwant THEN Sleepers({Map(slot[c])}) ELSE {})

XswapDone(c) ==
    /\ cur = c /\ pc[c] = "xio"
    /\ FreeCore(c)
    /\ runout' = FALSE
    /\ xswaplock' = xswaplock \ {slot[c]}
    /\ xswapwant' = xswapwant \ {slot[c]}
    /\ slot' = [slot EXCEPT ![c] = 0]
    /\ target' = [target EXCEPT ![c] = None]
    /\ amount' = [amount EXCEPT ![c] = Copy]
    /\ wchan' = [p \in Entries |-> IF p \in XswapWakes(c) THEN "none" ELSE wchan[p]]
    /\ UNCHANGED <<high, runin, size, raced, ops>>

Awakened(c) == [p \in Entries |-> IF p \in XswapWakes(c) THEN "SRUN" ELSE stat[p]]

SwapoutEnd ==
    /\ XswapDone(Sched)
    /\ stat' = Awakened(Sched)
    /\ runq' = runq \cup XswapWakes(Sched)
    /\ pc' = [pc EXCEPT ![Sched] = "scan"]
    /\ UNCHANGED <<cur, parent>>

\* expand: the process waits on the run queue to be swapped in.
ExpandEnd(p) ==
    /\ XswapDone(p) /\ parent[p] = None
    /\ stat' = Awakened(p)
    /\ runq' = runq \cup XswapWakes(p) \cup {p}
    /\ pc' = [pc EXCEPT ![p] = "run"]
    /\ cur' = None
    /\ UNCHANGED parent

\* newproc: u.u_procp is the parent again, the child is on the run queue.
ForkEnd(q) ==
    /\ XswapDone(q) /\ parent[q] # None
    /\ stat' = [Awakened(q) EXCEPT ![parent[q]] = "SRUN"]
    /\ runq' = runq \cup XswapWakes(q) \cup {q}
    /\ pc' = [pc EXCEPT ![q] = "run"]
    /\ cur' = parent[q]
    /\ parent' = [parent EXCEPT ![q] = None]

----------------------------------------------------------------------------
(* newproc, expand, exit *)

Operation(p) ==
    /\ cur = p /\ p # Sched /\ pc[p] = "run"
    /\ ops < MaxOps
    /\ ops' = ops + 1

\* procdup found core for the child.
Fork(p, q) ==
    /\ Operation(p) /\ stat[q] = "none" /\ size[p] <= freemem
    /\ freemem' = freemem - size[p]
    /\ size' = [size EXCEPT ![q] = size[p]]
    /\ core' = [core EXCEPT ![q] = size[p]]
    /\ stat' = [stat EXCEPT ![q] = "SRUN"]
    /\ flag' = [flag EXCEPT ![q] = {"SLOAD"}]
    /\ runq' = runq \cup {q}
    /\ UNCHANGED <<wchan, high, cur, schedVars, swsize, base, pc,
                   swapVars>>

\* It did not: the copy is made by writing the parent's core to the swap device
\* as the child's.  Until that is done u.u_procp is the child.
ForkSwap(p, q) ==
    /\ Operation(p) /\ stat[q] = "none" /\ size[p] > freemem
    /\ size' = [size EXCEPT ![q] = size[p]]
    /\ base' = [base EXCEPT ![q] = p]
    /\ stat' = [stat EXCEPT ![p] = "SIDL", ![q] = "SRUN"]
    /\ flag' = [flag EXCEPT ![q] = {"SLOAD"}]
    /\ parent' = [parent EXCEPT ![q] = p]
    /\ target' = [target EXCEPT ![q] = q]
    /\ amount' = [amount EXCEPT ![q] = Copy]
    /\ pc' = [pc EXCEPT ![q] = "xswap"]
    /\ cur' = q
    /\ UNCHANGED <<wchan, high, runq, schedVars, freemem, swsize, core, slot, xswaplock,
                   xswapwant, raced>>

Expand(p) ==
    /\ Operation(p) /\ size[p] < MaxSize /\ freemem >= 1
    /\ size' = [size EXCEPT ![p] = @ + 1]
    /\ core' = [core EXCEPT ![p] = @ + 1]
    /\ freemem' = freemem - 1
    /\ UNCHANGED <<stat, flag, wchan, high, runq, cur, schedVars, swsize, base, pc,
                   swapVars>>

ExpandSwap(p) ==
    /\ Operation(p) /\ size[p] < MaxSize /\ freemem = 0
    /\ size' = [size EXCEPT ![p] = @ + 1]
    /\ target' = [target EXCEPT ![p] = p]
    /\ amount' = [amount EXCEPT ![p] = All]
    /\ pc' = [pc EXCEPT ![p] = "xswap"]
    /\ UNCHANGED <<stat, flag, wchan, high, runq, cur, schedVars, freemem, swsize, core,
                   base, slot, xswaplock, xswapwant, parent, raced>>

Shrink(p) ==
    /\ Operation(p) /\ size[p] > 1
    /\ size' = [size EXCEPT ![p] = @ - 1]
    /\ core' = [core EXCEPT ![p] = @ - 1]
    /\ freemem' = freemem + 1
    /\ UNCHANGED <<stat, flag, wchan, high, runq, cur, schedVars, swsize, base, pc,
                   swapVars>>

\* exit, and the wait that gives the slot back.
Exit(p) ==
    /\ Operation(p)
    /\ freemem' = freemem + core[p]
    /\ size' = [size EXCEPT ![p] = 0]
    /\ core' = [core EXCEPT ![p] = 0]
    /\ stat' = [stat EXCEPT ![p] = "none"]
    /\ flag' = [flag EXCEPT ![p] = {}]
    /\ cur' = None
    /\ UNCHANGED <<wchan, high, runq, schedVars, swsize, base, pc, swapVars>>

----------------------------------------------------------------------------
(* The specification *)

Init ==
    /\ stat = [p \in Entries |-> IF p \in {First, Sched} THEN "SRUN" ELSE "none"]
    /\ flag = [p \in Entries |-> IF p \in {First, Sched} THEN {"SLOAD"} ELSE {}]
    /\ wchan = [p \in Entries |-> "none"]
    /\ high = [p \in Entries |-> FALSE]
    /\ runq = {First}
    /\ cur = Sched
    /\ runout = FALSE /\ runin = FALSE
    /\ freemem = Core - 1
    /\ size = [p \in Procs |-> IF p = First THEN 1 ELSE 0]
    /\ swsize = [p \in Procs |-> 0]
    /\ core = [p \in Procs |-> IF p = First THEN 1 ELSE 0]
    /\ base = [p \in Procs |-> p]
    /\ pc = [p \in Entries |-> IF p = Sched THEN "scan" ELSE "run"]
    /\ slot = [p \in Entries |-> 0]
    /\ target = [p \in Entries |-> None]
    /\ amount = [p \in Entries |-> Copy]
    /\ xswaplock = {} /\ xswapwant = {}
    /\ parent = [p \in Procs |-> None]
    /\ raced = FALSE
    /\ ops = 0

SchedStep ==
    \/ SchedIdle \/ SwapinEnd \/ SchedNoCore \/ SwapoutEnd
    \/ \E p \in Procs : SwapinStart(p) \/ \E v \in Procs : Swapout(p, v)

ProcStep(p) ==
    \/ Qswtch(p) \/ SleepLow(p) \/ SleepHigh(p)
    \/ Expand(p) \/ ExpandSwap(p) \/ ExpandEnd(p) \/ Shrink(p) \/ Exit(p)
    \/ ForkEnd(p)
    \/ \E q \in Procs : Fork(p, q) \/ ForkSwap(p, q)

Next ==
    \/ SchedStep \/ Interrupt \/ Clock
    \/ \E p \in Procs : ProcStep(p)
    \/ \E c \in Entries : Swtch(c) \/ XswapWait(c) \/ XswapStart(c)

Spec == Init /\ [][Next]_vars
----------------------------------------------------------------------------
(* Properties *)

\* Every variable has its type; in particular core is never overdrawn.
TypeOK ==
    /\ stat \in [Entries -> Stat]
    /\ flag \in [Entries -> SUBSET Flag]
    /\ wchan \in [Entries -> Chan]
    /\ high \in [Entries -> BOOLEAN]
    /\ runq \subseteq Entries
    /\ cur \in Entries \cup {None}
    /\ runout \in BOOLEAN /\ runin \in BOOLEAN
    /\ freemem \in 0..Core
    /\ size \in [Procs -> 0..MaxSize]
    /\ swsize \in [Procs -> 0..MaxSize]
    /\ core \in [Procs -> 0..MaxSize]
    /\ base \in [Procs -> Procs]
    /\ pc \in [Entries -> PC]
    /\ slot \in [Entries -> 0..2]
    /\ target \in [Entries -> Procs \cup {None}]
    /\ amount \in [Entries -> -1..MaxSize]
    /\ xswaplock \subseteq {1, 2} /\ xswapwant \subseteq {1, 2}
    /\ parent \in [Procs -> Procs \cup {None}]
    /\ raced \in BOOLEAN
    /\ ops \in 0..MaxOps

\* slp.c:98-102: nobody is put on the run queue twice ("proc on q"), and who is
\* runnable is on it, or it would never run again.
RunqOK ==
    /\ \A p \in runq : stat[p] = "SRUN" /\ p # cur
    /\ \A p \in Entries : stat[p] = "SRUN" => p \in runq \cup {cur}
    /\ cur # None => stat[cur] = "SRUN"

\* Whoever sleeps, wakes or is swapped, the table is well formed and the run queue holds
\* exactly those who can run; the first until sched chooses one who waits in xswap.
TableOK == (raced \/ TypeOK) /\ RunqOK

\* The core of a process that runs: while it expands by a swap, what it had before; while
\* it forks by a swap, its parent's.
HasItsCore(p) ==
    IF parent[p] # None THEN core[parent[p]] = size[parent[p]]
    ELSE core[p] = size[p] - (IF pc[p] = "run" THEN 0 ELSE 1)

\* A process that runs is in core, with all of its core until sched chooses one who waits
\* in xswap.
RunsInCore == cur \in Procs => "SLOAD" \in flag[cur] /\ (raced \/ HasItsCore(cur))

\* Core is neither lost nor given out twice: what a process is taken to have, what
\* the swapper reads in and what is free always make up all of it.
SwappingIn == IF pc[Sched] = "swapin" THEN Need(target[Sched]) ELSE 0

CoreConserved ==
    freemem + SwappingIn + FoldFunction(LAMBDA a, b : a + b, 0, core) = Core

\* When sched waits for work nobody is swapped out who could run.
NobodyWaitsForSched == wchan[Sched] = "runout" => runout /\ Waiting = {}

\* Nobody is swapped by two at once unless sched chose one who waits in xswap, and who
\* waits for a swap map will be woken.
SwappedByOne ==
    /\ raced \/ \A c, d \in Entries : target[c] = target[d] /\ target[c] # None => c = d
    /\ \A c \in Entries : wchan[c] \in {"map1", "map2"} =>
        /\ slot[c] \in xswaplock \cap xswapwant
        /\ \E d \in Entries : pc[d] = "xio" /\ slot[d] = slot[c]

\* slp.c:89-102, 206-244, 425: whatever is woken, swapped, forked or expanded in the middle,
\* the process table, the run queue, the swapper and what is in core agree.
ProcessesOK ==
    TableOK /\ RunsInCore /\ CoreConserved /\ NobodyWaitsForSched /\ SwappedByOne
=============================================================================
