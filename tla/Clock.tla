------------------------------- MODULE Clock -------------------------------
(***************************************************************************)
(* The clock interrupt and the callout table of sys/sys/clock.c.           *)
(*                                                                         *)
(* The table keeps each entry's time as the difference from the one before *)
(* it.  A tick that comes while the processor's priority is raised counts, *)
(* but calls nobody and leaves the second for a later one.  timeout is at  *)
(* spl7 and the interrupt itself cannot be interrupted by another: each is *)
(* a step.  Accounting of processor time and of the disks is left out.     *)
(***************************************************************************)
EXTENDS Integers, Sequences, SequencesExt

CONSTANTS
    Funs,       \* functions that timeout is asked to call
    Periodic,   \* a function that asks again whenever it is called (dzscan)
    Period,     \* after so many ticks
    NCALL,      \* entries of the table, one of which ends it
    HZ,         \* ticks in a second
    AlarmUsers,   \* processes that set alarm clocks
    MaxTicks,   \* bound: ticks
    MaxTim,     \* bound: the longest time that is asked for, in ticks
    MaxDeltat   \* bound: the longest alarm clock, in seconds

ASSUME ClockAssumption ==
    /\ Period \in Nat \ {0} /\ NCALL \in Nat \ {0} /\ HZ \in Nat \ {0}
    /\ {MaxTicks, MaxTim, MaxDeltat} \subseteq Nat

VARIABLES
    callout,    \* entries up to the first without a function
    state,      \* "up", "panic", or "overrun" when timeout has written behind the table
    lbolt,      \* ticks since the last second
    time,       \* seconds
    clktim,     \* p_clktim
    stopped,    \* processes that are stopped
    clocked,    \* processes that SIGCLK has been sent to
    ticks,      \* history: how many ticks there have been
    second      \* history: the value of time that each alarm clock is set to

clockVars == <<callout, state, lbolt, time, clktim, stopped, clocked, ticks, second>>

----------------------------------------------------------------------------
(* The table; due is a history field: the tick that has been asked for *)

TimeUpTo(tab, n) == FoldLeft(LAMBDA s, e : s + e.time, 0, SubSeq(tab, 1, n))

\* The place of a new entry: behind those that are due no later.
PlaceFor(tab, tim) ==
    1 + Cardinality({n \in DOMAIN tab : TimeUpTo(tab, n) <= tim})

EnteredAbsolute(tab, f, tim, d) ==
    LET n == PlaceFor(tab, tim)
        rest == TimeUpTo(tab, n - 1)
    IN InsertAt(tab, n, [fun |-> f, time |-> tim - rest, due |-> d])

\* timeout; the first entry behind the new one has its time counted from it.
Entered(tab, f, tim, d) ==
    LET n == PlaceFor(tab, tim)
        rest == TimeUpTo(tab, n - 1)
        later == IF n > Len(tab) THEN tab ELSE [tab EXCEPT ![n].time = @ - (tim - rest)]
    IN InsertAt(later, n, [fun |-> f, time |-> tim - rest, due |-> d])

\* The panic looks only at where the entry goes, not at whether there is room for those
\* behind it.
StateAfter(tab, tim) ==
    IF PlaceFor(tab, tim) >= NCALL THEN "panic"
    ELSE IF Len(tab) + 1 >= NCALL THEN "overrun"
    ELSE "up"

\* dzopen asks for dzscan once.
timeout(f, tim) ==
    /\ state = "up"
    /\ f = Periodic => \A n \in DOMAIN callout : callout[n].fun # f
    /\ state' = StateAfter(callout, tim)
    /\ callout' = IF state' = "panic" THEN callout
                  ELSE Entered(callout, f, tim, ticks + tim)
    /\ UNCHANGED <<lbolt, time, clktim, stopped, clocked, ticks, second>>

----------------------------------------------------------------------------
(* clock *)

NearerFirst(tab) == IF tab = <<>> THEN tab ELSE [tab EXCEPT ![1].time = @ - 1]

\* The first entry whose time has not run out is a tick nearer.
Nearer(tab) ==
    LET n == SelectInSeq(tab, LAMBDA e : e.time > 0)
    IN IF n = 0 THEN tab ELSE [tab EXCEPT ![n].time = @ - 1]

Ran(tab) ==
    LET n == SelectInSeq(tab, LAMBDA e : e.time > 0)
    IN IF n = 0 THEN Len(tab) ELSE n - 1

\* Those that are due are called in turn, while their entries are still in the table,
\* and then taken out of it.
CallsMade(tab) ==
    LET again == {n \in 1..Ran(tab) : tab[n].fun = Periodic}
    IN IF again = {} THEN tab
       ELSE Entered(tab, Periodic, Period, ticks + 1 + Period)

Called(tab) == SubSeq(CallsMade(tab), Ran(tab) + 1, Len(CallsMade(tab)))

\* A second is over: the alarm clocks of the processes that are not stopped go on.
Running == AlarmUsers \ stopped

Second ==
    /\ time' = time + 1
    /\ clktim' = [p \in AlarmUsers |-> IF p \in Running /\ clktim[p] > 0 THEN clktim[p] - 1
                                     ELSE clktim[p]]
    /\ clocked' = clocked \cup {p \in Running : clktim[p] = 1}
    /\ second' = [p \in AlarmUsers |-> IF p \in stopped THEN second[p] + 1 ELSE second[p]]

NoSecond == UNCHANGED <<time, clktim, clocked, second>>

\* What is left of the second is kept.
Rest(l) == l - HZ

\* The interrupt when the priority of what it interrupts is basepri.
clock(basepri) ==
    LET tab == Nearer(callout)
        due == callout # <<>> /\ tab[1].time <= 0 /\ ~basepri
        l == lbolt + 1
    IN
    /\ state = "up" /\ ticks < MaxTicks
    /\ ticks' = ticks + 1
    /\ callout' = IF due THEN Called(tab) ELSE tab
    /\ state' = IF due /\ CallsMade(tab) # tab THEN StateAfter(tab, Period) ELSE state
    /\ IF l >= HZ /\ ~basepri
         THEN lbolt' = Rest(l) /\ Second
         ELSE lbolt' = l /\ NoSecond
    /\ UNCHANGED stopped

----------------------------------------------------------------------------
(* Processes *)

\* alarm sets the clock, or stops it.
alarm(p, deltat) ==
    /\ state = "up" /\ p \notin stopped
    /\ clktim' = [clktim EXCEPT ![p] = deltat]
    /\ second' = [second EXCEPT ![p] = time + deltat]
    /\ UNCHANGED <<callout, state, lbolt, time, stopped, clocked, ticks>>

\* issig takes the signal.
TakesSignal(p) ==
    /\ state = "up" /\ p \in clocked \ stopped
    /\ clocked' = clocked \ {p}
    /\ UNCHANGED <<callout, state, lbolt, time, clktim, stopped, ticks, second>>

\* A process that is traced stops and goes on.
StopsOrGoes(p) ==
    /\ state = "up"
    /\ stopped' = IF p \in stopped THEN stopped \ {p} ELSE stopped \cup {p}
    /\ UNCHANGED <<callout, state, lbolt, time, clktim, clocked, ticks, second>>

ClockInit ==
    /\ callout = <<>> /\ state = "up"
    /\ lbolt = 0 /\ time = 0 /\ ticks = 0
    /\ clktim = [p \in AlarmUsers |-> 0] /\ second = [p \in AlarmUsers |-> 0]
    /\ stopped = {} /\ clocked = {}

Alarms ==
    \E p \in AlarmUsers :
        \/ \E n \in 0..MaxDeltat : alarm(p, n)
        \/ TakesSignal(p)
        \/ StopsOrGoes(p)

ClockNext ==
    \/ \E f \in Funs, tim \in 1..MaxTim : timeout(f, tim)
    \/ \E basepri \in BOOLEAN : clock(basepri)
    \/ Alarms

ClockSpec == ClockInit /\ [][ClockNext]_clockVars

----------------------------------------------------------------------------
(* Properties *)

\* clock.c:141-143: however entries are put between others, and however ticks come while
\* nobody may be called, the differences up to an entry add up to what is left of its
\* time.  So each function is called at its tick, or at the first after it that finds the
\* priority down.
DeltasAddUp ==
    state = "up" =>
        \A n \in DOMAIN callout :
            LET left == callout[n].due - ticks
            IN TimeUpTo(callout, n) = IF left > 0 THEN left ELSE 0

\* No tick is lost, though a second that ends while the priority is raised is counted
\* later, and an alarm clock runs out with the very second it was set to, the seconds
\* not counted during which the process was stopped.
TimeKept ==
    /\ time * HZ + lbolt = ticks
    /\ \A p \in AlarmUsers : clktim[p] > 0 => time + clktim[p] = second[p]

\* clock.c:40-197: both, for the same ticks.
ClockOK == DeltasAddUp /\ TimeKept
=============================================================================
