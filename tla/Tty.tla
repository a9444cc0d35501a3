-------------------------------- MODULE Tty --------------------------------
(***************************************************************************)
(* A terminal: the queues and the line discipline of sys/sys/tty.c on a    *)
(* line of the DZ-11 (sys/sys/dz.c).                                       *)
(*                                                                         *)
(* Processes read, write, set modes, open and close; the device delivers   *)
(* characters, takes them, and loses and regains the carrier at interrupt  *)
(* level.  The terminal is a record t, and each procedure of the code an   *)
(* operator that takes a record to the one it leaves behind.  What the     *)
(* code does at spl5, and what it does without letting an interrupt in     *)
(* that could tell, is one step.  Columns, letter cases, speeds and, in    *)
(* raw mode, the bytes above 0177 are left out.                            *)
(***************************************************************************)
EXTENDS Integers, Sequences, SequencesExt

CONSTANTS
    Users,      \* processes; all in the terminal's process group
    Nobody,     \* no process
    Typed,      \* bound: the characters that are typed
    MaxTyped,   \* bound: how many are typed
    MaxCalls,   \* bound: how many calls are made
    Modes,      \* bound: the values of t_flags that are set
    MaxWrite,   \* bound: the longest write
    NCLIST,     \* characters that all queues together can hold
    TTYHOG, TTIME, TTLOWAT, CANBSIZ

Special == {"nl", "erase", "kill", "bs", "eot", "intr", "stop"}

\* The bit by which the driver knows HUPCLS is one of those of NLDELAY.
Flags == {"RAW", "CBREAK", "ECHO", "TANDEM", "HUPCLS"}

ASSUME TtyAssumption ==
    /\ Nobody \notin Users
    /\ Typed \subseteq Special \cup {"a"} /\ Modes \subseteq SUBSET Flags
    /\ {MaxTyped, MaxCalls, MaxWrite, NCLIST, TTYHOG, TTIME, TTLOWAT, CANBSIZ} \subseteq Nat
    /\ TTLOWAT <= TTIME /\ TTIME > 0 /\ CANBSIZ > 0

VARIABLES
    t,          \* the terminal; t.stalled is history, not in the code: nothing is under way
                \* that would wake who waits for the output
    who,        \* who is in the kernel, Nobody while all sleep or are in user mode
    at,         \* at[p]: where p is
    call,       \* call[p]: the call it makes
    left,       \* left[p]: u_count
    slept,      \* slept[p]: the queue p sleeps on, "none" when it does not
    sigs,       \* the processes with a signal
    canonb,     \* the line canon puts together
    opens,      \* the processes that have the terminal open
    carrier,    \* the line's carrier
    slipped,    \* history, not in the code: t_delct has gone wrong, by a flush at
                \* interrupt level in canon, or by a delimiter that canon took as data
    typed, calls    \* counters for the bounds

ttyVars == <<t, who, at, call, left, slept, sigs, canonb, opens, carrier, slipped, typed,
             calls>>

----------------------------------------------------------------------------
(* Queues; a character takes a place of the common pool *)

Used(s) == Len(s.rawq) + Len(s.canq) + Len(s.outq)

Raw(s) == {"RAW", "CBREAK"} \cap s.flags # {}

\* putc of the characters c on queue q, as long as there is room.
Putc(s, q, c) ==
    [s EXCEPT ![q] = @ \o SubSeq(c, 1, Min({Len(c), NCLIST - Used(s)}))]

Room(s) == Used(s) < NCLIST

Delayed(s) ==
    [s EXCEPT !.outq = Tail(@), !.tcr = FALSE, !.state = @ \cup {"TIMEOUT"},
              !.delays = @ + 1, !.stalled = FALSE]

Sent(s) ==
    [s EXCEPT !.outq = Tail(@), !.tcr = TRUE, !.state = @ \cup {"BUSY"}, !.stalled = FALSE]

IsDelay(s) == Head(s.outq) = "delay" /\ "RAW" \notin s.flags

RoomMade(s) ==
    IF Len(s.outq) <= TTLOWAT /\ "ASLEEP" \in s.state
    THEN [s EXCEPT !.state = @ \ {"ASLEEP"}, !.wake = @ \cup {"outq"}] ELSE s

FetchReturning(s) == IF IsDelay(s) THEN Delayed(s) ELSE RoomMade(Sent(s))

\* dzstart: the next character goes to the device, or begins a delay, and whoever waits
\* for room is woken.
Fetch(s) == RoomMade(IF IsDelay(s) THEN Delayed(s) ELSE Sent(s))

Ttstart(s) ==
    IF {"TIMEOUT", "TTSTOP", "BUSY"} \cap s.state = {} /\ s.outq # <<>> THEN Fetch(s) ELSE s

FlushttyQueues(s) ==
    [s EXCEPT !.canq = <<>>, !.outq = <<>>, !.rawq = <<>>, !.wake = {"rawq", "outq"},
              !.stalled = FALSE]

Flushtty(s) ==
    [s EXCEPT !.canq = <<>>, !.outq = <<>>, !.rawq = <<>>, !.delct = 0,
              !.wake = {"rawq", "outq"}, !.stalled = FALSE]

\* What ttyoutput makes of a character.
Printed(s, c) ==
    IF "RAW" \in s.flags THEN <<c>>
    ELSE IF c = "eot" \/ (c = "stop" /\ "TANDEM" \in s.flags) THEN <<>>
    ELSE IF c = "nl" /\ "HUPCLS" \in s.flags THEN <<"nl", "delay">>
    ELSE <<c>>

Ttyoutput(s, c) == Putc(s, "outq", Printed(s, c))

----------------------------------------------------------------------------
(* ttyinput *)

\* More than half of what may be typed ahead: tell the other side to stop.
Block(s) ==
    IF /\ "TANDEM" \in s.flags /\ "TBLOCK" \notin s.state
       /\ 2 * Len(s.rawq) >= TTYHOG /\ Room(s)
      THEN Ttstart([Putc(s, "outq", <<"stop">>) EXCEPT !.state = @ \cup {"TBLOCK"}])
      ELSE s

\* A line is complete when its delimiter has been put on the queue.
Delimit(s, c) ==
    IF Raw(s) THEN [s EXCEPT !.wake = @ \cup {"rawq"}]
    ELSE IF c \notin {"nl", "eot"} THEN s
    ELSE IF Room(s)
      THEN [Putc(s, "rawq", <<"delim">>) EXCEPT !.delct = @ + 1, !.wake = @ \cup {"rawq"}]
      ELSE [s EXCEPT !.wake = @ \cup {"rawq"}]

Echo(s, c) ==
    IF "ECHO" \in s.flags
      THEN LET e == Ttyoutput(s, c)
           IN Ttstart(IF c = "kill" /\ ~Raw(s) THEN Ttyoutput(e, "nl") ELSE e)
      ELSE s

Enqueue(s, c) == Echo(Delimit(Putc(s, "rawq", <<c>>), c), c)

Active(s) == {"BUSY", "TIMEOUT"} \cap s.state # {}

\* Any other character lets the output go on, and does not start it.
LetGo(s) ==
    [s EXCEPT !.state = @ \ {"TTSTOP"},
              !.stalled = @ \/ ("TTSTOP" \in s.state /\ s.outq # <<>> /\ ~Active(s))]

\* The terminal after c has been typed.
Ttyinput(s, c) ==
    LET b == Block(s)
        go == LetGo(b)
    IN IF "RAW" \in s.flags
         THEN IF Len(b.rawq) > TTYHOG THEN Flushtty(b) ELSE Enqueue(b, c)
       ELSE IF c = "stop"
         THEN IF "TTSTOP" \in b.state THEN Ttstart(go)
              ELSE [b EXCEPT !.state = @ \cup {"TTSTOP"}]
       ELSE IF c = "intr" \/ Len(b.rawq) > TTYHOG THEN Flushtty(go)
       ELSE Enqueue(go, c)

----------------------------------------------------------------------------
(* sleep, wakeup and signals *)

\* The terminal becomes s, and whom that wakes can run.
Becomes(s) ==
    /\ t' = [s EXCEPT !.wake = {}]
    /\ slept' = [p \in Users |-> IF slept[p] \in s.wake THEN "none" ELSE slept[p]]

\* p has woken the queues w and sleeps on q, unless it has a signal: then the call ends
\* here.
SleepOrLeave(p, q, w) ==
    /\ slept' = [x \in Users |-> IF x = p /\ p \notin sigs THEN q
                                 ELSE IF slept[x] \in w THEN "none" ELSE slept[x]]
    /\ IF p \in sigs
         THEN who' = p /\ at' = [at EXCEPT ![p] = "leave"]
         ELSE who' = Nobody /\ UNCHANGED at

\* One that was woken goes on.
Resume(p) ==
    /\ who = Nobody /\ at[p] # "user" /\ slept[p] = "none"
    /\ who' = p
    /\ at' = IF p \in sigs THEN [at EXCEPT ![p] = "leave"] ELSE at
    /\ UNCHANGED <<t, call, left, slept, sigs, canonb, opens, carrier, slipped, typed,
                   calls>>

\* The end of a call.  One that was interrupted has left what it held as it was.
TtyReturn(p) ==
    /\ who = p /\ at[p] = "leave"
    /\ at' = [at EXCEPT ![p] = "user"]
    /\ who' = Nobody
    /\ sigs' = sigs \ {p}
    /\ opens' = IF call[p] = "close" THEN opens \ {p} ELSE opens
    /\ call' = [call EXCEPT ![p] = "none"]
    /\ left' = [left EXCEPT ![p] = 0]
    /\ UNCHANGED <<t, slept, canonb, carrier, slipped, typed, calls>>

\* p goes to l; nothing else of the processes changes.
GoesTo(p, l) == at' = [at EXCEPT ![p] = l] /\ UNCHANGED <<who, call>>

InKernel(p, l) == who = p /\ at[p] = l

----------------------------------------------------------------------------
(* System calls *)

Begin(p, c, l) ==
    /\ who = Nobody /\ at[p] = "user" /\ calls < MaxCalls
    /\ c = "open" <=> p \notin opens
    /\ who' = p
    /\ call' = [call EXCEPT ![p] = c]
    /\ at' = [at EXCEPT ![p] = l]
    /\ calls' = calls + 1
    /\ UNCHANGED <<sigs, canonb, opens, carrier, typed>>

\* dzopen: the first open sets the modes.
BeginOpen(p) ==
    /\ Begin(p, "open", "open")
    /\ t' = [t EXCEPT !.state = @ \cup {"WOPEN"}, !.dtr = TRUE,
                      !.flags = IF "ISOPEN" \in t.state THEN @ ELSE {"ECHO", "HUPCLS"}]
    /\ UNCHANGED <<left, slept, slipped>>

OpenWait(p) ==
    /\ InKernel(p, "open") /\ "CARR_ON" \notin t.state
    /\ t' = [t EXCEPT !.state = @ \cup {"WOPEN"}]
    /\ SleepOrLeave(p, "rawq", {})
    /\ UNCHANGED <<call, left, sigs, canonb, opens, carrier, slipped, typed, calls>>

\* Interrupts come again before ttyopen, and the carrier may go.
OpenCarrier(p) ==
    /\ InKernel(p, "open") /\ "CARR_ON" \in t.state
    /\ GoesTo(p, "opened")
    /\ UNCHANGED <<t, left, slept, sigs, canonb, opens, carrier, slipped, typed, calls>>

\* ttyopen.
OpenEnd(p) ==
    /\ InKernel(p, "opened")
    /\ t' = [t EXCEPT !.state = (@ \ {"WOPEN"}) \cup {"ISOPEN"}, !.pgrp = TRUE]
    /\ opens' = opens \cup {p}
    /\ GoesTo(p, "leave")
    /\ UNCHANGED <<left, slept, sigs, canonb, carrier, slipped, typed, calls>>

\* ttread: what is in canq is read without waiting.
BeginRead(p) ==
    /\ Begin(p, "read", IF "CARR_ON" \notin t.state THEN "leave"
                        ELSE IF t.canq # <<>> THEN "passc" ELSE "canon")
    /\ \E n \in {1, CANBSIZ} : left' = [left EXCEPT ![p] = n]
    /\ UNCHANGED <<t, slept, slipped>>

NothingTyped(s) == IF Raw(s) THEN s.rawq = <<>> ELSE s.delct = 0

CanonWait(p) ==
    /\ InKernel(p, "canon") /\ NothingTyped(t) /\ "CARR_ON" \in t.state
    /\ SleepOrLeave(p, "rawq", {})
    /\ UNCHANGED <<t, call, left, sigs, canonb, opens, carrier, slipped, typed, calls>>

CanonHangup(p) ==
    /\ InKernel(p, "canon") /\ NothingTyped(t) /\ "CARR_ON" \notin t.state
    /\ GoesTo(p, "leave")
    /\ UNCHANGED <<t, left, slept, sigs, canonb, opens, carrier, slipped, typed, calls>>

CanonStart(p) ==
    /\ InKernel(p, "canon") /\ ~NothingTyped(t)
    /\ canonb' = <<>>
    /\ GoesTo(p, "line")
    /\ UNCHANGED <<t, left, slept, sigs, opens, carrier, slipped, typed, calls>>

\* The line b after c: erase and kill, unless they are escaped.
Edited(b, c) ==
    IF b # <<>> /\ Last(b) = "bs"
      THEN Append(IF c \in {"erase", "kill", "eot"} THEN Front(b) ELSE b, c)
    ELSE IF c = "erase" THEN (IF b = <<>> THEN b ELSE Front(b))
    ELSE IF c = "kill" THEN <<>>
    ELSE IF c = "eot" THEN b
    ELSE Append(b, c)

LineGoesOn == t.rawq # <<>> /\ Len(canonb) < CANBSIZ

\* Interrupts come between any two characters.  In raw mode a delimiter is data like any
\* other, and is not counted.
CanonChar(p) ==
    /\ InKernel(p, "line") /\ LineGoesOn
    /\ Raw(t) \/ Head(t.rawq) # "delim"
    /\ t' = [t EXCEPT !.rawq = Tail(@)]
    /\ canonb' = IF Raw(t) THEN Append(canonb, Head(t.rawq))
                 ELSE Edited(canonb, Head(t.rawq))
    /\ slipped' = (slipped \/ Head(t.rawq) = "delim")
    /\ UNCHANGED <<who, at, call, left, slept, sigs, opens, carrier, typed, calls>>

CanonDelim(p) ==
    /\ InKernel(p, "line") /\ LineGoesOn
    /\ ~Raw(t) /\ Head(t.rawq) = "delim"
    /\ t' = [t EXCEPT !.rawq = Tail(@)]
    /\ GoesTo(p, "delct")
    /\ UNCHANGED <<left, slept, sigs, canonb, opens, carrier, slipped, typed, calls>>

\* ... and between taking the delimiter off the queue and counting it.
CanonCount(p) ==
    /\ InKernel(p, "delct")
    /\ t' = [t EXCEPT !.delct = @ - 1]
    /\ GoesTo(p, "end")
    /\ UNCHANGED <<left, slept, sigs, canonb, opens, carrier, slipped, typed, calls>>

Unblock(s) ==
    IF "TBLOCK" \in s.state /\ 5 * Len(s.rawq) < TTYHOG /\ Room(s)
      THEN Ttstart([Putc(s, "outq", <<"stop">>) EXCEPT !.state = @ \ {"TBLOCK"}])
      ELSE s

CanonEnd(p) ==
    /\ who = p
    /\ at[p] = "end" \/ (at[p] = "line" /\ ~LineGoesOn)
    /\ Becomes(Unblock(Putc(t, "canq", canonb)))
    /\ GoesTo(p, IF canonb = <<>> THEN "leave" ELSE "passc")
    /\ canonb' = <<>>
    /\ UNCHANGED <<left, sigs, opens, carrier, slipped, typed, calls>>

\* ttread moves what was asked for to the process.
Passc(p) ==
    /\ InKernel(p, "passc")
    /\ t' = [t EXCEPT !.canq = SubSeq(@, left[p] + 1, Len(@))]
    /\ GoesTo(p, "leave")
    /\ UNCHANGED <<left, slept, sigs, canonb, opens, carrier, slipped, typed, calls>>

\* ttwrite.
BeginWrite(p) ==
    /\ Begin(p, "write", IF "CARR_ON" \in t.state THEN "write" ELSE "leave")
    /\ \E n \in 1..MaxWrite : left' = [left EXCEPT ![p] = n]
    /\ UNCHANGED <<t, slept, slipped>>

\* p sleeps until there is room, having started the output as u.
WaitForRoom(p, u) ==
    LET s == [u EXCEPT !.state = @ \cup {"ASLEEP"},
                       !.stalled = @ \/ (t.stalled /\ u.outq = <<>>)] IN
    /\ t' = [s EXCEPT !.wake = {}]
    /\ SleepOrLeave(p, "outq", s.wake)
    /\ UNCHANGED <<call, left, sigs, canonb, opens, carrier, slipped, typed, calls>>

WriteWait(p) ==
    /\ InKernel(p, "write") /\ left[p] > 0 /\ Len(t.outq) > TTIME
    /\ WaitForRoom(p, Ttstart(t))

WriteChar(p) ==
    /\ InKernel(p, "write") /\ left[p] > 0 /\ Len(t.outq) <= TTIME
    /\ \E c \in {"a", "nl"} : t' = Ttyoutput(t, c)
    /\ left' = [left EXCEPT ![p] = @ - 1]
    /\ UNCHANGED <<who, at, call, slept, sigs, canonb, opens, carrier, slipped, typed,
                   calls>>

WriteEnd(p) ==
    /\ InKernel(p, "write") /\ left[p] = 0
    /\ Becomes(Ttstart(t))
    /\ GoesTo(p, "leave")
    /\ UNCHANGED <<left, sigs, canonb, opens, carrier, slipped, typed, calls>>

\* ioctl: TIOCSETP waits and flushes before it sets the modes, TIOCSETN does not.
BeginSetp(p) ==
    /\ Begin(p, "setp", "flush")
    /\ UNCHANGED <<t, left, slept, slipped>>

SetModes == \E f \in Modes : t' = [t EXCEPT !.flags = f]

Setn(p) ==
    /\ Begin(p, "setn", "leave")
    /\ SetModes
    /\ UNCHANGED <<left, slept, slipped>>

\* TIOCTSTP.
Tstp(p) ==
    /\ Begin(p, "tstp", "leave")
    /\ Becomes(IF "TTSTOP" \in t.state THEN Ttstart([t EXCEPT !.state = @ \ {"TTSTOP"}])
               ELSE [t EXCEPT !.state = @ \cup {"TTSTOP"}])
    /\ UNCHANGED <<left, slipped>>

\* The last close, dzclose, tells the modem to hang up, waits for the output and forgets
\* the state.
BeginClose(p) ==
    /\ Begin(p, "close", IF opens = {p} THEN "flush" ELSE "leave")
    /\ t' = [t EXCEPT !.pgrp = @ /\ opens # {p},
                      !.dtr = @ /\ ~(opens = {p} /\ "HUPCLS" \in t.flags)]
    /\ UNCHANGED <<left, slept, slipped>>

Draining == t.outq # <<>> /\ "CARR_ON" \in t.state

\* wflushtty.
FlushWait(p) ==
    /\ InKernel(p, "flush") /\ Draining
    /\ WaitForRoom(p, Ttstart(t))

\* flushtty, after which interrupts come again.
FlushEnd(p) ==
    /\ InKernel(p, "flush") /\ ~Draining
    /\ Becomes(Flushtty(t))
    /\ GoesTo(p, "flushed")
    /\ slipped' = FALSE
    /\ UNCHANGED <<left, sigs, canonb, opens, carrier, typed, calls>>

\* What has been typed since is in the queues when TIOCSETP sets the modes ...
SetpModes(p) ==
    /\ InKernel(p, "flushed") /\ call[p] # "close"
    /\ SetModes
    /\ GoesTo(p, "leave")
    /\ UNCHANGED <<left, slept, sigs, canonb, opens, carrier, slipped, typed, calls>>

\* ... and when ttyclose forgets the state, with the character that is being sent.
CloseForgets(p) ==
    /\ InKernel(p, "flushed") /\ call[p] = "close"
    /\ t' = [t EXCEPT !.state = {}, !.stalled = t.outq # <<>>]
    /\ GoesTo(p, "leave")
    /\ UNCHANGED <<left, slept, sigs, canonb, opens, carrier, slipped, typed, calls>>

----------------------------------------------------------------------------
(* Interrupts *)

\* A flush while canon has taken a delimiter and not yet counted it.
Slips(s) ==
    /\ \E p \in Users : at[p] = "delct"
    /\ s.rawq = <<>> /\ "rawq" \in s.wake

\* A signal to the terminal's process group; in user mode it is taken at once.
Signalled == IF t.pgrp THEN {p \in opens : at[p] # "user"} ELSE {}

\* dzrint: a character has come in.
Rint ==
    /\ typed < MaxTyped /\ typed' = typed + 1
    /\ \E c \in Typed :
        LET s == IF "ISOPEN" \in t.state THEN Ttyinput(t, c)
                 ELSE [t EXCEPT !.wake = {"rawq"}]
        IN /\ Becomes(s)
           /\ sigs' = IF c = "intr" /\ "RAW" \notin t.flags /\ "ISOPEN" \in t.state
                        THEN sigs \cup Signalled ELSE sigs
           /\ slipped' = (slipped \/ Slips(s))
    /\ UNCHANGED <<who, at, call, left, canonb, opens, carrier, calls>>

\* dzxint: the character is out, and the next is fetched; with none the transmitter is
\* turned off.
Xint ==
    /\ t.tcr
    /\ IF "BUSY" \in t.state
         THEN Becomes(Ttstart([t EXCEPT !.state = @ \ {"BUSY"}]))
         ELSE t' = [t EXCEPT !.tcr = FALSE] /\ UNCHANGED slept
    /\ UNCHANGED <<who, at, call, left, sigs, canonb, opens, carrier, slipped, typed, calls>>

\* ttrstrt: the end of a delay, even of one that a close has forgotten.
Ttrstrt ==
    /\ t.delays > 0
    /\ Becomes(Ttstart([t EXCEPT !.state = @ \ {"TIMEOUT"}, !.delays = @ - 1]))
    /\ UNCHANGED <<who, at, call, left, sigs, canonb, opens, carrier, slipped, typed, calls>>

\* dzscan: the carrier has come or gone.
Scan ==
    /\ carrier # ("CARR_ON" \in t.state)
    /\ IF carrier
         THEN /\ Becomes([t EXCEPT !.state = @ \cup {"CARR_ON"}, !.wake = {"rawq"}])
              /\ UNCHANGED <<sigs, slipped>>
         ELSE /\ Becomes([Flushtty(t) EXCEPT !.state = @ \ {"CARR_ON"}, !.dtr = FALSE])
              /\ sigs' = sigs \cup Signalled
              /\ slipped' = (slipped \/ Slips(Flushtty(t)))
    /\ UNCHANGED <<who, at, call, left, canonb, opens, carrier, typed, calls>>

\* The line itself: a modem answers while the terminal is ready, and may hang up.
Line ==
    /\ typed < MaxTyped /\ typed' = typed + 1
    /\ ~carrier => t.dtr
    /\ carrier' = ~carrier
    /\ UNCHANGED <<t, who, at, call, left, slept, sigs, canonb, opens, slipped, calls>>

----------------------------------------------------------------------------
(* The specification *)

TtyInit ==
    /\ t = [rawq |-> <<>>, canq |-> <<>>, outq |-> <<>>, state |-> {}, flags |-> {},
            delct |-> 0, tcr |-> FALSE, dtr |-> FALSE, pgrp |-> FALSE, delays |-> 0,
            wake |-> {}, stalled |-> FALSE]
    /\ who = Nobody
    /\ at = [p \in Users |-> "user"]
    /\ call = [p \in Users |-> "none"]
    /\ left = [p \in Users |-> 0]
    /\ slept = [p \in Users |-> "none"]
    /\ sigs = {} /\ canonb = <<>> /\ opens = {}
    /\ carrier = FALSE /\ slipped = FALSE
    /\ typed = 0 /\ calls = 0

BeginCall(p) ==
    \/ BeginOpen(p) \/ BeginRead(p) \/ BeginWrite(p) \/ BeginSetp(p) \/ Setn(p) \/ Tstp(p)
    \/ BeginClose(p)

UserStep(p) ==
    \/ Resume(p) \/ TtyReturn(p) \/ OpenWait(p) \/ OpenCarrier(p) \/ OpenEnd(p)
    \/ CanonWait(p) \/ CanonHangup(p) \/ CanonStart(p) \/ CanonChar(p) \/ CanonDelim(p)
    \/ CanonCount(p) \/ CanonEnd(p) \/ Passc(p)
    \/ WriteWait(p) \/ WriteChar(p) \/ WriteEnd(p) \/ FlushWait(p) \/ FlushEnd(p)
    \/ SetpModes(p) \/ CloseForgets(p)

TtyNext ==
    \/ \E p \in Users : BeginCall(p) \/ UserStep(p)
    \/ Rint \/ Xint \/ Ttrstrt \/ Scan \/ Line

\* What can run is run in the end, the device takes what it is given, delays end and
\* the carrier is looked at.  Nobody need type or call.
TtyFairness ==
    /\ \A p \in Users : WF_ttyVars(UserStep(p))
    /\ WF_ttyVars(Xint) /\ WF_ttyVars(Ttrstrt) /\ WF_ttyVars(Scan)

TtySpec == TtyInit /\ [][TtyNext]_ttyVars /\ TtyFairness

----------------------------------------------------------------------------
(* Properties *)

Delims(q) == Cardinality({i \in DOMAIN q : q[i] = "delim"})

\* t_delct is the number of delimiters in the raw queue, or one more while canon has yet
\* to count the one it took, whatever modes are set and whatever is typed meanwhile, except
\* after a flush in that very moment or a delimiter that canon took in raw mode (slipped):
\* one that was there when the mode was set.
LinesCounted ==
    ~slipped => t.delct = Delims(t.rawq) + (IF \E p \in Users : at[p] = "delct" THEN 1 ELSE 0)

\* Who sleeps until there is room for output has output under way that will wake it, or
\* the output is stopped from the keyboard: nobody sleeps on an idle device, except after
\* a character that let the output go on and was not echoed, or a close that forgot the
\* output under way (stalled).
OutputUnderWay ==
    \A p \in Users : slept[p] = "outq" =>
        /\ "ASLEEP" \in t.state
        /\ t.stalled \/ (t.outq # <<>> /\ {"BUSY", "TIMEOUT", "TTSTOP"} \cap t.state # {})
        /\ "BUSY" \in t.state => t.tcr
        /\ "TIMEOUT" \in t.state => t.delays > 0

\* tty.c:287-296, 373-405: both sides of a line agree, the interrupts and the processes:
\* canon finds as many lines as there are, and nobody waits for an interrupt that does not
\* come.
TtyOK == LinesCounted /\ OutputUnderWay

\* A write, a flush or a close has yet to end, and output is not stopped.
Outputs(p) == call[p] \in {"write", "setp", "close"} /\ at[p] # "user"

OutputPending == "TTSTOP" \notin t.state /\ ~t.stalled /\ \E p \in Users : Outputs(p)

\* tty.c:287-288: "It waits until a full line has been typed in cooked mode, or until any
\* character has been typed in raw mode."  So it goes on to a line that is there.
CanonWaitsForALine ==
    [][\A p \in Users : ~slipped /\ at[p] = "canon" /\ at'[p] = "line" =>
         IF Raw(t) THEN t.rawq # <<>> ELSE Delims(t.rawq) > 0]_ttyVars
=============================================================================
