------------------------------- MODULE RawIO -------------------------------
(***************************************************************************)
(* Transfers that bypass the buffer cache: swap and physio of sys/sys/     *)
(* bio.c.                                                                  *)
(*                                                                         *)
(* Both share few buffer headers, two for swapping and one for the raw     *)
(* device, and make a transfer in parts of limited size.  What a process   *)
(* does from one sleep to the next is one step; iodone, from the driver's  *)
(* interrupt, comes between.  Addresses and page tables are left out.      *)
(***************************************************************************)
EXTENDS Integers, FiniteSets

CONSTANTS
    Callers,
    swbuf1, swbuf2, rhpbuf,
    MaxParts,   \* bound: parts of a transfer
    MaxRaw      \* bound: calls

ASSUME RawAssumption ==
    Cardinality({swbuf1, swbuf2, rhpbuf}) = 3 /\ MaxParts \in Nat /\ MaxRaw \in Nat

Headers == {swbuf1, swbuf2, rhpbuf}

VARIABLES
    flags,      \* flags[b]: b_flags
    phase,      \* phase[p]: "user", "wait" for the header, "part" under way
    header,     \* header[p]: the header p has chosen
    parts,      \* parts[p]: parts that are left
    dozing,     \* processes that sleep on their header
    panicked,   \* an error in a swap
    rawCalls

rawVars == <<flags, phase, header, parts, dozing, panicked, rawCalls>>

Up == ~panicked

RawWaiters(b) == {p \in dozing : header[p] = b}

\* The second header, if it is not waited for, when the first is busy.
SwapHeader ==
    IF "BUSY" \in flags[swbuf1] /\ "WANTED" \notin flags[swbuf2] THEN swbuf2 ELSE swbuf1

\* p waits for its header, or has it and calls the strategy routine.  physio drops what
\* other flags there are.
WaitBusy(p, b) ==
    /\ "BUSY" \in flags[b]
    /\ flags' = [flags EXCEPT ![b] = @ \cup {"WANTED"}]
    /\ dozing' = dozing \cup {p}
    /\ phase' = [phase EXCEPT ![p] = "wait"]

FirstPart(p, b, n) ==
    /\ "BUSY" \notin flags[b] /\ n > 0
    /\ flags' = [flags EXCEPT ![b] = {"BUSY"}]
    /\ dozing' = dozing \cup {p}
    /\ phase' = [phase EXCEPT ![p] = "part"]

\* A raw call for no bytes at all.
NoPart(p, b, n) ==
    /\ "BUSY" \notin flags[b] /\ n = 0
    /\ phase' = [phase EXCEPT ![p] = "user"]
    /\ UNCHANGED <<flags, dozing>>

Enter(p, b, n) == WaitBusy(p, b) \/ FirstPart(p, b, n) \/ NoPart(p, b, n)

RawCall(p) ==
    /\ Up /\ phase[p] = "user" /\ rawCalls < MaxRaw
    /\ rawCalls' = rawCalls + 1
    /\ \E b \in {SwapHeader, rhpbuf}, n \in 0..MaxParts :
        /\ b # rhpbuf => n > 0
        /\ header' = [header EXCEPT ![p] = b]
        /\ parts' = [parts EXCEPT ![p] = n]
        /\ Enter(p, b, n)
    /\ UNCHANGED panicked

\* Woken, p looks at the header again.
Retry(p) ==
    /\ Up /\ phase[p] = "wait" /\ p \notin dozing
    /\ Enter(p, header[p], parts[p])
    /\ UNCHANGED <<header, parts, panicked, rawCalls>>

\* iodone.
Iodone(b) ==
    /\ Up /\ "BUSY" \in flags[b] /\ "DONE" \notin flags[b]
    /\ \E e \in {{}, {"ERROR"}} :
        flags' = [flags EXCEPT ![b] = (@ \ {"WANTED"}) \cup {"DONE"} \cup e]
    /\ dozing' = dozing \ RawWaiters(b)
    /\ UNCHANGED <<phase, header, parts, panicked, rawCalls>>

NotWoken(b) == dozing

\* Who has come to wait meanwhile is woken after every part.
WokenFor(b) == IF "WANTED" \in flags[b] THEN dozing \ RawWaiters(b) ELSE dozing

AtEnd(p) ==
    phase[p] = "part" /\ p \notin dozing /\ "DONE" \in flags[header[p]] /\ Up

\* swap: after a part that failed the system stops.
PanicInSwap(p) ==
    /\ AtEnd(p) /\ header[p] # rhpbuf /\ "ERROR" \in flags[header[p]]
    /\ panicked' = TRUE
    /\ UNCHANGED <<flags, phase, header, parts, dozing, rawCalls>>

Goes(p) == AtEnd(p) /\ (header[p] = rhpbuf \/ "ERROR" \notin flags[header[p]])

\* physio looks at b_error, which the driver has not set, and goes on.
NextPart(p) ==
    LET b == header[p] IN
    /\ Goes(p) /\ parts[p] > 1
    /\ parts' = [parts EXCEPT ![p] = @ - 1]
    /\ flags' = [flags EXCEPT ![b] = {"BUSY"}]
    /\ dozing' = WokenFor(b) \cup {p}
    /\ UNCHANGED <<phase, header, panicked, rawCalls>>

LastPart(p) ==
    LET b == header[p] IN
    /\ Goes(p) /\ parts[p] = 1
    /\ flags' = [flags EXCEPT ![b] = IF b = rhpbuf THEN @ \ {"BUSY", "WANTED"} ELSE {}]
    /\ dozing' = WokenFor(b)
    /\ phase' = [phase EXCEPT ![p] = "user"]
    /\ UNCHANGED <<header, parts, panicked, rawCalls>>

RawInit ==
    /\ flags = [b \in Headers |-> {}] /\ phase = [p \in Callers |-> "user"]
    /\ header = [p \in Callers |-> rhpbuf] /\ parts = [p \in Callers |-> 0]
    /\ dozing = {}
    /\ panicked = FALSE /\ rawCalls = 0

CallerStep(p) == Retry(p) \/ PanicInSwap(p) \/ NextPart(p) \/ LastPart(p)

RawNext ==
    \/ \E p \in Callers : RawCall(p) \/ CallerStep(p)
    \/ \E b \in Headers : Iodone(b)

\* Who can run does in the end, and transfers end.
RawFairness ==
    /\ \A p \in Callers : WF_rawVars(CallerStep(p))
    /\ \A b \in Headers : WF_rawVars(Iodone(b))

RawSpec == RawInit /\ [][RawNext]_rawVars /\ RawFairness

----------------------------------------------------------------------------
(* Properties *)

\* A call has yet to return, whose wakeups between the parts of a transfer should not be lost.
RawPending == ~panicked /\ \E p \in Callers : phase[p] # "user"
=============================================================================
