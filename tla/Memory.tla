------------------------------- MODULE Memory -------------------------------
(***************************************************************************)
(* Page frames: memall, memfree and meminit of sys/sys/malloc.c.           *)
(*                                                                         *)
(* A bit of memmap says whether a frame is in use; mem is a stack of some  *)
(* of the frames that are not, filled from memmap when it is empty.  No    *)
(* interrupt routine allocates memory, so each call is a step.             *)
(***************************************************************************)
EXTENDS Integers, Sequences, SequencesExt

CONSTANTS
    FrameHolders,    \* what frames are allocated to
    firstfree, maxfree,
    NICMEM,
    MaxHeld     \* bound: frames of one holder

ASSUME MemoryAssumption ==
    /\ firstfree \in Nat /\ maxfree \in Nat
    /\ NICMEM \in 1..maxfree - firstfree /\ MaxHeld \in Nat

VARIABLES
    mem,        \* memmap, as the set of frames in use; pnum, lastpos, freemem, panic
    frames        \* frames[h]: the frames of h

memoryVars == <<mem, frames>>

FramesOf == firstfree..maxfree - 1

After(pos) == IF pos + 1 >= maxfree THEN firstfree ELSE pos + 1

\* The frames in the order in which they are looked at, lastpos as the last of them.
ScanFrom(lastpos) ==
    [n \in 1..maxfree - firstfree |->
        firstfree + ((After(lastpos) - firstfree + n - 1) % (maxfree - firstfree))]

\* The stack is filled; the search goes on next time behind the frame it has come to.
Refilled(k) ==
    LET scan == ScanFrom(k.lastpos)
        found == FoldLeft(LAMBDA s, f : IF f \in k.memmap THEN s ELSE Append(s, f), <<>>, scan)
    IN IF Len(found) < NICMEM \/ found[NICMEM] = k.lastpos
         THEN [k EXCEPT !.pnum = found, !.lastpos = Last(scan)]
         ELSE [k EXCEPT !.pnum = SubSeq(found, 1, NICMEM), !.lastpos = After(found[NICMEM])]

\* One frame; the checks are those of the code's panics.
One(k) ==
    LET r == IF k.pnum = <<>> THEN Refilled(k) ELSE k
    IN IF r.pnum = <<>> THEN [r EXCEPT !.panic = "lost mem"]
       ELSE IF Last(r.pnum) \in r.memmap THEN [r EXCEPT !.panic = "dup alloc"]
       ELSE [r EXCEPT !.memmap = @ \cup {Last(r.pnum)}, !.got = Append(@, Last(r.pnum)),
                      !.pnum = Front(@), !.freemem = @ - 1]

memall(h, size) ==
    /\ mem.panic = "none" /\ Len(frames[h]) + size <= MaxHeld
    /\ IF size > mem.freemem
         THEN UNCHANGED memoryVars
         ELSE LET k == FoldLeft(LAMBDA a, n : IF a.panic = "none" THEN One(a) ELSE a, mem,
                                [n \in 1..size |-> n])
              IN /\ mem' = [k EXCEPT !.got = <<>>]
                 /\ frames' = [frames EXCEPT ![h] = @ \o k.got]

GiveUncounted(k, f) ==
    [k EXCEPT !.pnum = IF Len(@) < NICMEM THEN Append(@, f) ELSE @,
              !.memmap = @ \ {f}, !.freemem = IF Len(k.pnum) < NICMEM THEN @ + 1 ELSE @]

\* A frame goes back on the stack if there is room, and to memmap in any case.
Give(k, f) ==
    IF f \notin k.memmap THEN [k EXCEPT !.panic = "dup free"]
    ELSE [k EXCEPT !.pnum = IF Len(@) < NICMEM THEN Append(@, f) ELSE @,
                   !.memmap = @ \ {f}, !.freemem = @ + 1]

\* The frames of h from the m-th to the n-th.
memfree(h, m, n) ==
    /\ mem.panic = "none"
    /\ mem' = FoldLeft(Give, mem, SubSeq(frames[h], m, n))
    /\ frames' = [frames EXCEPT ![h] = SubSeq(@, 1, m - 1) \o SubSeq(@, n + 1, Len(@))]

\* meminit.
MemoryInit ==
    /\ mem = [memmap |-> {}, pnum |-> <<>>, lastpos |-> maxfree,
              freemem |-> maxfree - firstfree, got |-> <<>>, panic |-> "none"]
    /\ frames = [h \in FrameHolders |-> <<>>]

MemoryNext ==
    \E h \in FrameHolders :
        \/ \E size \in 1..MaxHeld : memall(h, size)
        \/ \E m, n \in 1..Len(frames[h]) : m <= n /\ memfree(h, m, n)

MemorySpec == MemoryInit /\ [][MemoryNext]_memoryVars

----------------------------------------------------------------------------
(* Properties *)

\* The three accounts of free memory agree: the frames in use are those that are held,
\* each once, freemem counts the others, and the stack has some of those, none twice.
\* So memall, which promises from freemem alone, always finds the frames it promised,
\* and none of the panics comes.
MemoryAccounted ==
    /\ mem.panic = "none"
    /\ mem.memmap = UNION {Range(frames[h]) : h \in FrameHolders}
    /\ \A h \in FrameHolders : IsInjective(frames[h])
    /\ \A h, g \in FrameHolders : h # g => Range(frames[h]) \cap Range(frames[g]) = {}
    /\ mem.freemem = Cardinality(FramesOf \ mem.memmap)
    /\ IsInjective(mem.pnum) /\ Range(mem.pnum) \subseteq FramesOf \ mem.memmap
=============================================================================
