----------------------------- MODULE Allocator -----------------------------
(***************************************************************************)
(* What alloc and free promise to the file system: a set of free blocks    *)
(* from which a block is taken, and to which it is given back, one at a    *)
(* time; there is no space only when the set is empty.  A disk that has    *)
(* failed may end the promise.                                             *)
(***************************************************************************)
CONSTANTS Blocks

VARIABLES
    available,  \* the free blocks
    given,      \* the blocks that are in use
    full,       \* the last who asked for a block found none
    failures,   \* how often the disk has failed
    broken      \* nothing is promised any more

allocatorVars == <<available, given, full, failures, broken>>

AllocatorInit ==
    /\ available \subseteq Blocks
    /\ given = Blocks \ available
    /\ full = FALSE
    /\ failures = 0
    /\ broken = FALSE

\* What is left of the free blocks s: all of them, unless the disk fails.
Left(s) ==
    IF failures' = failures THEN available' = s ELSE available' \subseteq s

Take(b) ==
    /\ b \in available
    /\ Left(available \ {b})
    /\ full' = FALSE

GiveBack(b) ==
    /\ b \in given
    /\ Left(available \cup {b})
    /\ UNCHANGED full

NoSpace ==
    /\ available' = {}
    /\ Left(available)
    /\ full' = TRUE

Keeps ==
    /\ ~broken /\ UNCHANGED broken
    /\ NoSpace \/ \E b \in Blocks : Take(b) \/ GiveBack(b)
    /\ given' = Blocks \ available'

\* The list that the free blocks are in is lost.
Breaks == failures # 0 /\ broken' = TRUE

AllocatorNext == Keeps \/ Breaks

AllocatorSpec == AllocatorInit /\ [][AllocatorNext]_allocatorVars
=============================================================================
