------------------------------- MODULE MCBlocks ------------------------------
(***************************************************************************)
(* Small instances of two free lists of blocks: that of a disk, and the    *)
(* one in core from which the character lists are made.  Nothing connects  *)
(* them: a behaviour is one of one of them, the side, and the other stays  *)
(* as it is.                                                               *)
(***************************************************************************)
EXTENDS FreeList, Clist

\* No list, a block of it, and a full one of two others.
ThreeLists == {<<>>, <<1>>, <<3, 2>>}

VARIABLE side

blocksVars == <<side, freeVars, clists>>

BlocksInit == side \in {"free", "clist"} /\ FreeInit /\ ClistInit

OfFree == side = "free" /\ UNCHANGED <<side, clists>>
OfLists == side = "clist" /\ UNCHANGED <<side, freeVars>>

BlocksNext ==
    \/ OfFree /\ FreeNext
    \/ OfLists /\ ClistNext

\* The fairness is that of FreeFairSpec.
BlocksSpec ==
    /\ BlocksInit /\ [][BlocksNext]_blocksVars
    /\ \A p \in Allocators : SF_blocksVars(OfFree /\ Proceeds(p))
=============================================================================
