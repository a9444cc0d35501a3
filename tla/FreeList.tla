------------------------------ MODULE FreeList ------------------------------
(***************************************************************************)
(* The free list of a file system: alloc and free of alloc.c, and the part *)
(* of update that writes the superblock.                                   *)
(*                                                                         *)
(* The superblock holds up to NICFREE free blocks; the first of them holds *)
(* up to NICFREE others, and so on; a zero ends the list.  A process gives *)
(* up the CPU only where it sleeps: for s_flock, for a buffer and for the  *)
(* disk.                                                                   *)
(*                                                                         *)
(* A block that should hold a part of the list, but could not be written,  *)
(* holds what it held before, and alloc takes that for the list.  From     *)
(* then on the list is garbled: blocks that files have may be in it.       *)
(* Numbers out of range are left out of what is found there, for alloc     *)
(* passes over them (badblock), and so are counts above NICFREE, for       *)
(* getfs makes them 0.                                                     *)
(***************************************************************************)
EXTENDS Integers, SequencesExt, FiniteSetsExt, Functions

CONSTANTS
    Allocators, \* processes
    Area,       \* the blocks of the data area, numbers above 0
    NICFREE,    \* blocks the superblock has room for, 50 in the code
    InitFree,   \* the blocks that are free to begin with
    Residues,   \* the lists that a block which holds something else may pass for
    MaxFailures,    \* bound: how often the disk fails to read or write a block
    MaxBegun,       \* bound: how many calls begin after the list was garbled
    NoBlock

ASSUME FreeListAssumption ==
    /\ Area \subseteq Nat \ {0} /\ IsFiniteSet(Area)
    /\ NICFREE \in Nat \ {0, 1}
    /\ InitFree \subseteq Area /\ Cardinality(InitFree) < NICFREE
    /\ Residues \subseteq Seq(Area \cup {0}) /\ \A r \in Residues : Len(r) <= NICFREE
    /\ MaxFailures \in Nat /\ MaxBegun \in Nat
    /\ NoBlock \notin Allocators \cup Area

VARIABLES
    sfree,      \* s_free[0] to s_free[s_nfree - 1]
    flock,      \* s_flock
    fmod,       \* s_fmod
    link,       \* link[b]: df_free in block b, <<>> if it holds something else
    doing,      \* where each process is
    blk,        \* bno of the process in alloc or free
    used,       \* the blocks that files have
    updlock,    \* updlock
    written,    \* the list in the superblock that update last wrote
    full,       \* the last alloc said "no space"
    failures,   \* how often the disk has failed
    garbled,    \* history: alloc has taken something else for a part of the list
    begun       \* how many calls have begun since

freeVars ==
    <<sfree, flock, fmod, link, doing, blk, used, updlock, written, full, failures, garbled, begun>>

DiskFails == failures < MaxFailures /\ failures' = failures + 1

Begins ==
    IF garbled THEN begun < MaxBegun /\ begun' = begun + 1 ELSE UNCHANGED begun

Turns(p, l) == doing' = [doing EXCEPT ![p] = l]

UnlockedAlways == TRUE

\* Who waits for s_flock waits until it is free.
Unlocked == ~flock

ExhaustedNever(list) == FALSE

\* The block just taken holds the rest of the list.
Exhausted(list) == list = <<>>

\* The superblock has no room for another block.
Crowded(list) == Len(list) >= NICFREE

\* free marks the superblock again when it has slept.
Marked == TRUE

----------------------------------------------------------------------------
(* alloc *)

alloc(p) ==
    /\ doing[p] = "idle" /\ Begins
    /\ Turns(p, "alloc")
    /\ UNCHANGED <<sfree, flock, fmod, link, blk, used, updlock, written, full, failures, garbled>>

Nospace(p) ==
    /\ sfree' = <<>>
    /\ full' = TRUE
    /\ Turns(p, "idle")

\* s_flock is free: a block is taken from the superblock; if it is the first one there,
\* the list it holds is read.
AllocPop(p) ==
    /\ doing[p] = "alloc" /\ Unlocked
    /\ IF sfree = <<>> \/ Last(sfree) = 0
       THEN Nospace(p) /\ UNCHANGED <<flock, blk>>
       ELSE /\ blk' = [blk EXCEPT ![p] = Last(sfree)]
            /\ sfree' = Front(sfree)
            /\ flock' = Exhausted(sfree')
            /\ full' = FALSE
            /\ Turns(p, IF flock' THEN "read" ELSE "getblk")
    /\ UNCHANGED <<fmod, link, used, updlock, written, failures, garbled, begun>>

AllocReadKeepsLock(p) ==
    /\ doing[p] = "read"
    /\ link[blk[p]] # <<>>
    /\ sfree' = link[blk[p]]
    /\ Turns(p, "getblk")
    /\ UNCHANGED <<blk, full, flock, fmod, link, used, updlock, written, failures, garbled, begun>>

\* The block holds a list that was made, and nobody else may have written it.
Intact(b) == ~garbled /\ link[b] # <<>>

\* The list that the block holds is copied to the superblock, whatever it is; if the block
\* cannot be read, or its count is not above zero, there is no space.
AllocRead(p) ==
    /\ doing[p] = "read"
    /\ flock' = FALSE
    /\ \/ /\ Intact(blk[p])
          /\ sfree' = link[blk[p]]
          /\ Turns(p, "getblk")
          /\ UNCHANGED <<blk, full, failures, garbled, begun>>
       \/ /\ ~Intact(blk[p])
          /\ sfree' \in Residues /\ garbled' = TRUE
          /\ Turns(p, "getblk")
          /\ UNCHANGED <<blk, full, failures, begun>>
       \/ /\ DiskFails \/ (~Intact(blk[p]) /\ UNCHANGED failures)
          /\ Nospace(p)
          /\ blk' = [blk EXCEPT ![p] = NoBlock]
          /\ UNCHANGED <<garbled, begun>>
    /\ UNCHANGED <<fmod, link, used, updlock, written>>

\* The buffer of the block is cleared and given to the caller.
AllocGet(p) ==
    /\ doing[p] = "getblk"
    /\ link' = [link EXCEPT ![blk[p]] = <<>>]
    /\ used' = used \cup {blk[p]}
    /\ blk' = [blk EXCEPT ![p] = NoBlock]
    /\ fmod' = TRUE
    /\ Turns(p, "idle")
    /\ UNCHANGED <<sfree, flock, updlock, written, full, failures, garbled, begun>>

----------------------------------------------------------------------------
(* free *)

\* Once the list is garbled another file may have the block as well.
free(p, b) ==
    /\ doing[p] = "idle" /\ Begins
    /\ b \in used
    /\ \/ used' = used \ {b}
       \/ garbled /\ UNCHANGED used
    /\ blk' = [blk EXCEPT ![p] = b]
    /\ fmod' = TRUE
    /\ Turns(p, "free")
    /\ UNCHANGED <<sfree, flock, link, updlock, written, full, failures, garbled>>

\* s_flock is free: the block is put into the superblock, or, if that is full, the list of
\* the superblock into the block.
FreePut(p) ==
    /\ doing[p] = "free" /\ Unlocked
    /\ LET list == IF sfree = <<>> THEN <<0>> ELSE sfree
       IN IF Crowded(list)
          THEN /\ flock' = TRUE /\ sfree' = list
               /\ Turns(p, "link")
               /\ UNCHANGED <<blk, fmod>>
          ELSE /\ sfree' = Append(list, blk[p])
               /\ fmod' = Marked
               /\ blk' = [blk EXCEPT ![p] = NoBlock]
               /\ Turns(p, "idle")
               /\ UNCHANGED flock
    /\ UNCHANGED <<link, used, updlock, written, full, failures, garbled, begun>>

FreeLinkKeeps(p) ==
    /\ doing[p] = "link"
    /\ link' = [link EXCEPT ![blk[p]] = sfree]
    /\ Turns(p, "write")
    /\ UNCHANGED <<sfree, flock, fmod, blk, used, updlock, written, full, failures, garbled, begun>>

\* The list is copied to the buffer of the block, which is written.
FreeLink(p) ==
    /\ doing[p] = "link"
    /\ link' = [link EXCEPT ![blk[p]] = sfree]
    /\ sfree' = <<>>
    /\ Turns(p, "write")
    /\ UNCHANGED <<flock, fmod, blk, used, updlock, written, full, failures, garbled, begun>>

\* The write has ended; if it failed, the block holds what it held before, and nobody is
\* told.
FreeWritten(p) ==
    /\ doing[p] = "write"
    /\ \/ UNCHANGED <<link, failures>>
       \/ DiskFails /\ link' = [link EXCEPT ![blk[p]] = <<>>]
    /\ flock' = FALSE
    /\ sfree' = Append(sfree, blk[p])
    /\ fmod' = TRUE
    /\ blk' = [blk EXCEPT ![p] = NoBlock]
    /\ Turns(p, "idle")
    /\ UNCHANGED <<used, updlock, written, full, garbled, begun>>

----------------------------------------------------------------------------
(* update *)

update(p) ==
    /\ doing[p] = "idle" /\ Begins /\ ~updlock
    /\ fmod /\ ~flock
    /\ updlock' = TRUE
    /\ Turns(p, "super")
    /\ UNCHANGED <<sfree, flock, fmod, link, blk, used, written, full, failures, garbled>>

\* getblk has returned a buffer.
UpdateCopy(p) ==
    /\ doing[p] = "super"
    /\ fmod' = FALSE
    /\ written' = sfree
    /\ Turns(p, "superwrite")
    /\ UNCHANGED <<sfree, flock, link, blk, used, updlock, full, failures, garbled, begun>>

UpdateDone(p) ==
    /\ doing[p] = "superwrite"
    /\ updlock' = FALSE
    /\ Turns(p, "idle")
    /\ UNCHANGED <<sfree, flock, fmod, link, blk, used, written, full, failures, garbled, begun>>

----------------------------------------------------------------------------

FreeInit ==
    /\ sfree = <<0>> \o SetToSeq(InitFree)
    /\ flock = FALSE /\ fmod = FALSE /\ updlock = FALSE /\ full = FALSE
    /\ failures = 0 /\ garbled = FALSE /\ begun = 0
    /\ link = [b \in Area |-> <<>>]
    /\ doing = [p \in Allocators |-> "idle"]
    /\ blk = [p \in Allocators |-> NoBlock]
    /\ used = Area \ InitFree
    /\ written = sfree

Proceeds(p) ==
    \/ AllocPop(p) \/ AllocRead(p) \/ AllocGet(p)
    \/ FreePut(p) \/ FreeLink(p) \/ FreeWritten(p)
    \/ UpdateCopy(p) \/ UpdateDone(p)

FreeNext ==
    \E p \in Allocators :
        alloc(p) \/ (\E b \in Area : free(p, b)) \/ update(p) \/ Proceeds(p)

FreeSpec == FreeInit /\ [][FreeNext]_freeVars

\* A process that waits for s_flock gets it if it is free again and again; buffers and
\* the disk answer.
FreeFairSpec == FreeSpec /\ \A p \in Allocators : SF_freeVars(Proceeds(p))

----------------------------------------------------------------------------
(* Properties *)

\* The blocks that are reached from the list s: those in it, those in the lists that
\* they hold, and so on.
HoldsItsOwn(S) == \A b \in S : Range(link[b]) \ {0} \subseteq S

OnList(s) ==
    {b \in Area : \A S \in SUBSET Area :
        Range(s) \ {0} \subseteq S /\ HoldsItsOwn(S) => b \in S}

\* Lists that are not reached from the superblock while somebody has s_flock.
Detached ==
    UNION {OnList(link[blk[p]]) : p \in {q \in Allocators : doing[q] \in {"read", "write"}}}

FreeBlocks == OnList(sfree) \cup Detached

\* Blocks on their way into or out of the list.
Moving == {blk[p] : p \in Allocators} \ {NoBlock}

\* Every variable has its type.
FreeTypeOK ==
    /\ sfree \in Seq(Area \cup {0}) /\ Len(sfree) <= NICFREE
    /\ link \in [Area -> Seq(Area \cup {0})]
    /\ \A b \in Area : Len(link[b]) \in {0, NICFREE}
    /\ flock \in BOOLEAN /\ fmod \in BOOLEAN /\ updlock \in BOOLEAN /\ full \in BOOLEAN
    /\ doing \in [Allocators -> {"idle", "alloc", "read", "getblk", "free", "link", "write",
                         "super", "superwrite"}]
    /\ blk \in [Allocators -> Area \cup {NoBlock}]
    /\ used \subseteq Area
    /\ failures \in 0..MaxFailures /\ garbled \in BOOLEAN /\ begun \in 0..MaxBegun

\* Where a part of the list may be: in the superblock, for which 0 stands, in a free
\* block, and in one that is being read or written.
Holders ==
    {0} \cup FreeBlocks
        \cup {blk[p] : p \in {q \in Allocators : doing[q] \in {"read", "write"}}}

PartIn(c) == IF c = 0 THEN sfree ELSE link[c]

\* alloc.c:26-109: no block is given twice: it is used by one file, or on its way, or at
\* one place of the free list, whoever allocates and frees at the same time.
NoBlockTwice ==
    /\ used \cap (FreeBlocks \cup Moving) = {}
    /\ FreeBlocks \cap Moving = {}
    /\ \A p, q \in Allocators : p # q /\ blk[p] # NoBlock => blk[p] # blk[q]
    /\ \A c, d \in Holders : \A i \in DOMAIN PartIn(c), j \in DOMAIN PartIn(d) :
        PartIn(c)[i] = PartIn(d)[j] /\ PartIn(c)[i] # 0 => c = d /\ i = j

\* filsys.h:11: s_flock is held by one process, whose the list then is.
OneHoldsLock ==
    Cardinality({p \in Allocators : doing[p] \in {"read", "link", "write"}})
        = IF flock THEN 1 ELSE 0

\* alloc.c:61, 86, 108: when nobody is at work, a superblock that differs from the one on
\* the disk is marked as modified, so that the next update writes it.
ModifiedIsMarked ==
    (\A p \in Allocators : doing[p] = "idle") /\ ~fmod /\ sfree # <<>> => written = sfree

\* alloc.c:26-109: the superblock has its form, one process at a time works on it, and no
\* change of it is forgotten by update, although all three sleep in the middle.
ListOK == FreeTypeOK /\ OneHoldsLock /\ ModifiedIsMarked

\* alloc.c:26-109: the list has its form, and no block is given twice until a part of the
\* list that the disk failed to write is read back.
FreeListOK == ListOK /\ IF garbled THEN failures # 0 ELSE NoBlockTwice

\* alloc.c:14-24, 73-77: to the file system, blocks are taken from a set and given back,
\* and unless the disk fails there is no space only when the set is empty; only after a
\* failure of the disk may the promise end.
A == INSTANCE Allocator
    WITH Blocks <- Area, available <- FreeBlocks, given <- Area \ FreeBlocks,
         broken <- garbled

Allocates == A!AllocatorSpec

\* Every alloc and free returns.
Returns == \A p \in Allocators : doing[p] # "idle" ~> doing[p] = "idle"
=============================================================================
