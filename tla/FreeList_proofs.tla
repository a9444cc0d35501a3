--------------------------- MODULE FreeList_proofs ---------------------------
(***************************************************************************)
(* Proofs about two free lists of blocks.  The one of a disk, for any      *)
(* number of processes and blocks, any NICFREE above 1 and any number of   *)
(* failures of the disk: its form, that no block is given twice, and that  *)
(* alloc and free are steps of the abstract allocator.  And the one of     *)
(* character lists, for any number of queues and blocks and blocks of any  *)
(* size: that no block is lost, and that each list is a queue.             *)
(***************************************************************************)
EXTENDS FreeList, Clist, FiniteSetTheorems, SeqLemmas, TLAPS

----------------------------------------------------------------------------
(* The inductive invariant *)

\* Where a process has s_flock.
Locking == {"read", "link", "write"}

LockOK ==
    /\ \A p \in Allocators : doing[p] \in Locking => flock
    /\ \A p, q \in Allocators : doing[p] \in Locking /\ doing[q] \in Locking => p = q
    /\ flock => \E p \in Allocators : doing[p] \in Locking

\* Only the first entry of a list may be the zero that ends it; the superblock is empty while
\* the disk works on a part, and full while one is made of it.
ShapeOK ==
    /\ \A i \in DOMAIN sfree : i > 1 => sfree[i] # 0
    /\ \A b \in Area : \A i \in DOMAIN link[b] : i > 1 => link[b][i] # 0
    /\ \A p \in Allocators : doing[p] \in {"read", "write"} => sfree = <<>>
    /\ \A p \in Allocators : doing[p] = "link" => Len(sfree) = NICFREE

\* Who has a block on its way, and that it is his alone.
BlkOK ==
    /\ \A p \in Allocators : blk[p] # NoBlock <=>
                        doing[p] \in {"read", "getblk", "free", "link", "write"}
    /\ \A p, q \in Allocators : blk[p] # NoBlock /\ blk[p] = blk[q] => p = q

\* A block that alloc is about to clear holds an old copy of a list, if any.
Live(c) == \A p \in Allocators : doing[p] = "getblk" => blk[p] # c

\* A block is at one place, in the superblock or in a block that holds a part, reached or not.
PlacesOnce ==
    /\ \A i, j \in DOMAIN sfree : sfree[i] = sfree[j] => i = j
    /\ \A c \in Area : Live(c) => \A i \in DOMAIN link[c], j \in DOMAIN sfree :
            link[c][i] # 0 => link[c][i] # sfree[j]
    /\ \A c, d \in Area : Live(c) /\ Live(d) =>
            \A i \in DOMAIN link[c], j \in DOMAIN link[d] :
                link[c][i] # 0 /\ link[c][i] = link[d][j] => c = d /\ i = j

\* A block of S is at no such place.
Apart(S) ==
    /\ \A i \in DOMAIN sfree : sfree[i] \notin S
    /\ \A c \in Area : Live(c) => \A i \in DOMAIN link[c] : link[c][i] \notin S

BlocksApart == used \cap Moving = {} /\ Apart(used) /\ Apart(Moving)

\* Of the free blocks only the first of a part holds another part.
LinksOK ==
    /\ \A b \in used : link[b] = <<>>
    /\ \A p \in Allocators : doing[p] \in {"free", "link"} => link[blk[p]] = <<>>
    /\ \A i \in DOMAIN sfree : i > 1 => link[sfree[i]] = <<>>
    /\ \A c \in Area : Live(c) => \A i \in DOMAIN link[c] : i > 1 => link[link[c][i]] = <<>>

\* A superblock that differs from its copy on the disk is marked, or somebody will mark it.
MarkedOK ==
    ~fmod /\ sfree # <<>> /\ (\A p \in Allocators : doing[p] # "getblk") => written = sfree

\* Until a block that holds no list has passed for one.
Clean == ~garbled

\* What is so whatever the disk does: who has the superblock, and that it is empty or full
\* when the disk works for him.
TurnsOK ==
    /\ \A p \in Allocators : doing[p] \in {"read", "write"} => sfree = <<>>
    /\ \A p \in Allocators : doing[p] = "link" => Len(sfree) = NICFREE
    /\ \A p \in Allocators : blk[p] # NoBlock <=>
                        doing[p] \in {"read", "getblk", "free", "link", "write"}

FormInv == FreeTypeOK /\ LockOK /\ TurnsOK /\ MarkedOK

FreeInv ==
    /\ Clean
    /\ FreeTypeOK /\ LockOK /\ ShapeOK /\ BlkOK
    /\ PlacesOnce /\ BlocksApart /\ LinksOK /\ MarkedOK

----------------------------------------------------------------------------
(* Lemmas *)

\* alloc takes the last entry, and the others stay where they are.
LEMMA FrontProps ==
    ASSUME NEW S, NEW s \in Seq(S), s # <<>>
    PROVE  /\ Front(s) \in Seq(S) /\ Len(Front(s)) = Len(s) - 1
           /\ Len(s) \in DOMAIN s /\ Last(s) = s[Len(s)] /\ Last(s) \in S
           /\ \A i \in DOMAIN Front(s) :
                i \in DOMAIN s /\ i < Len(s) /\ Front(s)[i] = s[i]
<1>1. Len(s) \in Nat \ {0} /\ DOMAIN s = 1..Len(s)
  OBVIOUS
<1>2. Front(s) = SubSeq(s, 1, Len(s) - 1)
  BY DEF Front
<1>3. /\ Front(s) \in Seq(S) /\ Len(Front(s)) = Len(s) - 1
      /\ \A i \in 1..Len(s) - 1 : Front(s)[i] = s[i]
  BY <1>1, <1>2, SubSeqProperties
<1>4. DOMAIN Front(s) = 1..Len(s) - 1
  BY <1>3
<1> QED BY <1>1, <1>3, <1>4 DEF Last

\* free adds one behind the others.
LEMMA BackProps ==
    ASSUME NEW S, NEW s \in Seq(S), NEW e \in S
    PROVE  /\ Append(s, e) \in Seq(S) /\ Len(Append(s, e)) = Len(s) + 1
           /\ \A i \in DOMAIN Append(s, e) :
                \/ i \in DOMAIN s /\ Append(s, e)[i] = s[i]
                \/ i = Len(s) + 1 /\ Append(s, e)[i] = e
OBVIOUS

\* What the assumptions say of zero and of NoBlock.
LEMMA Numbers ==
    /\ 0 \notin Area /\ NoBlock \notin Area /\ NICFREE \in Nat /\ NICFREE > 1
    /\ MaxFailures \in Nat /\ InitFree \subseteq Area /\ MaxBegun \in Nat
BY FreeListAssumption

\* The block of a process that has one.
LEMMA HasBlock ==
    ASSUME FreeInv, NEW p \in Allocators,
           doing[p] \in {"read", "getblk", "free", "link", "write"}
    PROVE  blk[p] \in Area /\ blk[p] \in Moving /\ blk[p] \notin used
<1>1. blk[p] # NoBlock /\ blk[p] \in Area
  BY DEF FreeInv, BlkOK, FreeTypeOK
<1> QED BY <1>1 DEF Moving, FreeInv, BlocksApart

\* The same of what does not depend on the disk.
LEMMA BlockThere ==
    ASSUME FormInv, NEW p \in Allocators,
           doing[p] \in {"read", "getblk", "free", "link", "write"}
    PROVE  blk[p] \in Area
BY DEF FormInv, TurnsOK, FreeTypeOK

\* The invariant says more.
LEMMA InvIsForm == FreeInv => FormInv
BY DEF FreeInv, FormInv, TurnsOK, ShapeOK, BlkOK

\* What the types say of the lists, without the other variables.
LEMMA Lists ==
    ASSUME FreeTypeOK
    PROVE  /\ sfree \in Seq(Area \cup {0}) /\ Len(sfree) \in 0..NICFREE
           /\ DOMAIN sfree = 1..Len(sfree)
           /\ \A b \in Area : /\ link[b] \in Seq(Area \cup {0}) /\ Len(link[b]) \in 0..NICFREE
                           /\ DOMAIN link[b] = 1..Len(link[b])
<1>1. sfree \in Seq(Area \cup {0}) /\ Len(sfree) <= NICFREE /\ Len(sfree) \in Nat
  BY DEF FreeTypeOK
<1>2. \A b \in Area : link[b] \in Seq(Area \cup {0}) /\ Len(link[b]) \in {0, NICFREE}
  BY DEF FreeTypeOK
<1> QED BY <1>1, <1>2, Numbers

\* The steps that leave the superblock and the blocks alone.
LEMMA QuietForm ==
    ASSUME FreeInv, NEW p \in Allocators,
           alloc(p) \/ update(p) \/ UpdateCopy(p) \/ UpdateDone(p)
    PROVE  FreeTypeOK' /\ LockOK' /\ ShapeOK' /\ BlkOK'
<1>1. FreeTypeOK /\ LockOK /\ ShapeOK /\ BlkOK
  BY DEF FreeInv
<1>2. UNCHANGED <<sfree, flock, link, blk, used, full, failures, garbled, begun>>
  BY DEF alloc, update, UpdateCopy, UpdateDone, Begins, FreeInv, Clean
<1>3. PICK l \in {"alloc", "super", "superwrite", "idle"} :
            doing' = [doing EXCEPT ![p] = l]
  BY DEF alloc, update, UpdateCopy, UpdateDone, Turns
<1>4. doing[p] \in {"idle", "super", "superwrite"}
  BY DEF alloc, update, UpdateCopy, UpdateDone
<1>5. fmod' \in BOOLEAN /\ updlock' \in BOOLEAN
  BY <1>1 DEF alloc, update, UpdateCopy, UpdateDone, FreeTypeOK
<1>6. FreeTypeOK'
  BY <1>1, <1>2, <1>3, <1>5 DEF FreeTypeOK
<1>7. /\ doing'[p] = l
      /\ \A q \in Allocators : q # p => doing'[q] = doing[q]
  BY <1>1, <1>3 DEF FreeTypeOK
<1>8. LockOK'
  BY <1>1, <1>2, <1>4, <1>7 DEF LockOK, Locking
<1>9. ShapeOK'
  BY <1>1, <1>2, <1>4, <1>7 DEF ShapeOK
<1>10. BlkOK'
  BY <1>1, <1>2, <1>4, <1>7 DEF BlkOK
<1> QED BY <1>6, <1>8, <1>9, <1>10

\* alloc takes a block from the superblock.
LEMMA PopForm ==
    ASSUME FreeInv, NEW p \in Allocators, AllocPop(p), sfree # <<>>, Last(sfree) # 0
    PROVE  /\ FreeTypeOK' /\ LockOK' /\ ShapeOK' /\ BlkOK'
           /\ Last(sfree) \in Area /\ Last(sfree) \notin Moving /\ Last(sfree) \notin used
<1> DEFINE S == Area \cup {0}
           e == Last(sfree)
<1>1. FreeTypeOK /\ LockOK /\ ShapeOK /\ BlkOK
  BY DEF FreeInv
<1>2. sfree \in Seq(S) /\ Len(sfree) \in 0..NICFREE /\ DOMAIN sfree = 1..Len(sfree)
  BY <1>1, Lists, SMTT(30)
<1>3. /\ Front(sfree) \in Seq(S) /\ Len(Front(sfree)) = Len(sfree) - 1
      /\ Len(sfree) \in DOMAIN sfree /\ e = sfree[Len(sfree)] /\ e \in S
      /\ \A i \in DOMAIN Front(sfree) :
            i \in DOMAIN sfree /\ i < Len(sfree) /\ Front(sfree)[i] = sfree[i]
  <2> HIDE DEF S
  <2> QED BY <1>2, FrontProps, Zenon
<1>4. e \in Area /\ e # NoBlock
  BY <1>3, Numbers
<1>5. e \notin Moving /\ e \notin used
  BY <1>3 DEF FreeInv, BlocksApart, Apart
<1>6. \A q \in Allocators : blk[q] # e
  BY <1>4, <1>5 DEF Moving
<1> HIDE DEF e
<1>7. /\ doing[p] = "alloc" /\ ~flock /\ blk' = [blk EXCEPT ![p] = e]
      /\ sfree' = Front(sfree) /\ flock' = (sfree' = <<>>) /\ full' = FALSE
      /\ doing' = [doing EXCEPT ![p] = IF flock' THEN "read" ELSE "getblk"]
      /\ UNCHANGED <<fmod, link, used, updlock, written, failures, garbled, begun>>
  BY DEF AllocPop, Exhausted, Unlocked, Turns, e
<1>8. sfree' \in Seq(S) /\ Len(sfree') <= NICFREE
  BY <1>2, <1>3, <1>7, Numbers
<1>9. FreeTypeOK'
  BY <1>1, <1>4, <1>7, <1>8 DEF FreeTypeOK
<1>10. /\ doing'[p] = (IF flock' THEN "read" ELSE "getblk") /\ blk'[p] = e
       /\ \A q \in Allocators : q # p => doing'[q] = doing[q] /\ blk'[q] = blk[q]
  BY <1>1, <1>7 DEF FreeTypeOK
<1>11. \A q \in Allocators : doing[q] \notin Locking
  BY <1>1, <1>7 DEF LockOK
<1>12. LockOK'
  BY <1>7, <1>10, <1>11 DEF LockOK, Locking
<1>13. \A i \in DOMAIN sfree' : i > 1 => sfree'[i] # 0
  BY <1>1, <1>3, <1>7 DEF ShapeOK
<1>14. ShapeOK'
  <2>1. \A q \in Allocators : doing'[q] \in {"read", "write"} => q = p /\ flock'
    BY <1>10, <1>11 DEF Locking
  <2>2. \A q \in Allocators : doing'[q] # "link"
    BY <1>10, <1>11 DEF Locking
  <2>3. flock' => sfree' = <<>>
    BY <1>7
  <2> QED BY <1>1, <1>7, <1>13, <2>1, <2>2, <2>3 DEF ShapeOK
<1>15. BlkOK'
  BY <1>1, <1>4, <1>6, <1>7, <1>10 DEF BlkOK
<1> QED BY <1>4, <1>5, <1>9, <1>12, <1>14, <1>15 DEF e

\* There is no space, be it that the superblock is empty or that its rest cannot be read.
LEMMA NospaceForm ==
    ASSUME FreeInv, NEW p \in Allocators, Nospace(p),
           \/ doing[p] = "alloc" /\ ~flock /\ blk' = blk
           \/ doing[p] = "read" /\ blk' = [blk EXCEPT ![p] = NoBlock],
           flock' = FALSE, failures' \in 0..MaxFailures,
           UNCHANGED <<fmod, link, used, updlock, written, garbled, begun>>
    PROVE  FreeTypeOK' /\ LockOK' /\ ShapeOK' /\ BlkOK'
<1>1. FreeTypeOK /\ LockOK /\ ShapeOK /\ BlkOK
  BY DEF FreeInv
<1>2. /\ sfree' = <<>> /\ full' = TRUE /\ doing' = [doing EXCEPT ![p] = "idle"]
      /\ <<>> \in Seq(Area \cup {0}) /\ Len(<<>>) <= NICFREE
  BY Numbers DEF Nospace, Turns
<1>3. FreeTypeOK'
  BY <1>1, <1>2 DEF FreeTypeOK
<1>4. /\ doing'[p] = "idle"
      /\ \A q \in Allocators : q # p => doing'[q] = doing[q] /\ blk'[q] = blk[q]
  BY <1>1, <1>2 DEF FreeTypeOK
<1>5. \A q \in Allocators : doing[q] \in Locking => q = p
  BY <1>1 DEF LockOK, Locking
<1>6. LockOK'
  BY <1>4, <1>5 DEF LockOK, Locking
<1>7. ShapeOK'
  BY <1>1, <1>2, <1>4, <1>5 DEF ShapeOK, Locking
<1>8. blk'[p] = NoBlock
  BY <1>1 DEF FreeTypeOK, BlkOK
<1>9. BlkOK'
  BY <1>1, <1>4, <1>8 DEF BlkOK
<1> QED BY <1>3, <1>6, <1>7, <1>9

\* The rest of the list comes into the superblock.
LEMMA ReadForm ==
    ASSUME FreeInv, NEW p \in Allocators, doing[p] = "read",
           flock' = FALSE, sfree' = link[blk[p]], doing' = [doing EXCEPT ![p] = "getblk"],
           UNCHANGED <<blk, full, fmod, link, used, updlock, written, failures, garbled, begun>>
    PROVE  FreeTypeOK' /\ LockOK' /\ ShapeOK' /\ BlkOK'
<1>1. FreeTypeOK /\ LockOK /\ ShapeOK /\ BlkOK
  BY DEF FreeInv
<1>2. blk[p] \in Area
  BY HasBlock
<1>3. sfree' \in Seq(Area \cup {0}) /\ Len(sfree') <= NICFREE
  BY <1>1, <1>2, Lists, Numbers
<1>4. FreeTypeOK'
  BY <1>1, <1>3 DEF FreeTypeOK
<1>5. doing'[p] = "getblk" /\ \A q \in Allocators : q # p => doing'[q] = doing[q]
  BY <1>1 DEF FreeTypeOK
<1>6. \A q \in Allocators : doing[q] \in Locking => q = p
  BY <1>1 DEF LockOK, Locking
<1>7. LockOK'
  BY <1>5, <1>6 DEF LockOK, Locking
<1>8. ShapeOK'
  BY <1>1, <1>2, <1>5, <1>6 DEF ShapeOK, Locking
<1>9. BlkOK'
  BY <1>1, <1>5 DEF BlkOK
<1> QED BY <1>4, <1>7, <1>8, <1>9

\* The block is cleared and becomes one of a file.
LEMMA GetForm ==
    ASSUME FreeInv, NEW p \in Allocators, AllocGet(p)
    PROVE  FreeTypeOK' /\ LockOK' /\ ShapeOK' /\ BlkOK'
<1>1. FreeTypeOK /\ LockOK /\ ShapeOK /\ BlkOK
  BY DEF FreeInv
<1>2. doing[p] = "getblk" /\ blk[p] \in Area
  BY HasBlock DEF AllocGet
<1>3. /\ link' = [link EXCEPT ![blk[p]] = <<>>] /\ used' = used \cup {blk[p]}
      /\ blk' = [blk EXCEPT ![p] = NoBlock] /\ doing' = [doing EXCEPT ![p] = "idle"]
      /\ fmod' = TRUE
      /\ UNCHANGED <<sfree, flock, updlock, written, full, failures, garbled, begun>>
  BY DEF AllocGet, Turns
<1>4. \A c \in Area : link'[c] = link[c] \/ link'[c] = <<>>
  BY <1>1, <1>3 DEF FreeTypeOK
<1>5. /\ link' \in [Area -> Seq(Area \cup {0})]
      /\ \A c \in Area : Len(link'[c]) \in {0, NICFREE}
  <2>1. <<>> \in Seq(Area \cup {0}) /\ Len(<<>>) = 0
    OBVIOUS
  <2>2. link' \in [Area -> Seq(Area \cup {0})]
    BY <1>1, <1>3, <2>1 DEF FreeTypeOK
  <2>3. \A c \in Area : Len(link'[c]) \in {0, NICFREE}
    BY <1>1, <1>4, <2>1 DEF FreeTypeOK
  <2> QED BY <2>2, <2>3
<1>6. FreeTypeOK'
  BY <1>1, <1>2, <1>3, <1>5 DEF FreeTypeOK
<1>7. /\ doing'[p] = "idle" /\ blk'[p] = NoBlock
      /\ \A q \in Allocators : q # p => doing'[q] = doing[q] /\ blk'[q] = blk[q]
  BY <1>1, <1>3 DEF FreeTypeOK
<1>8. LockOK'
  BY <1>1, <1>2, <1>3, <1>7 DEF LockOK, Locking
<1>9. ShapeOK'
  BY <1>1, <1>3, <1>4, <1>7 DEF ShapeOK
<1>10. BlkOK'
  BY <1>1, <1>7 DEF BlkOK
<1> QED BY <1>6, <1>8, <1>9, <1>10

\* A file gives up a block.
LEMMA FreeForm ==
    ASSUME FreeInv, NEW p \in Allocators, NEW b \in Area, free(p, b)
    PROVE  FreeTypeOK' /\ LockOK' /\ ShapeOK' /\ BlkOK'
<1>1. FreeTypeOK /\ LockOK /\ ShapeOK /\ BlkOK
  BY DEF FreeInv
<1>2. /\ doing[p] = "idle" /\ b \in used /\ used' = used \ {b} /\ fmod' = TRUE
      /\ blk' = [blk EXCEPT ![p] = b] /\ doing' = [doing EXCEPT ![p] = "free"]
      /\ UNCHANGED <<sfree, flock, link, updlock, written, full, failures, garbled, begun>>
  BY DEF free, Turns, Begins, FreeInv, Clean
<1>3. FreeTypeOK'
  BY <1>1, <1>2 DEF FreeTypeOK
<1>4. /\ doing'[p] = "free" /\ blk'[p] = b
      /\ \A q \in Allocators : q # p => doing'[q] = doing[q] /\ blk'[q] = blk[q]
  BY <1>1, <1>2 DEF FreeTypeOK
<1>5. b # NoBlock /\ \A q \in Allocators : blk[q] # b
  BY <1>2, Numbers DEF FreeInv, BlocksApart, Moving
<1>6. LockOK'
  BY <1>1, <1>2, <1>4 DEF LockOK, Locking
<1>7. ShapeOK'
  BY <1>1, <1>2, <1>4 DEF ShapeOK
<1>8. BlkOK'
  BY <1>1, <1>4, <1>5 DEF BlkOK
<1> QED BY <1>3, <1>6, <1>7, <1>8

\* The list that free adds to: one of a zero, if there was none.
Opened == IF sfree = <<>> THEN <<0>> ELSE sfree

\* What free finds and does when it has s_flock to itself.
LEMMA PutDoes ==
    ASSUME FormInv, NEW p \in Allocators, FreePut(p)
    PROVE  /\ doing[p] = "free" /\ ~flock /\ blk[p] \in Area
           /\ Opened \in Seq(Area \cup {0}) /\ Len(Opened) \in 1..NICFREE
           /\ DOMAIN Opened = 1..Len(Opened)
           /\ \A i \in DOMAIN Opened :
                \/ i \in DOMAIN sfree /\ Opened[i] = sfree[i]
                \/ i = 1 /\ Opened[i] = 0 /\ sfree = <<>>
           /\ UNCHANGED <<link, used, updlock, written, full, failures, garbled, begun>>
           /\ \/ /\ flock' = TRUE /\ sfree' = Opened /\ Len(Opened) = NICFREE /\ sfree' = sfree
                 /\ doing' = [doing EXCEPT ![p] = "link"] /\ UNCHANGED <<blk, fmod>>
              \/ /\ sfree' = Append(Opened, blk[p]) /\ Len(Opened) < NICFREE /\ fmod' = TRUE
                 /\ blk' = [blk EXCEPT ![p] = NoBlock] /\ flock' = flock
                 /\ doing' = [doing EXCEPT ![p] = "idle"]
<1>1. FreeTypeOK
  BY DEF FormInv
<1>2. doing[p] = "free" /\ ~flock /\ blk[p] \in Area
  BY BlockThere DEF FreePut, Unlocked
<1>3. /\ sfree \in Seq(Area \cup {0}) /\ Len(sfree) \in 0..NICFREE
      /\ DOMAIN sfree = 1..Len(sfree)
  BY <1>1, Lists
<1>4. /\ <<0>> \in Seq(Area \cup {0}) /\ Len(<<0>>) = 1 /\ DOMAIN <<0>> = {1}
      /\ <<0>>[1] = 0
  OBVIOUS
<1>5. sfree # <<>> => Len(sfree) >= 1
  BY <1>3
<1>6. /\ Opened \in Seq(Area \cup {0}) /\ Len(Opened) \in 1..NICFREE
      /\ DOMAIN Opened = 1..Len(Opened)
      /\ \A i \in DOMAIN Opened :
            \/ i \in DOMAIN sfree /\ Opened[i] = sfree[i]
            \/ i = 1 /\ Opened[i] = 0 /\ sfree = <<>>
  <2>1. CASE sfree = <<>>
    <3>1. Opened = <<0>>
      BY <2>1 DEF Opened
    <3>2. 1 \in 1..NICFREE /\ {1} = 1..1
      BY Numbers
    <3> QED BY <1>4, <2>1, <3>1, <3>2
  <2>2. CASE sfree # <<>>
    <3>1. Opened = sfree
      BY <2>2 DEF Opened
    <3>2. Len(sfree) \in 1..NICFREE
      BY <1>3, <1>5, <2>2
    <3> QED BY <1>3, <3>1, <3>2, Zenon
  <2> QED BY <2>1, <2>2
<1>8. Len(Opened) >= NICFREE => Opened = sfree
  BY <1>4, Numbers DEF Opened
<1>9. UNCHANGED <<link, used, updlock, written, full, failures, garbled, begun>>
  BY DEF FreePut
<1>10. CASE Len(Opened) >= NICFREE
  <2>1. /\ flock' = TRUE /\ sfree' = Opened
        /\ doing' = [doing EXCEPT ![p] = "link"] /\ UNCHANGED <<blk, fmod>>
    BY <1>10 DEF FreePut, Crowded, Turns, Opened
  <2>2. Len(Opened) = NICFREE
    <3>1. Len(Opened) \in 1..NICFREE /\ NICFREE \in Nat
      BY <1>6, Numbers, SMTT(30)
    <3> QED BY <1>10, <3>1
  <2> QED BY <1>2, <1>6, <1>8, <1>9, <1>10, <2>1, <2>2
<1>11. CASE ~(Len(Opened) >= NICFREE)
  <2>1. /\ sfree' = Append(Opened, blk[p]) /\ fmod' = TRUE
        /\ blk' = [blk EXCEPT ![p] = NoBlock] /\ flock' = flock
        /\ doing' = [doing EXCEPT ![p] = "idle"]
    BY <1>11 DEF FreePut, Crowded, Turns, Opened, Marked
  <2>2. Len(Opened) < NICFREE
    <3>1. Len(Opened) \in 1..NICFREE /\ NICFREE \in Nat
      BY <1>6, Numbers, SMTT(30)
    <3> QED BY <1>11, <3>1
  <2> QED BY <1>2, <1>6, <1>9, <2>1, <2>2, Zenon
<1> QED BY <1>10, <1>11

\* free puts the block into the superblock, or makes room for it.
LEMMA PutForm ==
    ASSUME FreeInv, NEW p \in Allocators, FreePut(p)
    PROVE  FreeTypeOK' /\ LockOK' /\ ShapeOK' /\ BlkOK'
<1> DEFINE S == Area \cup {0}
<1>1. FreeTypeOK /\ LockOK /\ ShapeOK /\ BlkOK
  BY DEF FreeInv
<1>2. /\ doing[p] = "free" /\ ~flock /\ blk[p] \in Area
      /\ Opened \in Seq(S) /\ Len(Opened) \in 1..NICFREE
      /\ DOMAIN Opened = 1..Len(Opened)
      /\ \A i \in DOMAIN Opened :
            \/ i \in DOMAIN sfree /\ Opened[i] = sfree[i]
            \/ i = 1 /\ Opened[i] = 0 /\ sfree = <<>>
      /\ UNCHANGED <<link, used, updlock, written, full, failures, garbled, begun>>
  BY PutDoes, InvIsForm
<1>3. \A i \in DOMAIN Opened : i > 1 => Opened[i] # 0
  BY <1>1, <1>2 DEF ShapeOK
<1>4. \A q \in Allocators : doing[q] \notin Locking
  BY <1>1, <1>2 DEF LockOK
<1>5. CASE /\ flock' = TRUE /\ sfree' = Opened /\ Len(Opened) = NICFREE
           /\ doing' = [doing EXCEPT ![p] = "link"] /\ UNCHANGED <<blk, fmod>>
  <2>1. sfree' \in Seq(S) /\ Len(sfree') <= NICFREE
    BY <1>2, <1>5, Numbers
  <2>2. FreeTypeOK'
    BY <1>1, <1>2, <1>5, <2>1 DEF FreeTypeOK
  <2>3. doing'[p] = "link" /\ \A q \in Allocators : q # p => doing'[q] = doing[q]
    BY <1>1, <1>5 DEF FreeTypeOK
  <2>4. LockOK'
    BY <1>4, <1>5, <2>3 DEF LockOK, Locking
  <2>5. ShapeOK'
    BY <1>1, <1>2, <1>3, <1>4, <1>5, <2>3 DEF ShapeOK, Locking
  <2>6. BlkOK'
    BY <1>1, <1>2, <1>5, <2>3 DEF BlkOK
  <2> QED BY <2>2, <2>4, <2>5, <2>6
<1>6. CASE /\ sfree' = Append(Opened, blk[p]) /\ Len(Opened) < NICFREE /\ fmod' = TRUE
           /\ blk' = [blk EXCEPT ![p] = NoBlock] /\ flock' = flock
           /\ doing' = [doing EXCEPT ![p] = "idle"]
  <2>0. blk[p] \in S
    BY <1>2
  <2>1. /\ Append(Opened, blk[p]) \in Seq(S) /\ Len(Append(Opened, blk[p])) = Len(Opened) + 1
        /\ \A i \in DOMAIN Append(Opened, blk[p]) :
              \/ i \in DOMAIN Opened /\ Append(Opened, blk[p])[i] = Opened[i]
              \/ i = Len(Opened) + 1 /\ Append(Opened, blk[p])[i] = blk[p]
    <3> HIDE DEF S
    <3> QED BY <1>2, <2>0, BackProps
  <2>2. /\ sfree' \in Seq(S) /\ Len(sfree') <= NICFREE
        /\ \A i \in DOMAIN sfree' : i > 1 => sfree'[i] # 0
    BY <1>2, <1>3, <1>6, <2>1, Numbers
  <2>3. FreeTypeOK'
    BY <1>1, <1>2, <1>6, <2>2 DEF FreeTypeOK
  <2>4. /\ doing'[p] = "idle" /\ blk'[p] = NoBlock
        /\ \A q \in Allocators : q # p => doing'[q] = doing[q] /\ blk'[q] = blk[q]
    BY <1>1, <1>6 DEF FreeTypeOK
  <2>5. LockOK'
    BY <1>2, <1>4, <1>6, <2>4 DEF LockOK, Locking
  <2>6. ShapeOK'
    BY <1>1, <1>2, <1>4, <2>2, <2>4 DEF ShapeOK, Locking
  <2>7. BlkOK'
    BY <1>1, <2>4 DEF BlkOK
  <2> QED BY <2>3, <2>5, <2>6, <2>7
<1> QED BY <1>5, <1>6, PutDoes, InvIsForm

\* The superblock goes into the block.
LEMMA LinkForm ==
    ASSUME FreeInv, NEW p \in Allocators, FreeLink(p)
    PROVE  FreeTypeOK' /\ LockOK' /\ ShapeOK' /\ BlkOK'
<1>1. FreeTypeOK /\ LockOK /\ ShapeOK /\ BlkOK
  BY DEF FreeInv
<1>2. doing[p] = "link" /\ blk[p] \in Area
  BY HasBlock DEF FreeLink
<1>3. /\ link' = [link EXCEPT ![blk[p]] = sfree] /\ sfree' = <<>>
      /\ doing' = [doing EXCEPT ![p] = "write"]
      /\ UNCHANGED <<flock, fmod, blk, used, updlock, written, full, failures, garbled, begun>>
  BY DEF FreeLink, Turns
<1>4. sfree \in Seq(Area \cup {0}) /\ Len(sfree) = NICFREE
  BY <1>1, <1>2, Lists DEF ShapeOK
<1>5. \A c \in Area : link'[c] = IF c = blk[p] THEN sfree ELSE link[c]
  BY <1>1, <1>3 DEF FreeTypeOK
<1>6. link' \in [Area -> Seq(Area \cup {0})] /\ \A c \in Area : Len(link'[c]) \in {0, NICFREE}
  BY <1>1, <1>3, <1>4, <1>5 DEF FreeTypeOK
<1>7. sfree' \in Seq(Area \cup {0}) /\ Len(sfree') <= NICFREE
  BY <1>3, Numbers
<1>8. FreeTypeOK'
  BY <1>1, <1>3, <1>6, <1>7 DEF FreeTypeOK
<1>9. doing'[p] = "write" /\ \A q \in Allocators : q # p => doing'[q] = doing[q]
  BY <1>1, <1>3 DEF FreeTypeOK
<1>10. \A q \in Allocators : doing[q] \in Locking => q = p
  BY <1>1, <1>2 DEF LockOK, Locking
<1>11. LockOK'
  BY <1>1, <1>2, <1>3, <1>9 DEF LockOK, Locking
<1>12. ShapeOK'
  BY <1>1, <1>3, <1>5, <1>9, <1>10 DEF ShapeOK, Locking
<1>13. BlkOK'
  BY <1>1, <1>2, <1>3, <1>9 DEF BlkOK
<1> QED BY <1>8, <1>11, <1>12, <1>13

\* What free finds and does when the block has been written.
LEMMA WrittenDoes ==
    ASSUME FormInv, NEW p \in Allocators, FreeWritten(p)
    PROVE  /\ doing[p] = "write" /\ sfree = <<>> /\ blk[p] \in Area /\ flock
           /\ sfree' = <<blk[p]>> /\ flock' = FALSE /\ fmod' = TRUE
           /\ blk' = [blk EXCEPT ![p] = NoBlock] /\ doing' = [doing EXCEPT ![p] = "idle"]
           /\ failures' \in 0..MaxFailures
           /\ UNCHANGED <<used, updlock, written, full, garbled, begun>>
           /\ link' \in [Area -> Seq(Area \cup {0})]
           /\ \A c \in Area : c # blk[p] => link'[c] = link[c]
           /\ link'[blk[p]] = link[blk[p]] \/ link'[blk[p]] = <<>>
<1>1. FreeTypeOK /\ LockOK /\ TurnsOK
  BY DEF FormInv
<1>2. doing[p] = "write" /\ blk[p] \in Area
  BY BlockThere DEF FreeWritten
<1>3. sfree = <<>> /\ flock
  <2>1. doing[p] \in {"read", "write"} => sfree = <<>>
    BY DEF FormInv, TurnsOK
  <2>2. flock
    BY <1>1, <1>2 DEF LockOK, Locking
  <2> QED BY <1>2, <2>1, <2>2
<1>4. /\ sfree' = Append(sfree, blk[p]) /\ flock' = FALSE /\ fmod' = TRUE
      /\ blk' = [blk EXCEPT ![p] = NoBlock] /\ doing' = [doing EXCEPT ![p] = "idle"]
      /\ UNCHANGED <<used, updlock, written, full, garbled, begun>>
  BY DEF FreeWritten, Turns
<1>5. Append(<<>>, blk[p]) = <<blk[p]>>
  OBVIOUS
<1>6. failures' = failures \/ (failures < MaxFailures /\ failures' = failures + 1)
  BY DEF FreeWritten, DiskFails
<1>7. failures' \in 0..MaxFailures
  BY <1>1, <1>6, Numbers DEF FreeTypeOK
<1>8. link' = link \/ link' = [link EXCEPT ![blk[p]] = <<>>]
  BY DEF FreeWritten
<1>9. /\ link' \in [Area -> Seq(Area \cup {0})]
      /\ \A c \in Area : c # blk[p] => link'[c] = link[c]
      /\ link'[blk[p]] = link[blk[p]] \/ link'[blk[p]] = <<>>
  <2>1. <<>> \in Seq(Area \cup {0}) /\ link \in [Area -> Seq(Area \cup {0})]
    BY <1>1 DEF FreeTypeOK
  <2> DEFINE S == Seq(Area \cup {0})
  <2> HIDE DEF S
  <2>2. <<>> \in S /\ link \in [Area -> S]
    BY <2>1 DEF S
  <2>3. /\ link' \in [Area -> S] /\ \A c \in Area : c # blk[p] => link'[c] = link[c]
        /\ link'[blk[p]] = link[blk[p]] \/ link'[blk[p]] = <<>>
    BY <1>2, <1>8, <2>2
  <2> QED BY <2>3 DEF S
<1> QED BY <1>2, <1>3, <1>4, <1>5, <1>7, <1>9

\* The block has been written, and begins the superblock.
LEMMA WrittenForm ==
    ASSUME FreeInv, NEW p \in Allocators, FreeWritten(p)
    PROVE  FreeTypeOK' /\ LockOK' /\ ShapeOK' /\ BlkOK'
<1>1. FreeTypeOK /\ LockOK /\ ShapeOK /\ BlkOK
  BY DEF FreeInv
<1>2. /\ doing[p] = "write" /\ sfree = <<>> /\ blk[p] \in Area /\ flock
      /\ sfree' = <<blk[p]>> /\ flock' = FALSE /\ fmod' = TRUE
      /\ blk' = [blk EXCEPT ![p] = NoBlock] /\ doing' = [doing EXCEPT ![p] = "idle"]
      /\ failures' \in 0..MaxFailures /\ UNCHANGED <<used, updlock, written, full, garbled, begun>>
  BY WrittenDoes, InvIsForm
<1>3. /\ link' \in [Area -> Seq(Area \cup {0})]
      /\ \A c \in Area : link'[c] = link[c] \/ link'[c] = <<>>
  BY WrittenDoes, InvIsForm
<1>4. /\ sfree' \in Seq(Area \cup {0}) /\ Len(sfree') <= NICFREE
      /\ \A i \in DOMAIN sfree' : i > 1 => sfree'[i] # 0
  BY <1>2, Numbers
<1>5. \A c \in Area : Len(link'[c]) \in {0, NICFREE}
  BY <1>1, <1>3 DEF FreeTypeOK
<1>6. FreeTypeOK'
  BY <1>1, <1>2, <1>3, <1>4, <1>5 DEF FreeTypeOK
<1>7. /\ doing'[p] = "idle" /\ blk'[p] = NoBlock
      /\ \A q \in Allocators : q # p => doing'[q] = doing[q] /\ blk'[q] = blk[q]
  BY <1>1, <1>2 DEF FreeTypeOK
<1>8. \A q \in Allocators : doing[q] \in Locking => q = p
  BY <1>1, <1>2 DEF LockOK, Locking
<1>9. LockOK'
  BY <1>2, <1>7, <1>8 DEF LockOK, Locking
<1>10. ShapeOK'
  <2>1. \A q \in Allocators : doing'[q] \notin Locking
    BY <1>7, <1>8 DEF Locking
  <2>2. \A c \in Area : \A i \in DOMAIN link'[c] : i > 1 => link'[c][i] # 0
    <3>1. DOMAIN <<>> = {}
      OBVIOUS
    <3>2. \A c \in Area : \A i \in DOMAIN link[c] : i > 1 => link[c][i] # 0
      BY <1>1 DEF ShapeOK
    <3> QED BY <1>3, <3>1, <3>2
  <2> QED BY <1>4, <2>1, <2>2 DEF ShapeOK, Locking
<1>11. BlkOK'
  BY <1>1, <1>7 DEF BlkOK
<1> QED BY <1>6, <1>9, <1>10, <1>11

\* The block of a process is one that nobody is about to clear, unless the process is.
LEMMA BlockLives ==
    ASSUME FreeInv, NEW p \in Allocators, doing[p] \in {"read", "free", "link", "write"}
    PROVE  Live(blk[p])
<1>1. BlkOK
  BY DEF FreeInv
<1>2. blk[p] # NoBlock
  BY <1>1 DEF BlkOK
<1>3. ASSUME NEW q \in Allocators, doing[q] = "getblk", blk[q] = blk[p] PROVE FALSE
  <2>1. q = p
    BY <1>1, <1>2, <1>3 DEF BlkOK
  <2> QED BY <1>3, <2>1
<1> QED BY <1>3 DEF Live

\* Behind the first entry of a list there are blocks.
LEMMA Entries ==
    ASSUME FreeInv
    PROVE  /\ \A i \in DOMAIN sfree : i > 1 => sfree[i] \in Area
           /\ \A c \in Area : \A i \in DOMAIN link[c] : i > 1 => link[c][i] \in Area
<1>1. FreeTypeOK /\ ShapeOK
  BY DEF FreeInv
<1>2. /\ \A i \in DOMAIN sfree : sfree[i] \in Area \cup {0}
      /\ \A c \in Area : \A i \in DOMAIN link[c] : link[c][i] \in Area \cup {0}
  BY <1>1, Lists
<1> QED BY <1>1, <1>2 DEF ShapeOK

\* Where nothing moves, everything stays in its place.
LEMMA QuietPlaces ==
    ASSUME FreeInv, UNCHANGED <<sfree, link, blk, used>>,
           \A p \in Allocators : doing'[p] = "getblk" <=> doing[p] = "getblk",
           \A p \in Allocators : doing'[p] \in {"free", "link"} => doing[p] \in {"free", "link"},
           (fmod' = fmod /\ written' = written) \/ written' = sfree
    PROVE  PlacesOnce' /\ BlocksApart' /\ LinksOK' /\ MarkedOK'
<1>1. PlacesOnce /\ BlocksApart /\ LinksOK /\ MarkedOK
  BY DEF FreeInv
<1>2. \A c : Live(c)' <=> Live(c)
  BY DEF Live
<1>3. Moving' = Moving
  BY DEF Moving
<1>4. PlacesOnce'
  BY <1>1, <1>2 DEF PlacesOnce
<1>5. BlocksApart'
  BY <1>1, <1>2, <1>3 DEF BlocksApart, Apart
<1>6. LinksOK'
  BY <1>1, <1>2 DEF LinksOK
<1>7. MarkedOK'
  BY <1>1 DEF MarkedOK
<1> QED BY <1>4, <1>5, <1>6, <1>7

\* A block leaves the superblock.
LEMMA PopPlaces ==
    ASSUME FreeInv, NEW p \in Allocators, AllocPop(p), sfree # <<>>, Last(sfree) # 0
    PROVE  PlacesOnce' /\ BlocksApart' /\ LinksOK' /\ MarkedOK'
<1> DEFINE S == Area \cup {0}
           e == Last(sfree)
<1>1. /\ FreeTypeOK /\ LockOK /\ BlkOK
      /\ PlacesOnce /\ BlocksApart /\ LinksOK /\ MarkedOK
  BY DEF FreeInv
<1>2. sfree \in Seq(S)
  BY <1>1, Lists
<1>3. /\ Len(sfree) \in DOMAIN sfree /\ e = sfree[Len(sfree)]
      /\ \A i \in DOMAIN Front(sfree) :
            i \in DOMAIN sfree /\ i < Len(sfree) /\ Front(sfree)[i] = sfree[i]
  <2> HIDE DEF S
  <2> QED BY <1>2, FrontProps
<1>4. e \in Area /\ e \notin Moving /\ e \notin used /\ e # 0 /\ e # NoBlock
  BY PopForm, Numbers
<1> HIDE DEF e
<1>5. /\ doing[p] = "alloc" /\ blk' = [blk EXCEPT ![p] = e]
      /\ sfree' = Front(sfree) /\ flock' = (sfree' = <<>>)
      /\ doing' = [doing EXCEPT ![p] = IF flock' THEN "read" ELSE "getblk"]
      /\ UNCHANGED <<fmod, link, used, written>>
  BY DEF AllocPop, Exhausted, Turns, e
<1>6. /\ doing'[p] = (IF flock' THEN "read" ELSE "getblk") /\ blk'[p] = e
      /\ \A q \in Allocators : q # p => doing'[q] = doing[q] /\ blk'[q] = blk[q]
  BY <1>1, <1>5 DEF FreeTypeOK
<1>7. \A i \in DOMAIN sfree' : i \in DOMAIN sfree /\ sfree'[i] = sfree[i] /\ sfree[i] # e
  <2>1. ASSUME NEW i \in DOMAIN Front(sfree), Front(sfree)[i] = e PROVE FALSE
    <3>1. i \in DOMAIN sfree /\ i < Len(sfree) /\ sfree[i] = sfree[Len(sfree)]
      BY <1>3, <2>1
    <3>2. i = Len(sfree)
      BY <1>1, <1>3, <3>1 DEF PlacesOnce
    <3> QED BY <3>1, <3>2
  <2> QED BY <1>3, <1>5, <2>1
<1>8. \A c : Live(c)' => Live(c)
  BY <1>5, <1>6 DEF Live
<1>9. \A c \in Area : Live(c) => \A i \in DOMAIN link[c] : link[c][i] # e
  BY <1>1, <1>3, <1>4 DEF PlacesOnce
<1>10. \A x : x \in Moving' => x \in Moving \/ x = e
  BY <1>6 DEF Moving
<1>11. PlacesOnce'
  BY <1>1, <1>5, <1>7, <1>8 DEF PlacesOnce
<1>12. BlocksApart'
  <2>1. used' \cap Moving' = {}
    BY <1>1, <1>4, <1>5, <1>10 DEF BlocksApart
  <2>2. Apart(used)'
    BY <1>1, <1>5, <1>7, <1>8 DEF BlocksApart, Apart
  <2>3. Apart(Moving)'
    BY <1>1, <1>5, <1>7, <1>8, <1>9, <1>10 DEF BlocksApart, Apart
  <2> QED BY <2>1, <2>2, <2>3 DEF BlocksApart
<1>13. LinksOK'
  BY <1>1, <1>5, <1>6, <1>7, <1>8 DEF LinksOK
<1>14. MarkedOK'
  BY <1>5, <1>6 DEF MarkedOK
<1> QED BY <1>11, <1>12, <1>13, <1>14

\* The rest of the list is given up.
LEMMA NospacePlaces ==
    ASSUME FreeInv, NEW p \in Allocators, sfree' = <<>>,
           doing[p] \in {"alloc", "read"}, doing' = [doing EXCEPT ![p] = "idle"],
           blk' = blk \/ blk' = [blk EXCEPT ![p] = NoBlock],
           UNCHANGED <<fmod, link, used, written>>
    PROVE  PlacesOnce' /\ BlocksApart' /\ LinksOK' /\ MarkedOK'
<1>1. FreeTypeOK /\ PlacesOnce /\ BlocksApart /\ LinksOK /\ BlkOK
  BY DEF FreeInv
<1>2. /\ doing'[p] = "idle" /\ DOMAIN sfree' = {}
      /\ \A q \in Allocators : q # p => doing'[q] = doing[q] /\ blk'[q] = blk[q]
      /\ blk'[p] = blk[p] \/ blk'[p] = NoBlock
  BY <1>1 DEF FreeTypeOK
<1>3. \A c : Live(c)' <=> Live(c)
  BY <1>2 DEF Live, BlkOK
<1>4. Moving' \subseteq Moving
  BY <1>2 DEF Moving
<1>5. PlacesOnce'
  BY <1>1, <1>2, <1>3 DEF PlacesOnce
<1>6. BlocksApart'
  BY <1>1, <1>2, <1>3, <1>4 DEF BlocksApart, Apart
<1>7. LinksOK'
  BY <1>1, <1>2, <1>3 DEF LinksOK
<1>8. MarkedOK'
  BY DEF MarkedOK
<1> QED BY <1>5, <1>6, <1>7, <1>8

\* A part moves from its block into the superblock.
LEMMA ReadPlaces ==
    ASSUME FreeInv, NEW p \in Allocators, doing[p] = "read",
           sfree' = link[blk[p]], doing' = [doing EXCEPT ![p] = "getblk"],
           UNCHANGED <<blk, link, used>>
    PROVE  PlacesOnce' /\ BlocksApart' /\ LinksOK' /\ MarkedOK'
<1>1. FreeTypeOK /\ ShapeOK /\ PlacesOnce /\ BlocksApart /\ LinksOK
  BY DEF FreeInv
<1>2. blk[p] \in Area /\ Live(blk[p])
  BY HasBlock, BlockLives
<1>3. doing'[p] = "getblk" /\ \A q \in Allocators : q # p => doing'[q] = doing[q]
  BY <1>1 DEF FreeTypeOK
<1>4. \A c : Live(c)' => Live(c) /\ c # blk[p]
  BY <1>3 DEF Live
<1>5. Moving' = Moving
  BY DEF Moving
<1>6. PlacesOnce'
  <2>1. ASSUME NEW i \in DOMAIN link[blk[p]], NEW j \in DOMAIN link[blk[p]],
               link[blk[p]][i] = link[blk[p]][j]
        PROVE  i = j
    <3>1. CASE link[blk[p]][i] # 0
      BY <1>1, <1>2, <2>1, <3>1 DEF PlacesOnce
    <3>2. CASE link[blk[p]][i] = 0
      <4>1. DOMAIN link[blk[p]] = 1..Len(link[blk[p]])
        BY <1>1, <1>2, Lists
      <4>2. ~(i > 1) /\ ~(j > 1)
        BY <1>1, <1>2, <2>1, <3>2 DEF ShapeOK
      <4> QED BY <4>1, <4>2
    <3> QED BY <3>1, <3>2
  <2>2. \A c \in Area : Live(c)' => \A i \in DOMAIN link[c], j \in DOMAIN link[blk[p]] :
            link[c][i] # 0 => link[c][i] # link[blk[p]][j]
    BY <1>1, <1>2, <1>4 DEF PlacesOnce
  <2>3. \A c, d \in Area : Live(c)' /\ Live(d)' =>
            \A i \in DOMAIN link[c], j \in DOMAIN link[d] :
                link[c][i] # 0 /\ link[c][i] = link[d][j] => c = d /\ i = j
    BY <1>1, <1>4 DEF PlacesOnce
  <2> QED BY <2>1, <2>2, <2>3 DEF PlacesOnce
<1>7. BlocksApart'
  BY <1>1, <1>2, <1>4, <1>5 DEF BlocksApart, Apart
<1>8. LinksOK'
  BY <1>1, <1>2, <1>3, <1>4 DEF LinksOK
<1>9. MarkedOK'
  BY <1>3 DEF MarkedOK
<1> QED BY <1>6, <1>7, <1>8, <1>9

\* A block that is cleared comes to a file.
LEMMA GetPlaces ==
    ASSUME FreeInv, NEW p \in Allocators, AllocGet(p)
    PROVE  PlacesOnce' /\ BlocksApart' /\ LinksOK' /\ MarkedOK'
<1>1. FreeTypeOK /\ PlacesOnce /\ BlocksApart /\ LinksOK /\ BlkOK
  BY DEF FreeInv
<1>2. doing[p] = "getblk" /\ blk[p] \in Area /\ blk[p] \in Moving
  BY HasBlock DEF AllocGet
<1>3. /\ link' = [link EXCEPT ![blk[p]] = <<>>] /\ used' = used \cup {blk[p]}
      /\ blk' = [blk EXCEPT ![p] = NoBlock] /\ doing' = [doing EXCEPT ![p] = "idle"]
      /\ fmod' = TRUE /\ UNCHANGED <<sfree, written>>
  BY DEF AllocGet, Turns
<1>4. /\ \A c \in Area : c # blk[p] => link'[c] = link[c]
      /\ link'[blk[p]] = <<>> /\ DOMAIN link'[blk[p]] = {}
  BY <1>1, <1>2, <1>3 DEF FreeTypeOK
<1>5. /\ doing'[p] = "idle" /\ blk'[p] = NoBlock
      /\ \A q \in Allocators : q # p => doing'[q] = doing[q] /\ blk'[q] = blk[q]
  BY <1>1, <1>3 DEF FreeTypeOK
<1>6. \A c \in Area : c # blk[p] /\ Live(c)' => Live(c)
  BY <1>5 DEF Live
<1>7. \A x : x \in Moving' => x \in Moving /\ x # blk[p]
  BY <1>1, <1>5 DEF Moving, BlkOK
<1>8. PlacesOnce'
  BY <1>1, <1>3, <1>4, <1>6 DEF PlacesOnce
<1>9. BlocksApart'
  <2>1. used' \cap Moving' = {}
    BY <1>1, <1>3, <1>7 DEF BlocksApart
  <2>2. \A x : x \in used' => x \in used \/ x \in Moving
    BY <1>2, <1>3
  <2>3. Apart(used)'
    BY <1>1, <1>3, <1>4, <1>6, <2>2 DEF BlocksApart, Apart
  <2>4. Apart(Moving)'
    BY <1>1, <1>3, <1>4, <1>6, <1>7 DEF BlocksApart, Apart
  <2> QED BY <2>1, <2>3, <2>4 DEF BlocksApart
<1>10. LinksOK'
  <2>1. \A c \in Area : link[c] = <<>> => link'[c] = <<>>
    BY <1>4
  <2>2. \A b \in used' : link'[b] = <<>>
    BY <1>1, <1>3, <1>4, <2>1 DEF LinksOK, FreeTypeOK
  <2>3. \A q \in Allocators : doing'[q] \in {"free", "link"} => link'[blk'[q]] = <<>>
    <3>1. \A q \in Allocators : doing[q] \in {"free", "link"} => blk[q] \in Area
      BY HasBlock
    <3> QED BY <1>1, <1>5, <2>1, <3>1 DEF LinksOK
  <2>4. \A i \in DOMAIN sfree : i > 1 => link'[sfree[i]] = <<>>
    BY <1>1, <2>1, Entries DEF LinksOK
  <2>5. \A c \in Area : Live(c)' => \A i \in DOMAIN link'[c] : i > 1 => link'[link'[c][i]] = <<>>
    BY <1>1, <1>4, <1>6, <2>1, Entries DEF LinksOK
  <2> QED BY <1>3, <2>2, <2>3, <2>4, <2>5 DEF LinksOK
<1>11. MarkedOK'
  BY <1>3 DEF MarkedOK
<1> QED BY <1>8, <1>9, <1>10, <1>11

\* A block of a file is on its way.
LEMMA FreePlaces ==
    ASSUME FreeInv, NEW p \in Allocators, NEW b \in Area, free(p, b)
    PROVE  PlacesOnce' /\ BlocksApart' /\ LinksOK' /\ MarkedOK'
<1>1. FreeTypeOK /\ PlacesOnce /\ BlocksApart /\ LinksOK /\ BlkOK
  BY DEF FreeInv
<1>2. /\ doing[p] = "idle" /\ b \in used /\ used' = used \ {b} /\ fmod' = TRUE
      /\ blk' = [blk EXCEPT ![p] = b] /\ doing' = [doing EXCEPT ![p] = "free"]
      /\ UNCHANGED <<sfree, link, written>>
  BY DEF free, Turns, FreeInv, Clean
<1>3. /\ doing'[p] = "free" /\ blk'[p] = b
      /\ \A q \in Allocators : q # p => doing'[q] = doing[q] /\ blk'[q] = blk[q]
  BY <1>1, <1>2 DEF FreeTypeOK
<1>4. \A c : Live(c)' <=> Live(c)
  BY <1>2, <1>3 DEF Live
<1>5. \A x : x \in Moving' => x \in Moving \/ x = b
  BY <1>3 DEF Moving
<1>6. PlacesOnce'
  BY <1>1, <1>2, <1>4 DEF PlacesOnce
<1>7. BlocksApart'
  <2>1. used' \cap Moving' = {}
    BY <1>1, <1>2, <1>5 DEF BlocksApart
  <2>2. Apart(used)'
    BY <1>1, <1>2, <1>4 DEF BlocksApart, Apart
  <2>3. Apart(Moving)'
    BY <1>1, <1>2, <1>4, <1>5 DEF BlocksApart, Apart
  <2> QED BY <2>1, <2>2, <2>3 DEF BlocksApart
<1>8. LinksOK'
  BY <1>1, <1>2, <1>3, <1>4 DEF LinksOK
<1>9. MarkedOK'
  BY <1>2 DEF MarkedOK
<1> QED BY <1>6, <1>7, <1>8, <1>9

\* A block on its way comes into the superblock.
LEMMA PutPlaces ==
    ASSUME FreeInv, NEW p \in Allocators, doing[p] = "free",
           sfree' = Append(Opened, blk[p]), Opened \in Seq(Area \cup {0}),
           Len(Opened) \in 1..NICFREE, DOMAIN Opened = 1..Len(Opened),
           \A i \in DOMAIN Opened :
                \/ i \in DOMAIN sfree /\ Opened[i] = sfree[i]
                \/ i = 1 /\ Opened[i] = 0 /\ sfree = <<>>,
           blk' = [blk EXCEPT ![p] = NoBlock], doing' = [doing EXCEPT ![p] = "idle"],
           fmod' = TRUE, UNCHANGED <<link, used, written>>
    PROVE  PlacesOnce' /\ BlocksApart' /\ LinksOK' /\ MarkedOK'
<1> DEFINE S == Area \cup {0}
           n == Len(Opened) + 1
<1>1. FreeTypeOK /\ PlacesOnce /\ BlocksApart /\ LinksOK /\ BlkOK
  BY DEF FreeInv
<1>2. /\ blk[p] \in Area /\ blk[p] \in Moving /\ blk[p] \notin used
      /\ blk[p] # 0 /\ blk[p] # NoBlock /\ 0 \notin Moving /\ 0 \notin used
  <2>1. 0 \notin Moving /\ 0 \notin used
    BY <1>1, Numbers DEF Moving, FreeTypeOK
  <2>2. blk[p] \in Area /\ blk[p] \in Moving /\ blk[p] \notin used
    BY HasBlock
  <2> QED BY <2>1, <2>2, Numbers
<1>3. \A i \in DOMAIN sfree' :
            \/ /\ i \in DOMAIN Opened /\ sfree'[i] = Opened[i] /\ i # n
            \/ i = n /\ sfree'[i] = blk[p]
  <2>1. \A i \in DOMAIN Append(Opened, blk[p]) :
            \/ i \in DOMAIN Opened /\ Append(Opened, blk[p])[i] = Opened[i]
            \/ i = n /\ Append(Opened, blk[p])[i] = blk[p]
    <3> HIDE DEF S
    <3>1. Opened \in Seq(S) /\ blk[p] \in S
      BY <1>2 DEF S
    <3> QED BY <3>1, BackProps
  <2>2. \A i \in DOMAIN Opened : i # n
    OBVIOUS
  <2> QED BY <2>1, <2>2
<1> HIDE DEF n
<1>4. \A i \in DOMAIN sfree' :
            \/ /\ i \in DOMAIN sfree /\ sfree'[i] = sfree[i] /\ i # n
            \/ /\ i = 1 /\ sfree'[i] = 0 /\ i # n /\ DOMAIN sfree = {}
            \/ i = n /\ sfree'[i] = blk[p]
  BY <1>3
<1>5. \A i \in DOMAIN sfree : sfree[i] # blk[p]
  BY <1>1, <1>2 DEF BlocksApart, Apart
<1>6. \A c \in Area : Live(c) => \A i \in DOMAIN link[c] : link[c][i] # blk[p]
  BY <1>1, <1>2 DEF BlocksApart, Apart
<1>7. /\ doing'[p] = "idle" /\ blk'[p] = NoBlock
      /\ \A q \in Allocators : q # p => doing'[q] = doing[q] /\ blk'[q] = blk[q]
  BY <1>1 DEF FreeTypeOK
<1>8. \A c : Live(c)' <=> Live(c)
  BY <1>7 DEF Live
<1>9. \A x : x \in Moving' => x \in Moving /\ x # blk[p]
  BY <1>1, <1>7 DEF Moving, BlkOK
<1>10. PlacesOnce'
  <2>1. \A i, j \in DOMAIN sfree' : sfree'[i] = sfree'[j] => i = j
    BY <1>1, <1>2, <1>4, <1>5 DEF PlacesOnce
  <2>2. \A c \in Area : Live(c) => \A i \in DOMAIN link[c], j \in DOMAIN sfree' :
            link[c][i] # 0 => link[c][i] # sfree'[j]
    BY <1>1, <1>4, <1>6 DEF PlacesOnce
  <2> QED BY <1>1, <1>8, <2>1, <2>2 DEF PlacesOnce
<1>11. BlocksApart'
  <2>1. used' \cap Moving' = {}
    BY <1>1, <1>9 DEF BlocksApart
  <2>2. \A i \in DOMAIN sfree' : sfree'[i] \notin used /\ sfree'[i] \notin Moving'
    BY <1>1, <1>2, <1>4, <1>9 DEF BlocksApart, Apart
  <2>3. \A c \in Area : Live(c) =>
            \A i \in DOMAIN link[c] : link[c][i] \notin used /\ link[c][i] \notin Moving'
    BY <1>1, <1>9 DEF BlocksApart, Apart
  <2> QED BY <1>8, <2>1, <2>2, <2>3 DEF BlocksApart, Apart
<1>12. LinksOK'
  <2>1. link[blk[p]] = <<>>
    BY <1>1 DEF LinksOK
  <2>2. \A i \in DOMAIN sfree' : i > 1 => link[sfree'[i]] = <<>>
    BY <1>1, <1>4, <2>1 DEF LinksOK
  <2>3. \A q \in Allocators : doing'[q] \in {"free", "link"} => link[blk'[q]] = <<>>
    BY <1>1, <1>7 DEF LinksOK
  <2>4. \A c \in Area : Live(c)' => \A i \in DOMAIN link[c] : i > 1 => link[link[c][i]] = <<>>
    BY <1>1, <1>8 DEF LinksOK
  <2> QED BY <1>1, <2>2, <2>3, <2>4 DEF LinksOK
<1>13. MarkedOK'
  BY DEF MarkedOK
<1> QED BY <1>10, <1>11, <1>12, <1>13

\* The superblock moves into a block.
LEMMA LinkPlaces ==
    ASSUME FreeInv, NEW p \in Allocators, FreeLink(p)
    PROVE  PlacesOnce' /\ BlocksApart' /\ LinksOK' /\ MarkedOK'
<1>1. FreeTypeOK /\ PlacesOnce /\ BlocksApart /\ LinksOK /\ BlkOK
  BY DEF FreeInv
<1>2. /\ doing[p] = "link" /\ blk[p] \in Area /\ blk[p] \in Moving /\ blk[p] \notin used
      /\ Live(blk[p]) /\ blk[p] # NoBlock
  BY HasBlock, BlockLives, Numbers DEF FreeLink
<1>3. /\ link' = [link EXCEPT ![blk[p]] = sfree] /\ sfree' = <<>> /\ DOMAIN sfree' = {}
      /\ doing' = [doing EXCEPT ![p] = "write"] /\ UNCHANGED <<blk, used>>
  BY DEF FreeLink, Turns
<1>4. link'[blk[p]] = sfree /\ \A c \in Area : c # blk[p] => link'[c] = link[c]
  BY <1>1, <1>2, <1>3 DEF FreeTypeOK
<1>5. doing'[p] = "write" /\ \A q \in Allocators : q # p => doing'[q] = doing[q]
  BY <1>1, <1>3 DEF FreeTypeOK
<1>6. \A c : Live(c)' <=> Live(c)
  BY <1>2, <1>3, <1>5 DEF Live
<1>7. Moving' = Moving
  BY <1>3 DEF Moving
<1>8. /\ \A i \in DOMAIN sfree : sfree[i] # blk[p]
      /\ \A c \in Area : Live(c) => \A i \in DOMAIN link[c] : link[c][i] # blk[p]
  BY <1>1, <1>2 DEF BlocksApart, Apart
<1>9. PlacesOnce'
  <2>1. ASSUME NEW c \in Area, NEW d \in Area, Live(c), Live(d),
               NEW i \in DOMAIN link'[c], NEW j \in DOMAIN link'[d],
               link'[c][i] # 0, link'[c][i] = link'[d][j]
        PROVE  c = d /\ i = j
    <3>1. CASE c = blk[p] /\ d = blk[p]
      BY <1>1, <1>4, <2>1, <3>1 DEF PlacesOnce
    <3>2. CASE c = blk[p] /\ d # blk[p]
      BY <1>1, <1>4, <2>1, <3>2 DEF PlacesOnce
    <3>3. CASE c # blk[p] /\ d = blk[p]
      BY <1>1, <1>4, <2>1, <3>3 DEF PlacesOnce
    <3>4. CASE c # blk[p] /\ d # blk[p]
      BY <1>1, <1>4, <2>1, <3>4 DEF PlacesOnce
    <3> QED BY <3>1, <3>2, <3>3, <3>4
  <2> QED BY <1>3, <1>6, <2>1 DEF PlacesOnce
<1>10. BlocksApart'
  BY <1>1, <1>3, <1>4, <1>6, <1>7 DEF BlocksApart, Apart
<1>11. LinksOK'
  <2>1. \A b \in used : link'[b] = <<>>
    BY <1>1, <1>2, <1>4 DEF LinksOK, FreeTypeOK
  <2>2. \A q \in Allocators : doing'[q] \in {"free", "link"} => link'[blk[q]] = <<>>
    <3>1. \A q \in Allocators : doing'[q] \in {"free", "link"} =>
                q # p /\ doing[q] \in {"free", "link"} /\ blk[q] \in Area
      BY <1>5, HasBlock
    <3>2. \A q \in Allocators : q # p => blk[q] # blk[p]
      BY <1>1, <1>2 DEF BlkOK
    <3> QED BY <1>1, <1>4, <3>1, <3>2 DEF LinksOK
  <2>3. ASSUME NEW c \in Area, Live(c), NEW i \in DOMAIN link'[c], i > 1
        PROVE  link'[link'[c][i]] = <<>>
    <3>1. CASE c = blk[p]
      BY <1>1, <1>4, <1>8, <2>3, <3>1, Entries DEF LinksOK
    <3>2. CASE c # blk[p]
      BY <1>1, <1>4, <1>8, <2>3, <3>2, Entries DEF LinksOK
    <3> QED BY <3>1, <3>2
  <2> QED BY <1>3, <1>6, <2>1, <2>2, <2>3 DEF LinksOK
<1>12. MarkedOK'
  BY <1>3 DEF MarkedOK
<1> QED BY <1>9, <1>10, <1>11, <1>12

\* The block that holds the rest is the superblock's first.
LEMMA WrittenPlaces ==
    ASSUME FreeInv, NEW p \in Allocators, FreeWritten(p)
    PROVE  PlacesOnce' /\ BlocksApart' /\ LinksOK' /\ MarkedOK'
<1>1. FreeTypeOK /\ PlacesOnce /\ BlocksApart /\ LinksOK /\ BlkOK
  BY DEF FreeInv
<1>2. /\ doing[p] = "write" /\ blk[p] \in Area /\ sfree' = <<blk[p]>> /\ fmod' = TRUE
      /\ blk' = [blk EXCEPT ![p] = NoBlock] /\ doing' = [doing EXCEPT ![p] = "idle"]
      /\ UNCHANGED <<used, written>>
  BY WrittenDoes, InvIsForm
<1>3. \A c \in Area : link'[c] = link[c] \/ link'[c] = <<>>
  BY WrittenDoes, InvIsForm
<1>4. blk[p] \in Moving /\ blk[p] \notin used /\ blk[p] # NoBlock
  BY <1>2, HasBlock, Numbers
<1>5. DOMAIN sfree' = {1} /\ sfree'[1] = blk[p]
  BY <1>2
<1>6. /\ doing'[p] = "idle" /\ blk'[p] = NoBlock
      /\ \A q \in Allocators : q # p => doing'[q] = doing[q] /\ blk'[q] = blk[q]
  BY <1>1, <1>2 DEF FreeTypeOK
<1>7. \A c : Live(c)' <=> Live(c)
  BY <1>2, <1>6 DEF Live
<1>8. \A x : x \in Moving' => x \in Moving /\ x # blk[p]
  BY <1>1, <1>4, <1>6 DEF Moving, BlkOK
<1>9. \A c \in Area : \A i \in DOMAIN link'[c] : link'[c] = link[c]
  <2>1. DOMAIN <<>> = {}
    OBVIOUS
  <2> QED BY <1>3, <2>1
<1>10. \A c \in Area : Live(c) => \A i \in DOMAIN link[c] : link[c][i] # blk[p]
  BY <1>1, <1>4 DEF BlocksApart, Apart
<1>11. PlacesOnce'
  BY <1>1, <1>5, <1>7, <1>9, <1>10 DEF PlacesOnce
<1>12. BlocksApart'
  BY <1>1, <1>2, <1>4, <1>5, <1>7, <1>8, <1>9 DEF BlocksApart, Apart
<1>13. LinksOK'
  <2>1. \A c \in Area : link[c] = <<>> => link'[c] = <<>>
    BY <1>3
  <2>2. \A b \in used : link'[b] = <<>>
    BY <1>1, <2>1 DEF LinksOK, FreeTypeOK
  <2>3. \A q \in Allocators : doing'[q] \in {"free", "link"} => link'[blk'[q]] = <<>>
    <3>1. \A q \in Allocators : doing[q] \in {"free", "link"} => blk[q] \in Area
      BY HasBlock
    <3> QED BY <1>1, <1>6, <2>1, <3>1 DEF LinksOK
  <2>4. \A c \in Area : Live(c) => \A i \in DOMAIN link'[c] : i > 1 => link'[link'[c][i]] = <<>>
    BY <1>1, <1>9, <2>1, Entries DEF LinksOK
  <2>5. \A i \in DOMAIN sfree' : ~(i > 1)
    BY <1>5
  <2> QED BY <1>2, <1>7, <2>2, <2>3, <2>4, <2>5 DEF LinksOK
<1>14. MarkedOK'
  BY <1>2 DEF MarkedOK
<1> QED BY <1>11, <1>12, <1>13, <1>14

----------------------------------------------------------------------------
(* The invariant *)

\* Every step keeps it.
LEMMA InvStep ==
    ASSUME FreeInv, [FreeNext]_freeVars, ~garbled'
    PROVE  FreeInv'
<1>0. Clean'
  BY DEF Clean
<1>1. ASSUME NEW p \in Allocators,
             alloc(p) \/ update(p) \/ UpdateCopy(p) \/ UpdateDone(p)
      PROVE  FreeInv'
  <2>1. UNCHANGED <<sfree, link, blk, used>>
    BY <1>1 DEF alloc, update, UpdateCopy, UpdateDone
  <2>2. (fmod' = fmod /\ written' = written) \/ written' = sfree
    BY <1>1 DEF alloc, update, UpdateCopy, UpdateDone
  <2>3. doing[p] \in {"idle", "super", "superwrite"}
    BY <1>1 DEF alloc, update, UpdateCopy, UpdateDone
  <2>4. PICK l \in {"alloc", "super", "superwrite", "idle"} :
                doing' = [doing EXCEPT ![p] = l]
    BY <1>1 DEF alloc, update, UpdateCopy, UpdateDone, Turns
  <2>5. \A q \in Allocators :
            /\ doing'[q] = "getblk" <=> doing[q] = "getblk"
            /\ doing'[q] \in {"free", "link"} => doing[q] \in {"free", "link"}
    BY <2>3, <2>4 DEF FreeInv, FreeTypeOK
  <2>6. PlacesOnce' /\ BlocksApart' /\ LinksOK' /\ MarkedOK'
    BY <2>1, <2>2, <2>5, QuietPlaces
  <2>7. FreeTypeOK' /\ LockOK' /\ ShapeOK' /\ BlkOK'
    BY <1>1, QuietForm
  <2> QED BY <1>0, <2>6, <2>7 DEF FreeInv
<1>2. ASSUME NEW p \in Allocators, AllocPop(p) PROVE FreeInv'
  <2>1. CASE sfree # <<>> /\ Last(sfree) # 0
    BY <1>0, <1>2, <2>1, PopForm, PopPlaces DEF FreeInv
  <2>2. CASE sfree = <<>> \/ Last(sfree) = 0
    <3>1. /\ Nospace(p) /\ doing[p] = "alloc" /\ ~flock /\ blk' = blk /\ flock' = flock
          /\ UNCHANGED <<fmod, link, used, updlock, written, failures, garbled, begun>>
      BY <1>2, <2>2 DEF AllocPop, Unlocked
    <3>2. sfree' = <<>> /\ doing' = [doing EXCEPT ![p] = "idle"]
      BY <3>1 DEF Nospace, Turns
    <3>3. failures' \in 0..MaxFailures /\ flock' = FALSE
      BY <3>1 DEF FreeInv, FreeTypeOK
    <3>4. FreeTypeOK' /\ LockOK' /\ ShapeOK' /\ BlkOK'
      BY <3>1, <3>3, NospaceForm
    <3>5. PlacesOnce' /\ BlocksApart' /\ LinksOK' /\ MarkedOK'
      BY <3>1, <3>2, NospacePlaces
    <3> QED BY <1>0, <3>4, <3>5 DEF FreeInv
  <2> QED BY <2>1, <2>2
<1>3. ASSUME NEW p \in Allocators, AllocRead(p) PROVE FreeInv'
  <2>1. doing[p] = "read" /\ flock' = FALSE /\ UNCHANGED <<fmod, link, used, updlock, written>>
    BY <1>3 DEF AllocRead
  <2>2. CASE /\ sfree' = link[blk[p]] /\ doing' = [doing EXCEPT ![p] = "getblk"]
             /\ UNCHANGED <<blk, full, failures, garbled, begun>>
    BY <1>0, <2>1, <2>2, ReadForm, ReadPlaces DEF FreeInv
  <2>3. CASE /\ Nospace(p) /\ blk' = [blk EXCEPT ![p] = NoBlock]
             /\ failures' = failures \/ DiskFails
             /\ UNCHANGED <<garbled, begun>>
    <3>1. sfree' = <<>> /\ doing' = [doing EXCEPT ![p] = "idle"]
      BY <2>3 DEF Nospace, Turns
    <3>2. failures' \in 0..MaxFailures
      BY <2>3, Numbers DEF FreeInv, FreeTypeOK, DiskFails
    <3>3. FreeTypeOK' /\ LockOK' /\ ShapeOK' /\ BlkOK'
      BY <2>1, <2>3, <3>2, NospaceForm
    <3>4. PlacesOnce' /\ BlocksApart' /\ LinksOK' /\ MarkedOK'
      BY <2>1, <2>3, <3>1, NospacePlaces
    <3> QED BY <1>0, <3>3, <3>4 DEF FreeInv
  <2> QED BY <1>3, <2>2, <2>3 DEF AllocRead, Turns
<1>4. ASSUME NEW p \in Allocators, AllocGet(p) PROVE FreeInv'
  BY <1>0, <1>4, GetForm, GetPlaces DEF FreeInv
<1>5. ASSUME NEW p \in Allocators, NEW b \in Area, free(p, b) PROVE FreeInv'
  BY <1>0, <1>5, FreeForm, FreePlaces DEF FreeInv
<1>6. ASSUME NEW p \in Allocators, FreePut(p) PROVE FreeInv'
  <2>1. PlacesOnce' /\ BlocksApart' /\ LinksOK' /\ MarkedOK'
    <3>1. CASE /\ sfree' = sfree /\ doing' = [doing EXCEPT ![p] = "link"]
               /\ UNCHANGED <<blk, fmod>>
      <4>1. UNCHANGED <<link, used, written>> /\ doing[p] = "free"
        BY <1>6, PutDoes, InvIsForm
      <4>2. \A q \in Allocators :
                /\ doing'[q] = "getblk" <=> doing[q] = "getblk"
                /\ doing'[q] \in {"free", "link"} => doing[q] \in {"free", "link"}
        BY <3>1, <4>1 DEF FreeInv, FreeTypeOK
      <4> QED BY <3>1, <4>1, <4>2, QuietPlaces
    <3>2. CASE /\ sfree' = Append(Opened, blk[p])
               /\ blk' = [blk EXCEPT ![p] = NoBlock] /\ fmod' = TRUE
               /\ doing' = [doing EXCEPT ![p] = "idle"]
      BY <1>6, <3>2, PutDoes, InvIsForm, PutPlaces
    <3> QED BY <1>6, <3>1, <3>2, PutDoes, InvIsForm
  <2> QED BY <1>0, <1>6, <2>1, PutForm DEF FreeInv
<1>7. ASSUME NEW p \in Allocators, FreeLink(p) PROVE FreeInv'
  BY <1>0, <1>7, LinkForm, LinkPlaces DEF FreeInv
<1>8. ASSUME NEW p \in Allocators, FreeWritten(p) PROVE FreeInv'
  BY <1>0, <1>8, WrittenForm, WrittenPlaces DEF FreeInv
<1>9. ASSUME UNCHANGED freeVars PROVE FreeInv'
  <2>1. UNCHANGED <<sfree, flock, fmod, link, doing, blk, used, updlock, written, full,
                    failures, garbled, begun>>
    BY <1>9 DEF freeVars
  <2>2. FreeTypeOK' /\ LockOK' /\ ShapeOK' /\ BlkOK'
    BY <2>1 DEF FreeInv, FreeTypeOK, LockOK, ShapeOK, BlkOK
  <2>3. PlacesOnce' /\ BlocksApart' /\ LinksOK' /\ MarkedOK'
    BY <2>1, QuietPlaces
  <2> QED BY <1>0, <2>2, <2>3 DEF FreeInv
<1> QED
  BY <1>1, <1>2, <1>3, <1>4, <1>5, <1>6, <1>7, <1>8, <1>9 DEF FreeNext, Proceeds

\* What mkfs leaves: a zero and the free blocks, each once.
LEMMA InitialList ==
    /\ SetToSeq(InitFree) \in Seq(InitFree) /\ Len(SetToSeq(InitFree)) < NICFREE
    /\ DOMAIN SetToSeq(InitFree) = 1..Len(SetToSeq(InitFree))
    /\ \A i, j \in DOMAIN SetToSeq(InitFree) :
            SetToSeq(InitFree)[i] = SetToSeq(InitFree)[j] => i = j
<1> DEFINE n == Cardinality(InitFree)
           q == SetToSeq(InitFree)
<1>1. IsFiniteSet(InitFree)
  BY FS_Subset, FreeListAssumption
<1>2. n \in Nat /\ ExistsBijection(1..n, InitFree)
  BY <1>1, FS_CardinalityType
<1>3. \E f \in [1..n -> InitFree] : IsInjective(f)
  BY <1>2 DEF ExistsBijection, Bijection, Injection, IsInjective
<1>4. q = CHOOSE f \in [1..n -> InitFree] : IsInjective(f)
  BY DEF SetToSeq
<1> HIDE DEF q
<1>5. q \in [1..n -> InitFree] /\ IsInjective(q)
  BY <1>3, <1>4
<1>6. q \in Seq(InitFree) /\ Len(q) = n
  BY <1>2, <1>5
<1>7. n < NICFREE
  BY FreeListAssumption
<1> QED BY <1>5, <1>6, <1>7 DEF q, IsInjective

\* It holds to begin with.
LEMMA InvInit == FreeInit => FreeInv
<1> SUFFICES ASSUME FreeInit PROVE FreeInv
  OBVIOUS
<1> DEFINE q == SetToSeq(InitFree)
<1>1. /\ q \in Seq(InitFree) /\ Len(q) < NICFREE /\ Len(q) \in Nat
      /\ DOMAIN q = 1..Len(q)
      /\ \A i, j \in DOMAIN q : q[i] = q[j] => i = j
  BY InitialList
<1>2. sfree = <<0>> \o q
  BY DEF FreeInit
<1> HIDE DEF q
<1>3. /\ q \in Seq(Area \cup {0}) /\ <<0>> \in Seq(Area \cup {0}) /\ Len(<<0>>) = 1
      /\ <<0>>[1] = 0
  BY <1>1, Numbers
<1>4. /\ sfree \in Seq(Area \cup {0}) /\ Len(sfree) = Len(q) + 1
      /\ DOMAIN sfree = 1..Len(q) + 1 /\ sfree[1] = 0
      /\ \A i \in 2..Len(q) + 1 : sfree[i] = q[i - 1]
  BY <1>1, <1>2, <1>3, ConcatProperties
<1>5. \A i \in 2..Len(q) + 1 : sfree[i] \in InitFree /\ i - 1 \in DOMAIN q
  BY <1>1, <1>4
<1>6. \A i \in DOMAIN sfree : i = 1 \/ i \in 2..Len(q) + 1
  BY <1>1, <1>4
<1>7. /\ flock = FALSE /\ fmod = FALSE /\ updlock = FALSE /\ full = FALSE /\ failures = 0
      /\ garbled = FALSE /\ begun = 0
      /\ link = [b \in Area |-> <<>>] /\ doing = [p \in Allocators |-> "idle"]
      /\ blk = [p \in Allocators |-> NoBlock] /\ used = Area \ InitFree /\ written = sfree
  BY DEF FreeInit
<1>8. /\ \A c \in Area : link[c] = <<>> /\ DOMAIN link[c] = {} /\ Len(link[c]) = 0
      /\ \A p \in Allocators : doing[p] = "idle" /\ blk[p] = NoBlock
      /\ <<>> \in Seq(Area \cup {0})
  BY <1>7
<1>9. FreeTypeOK
  <2>1. Len(sfree) <= NICFREE
    BY <1>1, <1>4, Numbers
  <2>2. link \in [Area -> Seq(Area \cup {0})]
    BY <1>7, <1>8
  <2>3. /\ doing \in [Allocators -> {"idle", "alloc", "read", "getblk", "free", "link",
                                     "write", "super", "superwrite"}]
        /\ blk \in [Allocators -> Area \cup {NoBlock}]
    BY <1>7
  <2>4. failures \in 0..MaxFailures /\ used \subseteq Area /\ begun \in 0..MaxBegun
    BY <1>7, Numbers
  <2> QED BY <1>4, <1>7, <1>8, <2>1, <2>2, <2>3, <2>4 DEF FreeTypeOK
<1>10. LockOK
  BY <1>7, <1>8 DEF LockOK, Locking
<1>11. ShapeOK
  BY <1>1, <1>4, <1>5, <1>6, <1>8, Numbers DEF ShapeOK
<1>12. BlkOK
  BY <1>8 DEF BlkOK
<1>13. PlacesOnce
  <2>1. ASSUME NEW i \in DOMAIN sfree, NEW j \in DOMAIN sfree, sfree[i] = sfree[j]
        PROVE  i = j
    <3>1. CASE i = 1 \/ j = 1
      BY <1>4, <1>5, <1>6, <2>1, <3>1, Numbers
    <3>2. CASE i \in 2..Len(q) + 1 /\ j \in 2..Len(q) + 1
      <4>1. i - 1 = j - 1
        BY <1>1, <1>4, <1>5, <2>1, <3>2
      <4> QED BY <1>1, <3>2, <4>1
    <3> QED BY <1>6, <3>1, <3>2
  <2> QED BY <1>8, <2>1 DEF PlacesOnce
<1>14. BlocksApart
  <2>1. Moving = {}
    BY <1>8 DEF Moving
  <2>2. \A i \in DOMAIN sfree : sfree[i] \notin used
    BY <1>4, <1>5, <1>6, <1>7, Numbers
  <2> QED BY <1>8, <2>1, <2>2 DEF BlocksApart, Apart
<1>15. LinksOK
  BY <1>4, <1>5, <1>6, <1>7, <1>8, Numbers DEF LinksOK
<1>16. MarkedOK
  BY <1>7 DEF MarkedOK
<1> QED BY <1>7, <1>9, <1>10, <1>11, <1>12, <1>13, <1>14, <1>15, <1>16 DEF FreeInv, Clean

----------------------------------------------------------------------------
(* What holds whatever the disk does *)

\* A step of a process that has the superblock to itself, or gets or gives up that.
LEMMA TurnHeld ==
    ASSUME FormInv, FreeTypeOK', NEW p \in Allocators, NEW l, NEW x,
           doing' = [doing EXCEPT ![p] = l], blk' = [blk EXCEPT ![p] = x],
           doing[p] \in Locking \/ ~flock, flock' <=> l \in Locking,
           x # NoBlock <=> l \in {"read", "getblk", "free", "link", "write"},
           l \in {"read", "write"} => sfree' = <<>>,
           l = "link" => Len(sfree') = NICFREE
    PROVE  LockOK' /\ TurnsOK'
<1>1. FreeTypeOK /\ LockOK /\ TurnsOK
  BY DEF FormInv
<1>2. /\ doing'[p] = l /\ blk'[p] = x
      /\ \A q \in Allocators : q # p => doing'[q] = doing[q] /\ blk'[q] = blk[q]
  BY <1>1 DEF FreeTypeOK
<1>3. \A q \in Allocators : q # p => doing[q] \notin Locking
  BY <1>1 DEF LockOK
<1>4. LockOK'
  BY <1>2, <1>3 DEF LockOK
<1>5. TurnsOK'
  BY <1>1, <1>2, <1>3 DEF TurnsOK, Locking
<1> QED BY <1>4, <1>5

\* One of a process that leaves the superblock alone.
LEMMA TurnQuiet ==
    ASSUME FormInv, FreeTypeOK', NEW p \in Allocators, NEW l, NEW x,
           doing' = [doing EXCEPT ![p] = l], blk' = [blk EXCEPT ![p] = x],
           doing[p] \notin Locking, l \notin Locking, UNCHANGED <<sfree, flock>>,
           x # NoBlock <=> l \in {"getblk", "free"}
    PROVE  LockOK' /\ TurnsOK'
<1>1. FreeTypeOK /\ LockOK /\ TurnsOK
  BY DEF FormInv
<1>2. /\ doing'[p] = l /\ blk'[p] = x
      /\ \A q \in Allocators : q # p => doing'[q] = doing[q] /\ blk'[q] = blk[q]
  BY <1>1 DEF FreeTypeOK
<1>3. LockOK'
  BY <1>1, <1>2 DEF LockOK
<1>4. TurnsOK'
  BY <1>1, <1>2 DEF TurnsOK, Locking
<1> QED BY <1>3, <1>4

\* A list without a block, one that passes for a list, and one that alloc leaves, have the
\* type of the superblock.
LEMMA ListTypes ==
    ASSUME FreeTypeOK
    PROVE  /\ <<>> \in Seq(Area \cup {0}) /\ Len(<<>>) = 0 /\ 0 <= NICFREE
           /\ \A r \in Residues : r \in Seq(Area \cup {0}) /\ Len(r) <= NICFREE
           /\ sfree # <<>> => /\ Front(sfree) \in Seq(Area \cup {0})
                              /\ Len(Front(sfree)) <= NICFREE
                              /\ Last(sfree) \in Area \cup {0}
<1> DEFINE S == Area \cup {0}
<1>1. \A r \in Residues : r \in Seq(S) /\ Len(r) <= NICFREE
  BY FreeListAssumption
<1>2. sfree \in Seq(S) /\ Len(sfree) \in 0..NICFREE
  BY Lists
<1>3. ASSUME sfree # <<>>
      PROVE  Front(sfree) \in Seq(S) /\ Len(Front(sfree)) <= NICFREE /\ Last(sfree) \in S
  <2>1. Front(sfree) \in Seq(S) /\ Len(Front(sfree)) = Len(sfree) - 1 /\ Last(sfree) \in S
    <3> HIDE DEF S
    <3> QED BY <1>2, <1>3, FrontProps
  <2> QED BY <1>2, <2>1, Numbers
<1> QED BY <1>1, <1>3, Numbers

\* A call begins only so often once the list is garbled.
LEMMA BeginsType == FreeTypeOK /\ Begins => begun' \in 0..MaxBegun
BY Numbers DEF FreeTypeOK, Begins

\* alloc takes a block, or finds none.
LEMMA FormPop == ASSUME FormInv, NEW p \in Allocators, AllocPop(p) PROVE FormInv'
<1>1. FreeTypeOK /\ MarkedOK
  BY DEF FormInv
<1>2. CASE sfree = <<>> \/ Last(sfree) = 0
  <2>1. /\ doing[p] = "alloc" /\ ~flock /\ sfree' = <<>> /\ full' = TRUE
        /\ doing' = [doing EXCEPT ![p] = "idle"]
        /\ UNCHANGED <<flock, blk, fmod, link, used, updlock, written, failures, garbled, begun>>
    BY <1>2 DEF AllocPop, Unlocked, Nospace, Turns
  <2>2. FreeTypeOK'
    BY <1>1, <2>1, ListTypes DEF FreeTypeOK
  <2>3. PICK x \in Area \cup {NoBlock} : x = blk[p]
    BY <1>1 DEF FreeTypeOK
  <2>4. x = NoBlock /\ blk' = [blk EXCEPT ![p] = x]
    BY <1>1, <2>1, <2>3 DEF FormInv, TurnsOK, FreeTypeOK
  <2>5. LockOK' /\ TurnsOK'
    BY <2>1, <2>2, <2>4, TurnHeld DEF Locking
  <2> QED BY <2>1, <2>2, <2>5 DEF FormInv, MarkedOK
<1>3. CASE sfree # <<>> /\ Last(sfree) # 0
  <2>1. PICK e \in Area : e = Last(sfree)
    BY <1>1, <1>3, ListTypes
  <2>2. PICK l \in {"read", "getblk"} : l = IF sfree' = <<>> THEN "read" ELSE "getblk"
    OBVIOUS
  <2>3. /\ doing[p] = "alloc" /\ ~flock /\ sfree' = Front(sfree) /\ full' = FALSE
        /\ flock' = (sfree' = <<>>) /\ doing' = [doing EXCEPT ![p] = l]
        /\ blk' = [blk EXCEPT ![p] = e]
        /\ UNCHANGED <<fmod, link, used, updlock, written, failures, garbled, begun>>
    BY <1>3, <2>1, <2>2 DEF AllocPop, Unlocked, Exhausted, Turns
  <2>4. FreeTypeOK'
    BY <1>1, <1>3, <2>3, ListTypes DEF FreeTypeOK
  <2>5. e # NoBlock /\ (flock' <=> l \in Locking) /\ (l \in {"read", "write"} => sfree' = <<>>)
    BY <2>2, <2>3, Numbers DEF Locking
  <2>6. LockOK' /\ TurnsOK'
    BY <2>3, <2>4, <2>5, TurnHeld
  <2>7. doing'[p] = l
    BY <1>1, <2>3 DEF FreeTypeOK
  <2> QED BY <2>2, <2>4, <2>6, <2>7 DEF FormInv, MarkedOK
<1> QED BY <1>2, <1>3

\* The rest of the list comes, or what passes for it, or nothing.
LEMMA FormRead == ASSUME FormInv, NEW p \in Allocators, AllocRead(p) PROVE FormInv'
<1>1. FreeTypeOK /\ MarkedOK
  BY DEF FormInv
<1>2. /\ doing[p] = "read" /\ flock' = FALSE /\ blk[p] \in Area /\ blk[p] # NoBlock
      /\ UNCHANGED <<fmod, link, used, updlock, written, begun>>
  BY BlockThere, Numbers DEF AllocRead
<1>3. CASE /\ sfree' = link[blk[p]] \/ sfree' \in Residues
           /\ garbled' \in BOOLEAN /\ doing' = [doing EXCEPT ![p] = "getblk"]
           /\ UNCHANGED <<blk, full, failures>>
  <2>1. sfree' \in Seq(Area \cup {0}) /\ Len(sfree') <= NICFREE
    BY <1>1, <1>2, <1>3, Lists, ListTypes, Numbers
  <2>2. FreeTypeOK'
    BY <1>1, <1>2, <1>3, <2>1 DEF FreeTypeOK
  <2>3. PICK x \in Area : x = blk[p]
    BY <1>2
  <2>4. blk' = [blk EXCEPT ![p] = x]
    BY <1>1, <1>3, <2>3 DEF FreeTypeOK
  <2>5. LockOK' /\ TurnsOK'
    BY <1>2, <1>3, <2>2, <2>3, <2>4, TurnHeld DEF Locking
  <2>6. doing'[p] = "getblk"
    BY <1>1, <1>3 DEF FreeTypeOK
  <2> QED BY <2>2, <2>5, <2>6 DEF FormInv, MarkedOK
<1>4. CASE /\ Nospace(p) /\ blk' = [blk EXCEPT ![p] = NoBlock]
           /\ failures' = failures \/ DiskFails
           /\ garbled' = garbled
  <2>1. sfree' = <<>> /\ full' = TRUE /\ doing' = [doing EXCEPT ![p] = "idle"]
    BY <1>4 DEF Nospace, Turns
  <2>2. failures' \in 0..MaxFailures
    BY <1>1, <1>4, Numbers DEF DiskFails, FreeTypeOK
  <2>3. FreeTypeOK'
    BY <1>1, <1>2, <1>4, <2>1, <2>2, ListTypes DEF FreeTypeOK
  <2>4. PICK x : x = NoBlock
    OBVIOUS
  <2>5. LockOK' /\ TurnsOK'
    BY <1>2, <1>4, <2>1, <2>3, <2>4, TurnHeld DEF Locking
  <2> QED BY <2>1, <2>3, <2>5 DEF FormInv, MarkedOK
<1>5. \/ sfree' = link[blk[p]] /\ garbled' = garbled /\ Turns(p, "getblk")
            /\ UNCHANGED <<blk, full, failures>>
      \/ sfree' \in Residues /\ garbled' = TRUE /\ Turns(p, "getblk")
            /\ UNCHANGED <<blk, full, failures>>
      \/ /\ Nospace(p) /\ blk' = [blk EXCEPT ![p] = NoBlock]
         /\ failures' = failures \/ DiskFails
         /\ garbled' = garbled
  BY DEF AllocRead
<1>6. garbled \in BOOLEAN
  BY <1>1 DEF FreeTypeOK
<1> QED BY <1>3, <1>4, <1>5, <1>6 DEF Turns

\* The block is cleared.
LEMMA FormGet == ASSUME FormInv, NEW p \in Allocators, AllocGet(p) PROVE FormInv'
<1>1. FreeTypeOK /\ MarkedOK
  BY DEF FormInv
<1>2. /\ doing[p] = "getblk" /\ blk[p] \in Area
      /\ link' = [link EXCEPT ![blk[p]] = <<>>] /\ used' = used \cup {blk[p]}
      /\ blk' = [blk EXCEPT ![p] = NoBlock] /\ doing' = [doing EXCEPT ![p] = "idle"]
      /\ fmod' = TRUE
      /\ UNCHANGED <<sfree, flock, updlock, written, full, failures, garbled, begun>>
  BY BlockThere DEF AllocGet, Turns
<1>3. /\ link' \in [Area -> Seq(Area \cup {0})]
      /\ \A c \in Area : Len(link'[c]) \in {0, NICFREE}
  <2>1. \A c \in Area : link'[c] = link[c] \/ link'[c] = <<>>
    BY <1>1, <1>2 DEF FreeTypeOK
  <2>2. link' \in [Area -> Seq(Area \cup {0})]
    BY <1>1, <1>2, ListTypes DEF FreeTypeOK
  <2> QED BY <1>1, <2>1, <2>2, ListTypes DEF FreeTypeOK
<1>4. FreeTypeOK'
  BY <1>1, <1>2, <1>3 DEF FreeTypeOK
<1>5. PICK x : x = NoBlock
  OBVIOUS
<1>6. LockOK' /\ TurnsOK'
  BY <1>2, <1>4, <1>5, TurnQuiet DEF Locking
<1> QED BY <1>2, <1>4, <1>6 DEF FormInv, MarkedOK

\* A file gives up a block.
LEMMA FormFree ==
    ASSUME FormInv, NEW p \in Allocators, NEW b \in Area, free(p, b) PROVE FormInv'
<1>1. FreeTypeOK /\ MarkedOK
  BY DEF FormInv
<1>2. /\ doing[p] = "idle" /\ b \in used /\ used' \subseteq used /\ fmod' = TRUE
      /\ blk' = [blk EXCEPT ![p] = b] /\ doing' = [doing EXCEPT ![p] = "free"]
      /\ UNCHANGED <<sfree, flock, link, updlock, written, full, failures, garbled>>
  BY DEF free, Turns
<1>3. begun' \in 0..MaxBegun
  BY <1>1, BeginsType DEF free
<1>4. FreeTypeOK'
  BY <1>1, <1>2, <1>3 DEF FreeTypeOK
<1>5. LockOK' /\ TurnsOK'
  BY <1>2, <1>4, TurnQuiet, Numbers DEF Locking
<1> QED BY <1>2, <1>4, <1>5 DEF FormInv, MarkedOK

\* free puts the block into the superblock, or makes room.
LEMMA FormPut == ASSUME FormInv, NEW p \in Allocators, FreePut(p) PROVE FormInv'
<1>1. FreeTypeOK /\ MarkedOK
  BY DEF FormInv
<1>2. /\ doing[p] = "free" /\ ~flock /\ blk[p] \in Area /\ blk[p] # NoBlock
      /\ Opened \in Seq(Area \cup {0}) /\ Len(Opened) \in 1..NICFREE
      /\ UNCHANGED <<link, used, updlock, written, full, failures, garbled, begun>>
  BY PutDoes, Numbers
<1>3. CASE /\ flock' = TRUE /\ sfree' = Opened /\ Len(Opened) = NICFREE /\ sfree' = sfree
           /\ doing' = [doing EXCEPT ![p] = "link"] /\ UNCHANGED <<blk, fmod>>
  <2>1. FreeTypeOK'
    BY <1>1, <1>2, <1>3 DEF FreeTypeOK
  <2>2. PICK x \in Area : x = blk[p]
    BY <1>2
  <2>3. blk' = [blk EXCEPT ![p] = x]
    BY <1>1, <1>3, <2>2 DEF FreeTypeOK
  <2>4. LockOK' /\ TurnsOK'
    BY <1>2, <1>3, <2>1, <2>2, <2>3, TurnHeld DEF Locking
  <2>5. \A q \in Allocators : doing'[q] = "getblk" <=> doing[q] = "getblk"
    BY <1>1, <1>2, <1>3 DEF FreeTypeOK
  <2> QED BY <1>1, <1>2, <1>3, <2>1, <2>4, <2>5 DEF FormInv, MarkedOK
<1>4. CASE /\ sfree' = Append(Opened, blk[p]) /\ Len(Opened) < NICFREE /\ fmod' = TRUE
           /\ blk' = [blk EXCEPT ![p] = NoBlock] /\ flock' = flock
           /\ doing' = [doing EXCEPT ![p] = "idle"]
  <2>1. sfree' \in Seq(Area \cup {0}) /\ Len(sfree') <= NICFREE
    BY <1>2, <1>4, Numbers
  <2>2. FreeTypeOK'
    BY <1>1, <1>2, <1>4, <2>1 DEF FreeTypeOK
  <2>3. PICK x : x = NoBlock
    OBVIOUS
  <2>4. LockOK' /\ TurnsOK'
    BY <1>2, <1>4, <2>2, <2>3, TurnHeld DEF Locking
  <2> QED BY <1>4, <2>2, <2>4 DEF FormInv, MarkedOK
<1> QED BY <1>3, <1>4, PutDoes

\* The superblock goes into the block.
LEMMA FormLink == ASSUME FormInv, NEW p \in Allocators, FreeLink(p) PROVE FormInv'
<1>1. FreeTypeOK /\ LockOK /\ TurnsOK /\ MarkedOK
  BY DEF FormInv
<1>2. /\ doing[p] = "link" /\ blk[p] \in Area /\ blk[p] # NoBlock /\ flock
      /\ link' = [link EXCEPT ![blk[p]] = sfree] /\ sfree' = <<>>
      /\ doing' = [doing EXCEPT ![p] = "write"]
      /\ UNCHANGED <<flock, fmod, blk, used, updlock, written, full, failures, garbled, begun>>
  BY <1>1, BlockThere, Numbers DEF FreeLink, Turns, LockOK, Locking
<1>3. sfree \in Seq(Area \cup {0}) /\ Len(sfree) = NICFREE
  BY <1>1, <1>2, Lists DEF TurnsOK
<1>4. /\ link' \in [Area -> Seq(Area \cup {0})]
      /\ \A c \in Area : Len(link'[c]) \in {0, NICFREE}
  <2>1. \A c \in Area : link'[c] = link[c] \/ link'[c] = sfree
    BY <1>1, <1>2 DEF FreeTypeOK
  <2>2. link' \in [Area -> Seq(Area \cup {0})]
    BY <1>1, <1>2, <1>3 DEF FreeTypeOK
  <2> QED BY <1>1, <1>3, <2>1, <2>2 DEF FreeTypeOK
<1>5. FreeTypeOK'
  BY <1>1, <1>2, <1>4, ListTypes DEF FreeTypeOK
<1>6. PICK x \in Area : x = blk[p]
  BY <1>2
<1>7. blk' = [blk EXCEPT ![p] = x]
  BY <1>1, <1>2, <1>6 DEF FreeTypeOK
<1>8. LockOK' /\ TurnsOK'
  BY <1>2, <1>5, <1>6, <1>7, TurnHeld DEF Locking
<1> QED BY <1>2, <1>5, <1>8 DEF FormInv, MarkedOK

\* The write has ended.
LEMMA FormWritten == ASSUME FormInv, NEW p \in Allocators, FreeWritten(p) PROVE FormInv'
<1>1. FreeTypeOK
  BY DEF FormInv
<1>2. /\ doing[p] = "write" /\ blk[p] \in Area /\ flock
      /\ sfree' = <<blk[p]>> /\ flock' = FALSE /\ fmod' = TRUE
      /\ blk' = [blk EXCEPT ![p] = NoBlock] /\ doing' = [doing EXCEPT ![p] = "idle"]
      /\ failures' \in 0..MaxFailures
      /\ UNCHANGED <<used, updlock, written, full, garbled, begun>>
  BY WrittenDoes
<1>3. /\ link' \in [Area -> Seq(Area \cup {0})]
      /\ \A c \in Area : link'[c] = link[c] \/ link'[c] = <<>>
  BY WrittenDoes
<1>4. sfree' \in Seq(Area \cup {0}) /\ Len(sfree') <= NICFREE
  BY <1>2, Numbers
<1>5. \A c \in Area : Len(link'[c]) \in {0, NICFREE}
  BY <1>1, <1>3, ListTypes DEF FreeTypeOK
<1>6. FreeTypeOK'
  BY <1>1, <1>2, <1>3, <1>4, <1>5 DEF FreeTypeOK
<1>7. PICK x : x = NoBlock
  OBVIOUS
<1>8. LockOK' /\ TurnsOK'
  BY <1>2, <1>6, <1>7, TurnHeld DEF Locking
<1> QED BY <1>2, <1>6, <1>8 DEF FormInv, MarkedOK

\* A call begins, or update works.
LEMMA FormQuiet ==
    ASSUME FormInv, NEW p \in Allocators,
           alloc(p) \/ update(p) \/ UpdateCopy(p) \/ UpdateDone(p)
    PROVE  FormInv'
<1>1. FreeTypeOK /\ MarkedOK
  BY DEF FormInv
<1>2. UNCHANGED <<sfree, flock, link, blk, used, full, failures, garbled>>
  BY DEF alloc, update, UpdateCopy, UpdateDone
<1>3. PICK l \in {"alloc", "super", "superwrite", "idle"} :
            doing' = [doing EXCEPT ![p] = l]
  BY DEF alloc, update, UpdateCopy, UpdateDone, Turns
<1>4. doing[p] \in {"idle", "super", "superwrite"}
  BY DEF alloc, update, UpdateCopy, UpdateDone
<1>5. begun' \in 0..MaxBegun
  <2>1. Begins \/ begun' = begun
    BY DEF alloc, update, UpdateCopy, UpdateDone
  <2> QED BY <1>1, <2>1, BeginsType DEF FreeTypeOK
<1>6. fmod' \in BOOLEAN /\ updlock' \in BOOLEAN
  BY <1>1 DEF alloc, update, UpdateCopy, UpdateDone, FreeTypeOK
<1>7. FreeTypeOK'
  BY <1>1, <1>2, <1>3, <1>5, <1>6 DEF FreeTypeOK
<1>8. PICK x \in Area \cup {NoBlock} : x = blk[p]
  BY <1>1 DEF FreeTypeOK
<1>9. x = NoBlock /\ blk' = [blk EXCEPT ![p] = x]
  BY <1>1, <1>2, <1>4, <1>8 DEF FormInv, TurnsOK, FreeTypeOK
<1>10. doing[p] \notin Locking /\ l \notin Locking /\ l \notin {"getblk", "free"}
  BY <1>4 DEF Locking
<1>11. LockOK' /\ TurnsOK'
  BY <1>2, <1>3, <1>7, <1>9, <1>10, TurnQuiet
<1>12. MarkedOK'
  <2>1. (fmod' = fmod /\ written' = written) \/ written' = sfree
    BY DEF alloc, update, UpdateCopy, UpdateDone
  <2>2. \A q \in Allocators : doing'[q] = "getblk" <=> doing[q] = "getblk"
    BY <1>1, <1>3, <1>4 DEF FreeTypeOK
  <2> QED BY <1>1, <1>2, <2>1, <2>2 DEF MarkedOK
<1> QED BY <1>7, <1>11, <1>12 DEF FormInv

\* Every step keeps it.
LEMMA FormStep == FormInv /\ [FreeNext]_freeVars => FormInv'
<1> SUFFICES ASSUME FormInv, [FreeNext]_freeVars PROVE FormInv'
  OBVIOUS
<1>1. ASSUME UNCHANGED freeVars PROVE FormInv'
  BY <1>1 DEF freeVars, FormInv, FreeTypeOK, LockOK, TurnsOK, MarkedOK
<1> QED
  BY <1>1, FormPop, FormRead, FormGet, FormFree, FormPut, FormLink, FormWritten, FormQuiet
     DEF FreeNext, Proceeds

----------------------------------------------------------------------------
(* Why a list can be garbled only by a disk that has failed *)

\* Unless the disk has failed, a block that is the first of a part holds a list: that of the
\* superblock, that of a block, and the one that is being read or has been written.
LinkedOK ==
    failures = 0 =>
        /\ \A p \in Allocators : doing[p] \in {"read", "write"} => link[blk[p]] # <<>>
        /\ 1 \in DOMAIN sfree /\ sfree[1] # 0 => link[sfree[1]] # <<>>
        /\ \A c \in Area : Live(c) /\ 1 \in DOMAIN link[c] /\ link[c][1] # 0 =>
                link[link[c][1]] # <<>>

\* The disk does not unfail.
LEMMA FailuresGrow ==
    ASSUME FreeTypeOK, [FreeNext]_freeVars, failures' = 0
    PROVE  failures = 0
<1>1. failures' = failures \/ failures' = failures + 1
  <2>1. ASSUME NEW p \in Allocators, NEW b \in Area, free(p, b) PROVE failures' = failures
    BY <2>1 DEF free
  <2> QED BY <2>1 DEF FreeNext, Proceeds, freeVars, DiskFails, alloc, AllocPop, AllocRead,
        AllocGet, FreePut, FreeLink, FreeWritten, update, UpdateCopy, UpdateDone
<1>2. failures \in Nat
  BY Numbers DEF FreeTypeOK
<1> QED BY <1>1, <1>2

\* Where no list moves.
LEMMA QuietHeads ==
    ASSUME FreeInv, LinkedOK, failures' = 0 => failures = 0,
           UNCHANGED <<sfree, link>>,
           \A p \in Allocators : doing'[p] \in {"read", "write"} =>
                doing[p] \in {"read", "write"} /\ blk'[p] = blk[p],
           \A c : Live(c)' => Live(c)
    PROVE  LinkedOK'
BY DEF LinkedOK

\* A block leaves the superblock.
LEMMA PopHeads ==
    ASSUME FreeInv, LinkedOK, failures' = 0 => failures = 0,
           NEW p \in Allocators, AllocPop(p), sfree # <<>>, Last(sfree) # 0
    PROVE  LinkedOK'
<1> DEFINE S == Area \cup {0}
           e == Last(sfree)
<1>1. FreeTypeOK /\ LockOK
  BY DEF FreeInv
<1>2. sfree \in Seq(S) /\ DOMAIN sfree = 1..Len(sfree)
  BY <1>1, Lists, SMTT(30)
<1>3. /\ Len(Front(sfree)) = Len(sfree) - 1 /\ Front(sfree) \in Seq(S)
      /\ Len(sfree) \in DOMAIN sfree /\ e = sfree[Len(sfree)]
      /\ \A i \in DOMAIN Front(sfree) :
            i \in DOMAIN sfree /\ i < Len(sfree) /\ Front(sfree)[i] = sfree[i]
  <2> HIDE DEF S
  <2> QED BY <1>2, FrontProps, Zenon
<1> HIDE DEF e
<1>4. /\ doing[p] = "alloc" /\ ~flock /\ blk' = [blk EXCEPT ![p] = e]
      /\ sfree' = Front(sfree) /\ flock' = (sfree' = <<>>) /\ link' = link /\ e # 0
      /\ doing' = [doing EXCEPT ![p] = IF flock' THEN "read" ELSE "getblk"]
  BY DEF AllocPop, Exhausted, Unlocked, Turns, e
<1>5. /\ doing'[p] = (IF flock' THEN "read" ELSE "getblk") /\ blk'[p] = e
      /\ \A q \in Allocators : q # p => doing'[q] = doing[q] /\ blk'[q] = blk[q]
  BY <1>1, <1>4 DEF FreeTypeOK
<1>6. \A c : Live(c)' => Live(c)
  BY <1>4, <1>5 DEF Live
<1>7. ASSUME flock', failures = 0 PROVE link[e] # <<>>
  <2>1. sfree' = <<>>
    BY <1>4, <1>7, Zenon
  <2>2. Len(Front(sfree)) = 0
    BY <1>4, <2>1
  <2>3. Len(sfree) = 1 /\ 1 \in DOMAIN sfree /\ sfree[1] = e
    <3>1. Len(sfree) \in Nat
      BY <1>2
    <3>2. Len(sfree) = 1
      BY <1>3, <2>2, <3>1
    <3> QED BY <1>3, <3>2
  <2> QED BY <1>4, <1>7, <2>3 DEF LinkedOK
<1>8. ASSUME NEW q \in Allocators, doing'[q] \in {"read", "write"}, failures = 0
      PROVE  link[blk'[q]] # <<>>
  <2>1. CASE q = p
    BY <1>5, <1>7, <1>8, <2>1
  <2>2. CASE q # p
    BY <1>5, <1>8, <2>2 DEF LinkedOK
  <2> QED BY <2>1, <2>2
<1>9. 1 \in DOMAIN sfree' => 1 \in DOMAIN sfree /\ sfree'[1] = sfree[1]
  BY <1>3, <1>4
<1> QED BY <1>4, <1>6, <1>8, <1>9 DEF LinkedOK

\* A part comes into the superblock.
LEMMA ReadHeads ==
    ASSUME FreeInv, LinkedOK, failures' = failures, NEW p \in Allocators, doing[p] = "read",
           sfree' = link[blk[p]], doing' = [doing EXCEPT ![p] = "getblk"],
           UNCHANGED <<blk, link>>
    PROVE  LinkedOK'
<1>1. FreeTypeOK /\ LockOK
  BY DEF FreeInv
<1>2. blk[p] \in Area /\ Live(blk[p])
  BY HasBlock, BlockLives
<1>3. doing'[p] = "getblk" /\ \A q \in Allocators : q # p => doing'[q] = doing[q]
  BY <1>1 DEF FreeTypeOK
<1>4. \A c : Live(c)' => Live(c)
  BY <1>3 DEF Live
<1> QED BY <1>2, <1>3, <1>4 DEF LinkedOK

\* The list is given up.
LEMMA NospaceHeads ==
    ASSUME FreeInv, LinkedOK, failures' = 0 => failures = 0, NEW p \in Allocators,
           doing[p] \in {"alloc", "read"}, sfree' = <<>>, link' = link,
           doing' = [doing EXCEPT ![p] = "idle"],
           blk' = blk \/ blk' = [blk EXCEPT ![p] = NoBlock]
    PROVE  LinkedOK'
<1>1. FreeTypeOK /\ BlkOK
  BY DEF FreeInv
<1>2. /\ doing'[p] = "idle" /\ DOMAIN sfree' = {}
      /\ \A q \in Allocators : q # p => doing'[q] = doing[q] /\ blk'[q] = blk[q]
  BY <1>1 DEF FreeTypeOK
<1>3. \A c : Live(c)' => Live(c)
  BY <1>2 DEF Live
<1> QED BY <1>2, <1>3 DEF LinkedOK

\* A block is cleared, which no list begins with.
LEMMA GetHeads ==
    ASSUME FreeInv, LinkedOK, NEW p \in Allocators, AllocGet(p)
    PROVE  LinkedOK'
<1>1. FreeTypeOK /\ BlocksApart /\ BlkOK
  BY DEF FreeInv
<1>2. doing[p] = "getblk" /\ blk[p] \in Area /\ blk[p] \in Moving /\ blk[p] # NoBlock
  BY HasBlock, Numbers DEF AllocGet
<1>3. /\ link' = [link EXCEPT ![blk[p]] = <<>>] /\ blk' = [blk EXCEPT ![p] = NoBlock]
      /\ doing' = [doing EXCEPT ![p] = "idle"] /\ UNCHANGED <<sfree, failures>>
  BY DEF AllocGet, Turns
<1>4. /\ \A c \in Area : c # blk[p] => link'[c] = link[c]
      /\ DOMAIN link'[blk[p]] = {}
  BY <1>1, <1>2, <1>3 DEF FreeTypeOK
<1>5. /\ doing'[p] = "idle"
      /\ \A q \in Allocators : q # p => doing'[q] = doing[q] /\ blk'[q] = blk[q]
  BY <1>1, <1>3 DEF FreeTypeOK
<1>6. \A c \in Area : c # blk[p] /\ Live(c)' => Live(c)
  BY <1>5 DEF Live
<1>7. /\ \A i \in DOMAIN sfree : sfree[i] \in Area \cup {0} /\ sfree[i] # blk[p]
      /\ \A c \in Area : Live(c) =>
            \A i \in DOMAIN link[c] : link[c][i] \in Area \cup {0} /\ link[c][i] # blk[p]
  BY <1>1, <1>2, Lists DEF BlocksApart, Apart
<1>8. ASSUME failures = 0, NEW q \in Allocators, doing'[q] \in {"read", "write"}
      PROVE  link'[blk'[q]] # <<>>
  <2>1. q # p /\ doing[q] \in {"read", "write"} /\ blk'[q] = blk[q]
    BY <1>5, <1>8
  <2>2. blk[q] \in Area /\ blk[q] # blk[p]
    BY <1>1, <1>2, <2>1, HasBlock DEF BlkOK
  <2> QED BY <1>4, <1>8, <2>1, <2>2 DEF LinkedOK
<1>9. ASSUME failures = 0, 1 \in DOMAIN sfree, sfree[1] # 0 PROVE link'[sfree[1]] # <<>>
  BY <1>4, <1>7, <1>9 DEF LinkedOK
<1>10. ASSUME failures = 0, NEW c \in Area, Live(c)', 1 \in DOMAIN link'[c], link'[c][1] # 0
       PROVE  link'[link'[c][1]] # <<>>
  <2>1. c # blk[p]
    BY <1>4, <1>10
  <2>2. Live(c) /\ link'[c] = link[c]
    BY <1>4, <1>6, <1>10, <2>1
  <2>3. link[c][1] \in Area /\ link[c][1] # blk[p]
    BY <1>7, <1>10, <2>2
  <2> QED BY <1>4, <1>10, <2>2, <2>3 DEF LinkedOK
<1> QED BY <1>3, <1>8, <1>9, <1>10 DEF LinkedOK

\* A block comes behind the others, or behind a zero.
LEMMA PutHeads ==
    ASSUME FreeInv, LinkedOK, failures' = failures, link' = link,
           NEW p \in Allocators, doing[p] = "free",
           sfree' = Append(Opened, blk[p]), Opened \in Seq(Area \cup {0}),
           Len(Opened) \in 1..NICFREE, DOMAIN Opened = 1..Len(Opened),
           \A i \in DOMAIN Opened :
                \/ i \in DOMAIN sfree /\ Opened[i] = sfree[i]
                \/ i = 1 /\ Opened[i] = 0 /\ sfree = <<>>,
           blk' = [blk EXCEPT ![p] = NoBlock], doing' = [doing EXCEPT ![p] = "idle"]
    PROVE  LinkedOK'
<1>1. FreeTypeOK
  BY DEF FreeInv
<1>2. /\ doing'[p] = "idle"
      /\ \A q \in Allocators : q # p => doing'[q] = doing[q] /\ blk'[q] = blk[q]
  BY <1>1 DEF FreeTypeOK
<1>3. \A c : Live(c)' => Live(c)
  BY <1>2 DEF Live
<1>4. sfree'[1] = Opened[1] /\ 1 \in DOMAIN Opened
  OBVIOUS
<1>5. sfree'[1] = 0 \/ (1 \in DOMAIN sfree /\ sfree'[1] = sfree[1])
  BY <1>4
<1> QED BY <1>2, <1>3, <1>5 DEF LinkedOK

\* The superblock becomes the list of a block.
LEMMA LinkHeads ==
    ASSUME FreeInv, LinkedOK, NEW p \in Allocators, FreeLink(p)
    PROVE  LinkedOK'
<1>1. FreeTypeOK /\ ShapeOK /\ BlkOK
  BY DEF FreeInv
<1>2. doing[p] = "link" /\ blk[p] \in Area /\ Live(blk[p])
  BY HasBlock, BlockLives DEF FreeLink
<1>3. /\ link' = [link EXCEPT ![blk[p]] = sfree] /\ sfree' = <<>> /\ DOMAIN sfree' = {}
      /\ doing' = [doing EXCEPT ![p] = "write"] /\ UNCHANGED <<blk, failures>>
  BY DEF FreeLink, Turns
<1>4. sfree # <<>>
  <2>1. Len(sfree) = NICFREE
    BY <1>1, <1>2 DEF ShapeOK
  <2> QED BY <2>1, Numbers
<1>5. link'[blk[p]] = sfree /\ \A c \in Area : c # blk[p] => link'[c] = link[c]
  BY <1>1, <1>2, <1>3 DEF FreeTypeOK
<1>6. doing'[p] = "write" /\ \A q \in Allocators : q # p => doing'[q] = doing[q]
  BY <1>1, <1>3 DEF FreeTypeOK
<1>7. \A c : Live(c)' => Live(c)
  BY <1>2, <1>3, <1>6 DEF Live
<1>8. \A c \in Area : link[c] # <<>> => link'[c] # <<>>
  BY <1>4, <1>5
<1>9. /\ \A i \in DOMAIN sfree : sfree[i] \in Area \cup {0}
      /\ \A c \in Area : \A i \in DOMAIN link[c] : link[c][i] \in Area \cup {0}
  BY <1>1, Lists
<1>10. ASSUME failures = 0, NEW q \in Allocators, doing'[q] \in {"read", "write"}
       PROVE  link'[blk[q]] # <<>>
  <2>1. CASE q = p
    BY <1>4, <1>5, <2>1
  <2>2. CASE q # p
    <3>1. doing[q] \in {"read", "write"}
      BY <1>6, <1>10, <2>2
    <3>2. blk[q] \in Area /\ link[blk[q]] # <<>>
      BY <1>10, <3>1, HasBlock DEF LinkedOK
    <3> QED BY <1>8, <3>2
  <2> QED BY <2>1, <2>2
<1>11. ASSUME failures = 0, NEW c \in Area, Live(c), 1 \in DOMAIN link'[c], link'[c][1] # 0
       PROVE  link'[link'[c][1]] # <<>>
  <2>1. CASE c = blk[p]
    <3>1. link'[c] = sfree
      BY <1>5, <2>1
    <3>2. sfree[1] \in Area /\ link[sfree[1]] # <<>>
      BY <1>9, <1>11, <3>1 DEF LinkedOK
    <3> QED BY <1>8, <3>1, <3>2
  <2>2. CASE c # blk[p]
    <3>1. link'[c] = link[c]
      BY <1>5, <2>2
    <3>2. link[c][1] \in Area /\ link[link[c][1]] # <<>>
      BY <1>9, <1>11, <3>1 DEF LinkedOK
    <3> QED BY <1>8, <3>1, <3>2
  <2> QED BY <2>1, <2>2
<1> QED BY <1>3, <1>7, <1>10, <1>11 DEF LinkedOK

\* The block that holds the rest is the superblock's first; if it could not be written the
\* disk has failed.
LEMMA WrittenHeads ==
    ASSUME FreeInv, LinkedOK, failures' = 0 => failures = 0,
           NEW p \in Allocators, FreeWritten(p)
    PROVE  LinkedOK'
<1>1. FreeTypeOK
  BY DEF FreeInv
<1>2. /\ doing[p] = "write" /\ blk[p] \in Area /\ sfree' = <<blk[p]>>
      /\ blk' = [blk EXCEPT ![p] = NoBlock] /\ doing' = [doing EXCEPT ![p] = "idle"]
  BY WrittenDoes, InvIsForm
<1>3. failures' = 0 => link' = link
  BY <1>1, Numbers DEF FreeWritten, DiskFails, FreeTypeOK
<1>4. /\ doing'[p] = "idle"
      /\ \A q \in Allocators : q # p => doing'[q] = doing[q] /\ blk'[q] = blk[q]
  BY <1>1, <1>2 DEF FreeTypeOK
<1>5. \A c : Live(c)' => Live(c)
  BY <1>2, <1>4 DEF Live
<1>6. sfree'[1] = blk[p]
  BY <1>2
<1> QED BY <1>2, <1>3, <1>4, <1>5, <1>6 DEF LinkedOK

\* Every step keeps it.
LEMMA LinkedStep ==
    ASSUME FreeInv, LinkedOK, [FreeNext]_freeVars, ~garbled'
    PROVE  LinkedOK'
<1>0. failures' = 0 => failures = 0
  BY FailuresGrow DEF FreeInv
<1>11. FreeTypeOK
  BY DEF FreeInv
<1>1. ASSUME NEW p \in Allocators, doing[p] \in {"idle", "super", "superwrite", "free"},
             NEW l \in {"alloc", "super", "superwrite", "idle", "free", "link"},
             doing' = [doing EXCEPT ![p] = l], UNCHANGED <<sfree, link>>,
             blk' = blk \/ \E b : blk' = [blk EXCEPT ![p] = b]
      PROVE  LinkedOK'
  <2>1. /\ doing'[p] = l
        /\ \A q \in Allocators : q # p => doing'[q] = doing[q] /\ blk'[q] = blk[q]
    BY <1>1, <1>11 DEF FreeTypeOK
  <2>2. \A c : Live(c)' => Live(c)
    BY <1>1, <2>1 DEF Live
  <2> QED BY <1>0, <1>1, <2>1, <2>2, QuietHeads
<1>2. ASSUME NEW p \in Allocators,
             alloc(p) \/ update(p) \/ UpdateCopy(p) \/ UpdateDone(p)
      PROVE  LinkedOK'
  <2>1. UNCHANGED <<sfree, link, blk>> /\ doing[p] \in {"idle", "super", "superwrite"}
    BY <1>2 DEF alloc, update, UpdateCopy, UpdateDone
  <2>2. PICK l \in {"alloc", "super", "superwrite", "idle"} :
                doing' = [doing EXCEPT ![p] = l]
    BY <1>2 DEF alloc, update, UpdateCopy, UpdateDone, Turns
  <2> QED BY <1>1, <2>1, <2>2
<1>3. ASSUME NEW p \in Allocators, AllocPop(p) PROVE LinkedOK'
  <2>1. CASE sfree # <<>> /\ Last(sfree) # 0
    BY <1>0, <1>3, <2>1, PopHeads
  <2>2. CASE sfree = <<>> \/ Last(sfree) = 0
    <3>1. /\ doing[p] = "alloc" /\ blk' = blk /\ link' = link
          /\ sfree' = <<>> /\ doing' = [doing EXCEPT ![p] = "idle"]
      BY <1>3, <2>2 DEF AllocPop, Nospace, Turns
    <3> QED BY <1>0, <3>1, NospaceHeads
  <2> QED BY <2>1, <2>2
<1>4. ASSUME NEW p \in Allocators, AllocRead(p) PROVE LinkedOK'
  <2>1. doing[p] = "read" /\ link' = link
    BY <1>4 DEF AllocRead
  <2>2. CASE /\ sfree' = link[blk[p]] /\ doing' = [doing EXCEPT ![p] = "getblk"]
             /\ UNCHANGED <<blk, failures>>
    BY <2>1, <2>2, ReadHeads
  <2>3. CASE Nospace(p) /\ blk' = [blk EXCEPT ![p] = NoBlock]
    <3>1. sfree' = <<>> /\ doing' = [doing EXCEPT ![p] = "idle"]
      BY <2>3 DEF Nospace, Turns
    <3> QED BY <1>0, <2>1, <2>3, <3>1, NospaceHeads
  <2> QED BY <1>4, <2>2, <2>3 DEF AllocRead, Turns
<1>5. ASSUME NEW p \in Allocators, AllocGet(p) PROVE LinkedOK'
  BY <1>5, GetHeads
<1>6. ASSUME NEW p \in Allocators, NEW b \in Area, free(p, b) PROVE LinkedOK'
  <2>1. /\ doing[p] = "idle" /\ UNCHANGED <<sfree, link>>
        /\ blk' = [blk EXCEPT ![p] = b] /\ doing' = [doing EXCEPT ![p] = "free"]
    BY <1>6 DEF free, Turns
  <2> QED BY <1>1, <2>1
<1>7. ASSUME NEW p \in Allocators, FreePut(p) PROVE LinkedOK'
  <2>1. CASE /\ sfree' = sfree /\ doing' = [doing EXCEPT ![p] = "link"]
             /\ UNCHANGED <<blk, fmod>>
    <3>1. doing[p] = "free" /\ link' = link
      BY <1>7, PutDoes, InvIsForm
    <3> QED BY <1>1, <2>1, <3>1
  <2>2. CASE /\ sfree' = Append(Opened, blk[p])
             /\ blk' = [blk EXCEPT ![p] = NoBlock]
             /\ doing' = [doing EXCEPT ![p] = "idle"]
    BY <1>7, <2>2, PutDoes, InvIsForm, PutHeads
  <2> QED BY <1>7, <2>1, <2>2, PutDoes, InvIsForm
<1>8. ASSUME NEW p \in Allocators, FreeLink(p) PROVE LinkedOK'
  BY <1>8, LinkHeads
<1>9. ASSUME NEW p \in Allocators, FreeWritten(p) PROVE LinkedOK'
  BY <1>0, <1>9, WrittenHeads
<1>10. ASSUME UNCHANGED freeVars PROVE LinkedOK'
  BY <1>10 DEF freeVars, LinkedOK, Live
<1> QED
  BY <1>2, <1>3, <1>4, <1>5, <1>6, <1>7, <1>8, <1>9, <1>10 DEF FreeNext, Proceeds

\* When something that is no list passes for one, the disk has failed; it stays garbled.
LEMMA GarbledStep ==
    ASSUME FreeTypeOK, [FreeNext]_freeVars
    PROVE  /\ garbled => garbled'
           /\ FreeInv /\ LinkedOK /\ garbled' => failures # 0
           /\ failures # 0 => failures' # 0
<1>1. failures # 0 => failures' # 0
  BY FailuresGrow
<1>2. ASSUME NEW p \in Allocators, NEW b \in Area, free(p, b) PROVE garbled' = garbled
  BY <1>2 DEF free
<1>3. garbled' = garbled \/ \E p \in Allocators : AllocRead(p)
  BY <1>2 DEF FreeNext, Proceeds, freeVars, alloc, AllocPop,
        AllocGet, FreePut, FreeLink, FreeWritten, update, UpdateCopy, UpdateDone
<1>4. garbled => garbled'
  BY <1>3 DEF AllocRead
<1>5. ASSUME FreeInv, LinkedOK, garbled' PROVE failures # 0
  <2>1. PICK p \in Allocators : AllocRead(p)
    BY <1>3, <1>5 DEF FreeInv, Clean
  <2>2. doing[p] = "read" /\ link[blk[p]] = <<>> /\ failures' = failures
    BY <1>5, <2>1 DEF AllocRead, Intact, FreeInv, Clean
  <2> QED BY <1>5, <2>2 DEF LinkedOK
<1> QED BY <1>1, <1>4, <1>5

\* The inductive invariant: the form, and, until a disk that has failed has made alloc take
\* something else for a list, every block at its place.
ListInv ==
    /\ FormInv
    /\ garbled => failures # 0
    /\ garbled \/ (FreeInv /\ LinkedOK)

\* alloc.c:26-109: the free list keeps its form whatever the disk does, and until alloc has
\* taken something else for a part of it every block is at one place.
THEOREM FreeListInvariant == FreeSpec => []ListInv
<1>1. ASSUME ListInv, [FreeNext]_freeVars PROVE ListInv'
  <2>1. FormInv' /\ FreeTypeOK
    BY <1>1, FormStep DEF ListInv, FormInv
  <2>2. garbled' => failures' # 0
    BY <1>1, <2>1, GarbledStep DEF ListInv
  <2>3. garbled' \/ (FreeInv' /\ LinkedOK')
    <3>1. CASE garbled
      BY <1>1, <2>1, <3>1, GarbledStep
    <3>2. CASE FreeInv /\ LinkedOK
      BY <1>1, <3>2, InvStep, LinkedStep
    <3> QED BY <1>1, <3>1, <3>2 DEF ListInv
  <2> QED BY <2>1, <2>2, <2>3 DEF ListInv
<1>2. FreeInit => ListInv
  <2>1. ASSUME FreeInit PROVE ListInv
    <3>1. FreeInv
      BY <2>1, InvInit
    <3>2. /\ \A c \in Area : DOMAIN link[c] = {}
          /\ \A p \in Allocators : doing[p] = "idle"
      BY <2>1 DEF FreeInit
    <3>3. sfree[1] = 0
      <4>1. sfree = <<0>> \o SetToSeq(InitFree)
        BY <2>1 DEF FreeInit
      <4>2. SetToSeq(InitFree) \in Seq(InitFree)
        BY InitialList
      <4> HIDE DEF SetToSeq
      <4>3. PICK q : q = SetToSeq(InitFree)
        OBVIOUS
      <4>4. q \in Seq(InitFree) /\ sfree = <<0>> \o q
        BY <4>1, <4>2, <4>3
      <4>5. <<0>> \in Seq(InitFree \cup {0}) /\ q \in Seq(InitFree \cup {0})
        BY <4>4
      <4> QED BY <4>4, <4>5, ConcatProperties
    <3>4. LinkedOK
      BY <3>2, <3>3 DEF LinkedOK
    <3>5. ~garbled
      BY <2>1 DEF FreeInit
    <3> QED BY <3>1, <3>4, <3>5, InvIsForm DEF ListInv
  <2> QED BY <2>1
<1> QED BY <1>1, <1>2, PTL DEF FreeSpec

----------------------------------------------------------------------------
(* No block is given twice *)

\* The lists in the superblock and in the blocks that hold no old copy.
Placed ==
    {x \in Area : \/ \E i \in DOMAIN sfree : sfree[i] = x
                  \/ \E c \in Area : Live(c) /\ \E i \in DOMAIN link[c] : link[c][i] = x}

\* The blocks that block b holds, and those that the free list begins with: in the
\* superblock, or in the block that somebody reads or writes.
Held(b) == Range(link[b]) \ {0}

Roots ==
    (Range(sfree) \ {0})
        \cup UNION {Held(blk[p]) : p \in {q \in Allocators : doing[q] \in {"read", "write"}}}

\* The free blocks are the least set with the roots that has what its blocks hold.
FreeBlocksAreLeast ==
    /\ FreeBlocks \subseteq Area
    /\ Roots \subseteq FreeBlocks
    /\ \A b \in FreeBlocks : Held(b) \subseteq FreeBlocks
    /\ \A S \in SUBSET Area :
            Roots \subseteq S /\ (\A b \in S : Held(b) \subseteq S) => FreeBlocks \subseteq S

\* They are, by what OnList is.
LEMMA FreeBlocksLeast == FreeTypeOK /\ BlkOK => FreeBlocksAreLeast
<1> SUFFICES ASSUME FreeTypeOK, BlkOK PROVE FreeBlocksAreLeast
  OBVIOUS
<1> DEFINE W == {q \in Allocators : doing[q] \in {"read", "write"}}
<1>1. \A S : HoldsItsOwn(S) <=> \A b \in S : Held(b) \subseteq S
  BY DEF HoldsItsOwn, Held
<1>2. \A b \in Area : Held(b) \subseteq Area
  BY Lists DEF Held, Range
<1>3. Range(sfree) \ {0} \subseteq Area
  BY Lists DEF Range
<1>4. \A q \in W : blk[q] \in Area
  BY DEF FreeTypeOK, BlkOK
<1>5. ASSUME NEW s, Range(s) \ {0} \subseteq Area
      PROVE  /\ OnList(s) \subseteq Area /\ Range(s) \ {0} \subseteq OnList(s)
             /\ \A b \in OnList(s) : Held(b) \subseteq OnList(s)
             /\ \A S \in SUBSET Area :
                    Range(s) \ {0} \subseteq S /\ HoldsItsOwn(S) => OnList(s) \subseteq S
  <2> DEFINE R == Range(s) \ {0}
  <2>1. OnList(s) = {b \in Area : \A S \in SUBSET Area :
                        R \subseteq S /\ HoldsItsOwn(S) => b \in S}
    BY DEF OnList
  <2>2. R \subseteq Area
    BY <1>5
  <2> HIDE DEF R
  <2>3. R \subseteq OnList(s)
    BY <2>1, <2>2
  <2>4. ASSUME NEW b \in OnList(s), NEW x \in Held(b) PROVE x \in OnList(s)
    <3>1. b \in Area /\ x \in Area
      BY <1>2, <2>1
    <3>2. ASSUME NEW S \in SUBSET Area, R \subseteq S, HoldsItsOwn(S) PROVE x \in S
      BY <1>1, <2>1, <3>2
    <3> QED BY <2>1, <3>1, <3>2
  <2>5. \A S \in SUBSET Area : R \subseteq S /\ HoldsItsOwn(S) => OnList(s) \subseteq S
    BY <2>1
  <2>6. OnList(s) \subseteq Area
    BY <2>1
  <2> QED BY <2>3, <2>4, <2>5, <2>6 DEF R
<1>6. \A q \in W : Range(link[blk[q]]) \ {0} \subseteq Area
  BY <1>2, <1>4 DEF Held
<1>7. FreeBlocks = OnList(sfree) \cup UNION {OnList(link[blk[q]]) : q \in W}
  BY DEF FreeBlocks, Detached
<1>8. Roots = (Range(sfree) \ {0}) \cup UNION {Range(link[blk[q]]) \ {0} : q \in W}
  BY DEF Roots, Held
<1> HIDE DEF W
<1>9. FreeBlocks \subseteq Area
  BY <1>3, <1>5, <1>6, <1>7
<1>10. Roots \subseteq FreeBlocks
  <2>1. Range(sfree) \ {0} \subseteq OnList(sfree)
    BY <1>3, <1>5
  <2>2. \A q \in W : Range(link[blk[q]]) \ {0} \subseteq OnList(link[blk[q]])
    BY <1>5, <1>6
  <2> QED BY <1>7, <1>8, <2>1, <2>2
<1>11. \A b \in FreeBlocks : Held(b) \subseteq FreeBlocks
  <2>1. \A b \in OnList(sfree) : Held(b) \subseteq OnList(sfree)
    BY <1>3, <1>5
  <2>2. \A q \in W : \A b \in OnList(link[blk[q]]) : Held(b) \subseteq OnList(link[blk[q]])
    BY <1>5, <1>6
  <2> QED BY <1>7, <2>1, <2>2
<1>12. ASSUME NEW S \in SUBSET Area, Roots \subseteq S, \A b \in S : Held(b) \subseteq S
       PROVE  FreeBlocks \subseteq S
  <2>1. HoldsItsOwn(S)
    BY <1>1, <1>12
  <2>2. OnList(sfree) \subseteq S
    BY <1>3, <1>5, <1>8, <1>12, <2>1
  <2>3. \A q \in W : Range(link[blk[q]]) \ {0} \subseteq S
    BY <1>8, <1>12
  <2>4. \A q \in W : OnList(link[blk[q]]) \subseteq S
    BY <1>5, <1>6, <2>1, <2>3
  <2> QED BY <1>7, <2>2, <2>4
<1> QED BY <1>9, <1>10, <1>11, <1>12 DEF FreeBlocksAreLeast

\* Free blocks are at places, and so neither used nor on their way, and hold no old copy.
LEMMA FreeArePlaced ==
    ASSUME FreeInv
    PROVE  /\ FreeBlocks \subseteq Placed
           /\ \A b \in FreeBlocks : b \in Area /\ b \notin used /\ b \notin Moving /\ Live(b)
<1>1. FreeTypeOK /\ BlkOK /\ BlocksApart
  BY DEF FreeInv
<1>2. \A b \in Placed : b \in Area /\ b \notin used /\ b \notin Moving
  BY <1>1 DEF Placed, BlocksApart, Apart
<1>3. \A b \in Area : b \notin Moving => Live(b)
  BY Numbers DEF Moving, Live
<1>4. \A b \in Area : Live(b) => Held(b) \subseteq Placed
  BY <1>1, Lists DEF Held, Placed, Range
<1>5. Range(sfree) \ {0} \subseteq Placed
  BY <1>1, Lists DEF Placed, Range
<1>6. \A p \in Allocators : doing[p] \in {"read", "write"} => Held(blk[p]) \subseteq Placed
  BY <1>4, BlockLives, HasBlock
<1>7. Roots \subseteq Placed
  BY <1>5, <1>6 DEF Roots
<1>8. Placed \in SUBSET Area
  BY DEF Placed
<1>9. \A b \in Placed : Held(b) \subseteq Placed
  BY <1>2, <1>3, <1>4
<1>10. FreeBlocks \subseteq Placed
  BY <1>1, <1>7, <1>8, <1>9, FreeBlocksLeast DEF FreeBlocksAreLeast
<1> QED BY <1>2, <1>3, <1>10

\* What the invariant says of the block that is at two places.
LEMMA NoneTwice == FreeInv => NoBlockTwice
<1> SUFFICES ASSUME FreeInv PROVE NoBlockTwice
  OBVIOUS
<1>1. used \cap (FreeBlocks \cup Moving) = {} /\ FreeBlocks \cap Moving = {}
  BY FreeArePlaced DEF FreeInv, BlocksApart
<1>2. \A p, q \in Allocators : p # q /\ blk[p] # NoBlock => blk[p] # blk[q]
  BY DEF FreeInv, BlkOK
<1>3. \A c \in Holders : c # 0 => c \in Area /\ Live(c)
  BY FreeArePlaced, BlockLives, HasBlock DEF Holders
<1>4. ASSUME NEW c \in Holders, NEW d \in Holders,
             NEW i \in DOMAIN PartIn(c), NEW j \in DOMAIN PartIn(d),
             PartIn(c)[i] = PartIn(d)[j], PartIn(c)[i] # 0
      PROVE  c = d /\ i = j
  <2>1. PlacesOnce
    BY DEF FreeInv
  <2>2. CASE c = 0 /\ d = 0
    BY <1>4, <2>1, <2>2 DEF PartIn, PlacesOnce
  <2>3. CASE c # 0 /\ d = 0
    BY <1>3, <1>4, <2>1, <2>3 DEF PartIn, PlacesOnce
  <2>4. CASE c = 0 /\ d # 0
    BY <1>3, <1>4, <2>1, <2>4 DEF PartIn, PlacesOnce
  <2>5. CASE c # 0 /\ d # 0
    BY <1>3, <1>4, <2>1, <2>5 DEF PartIn, PlacesOnce
  <2> QED BY <2>2, <2>3, <2>4, <2>5
<1> QED BY <1>1, <1>2, <1>4 DEF NoBlockTwice

\* What it says of the form.
LEMMA InForm == FormInv => ListOK
<1> SUFFICES ASSUME FormInv PROVE ListOK
  OBVIOUS
<1> DEFINE W == {p \in Allocators : doing[p] \in {"read", "link", "write"}}
<1>1. OneHoldsLock
  <2>1. CASE flock
    <3>1. PICK p \in Allocators : doing[p] \in Locking
      BY <2>1 DEF FormInv, LockOK
    <3>2. \A q \in Allocators : doing[q] \in Locking => q = p
      BY <3>1 DEF FormInv, LockOK
    <3>3. W = {p}
      BY <3>1, <3>2 DEF Locking
    <3>4. Cardinality(W) = 1
      BY <3>3, FS_Singleton
    <3> QED BY <2>1, <3>4 DEF OneHoldsLock
  <2>2. CASE ~flock
    <3>1. W = {}
      BY <2>2 DEF FormInv, LockOK, Locking
    <3>2. Cardinality(W) = 0
      BY <3>1, FS_EmptySet
    <3> QED BY <2>2, <3>2 DEF OneHoldsLock
  <2> QED BY <2>1, <2>2
<1>2. ModifiedIsMarked
  BY DEF FormInv, MarkedOK, ModifiedIsMarked
<1> QED BY <1>1, <1>2 DEF FormInv, ListOK

\* alloc.c:26-109: whatever processes allocate and free at the same time and whatever I/O
\* fails, one of them works on the superblock and no change of it is forgotten by update;
\* and no block is given twice until a part of the list that the disk failed to write is
\* read back.
THEOREM FreeListTheorem == FreeSpec => []FreeListOK
<1>1. ListInv => FreeListOK
  BY NoneTwice, InForm DEF FreeListOK, ListInv
<1> QED BY <1>1, FreeListInvariant, PTL

----------------------------------------------------------------------------
(* The abstract allocator *)

\* The same of the free blocks after a step.
LEMMA FreeBlocksLeastNext == FreeTypeOK' /\ BlkOK' => FreeBlocksAreLeast'
BY FreeBlocksLeast, PTL

\* They stay the same if the list begins with the same blocks, and they hold the same.
LEMMA StayFree ==
    ASSUME FreeTypeOK, BlkOK, FreeTypeOK', BlkOK', Roots' = Roots,
           \A b \in FreeBlocks : Held(b)' = Held(b)
    PROVE  FreeBlocks' = FreeBlocks
<1> USE FreeBlocksLeast, FreeBlocksLeastNext DEF FreeBlocksAreLeast
<1>1. FreeBlocks' \subseteq FreeBlocks
  OBVIOUS
<1>2. \A b \in FreeBlocks' : Held(b) \subseteq FreeBlocks'
  BY <1>1
<1>3. FreeBlocks \subseteq FreeBlocks'
  BY <1>2
<1> QED BY <1>1, <1>3

\* One leaves them if it was at the beginning of the list, and what it holds comes there.
LEMMA OneTaken ==
    ASSUME FreeTypeOK, BlkOK, FreeTypeOK', BlkOK', NEW e \in Roots,
           \A b \in Area : Held(b)' = Held(b),
           \A b \in FreeBlocks : e \notin Held(b),
           Roots' \subseteq FreeBlocks, e \notin Roots',
           Roots \subseteq Roots' \cup {e}, Held(e) \subseteq Roots'
    PROVE  e \in FreeBlocks /\ FreeBlocks' = FreeBlocks \ {e}
<1> USE FreeBlocksLeast, FreeBlocksLeastNext DEF FreeBlocksAreLeast
<1>1. e \in FreeBlocks /\ FreeBlocks \subseteq Area
  OBVIOUS
<1>2. FreeBlocks' \subseteq FreeBlocks \ {e}
  <2>1. \A b \in FreeBlocks \ {e} : Held(b)' \subseteq FreeBlocks \ {e}
    BY <1>1
  <2>2. FreeBlocks \ {e} \in SUBSET Area /\ Roots' \subseteq FreeBlocks \ {e}
    BY <1>1
  <2> QED BY <2>1, <2>2
<1>3. FreeBlocks \subseteq FreeBlocks' \cup {e}
  <2>1. FreeBlocks' \subseteq Area /\ Roots' \subseteq FreeBlocks'
    OBVIOUS
  <2>2. \A b \in FreeBlocks' \cup {e} : Held(b) \subseteq FreeBlocks' \cup {e}
    BY <1>1, <2>1
  <2>3. FreeBlocks' \cup {e} \in SUBSET Area /\ Roots \subseteq FreeBlocks' \cup {e}
    BY <1>1, <2>1
  <2> QED BY <2>2, <2>3
<1> QED BY <1>1, <1>2, <1>3

\* One comes to them if it is at the beginning of the list, and holds what was there.
LEMMA OneGivenBack ==
    ASSUME FreeTypeOK, BlkOK, FreeTypeOK', BlkOK', NEW e \in Area,
           \A b \in FreeBlocks : Held(b)' = Held(b),
           e \in Roots', Roots' \subseteq FreeBlocks \cup {e},
           Held(e)' \subseteq FreeBlocks
    PROVE  /\ FreeBlocks' \subseteq FreeBlocks \cup {e}
           /\ Roots \subseteq Roots' \cup Held(e)' => FreeBlocks' = FreeBlocks \cup {e}
<1> USE FreeBlocksLeast, FreeBlocksLeastNext DEF FreeBlocksAreLeast
<1>1. FreeBlocks' \subseteq FreeBlocks \cup {e}
  <2>1. FreeBlocks \cup {e} \in SUBSET Area
    OBVIOUS
  <2>2. \A b \in FreeBlocks \cup {e} : Held(b)' \subseteq FreeBlocks \cup {e}
    OBVIOUS
  <2> QED BY <2>1, <2>2
<1>2. ASSUME Roots \subseteq Roots' \cup Held(e)'
      PROVE  FreeBlocks \subseteq FreeBlocks'
  <2> DEFINE S == FreeBlocks \cap FreeBlocks'
  <2>1. e \in FreeBlocks' /\ Held(e)' \subseteq FreeBlocks' /\ Roots' \subseteq FreeBlocks'
    OBVIOUS
  <2>2. Roots \subseteq S
    BY <1>2, <2>1
  <2>3. \A b \in S : Held(b) \subseteq S
    OBVIOUS
  <2>4. S \in SUBSET Area
    OBVIOUS
  <2> HIDE DEF S
  <2>5. FreeBlocks \subseteq S
    BY <2>2, <2>3, <2>4
  <2> QED BY <2>5 DEF S
<1>3. e \in FreeBlocks'
  OBVIOUS
<1> QED BY <1>1, <1>2, <1>3

\* What the list begins with: the superblock, or the block that somebody reads or writes.
RootsForm ==
    /\ (\A p \in Allocators : doing[p] \notin {"read", "write"}) =>
            Roots = Range(sfree) \ {0}
    /\ \A p \in Allocators : doing[p] \in {"read", "write"} =>
            sfree = <<>> /\ Roots = Held(blk[p])

\* One process does.
LEMMA RootsAre == FreeInv => RootsForm
<1> SUFFICES ASSUME FreeInv PROVE RootsForm
  OBVIOUS
<1>1. (\A p \in Allocators : doing[p] \notin {"read", "write"}) => Roots = Range(sfree) \ {0}
  BY DEF Roots
<1>2. ASSUME NEW p \in Allocators, doing[p] \in {"read", "write"}
      PROVE  sfree = <<>> /\ Roots = Held(blk[p])
  <2>1. \A q \in Allocators : doing[q] \in {"read", "write"} => q = p
    BY <1>2 DEF FreeInv, LockOK, Locking
  <2>2. sfree = <<>>
    BY <1>2 DEF FreeInv, ShapeOK
  <2>3. Range(<<>>) = {}
    BY DEF Range
  <2> QED BY <1>2, <2>1, <2>2, <2>3 DEF Roots
<1> QED BY <1>1, <1>2 DEF RootsForm

\* The same after a step.
LEMMA RootsAreNext == FreeInv' => RootsForm'
BY RootsAre, PTL

\* Somebody who has the lock has it alone; without it nobody reads or writes.
LEMMA WhoReads ==
    ASSUME FreeInv
    PROVE  /\ ~flock => \A q \in Allocators : doing[q] \notin {"read", "write"}
           /\ \A p, q \in Allocators : doing[p] \in Locking /\ q # p => doing[q] \notin Locking
BY DEF FreeInv, LockOK, Locking

\* alloc takes a block: to the allocator it is gone at once, before it is cleared, and what
\* it holds is still there while it is read.
LEMMA PopTakes ==
    ASSUME FreeInv, FreeInv', NEW p \in Allocators, AllocPop(p),
           sfree # <<>>, Last(sfree) # 0
    PROVE  Last(sfree) \in FreeBlocks /\ FreeBlocks' = FreeBlocks \ {Last(sfree)}
<1> DEFINE S == Area \cup {0}
           e == Last(sfree)
<1>1. FreeTypeOK /\ BlkOK /\ FreeTypeOK' /\ BlkOK' /\ PlacesOnce /\ ShapeOK /\ LinksOK
  BY DEF FreeInv
<1>2. sfree \in Seq(S) /\ DOMAIN sfree = 1..Len(sfree)
  BY <1>1, Lists, SMTT(30)
<1>3. /\ Len(Front(sfree)) = Len(sfree) - 1 /\ Front(sfree) \in Seq(S)
      /\ Len(sfree) \in DOMAIN sfree /\ e = sfree[Len(sfree)]
      /\ \A i \in DOMAIN Front(sfree) :
            i \in DOMAIN sfree /\ i < Len(sfree) /\ Front(sfree)[i] = sfree[i]
  <2> HIDE DEF S
  <2> QED BY <1>2, FrontProps, Zenon
<1>4. e \in Area /\ e # 0
  BY PopForm, Numbers
<1> HIDE DEF e
<1>5. /\ doing[p] = "alloc" /\ ~flock /\ blk' = [blk EXCEPT ![p] = e]
      /\ sfree' = Front(sfree) /\ flock' = (sfree' = <<>>) /\ link' = link
      /\ doing' = [doing EXCEPT ![p] = IF flock' THEN "read" ELSE "getblk"]
  BY DEF AllocPop, Exhausted, Unlocked, Turns, e
<1>6. /\ doing'[p] = (IF flock' THEN "read" ELSE "getblk") /\ blk'[p] = e
      /\ \A q \in Allocators : q # p => doing'[q] = doing[q]
  BY <1>1, <1>5 DEF FreeTypeOK
<1>7. \A b : Held(b)' = Held(b)
  BY <1>5 DEF Held
<1>8. Roots = Range(sfree) \ {0}
  BY <1>5, WhoReads, RootsAre DEF RootsForm
<1>9. e \in Roots
  BY <1>3, <1>4, <1>8 DEF Range
<1>10. \A b \in Area : Live(b) => e \notin Held(b)
  BY <1>1, <1>3, <1>4 DEF Held, Range, PlacesOnce
<1>11. \A b \in FreeBlocks : e \notin Held(b)
  BY <1>10, FreeArePlaced
<1>12. \A i \in DOMAIN sfree : i # Len(sfree) => i \in DOMAIN Front(sfree)
  BY <1>2, <1>3
<1>13. CASE flock'
  <2>1. Roots' = Held(e)
    BY <1>6, <1>7, <1>13, RootsAreNext DEF RootsForm
  <2>2. Len(sfree) = 1
    <3>1. sfree' = <<>>
      BY <1>5, <1>13, Zenon
    <3>2. Len(Front(sfree)) = 0
      BY <1>5, <3>1
    <3>3. Len(sfree) \in Nat
      BY <1>2
    <3> QED BY <1>3, <3>2, <3>3
  <2>3. Roots = {e}
    <3>1. \A i \in DOMAIN sfree : i = Len(sfree)
      BY <1>2, <2>2
    <3> QED BY <1>3, <1>8, <1>9, <3>1 DEF Range
  <2>4. Held(e) \subseteq FreeBlocks /\ e \in FreeBlocks
    BY <1>1, <1>9, FreeBlocksLeast DEF FreeBlocksAreLeast
  <2>5. e \notin Held(e)
    BY <1>11, <2>4
  <2> QED BY <1>1, <1>7, <1>9, <1>11, <2>1, <2>3, <2>4, <2>5, OneTaken DEF e
<1>14. CASE ~flock'
  <2>1. \A q \in Allocators : doing'[q] \notin {"read", "write"}
    BY <1>5, <1>6, <1>14, WhoReads
  <2>2. Roots' = Range(Front(sfree)) \ {0}
    BY <1>5, <2>1, RootsAreNext DEF RootsForm
  <2>3. \A x \in Roots' : x \in Roots /\ x # e
    <3>1. ASSUME NEW i \in DOMAIN Front(sfree) PROVE sfree[i] # sfree[Len(sfree)]
      <4>1. i \in DOMAIN sfree /\ i < Len(sfree) /\ Len(sfree) \in DOMAIN sfree
        BY <1>3, <3>1
      <4> QED BY <1>1, <4>1 DEF PlacesOnce
    <3> QED BY <1>3, <1>8, <2>2, <3>1 DEF Range
  <2>4. Roots \subseteq Roots' \cup {e}
    BY <1>3, <1>8, <1>12, <2>2 DEF Range
  <2>5. Held(e) = {}
    <3>1. Len(sfree) > 1
      <4>0. sfree' # <<>>
        BY <1>5, <1>14, Zenon
      <4>1. Front(sfree) # <<>> /\ Len(Front(sfree)) \in Nat
        BY <1>3, <1>5, <4>0
      <4>2. Len(Front(sfree)) # 0
        BY <1>3, <4>1
      <4> QED BY <1>2, <1>3, <4>1, <4>2
    <3>2. link[e] = <<>>
      BY <1>1, <1>3, <3>1 DEF LinksOK
    <3> QED BY <3>2 DEF Held, Range
  <2>6. Roots' \subseteq FreeBlocks
    BY <1>1, <2>3, FreeBlocksLeast DEF FreeBlocksAreLeast
  <2> QED BY <1>1, <1>7, <1>9, <1>11, <2>3, <2>4, <2>5, <2>6, OneTaken DEF e
<1> QED BY <1>13, <1>14

\* When the superblock is empty, or begins with the zero, nothing is free.
LEMMA NoneFree ==
    ASSUME FreeInv, ~flock, sfree = <<>> \/ Last(sfree) = 0
    PROVE  FreeBlocks = {}
<1>1. FreeTypeOK /\ BlkOK /\ ShapeOK
  BY DEF FreeInv
<1>2. Roots = Range(sfree) \ {0}
  BY WhoReads, RootsAre DEF RootsForm
<1>3. Range(sfree) \ {0} = {}
  <2>1. CASE sfree = <<>>
    BY <2>1 DEF Range
  <2>2. CASE sfree # <<>>
    <3> DEFINE S == Area \cup {0}
    <3>1. sfree \in Seq(S) /\ DOMAIN sfree = 1..Len(sfree)
      BY <1>1, Lists
    <3>2. Len(sfree) \in DOMAIN sfree /\ sfree[Len(sfree)] = 0
      <4> HIDE DEF S
      <4> QED BY <2>2, <3>1, FrontProps
    <3>3. Len(sfree) = 1
      BY <1>1, <3>1, <3>2 DEF ShapeOK
    <3> QED BY <3>1, <3>2, <3>3 DEF Range
  <2> QED BY <2>1, <2>2
<1>4. Roots \subseteq {} /\ {} \in SUBSET Area
  BY <1>2, <1>3
<1> QED BY <1>1, <1>4, FreeBlocksLeast DEF FreeBlocksAreLeast

\* Nothing is free when the superblock is empty and nobody has the lock.
Drained == ~flock /\ sfree = <<>> => FreeBlocks = {}

\* The same after a step.
LEMMA DrainedNext == FreeInv' => Drained'
<1>1. FreeInv => Drained
  BY NoneFree DEF Drained
<1> QED BY <1>1, PTL

\* The steps between which a block that alloc has or free has belongs to nobody.
LEMMA StepsInside ==
    ASSUME FreeInv, FreeInv', NEW p \in Allocators,
           \/ alloc(p) \/ update(p) \/ UpdateCopy(p) \/ UpdateDone(p)
           \/ AllocGet(p) \/ FreeLink(p) \/ (\E b \in Area : free(p, b))
           \/ AllocRead(p) /\ doing'[p] = "getblk"
           \/ FreePut(p) /\ doing'[p] = "link"
    PROVE  FreeBlocks' = FreeBlocks
<1>1. FreeTypeOK /\ BlkOK /\ FreeTypeOK' /\ BlkOK'
  BY DEF FreeInv
<1>2. \A b \in FreeBlocks : b \in Area /\ b \notin Moving
  BY FreeArePlaced
<1>3. CASE /\ UNCHANGED <<sfree, link>> /\ doing[p] \notin {"read", "write"}
           /\ doing'[p] \notin {"read", "write"}
           /\ \A q \in Allocators : q # p => doing'[q] = doing[q] /\ blk'[q] = blk[q]
  <2>1. \A b : Held(b)' = Held(b)
    BY <1>3 DEF Held
  <2>2. CASE \A q \in Allocators : doing[q] \notin {"read", "write"}
    <3>1. \A q \in Allocators : doing'[q] \notin {"read", "write"}
      BY <1>3, <2>2
    <3>2. Roots' = Roots
      BY <1>3, <2>2, <3>1, RootsAre, RootsAreNext DEF RootsForm
    <3> QED BY <1>1, <2>1, <3>2, StayFree
  <2>3. CASE \E q \in Allocators : doing[q] \in {"read", "write"}
    <3>1. PICK q \in Allocators : doing[q] \in {"read", "write"}
      BY <2>3
    <3>2. doing'[q] \in {"read", "write"} /\ blk'[q] = blk[q]
      BY <1>3, <3>1
    <3>3. Roots' = Held(blk[q]) /\ Roots = Held(blk[q])
      <4>1. Roots = Held(blk[q])
        BY <3>1, RootsAre DEF RootsForm
      <4>2. Roots' = Range(link'[blk'[q]]) \ {0}
        BY <3>2, RootsAreNext DEF RootsForm, Held
      <4>3. Held(blk[q]) = Range(link[blk[q]]) \ {0}
        BY DEF Held
      <4> QED BY <1>3, <3>2, <4>1, <4>2, <4>3
    <3> QED BY <1>1, <2>1, <3>3, StayFree
  <2> QED BY <2>2, <2>3
<1>4. CASE alloc(p) \/ update(p) \/ UpdateCopy(p) \/ UpdateDone(p)
  <2>1. UNCHANGED <<sfree, link, blk>> /\ doing[p] \in {"idle", "super", "superwrite"}
    BY <1>4 DEF alloc, update, UpdateCopy, UpdateDone
  <2>2. PICK l \in {"alloc", "super", "superwrite", "idle"} :
                doing' = [doing EXCEPT ![p] = l]
    BY <1>4 DEF alloc, update, UpdateCopy, UpdateDone, Turns
  <2> QED BY <1>1, <1>3, <2>1, <2>2 DEF FreeTypeOK
<1>5. CASE \E b \in Area : free(p, b)
  BY <1>1, <1>3, <1>5 DEF FreeTypeOK, free, Turns
<1>6. CASE FreePut(p) /\ doing'[p] = "link"
  <2>1. UNCHANGED <<sfree, link, blk>> /\ doing[p] = "free"
        /\ doing' = [doing EXCEPT ![p] = "link"]
    <3>1. doing' = [doing EXCEPT ![p] = "idle"] => doing'[p] = "idle"
      BY <1>1 DEF FreeTypeOK
    <3> QED BY <1>6, <3>1, PutDoes, InvIsForm
  <2> QED BY <1>1, <1>3, <2>1 DEF FreeTypeOK
<1>7. CASE AllocGet(p)
  <2>1. /\ doing[p] = "getblk" /\ link' = [link EXCEPT ![blk[p]] = <<>>] /\ sfree' = sfree
        /\ blk' = [blk EXCEPT ![p] = NoBlock] /\ doing' = [doing EXCEPT ![p] = "idle"]
    BY <1>7 DEF AllocGet, Turns
  <2>2. blk[p] \in Area /\ blk[p] \in Moving /\ blk[p] # NoBlock
    BY <2>1, HasBlock, Numbers
  <2>3. \A c \in Area : c # blk[p] => link'[c] = link[c]
    BY <1>1, <2>1 DEF FreeTypeOK
  <2>4. /\ doing'[p] = "idle"
        /\ \A q \in Allocators : q # p => doing'[q] = doing[q] /\ blk'[q] = blk[q]
    BY <1>1, <2>1 DEF FreeTypeOK
  <2>5. \A b \in FreeBlocks : Held(b)' = Held(b)
    BY <1>2, <2>2, <2>3 DEF Held
  <2>6. Roots' = Roots
    <3>1. CASE \A q \in Allocators : doing[q] \notin {"read", "write"}
      <4>1. \A q \in Allocators : doing'[q] \notin {"read", "write"}
        BY <2>4, <3>1
      <4> QED BY <2>1, <3>1, <4>1, RootsAre, RootsAreNext DEF RootsForm
    <3>2. CASE \E q \in Allocators : doing[q] \in {"read", "write"}
      <4>1. PICK q \in Allocators : doing[q] \in {"read", "write"}
        BY <3>2
      <4>2. q # p /\ doing'[q] \in {"read", "write"} /\ blk'[q] = blk[q] /\ blk[q] \in Area
        BY <2>1, <2>4, <4>1, HasBlock
      <4>3. blk[q] # blk[p]
        BY <1>1, <2>2, <4>2 DEF BlkOK
      <4>4. Roots = Range(link[blk[q]]) \ {0}
        BY <4>1, RootsAre DEF RootsForm, Held
      <4>5. Roots' = Range(link'[blk'[q]]) \ {0}
        BY <4>2, RootsAreNext DEF RootsForm, Held
      <4> QED BY <2>3, <4>2, <4>3, <4>4, <4>5
    <3> QED BY <3>1, <3>2
  <2> QED BY <1>1, <2>5, <2>6, StayFree
<1>8. CASE FreeLink(p)
  <2>1. /\ doing[p] = "link" /\ link' = [link EXCEPT ![blk[p]] = sfree] /\ sfree' = <<>>
        /\ blk' = blk /\ doing' = [doing EXCEPT ![p] = "write"]
    BY <1>8 DEF FreeLink, Turns
  <2>2. blk[p] \in Area /\ blk[p] \in Moving
    BY <2>1, HasBlock
  <2>3. link'[blk[p]] = sfree /\ \A c \in Area : c # blk[p] => link'[c] = link[c]
    BY <1>1, <2>1, <2>2 DEF FreeTypeOK
  <2>4. doing'[p] = "write" /\ \A q \in Allocators : doing[q] \notin {"read", "write"}
    BY <1>1, <2>1, WhoReads DEF FreeTypeOK, Locking
  <2>5. Roots = Range(sfree) \ {0}
    BY <2>4, RootsAre DEF RootsForm
  <2>6. Roots' = Range(link'[blk'[p]]) \ {0}
    BY <2>4, RootsAreNext DEF RootsForm, Held
  <2>7. \A b \in FreeBlocks : Held(b)' = Held(b)
    BY <1>2, <2>2, <2>3 DEF Held
  <2> QED BY <1>1, <2>1, <2>3, <2>5, <2>6, <2>7, StayFree
<1>9. CASE AllocRead(p) /\ doing'[p] = "getblk"
  <2>1. /\ doing[p] = "read" /\ link' = link /\ sfree' = link[blk[p]]
        /\ doing' = [doing EXCEPT ![p] = "getblk"]
    <3>1. Nospace(p) => doing'[p] = "idle"
      BY <1>1 DEF Nospace, Turns, FreeTypeOK
    <3>2. ~garbled'
      BY DEF FreeInv, Clean
    <3> QED BY <1>9, <3>1, <3>2 DEF AllocRead, Turns
  <2>2. \A q \in Allocators : doing'[q] \notin {"read", "write"}
    BY <1>1, <2>1, WhoReads DEF FreeTypeOK, Locking
  <2>3. Roots = Range(link[blk[p]]) \ {0}
    BY <2>1, RootsAre DEF RootsForm, Held
  <2>4. Roots' = Range(sfree') \ {0}
    BY <2>2, RootsAreNext DEF RootsForm
  <2>5. \A b : Held(b)' = Held(b)
    BY <2>1 DEF Held
  <2> QED BY <1>1, <2>1, <2>3, <2>4, <2>5, StayFree
<1> QED BY <1>4, <1>5, <1>6, <1>7, <1>8, <1>9

\* free puts a block back, into the superblock, or as the block that holds the rest; if that
\* could not be written, the rest is lost.
LEMMA PutGivesBack ==
    ASSUME FreeInv, FreeInv', NEW p \in Allocators,
           (FreePut(p) /\ doing'[p] = "idle") \/ FreeWritten(p)
    PROVE  /\ blk[p] \in Area /\ blk[p] \notin FreeBlocks /\ full' = full
           /\ FreeBlocks' \subseteq FreeBlocks \cup {blk[p]}
           /\ failures' = failures => FreeBlocks' = FreeBlocks \cup {blk[p]}
<1>1. FreeTypeOK /\ BlkOK /\ FreeTypeOK' /\ BlkOK' /\ LinksOK
  BY DEF FreeInv
<1>2. \A b \in FreeBlocks : b \in Area /\ b \notin Moving
  BY FreeArePlaced
<1>3. CASE FreePut(p) /\ doing'[p] = "idle"
  <2>1. /\ doing[p] = "free" /\ ~flock /\ blk[p] \in Area
        /\ Opened \in Seq(Area \cup {0}) /\ DOMAIN Opened = 1..Len(Opened)
        /\ \A i \in DOMAIN Opened :
                \/ i \in DOMAIN sfree /\ Opened[i] = sfree[i]
                \/ i = 1 /\ Opened[i] = 0 /\ sfree = <<>>
        /\ UNCHANGED <<link, full, failures>>
    BY <1>3, PutDoes, InvIsForm
  <2>2. /\ sfree' = Append(Opened, blk[p]) /\ flock' = flock
        /\ doing' = [doing EXCEPT ![p] = "idle"]
    <3>1. doing' = [doing EXCEPT ![p] = "link"] => doing'[p] = "link"
      BY <1>1 DEF FreeTypeOK
    <3> QED BY <1>3, <3>1, PutDoes, InvIsForm
  <2>3. blk[p] \in Moving /\ Held(blk[p]) = {}
    <3>1. link[blk[p]] = <<>>
      BY <1>1, <2>1 DEF LinksOK
    <3> QED BY <2>1, <3>1, HasBlock DEF Held, Range
  <2>4. \A q \in Allocators : doing[q] \notin {"read", "write"}
    BY <2>1, WhoReads
  <2>5. \A q \in Allocators : doing'[q] \notin {"read", "write"}
    BY <1>1, <2>2, <2>4 DEF FreeTypeOK
  <2>6. Roots = Range(sfree) \ {0} /\ Roots' = Range(sfree') \ {0}
    BY <2>4, <2>5, RootsAre, RootsAreNext DEF RootsForm
  <2>7. Range(Opened) \ {0} = Range(sfree) \ {0}
    <3>1. CASE sfree = <<>>
      <4>1. Range(Opened) = {0} /\ Range(sfree) = {}
        BY <3>1 DEF Opened, Range
      <4> QED BY <4>1
    <3>2. CASE sfree # <<>>
      BY <3>2 DEF Opened
    <3> QED BY <3>1, <3>2
  <2>8. Range(sfree') = Range(Opened) \cup {blk[p]}
    <3> DEFINE S == Area \cup {0}
    <3>1. /\ \A i \in DOMAIN Append(Opened, blk[p]) :
                \/ i \in DOMAIN Opened /\ Append(Opened, blk[p])[i] = Opened[i]
                \/ i = Len(Opened) + 1 /\ Append(Opened, blk[p])[i] = blk[p]
          /\ Len(Append(Opened, blk[p])) = Len(Opened) + 1
          /\ Append(Opened, blk[p]) \in Seq(S)
      <4>1. Opened \in Seq(S) /\ blk[p] \in S
        BY <2>1
      <4> HIDE DEF S
      <4> QED BY <4>1, BackProps
    <3>2. DOMAIN Append(Opened, blk[p]) = 1..Len(Opened) + 1
      BY <3>1
    <3>3. Len(Opened) \in Nat
      BY <2>1
    <3>4. /\ Append(Opened, blk[p])[Len(Opened) + 1] = blk[p]
          /\ \A i \in DOMAIN Opened : Append(Opened, blk[p])[i] = Opened[i]
      BY <2>1
    <3>5. /\ Len(Opened) + 1 \in DOMAIN Append(Opened, blk[p])
          /\ \A i \in DOMAIN Opened : i \in DOMAIN Append(Opened, blk[p])
      BY <2>1, <3>2, <3>3
    <3>6. Range(Append(Opened, blk[p])) = Range(Opened) \cup {blk[p]}
      BY <3>1, <3>4, <3>5 DEF Range
    <3> QED BY <2>2, <3>6
  <2>9. Roots' = Roots \cup {blk[p]}
    <3>1. blk[p] # 0
      BY <2>1, Numbers
    <3> QED BY <2>6, <2>7, <2>8, <3>1
  <2>10. \A b : Held(b)' = Held(b)
    BY <2>1 DEF Held
  <2>11. /\ Roots' \subseteq FreeBlocks \cup {blk[p]} /\ blk[p] \in Roots'
         /\ Roots \subseteq Roots' /\ Held(blk[p]) \subseteq FreeBlocks
    BY <1>1, <2>3, <2>9, FreeBlocksLeast DEF FreeBlocksAreLeast
  <2>12. PICK e \in Area : e = blk[p]
    BY <2>1
  <2>13. Held(e)' = Held(e)
    BY <2>10
  <2>14. FreeBlocks' = FreeBlocks \cup {e}
    BY <1>1, <2>10, <2>11, <2>12, <2>13, OneGivenBack
  <2> QED BY <1>2, <2>1, <2>3, <2>12, <2>14
<1>4. CASE FreeWritten(p)
  <2>1. /\ doing[p] = "write" /\ sfree = <<>> /\ blk[p] \in Area /\ full' = full
        /\ sfree' = <<blk[p]>> /\ doing' = [doing EXCEPT ![p] = "idle"]
        /\ \A c \in Area : c # blk[p] => link'[c] = link[c]
        /\ link'[blk[p]] = link[blk[p]] \/ link'[blk[p]] = <<>>
    BY <1>4, WrittenDoes, InvIsForm
  <2>2. failures' = failures => link' = link
    BY <1>1, <1>4, Numbers DEF FreeWritten, DiskFails, FreeTypeOK
  <2>3. blk[p] \in Moving /\ blk[p] # 0
    BY <2>1, HasBlock, Numbers
  <2>4. \A q \in Allocators : doing'[q] \notin {"read", "write"}
    BY <1>1, <2>1, WhoReads DEF FreeTypeOK, Locking
  <2>5. Roots = Held(blk[p]) /\ Roots' = Range(sfree') \ {0}
    BY <2>1, <2>4, RootsAre, RootsAreNext DEF RootsForm
  <2>6. Range(sfree') = {blk[p]}
    BY <2>1 DEF Range
  <2>7. Roots' = {blk[p]}
    BY <2>3, <2>5, <2>6
  <2>8. \A b \in FreeBlocks : Held(b)' = Held(b)
    BY <1>2, <2>1, <2>3 DEF Held
  <2>9. PICK e \in Area : e = blk[p]
    BY <2>1
  <2>10. Held(e)' = Held(e) \/ Held(e)' = {}
    BY <2>1, <2>9 DEF Held, Range
  <2>11. failures' = failures => Held(e)' = Held(e)
    BY <2>2 DEF Held
  <2>12. Held(e) \subseteq FreeBlocks /\ Roots = Held(e) /\ Roots' = {e}
    BY <1>1, <2>5, <2>7, <2>9, FreeBlocksLeast DEF FreeBlocksAreLeast
  <2>13. /\ FreeBlocks' \subseteq FreeBlocks \cup {e}
         /\ Roots \subseteq Roots' \cup Held(e)' => FreeBlocks' = FreeBlocks \cup {e}
    BY <1>1, <2>8, <2>10, <2>12, OneGivenBack
  <2>14. failures' = failures => FreeBlocks' = FreeBlocks \cup {e}
    BY <2>11, <2>12, <2>13
  <2> QED BY <1>2, <2>1, <2>3, <2>9, <2>13, <2>14
<1> QED BY <1>3, <1>4

\* What a step of the allocator is.
LEMMA OneStep ==
    ASSUME ~garbled, garbled' = garbled, A!NoSpace \/ \E b \in Area : A!Take(b) \/ A!GiveBack(b)
    PROVE  A!AllocatorNext
BY DEF A!AllocatorNext, A!Keeps

\* As long as the list is one, every step of alloc, free and update is one of the allocator
\* or changes nothing there.
LEMMA StepAllocates ==
    ASSUME FreeInv, FreeInv', [FreeNext]_freeVars
    PROVE  [A!AllocatorNext]_(A!allocatorVars)
<1> DEFINE Same == FreeBlocks' = FreeBlocks /\ full' = full /\ failures' = failures
<1>7. ~garbled /\ garbled' = garbled
  BY DEF FreeInv, Clean, FreeTypeOK
<1>0. Same => UNCHANGED A!allocatorVars
  BY <1>7 DEF A!allocatorVars
<1>1. ASSUME NEW p \in Allocators,
             \/ alloc(p) \/ update(p) \/ UpdateCopy(p) \/ UpdateDone(p)
             \/ AllocGet(p) \/ FreeLink(p) \/ (\E b \in Area : free(p, b))
      PROVE  Same
  <2>1. FreeBlocks' = FreeBlocks
    BY <1>1, StepsInside
  <2>2. full' = full /\ failures' = failures
    BY <1>1 DEF alloc, update, UpdateCopy, UpdateDone, AllocGet, FreeLink, free
  <2> QED BY <2>1, <2>2
<1>2. ASSUME NEW p \in Allocators, AllocPop(p) PROVE A!AllocatorNext
  <2>1. CASE sfree # <<>> /\ Last(sfree) # 0
    <3>1. Last(sfree) \in FreeBlocks /\ FreeBlocks' = FreeBlocks \ {Last(sfree)}
      BY <1>2, <2>1, PopTakes
    <3>2. full' = FALSE /\ failures' = failures
      BY <1>2, <2>1 DEF AllocPop
    <3>3. Last(sfree) \in Area
      BY <3>1, FreeArePlaced
    <3>4. A!Take(Last(sfree))
      BY <3>1, <3>2 DEF A!Take, A!Left
    <3> QED BY <1>7, <3>3, <3>4, OneStep
  <2>2. CASE sfree = <<>> \/ Last(sfree) = 0
    <3>1. ~flock /\ flock' = flock /\ sfree' = <<>> /\ full' = TRUE /\ failures' = failures
      BY <1>2, <2>2 DEF AllocPop, Nospace, Unlocked
    <3>2. FreeBlocks = {} /\ FreeBlocks' = {}
      BY <2>2, <3>1, NoneFree, DrainedNext DEF Drained
    <3>3. A!NoSpace
      BY <3>1, <3>2 DEF A!NoSpace, A!Left
    <3> QED BY <1>7, <3>3, OneStep
  <2> QED BY <2>1, <2>2
<1>3. ASSUME NEW p \in Allocators, AllocRead(p) PROVE Same \/ A!AllocatorNext
  <2>1. CASE doing'[p] = "getblk"
    <3>1. FreeBlocks' = FreeBlocks
      BY <1>3, <2>1, StepsInside
    <3>2. full' = full /\ failures' = failures
      <4>1. Nospace(p) => doing'[p] = "idle"
        BY DEF Nospace, Turns, FreeInv, FreeTypeOK
      <4> QED BY <1>3, <2>1, <4>1 DEF AllocRead
    <3> QED BY <3>1, <3>2
  <2>2. CASE doing'[p] # "getblk"
    <3>1. /\ doing[p] = "read" /\ flock' = FALSE /\ Nospace(p)
          /\ (link[blk[p]] = <<>> /\ failures' = failures) \/ DiskFails
      <4>1. Turns(p, "getblk") => doing'[p] = "getblk"
        BY DEF Turns, FreeInv, FreeTypeOK
      <4>2. ~garbled
        BY DEF FreeInv, Clean
      <4> QED BY <1>3, <2>2, <4>1, <4>2 DEF AllocRead, Intact
    <3>2. sfree' = <<>> /\ full' = TRUE
      BY <3>1 DEF Nospace
    <3>3. FreeBlocks' = {}
      BY <3>1, <3>2, DrainedNext DEF Drained
    <3>4. failures' = failures => FreeBlocks = {}
      <4>1. ASSUME failures' = failures PROVE link[blk[p]] = <<>>
        BY <3>1, <4>1, Numbers DEF DiskFails, FreeInv, FreeTypeOK
      <4>2. ASSUME link[blk[p]] = <<>> PROVE Roots = {}
        BY <3>1, <4>2, RootsAre DEF RootsForm, Held, Range
      <4>3. {} \in SUBSET Area
        OBVIOUS
      <4>4. Roots = {} => FreeBlocks \subseteq {}
        BY <4>3, FreeBlocksLeast DEF FreeBlocksAreLeast, FreeInv
      <4> QED BY <4>1, <4>2, <4>4
    <3>5. A!NoSpace
      BY <3>2, <3>3, <3>4 DEF A!NoSpace, A!Left
    <3> QED BY <1>7, <3>5, OneStep
  <2> QED BY <2>1, <2>2
<1>4. ASSUME NEW p \in Allocators,
             (FreePut(p) /\ doing'[p] = "idle") \/ FreeWritten(p)
      PROVE  A!AllocatorNext
  <2>1. /\ blk[p] \in Area /\ blk[p] \notin FreeBlocks /\ full' = full
        /\ FreeBlocks' \subseteq FreeBlocks \cup {blk[p]}
        /\ failures' = failures => FreeBlocks' = FreeBlocks \cup {blk[p]}
    BY <1>4, PutGivesBack
  <2>2. A!GiveBack(blk[p])
    BY <2>1 DEF A!GiveBack, A!Left
  <2> QED BY <1>7, <2>1, <2>2, OneStep
<1>5. ASSUME NEW p \in Allocators, FreePut(p), doing'[p] # "idle" PROVE Same
  <2>1. doing' = [doing EXCEPT ![p] = "link"] /\ full' = full /\ failures' = failures
    <3>1. doing' = [doing EXCEPT ![p] = "idle"] => doing'[p] = "idle"
      BY DEF FreeInv, FreeTypeOK
    <3> QED BY <1>5, <3>1, PutDoes, InvIsForm
  <2>2. doing'[p] = "link"
    BY <2>1 DEF FreeInv, FreeTypeOK
  <2> QED BY <1>5, <2>1, <2>2, StepsInside
<1>6. ASSUME UNCHANGED freeVars PROVE Same
  BY <1>6 DEF freeVars, FreeBlocks, Detached, OnList, HoldsItsOwn
<1> HIDE DEF Same
<1> QED
  BY <1>0, <1>1, <1>2, <1>3, <1>4, <1>5, <1>6 DEF FreeNext, Proceeds

\* alloc.c:14-24, 73-77: alloc and free implement the set of free blocks: a block is taken
\* from it and given back in one step each, however many lists it is kept in, and unless
\* the disk fails there is no space only when it is empty; the promise ends only when alloc,
\* after a failure of the disk, takes something else for a part of the list.
THEOREM AllocatorTheorem == FreeSpec => Allocates
<1>1. FreeInit => A!AllocatorInit
  <2>1. ASSUME FreeInit PROVE A!AllocatorInit
    <3>1. FreeBlocks \subseteq Area
      BY <2>1, InvInit, FreeBlocksLeast DEF FreeBlocksAreLeast, FreeInv
    <3> QED BY <2>1, <3>1 DEF FreeInit, A!AllocatorInit
  <2> QED BY <2>1
<1>2. ASSUME ListInv, ListInv', [FreeNext]_freeVars
      PROVE  [A!AllocatorNext]_(A!allocatorVars)
  <2>1. CASE garbled'
    <3>1. garbled' = TRUE
      BY <1>2, <2>1 DEF ListInv, FormInv, FreeTypeOK
    <3>2. failures # 0
      BY <1>2, <2>1, GarbledStep DEF ListInv, FormInv
    <3> QED BY <3>1, <3>2 DEF A!AllocatorNext, A!Breaks
  <2>2. CASE ~garbled'
    <3>1. ~garbled
      BY <1>2, <2>2, GarbledStep DEF ListInv, FormInv
    <3> QED BY <1>2, <2>2, <3>1, StepAllocates DEF ListInv
  <2> QED BY <2>1, <2>2
<1> QED BY <1>1, <1>2, FreeListInvariant, PTL DEF FreeSpec, Allocates, A!AllocatorSpec
----------------------------------------------------------------------------
(* Character lists: where the blocks are *)

\* The lists that blocks are in: the free list, and that of each queue.
Unused == <<>>
ListOf(q) == <<q>>
BlockLists == {Unused} \cup {ListOf(q) : q \in Names}

AllChars == Chars \cup {CHOOSE c \in Chars : TRUE}

ClistMems == [cfreelist : 0..NBLOCK, next : [Cblocks -> 0..NBLOCK],
              info : [Cblocks \X (0..CBSIZE - 1) -> AllChars], cc : [Names -> Nat],
              cf : [Names -> Int \X Int], cl : [Names -> Int \X Int]]

\* A layout numbers the blocks of each list, from lo to hi: own is the list of a block,
\* pos its number, and at the block with a number.
Layouts == [own : [Cblocks -> BlockLists], pos : [Cblocks -> Int],
            at : [BlockLists -> [Int -> 0..NBLOCK]],
            lo : [BlockLists -> Int], hi : [BlockLists -> Int]]

\* The first block of a list, or 0.
FirstBlock(y, x) == IF y.lo[x] <= y.hi[x] THEN y.at[x][y.lo[x]] ELSE 0

BlockIn(y, b) ==
    /\ y.lo[y.own[b]] <= y.pos[b] /\ y.pos[b] <= y.hi[y.own[b]]
    /\ y.at[y.own[b]][y.pos[b]] = b

LinkIn(next, y, b) ==
    next[b] = IF y.pos[b] = y.hi[y.own[b]] THEN 0 ELSE y.at[y.own[b]][y.pos[b] + 1]

PlaceHas(y, x, n) ==
    /\ y.at[x][n] \in Cblocks /\ y.own[y.at[x][n]] = x /\ y.pos[y.at[x][n]] = n

\* Every block is in one list, at one place, and linked to the next.
Linked(next, y) ==
    /\ \A b \in Cblocks : BlockIn(y, b) /\ LinkIn(next, y, b)
    /\ \A x \in BlockLists, n \in Int : y.lo[x] <= n /\ n <= y.hi[x] => PlaceHas(y, x, n)
    /\ \A x \in BlockLists : y.lo[x] <= y.hi[x] + 1

\* Where the first and after the last character of q are.
HasChars(k, y, q) ==
    /\ \E a \in 0..CBSIZE - 1, e \in 1..CBSIZE :
          /\ k.cf[q] = <<y.at[ListOf(q)][y.lo[ListOf(q)]], a>>
          /\ k.cl[q] = <<y.at[ListOf(q)][y.hi[ListOf(q)]], e>>
          /\ k.cc[q] = (y.hi[ListOf(q)] - y.lo[ListOf(q)]) * CBSIZE + e - a
    /\ k.cc[q] > 0

QueueLaid(k, y, q) ==
    IF y.lo[ListOf(q)] <= y.hi[ListOf(q)] THEN HasChars(k, y, q)
    ELSE k.cc[q] = 0 /\ k.cf[q] = NULL /\ k.cl[q] = NULL

Laid(k, y) ==
    /\ k \in ClistMems /\ y \in Layouts
    /\ Linked(k.next, y) /\ k.cfreelist = FirstBlock(y, Unused)
    /\ \A q \in Names : QueueLaid(k, y, q)

\* The fields of a layout.
LEMMA LayoutFields ==
    ASSUME NEW y \in Layouts
    PROVE  /\ y.own \in [Cblocks -> BlockLists] /\ y.pos \in [Cblocks -> Int]
           /\ y.at \in [BlockLists -> [Int -> 0..NBLOCK]]
           /\ y.lo \in [BlockLists -> Int] /\ y.hi \in [BlockLists -> Int]
BY DEF Layouts

\* The fields of the memory.
LEMMA ClistFields ==
    ASSUME NEW k \in ClistMems
    PROVE  /\ k.cfreelist \in 0..NBLOCK /\ k.next \in [Cblocks -> 0..NBLOCK]
           /\ k.info \in [Cblocks \X (0..CBSIZE - 1) -> AllChars] /\ k.cc \in [Names -> Nat]
           /\ k.cf \in [Names -> Int \X Int] /\ k.cl \in [Names -> Int \X Int]
BY DEF ClistMems

\* The lists are different ones.
LEMMA ListsDiffer ==
    /\ Unused \in BlockLists
    /\ \A q \in Names : ListOf(q) \in BlockLists /\ ListOf(q) # Unused
    /\ \A q, r \in Names : ListOf(q) = ListOf(r) => q = r
<1>1. \A q \in Names : ListOf(q) # Unused
  BY DEF ListOf, Unused
<1>2. \A q, r \in Names : ListOf(q) = ListOf(r) => q = r
  BY DEF ListOf
<1> QED BY <1>1, <1>2 DEF BlockLists

\* The layout with the first block of x at the front of the free list.
FreedFirst(y, x) ==
    LET b == y.at[x][y.lo[x]]
        n == y.lo[Unused] - 1
    IN [own |-> [y.own EXCEPT ![b] = Unused], pos |-> [y.pos EXCEPT ![b] = n],
        at |-> [y.at EXCEPT ![Unused] = [y.at[Unused] EXCEPT ![n] = b]],
        lo |-> [z \in BlockLists |-> IF z = x THEN y.lo[x] + 1
                                     ELSE IF z = Unused THEN n ELSE y.lo[z]],
        hi |-> y.hi]

\* The layout with the first free block at the end of x.
GivenLast(y, x) ==
    LET b == y.at[Unused][y.lo[Unused]]
        n == y.hi[x] + 1
    IN [own |-> [y.own EXCEPT ![b] = x], pos |-> [y.pos EXCEPT ![b] = n],
        at |-> [y.at EXCEPT ![x] = [y.at[x] EXCEPT ![n] = b]],
        lo |-> [z \in BlockLists |-> IF z = Unused THEN y.lo[z] + 1 ELSE y.lo[z]],
        hi |-> [z \in BlockLists |-> IF z = x THEN n ELSE y.hi[z]]]

\* What v says of each block and place, when block b has been moved to place n of list z.
BlockMoved(y, v, b, z, n) ==
    /\ \A c \in Cblocks : v.own[c] = IF c = b THEN z ELSE y.own[c]
    /\ \A c \in Cblocks : v.pos[c] = IF c = b THEN n ELSE y.pos[c]
    /\ \A w \in BlockLists, m \in Int :
          v.at[w][m] = IF w = z /\ m = n THEN b ELSE y.at[w][m]

\* FreedFirst is a layout, and so moves a block.
LEMMA FreedFirstMoves ==
    ASSUME NEW y \in Layouts, NEW x \in BlockLists \ {Unused}, NEW b \in Cblocks,
           b = y.at[x][y.lo[x]], NEW n, n = y.lo[Unused] - 1, NEW v, v = FreedFirst(y, x)
    PROVE  /\ v \in Layouts /\ n \in Int /\ BlockMoved(y, v, b, Unused, n)
           /\ \A w \in BlockLists : v.lo[w] = IF w = x THEN y.lo[x] + 1
                                              ELSE IF w = Unused THEN n ELSE y.lo[w]
           /\ \A w \in BlockLists : v.hi[w] = y.hi[w]
<1>1. /\ y.own \in [Cblocks -> BlockLists] /\ y.pos \in [Cblocks -> Int]
      /\ y.at \in [BlockLists -> [Int -> 0..NBLOCK]]
      /\ y.lo \in [BlockLists -> Int] /\ y.hi \in [BlockLists -> Int]
      /\ Unused \in BlockLists
  BY LayoutFields, ListsDiffer
<1>2. n \in Int
  BY <1>1
<1>3. /\ v.own = [y.own EXCEPT ![b] = Unused] /\ v.pos = [y.pos EXCEPT ![b] = n]
      /\ v.at = [y.at EXCEPT ![Unused] = [y.at[Unused] EXCEPT ![n] = b]]
      /\ v.lo = [w \in BlockLists |-> IF w = x THEN y.lo[x] + 1
                                      ELSE IF w = Unused THEN n ELSE y.lo[w]]
      /\ v.hi = y.hi
      /\ v = [own |-> v.own, pos |-> v.pos, at |-> v.at, lo |-> v.lo, hi |-> v.hi]
  BY DEF FreedFirst
<1>4. PICK f : f = [y.at[Unused] EXCEPT ![n] = b]
  OBVIOUS
<1> b \in 0..NBLOCK
  BY ClistAssumption DEF Cblocks
<1>5. f \in [Int -> 0..NBLOCK] /\ \A m \in Int : f[m] = IF m = n THEN b ELSE y.at[Unused][m]
  BY <1>1, <1>2, <1>4
<1>6. v.at = [y.at EXCEPT ![Unused] = f]
  BY <1>3, <1>4, Zenon
<1>7. v.own \in [Cblocks -> BlockLists] /\ v.pos \in [Cblocks -> Int]
  BY <1>1, <1>2, <1>3
<1>8. v.at \in [BlockLists -> [Int -> 0..NBLOCK]]
  BY <1>1, <1>5, <1>6
<1>9. v.lo \in [BlockLists -> Int] /\ v.hi \in [BlockLists -> Int]
  BY <1>1, <1>2, <1>3
<1>10. v \in Layouts
  BY <1>3, <1>7, <1>8, <1>9 DEF Layouts
<1>11. /\ \A c \in Cblocks : v.own[c] = IF c = b THEN Unused ELSE y.own[c]
       /\ \A c \in Cblocks : v.pos[c] = IF c = b THEN n ELSE y.pos[c]
  BY <1>1, <1>3
<1>12. \A w \in BlockLists, m \in Int :
          v.at[w][m] = IF w = Unused /\ m = n THEN b ELSE y.at[w][m]
  BY <1>1, <1>5, <1>6
<1>13. /\ \A w \in BlockLists : v.lo[w] = IF w = x THEN y.lo[x] + 1
                                          ELSE IF w = Unused THEN n ELSE y.lo[w]
       /\ \A w \in BlockLists : v.hi[w] = y.hi[w]
  BY <1>3
<1> QED BY <1>2, <1>10, <1>11, <1>12, <1>13 DEF BlockMoved

\* GivenLast does as well.
LEMMA GivenLastMoves ==
    ASSUME NEW y \in Layouts, NEW x \in BlockLists \ {Unused}, NEW b \in Cblocks,
           b = y.at[Unused][y.lo[Unused]], NEW n, n = y.hi[x] + 1,
           NEW v, v = GivenLast(y, x)
    PROVE  /\ v \in Layouts /\ n \in Int /\ BlockMoved(y, v, b, x, n)
           /\ \A w \in BlockLists : v.lo[w] = IF w = Unused THEN y.lo[w] + 1 ELSE y.lo[w]
           /\ \A w \in BlockLists : v.hi[w] = IF w = x THEN n ELSE y.hi[w]
<1>1. /\ y.own \in [Cblocks -> BlockLists] /\ y.pos \in [Cblocks -> Int]
      /\ y.at \in [BlockLists -> [Int -> 0..NBLOCK]]
      /\ y.lo \in [BlockLists -> Int] /\ y.hi \in [BlockLists -> Int]
      /\ Unused \in BlockLists
  BY LayoutFields, ListsDiffer
<1>2. n \in Int
  BY <1>1
<1>3. /\ v.own = [y.own EXCEPT ![b] = x] /\ v.pos = [y.pos EXCEPT ![b] = n]
      /\ v.at = [y.at EXCEPT ![x] = [y.at[x] EXCEPT ![n] = b]]
      /\ v.lo = [w \in BlockLists |-> IF w = Unused THEN y.lo[w] + 1 ELSE y.lo[w]]
      /\ v.hi = [w \in BlockLists |-> IF w = x THEN n ELSE y.hi[w]]
      /\ v = [own |-> v.own, pos |-> v.pos, at |-> v.at, lo |-> v.lo, hi |-> v.hi]
  BY DEF GivenLast
<1>4. PICK f : f = [y.at[x] EXCEPT ![n] = b]
  OBVIOUS
<1> b \in 0..NBLOCK
  BY ClistAssumption DEF Cblocks
<1>5. f \in [Int -> 0..NBLOCK] /\ \A m \in Int : f[m] = IF m = n THEN b ELSE y.at[x][m]
  BY <1>1, <1>2, <1>4
<1>6. v.at = [y.at EXCEPT ![x] = f]
  BY <1>3, <1>4, Zenon
<1>7. v.own \in [Cblocks -> BlockLists] /\ v.pos \in [Cblocks -> Int]
  BY <1>1, <1>2, <1>3
<1>8. v.at \in [BlockLists -> [Int -> 0..NBLOCK]]
  BY <1>1, <1>5, <1>6
<1>9. v.lo \in [BlockLists -> Int] /\ v.hi \in [BlockLists -> Int]
  BY <1>1, <1>2, <1>3
<1>10. v \in Layouts
  BY <1>3, <1>7, <1>8, <1>9 DEF Layouts
<1>11. /\ \A c \in Cblocks : v.own[c] = IF c = b THEN x ELSE y.own[c]
       /\ \A c \in Cblocks : v.pos[c] = IF c = b THEN n ELSE y.pos[c]
  BY <1>1, <1>3
<1>12. \A w \in BlockLists, m \in Int :
          v.at[w][m] = IF w = x /\ m = n THEN b ELSE y.at[w][m]
  BY <1>1, <1>5, <1>6
<1>13. /\ \A w \in BlockLists : v.lo[w] = IF w = Unused THEN y.lo[w] + 1 ELSE y.lo[w]
       /\ \A w \in BlockLists : v.hi[w] = IF w = x THEN n ELSE y.hi[w]
  BY <1>3, Zenon
<1> QED BY <1>2, <1>10, <1>11, <1>12, <1>13 DEF BlockMoved

\* A block that is freed is linked to what was the first of the free list.
LEMMA FreeLinks ==
    ASSUME NEW y \in Layouts, NEW next \in [Cblocks -> 0..NBLOCK], Linked(next, y),
           NEW x \in BlockLists \ {Unused}, y.lo[x] <= y.hi[x],
           NEW b, b = y.at[x][y.lo[x]]
    PROVE  /\ b \in Cblocks /\ FreedFirst(y, x) \in Layouts
           /\ Linked([next EXCEPT ![b] = FirstBlock(y, Unused)], FreedFirst(y, x))
           /\ FirstBlock(FreedFirst(y, x), Unused) = b
<1>1. /\ y.own \in [Cblocks -> BlockLists] /\ y.pos \in [Cblocks -> Int]
      /\ y.at \in [BlockLists -> [Int -> 0..NBLOCK]]
      /\ y.lo \in [BlockLists -> Int] /\ y.hi \in [BlockLists -> Int]
      /\ Unused \in BlockLists
  BY LayoutFields, ListsDiffer
<1>2. b \in Cblocks /\ y.own[b] = x /\ y.pos[b] = y.lo[x]
  BY <1>1 DEF Linked, PlaceHas
<1>3. PICK n : n = y.lo[Unused] - 1
  OBVIOUS
<1>4. PICK v : v = FreedFirst(y, x)
  OBVIOUS
<1>5. /\ v \in Layouts /\ n \in Int /\ BlockMoved(y, v, b, Unused, n)
      /\ \A w \in BlockLists : v.lo[w] = IF w = x THEN y.lo[x] + 1
                                         ELSE IF w = Unused THEN n ELSE y.lo[w]
      /\ \A w \in BlockLists : v.hi[w] = y.hi[w]
  BY <1>2, <1>3, <1>4, FreedFirstMoves
<1>6. PICK h : h = FirstBlock(y, Unused)
  OBVIOUS
<1>7. PICK g : g = [next EXCEPT ![b] = h]
  OBVIOUS
<1>8. \A c \in Cblocks : g[c] = IF c = b THEN h ELSE next[c]
  BY <1>7
<1>9. y.lo[Unused] \in Int /\ y.hi[Unused] \in Int /\ y.lo[x] \in Int /\ y.hi[x] \in Int
      /\ y.lo[Unused] <= y.hi[Unused] + 1 /\ v.lo[Unused] = n /\ v.hi[Unused] = y.hi[Unused]
      /\ v.lo[x] = y.lo[x] + 1 /\ v.hi[x] = y.hi[x]
  BY <1>1, <1>5 DEF Linked
<1>10. ASSUME NEW c \in Cblocks PROVE BlockIn(v, c) /\ LinkIn(g, v, c)
  <2>1. CASE c = b
    <3>1. v.own[c] = Unused /\ v.pos[c] = n /\ v.at[Unused][n] = b
      BY <1>1, <1>5, <2>1 DEF BlockMoved
    <3>2. BlockIn(v, c)
      BY <1>3, <1>9, <2>1, <3>1 DEF BlockIn
    <3>3. n + 1 = y.lo[Unused] /\ n + 1 \in Int /\ n + 1 # n /\ (n = y.hi[Unused] <=> ~(y.lo[Unused] <= y.hi[Unused]))
      BY <1>3, <1>9
    <3>4. v.at[Unused][n + 1] = y.at[Unused][n + 1]
      BY <1>1, <1>5, <3>3 DEF BlockMoved
    <3>5. g[c] = h
      BY <1>8, <2>1
    <3>6. h = IF n = v.hi[Unused] THEN 0 ELSE v.at[Unused][n + 1]
      BY <1>6, <1>9, <3>3, <3>4 DEF FirstBlock
    <3>7. LinkIn(g, v, c)
      BY <3>1, <3>5, <3>6 DEF LinkIn
    <3> QED BY <3>2, <3>7
  <2>2. CASE c # b
    <3>1. PICK w, m : w = y.own[c] /\ m = y.pos[c]
      OBVIOUS
    <3>2. w \in BlockLists /\ m \in Int /\ v.own[c] = w /\ v.pos[c] = m
      BY <1>1, <1>5, <2>2, <3>1 DEF BlockMoved
    <3>3. /\ y.lo[w] <= m /\ m <= y.hi[w] /\ y.at[w][m] = c /\ y.lo[w] \in Int /\ y.hi[w] \in Int
          /\ next[c] = IF m = y.hi[w] THEN 0 ELSE y.at[w][m + 1]
      BY <1>1, <3>1, <3>2 DEF Linked, BlockIn, LinkIn
    <3>4. w = x => m # y.lo[x]
      BY <2>2, <3>3
    <3>5. v.lo[w] <= m /\ m <= v.hi[w]
      <4>1. CASE w = x
        BY <1>9, <3>2, <3>3, <3>4, <4>1
      <4>2. CASE w = Unused
        BY <1>3, <1>9, <3>2, <3>3, <4>2
      <4>3. CASE w # x /\ w # Unused
        BY <1>5, <3>2, <3>3, <4>3
      <4> QED BY <4>1, <4>2, <4>3
    <3>6. w = Unused => m # n /\ m + 1 # n
      BY <1>3, <1>9, <3>2, <3>3
    <3>7. m + 1 \in Int
      BY <3>2
    <3>8. v.at[w][m] = c /\ v.at[w][m + 1] = y.at[w][m + 1]
      BY <1>5, <3>2, <3>3, <3>6, <3>7 DEF BlockMoved
    <3>9. BlockIn(v, c)
      BY <3>2, <3>5, <3>8 DEF BlockIn
    <3>10. v.hi[w] = y.hi[w] /\ g[c] = next[c]
      BY <1>5, <1>8, <2>2, <3>2
    <3>11. LinkIn(g, v, c)
      BY <3>2, <3>3, <3>8, <3>10 DEF LinkIn
    <3> QED BY <3>9, <3>11
  <2> QED BY <2>1, <2>2
<1>11. ASSUME NEW w \in BlockLists, NEW m \in Int, v.lo[w] <= m, m <= v.hi[w]
       PROVE  PlaceHas(v, w, m)
  <2>1. CASE w = Unused /\ m = n
    <3>1. v.at[w][m] = b
      BY <1>5, <2>1 DEF BlockMoved
    <3> QED BY <1>2, <1>5, <2>1, <3>1 DEF BlockMoved, PlaceHas
  <2>2. CASE ~(w = Unused /\ m = n)
    <3>1. v.at[w][m] = y.at[w][m]
      BY <1>5, <2>2 DEF BlockMoved
    <3>2. y.lo[w] <= m /\ m <= y.hi[w] /\ y.lo[w] \in Int
      <4>1. CASE w = x
        BY <1>9, <1>11, <4>1
      <4>2. CASE w = Unused
        BY <1>3, <1>9, <1>11, <2>2, <4>2
      <4>3. CASE w # x /\ w # Unused
        BY <1>1, <1>5, <1>11, <4>3
      <4> QED BY <4>1, <4>2, <4>3
    <3>3. PICK c : c = y.at[w][m]
      OBVIOUS
    <3>4. c \in Cblocks /\ y.own[c] = w /\ y.pos[c] = m
      BY <3>2, <3>3 DEF Linked, PlaceHas
    <3>5. c # b
      <4>1. w = x => m # y.lo[x]
        BY <1>9, <1>11
      <4> QED BY <1>2, <3>4, <4>1
    <3>6. v.own[c] = w /\ v.pos[c] = m
      BY <1>5, <3>4, <3>5 DEF BlockMoved
    <3> QED BY <3>1, <3>3, <3>4, <3>6 DEF PlaceHas
  <2> QED BY <2>1, <2>2, Zenon
<1>12. ASSUME NEW w \in BlockLists PROVE v.lo[w] <= v.hi[w] + 1
  <2>1. y.lo[w] \in Int /\ y.hi[w] \in Int /\ y.lo[w] <= y.hi[w] + 1
    BY <1>1 DEF Linked
  <2>2. CASE w = x
    BY <1>9, <2>2
  <2>3. CASE w = Unused
    BY <1>3, <1>9, <2>3
  <2>4. CASE w # x /\ w # Unused
    BY <1>5, <2>1, <2>4
  <2> QED BY <2>2, <2>3, <2>4
<1>13. Linked(g, v)
  BY <1>10, <1>11, <1>12 DEF Linked
<1>14. FirstBlock(v, Unused) = b
  <2>1. n <= y.hi[Unused] /\ v.at[Unused][n] = b
    BY <1>1, <1>3, <1>5, <1>9 DEF BlockMoved
  <2> QED BY <1>9, <2>1 DEF FirstBlock
<1> QED BY <1>2, <1>4, <1>5, <1>6, <1>7, <1>13, <1>14, Zenon

\* The links when b has been linked to the end of x.
LinksTo(next, y, x, b, g) ==
    /\ g \in [Cblocks -> 0..NBLOCK]
    /\ \A c \in Cblocks :
          g[c] = IF c = b THEN 0
                 ELSE IF y.lo[x] <= y.hi[x] /\ c = y.at[x][y.hi[x]] THEN b ELSE next[c]

\* The first free block is linked to the end of a list.
LEMMA GiveLinks ==
    ASSUME NEW y \in Layouts, NEW next \in [Cblocks -> 0..NBLOCK], Linked(next, y),
           NEW x \in BlockLists \ {Unused}, y.lo[Unused] <= y.hi[Unused],
           NEW b, b = y.at[Unused][y.lo[Unused]], NEW g,
           LinksTo(next, y, x, b, g)
    PROVE  /\ b \in Cblocks /\ GivenLast(y, x) \in Layouts
           /\ Linked(g, GivenLast(y, x))
           /\ FirstBlock(GivenLast(y, x), Unused) = next[b]
<1>1. /\ y.own \in [Cblocks -> BlockLists] /\ y.pos \in [Cblocks -> Int]
      /\ y.at \in [BlockLists -> [Int -> 0..NBLOCK]]
      /\ y.lo \in [BlockLists -> Int] /\ y.hi \in [BlockLists -> Int]
      /\ Unused \in BlockLists
  BY LayoutFields, ListsDiffer
<1>2. b \in Cblocks /\ y.own[b] = Unused /\ y.pos[b] = y.lo[Unused]
  BY <1>1 DEF Linked, PlaceHas
<1>3. PICK n : n = y.hi[x] + 1
  OBVIOUS
<1>4. PICK v : v = GivenLast(y, x)
  OBVIOUS
<1>5. /\ v \in Layouts /\ n \in Int /\ BlockMoved(y, v, b, x, n)
      /\ \A w \in BlockLists : v.lo[w] = IF w = Unused THEN y.lo[w] + 1 ELSE y.lo[w]
      /\ \A w \in BlockLists : v.hi[w] = IF w = x THEN n ELSE y.hi[w]
  BY <1>2, <1>3, <1>4, GivenLastMoves
<1>6. y.lo[Unused] \in Int /\ y.hi[Unused] \in Int /\ y.lo[x] \in Int /\ y.hi[x] \in Int
      /\ y.lo[x] <= y.hi[x] + 1 /\ v.lo[Unused] = y.lo[Unused] + 1 /\ v.hi[Unused] = y.hi[Unused]
      /\ v.lo[x] = y.lo[x] /\ v.hi[x] = n
  BY <1>1, <1>5 DEF Linked
<1>7. ASSUME NEW c \in Cblocks PROVE BlockIn(v, c) /\ LinkIn(g, v, c)
  <2>1. CASE c = b
    <3>1. v.own[c] = x /\ v.pos[c] = n /\ v.at[x][n] = b
      BY <1>1, <1>5, <2>1 DEF BlockMoved
    <3>2. BlockIn(v, c)
      BY <1>3, <1>5, <1>6, <2>1, <3>1 DEF BlockIn
    <3>3. g[c] = 0
      BY <2>1 DEF LinksTo
    <3>4. LinkIn(g, v, c)
      BY <1>6, <3>1, <3>3 DEF LinkIn
    <3> QED BY <3>2, <3>4
  <2>2. CASE c # b
    <3>1. PICK w, m : w = y.own[c] /\ m = y.pos[c]
      OBVIOUS
    <3>2. w \in BlockLists /\ m \in Int /\ v.own[c] = w /\ v.pos[c] = m
      BY <1>1, <1>5, <2>2, <3>1 DEF BlockMoved
    <3>3. /\ y.lo[w] <= m /\ m <= y.hi[w] /\ y.at[w][m] = c /\ y.lo[w] \in Int /\ y.hi[w] \in Int
          /\ next[c] = IF m = y.hi[w] THEN 0 ELSE y.at[w][m + 1]
      BY <1>1, <3>1, <3>2 DEF Linked, BlockIn, LinkIn
    <3>4. w = Unused => m # y.lo[Unused]
      BY <2>2, <3>3
    <3>5. v.lo[w] <= m /\ m <= v.hi[w]
      <4>1. CASE w = x
        BY <1>3, <1>6, <3>2, <3>3, <4>1
      <4>2. CASE w = Unused
        BY <1>6, <3>2, <3>3, <3>4, <4>2
      <4>3. CASE w # x /\ w # Unused
        BY <1>5, <3>2, <3>3, <4>3
      <4> QED BY <4>1, <4>2, <4>3
    <3>6. w = x => m # n
      BY <1>3, <1>6, <3>2, <3>3
    <3>7. m + 1 \in Int
      BY <3>2
    <3>8. v.at[w][m] = c
      BY <1>5, <3>2, <3>3, <3>6 DEF BlockMoved
    <3>9. BlockIn(v, c)
      BY <3>2, <3>5, <3>8 DEF BlockIn
    <3>10. g[c] = IF m = v.hi[w] THEN 0 ELSE v.at[w][m + 1]
      <4>1. CASE w = x /\ m = y.hi[x]
        <5>1. y.lo[x] <= y.hi[x] /\ c = y.at[x][y.hi[x]]
          BY <3>3, <4>1
        <5>2. g[c] = b
          BY <2>2, <5>1 DEF LinksTo
        <5>3. m + 1 = n /\ m # n
          BY <1>3, <3>6, <4>1
        <5>4. v.at[x][n] = b
          BY <1>5, <3>2, <4>1 DEF BlockMoved
        <5> QED BY <1>6, <4>1, <5>2, <5>3, <5>4
      <4>2. CASE w = x /\ m # y.hi[x]
        <5>1. y.lo[x] <= y.hi[x] /\ y.pos[y.at[x][y.hi[x]]] = y.hi[x]
          <6>1. y.lo[x] <= y.hi[x] /\ y.hi[x] <= y.hi[x]
            BY <1>6, <3>2, <3>3, <4>2
          <6> QED BY <1>6, <6>1 DEF Linked, PlaceHas
        <5>2. g[c] = next[c]
          BY <2>2, <3>1, <4>2, <5>1 DEF LinksTo
        <5>3. m + 1 # n /\ m # n
          BY <1>3, <1>6, <3>2, <3>6, <4>2
        <5>4. v.at[x][m + 1] = y.at[x][m + 1]
          BY <1>5, <3>2, <3>7, <4>2, <5>3 DEF BlockMoved
        <5> QED BY <1>6, <3>3, <4>2, <5>2, <5>3, <5>4
      <4>3. CASE w # x
        <5>1. y.lo[x] <= y.hi[x] => y.own[y.at[x][y.hi[x]]] = x
          <6>1. y.hi[x] <= y.hi[x]
            BY <1>6
          <6> QED BY <1>6, <6>1 DEF Linked, PlaceHas
        <5>2. g[c] = next[c]
          BY <2>2, <3>1, <4>3, <5>1 DEF LinksTo
        <5>3. v.at[w][m + 1] = y.at[w][m + 1] /\ v.hi[w] = y.hi[w]
          BY <1>5, <3>2, <3>7, <4>3 DEF BlockMoved
        <5> QED BY <3>3, <5>2, <5>3
      <4> QED BY <4>1, <4>2, <4>3
    <3>11. LinkIn(g, v, c)
      BY <3>2, <3>10 DEF LinkIn
    <3> QED BY <3>9, <3>11
  <2> QED BY <2>1, <2>2
<1>8. ASSUME NEW w \in BlockLists, NEW m \in Int, v.lo[w] <= m, m <= v.hi[w]
      PROVE  PlaceHas(v, w, m)
  <2>1. CASE w = x /\ m = n
    <3>1. v.at[w][m] = b
      BY <1>5, <2>1 DEF BlockMoved
    <3> QED BY <1>2, <1>5, <2>1, <3>1 DEF BlockMoved, PlaceHas
  <2>2. CASE ~(w = x /\ m = n)
    <3>1. v.at[w][m] = y.at[w][m]
      BY <1>5, <2>2 DEF BlockMoved
    <3>2. y.lo[w] <= m /\ m <= y.hi[w] /\ y.lo[w] \in Int
      <4>1. CASE w = x
        BY <1>3, <1>6, <1>8, <2>2, <4>1
      <4>2. CASE w = Unused
        BY <1>6, <1>8, <4>2
      <4>3. CASE w # x /\ w # Unused
        BY <1>1, <1>5, <1>8, <4>3
      <4> QED BY <4>1, <4>2, <4>3
    <3>3. PICK c : c = y.at[w][m]
      OBVIOUS
    <3>4. c \in Cblocks /\ y.own[c] = w /\ y.pos[c] = m
      BY <3>2, <3>3 DEF Linked, PlaceHas
    <3>5. c # b
      <4>1. w = Unused => m # y.lo[Unused]
        BY <1>6, <1>8
      <4> QED BY <1>2, <3>4, <4>1
    <3>6. v.own[c] = w /\ v.pos[c] = m
      BY <1>5, <3>4, <3>5 DEF BlockMoved
    <3> QED BY <3>1, <3>3, <3>4, <3>6 DEF PlaceHas
  <2> QED BY <2>1, <2>2, Zenon
<1>9. ASSUME NEW w \in BlockLists PROVE v.lo[w] <= v.hi[w] + 1
  <2>1. y.lo[w] \in Int /\ y.hi[w] \in Int /\ y.lo[w] <= y.hi[w] + 1
    BY <1>1 DEF Linked
  <2>2. CASE w = x
    BY <1>3, <1>6, <2>2
  <2>3. CASE w = Unused
    BY <1>6, <2>3
  <2>4. CASE w # x /\ w # Unused
    BY <1>5, <2>1, <2>4
  <2> QED BY <2>2, <2>3, <2>4, Zenon
<1>10. Linked(g, v)
  BY <1>7, <1>8, <1>9 DEF Linked
<1>11. FirstBlock(v, Unused) = next[b]
  <2>1. PICK l : l = y.lo[Unused]
    OBVIOUS
  <2>2. l \in Int /\ l + 1 \in Int /\ Unused # x
    BY <1>6, <2>1
  <2>3. v.at[Unused][l + 1] = y.at[Unused][l + 1]
    BY <1>1, <1>5, <2>2, Zenon DEF BlockMoved
  <2>4. next[b] = IF l = y.hi[Unused] THEN 0 ELSE y.at[Unused][l + 1]
    BY <1>2, <2>1 DEF Linked, LinkIn
  <2>5. (l + 1 <= y.hi[Unused]) <=> ~(l = y.hi[Unused])
    BY <1>6, <2>1, <2>2
  <2> QED BY <1>6, <2>1, <2>3, <2>4, <2>5 DEF FirstBlock
<1> QED BY <1>2, <1>4, <1>5, <1>10, <1>11

\* The memory m differs from k in the counter and the pointers of q, and in what next,
\* the free list and info are.
Becomes(k, m, q, n, f, l, next, left, info) ==
    m = [cfreelist |-> left, next |-> next, info |-> info, cc |-> [k.cc EXCEPT ![q] = n],
         cf |-> [k.cf EXCEPT ![q] = f], cl |-> [k.cl EXCEPT ![q] = l]]

\* getc takes the last character.
LEMMA GetLast ==
    ASSUME NEW k \in ClistMems, NEW q \in Names, NEW b \in Cblocks, NEW a \in Int,
           k.cf[q] = <<b, a>>, k.cc[q] = 1
    PROVE  Becomes(k, Get(k, q), q, 0, NULL, NULL, [k.next EXCEPT ![b] = k.cfreelist], b,
                   k.info)
<1>1. PICK p : p = Advance(k.cf[q])
  OBVIOUS
<1>2. p = <<b, a + 1>> /\ p[1] = b
  BY <1>1 DEF Advance
<1>3. PICK u : u = [k EXCEPT !.cf[q] = p, !.cc[q] = @ - 1]
  OBVIOUS
<1> DEFINE n == k.cc[q] - 1
<1>a. n = 0
  OBVIOUS
<1> HIDE DEF n
<1>b. u = [cfreelist |-> k.cfreelist, next |-> k.next, info |-> k.info,
           cc |-> [k.cc EXCEPT ![q] = n], cf |-> [k.cf EXCEPT ![q] = p], cl |-> k.cl]
  BY <1>3 DEF ClistMems, n
<1>4. u = [cfreelist |-> k.cfreelist, next |-> k.next, info |-> k.info,
           cc |-> [k.cc EXCEPT ![q] = 0], cf |-> [k.cf EXCEPT ![q] = p], cl |-> k.cl]
  BY <1>a, <1>b
<1>5. /\ k.cc \in [Names -> Nat] /\ k.cf \in [Names -> Int \X Int]
      /\ k.cl \in [Names -> Int \X Int]
  BY ClistFields
<1>6. u.cc[q] = 0
  BY <1>4, <1>5
<1>7. PICK z : z = [u EXCEPT !.cf[q] = NULL, !.cl[q] = NULL]
  OBVIOUS
<1>8. Get(k, q) = FreeBlock(z, b)
  BY <1>1, <1>2, <1>3, <1>6, <1>7 DEF Get
<1>9. z = [cfreelist |-> k.cfreelist, next |-> k.next, info |-> k.info,
           cc |-> [k.cc EXCEPT ![q] = 0], cf |-> [k.cf EXCEPT ![q] = NULL],
           cl |-> [k.cl EXCEPT ![q] = NULL]]
  BY <1>4, <1>5, <1>7
<1>10. FreeBlock(z, b) = [z EXCEPT !.next[b] = z.cfreelist, !.cfreelist = b]
  BY DEF FreeBlock
<1> QED BY <1>8, <1>9, <1>10 DEF Becomes

\* getc takes the last character of a block, not of the list.
LEMMA GetAtEnd ==
    ASSUME NEW k \in ClistMems, NEW q \in Names, NEW b \in Cblocks, NEW a \in Int,
           k.cf[q] = <<b, a>>, k.cc[q] # 1, a + 1 = CBSIZE
    PROVE  Becomes(k, Get(k, q), q, k.cc[q] - 1, <<k.next[b], 0>>, k.cl[q],
                   [k.next EXCEPT ![b] = k.cfreelist], b, k.info)
<1>1. PICK p : p = Advance(k.cf[q])
  OBVIOUS
<1>2. p = <<b, a + 1>> /\ p[1] = b /\ AtEnd(p)
  BY <1>1 DEF Advance, AtEnd
<1>3. PICK u : u = [k EXCEPT !.cf[q] = p, !.cc[q] = @ - 1]
  OBVIOUS
<1>4. /\ k.cc \in [Names -> Nat] /\ k.cf \in [Names -> Int \X Int]
      /\ k.cl \in [Names -> Int \X Int]
  BY ClistFields
<1>5. PICK n : n = k.cc[q] - 1
  OBVIOUS
<1>6. /\ u = [cfreelist |-> k.cfreelist, next |-> k.next, info |-> k.info,
              cc |-> [k.cc EXCEPT ![q] = n], cf |-> [k.cf EXCEPT ![q] = p], cl |-> k.cl]
  BY <1>3, <1>5 DEF ClistMems
<1>7. u.cc[q] # 0
  BY <1>4, <1>5, <1>6
<1>8. PICK z : z = [u EXCEPT !.cf[q] = <<k.next[b], 0>>]
  OBVIOUS
<1>9. Get(k, q) = FreeBlock(z, b)
  BY <1>1, <1>2, <1>3, <1>7, <1>8 DEF Get
<1>10. PICK f : f = <<k.next[b], 0>>
  OBVIOUS
<1>11. z = [cfreelist |-> k.cfreelist, next |-> k.next, info |-> k.info,
            cc |-> [k.cc EXCEPT ![q] = n], cf |-> [k.cf EXCEPT ![q] = f], cl |-> k.cl]
  BY <1>4, <1>6, <1>8, <1>10
<1>12. FreeBlock(z, b) = [z EXCEPT !.next[b] = z.cfreelist, !.cfreelist = b]
  BY DEF FreeBlock
<1>13. k.cl = [k.cl EXCEPT ![q] = k.cl[q]]
  BY <1>4
<1> QED BY <1>5, <1>9, <1>10, <1>11, <1>12, <1>13 DEF Becomes

\* getc takes another character.
LEMMA GetPlain ==
    ASSUME NEW k \in ClistMems, NEW q \in Names, NEW b \in Cblocks, NEW a \in Int,
           k.cf[q] = <<b, a>>, k.cc[q] # 1, a + 1 # CBSIZE
    PROVE  Becomes(k, Get(k, q), q, k.cc[q] - 1, <<b, a + 1>>, k.cl[q], k.next,
                   k.cfreelist, k.info)
<1>1. PICK p : p = Advance(k.cf[q])
  OBVIOUS
<1>2. p = <<b, a + 1>> /\ p[1] = b /\ ~AtEnd(p)
  BY <1>1 DEF Advance, AtEnd
<1>3. PICK u : u = [k EXCEPT !.cf[q] = p, !.cc[q] = @ - 1]
  OBVIOUS
<1>4. /\ k.cc \in [Names -> Nat] /\ k.cf \in [Names -> Int \X Int]
      /\ k.cl \in [Names -> Int \X Int]
  BY ClistFields
<1>5. PICK n : n = k.cc[q] - 1
  OBVIOUS
<1>6. /\ u = [cfreelist |-> k.cfreelist, next |-> k.next, info |-> k.info,
              cc |-> [k.cc EXCEPT ![q] = n], cf |-> [k.cf EXCEPT ![q] = p], cl |-> k.cl]
  BY <1>3, <1>5 DEF ClistMems
<1>7. u.cc[q] # 0
  BY <1>4, <1>5, <1>6
<1>8. Get(k, q) = u
  BY <1>1, <1>2, <1>3, <1>7 DEF Get
<1>9. k.cl = [k.cl EXCEPT ![q] = k.cl[q]]
  BY <1>4
<1> QED BY <1>2, <1>5, <1>6, <1>8, <1>9 DEF Becomes

\* A character is stored where the last one ends.
LEMMA StoreBecomes ==
    ASSUME NEW k \in ClistMems, NEW q \in Names, NEW c, NEW b, NEW e \in Int,
           NEW w, NEW f, NEW p, p = <<b, e>>, NEW l, l = <<b, e + 1>>,
           NEW n, n = k.cc[q] + 1, NEW next, NEW left, NEW info, info = [k.info EXCEPT ![p] = c],
           Becomes(k, w, q, k.cc[q], f, p, next, left, k.info)
    PROVE  Becomes(k, Store(w, q, c), q, n, f, l, next, left, info)
<1>0. /\ k.cc \in [Names -> Nat] /\ k.cf \in [Names -> Int \X Int]
      /\ k.cl \in [Names -> Int \X Int]
  BY ClistFields
<1>1. PICK g : g = [k.cf EXCEPT ![q] = f]
  OBVIOUS
<1>2. PICK d : d = [k.cl EXCEPT ![q] = p]
  OBVIOUS
<1>3. [k.cc EXCEPT ![q] = k.cc[q]] = k.cc
  BY <1>0
<1>4. w = [cfreelist |-> left, next |-> next, info |-> k.info, cc |-> k.cc, cf |-> g, cl |-> d]
  BY <1>1, <1>2, <1>3 DEF Becomes
<1>5. d[q] = p /\ w.cl[q] = p
  BY <1>0, <1>2, <1>4
<1>6. Store(w, q, c) = [w EXCEPT !.info[p] = c, !.cl[q] = l, !.cc[q] = @ + 1]
  BY <1>5 DEF Store, Advance
<1>7. PICK x : x = [w EXCEPT !.info[p] = c]
  OBVIOUS
<1>8. PICK y : y = [x EXCEPT !.cl[q] = l]
  OBVIOUS
<1>9. PICK z : z = [y EXCEPT !.cc[q] = @ + 1]
  OBVIOUS
<1>10. x = [cfreelist |-> left, next |-> next, info |-> info, cc |-> k.cc, cf |-> g, cl |-> d]
  BY <1>4, <1>7
<1>11. PICK h : h = [k.cl EXCEPT ![q] = l]
  OBVIOUS
<1>12. [d EXCEPT ![q] = l] = h
  BY <1>0, <1>2, <1>11
<1>13. y = [cfreelist |-> left, next |-> next, info |-> info, cc |-> k.cc, cf |-> g, cl |-> h]
  BY <1>8, <1>10, <1>12
<1>14. z = [y EXCEPT !.cc[q] = n]
  BY <1>9, <1>13
<1>15. z = [cfreelist |-> left, next |-> next, info |-> info, cc |-> [k.cc EXCEPT ![q] = n],
            cf |-> g, cl |-> h]
  BY <1>13, <1>14
<1>16. [w EXCEPT !.info[p] = c, !.cl[q] = l, !.cc[q] = @ + 1]
         = [[[w EXCEPT !.info[p] = c] EXCEPT !.cl[q] = l] EXCEPT !.cc[q] = @ + 1]
  BY Zenon
<1>17. Store(w, q, c) = z
  BY <1>6, <1>7, <1>8, <1>9, <1>16
<1> QED BY <1>1, <1>11, <1>15, <1>17 DEF Becomes

\* putc without a block.
LEMMA PutNothing ==
    ASSUME NEW k, NEW q, NEW c, Full(k, q)
    PROVE  Put(k, q, c) = k
BY DEF Put

\* putc puts a character in the last block.
LEMMA PutPlain ==
    ASSUME NEW k \in ClistMems, NEW q \in Names, NEW c \in Chars, NEW b \in Cblocks,
           NEW e \in Int, k.cl[q] = <<b, e>>, ~NeedsBlock(k, q)
    PROVE  Becomes(k, Put(k, q, c), q, k.cc[q] + 1, k.cf[q], <<b, e + 1>>, k.next,
                   k.cfreelist, [k.info EXCEPT ![<<b, e>>] = c])
<1>1. Put(k, q, c) = Store(k, q, c)
  BY DEF Put, Full
<1>2. /\ k.cf = [k.cf EXCEPT ![q] = k.cf[q]] /\ k.cl = [k.cl EXCEPT ![q] = k.cl[q]]
      /\ k.cc = [k.cc EXCEPT ![q] = k.cc[q]]
  BY ClistFields
<1>3. k = [cfreelist |-> k.cfreelist, next |-> k.next, info |-> k.info, cc |-> k.cc,
           cf |-> k.cf, cl |-> k.cl]
  BY DEF ClistMems
<1>4. Becomes(k, k, q, k.cc[q], k.cf[q], k.cl[q], k.next, k.cfreelist, k.info)
  BY <1>2, <1>3, Zenon DEF Becomes
<1>5. Becomes(k, Store(k, q, c), q, k.cc[q] + 1, k.cf[q], <<b, e + 1>>, k.next,
              k.cfreelist, [k.info EXCEPT ![<<b, e>>] = c])
  BY <1>4, StoreBecomes
<1> QED BY <1>1, <1>5

\* putc puts a character in a new block, the first of the list.
LEMMA PutFirst ==
    ASSUME NEW k \in ClistMems, NEW q \in Names, NEW c \in Chars, NEW b \in Cblocks,
           k.cfreelist = b, k.cl[q] = NULL
    PROVE  Becomes(k, Put(k, q, c), q, k.cc[q] + 1, <<b, 0>>, <<b, 1>>,
                   [k.next EXCEPT ![b] = 0], k.next[b], [k.info EXCEPT ![<<b, 0>>] = c])
<1>1. PICK p : p = <<b, 0>>
  OBVIOUS
<1>2. PICK z : z = [k EXCEPT !.cfreelist = k.next[b], !.next[b] = 0, !.cl[q] = p]
  OBVIOUS
<1>3. PICK w : w = [z EXCEPT !.cf[q] = p]
  OBVIOUS
<1>4. Extend(k, q) = w
  BY <1>1, <1>2, <1>3 DEF Extend
<1>5. b # 0
  BY DEF Cblocks
<1>6. Put(k, q, c) = Store(w, q, c)
  BY <1>4, <1>5 DEF Put, Full, NeedsBlock
<1>7. /\ k.cc \in [Names -> Nat] /\ k.cf \in [Names -> Int \X Int]
      /\ k.cl \in [Names -> Int \X Int] /\ k.next \in [Cblocks -> 0..NBLOCK]
  BY ClistFields
<1>8. w = [cfreelist |-> k.next[b], next |-> [k.next EXCEPT ![b] = 0], info |-> k.info,
           cc |-> k.cc, cf |-> [k.cf EXCEPT ![q] = p], cl |-> [k.cl EXCEPT ![q] = p]]
  BY <1>2, <1>3 DEF ClistMems
<1>9. k.cc = [k.cc EXCEPT ![q] = k.cc[q]]
  BY <1>7
<1>10. Becomes(k, w, q, k.cc[q], p, p, [k.next EXCEPT ![b] = 0], k.next[b], k.info)
  BY <1>8, <1>9, Zenon DEF Becomes
<1>11. PICK e : e = 0
  OBVIOUS
<1>12. p = <<b, e>> /\ <<b, 1>> = <<b, e + 1>> /\ e \in Int
  BY <1>1, <1>11
<1>13. PICK next, info : next = [k.next EXCEPT ![b] = 0] /\ info = [k.info EXCEPT ![p] = c]
  OBVIOUS
<1>14. Becomes(k, w, q, k.cc[q], p, p, next, k.next[b], k.info)
  BY <1>10, <1>13
<1>15. Becomes(k, Store(w, q, c), q, k.cc[q] + 1, p, <<b, 1>>, next, k.next[b], info)
  BY <1>12, <1>13, <1>14, StoreBecomes
<1> QED BY <1>1, <1>6, <1>13, <1>15

\* putc puts a character in a new block, linked to block d.
LEMMA PutLinked ==
    ASSUME NEW k \in ClistMems, NEW q \in Names, NEW c \in Chars, NEW b \in Cblocks,
           NEW d \in Cblocks, NEW e \in Int, k.cfreelist = b, k.cl[q] = <<d, e>>,
           k.cl[q] # NULL, AtEnd(k.cl[q])
    PROVE  Becomes(k, Put(k, q, c), q, k.cc[q] + 1, k.cf[q], <<b, 1>>,
                   [k.next EXCEPT ![b] = 0, ![d] = b], k.next[b],
                   [k.info EXCEPT ![<<b, 0>>] = c])
<1>1. PICK p : p = <<b, 0>>
  OBVIOUS
<1>2. PICK z : z = [k EXCEPT !.cfreelist = k.next[b], !.next[b] = 0, !.cl[q] = p]
  OBVIOUS
<1>3. PICK w : w = [z EXCEPT !.next[d] = b]
  OBVIOUS
<1>4. Extend(k, q) = w
  <2>1. k.cl[q][1] = d
    OBVIOUS
  <2> QED BY <1>1, <1>2, <1>3, <2>1 DEF Extend
<1>5. b # 0
  BY DEF Cblocks
<1>6. Put(k, q, c) = Store(w, q, c)
  BY <1>4, <1>5 DEF Put, Full, NeedsBlock
<1>7. /\ k.cc \in [Names -> Nat] /\ k.cf \in [Names -> Int \X Int]
      /\ k.cl \in [Names -> Int \X Int] /\ k.next \in [Cblocks -> 0..NBLOCK]
  BY ClistFields
<1>8. PICK next : next = [k.next EXCEPT ![b] = 0, ![d] = b]
  OBVIOUS
<1>9. w = [cfreelist |-> k.next[b], next |-> next, info |-> k.info,
           cc |-> k.cc, cf |-> k.cf, cl |-> [k.cl EXCEPT ![q] = p]]
  BY <1>2, <1>3, <1>8 DEF ClistMems
<1>10. k.cc = [k.cc EXCEPT ![q] = k.cc[q]] /\ k.cf = [k.cf EXCEPT ![q] = k.cf[q]]
  BY <1>7
<1>11. Becomes(k, w, q, k.cc[q], k.cf[q], p, next, k.next[b], k.info)
  BY <1>9, <1>10, Zenon DEF Becomes
<1>12. PICK o : o = 0
  OBVIOUS
<1>13. p = <<b, o>> /\ <<b, 1>> = <<b, o + 1>> /\ o \in Int
  BY <1>1, <1>12
<1>14. PICK info : info = [k.info EXCEPT ![p] = c]
  OBVIOUS
<1>15. Becomes(k, Store(w, q, c), q, k.cc[q] + 1, k.cf[q], <<b, 1>>, next, k.next[b], info)
  BY <1>11, <1>13, <1>14, StoreBecomes, ZenonT(60)
<1> QED BY <1>1, <1>6, <1>8, <1>14, <1>15

----------------------------------------------------------------------------
(* Character lists: the characters *)

\* The place with number n of a list: its blocks' places are numbered on from one to the next.
Cell(y, x, n) == <<y.at[x][n \div CBSIZE], n % CBSIZE>>

\* The number of the place of the first character of q, and the characters.
CharStart(k, y, q) == y.lo[ListOf(q)] * CBSIZE + k.cf[q][2]

TextIn(k, y, q) ==
    [i \in 1..k.cc[q] |-> k.info[Cell(y, ListOf(q), CharStart(k, y, q) + i - 1)]]

\* The numbers of the first places of blocks.
LEMMA BlockNumbers ==
    ASSUME NEW p \in Int, NEW q \in Int
    PROVE  /\ p * CBSIZE \in Int /\ (p + 1) * CBSIZE = p * CBSIZE + CBSIZE
           /\ (p - q) * CBSIZE = p * CBSIZE - q * CBSIZE
           /\ p <= q => p * CBSIZE <= q * CBSIZE
<1>1. CBSIZE \in Nat \ {0}
  BY ClistAssumption
<1> QED BY <1>1

\* A place with number j * CBSIZE + o is the one at o of block j.
LEMMA CellIs ==
    ASSUME NEW y, NEW x, NEW j \in Int, NEW o \in 0..CBSIZE - 1, NEW n, n = j * CBSIZE + o
    PROVE  Cell(y, x, n) = <<y.at[x][j], o>>
<1>1. CBSIZE \in Nat \ {0}
  BY ClistAssumption
<1>2. (j * CBSIZE + o) \div CBSIZE = j /\ (j * CBSIZE + o) % CBSIZE = o
  BY <1>1
<1> QED BY <1>2, Zenon DEF Cell

\* The places of the characters are in the blocks of the list.
LEMMA CellInBlock ==
    ASSUME NEW l \in Int, NEW h \in Int, NEW a \in 0..CBSIZE - 1, NEW e \in 1..CBSIZE,
           NEW n \in Int, l * CBSIZE + a <= n, n < h * CBSIZE + e
    PROVE  \E j \in l..h, o \in 0..CBSIZE - 1 : n = j * CBSIZE + o
<1>1. CBSIZE \in Nat \ {0}
  BY ClistAssumption
<1>2. PICK j \in Int, o \in 0..CBSIZE - 1 : n = j * CBSIZE + o
  BY <1>1, Division
<1>3. PICK L, H, J : L = l * CBSIZE /\ H = h * CBSIZE /\ J = j * CBSIZE
  OBVIOUS
<1>4. L \in Int /\ H \in Int /\ J \in Int
  BY <1>3, BlockNumbers
<1>5. l <= j
  <2>1. SUFFICES ASSUME j + 1 <= l PROVE FALSE
    OBVIOUS
  <2>2. J + CBSIZE <= L
    <3>1. j + 1 \in Int
      OBVIOUS
    <3>2. (j + 1) * CBSIZE = J + CBSIZE
      BY <1>3, BlockNumbers
    <3>3. (j + 1) * CBSIZE <= l * CBSIZE
      BY <2>1, <3>1, BlockNumbers
    <3> QED BY <1>3, <3>2, <3>3
  <2>3. L + a <= n /\ n = J + o
    BY <1>2, <1>3
  <2> QED BY <1>1, <1>2, <1>4, <2>2, <2>3
<1>6. j <= h
  <2>1. SUFFICES ASSUME h + 1 <= j PROVE FALSE
    OBVIOUS
  <2>2. H + CBSIZE <= J
    <3>1. h + 1 \in Int
      OBVIOUS
    <3>2. (h + 1) * CBSIZE = H + CBSIZE
      BY <1>3, BlockNumbers
    <3>3. (h + 1) * CBSIZE <= j * CBSIZE
      BY <2>1, <3>1, BlockNumbers
    <3> QED BY <1>3, <3>2, <3>3
  <2>3. n < H + e /\ n = J + o
    BY <1>2, <1>3
  <2> QED BY <1>1, <1>2, <1>4, <2>2, <2>3
<1> QED BY <1>2, <1>5, <1>6

\* Where the characters of a queue that has some are.
LEMMA CharCells ==
    ASSUME NEW k \in ClistMems, NEW y \in Layouts, Linked(k.next, y), NEW q \in Names,
           NEW x, x = ListOf(q), QueueLaid(k, y, q), NEW i \in 1..k.cc[q],
           NEW n, n = CharStart(k, y, q) + i - 1
    PROVE  \E j \in Int, o \in 0..CBSIZE - 1 :
              /\ n = j * CBSIZE + o /\ y.lo[x] <= j /\ j <= y.hi[x]
              /\ Cell(y, x, n) = <<y.at[x][j], o>> /\ PlaceHas(y, x, j)
<1>1. x \in BlockLists /\ y.lo[x] \in Int /\ y.hi[x] \in Int /\ k.cc[q] \in Nat
  BY ListsDiffer, LayoutFields, ClistFields
<1>2. k.cc[q] # 0
  BY <1>1
<1>3. y.lo[x] <= y.hi[x] /\ HasChars(k, y, q)
  BY <1>2 DEF QueueLaid
<1>4. PICK a \in 0..CBSIZE - 1, e \in 1..CBSIZE :
        /\ k.cf[q] = <<y.at[x][y.lo[x]], a>>
        /\ k.cc[q] = (y.hi[x] - y.lo[x]) * CBSIZE + e - a
  BY <1>3 DEF HasChars
<1>5. k.cf[q][2] = a
  BY <1>4
<1>6. PICK L, H : L = y.lo[x] * CBSIZE /\ H = y.hi[x] * CBSIZE
  OBVIOUS
<1>7. L \in Int /\ H \in Int /\ (y.hi[x] - y.lo[x]) * CBSIZE = H - L
  BY <1>1, <1>6, BlockNumbers
<1>8. a \in Int /\ e \in Int /\ i \in Int /\ 1 <= i /\ i <= k.cc[q] /\ CBSIZE \in Nat
  BY <1>1, ClistAssumption
<1>9. n = L + a + i - 1 /\ k.cc[q] = H - L + e - a
  BY <1>4, <1>5, <1>6, <1>7 DEF CharStart
<1>10. n \in Int /\ L + a <= n /\ n < H + e
  BY <1>1, <1>7, <1>8, <1>9
<1>11. PICK j \in y.lo[x]..y.hi[x], o \in 0..CBSIZE - 1 : n = j * CBSIZE + o
  <2>1. PICK l, h : l = y.lo[x] /\ h = y.hi[x]
    OBVIOUS
  <2>2. l * CBSIZE + a <= n /\ n < h * CBSIZE + e /\ l \in Int /\ h \in Int
    BY <1>1, <1>6, <1>10, <2>1
  <2>3. \E j \in l..h, o \in 0..CBSIZE - 1 : n = j * CBSIZE + o
    BY <1>10, <2>2, CellInBlock
  <2> QED BY <2>1, <2>3
<1>12. j \in Int /\ y.lo[x] <= j /\ j <= y.hi[x]
  BY <1>1
<1>13. Cell(y, x, n) = <<y.at[x][j], o>>
  BY <1>11, <1>12, CellIs
<1>14. PlaceHas(y, x, j)
  BY <1>1, <1>12 DEF Linked
<1> QED BY <1>11, <1>12, <1>13, <1>14

\* Values that the memory can have.
Storable(n, f, l, next, left, info) ==
    /\ n \in Nat /\ f \in Int \X Int /\ l \in Int \X Int
    /\ next \in [Cblocks -> 0..NBLOCK] /\ left \in 0..NBLOCK
    /\ info \in [Cblocks \X (0..CBSIZE - 1) -> AllChars]

\* The fields of the memory that a call leaves.
LEMMA BecomesFields ==
    ASSUME NEW k \in ClistMems, NEW q \in Names, NEW n, NEW f, NEW l, NEW next, NEW left,
           NEW info, Storable(n, f, l, next, left, info), NEW m,
           Becomes(k, m, q, n, f, l, next, left, info)
    PROVE  /\ m \in ClistMems /\ m.next = next /\ m.cfreelist = left /\ m.info = info
           /\ m.cc[q] = n /\ m.cf[q] = f /\ m.cl[q] = l
           /\ \A r \in Names \ {q} :
                m.cc[r] = k.cc[r] /\ m.cf[r] = k.cf[r] /\ m.cl[r] = k.cl[r]
<1>1. /\ k.cc \in [Names -> Nat] /\ k.cf \in [Names -> Int \X Int]
      /\ k.cl \in [Names -> Int \X Int]
  BY ClistFields
<1>2. PICK d, g, h : d = [k.cc EXCEPT ![q] = n] /\ g = [k.cf EXCEPT ![q] = f]
                     /\ h = [k.cl EXCEPT ![q] = l]
  OBVIOUS
<1>3. m = [cfreelist |-> left, next |-> next, info |-> info, cc |-> d, cf |-> g, cl |-> h]
  BY <1>2 DEF Becomes
<1>4. d \in [Names -> Nat] /\ g \in [Names -> Int \X Int] /\ h \in [Names -> Int \X Int]
  BY <1>1, <1>2 DEF Storable
<1>5. m \in ClistMems
  BY <1>3, <1>4 DEF ClistMems, Storable
<1>6. /\ d[q] = n /\ g[q] = f /\ h[q] = l
      /\ \A r \in Names \ {q} : d[r] = k.cc[r] /\ g[r] = k.cf[r] /\ h[r] = k.cl[r]
  BY <1>1, <1>2
<1> QED BY <1>3, <1>5, <1>6

\* The list of a queue that a call does not touch.
SameList(k, y, m, v, r) ==
    /\ m.cc[r] = k.cc[r] /\ m.cf[r] = k.cf[r] /\ m.cl[r] = k.cl[r]
    /\ v.lo[ListOf(r)] = y.lo[ListOf(r)] /\ v.hi[ListOf(r)] = y.hi[ListOf(r)]
    /\ \A n \in Int : v.at[ListOf(r)][n] = y.at[ListOf(r)][n]
    /\ \A b \in Cblocks, o \in 0..CBSIZE - 1 :
          y.own[b] = ListOf(r) => m.info[<<b, o>>] = k.info[<<b, o>>]

\* It has the characters it had.
LEMMA SameListKeeps ==
    ASSUME NEW k \in ClistMems, NEW y \in Layouts, Linked(k.next, y), NEW r \in Names,
           QueueLaid(k, y, r), NEW m, NEW v, SameList(k, y, m, v, r)
    PROVE  QueueLaid(m, v, r) /\ TextIn(m, v, r) = TextIn(k, y, r)
<1>1. PICK x : x = ListOf(r)
  OBVIOUS
<1>2. x \in BlockLists /\ y.lo[x] \in Int /\ y.hi[x] \in Int
  BY <1>1, ListsDiffer, LayoutFields
<1>3. /\ m.cc[r] = k.cc[r] /\ m.cf[r] = k.cf[r] /\ m.cl[r] = k.cl[r]
      /\ v.lo[x] = y.lo[x] /\ v.hi[x] = y.hi[x]
      /\ \A n \in Int : v.at[x][n] = y.at[x][n]
      /\ \A b \in Cblocks, o \in 0..CBSIZE - 1 :
            y.own[b] = x => m.info[<<b, o>>] = k.info[<<b, o>>]
  BY <1>1 DEF SameList
<1>4. QueueLaid(m, v, r)
  <2>1. v.at[x][v.lo[x]] = y.at[x][y.lo[x]] /\ v.at[x][v.hi[x]] = y.at[x][y.hi[x]]
    BY <1>2, <1>3
  <2>2. HasChars(k, y, r) => HasChars(m, v, r)
    BY <1>1, <1>3, <2>1 DEF HasChars
  <2> QED BY <1>1, <1>3, <2>2 DEF QueueLaid
<1>5. CharStart(m, v, r) = CharStart(k, y, r)
  BY <1>1, <1>3 DEF CharStart
<1>6. PICK s : s = CharStart(k, y, r)
  OBVIOUS
<1>7. ASSUME NEW i \in 1..k.cc[r]
      PROVE  m.info[Cell(v, x, s + i - 1)] = k.info[Cell(y, x, s + i - 1)]
  <2>1. PICK n : n = s + i - 1
    OBVIOUS
  <2>2. PICK j \in Int, o \in 0..CBSIZE - 1 :
          /\ n = j * CBSIZE + o /\ Cell(y, x, n) = <<y.at[x][j], o>> /\ PlaceHas(y, x, j)
    BY <1>1, <1>6, <2>1, CharCells
  <2>3. Cell(v, x, n) = <<y.at[x][j], o>>
    BY <1>3, <2>2, CellIs
  <2>4. m.info[<<y.at[x][j], o>>] = k.info[<<y.at[x][j], o>>]
    BY <1>3, <2>2 DEF PlaceHas
  <2> QED BY <2>1, <2>2, <2>3, <2>4
<1>8. TextIn(m, v, r) = TextIn(k, y, r)
  BY <1>1, <1>3, <1>5, <1>6, <1>7 DEF TextIn
<1> QED BY <1>4, <1>8

----------------------------------------------------------------------------
(* Character lists: getc *)

\* The other queues have the characters they had.
OthersKept(k, y, m, v, q) == \A r \in Names \ {q} : TextIn(m, v, r) = TextIn(k, y, r)

\* q has lost its first character.
Dropped(k, y, m, v, q) ==
    /\ OthersKept(k, y, m, v, q)
    /\ m.cc[q] + 1 = k.cc[q]
    /\ \A i \in 1..m.cc[q] : TextIn(m, v, q)[i] = TextIn(k, y, q)[i + 1]

\* What is known of a queue with characters.
LEMMA WithChars ==
    ASSUME NEW k \in ClistMems, NEW y \in Layouts, Linked(k.next, y), NEW q \in Names,
           NEW x, x = ListOf(q), QueueLaid(k, y, q), y.lo[x] <= y.hi[x]
    PROVE  \E a \in 0..CBSIZE - 1, e \in 1..CBSIZE, b, d \in Cblocks, L, H \in Int :
              /\ k.cf[q] = <<b, a>> /\ k.cl[q] = <<d, e>>
              /\ b = y.at[x][y.lo[x]] /\ d = y.at[x][y.hi[x]]
              /\ L = y.lo[x] * CBSIZE /\ H = y.hi[x] * CBSIZE
              /\ k.cc[q] = H - L + e - a /\ k.cc[q] > 0
<1>1. x \in BlockLists /\ y.lo[x] \in Int /\ y.hi[x] \in Int
  BY ListsDiffer, LayoutFields
<1>2. HasChars(k, y, q)
  BY DEF QueueLaid
<1>3. PICK a \in 0..CBSIZE - 1, e \in 1..CBSIZE :
        /\ k.cf[q] = <<y.at[x][y.lo[x]], a>> /\ k.cl[q] = <<y.at[x][y.hi[x]], e>>
        /\ k.cc[q] = (y.hi[x] - y.lo[x]) * CBSIZE + e - a
  BY <1>2 DEF HasChars
<1>4. k.cc[q] > 0
  BY <1>2 DEF HasChars
<1>5. PICK L, H : L = y.lo[x] * CBSIZE /\ H = y.hi[x] * CBSIZE
  OBVIOUS
<1>6. L \in Int /\ H \in Int /\ (y.hi[x] - y.lo[x]) * CBSIZE = H - L
  BY <1>1, <1>5, BlockNumbers
<1>7. PICK b, d : b = y.at[x][y.lo[x]] /\ d = y.at[x][y.hi[x]]
  OBVIOUS
<1>8. b \in Cblocks /\ d \in Cblocks
  <2>1. y.lo[x] <= y.lo[x] /\ y.hi[x] <= y.hi[x]
    BY <1>1
  <2> QED BY <1>1, <1>7, <2>1 DEF Linked, PlaceHas
<1>9. k.cc[q] = H - L + e - a
  BY <1>3, <1>6
<1> QED BY <1>3, <1>4, <1>5, <1>6, <1>7, <1>8, <1>9

\* A queue's first block is freed.
LEMMA FreedLays ==
    ASSUME NEW k, NEW y, Laid(k, y), NEW q \in Names, NEW x, x = ListOf(q),
           y.lo[x] <= y.hi[x], NEW b, b = y.at[x][y.lo[x]], NEW v, v = FreedFirst(y, x),
           NEW n \in Nat, NEW f \in Int \X Int, NEW l \in Int \X Int, NEW m,
           Becomes(k, m, q, n, f, l, [k.next EXCEPT ![b] = k.cfreelist], b, k.info),
           QueueLaid(m, v, q)
    PROVE  Laid(m, v) /\ OthersKept(k, y, m, v, q)
<1>1. /\ k \in ClistMems /\ y \in Layouts /\ Linked(k.next, y)
      /\ k.cfreelist = FirstBlock(y, Unused)
      /\ \A r \in Names : QueueLaid(k, y, r)
  BY DEF Laid
<1>2. x \in BlockLists \ {Unused}
  BY ListsDiffer
<1>3. PICK h : h = FirstBlock(y, Unused)
  OBVIOUS
<1>4. PICK next : next = [k.next EXCEPT ![b] = h]
  OBVIOUS
<1>5. /\ b \in Cblocks /\ v \in Layouts /\ Linked(next, v) /\ FirstBlock(v, Unused) = b
  <2>1. k.next \in [Cblocks -> 0..NBLOCK]
    BY <1>1, ClistFields
  <2>2. Linked([k.next EXCEPT ![b] = FirstBlock(y, Unused)], v)
    BY <1>1, <1>2, <2>1, FreeLinks
  <2>3. b \in Cblocks /\ v \in Layouts /\ FirstBlock(v, Unused) = b
    BY <1>1, <1>2, <2>1, FreeLinks
  <2> QED BY <1>3, <1>4, <2>2, <2>3, Zenon
<1>6. /\ k.cfreelist \in 0..NBLOCK /\ k.next \in [Cblocks -> 0..NBLOCK]
      /\ k.info \in [Cblocks \X (0..CBSIZE - 1) -> AllChars]
  BY <1>1, ClistFields
<1>7. next \in [Cblocks -> 0..NBLOCK] /\ b \in 0..NBLOCK
  <2>1. b \in 0..NBLOCK
    BY <1>5, ClistAssumption DEF Cblocks
  <2> QED BY <1>1, <1>3, <1>4, <1>6, <2>1
<1>8. Becomes(k, m, q, n, f, l, next, b, k.info)
  BY <1>1, <1>3, <1>4
<1>9. /\ m \in ClistMems /\ m.next = next /\ m.cfreelist = b /\ m.info = k.info
      /\ \A r \in Names \ {q} :
            m.cc[r] = k.cc[r] /\ m.cf[r] = k.cf[r] /\ m.cl[r] = k.cl[r]
  <2>1. Storable(n, f, l, next, b, k.info)
    BY <1>6, <1>7 DEF Storable
  <2> QED BY <1>1, <1>8, <2>1, BecomesFields
<1>10. ASSUME NEW r \in Names \ {q}
       PROVE  QueueLaid(m, v, r) /\ TextIn(m, v, r) = TextIn(k, y, r)
  <2>1. PICK z : z = ListOf(r)
    OBVIOUS
  <2>2. z \in BlockLists /\ z # x /\ z # Unused
    BY <2>1, ListsDiffer
  <2>3. PICK j : j = y.lo[Unused] - 1
    OBVIOUS
  <2>4. /\ BlockMoved(y, v, b, Unused, j)
        /\ v.lo[z] = y.lo[z] /\ v.hi[z] = y.hi[z]
    BY <1>1, <1>2, <1>5, <2>2, <2>3, FreedFirstMoves
  <2>5. \A i \in Int : v.at[z][i] = y.at[z][i]
    BY <2>2, <2>4 DEF BlockMoved
  <2>6. SameList(k, y, m, v, r)
    BY <1>9, <2>1, <2>4, <2>5 DEF SameList
  <2> QED BY <1>1, <2>6, SameListKeeps
<1>11. Laid(m, v)
  BY <1>5, <1>9, <1>10 DEF Laid
<1> QED BY <1>10, <1>11 DEF OthersKept

\* getc takes the first character of a queue.
LEMMA GetKeeps ==
    ASSUME NEW k, NEW y, Laid(k, y), NEW q \in Names, k.cc[q] # 0, NEW m, m = Get(k, q)
    PROVE  \E v : Laid(m, v) /\ Dropped(k, y, m, v, q)
<1>1. /\ k \in ClistMems /\ y \in Layouts /\ Linked(k.next, y)
      /\ k.cfreelist = FirstBlock(y, Unused)
      /\ \A r \in Names : QueueLaid(k, y, r)
  BY DEF Laid
<1>2. PICK x : x = ListOf(q)
  OBVIOUS
<1>3. /\ x \in BlockLists \ {Unused} /\ y.lo[x] \in Int /\ y.hi[x] \in Int /\ k.cc[q] \in Nat
      /\ CBSIZE \in Nat \ {0}
  BY <1>1, <1>2, ListsDiffer, LayoutFields, ClistFields, ClistAssumption
<1>4. y.lo[x] <= y.hi[x]
  BY <1>1, <1>2 DEF QueueLaid
<1>5. PICK a \in 0..CBSIZE - 1, e \in 1..CBSIZE, b, d \in Cblocks, L, H \in Int :
        /\ k.cf[q] = <<b, a>> /\ k.cl[q] = <<d, e>>
        /\ b = y.at[x][y.lo[x]] /\ d = y.at[x][y.hi[x]]
        /\ L = y.lo[x] * CBSIZE /\ H = y.hi[x] * CBSIZE
        /\ k.cc[q] = H - L + e - a /\ k.cc[q] > 0
  BY <1>1, <1>2, <1>4, WithChars
<1>6. a \in Int /\ e \in Int /\ a <= CBSIZE - 1 /\ 0 <= a /\ 1 <= e /\ e <= CBSIZE
  BY <1>3
<1>7. y.lo[x] < y.hi[x] => L + CBSIZE <= H
  <2>1. SUFFICES ASSUME y.lo[x] + 1 <= y.hi[x] PROVE L + CBSIZE <= H
    BY <1>3
  <2>2. y.lo[x] + 1 \in Int
    BY <1>3
  <2>3. (y.lo[x] + 1) * CBSIZE <= y.hi[x] * CBSIZE
    BY <1>3, <2>1, <2>2, BlockNumbers
  <2>4. (y.lo[x] + 1) * CBSIZE = y.lo[x] * CBSIZE + CBSIZE
    BY <1>3, BlockNumbers
  <2> QED BY <1>5, <2>3, <2>4
<1>8. y.lo[x] = y.hi[x] => L = H
  BY <1>5
<1>15. PICK Y, Z, K : Y = y.lo[x] /\ Z = y.hi[x] /\ K = k.cc[q]
  OBVIOUS
<1>0. Y \in Int /\ Z \in Int /\ K \in Nat /\ K = H - L + e - a /\ K > 0 /\ Y <= Z
      /\ CBSIZE \in Nat \ {0} /\ L \in Int /\ H \in Int
      /\ (Y < Z => L + CBSIZE <= H) /\ (Y = Z => L = H)
  BY <1>3, <1>4, <1>5, <1>7, <1>8, <1>15
<1>9. PICK v : v = FreedFirst(y, x)
  OBVIOUS
<1>10. /\ v.lo[x] = y.lo[x] + 1 /\ v.hi[x] = y.hi[x]
       /\ \A n \in Int : v.at[x][n] = y.at[x][n]
  <2>1. PICK j : j = y.lo[Unused] - 1
    OBVIOUS
  <2>2. /\ BlockMoved(y, v, b, Unused, j)
        /\ v.lo[x] = y.lo[x] + 1 /\ v.hi[x] = y.hi[x]
    BY <1>1, <1>3, <1>5, <1>9, <2>1, FreedFirstMoves
  <2> QED BY <1>3, <2>2 DEF BlockMoved
<1>11. /\ k.info \in [Cblocks \X (0..CBSIZE - 1) -> AllChars] /\ k.cfreelist \in 0..NBLOCK
       /\ k.next \in [Cblocks -> 0..NBLOCK] /\ b \in 0..NBLOCK
  <2>1. b \in 0..NBLOCK
    BY ClistAssumption DEF Cblocks
  <2> QED BY <1>1, <2>1, ClistFields
<1>12. CASE k.cc[q] = 1
  <2>1. y.lo[x] = y.hi[x]
    <3>1. ~(Y < Z)
      <4>1. K = 1
        BY <1>12, <1>15
      <4>2. a \in Int /\ e \in Int /\ a <= CBSIZE - 1 /\ 1 <= e
        BY <1>0
      <4>3. ~(L + CBSIZE <= H)
        BY <1>0, <4>1, <4>2
      <4> QED BY <1>0, <4>3
    <3>2. Y = Z
      BY <1>0, <3>1
    <3> QED BY <1>15, <3>2, Zenon
  <2>2. Becomes(k, m, q, 0, NULL, NULL, [k.next EXCEPT ![b] = k.cfreelist], b, k.info)
    BY <1>1, <1>5, <1>6, <1>12, GetLast
  <2>3. m.cc[q] = 0 /\ m.cf[q] = NULL /\ m.cl[q] = NULL
    BY <1>1, <2>2, ClistFields DEF Becomes
  <2>4. QueueLaid(m, v, q)
    BY <1>2, <1>3, <1>10, <2>1, <2>3 DEF QueueLaid
  <2>5. NULL \in Int \X Int /\ 0 \in Nat
    BY DEF NULL
  <2>6. PICK o : o = 0
    OBVIOUS
  <2>7. Becomes(k, m, q, o, NULL, NULL, [k.next EXCEPT ![b] = k.cfreelist], b, k.info)
        /\ o \in Nat
    BY <2>2, <2>6
  <2>8. Laid(m, v) /\ OthersKept(k, y, m, v, q)
    BY <1>2, <1>4, <1>5, <1>9, <2>4, <2>5, <2>7, FreedLays
  <2> QED BY <1>12, <2>3, <2>8 DEF Dropped
<1>13. CASE k.cc[q] # 1 /\ a + 1 = CBSIZE
  <2>1. y.lo[x] < y.hi[x]
    <3>1. CASE y.lo[x] = y.hi[x]
      <4>1. L = H /\ a = CBSIZE - 1
        BY <1>6, <1>13, <1>0, <1>15, <3>1
      <4>2. K = e - a
        BY <1>6, <1>0, <4>1
      <4> QED BY <1>6, <1>13, <1>0, <1>15, <4>1, <4>2
    <3> QED BY <1>3, <1>4, <3>1
  <2>2. PICK n, f : n = k.cc[q] - 1 /\ f = <<k.next[b], 0>>
    OBVIOUS
  <2>3. Becomes(k, m, q, n, f, k.cl[q], [k.next EXCEPT ![b] = k.cfreelist], b, k.info)
    BY <1>1, <1>5, <1>6, <1>13, <2>2, GetAtEnd
  <2>4. k.next[b] = y.at[x][y.lo[x] + 1] /\ f = <<y.at[x][y.lo[x] + 1], 0>>
    <3>1. y.own[b] = x /\ y.pos[b] = y.lo[x]
      <4>1. y.lo[x] <= y.lo[x]
        BY <1>3
      <4> QED BY <1>1, <1>3, <1>4, <1>5, <4>1 DEF Linked, PlaceHas
    <3>2. y.lo[x] # y.hi[x]
      BY <1>3, <2>1
    <3> QED BY <1>1, <2>2, <3>1, <3>2 DEF Linked, LinkIn
  <2>5. n \in Nat /\ n > 0
    BY <1>3, <1>5, <1>13, <2>2
  <2>6. f \in Int \X Int /\ k.cl[q] \in Int \X Int
    BY <1>1, <1>11, <2>2, ClistFields
  <2>7. m.cc[q] = n /\ m.cf[q] = f /\ m.cl[q] = <<d, e>> /\ m.info = k.info
    BY <1>1, <1>5, <2>3, ClistFields DEF Becomes
  <2>8. PICK l, h : l = v.lo[x] /\ h = v.hi[x]
    OBVIOUS
  <2>9. l \in Int /\ h \in Int /\ l = y.lo[x] + 1 /\ h = y.hi[x] /\ l <= h
    BY <1>3, <1>10, <2>1, <2>8
  <2>10. l * CBSIZE = L + CBSIZE /\ (h - l) * CBSIZE = H - (L + CBSIZE)
    <3>1. l * CBSIZE = L + CBSIZE
      BY <1>3, <1>5, <2>9, BlockNumbers
    <3>2. h * CBSIZE = H
      BY <1>5, <2>9
    <3>3. (h - l) * CBSIZE = h * CBSIZE - l * CBSIZE
      BY <2>9, BlockNumbers
    <3> QED BY <3>1, <3>2, <3>3
  <2>11. n = (h - l) * CBSIZE + e - 0
    <3>1. n = H - (L + CBSIZE) + e - 0
      <4>1. n = K - 1 /\ a = CBSIZE - 1
        BY <1>6, <1>13, <1>0, <1>15, <2>2
      <4> QED BY <1>6, <1>0, <4>1
    <3> QED BY <2>10, <3>1
  <2>12. HasChars(m, v, q)
    <3>1. f = <<v.at[x][l], 0>>
      BY <1>10, <2>4, <2>9
    <3>2. d = v.at[x][h]
      BY <1>5, <1>10, <2>9
    <3>3. 0 \in 0..CBSIZE - 1
      BY <1>3
    <3> QED BY <1>2, <2>5, <2>7, <2>8, <2>11, <3>1, <3>2, <3>3 DEF HasChars
  <2>13. QueueLaid(m, v, q)
    BY <1>2, <2>8, <2>9, <2>12 DEF QueueLaid
  <2>14. Laid(m, v) /\ OthersKept(k, y, m, v, q)
    <3>1. PICK c : c = k.cl[q]
      OBVIOUS
    <3>2. Becomes(k, m, q, n, f, c, [k.next EXCEPT ![b] = k.cfreelist], b, k.info)
          /\ c \in Int \X Int
      BY <2>3, <2>6, <3>1
    <3> QED BY <1>2, <1>4, <1>5, <1>9, <2>5, <2>6, <2>13, <3>2, FreedLays
  <2>15. CharStart(m, v, q) = CharStart(k, y, q) + 1 /\ CharStart(k, y, q) \in Int
    <3>1. CharStart(m, v, q) = L + CBSIZE + 0
      BY <1>2, <2>2, <2>7, <2>8, <2>10 DEF CharStart
    <3>2. CharStart(k, y, q) = L + a
      BY <1>2, <1>5 DEF CharStart
    <3> QED BY <1>3, <1>6, <1>13, <3>1, <3>2
  <2>16. ASSUME NEW i \in 1..m.cc[q] PROVE TextIn(m, v, q)[i] = TextIn(k, y, q)[i + 1]
    <3>1. PICK s, j : s = CharStart(k, y, q) + (i + 1) - 1 /\ j = s \div CBSIZE
      OBVIOUS
    <3>2. s = CharStart(m, v, q) + i - 1 /\ s \in Int /\ i + 1 \in 1..k.cc[q] /\ j \in Int
      BY <1>3, <2>2, <2>5, <2>7, <2>15, <3>1
    <3>3. Cell(v, x, s) = Cell(y, x, s)
      BY <1>10, <3>1, <3>2, Zenon DEF Cell
    <3>4. TextIn(m, v, q)[i] = m.info[Cell(v, x, s)]
      BY <1>2, <3>2 DEF TextIn
    <3>5. TextIn(k, y, q)[i + 1] = k.info[Cell(y, x, s)]
      BY <1>2, <3>1, <3>2 DEF TextIn
    <3> QED BY <2>7, <3>3, <3>4, <3>5
  <2>17. m.cc[q] + 1 = k.cc[q]
    BY <1>3, <2>2, <2>7
  <2> QED BY <2>14, <2>16, <2>17 DEF Dropped
<1>14. CASE k.cc[q] # 1 /\ a + 1 # CBSIZE
  <2>1. PICK n, f : n = k.cc[q] - 1 /\ f = <<b, a + 1>>
    OBVIOUS
  <2>2. Becomes(k, m, q, n, f, k.cl[q], k.next, k.cfreelist, k.info)
    BY <1>1, <1>5, <1>6, <1>14, <2>1, GetPlain
  <2>3. n \in Nat /\ n > 0 /\ f \in Int \X Int /\ k.cl[q] \in Int \X Int
    BY <1>1, <1>3, <1>5, <1>6, <1>11, <1>14, <2>1, ClistFields
  <2>4. /\ m \in ClistMems /\ m.next = k.next /\ m.cfreelist = k.cfreelist /\ m.info = k.info
        /\ m.cc[q] = n /\ m.cf[q] = f /\ m.cl[q] = <<d, e>>
        /\ \A r \in Names \ {q} :
              m.cc[r] = k.cc[r] /\ m.cf[r] = k.cf[r] /\ m.cl[r] = k.cl[r]
    <3>1. Storable(n, f, k.cl[q], k.next, k.cfreelist, k.info)
      BY <1>11, <2>3 DEF Storable
    <3>2. m.cl[q] = k.cl[q]
      BY <1>1, <2>2, <3>1, BecomesFields
    <3> QED BY <1>1, <1>5, <2>2, <3>1, <3>2, BecomesFields
  <2>5. HasChars(m, y, q)
    <3>1. n = (y.hi[x] - y.lo[x]) * CBSIZE + e - (a + 1)
      <4>1. (y.hi[x] - y.lo[x]) * CBSIZE = H - L
        BY <1>3, <1>5, BlockNumbers
      <4>2. n = H - L + e - (a + 1)
        BY <1>3, <1>5, <1>6, <2>1
      <4> QED BY <4>1, <4>2
    <3>2. a + 1 \in 0..CBSIZE - 1
      BY <1>3, <1>6, <1>14
    <3>3. f = <<y.at[x][y.lo[x]], a + 1>> /\ m.cl[q] = <<y.at[x][y.hi[x]], e>>
      BY <1>5, <2>1, <2>4
    <3> QED BY <1>2, <2>3, <2>4, <3>1, <3>2, <3>3 DEF HasChars
  <2>6. QueueLaid(m, y, q)
    BY <1>2, <1>4, <2>5 DEF QueueLaid
  <2>7. ASSUME NEW r \in Names \ {q}
        PROVE  QueueLaid(m, y, r) /\ TextIn(m, y, r) = TextIn(k, y, r)
    <3>1. SameList(k, y, m, y, r)
      BY <2>4 DEF SameList
    <3> QED BY <1>1, <3>1, SameListKeeps
  <2>8. Laid(m, y)
    BY <1>1, <2>4, <2>6, <2>7 DEF Laid
  <2>9. CharStart(m, y, q) = CharStart(k, y, q) + 1 /\ CharStart(k, y, q) \in Int
    <3>1. CharStart(m, y, q) = L + (a + 1)
      BY <1>2, <1>5, <2>1, <2>4 DEF CharStart
    <3>2. CharStart(k, y, q) = L + a
      BY <1>2, <1>5 DEF CharStart
    <3> QED BY <1>6, <3>1, <3>2
  <2>10. ASSUME NEW i \in 1..m.cc[q] PROVE TextIn(m, y, q)[i] = TextIn(k, y, q)[i + 1]
    <3>1. PICK s : s = CharStart(k, y, q) + (i + 1) - 1
      OBVIOUS
    <3>2. s = CharStart(m, y, q) + i - 1 /\ i + 1 \in 1..k.cc[q]
      BY <1>3, <2>1, <2>3, <2>4, <2>9, <3>1
    <3>3. TextIn(m, y, q)[i] = m.info[Cell(y, x, s)]
      BY <1>2, <3>2 DEF TextIn
    <3>4. TextIn(k, y, q)[i + 1] = k.info[Cell(y, x, s)]
      BY <1>2, <3>1, <3>2 DEF TextIn
    <3> QED BY <2>4, <3>3, <3>4
  <2>11. m.cc[q] + 1 = k.cc[q]
    BY <1>3, <2>1, <2>4
  <2> QED BY <2>7, <2>8, <2>10, <2>11 DEF Dropped, OthersKept
<1> QED BY <1>12, <1>13, <1>14

----------------------------------------------------------------------------
(* Character lists: putc *)

\* q has c after its characters.
Appended(k, y, m, v, q, c) ==
    /\ OthersKept(k, y, m, v, q)
    /\ m.cc[q] = k.cc[q] + 1
    /\ \A i \in 1..k.cc[q] : TextIn(m, v, q)[i] = TextIn(k, y, q)[i]
    /\ TextIn(m, v, q)[m.cc[q]] = c

\* The characters of q, when c is stored in place <<b, o>>, which is none of theirs.
StoredBehind(k, y, m, v, q, b, o, c) ==
    /\ m.cc[q] = k.cc[q] + 1
    /\ k.cc[q] # 0 => CharStart(m, v, q) = CharStart(k, y, q)
    /\ \A n \in Int : n <= y.hi[ListOf(q)] => v.at[ListOf(q)][n] = y.at[ListOf(q)][n]
    /\ m.info = [k.info EXCEPT ![<<b, o>>] = c]
    /\ Cell(v, ListOf(q), CharStart(m, v, q) + m.cc[q] - 1) = <<b, o>>
    /\ \A i \in 1..k.cc[q] : Cell(y, ListOf(q), CharStart(k, y, q) + i - 1) # <<b, o>>

\* The characters are those that were there and c.
LEMMA TextGrows ==
    ASSUME NEW k \in ClistMems, NEW y \in Layouts, Linked(k.next, y), NEW q \in Names,
           QueueLaid(k, y, q), NEW b \in Cblocks, NEW o \in 0..CBSIZE - 1, NEW c, NEW m, NEW v,
           StoredBehind(k, y, m, v, q, b, o, c)
    PROVE  /\ \A i \in 1..k.cc[q] : TextIn(m, v, q)[i] = TextIn(k, y, q)[i]
           /\ TextIn(m, v, q)[m.cc[q]] = c
<1>1. PICK x : x = ListOf(q)
  OBVIOUS
<1>2. /\ m.cc[q] = k.cc[q] + 1
      /\ k.cc[q] # 0 => CharStart(m, v, q) = CharStart(k, y, q)
      /\ \A n \in Int : n <= y.hi[x] => v.at[x][n] = y.at[x][n]
      /\ m.info = [k.info EXCEPT ![<<b, o>>] = c]
      /\ Cell(v, x, CharStart(m, v, q) + m.cc[q] - 1) = <<b, o>>
      /\ \A i \in 1..k.cc[q] : Cell(y, x, CharStart(k, y, q) + i - 1) # <<b, o>>
  BY <1>1 DEF StoredBehind
<1>3. k.info \in [Cblocks \X (0..CBSIZE - 1) -> AllChars] /\ k.cc[q] \in Nat
  BY ClistFields
<1>4. PICK u : u = <<b, o>>
  OBVIOUS
<1>5. u \in Cblocks \X (0..CBSIZE - 1)
  BY <1>4
<1>6. m.info[u] = c /\ \A p \in Cblocks \X (0..CBSIZE - 1) : p # u => m.info[p] = k.info[p]
  <2>1. m.info = [k.info EXCEPT ![u] = c]
    BY <1>2, <1>4
  <2> HIDE <1>2
  <2> QED BY <1>3, <1>5, <2>1
<1>7. ASSUME NEW i \in 1..k.cc[q] PROVE TextIn(m, v, q)[i] = TextIn(k, y, q)[i]
  <2>1. PICK n : n = CharStart(k, y, q) + i - 1
    OBVIOUS
  <2>2. PICK j \in Int, d \in 0..CBSIZE - 1 :
          /\ n = j * CBSIZE + d /\ y.lo[x] <= j /\ j <= y.hi[x]
          /\ Cell(y, x, n) = <<y.at[x][j], d>> /\ PlaceHas(y, x, j)
    BY <1>1, <2>1, CharCells
  <2>3. Cell(v, x, n) = Cell(y, x, n)
    <3>1. Cell(v, x, n) = <<v.at[x][j], d>>
      BY <2>2, CellIs
    <3>2. v.at[x][j] = y.at[x][j]
      BY <1>2, <2>2
    <3> QED BY <2>2, <3>1, <3>2
  <2>4. PICK p : p = Cell(y, x, n)
    OBVIOUS
  <2>5. p \in Cblocks \X (0..CBSIZE - 1) /\ p # u
    <3>1. p = <<y.at[x][j], d>> /\ y.at[x][j] \in Cblocks
      BY <2>2, <2>4 DEF PlaceHas
    <3>2. p # u
      BY <1>2, <1>4, <2>1, <2>4
    <3> QED BY <3>1, <3>2
  <2>6. m.info[p] = k.info[p]
    BY <1>6, <2>5
  <2>7. k.cc[q] # 0 /\ i \in 1..m.cc[q]
    BY <1>2, <1>3
  <2>8. TextIn(m, v, q)[i] = m.info[p]
    BY <1>1, <1>2, <2>1, <2>3, <2>4, <2>7 DEF TextIn
  <2>9. TextIn(k, y, q)[i] = k.info[p]
    BY <1>1, <2>1, <2>4 DEF TextIn
  <2> QED BY <2>6, <2>8, <2>9
<1>8. TextIn(m, v, q)[m.cc[q]] = c
  <2>1. m.cc[q] \in 1..m.cc[q]
    BY <1>2, <1>3
  <2>2. TextIn(m, v, q)[m.cc[q]] = m.info[u]
    BY <1>1, <1>2, <1>4, <2>1 DEF TextIn
  <2> QED BY <1>6, <2>2
<1> QED BY <1>7, <1>8

\* The characters, with c at o of block b.
StoredAt(k, info, b, o, c) ==
    o \in 0..CBSIZE - 1 /\ c \in Chars /\ info = [k.info EXCEPT ![<<b, o>>] = c]

\* The characters of the other blocks are the same.
OnlyIn(k, info, b) ==
    \A d \in Cblocks \ {b}, i \in 0..CBSIZE - 1 : info[<<d, i>>] = k.info[<<d, i>>]

\* Only that character is another.
LEMMA StoredElsewhere ==
    ASSUME NEW k \in ClistMems, NEW b \in Cblocks, NEW o, NEW c, NEW info,
           StoredAt(k, info, b, o, c)
    PROVE  /\ info \in [Cblocks \X (0..CBSIZE - 1) -> AllChars] /\ info[<<b, o>>] = c
           /\ OnlyIn(k, info, b)
<1>1. k.info \in [Cblocks \X (0..CBSIZE - 1) -> AllChars]
  BY ClistFields
<1>2. PICK u : u = <<b, o>>
  OBVIOUS
<1>3. u \in Cblocks \X (0..CBSIZE - 1) /\ c \in AllChars
  BY <1>2 DEF StoredAt, AllChars
<1>4. info = [k.info EXCEPT ![u] = c]
  BY <1>2 DEF StoredAt
<1>5. info \in [Cblocks \X (0..CBSIZE - 1) -> AllChars] /\ info[u] = c
  BY <1>1, <1>3, <1>4
<1>6. \A p \in Cblocks \X (0..CBSIZE - 1) : p # u => info[p] = k.info[p]
  BY <1>1, <1>3, <1>4
<1>7. ASSUME NEW d \in Cblocks \ {b}, NEW i \in 0..CBSIZE - 1
      PROVE  info[<<d, i>>] = k.info[<<d, i>>]
  <2>1. <<d, i>> \in Cblocks \X (0..CBSIZE - 1) /\ <<d, i>> # u
    BY <1>2
  <2> QED BY <1>6, <2>1
<1> QED BY <1>2, <1>5, <1>7 DEF OnlyIn

\* A memory in which q has block b, a character of b is another, and the links are g.
GivenTo(k, m, q, b, g) ==
    \E n, f, l, info, o, c :
        /\ Storable(n, f, l, g, k.next[b], info) /\ StoredAt(k, info, b, o, c)
        /\ Becomes(k, m, q, n, f, l, g, k.next[b], info)

\* What it has in common with the one before.
LEMMA GivenFields ==
    ASSUME NEW k \in ClistMems, NEW q \in Names, NEW b \in Cblocks, NEW g, NEW m,
           GivenTo(k, m, q, b, g)
    PROVE  /\ m \in ClistMems /\ m.next = g /\ m.cfreelist = k.next[b]
           /\ \A r \in Names \ {q} :
                 m.cc[r] = k.cc[r] /\ m.cf[r] = k.cf[r] /\ m.cl[r] = k.cl[r]
           /\ \A d \in Cblocks \ {b}, i \in 0..CBSIZE - 1 : m.info[<<d, i>>] = k.info[<<d, i>>]
<1>1. PICK n, f, l, info, o, c :
        /\ Storable(n, f, l, g, k.next[b], info) /\ StoredAt(k, info, b, o, c)
        /\ Becomes(k, m, q, n, f, l, g, k.next[b], info)
  BY Zenon DEF GivenTo
<1>2. PICK left : left = k.next[b]
  OBVIOUS
<1>3. /\ Storable(n, f, l, g, left, info)
      /\ Becomes(k, m, q, n, f, l, g, left, info)
  BY <1>1, <1>2
<1>4. /\ m \in ClistMems /\ m.next = g /\ m.cfreelist = left /\ m.info = info
      /\ \A r \in Names \ {q} :
            m.cc[r] = k.cc[r] /\ m.cf[r] = k.cf[r] /\ m.cl[r] = k.cl[r]
  BY <1>3, BecomesFields
<1>5. OnlyIn(k, info, b)
  <2>1. StoredAt(k, info, b, o, c)
    BY <1>1
  <2> HIDE <1>1
  <2> QED BY <2>1, StoredElsewhere
<1> QED BY <1>2, <1>4, <1>5 DEF OnlyIn

\* A queue is given the first free block.
LEMMA GivenLays ==
    ASSUME NEW k, NEW y, Laid(k, y), NEW q \in Names, NEW x, x = ListOf(q),
           y.lo[Unused] <= y.hi[Unused], NEW b, b = y.at[Unused][y.lo[Unused]],
           NEW v, v = GivenLast(y, x), NEW g, LinksTo(k.next, y, x, b, g),
           NEW m, GivenTo(k, m, q, b, g), QueueLaid(m, v, q)
    PROVE  Laid(m, v) /\ OthersKept(k, y, m, v, q)
<1>1. /\ k \in ClistMems /\ y \in Layouts /\ Linked(k.next, y)
      /\ \A r \in Names : QueueLaid(k, y, r)
  BY DEF Laid
<1>2. x \in BlockLists \ {Unused} /\ Unused \in BlockLists
      /\ y.lo[Unused] \in Int /\ y.hi[Unused] \in Int
  BY <1>1, ListsDiffer, LayoutFields
<1>3. k.next \in [Cblocks -> 0..NBLOCK]
  BY <1>1, ClistFields
<1>4. b \in Cblocks /\ y.own[b] = Unused
  <2>1. y.lo[Unused] <= y.lo[Unused]
    BY <1>2
  <2> QED BY <1>1, <1>2, <2>1 DEF Linked, PlaceHas
<1>5. v \in Layouts /\ Linked(g, v) /\ FirstBlock(v, Unused) = k.next[b]
  <2>1. PICK next : next = k.next
    OBVIOUS
  <2>2. Linked(next, y) /\ LinksTo(next, y, x, b, g) /\ next \in [Cblocks -> 0..NBLOCK]
    BY <1>1, <1>3, <2>1
  <2>3. /\ GivenLast(y, x) \in Layouts /\ Linked(g, GivenLast(y, x))
        /\ FirstBlock(GivenLast(y, x), Unused) = next[b]
    BY <1>1, <1>2, <2>2, GiveLinks
  <2> QED BY <2>1, <2>3
<1>9. /\ m \in ClistMems /\ m.next = g /\ m.cfreelist = k.next[b]
      /\ \A r \in Names \ {q} :
            m.cc[r] = k.cc[r] /\ m.cf[r] = k.cf[r] /\ m.cl[r] = k.cl[r]
      /\ \A d \in Cblocks \ {b}, i \in 0..CBSIZE - 1 : m.info[<<d, i>>] = k.info[<<d, i>>]
  BY <1>1, <1>4, GivenFields
<1>10. ASSUME NEW r \in Names \ {q}
       PROVE  QueueLaid(m, v, r) /\ TextIn(m, v, r) = TextIn(k, y, r)
  <2>1. PICK z : z = ListOf(r)
    OBVIOUS
  <2>2. z \in BlockLists /\ z # x /\ z # Unused
    BY <2>1, ListsDiffer
  <2>3. PICK j : j = y.hi[x] + 1
    OBVIOUS
  <2>a. /\ BlockMoved(y, v, b, x, j)
        /\ \A w \in BlockLists : v.lo[w] = IF w = Unused THEN y.lo[w] + 1 ELSE y.lo[w]
        /\ \A w \in BlockLists : v.hi[w] = IF w = x THEN j ELSE y.hi[w]
    BY <1>1, <1>2, <1>4, <2>3, GivenLastMoves
  <2>4. /\ BlockMoved(y, v, b, x, j)
        /\ v.lo[z] = y.lo[z] /\ v.hi[z] = y.hi[z]
    BY <2>a, <2>2
  <2>5. \A i \in Int : v.at[z][i] = y.at[z][i]
    BY <2>2, <2>4 DEF BlockMoved
  <2>6. \A d \in Cblocks, i \in 0..CBSIZE - 1 :
          y.own[d] = z => m.info[<<d, i>>] = k.info[<<d, i>>]
    <3>1. ASSUME NEW d \in Cblocks, NEW i \in 0..CBSIZE - 1, y.own[d] = z
          PROVE  m.info[<<d, i>>] = k.info[<<d, i>>]
      <4>1. d # b
        BY <1>4, <2>2, <3>1
      <4> QED BY <1>9, <4>1
    <3> QED BY <3>1, Zenon
  <2>7. SameList(k, y, m, v, r)
    BY <1>9, <2>1, <2>4, <2>5, <2>6 DEF SameList
  <2> QED BY <1>1, <2>7, SameListKeeps
<1>11. Laid(m, v)
  BY <1>5, <1>9, <1>10 DEF Laid
<1> QED BY <1>10, <1>11 DEF OthersKept

\* putc in the last block.
LEMMA PutPlainKeeps ==
    ASSUME NEW k, NEW y, Laid(k, y), NEW q \in Names, NEW c \in Chars, NEW m, m = Put(k, q, c),
           ~NeedsBlock(k, q)
    PROVE  Laid(m, y) /\ Appended(k, y, m, y, q, c)
<1>1. /\ k \in ClistMems /\ y \in Layouts /\ Linked(k.next, y)
      /\ k.cfreelist = FirstBlock(y, Unused)
      /\ \A r \in Names : QueueLaid(k, y, r)
  BY DEF Laid
<1>2. PICK x : x = ListOf(q)
  OBVIOUS
<1>3. /\ x \in BlockLists \ {Unused} /\ y.lo[x] \in Int /\ y.hi[x] \in Int /\ k.cc[q] \in Nat
      /\ CBSIZE \in Nat \ {0}
  BY <1>1, <1>2, ListsDiffer, LayoutFields, ClistFields, ClistAssumption
<1>4. y.lo[x] <= y.hi[x]
  BY <1>1, <1>2 DEF QueueLaid, NeedsBlock
<1>5. PICK a \in 0..CBSIZE - 1, e \in 1..CBSIZE, b, d \in Cblocks, L, H \in Int :
        /\ k.cf[q] = <<b, a>> /\ k.cl[q] = <<d, e>>
        /\ b = y.at[x][y.lo[x]] /\ d = y.at[x][y.hi[x]]
        /\ L = y.lo[x] * CBSIZE /\ H = y.hi[x] * CBSIZE
        /\ k.cc[q] = H - L + e - a /\ k.cc[q] > 0
  BY <1>1, <1>2, <1>4, WithChars
<1>6. e \in Int /\ a \in Int /\ e \in 0..CBSIZE - 1 /\ e + 1 \in 1..CBSIZE
  <2>1. e # CBSIZE
    BY <1>5 DEF NeedsBlock, AtEnd
  <2> QED BY <1>3, <2>1
<1>7. PICK n, l : n = k.cc[q] + 1 /\ l = <<d, e + 1>>
  OBVIOUS
<1>8. PICK u, info : u = <<d, e>> /\ info = [k.info EXCEPT ![u] = c]
  OBVIOUS
<1>9. Becomes(k, m, q, n, k.cf[q], l, k.next, k.cfreelist, info)
  <2>1. Becomes(k, m, q, k.cc[q] + 1, k.cf[q], <<d, e + 1>>, k.next, k.cfreelist,
                [k.info EXCEPT ![<<d, e>>] = c])
    BY <1>1, <1>5, <1>6, PutPlain
  <2> QED BY <1>7, <1>8, <2>1
<1>10. /\ k.info \in [Cblocks \X (0..CBSIZE - 1) -> AllChars] /\ k.cfreelist \in 0..NBLOCK
       /\ k.next \in [Cblocks -> 0..NBLOCK] /\ k.cf[q] \in Int \X Int
  BY <1>1, ClistFields
<1>11. /\ info \in [Cblocks \X (0..CBSIZE - 1) -> AllChars] /\ info[u] = c
       /\ \A p \in Cblocks \X (0..CBSIZE - 1) : p # u => info[p] = k.info[p]
  <2>1. u \in Cblocks \X (0..CBSIZE - 1) /\ c \in AllChars
    BY <1>6, <1>8 DEF AllChars
  <2>2. info = [k.info EXCEPT ![u] = c]
    BY <1>8
  <2> HIDE <1>8
  <2>3. info \in [Cblocks \X (0..CBSIZE - 1) -> AllChars]
    BY <1>10, <2>1, <2>2
  <2> QED BY <1>10, <2>1, <2>2, <2>3
<1>12. /\ m \in ClistMems /\ m.next = k.next /\ m.cfreelist = k.cfreelist /\ m.info = info
       /\ m.cc[q] = n /\ m.cf[q] = k.cf[q] /\ m.cl[q] = l
       /\ \A r \in Names \ {q} :
             m.cc[r] = k.cc[r] /\ m.cf[r] = k.cf[r] /\ m.cl[r] = k.cl[r]
  <2>1. n \in Nat
    BY <1>3, <1>7
  <2>2. d \in Int /\ e + 1 \in Int
    <3>1. NBLOCK \in Nat
      BY ClistAssumption
    <3> QED BY <1>6, <3>1 DEF Cblocks
  <2>3. l \in Int \X Int
    BY <1>7, <2>2
  <2>4. Storable(n, k.cf[q], l, k.next, k.cfreelist, info)
    BY <1>10, <1>11, <2>1, <2>3 DEF Storable
  <2> QED BY <1>1, <1>9, <2>4, BecomesFields
<1>13. QueueLaid(m, y, q)
  <2>1. n = (y.hi[x] - y.lo[x]) * CBSIZE + (e + 1) - a
    <3>1. PICK K : K = k.cc[q]
      OBVIOUS
    <3>2. K \in Nat /\ K = H - L + e - a /\ n = K + 1
      BY <1>3, <1>5, <1>7, <3>1
    <3>3. n = H - L + (e + 1) - a
      BY <1>6, <3>2
    <3>4. (y.hi[x] - y.lo[x]) * CBSIZE = H - L
      BY <1>3, <1>5, BlockNumbers
    <3> QED BY <3>3, <3>4
  <2>2. n > 0
    BY <1>3, <1>7
  <2>3. HasChars(m, y, q)
    BY <1>2, <1>5, <1>6, <1>7, <1>12, <2>1, <2>2 DEF HasChars
  <2> QED BY <1>2, <1>4, <2>3 DEF QueueLaid
<1>14. ASSUME NEW j \in Int, y.lo[x] <= j, j <= y.hi[x], y.at[x][j] = d PROVE j = y.hi[x]
  <2>1. y.pos[y.at[x][j]] = j
    BY <1>1, <1>3, <1>14 DEF Linked, PlaceHas
  <2>2. y.pos[d] = y.hi[x]
    <3>1. y.hi[x] <= y.hi[x]
      BY <1>3
    <3> QED BY <1>1, <1>3, <1>4, <1>5, <3>1 DEF Linked, PlaceHas
  <2> QED BY <1>14, <2>1, <2>2
<1>15. ASSUME NEW r \in Names \ {q}
       PROVE  QueueLaid(m, y, r) /\ TextIn(m, y, r) = TextIn(k, y, r)
  <2>1. PICK z : z = ListOf(r)
    OBVIOUS
  <2>2. z # x
    BY <1>2, <2>1, ListsDiffer
  <2>3. y.own[d] = x
    <3>1. y.hi[x] <= y.hi[x]
      BY <1>3
    <3> QED BY <1>1, <1>3, <1>4, <1>5, <3>1 DEF Linked, PlaceHas
  <2>4. \A g \in Cblocks, i \in 0..CBSIZE - 1 :
          y.own[g] = z => m.info[<<g, i>>] = k.info[<<g, i>>]
    <3>1. ASSUME NEW g \in Cblocks, NEW i \in 0..CBSIZE - 1, y.own[g] = z
          PROVE  m.info[<<g, i>>] = k.info[<<g, i>>]
      <4>1. <<g, i>> # u /\ <<g, i>> \in Cblocks \X (0..CBSIZE - 1)
        BY <1>8, <2>2, <2>3, <3>1
      <4> QED BY <1>11, <1>12, <4>1
    <3> QED BY <3>1
  <2>5. SameList(k, y, m, y, r)
    BY <1>12, <2>1, <2>4 DEF SameList
  <2> QED BY <1>1, <2>5, SameListKeeps
<1>16. Laid(m, y)
  BY <1>1, <1>12, <1>13, <1>15 DEF Laid
<1>17. StoredBehind(k, y, m, y, q, d, e, c)
  <2>1. CharStart(m, y, q) = L + a /\ CharStart(k, y, q) = L + a
    BY <1>2, <1>5, <1>12 DEF CharStart
  <2>2. PICK N : N = y.hi[x] * CBSIZE + e
    OBVIOUS
  <2>3. N = CharStart(m, y, q) + m.cc[q] - 1
    <3>1. PICK K : K = k.cc[q]
      OBVIOUS
    <3>2. K \in Nat /\ K = H - L + e - a /\ m.cc[q] = K + 1 /\ N = H + e
      BY <1>3, <1>5, <1>7, <1>12, <2>2, <3>1
    <3> QED BY <1>6, <2>1, <3>2
  <2>4. Cell(y, x, N) = <<d, e>>
    <3>1. PICK h : h = y.hi[x]
      OBVIOUS
    <3>2. h \in Int /\ N = h * CBSIZE + e
      BY <1>3, <2>2, <3>1
    <3>3. e \in 0..CBSIZE - 1
      BY <1>6
    <3>4. Cell(y, x, N) = <<y.at[x][h], e>>
      BY <3>2, <3>3, CellIs
    <3> QED BY <1>5, <3>1, <3>4
  <2>5. ASSUME NEW i \in 1..k.cc[q]
        PROVE  Cell(y, x, CharStart(k, y, q) + i - 1) # <<d, e>>
    <3>1. PICK s : s = CharStart(k, y, q) + i - 1
      OBVIOUS
    <3>2. PICK j \in Int, o \in 0..CBSIZE - 1 :
            /\ s = j * CBSIZE + o /\ y.lo[x] <= j /\ j <= y.hi[x]
            /\ Cell(y, x, s) = <<y.at[x][j], o>>
      BY <1>1, <1>2, <3>1, CharCells
    <3>3. SUFFICES ASSUME y.at[x][j] = d, o = e PROVE FALSE
      BY <3>1, <3>2
    <3>4. s = H + e
      BY <1>5, <1>14, <3>2, <3>3
    <3>5. PICK K : K = k.cc[q]
      OBVIOUS
    <3>6. K \in Nat /\ K = H - L + e - a /\ i \in Int /\ i <= K /\ s = L + a + i - 1
      BY <1>3, <1>5, <2>1, <3>1, <3>5
    <3> QED BY <1>6, <3>4, <3>6
  <2> QED BY <1>2, <1>7, <1>8, <1>12, <2>1, <2>3, <2>4, <2>5 DEF StoredBehind
<1>18. /\ \A i \in 1..k.cc[q] : TextIn(m, y, q)[i] = TextIn(k, y, q)[i]
       /\ TextIn(m, y, q)[m.cc[q]] = c
  BY <1>1, <1>6, <1>17, TextGrows
<1> QED BY <1>7, <1>12, <1>15, <1>16, <1>18 DEF Appended, OthersKept

\* The first free block.
LEMMA FreeFront ==
    ASSUME NEW k, NEW y, Laid(k, y), k.cfreelist # 0, NEW b, b = k.cfreelist
    PROVE  /\ y.lo[Unused] <= y.hi[Unused] /\ b = y.at[Unused][y.lo[Unused]]
           /\ b \in Cblocks /\ y.own[b] = Unused
<1>1. /\ k \in ClistMems /\ y \in Layouts /\ Linked(k.next, y)
      /\ k.cfreelist = FirstBlock(y, Unused)
  BY DEF Laid
<1>2. Unused \in BlockLists /\ y.lo[Unused] \in Int /\ y.hi[Unused] \in Int
  BY <1>1, ListsDiffer, LayoutFields
<1>3. y.lo[Unused] <= y.hi[Unused] /\ b = y.at[Unused][y.lo[Unused]]
  BY <1>1 DEF FirstBlock
<1>4. y.lo[Unused] <= y.lo[Unused]
  BY <1>2
<1> QED BY <1>1, <1>2, <1>3, <1>4 DEF Linked, PlaceHas

\* putc in the first block of a queue.
LEMMA PutFirstKeeps ==
    ASSUME NEW k, NEW y, Laid(k, y), NEW q \in Names, NEW c \in Chars, NEW m, m = Put(k, q, c),
           k.cl[q] = NULL, k.cfreelist # 0
    PROVE  \E v : Laid(m, v) /\ Appended(k, y, m, v, q, c)
<1>1. /\ k \in ClistMems /\ y \in Layouts /\ Linked(k.next, y)
      /\ \A r \in Names : QueueLaid(k, y, r)
  BY DEF Laid
<1>2. PICK x : x = ListOf(q)
  OBVIOUS
<1>3. /\ x \in BlockLists \ {Unused} /\ y.lo[x] \in Int /\ y.hi[x] \in Int /\ k.cc[q] \in Nat
      /\ CBSIZE \in Nat \ {0}
  BY <1>1, <1>2, ListsDiffer, LayoutFields, ClistFields, ClistAssumption
<1>4. PICK b : b = k.cfreelist
  OBVIOUS
<1>5. /\ y.lo[Unused] <= y.hi[Unused] /\ b = y.at[Unused][y.lo[Unused]]
      /\ b \in Cblocks
  BY <1>4, FreeFront
<1>6. ~(y.lo[x] <= y.hi[x])
  <2>1. SUFFICES ASSUME y.lo[x] <= y.hi[x] PROVE FALSE
    OBVIOUS
  <2>2. HasChars(k, y, q)
    BY <1>1, <1>2, <2>1 DEF QueueLaid
  <2>3. PICK e \in 1..CBSIZE : k.cl[q] = <<y.at[x][y.hi[x]], e>>
    BY <1>2, <2>2 DEF HasChars
  <2>4. k.cl[q][2] = e /\ k.cl[q][2] = 0 /\ e # 0
    BY <1>3, <2>3 DEF NULL
  <2> QED BY <2>4
<1>7. k.cc[q] = 0
  BY <1>1, <1>2, <1>6 DEF QueueLaid
<1>8. PICK l : l = y.lo[x]
  OBVIOUS
<1>9. l \in Int /\ l = y.hi[x] + 1
  <2>1. y.lo[x] <= y.hi[x] + 1
    BY <1>1, <1>3 DEF Linked
  <2> QED BY <1>3, <1>6, <1>8, <2>1
<1>10. PICK v : v = GivenLast(y, x)
  OBVIOUS
<1>11. /\ v.lo[x] = l /\ v.hi[x] = l /\ v.at[x][l] = b
       /\ \A n \in Int : n <= y.hi[x] => v.at[x][n] = y.at[x][n]
  <2>1. /\ BlockMoved(y, v, b, x, l)
        /\ \A w \in BlockLists : v.lo[w] = IF w = Unused THEN y.lo[w] + 1 ELSE y.lo[w]
        /\ \A w \in BlockLists : v.hi[w] = IF w = x THEN l ELSE y.hi[w]
    BY <1>1, <1>3, <1>5, <1>9, <1>10, GivenLastMoves
  <2>2. v.lo[x] = l /\ v.hi[x] = l
    BY <1>3, <1>8, <2>1
  <2>3. v.at[x][l] = b /\ \A n \in Int : n # l => v.at[x][n] = y.at[x][n]
    BY <1>3, <1>9, <2>1 DEF BlockMoved
  <2>4. \A n \in Int : n <= y.hi[x] => n # l
    BY <1>3, <1>9
  <2> QED BY <2>2, <2>3, <2>4
<1>12. PICK g : g = [k.next EXCEPT ![b] = 0]
  OBVIOUS
<1>13. LinksTo(k.next, y, x, b, g)
  <2>1. k.next \in [Cblocks -> 0..NBLOCK] /\ 0 \in 0..NBLOCK
    BY <1>1, ClistFields, ClistAssumption
  <2> QED BY <1>6, <1>12, <2>1 DEF LinksTo
<1>14. PICK o, i : o = 0 /\ i = 1
  OBVIOUS
<1>15. PICK info : info = [k.info EXCEPT ![<<b, o>>] = c]
  OBVIOUS
<1>16. StoredAt(k, info, b, o, c)
  BY <1>3, <1>14, <1>15 DEF StoredAt
<1>17. PICK f, h : f = <<b, o>> /\ h = <<b, i>>
  OBVIOUS
<1>18. Becomes(k, m, q, i, f, h, g, k.next[b], info)
  <2>1. Becomes(k, m, q, k.cc[q] + 1, <<b, 0>>, <<b, 1>>,
                [k.next EXCEPT ![b] = 0], k.next[b], [k.info EXCEPT ![<<b, 0>>] = c])
    BY <1>1, <1>4, <1>5, PutFirst
  <2>2. k.cc[q] + 1 = i
    BY <1>7, <1>14
  <2> QED BY <1>12, <1>14, <1>15, <1>17, <2>1, <2>2
<1>19. Storable(i, f, h, g, k.next[b], info)
  <2>1. b \in Int /\ o \in Int /\ i \in Int /\ i \in Nat
    <3>1. NBLOCK \in Nat
      BY ClistAssumption
    <3> QED BY <1>5, <1>14, <3>1 DEF Cblocks
  <2>2. f \in Int \X Int /\ h \in Int \X Int
    BY <1>17, <2>1
  <2>3. g \in [Cblocks -> 0..NBLOCK] /\ k.next[b] \in 0..NBLOCK
    BY <1>1, <1>5, <1>13, ClistFields DEF LinksTo
  <2>4. info \in [Cblocks \X (0..CBSIZE - 1) -> AllChars]
    BY <1>1, <1>5, <1>16, StoredElsewhere
  <2> QED BY <2>1, <2>2, <2>3, <2>4 DEF Storable
<1>20. m.cc[q] = i /\ m.cf[q] = f /\ m.cl[q] = h /\ m.info = info
  <2>1. PICK left : left = k.next[b]
    OBVIOUS
  <2>2. Becomes(k, m, q, i, f, h, g, left, info) /\ Storable(i, f, h, g, left, info)
    BY <1>18, <1>19, <2>1
  <2> QED BY <1>1, <2>2, BecomesFields
<1>21. GivenTo(k, m, q, b, g)
  BY <1>16, <1>18, <1>19, Zenon DEF GivenTo
<1>22. QueueLaid(m, v, q)
  <2>1. (l - l) * CBSIZE = 0
    <3>1. l * CBSIZE \in Int /\ (l - l) * CBSIZE = l * CBSIZE - l * CBSIZE
      BY <1>9, BlockNumbers
    <3> QED BY <3>1
  <2>2. i = (l - l) * CBSIZE + i - o
    BY <1>14, <2>1
  <2>3. o \in 0..CBSIZE - 1 /\ i \in 1..CBSIZE /\ i > 0
    BY <1>3, <1>14
  <2>4. HasChars(m, v, q)
    BY <1>2, <1>11, <1>17, <1>20, <2>2, <2>3 DEF HasChars
  <2>5. l <= l
    BY <1>9
  <2> QED BY <1>2, <1>11, <2>4, <2>5 DEF QueueLaid
<1>23. Laid(m, v) /\ OthersKept(k, y, m, v, q)
  BY <1>2, <1>5, <1>10, <1>13, <1>21, <1>22, GivenLays
<1>24. StoredBehind(k, y, m, v, q, b, o, c)
  <2>1. CharStart(m, v, q) = l * CBSIZE + o
    BY <1>2, <1>11, <1>17, <1>20 DEF CharStart
  <2>2. PICK n : n = l * CBSIZE + o
    OBVIOUS
  <2>3. n \in Int /\ CharStart(m, v, q) + m.cc[q] - 1 = n
    <3>1. l * CBSIZE \in Int
      BY <1>9, BlockNumbers
    <3> QED BY <1>14, <1>20, <2>1, <2>2, <3>1
  <2>4. o \in 0..CBSIZE - 1
    BY <1>3, <1>14
  <2>5. Cell(v, x, n) = <<b, o>>
    BY <1>9, <1>11, <2>2, <2>4, CellIs
  <2>6. \A j \in 1..k.cc[q] : FALSE
    BY <1>7
  <2> QED BY <1>2, <1>7, <1>11, <1>14, <1>15, <1>20, <2>3, <2>5, <2>6 DEF StoredBehind
<1>25. /\ \A j \in 1..k.cc[q] : TextIn(m, v, q)[j] = TextIn(k, y, q)[j]
       /\ TextIn(m, v, q)[m.cc[q]] = c
  <2>1. o \in 0..CBSIZE - 1
    BY <1>3, <1>14
  <2> QED BY <1>1, <1>5, <1>24, <2>1, TextGrows
<1>26. m.cc[q] = k.cc[q] + 1
  BY <1>7, <1>14, <1>20
<1> QED BY <1>23, <1>25, <1>26 DEF Appended

\* putc in another block of a queue.
LEMMA PutLinkedKeeps ==
    ASSUME NEW k, NEW y, Laid(k, y), NEW q \in Names, NEW c \in Chars, NEW m, m = Put(k, q, c),
           k.cl[q] # NULL, AtEnd(k.cl[q]), k.cfreelist # 0
    PROVE  \E v : Laid(m, v) /\ Appended(k, y, m, v, q, c)
<1>1. /\ k \in ClistMems /\ y \in Layouts /\ Linked(k.next, y)
      /\ \A r \in Names : QueueLaid(k, y, r)
  BY DEF Laid
<1>2. PICK x : x = ListOf(q)
  OBVIOUS
<1>3. /\ x \in BlockLists \ {Unused} /\ y.lo[x] \in Int /\ y.hi[x] \in Int /\ k.cc[q] \in Nat
      /\ CBSIZE \in Nat \ {0}
  BY <1>1, <1>2, ListsDiffer, LayoutFields, ClistFields, ClistAssumption
<1>4. PICK b : b = k.cfreelist
  OBVIOUS
<1>5. /\ y.lo[Unused] <= y.hi[Unused] /\ b = y.at[Unused][y.lo[Unused]]
      /\ b \in Cblocks /\ y.own[b] = Unused
  BY <1>4, FreeFront
<1>6. y.lo[x] <= y.hi[x]
  BY <1>1, <1>2 DEF QueueLaid
<1>7. PICK a \in 0..CBSIZE - 1, e \in 1..CBSIZE, s, d \in Cblocks, L, H \in Int :
        /\ k.cf[q] = <<s, a>> /\ k.cl[q] = <<d, e>>
        /\ s = y.at[x][y.lo[x]] /\ d = y.at[x][y.hi[x]]
        /\ L = y.lo[x] * CBSIZE /\ H = y.hi[x] * CBSIZE
        /\ k.cc[q] = H - L + e - a /\ k.cc[q] > 0
  BY <1>1, <1>2, <1>6, WithChars
<1>8. e = CBSIZE /\ e \in Int /\ a \in Int
  BY <1>3, <1>7 DEF AtEnd
<1>9. PICK K, l, h : K = k.cc[q] /\ l = y.lo[x] /\ h = y.hi[x] + 1
  OBVIOUS
<1>10. /\ K \in Nat /\ K = H - L + CBSIZE - a /\ l \in Int /\ h \in Int /\ l <= h /\ l # h
       /\ L = l * CBSIZE /\ h * CBSIZE = H + CBSIZE
  <2>1. K \in Nat /\ K = H - L + CBSIZE - a /\ l \in Int /\ h \in Int /\ l <= h /\ l # h
    BY <1>3, <1>6, <1>7, <1>8, <1>9
  <2>2. PICK j : j = y.hi[x]
    OBVIOUS
  <2>3. j \in Int /\ h = j + 1 /\ H = j * CBSIZE /\ L = l * CBSIZE
    BY <1>3, <1>7, <1>9, <2>2
  <2>4. (j + 1) * CBSIZE = j * CBSIZE + CBSIZE
    BY <2>3, BlockNumbers
  <2> QED BY <2>1, <2>3, <2>4
<1>11. PICK v : v = GivenLast(y, x)
  OBVIOUS
<1>12. /\ v.lo[x] = l /\ v.hi[x] = h /\ v.at[x][h] = b
       /\ \A n \in Int : n <= y.hi[x] => v.at[x][n] = y.at[x][n]
  <2>1. /\ BlockMoved(y, v, b, x, h)
        /\ \A w \in BlockLists : v.lo[w] = IF w = Unused THEN y.lo[w] + 1 ELSE y.lo[w]
        /\ \A w \in BlockLists : v.hi[w] = IF w = x THEN h ELSE y.hi[w]
    BY <1>1, <1>3, <1>5, <1>9, <1>11, GivenLastMoves
  <2>2. v.lo[x] = l /\ v.hi[x] = h
    BY <1>3, <1>9, <2>1
  <2>3. v.at[x][h] = b /\ \A n \in Int : n # h => v.at[x][n] = y.at[x][n]
    BY <1>3, <1>10, <2>1 DEF BlockMoved
  <2>4. \A n \in Int : n <= y.hi[x] => n # h
    BY <1>3, <1>9
  <2> QED BY <2>2, <2>3, <2>4
<1>13. PICK g : g = [k.next EXCEPT ![b] = 0, ![d] = b]
  OBVIOUS
<1>14. d # b /\ y.own[d] = x
  <2>1. y.hi[x] <= y.hi[x]
    BY <1>3
  <2>2. y.own[d] = x
    BY <1>1, <1>3, <1>6, <1>7, <2>1 DEF Linked, PlaceHas
  <2> QED BY <1>3, <1>5, <2>2
<1>15. LinksTo(k.next, y, x, b, g)
  <2>1. k.next \in [Cblocks -> 0..NBLOCK] /\ 0 \in 0..NBLOCK /\ b \in 0..NBLOCK
    <3>1. b \in 0..NBLOCK
      BY <1>5, ClistAssumption DEF Cblocks
    <3> QED BY <1>1, <3>1, ClistFields, ClistAssumption
  <2>2. g \in [Cblocks -> 0..NBLOCK]
    BY <1>13, <2>1
  <2>3. \A z \in Cblocks : g[z] = IF z = d THEN b ELSE IF z = b THEN 0 ELSE k.next[z]
    BY <1>13, <2>1
  <2> QED BY <1>6, <1>7, <1>14, <2>2, <2>3 DEF LinksTo
<1>16. PICK o, i : o = 0 /\ i = 1
  OBVIOUS
<1>17. PICK info : info = [k.info EXCEPT ![<<b, o>>] = c]
  OBVIOUS
<1>18. StoredAt(k, info, b, o, c)
  BY <1>3, <1>16, <1>17 DEF StoredAt
<1>19. PICK f, p : f = k.cf[q] /\ p = <<b, i>>
  OBVIOUS
<1>20. PICK n : n = K + 1
  OBVIOUS
<1>21. Becomes(k, m, q, n, f, p, g, k.next[b], info)
  <2>1. Becomes(k, m, q, k.cc[q] + 1, k.cf[q], <<b, 1>>,
                [k.next EXCEPT ![b] = 0, ![d] = b], k.next[b], [k.info EXCEPT ![<<b, 0>>] = c])
    BY <1>1, <1>4, <1>5, <1>7, <1>8, PutLinked
  <2> QED BY <1>9, <1>13, <1>16, <1>17, <1>19, <1>20, <2>1
<1>22. Storable(n, f, p, g, k.next[b], info)
  <2>1. b \in Int /\ i \in Int /\ n \in Nat
    <3>1. NBLOCK \in Nat
      BY ClistAssumption
    <3> QED BY <1>5, <1>10, <1>16, <1>20, <3>1 DEF Cblocks
  <2>2. f \in Int \X Int /\ p \in Int \X Int
    BY <1>1, <1>19, <2>1, ClistFields
  <2>3. g \in [Cblocks -> 0..NBLOCK] /\ k.next[b] \in 0..NBLOCK
    BY <1>1, <1>5, <1>15, ClistFields DEF LinksTo
  <2>4. info \in [Cblocks \X (0..CBSIZE - 1) -> AllChars]
    BY <1>1, <1>5, <1>18, StoredElsewhere
  <2> QED BY <2>1, <2>2, <2>3, <2>4 DEF Storable
<1>23. m.cc[q] = n /\ m.cf[q] = f /\ m.cl[q] = p /\ m.info = info
  <2>1. PICK left : left = k.next[b]
    OBVIOUS
  <2>2. Becomes(k, m, q, n, f, p, g, left, info) /\ Storable(n, f, p, g, left, info)
    BY <1>21, <1>22, <2>1
  <2> QED BY <1>1, <2>2, BecomesFields
<1>24. GivenTo(k, m, q, b, g)
  BY <1>18, <1>21, <1>22, Zenon DEF GivenTo
<1>25. QueueLaid(m, v, q)
  <2>1. (h - l) * CBSIZE = H + CBSIZE - L
    <3>1. (h - l) * CBSIZE = h * CBSIZE - l * CBSIZE
      BY <1>10, BlockNumbers
    <3>2. (h - l) * CBSIZE = (H + CBSIZE) - L
      BY <1>10, <3>1
    <3> QED BY <1>3, <3>2
  <2>2. n = (h - l) * CBSIZE + i - a
    <3>1. n = H - L + CBSIZE - a + 1
      BY <1>10, <1>20
    <3> QED BY <1>3, <1>8, <1>16, <2>1, <3>1
  <2>3. i \in 1..CBSIZE /\ n > 0
    BY <1>3, <1>10, <1>16, <1>20
  <2>4. f = <<v.at[x][l], a>>
    <3>1. v.at[x][l] = y.at[x][l]
      BY <1>6, <1>9, <1>10, <1>12
    <3> QED BY <1>7, <1>9, <1>19, <3>1
  <2>5. HasChars(m, v, q)
    BY <1>2, <1>12, <1>19, <1>23, <2>2, <2>3, <2>4 DEF HasChars
  <2> QED BY <1>2, <1>10, <1>12, <2>5 DEF QueueLaid
<1>26. Laid(m, v) /\ OthersKept(k, y, m, v, q)
  BY <1>2, <1>5, <1>11, <1>15, <1>24, <1>25, GivenLays
<1>27. StoredBehind(k, y, m, v, q, b, o, c)
  <2>1. CharStart(m, v, q) = L + a /\ CharStart(k, y, q) = L + a
    BY <1>2, <1>7, <1>9, <1>12, <1>19, <1>23 DEF CharStart
  <2>2. PICK t : t = h * CBSIZE + o
    OBVIOUS
  <2>3. t = CharStart(m, v, q) + m.cc[q] - 1
    BY <1>3, <1>8, <1>10, <1>16, <1>20, <1>23, <2>1, <2>2
  <2>4. o \in 0..CBSIZE - 1
    BY <1>3, <1>16
  <2>5. Cell(v, x, t) = <<b, o>>
    BY <1>10, <1>12, <2>2, <2>4, CellIs
  <2>6. ASSUME NEW j \in 1..k.cc[q]
        PROVE  Cell(y, x, CharStart(k, y, q) + j - 1) # <<b, o>>
    <3>1. PICK z : z = CharStart(k, y, q) + j - 1
      OBVIOUS
    <3>2. PICK w \in Int, u \in 0..CBSIZE - 1 :
            Cell(y, x, z) = <<y.at[x][w], u>> /\ PlaceHas(y, x, w)
      BY <1>1, <1>2, <3>1, CharCells
    <3>3. y.at[x][w] # b
      BY <1>3, <1>5, <3>2 DEF PlaceHas
    <3> QED BY <3>1, <3>2, <3>3
  <2> QED BY <1>2, <1>9, <1>12, <1>17, <1>20, <1>23, <2>1, <2>3, <2>5, <2>6 DEF StoredBehind
<1>28. /\ \A j \in 1..k.cc[q] : TextIn(m, v, q)[j] = TextIn(k, y, q)[j]
       /\ TextIn(m, v, q)[m.cc[q]] = c
  <2>1. o \in 0..CBSIZE - 1
    BY <1>3, <1>16
  <2> QED BY <1>1, <1>5, <1>27, <2>1, TextGrows
<1>29. m.cc[q] = k.cc[q] + 1
  BY <1>9, <1>20, <1>23
<1> QED BY <1>26, <1>28, <1>29 DEF Appended

\* putc puts a character behind the others, or does nothing.
LEMMA PutKeeps ==
    ASSUME NEW k, NEW y, Laid(k, y), NEW q \in Names, NEW c \in Chars, NEW m, m = Put(k, q, c)
    PROVE  m = k \/ \E v : Laid(m, v) /\ Appended(k, y, m, v, q, c)
<1>1. CASE Full(k, q)
  BY <1>1, PutNothing
<1>2. CASE ~NeedsBlock(k, q)
  BY <1>2, PutPlainKeeps
<1>3. CASE NeedsBlock(k, q) /\ k.cfreelist # 0
  <2>1. CASE k.cl[q] = NULL
    BY <1>3, <2>1, PutFirstKeeps
  <2>2. CASE k.cl[q] # NULL
    BY <1>3, <2>2, PutLinkedKeeps DEF NeedsBlock
  <2> QED BY <2>1, <2>2
<1> QED BY <1>1, <1>2, <1>3 DEF Full

----------------------------------------------------------------------------
(* Character lists: q_to_b and b_to_q *)

\* From k to m the first characters of q have gone, and nothing else.
Taken(k, y, m, v, q) ==
    /\ OthersKept(k, y, m, v, q)
    /\ \E d \in Nat :
          /\ m.cc[q] + d = k.cc[q]
          /\ \A i \in 1..m.cc[q] : TextIn(m, v, q)[i] = TextIn(k, y, q)[i + d]

GetsFrom(k, y, m, q) == \E v : Laid(m, v) /\ Taken(k, y, m, v, q)

\* From k to m characters have come to the end of q.
Grown(k, y, m, v, q) ==
    /\ OthersKept(k, y, m, v, q)
    /\ k.cc[q] <= m.cc[q]
    /\ \A i \in 1..k.cc[q] : TextIn(m, v, q)[i] = TextIn(k, y, q)[i]

PutsTo(k, y, m, q) == \E v : Laid(m, v) /\ Grown(k, y, m, v, q)

TakeOne(k, q) == IF k.cc[q] > 0 THEN Get(k, q) ELSE k

\* Where nothing has been taken or put.
LEMMA NothingMoved ==
    ASSUME NEW k, NEW y, Laid(k, y), NEW q \in Names
    PROVE  GetsFrom(k, y, k, q) /\ PutsTo(k, y, k, q)
<1>1. k.cc[q] \in Nat
  BY ClistFields DEF Laid
<1>2. OthersKept(k, y, k, y, q)
  BY DEF OthersKept
<1>3. Taken(k, y, k, y, q)
  <2>1. 0 \in Nat /\ k.cc[q] + 0 = k.cc[q]
    BY <1>1
  <2>2. \A i \in 1..k.cc[q] : TextIn(k, y, q)[i] = TextIn(k, y, q)[i + 0]
    BY <1>1
  <2> QED BY <1>2, <2>1, <2>2 DEF Taken
<1>4. Grown(k, y, k, y, q)
  BY <1>1, <1>2 DEF Grown
<1> QED BY <1>3, <1>4 DEF GetsFrom, PutsTo

\* One more character is taken.
LEMMA TakenOnce ==
    ASSUME NEW k, NEW y, NEW q \in Names, NEW m, GetsFrom(k, y, m, q)
    PROVE  GetsFrom(k, y, TakeOne(m, q), q)
<1>1. PICK v : Laid(m, v) /\ Taken(k, y, m, v, q)
  BY DEF GetsFrom
<1>2. m.cc[q] \in Nat
  BY <1>1, ClistFields DEF Laid
<1>3. CASE m.cc[q] = 0
  BY <1>2, <1>3 DEF TakeOne
<1>4. CASE m.cc[q] # 0
  <2>1. PICK o : o = Get(m, q)
    OBVIOUS
  <2>2. PICK w : Laid(o, w) /\ Dropped(m, v, o, w, q)
    BY <1>1, <1>4, <2>1, GetKeeps
  <2>3. PICK d \in Nat : /\ m.cc[q] + d = k.cc[q]
                         /\ \A i \in 1..m.cc[q] : TextIn(m, v, q)[i] = TextIn(k, y, q)[i + d]
    BY <1>1 DEF Taken
  <2>4. /\ o.cc[q] + 1 = m.cc[q]
        /\ \A i \in 1..o.cc[q] : TextIn(o, w, q)[i] = TextIn(m, v, q)[i + 1]
    BY <2>2 DEF Dropped
  <2>5. o.cc[q] \in Nat
    BY <2>2, ClistFields DEF Laid
  <2>6. PICK e : e = d + 1
    OBVIOUS
  <2>7. e \in Nat /\ o.cc[q] + e = k.cc[q]
    BY <1>2, <2>3, <2>4, <2>5, <2>6
  <2>8. ASSUME NEW i \in 1..o.cc[q] PROVE TextIn(o, w, q)[i] = TextIn(k, y, q)[i + e]
    <3>1. i + 1 \in 1..m.cc[q] /\ i + 1 + d = i + e
      BY <1>2, <2>4, <2>5, <2>6
    <3>2. TextIn(m, v, q)[i + 1] = TextIn(k, y, q)[i + 1 + d]
      BY <2>3, <3>1
    <3> QED BY <2>4, <3>1, <3>2
  <2>9. OthersKept(k, y, o, w, q)
    BY <1>1, <2>2 DEF Taken, Dropped, OthersKept
  <2>10. Taken(k, y, o, w, q)
    BY <2>7, <2>8, <2>9 DEF Taken
  <2>11. TakeOne(m, q) = o
    BY <1>2, <1>4, <2>1 DEF TakeOne
  <2> QED BY <2>2, <2>10, <2>11 DEF GetsFrom
<1> QED BY <1>3, <1>4

\* One more character is put.
LEMMA GrownOnce ==
    ASSUME NEW k, NEW y, Laid(k, y), NEW q \in Names, NEW c \in Chars, NEW m,
           PutsTo(k, y, m, q)
    PROVE  PutsTo(k, y, Put(m, q, c), q)
<1>1. PICK v : Laid(m, v) /\ Grown(k, y, m, v, q)
  BY DEF PutsTo
<1>2. PICK o : o = Put(m, q, c)
  OBVIOUS
<1>3. CASE o = m
  BY <1>2, <1>3
<1>4. CASE o # m
  <2>1. PICK w : Laid(o, w) /\ Appended(m, v, o, w, q, c)
    BY <1>1, <1>2, <1>4, PutKeeps
  <2>2. /\ k.cc[q] <= m.cc[q] /\ o.cc[q] = m.cc[q] + 1
        /\ \A i \in 1..k.cc[q] : TextIn(m, v, q)[i] = TextIn(k, y, q)[i]
        /\ \A i \in 1..m.cc[q] : TextIn(o, w, q)[i] = TextIn(m, v, q)[i]
    BY <1>1, <2>1 DEF Grown, Appended
  <2>3. k.cc[q] \in Nat /\ m.cc[q] \in Nat
    BY <1>1, ClistFields DEF Laid
  <2>4. k.cc[q] <= o.cc[q]
    BY <2>2, <2>3
  <2>5. ASSUME NEW i \in 1..k.cc[q] PROVE TextIn(o, w, q)[i] = TextIn(k, y, q)[i]
    <3>1. i \in 1..m.cc[q]
      BY <2>2, <2>3
    <3> QED BY <2>2, <3>1
  <2>6. OthersKept(k, y, o, w, q)
    BY <1>1, <2>1 DEF Grown, Appended, OthersKept
  <2>7. Grown(k, y, o, w, q)
    BY <2>4, <2>5, <2>6 DEF Grown
  <2> QED BY <1>2, <2>1, <2>7 DEF PutsTo
<1> QED BY <1>3, <1>4

\* The memories that are laid out, and what is folded.
LaidMems == {k \in ClistMems : \E y : Laid(k, y)}

CharsTaken(k, q, n) ==
    FoldLeft(LAMBDA m, i : IF m.cc[q] > 0 THEN Get(m, q) ELSE m, k, [i \in 1..n |-> i])

TakeFold(k, q, t) ==
    CHOOSE g : g = [s \in SUBSET DOMAIN t |->
                       IF s = {} THEN k ELSE TakeOne(g[s \ {Max(s)}], q)]

CharsPut(k, q, n, c, d) ==
    FoldLeft(LAMBDA m, i : Put(m, q, IF i = 1 THEN c ELSE d), k, [i \in 1..n |-> i])

PutFold(k, q, t, c, d) ==
    CHOOSE g : g = [s \in SUBSET DOMAIN t |->
                       IF s = {} THEN k
                       ELSE Put(g[s \ {Max(s)}], q, IF t[Max(s)] = 1 THEN c ELSE d)]

\* What is folded is a value of a function.
LEMMA TakingForm ==
    ASSUME NEW k, NEW q, NEW n, NEW t, t = [i \in 1..n |-> i]
    PROVE  CharsTaken(k, q, n) = TakeFold(k, q, t)[DOMAIN t]
BY ZenonT(60) DEF CharsTaken, TakeOne, FoldLeft, MapThenFoldSet, TakeFold

\* And for what is put.
LEMMA PuttingForm ==
    ASSUME NEW k, NEW q, NEW n, NEW c, NEW d, NEW t, t = [i \in 1..n |-> i]
    PROVE  CharsPut(k, q, n, c, d) = PutFold(k, q, t, c, d)[DOMAIN t]
BY ZenonT(60) DEF CharsPut, FoldLeft, MapThenFoldSet, PutFold

\* Some of the first characters are taken.
LEMMA CharsAreTaken ==
    ASSUME NEW k, NEW y, Laid(k, y), NEW q \in Names, NEW N \in Nat
    PROVE  GetsFrom(k, y, CharsTaken(k, q, N), q)
<1>1. PICK t : t = [i \in 1..N |-> i]
  OBVIOUS
<1>2. DOMAIN t = 1..N /\ \A n \in 1..N : t[n] = n
  BY <1>1
<1> DEFINE step == [p \in (1..N) \X LaidMems |-> TakeOne(p[2], q)]
<1>3. step \in [(1..N) \X LaidMems -> LaidMems]
  <2>1. ASSUME NEW p \in (1..N) \X LaidMems PROVE TakeOne(p[2], q) \in LaidMems
    <3>1. p[2] \in LaidMems
      OBVIOUS
    <3>2. PICK m, v : m = p[2] /\ Laid(m, v)
      BY <3>1 DEF LaidMems
    <3>3. GetsFrom(m, v, m, q)
      BY <3>2, NothingMoved
    <3>4. GetsFrom(m, v, TakeOne(m, q), q)
      BY <3>2, <3>3, TakenOnce
    <3> QED BY <3>2, <3>4 DEF GetsFrom, LaidMems, Laid
  <2> QED BY <2>1
<1>4. \A n \in 1..N, x \in LaidMems : step[<<n, x>>] = TakeOne(x, q)
  BY <1>2
<1> HIDE DEF step
<1>5. k \in LaidMems
  BY DEF LaidMems, Laid
<1>6. PICK e \in [SUBSET (1..N) -> LaidMems] : Iterates(N, k, step, e)
  <2>1. HasFold(N, k, step, LaidMems)
    BY <1>3, <1>5, FoldExists
  <2> QED BY <2>1, Zenon DEF HasFold
<1>7. \A s \in SUBSET (1..N) :
         e[s] = IF s = {} THEN k ELSE TakeOne(e[s \ {Max(s)}], q)
  <2>1. ASSUME NEW s \in SUBSET (1..N), s # {}
        PROVE  e[s] = TakeOne(e[s \ {Max(s)}], q)
    <3>1. Max(s) \in 1..N
      BY <2>1, MaxOfNumbers
    <3>2. s \ {Max(s)} \in SUBSET (1..N)
      OBVIOUS
    <3>3. PICK x \in LaidMems : x = e[s \ {Max(s)}]
      BY <1>6, <3>2
    <3>4. PICK j : j = Max(s)
      OBVIOUS
    <3>5. e[s] = step[<<j, x>>]
      BY <1>6, <2>1, <3>3, <3>4 DEF Iterates
    <3>6. e[s] = TakeOne(x, q)
      BY <1>4, <3>1, <3>4, <3>5
    <3> QED BY <3>3, <3>4, <3>6
  <2>2. e[{}] = k
    BY <1>6 DEF Iterates
  <2> QED BY <2>1, <2>2
<1>8. e = [s \in SUBSET (1..N) |-> IF s = {} THEN k ELSE TakeOne(e[s \ {Max(s)}], q)]
  <2>1. e = [s \in SUBSET (1..N) |-> e[s]]
    BY <1>6
  <2> QED BY <1>7, <2>1
<1>9. PICK g : g = TakeFold(k, q, t)
  OBVIOUS
<1>10. g = [s \in SUBSET (1..N) |-> IF s = {} THEN k ELSE TakeOne(g[s \ {Max(s)}], q)]
  BY <1>2, <1>8, <1>9, ZenonT(60) DEF TakeFold
<1>11. CharsTaken(k, q, N) = g[1..N]
  BY <1>1, <1>2, <1>9, TakingForm
<1> DEFINE v == [n \in 0..N |-> g[1..n]]
           P == [n \in 0..N |-> {m \in LaidMems : GetsFrom(k, y, m, q)}]
<1>12. v[0] \in P[0]
  <2>1. 1..0 = {} /\ {} \in SUBSET (1..N)
    OBVIOUS
  <2>2. g[1..0] = k
    BY <1>10, <2>1
  <2> QED BY <1>5, <2>2, NothingMoved
<1>13. ASSUME NEW n \in 1..N, v[n - 1] \in P[n - 1] PROVE v[n] \in P[n]
  <2>1. n \in 0..N /\ n - 1 \in 0..N
    OBVIOUS
  <2>2. PICK m \in LaidMems : m = g[1..(n - 1)] /\ GetsFrom(k, y, m, q)
    BY <1>13, <2>1
  <2>3. g[1..n] = TakeOne(m, q)
    <3>1. 1..n # {} /\ Max(1..n) = n /\ (1..n) \ {n} = 1..(n - 1)
      <4>1. n \in Nat \ {0}
        OBVIOUS
      <4> QED BY <4>1, GreatestOf
    <3>2. 1..n \in SUBSET (1..N)
      OBVIOUS
    <3>3. PICK u, w : u = 1..n /\ w = 1..(n - 1)
      OBVIOUS
    <3>4. u \in SUBSET (1..N) /\ u # {} /\ Max(u) = n /\ u \ {n} = w
      BY <3>1, <3>2, <3>3
    <3>5. g[u] = TakeOne(g[u \ {Max(u)}], q)
      BY <1>10, <3>4
    <3>6. g[u] = TakeOne(g[w], q)
      BY <3>4, <3>5
    <3> QED BY <2>2, <3>3, <3>6, Zenon
  <2>4. PICK o : o = TakeOne(m, q)
    OBVIOUS
  <2>5. GetsFrom(k, y, o, q)
    BY <2>2, <2>4, TakenOnce
  <2>6. o \in LaidMems
    BY <2>5 DEF GetsFrom, LaidMems, Laid
  <2>7. v[n] = o
    BY <2>1, <2>3, <2>4
  <2> QED BY <2>1, <2>5, <2>6, <2>7
<1>14. v[N] \in P[N]
  <2> HIDE DEF v, P
  <2> QED BY <1>12, <1>13, ChainReaches
<1> QED BY <1>11, <1>14

\* Characters are put behind the others.
LEMMA CharsArePut ==
    ASSUME NEW k, NEW y, Laid(k, y), NEW q \in Names, NEW N \in Nat, NEW c \in Chars,
           NEW d \in Chars
    PROVE  PutsTo(k, y, CharsPut(k, q, N, c, d), q)
<1>1. PICK t : t = [i \in 1..N |-> i]
  OBVIOUS
<1>2. DOMAIN t = 1..N /\ \A n \in 1..N : t[n] = n
  BY <1>1
<1> DEFINE step == [p \in (1..N) \X LaidMems |-> Put(p[2], q, IF t[p[1]] = 1 THEN c ELSE d)]
<1>3. step \in [(1..N) \X LaidMems -> LaidMems]
  <2>1. ASSUME NEW p \in (1..N) \X LaidMems PROVE Put(p[2], q, IF t[p[1]] = 1 THEN c ELSE d) \in LaidMems
    <3>1. p[2] \in LaidMems
      OBVIOUS
    <3>2. PICK m, v : m = p[2] /\ Laid(m, v)
      BY <3>1 DEF LaidMems
    <3>3. PutsTo(m, v, m, q)
      BY <3>2, NothingMoved
    <3>4. PutsTo(m, v, Put(m, q, IF t[p[1]] = 1 THEN c ELSE d), q)
      BY <3>2, <3>3, GrownOnce
    <3> QED BY <3>2, <3>4 DEF PutsTo, LaidMems, Laid
  <2> QED BY <2>1
<1>4. \A n \in 1..N, x \in LaidMems : step[<<n, x>>] = Put(x, q, IF t[n] = 1 THEN c ELSE d)
  BY <1>2
<1> HIDE DEF step
<1>5. k \in LaidMems
  BY DEF LaidMems, Laid
<1>6. PICK e \in [SUBSET (1..N) -> LaidMems] : Iterates(N, k, step, e)
  <2>1. HasFold(N, k, step, LaidMems)
    BY <1>3, <1>5, FoldExists
  <2> QED BY <2>1, Zenon DEF HasFold
<1>7. \A s \in SUBSET (1..N) :
         e[s] = IF s = {} THEN k ELSE Put(e[s \ {Max(s)}], q, IF t[Max(s)] = 1 THEN c ELSE d)
  <2>1. ASSUME NEW s \in SUBSET (1..N), s # {}
        PROVE  e[s] = Put(e[s \ {Max(s)}], q, IF t[Max(s)] = 1 THEN c ELSE d)
    <3>1. Max(s) \in 1..N
      BY <2>1, MaxOfNumbers
    <3>2. s \ {Max(s)} \in SUBSET (1..N)
      OBVIOUS
    <3>3. PICK x \in LaidMems : x = e[s \ {Max(s)}]
      BY <1>6, <3>2
    <3>4. PICK j : j = Max(s)
      OBVIOUS
    <3>5. e[s] = step[<<j, x>>]
      BY <1>6, <2>1, <3>3, <3>4 DEF Iterates
    <3>6. e[s] = Put(x, q, IF t[j] = 1 THEN c ELSE d)
      BY <1>4, <3>1, <3>4, <3>5
    <3> QED BY <3>3, <3>4, <3>6
  <2>2. e[{}] = k
    BY <1>6 DEF Iterates
  <2> QED BY <2>1, <2>2
<1>8. e = [s \in SUBSET (1..N) |-> IF s = {} THEN k ELSE Put(e[s \ {Max(s)}], q, IF t[Max(s)] = 1 THEN c ELSE d)]
  <2>1. e = [s \in SUBSET (1..N) |-> e[s]]
    BY <1>6
  <2> QED BY <1>7, <2>1
<1>9. PICK g : g = PutFold(k, q, t, c, d)
  OBVIOUS
<1>10. g = [s \in SUBSET (1..N) |-> IF s = {} THEN k ELSE Put(g[s \ {Max(s)}], q, IF t[Max(s)] = 1 THEN c ELSE d)]
  BY <1>2, <1>8, <1>9, ZenonT(60) DEF PutFold
<1>11. CharsPut(k, q, N, c, d) = g[1..N]
  BY <1>1, <1>2, <1>9, PuttingForm
<1> DEFINE v == [n \in 0..N |-> g[1..n]]
           P == [n \in 0..N |-> {m \in LaidMems : PutsTo(k, y, m, q)}]
<1>12. v[0] \in P[0]
  <2>1. 1..0 = {} /\ {} \in SUBSET (1..N)
    OBVIOUS
  <2>2. g[1..0] = k
    BY <1>10, <2>1
  <2> QED BY <1>5, <2>2, NothingMoved
<1>13. ASSUME NEW n \in 1..N, v[n - 1] \in P[n - 1] PROVE v[n] \in P[n]
  <2>1. n \in 0..N /\ n - 1 \in 0..N
    OBVIOUS
  <2>2. PICK m \in LaidMems : m = g[1..(n - 1)] /\ PutsTo(k, y, m, q)
    BY <1>13, <2>1
  <2>3. g[1..n] = Put(m, q, IF t[n] = 1 THEN c ELSE d)
    <3>1. 1..n # {} /\ Max(1..n) = n /\ (1..n) \ {n} = 1..(n - 1)
      <4>1. n \in Nat \ {0}
        OBVIOUS
      <4> QED BY <4>1, GreatestOf
    <3>2. 1..n \in SUBSET (1..N)
      OBVIOUS
    <3>3. PICK u, w : u = 1..n /\ w = 1..(n - 1)
      OBVIOUS
    <3>4. u \in SUBSET (1..N) /\ u # {} /\ Max(u) = n /\ u \ {n} = w
      BY <3>1, <3>2, <3>3
    <3>5. g[u] = Put(g[u \ {Max(u)}], q, IF t[Max(u)] = 1 THEN c ELSE d)
      BY <1>10, <3>4
    <3>6. g[u] = Put(g[w], q, IF t[n] = 1 THEN c ELSE d)
      BY <3>4, <3>5
    <3> QED BY <2>2, <3>3, <3>6, Zenon
  <2>4. PICK o : o = Put(m, q, IF t[n] = 1 THEN c ELSE d)
    OBVIOUS
  <2>5. PutsTo(k, y, o, q)
    BY <2>2, <2>4, GrownOnce
  <2>6. o \in LaidMems
    BY <2>5 DEF PutsTo, LaidMems, Laid
  <2>7. v[n] = o
    BY <2>1, <2>3, <2>4
  <2> QED BY <2>1, <2>5, <2>6, <2>7
<1>14. v[N] \in P[N]
  <2> HIDE DEF v, P
  <2> QED BY <1>12, <1>13, ChainReaches
<1> QED BY <1>11, <1>14

----------------------------------------------------------------------------
(* Character lists: following the links *)

\* The blocks from b, the places, the characters and the blocks of q, in memory k.
ChainOf(k, b) ==
    LET f[n \in 0..NBLOCK] ==
            IF n = 0 THEN b ELSE IF f[n - 1] = 0 THEN 0 ELSE k.next[f[n - 1]]
    IN f

PlacesIn(k, q) ==
    LET f == ChainOf(k, k.cf[q][1]) first == k.cf[q][2] IN
    [i \in 1..k.cc[q] |-> <<f[(first + i - 1) \div CBSIZE], (first + i - 1) % CBSIZE>>]

ContentsIn(k, q) == LET at == PlacesIn(k, q) IN [i \in DOMAIN at |-> k.info[at[i]]]

BlocksIn(k, q) == LET at == PlacesIn(k, q) IN {at[i][1] : i \in DOMAIN at}

\* A list has no more blocks than there are.
LEMMA ListIsShort ==
    ASSUME NEW y \in Layouts, NEW next, Linked(next, y), NEW x \in BlockLists
    PROVE  y.hi[x] - y.lo[x] < NBLOCK
<1>1. PICK l, h : l = y.lo[x] /\ h = y.hi[x]
  OBVIOUS
<1>2. l \in Int /\ h \in Int /\ l <= h + 1 /\ NBLOCK \in Nat
  BY <1>1, LayoutFields, ClistAssumption DEF Linked
<1>3. CASE h < l
  <2>1. CASE NBLOCK = 0
    <3>1. h - l < 0
      BY <1>2, <1>3
    <3> QED BY <1>1, <2>1, <3>1
  <2>2. CASE NBLOCK # 0
    <3>1. h - l < NBLOCK
      BY <1>2, <1>3, <2>2
    <3> QED BY <1>1, <3>1
  <2> QED BY <2>1, <2>2
<1>4. CASE l <= h
  <2> DEFINE f == [n \in l..h |-> y.at[x][n]]
  <2>1. \A n \in l..h : y.at[x][n] \in Cblocks /\ y.pos[y.at[x][n]] = n
    BY <1>1, <1>2 DEF Linked, PlaceHas
  <2>2. f \in [l..h -> Cblocks] /\ \A m, n \in l..h : f[m] = f[n] => m = n
    BY <2>1
  <2>3. f \in Injection(l..h, Cblocks)
    BY <2>2 DEF Injection, IsInjective
  <2>5. IsFiniteSet(Cblocks) /\ Cardinality(Cblocks) = NBLOCK
    <3>1. 1 \in Int /\ NBLOCK \in Int
      BY <1>2
    <3>2. IsFiniteSet(1..NBLOCK)
          /\ Cardinality(1..NBLOCK) = IF 1 > NBLOCK THEN 0 ELSE NBLOCK - 1 + 1
      BY <3>1, FS_Interval
    <3>3. (IF 1 > NBLOCK THEN 0 ELSE NBLOCK - 1 + 1) = NBLOCK
      BY <1>2
    <3> QED BY <3>2, <3>3 DEF Cblocks
  <2>6. Cardinality(l..h) = h - l + 1
    <3>1. Cardinality(l..h) = IF l > h THEN 0 ELSE h - l + 1
      BY <1>2, FS_Interval
    <3> QED BY <1>2, <1>4, <3>1
  <2>7. Cardinality(l..h) <= Cardinality(Cblocks)
    <3> HIDE DEF f
    <3> QED BY <2>3, <2>5, FS_Injection
  <2> QED BY <1>1, <1>2, <2>5, <2>6, <2>7
<1> QED BY <1>2, <1>3, <1>4

\* The blocks that the links lead to are those of the list, in order.
LEMMA ChainIsList ==
    ASSUME NEW k, NEW y, Laid(k, y), NEW x \in BlockLists, NEW b, b = FirstBlock(y, x),
           NEW n \in 0..NBLOCK
    PROVE  ChainOf(k, b)[n] = IF y.lo[x] + n <= y.hi[x] THEN y.at[x][y.lo[x] + n] ELSE 0
<1>1. /\ k \in ClistMems /\ y \in Layouts /\ Linked(k.next, y)
  BY DEF Laid
<1>2. PICK l, h : l = y.lo[x] /\ h = y.hi[x]
  OBVIOUS
<1>3. l \in Int /\ h \in Int /\ NBLOCK \in Nat
  BY <1>1, <1>2, LayoutFields, ClistAssumption
<1> DEFINE G(m) == IF l + m <= h THEN y.at[x][l + m] ELSE 0
           g == [m \in 0..NBLOCK |-> G(m)]
           f == ChainOf(k, b)
<1>4. G(0) = b
  <2>1. l + 0 = l
    BY <1>3
  <2> QED BY <1>2, <2>1 DEF FirstBlock
<1>5. ASSUME NEW m \in 1..NBLOCK
      PROVE  G(m) = IF G(m - 1) = 0 THEN 0 ELSE k.next[G(m - 1)]
  <2>1. PICK j : j = l + (m - 1)
    OBVIOUS
  <2>2. j \in Int /\ l + m = j + 1 /\ l <= j
    BY <1>3, <2>1
  <2>3. CASE j <= h
    <3>1. PICK c : c = y.at[x][j]
      OBVIOUS
    <3>2. c \in Cblocks /\ y.own[c] = x /\ y.pos[c] = j
      BY <1>1, <1>2, <2>2, <2>3, <3>1 DEF Linked, PlaceHas
    <3>3. G(m - 1) = c /\ c # 0
      BY <2>1, <2>3, <3>1, <3>2 DEF Cblocks
    <3>4. k.next[c] = IF j = h THEN 0 ELSE y.at[x][j + 1]
      BY <1>1, <1>2, <3>2 DEF Linked, LinkIn
    <3>5. (j + 1 <= h) <=> ~(j = h)
      BY <1>3, <2>2, <2>3
    <3>6. G(m) = IF j + 1 <= h THEN y.at[x][j + 1] ELSE 0
      BY <2>2
    <3> HIDE DEF G
    <3> QED BY <3>3, <3>4, <3>5, <3>6
  <2>4. CASE ~(j <= h)
    <3>1. G(m - 1) = 0
      BY <2>1, <2>4
    <3>2. ~(l + m <= h)
      BY <1>3, <2>2, <2>4
    <3>3. G(m) = 0
      BY <3>2
    <3> HIDE DEF G
    <3> QED BY <3>1, <3>3
  <2> QED BY <2>3, <2>4
<1> HIDE DEF G
<1>6. g = [m \in 0..NBLOCK |-> IF m = 0 THEN b ELSE IF g[m - 1] = 0 THEN 0 ELSE k.next[g[m - 1]]]
  <2>1. ASSUME NEW m \in 0..NBLOCK
        PROVE  g[m] = IF m = 0 THEN b ELSE IF g[m - 1] = 0 THEN 0 ELSE k.next[g[m - 1]]
    <3>1. CASE m = 0
      BY <1>4, <3>1
    <3>2. CASE m # 0
      <4>1. m \in 1..NBLOCK /\ m - 1 \in 0..NBLOCK
        BY <1>3, <3>2
      <4> QED BY <1>5, <3>2, <4>1
    <3> QED BY <3>1, <3>2
  <2>2. g = [m \in 0..NBLOCK |-> g[m]]
    OBVIOUS
  <2> HIDE DEF g
  <2> QED BY <2>1, <2>2
<1> HIDE DEF g
<1>7. f = [m \in 0..NBLOCK |-> IF m = 0 THEN b ELSE IF f[m - 1] = 0 THEN 0 ELSE k.next[f[m - 1]]]
  BY <1>6, Zenon DEF ChainOf
<1> HIDE DEF f
<1> DEFINE v == [m \in 0..NBLOCK |-> f[m]]
           P == [m \in 0..NBLOCK |-> {g[m]}]
<1>8. v[0] \in P[0]
  <2>1. 0 \in 0..NBLOCK
    BY <1>3
  <2>2. f[0] = b /\ g[0] = b
    BY <1>6, <1>7, <2>1
  <2> QED BY <2>1, <2>2
<1>9. \A j \in 0..NBLOCK : j # 0 => f[j] = IF f[j - 1] = 0 THEN 0 ELSE k.next[f[j - 1]]
  BY <1>7
<1>10. \A j \in 0..NBLOCK : j # 0 => g[j] = IF g[j - 1] = 0 THEN 0 ELSE k.next[g[j - 1]]
  BY <1>6
<1>11. ASSUME NEW N \in 0..NBLOCK PROVE f[N] = g[N]
  <2>1. ASSUME NEW j \in 1..N, v[j - 1] \in P[j - 1] PROVE v[j] \in P[j]
    <3>1. j \in 0..NBLOCK /\ j - 1 \in 0..NBLOCK /\ j # 0
      BY <1>3
    <3>2. f[j - 1] = g[j - 1]
      BY <2>1, <3>1
    <3>3. f[j] = g[j]
      BY <1>9, <1>10, <3>1, <3>2
    <3> QED BY <3>1, <3>3
  <2>2. v[N] \in P[N]
    <3> HIDE DEF v, P
    <3> QED BY <1>8, <2>1, ChainReaches
  <2> QED BY <2>2
<1>12. f[n] = g[n]
  BY <1>11
<1>13. g[n] = IF l + n <= h THEN y.at[x][l + n] ELSE 0
  BY DEF g, G
<1> QED BY <1>2, <1>12, <1>13 DEF f

\* A number of blocks and a place in the next one.
LEMMA BlockAndPlace ==
    ASSUME NEW m \in Int, NEW o \in 0..CBSIZE - 1
    PROVE  (m * CBSIZE + o) \div CBSIZE = m /\ (m * CBSIZE + o) % CBSIZE = o
<1>1. CBSIZE \in Nat \ {0}
  BY ClistAssumption
<1> QED BY <1>1

\* The places of the characters of q.
LEMMA PlacesAre ==
    ASSUME NEW k, NEW y, Laid(k, y), NEW q \in Names, NEW x, x = ListOf(q)
    PROVE  PlacesIn(k, q) = [i \in 1..k.cc[q] |-> Cell(y, x, CharStart(k, y, q) + i - 1)]
<1>1. /\ k \in ClistMems /\ y \in Layouts /\ Linked(k.next, y)
      /\ \A r \in Names : QueueLaid(k, y, r)
  BY DEF Laid
<1>2. /\ x \in BlockLists /\ y.lo[x] \in Int /\ y.hi[x] \in Int /\ k.cc[q] \in Nat
      /\ CBSIZE \in Nat \ {0} /\ NBLOCK \in Nat
  BY <1>1, ListsDiffer, LayoutFields, ClistFields, ClistAssumption
<1>3. PICK f : f = ChainOf(k, k.cf[q][1])
  OBVIOUS
<1>4. PICK a : a = k.cf[q][2]
  OBVIOUS
<1>5. PlacesIn(k, q)
        = [i \in 1..k.cc[q] |-> <<f[(a + i - 1) \div CBSIZE], (a + i - 1) % CBSIZE>>]
  BY <1>3, <1>4 DEF PlacesIn
<1>6. ASSUME NEW i \in 1..k.cc[q]
      PROVE  <<f[(a + i - 1) \div CBSIZE], (a + i - 1) % CBSIZE>>
               = Cell(y, x, CharStart(k, y, q) + i - 1)
  <2>1. PICK n : n = CharStart(k, y, q) + i - 1
    OBVIOUS
  <2>2. PICK j \in Int, o \in 0..CBSIZE - 1 :
          /\ n = j * CBSIZE + o /\ y.lo[x] <= j /\ j <= y.hi[x]
          /\ Cell(y, x, n) = <<y.at[x][j], o>>
    BY <1>1, <2>1, CharCells
  <2>3. PICK l, h : l = y.lo[x] /\ h = y.hi[x]
    OBVIOUS
  <2>4. l \in Int /\ h \in Int /\ l <= j /\ j <= h /\ l <= h
    BY <1>2, <2>2, <2>3
  <2>5. PICK o1 \in 0..CBSIZE - 1, b \in Cblocks : k.cf[q] = <<b, o1>> /\ b = y.at[x][l]
    BY <1>1, <2>3, <2>4, WithChars
  <2>6. a = o1 /\ k.cf[q][1] = b /\ b = FirstBlock(y, x)
    BY <1>4, <2>3, <2>4, <2>5 DEF FirstBlock
  <2>7. PICK m : m = j - l
    OBVIOUS
  <2>8. m \in Int /\ l + m = j /\ m * CBSIZE = j * CBSIZE - l * CBSIZE /\ 0 <= m
    BY <2>4, <2>7, BlockNumbers
  <2>9. a + i - 1 = m * CBSIZE + o
    <3>1. PICK L, J : L = l * CBSIZE /\ J = j * CBSIZE
      OBVIOUS
    <3>2. L \in Int /\ J \in Int /\ m * CBSIZE = J - L
      BY <2>4, <2>8, <3>1, BlockNumbers
    <3>3. n = L + a + i - 1 /\ n = J + o
      BY <1>4, <2>1, <2>2, <2>3, <3>1 DEF CharStart
    <3>4. a \in Int /\ i \in Int /\ o \in Int
      BY <1>2, <2>5, <2>6
    <3> QED BY <3>2, <3>3, <3>4
  <2>10. (a + i - 1) \div CBSIZE = m /\ (a + i - 1) % CBSIZE = o
    <3>1. (m * CBSIZE + o) \div CBSIZE = m /\ (m * CBSIZE + o) % CBSIZE = o
      BY <2>8, BlockAndPlace
    <3> QED BY <2>9, <3>1, Zenon
  <2>11. m \in 0..NBLOCK
    <3>1. h - l < NBLOCK
      BY <1>1, <1>2, <2>3, ListIsShort
    <3> QED BY <1>2, <2>4, <2>7, <2>8, <3>1
  <2>12. f[m] = IF y.lo[x] + m <= y.hi[x] THEN y.at[x][y.lo[x] + m] ELSE 0
    BY <1>2, <1>3, <2>6, <2>11, ChainIsList
  <2>13. f[m] = y.at[x][j]
    BY <2>3, <2>4, <2>8, <2>12
  <2> QED BY <2>1, <2>2, <2>10, <2>13
<1> QED BY <1>5, <1>6

\* Its characters are the text.
LEMMA ContentsAre ==
    ASSUME NEW k, NEW y, Laid(k, y), NEW q \in Names
    PROVE  ContentsIn(k, q) = TextIn(k, y, q)
<1>1. PICK x : x = ListOf(q)
  OBVIOUS
<1>2. PICK at : at = PlacesIn(k, q)
  OBVIOUS
<1>3. at = [i \in 1..k.cc[q] |-> Cell(y, x, CharStart(k, y, q) + i - 1)]
  BY <1>1, <1>2, PlacesAre
<1>4. ContentsIn(k, q) = [i \in DOMAIN at |-> k.info[at[i]]]
  BY <1>2 DEF ContentsIn
<1>5. DOMAIN at = 1..k.cc[q] /\ \A i \in 1..k.cc[q] : at[i] = Cell(y, x, CharStart(k, y, q) + i - 1)
  BY <1>3
<1>6. TextIn(k, y, q) = [i \in 1..k.cc[q] |-> k.info[Cell(y, x, CharStart(k, y, q) + i - 1)]]
  BY <1>1 DEF TextIn
<1> HIDE <1>3
<1> QED BY <1>4, <1>5, <1>6

\* The blocks of the characters of q are those of its list.
LEMMA BlocksAre ==
    ASSUME NEW k, NEW y, Laid(k, y), NEW q \in Names
    PROVE  BlocksIn(k, q) = {b \in Cblocks : y.own[b] = ListOf(q)}
<1>1. PICK x : x = ListOf(q)
  OBVIOUS
<1>2. PICK at : at = PlacesIn(k, q)
  OBVIOUS
<1>3. at = [i \in 1..k.cc[q] |-> Cell(y, x, CharStart(k, y, q) + i - 1)]
  BY <1>1, <1>2, PlacesAre
<1>4. BlocksIn(k, q) = {at[i][1] : i \in DOMAIN at}
  BY <1>2 DEF BlocksIn
<1>5. DOMAIN at = 1..k.cc[q] /\ \A i \in 1..k.cc[q] : at[i] = Cell(y, x, CharStart(k, y, q) + i - 1)
  BY <1>3
<1>6. /\ k \in ClistMems /\ y \in Layouts /\ Linked(k.next, y)
      /\ \A r \in Names : QueueLaid(k, y, r)
  BY DEF Laid
<1>7. /\ x \in BlockLists /\ y.lo[x] \in Int /\ y.hi[x] \in Int /\ k.cc[q] \in Nat
      /\ CBSIZE \in Nat \ {0}
  BY <1>1, <1>6, ListsDiffer, LayoutFields, ClistFields, ClistAssumption
<1>8. ASSUME NEW i \in 1..k.cc[q] PROVE at[i][1] \in Cblocks /\ y.own[at[i][1]] = x
  <2>1. PICK n : n = CharStart(k, y, q) + i - 1
    OBVIOUS
  <2>2. PICK j \in Int, o \in 0..CBSIZE - 1 :
          Cell(y, x, n) = <<y.at[x][j], o>> /\ PlaceHas(y, x, j)
    BY <1>1, <1>6, <2>1, CharCells
  <2>3. at[i][1] = y.at[x][j]
    BY <1>5, <2>1, <2>2
  <2> QED BY <2>2, <2>3 DEF PlaceHas
<1>9. ASSUME NEW b \in Cblocks, y.own[b] = x PROVE \E i \in 1..k.cc[q] : at[i][1] = b
  <2>1. PICK j, l, h : j = y.pos[b] /\ l = y.lo[x] /\ h = y.hi[x]
    OBVIOUS
  <2>2. j \in Int /\ l \in Int /\ h \in Int /\ l <= j /\ j <= h /\ y.at[x][j] = b /\ l <= h
    <3>1. BlockIn(y, b) /\ j \in Int
      BY <1>6, <2>1, LayoutFields DEF Linked
    <3>2. l <= j /\ j <= h /\ y.at[x][j] = b
      BY <1>9, <2>1, <3>1 DEF BlockIn
    <3> QED BY <1>7, <2>1, <3>1, <3>2
  <2>3. PICK a \in 0..CBSIZE - 1, e \in 1..CBSIZE, c \in Cblocks, L, H \in Int :
          /\ k.cf[q] = <<c, a>>
          /\ L = l * CBSIZE /\ H = h * CBSIZE
          /\ k.cc[q] = H - L + e - a /\ k.cc[q] > 0
    BY <1>1, <1>6, <2>1, <2>2, WithChars
  <2>4. CharStart(k, y, q) = L + a /\ a \in Int /\ e \in Int
    BY <1>1, <1>7, <2>1, <2>3 DEF CharStart
  <2>5. PICK K : K = k.cc[q]
    OBVIOUS
  <2>6. K \in Nat /\ K = H - L + e - a /\ K > 0
    BY <1>7, <2>3, <2>5
  <2>7. CASE j = l
    <3>1. 1 \in 1..k.cc[q]
      BY <2>5, <2>6
    <3>2. PICK n : n = CharStart(k, y, q) + 1 - 1
      OBVIOUS
    <3>3. n = l * CBSIZE + a
      BY <2>3, <2>4, <3>2
    <3>4. Cell(y, x, n) = <<y.at[x][l], a>>
      BY <2>2, <3>3, CellIs
    <3>5. at[1] = Cell(y, x, n)
      BY <1>5, <3>1, <3>2
    <3> QED BY <2>2, <2>7, <3>1, <3>4, <3>5
  <2>8. CASE j # l
    <3>1. PICK J : J = j * CBSIZE
      OBVIOUS
    <3>2. J \in Int /\ L + CBSIZE <= J /\ J <= H
      <4>1. l + 1 \in Int /\ l + 1 <= j
        BY <2>2, <2>8
      <4>2. (l + 1) * CBSIZE = l * CBSIZE + CBSIZE /\ (l + 1) * CBSIZE <= j * CBSIZE
            /\ j * CBSIZE \in Int
        BY <2>2, <4>1, BlockNumbers
      <4>3. j * CBSIZE <= h * CBSIZE
        BY <2>2, BlockNumbers
      <4> QED BY <2>3, <3>1, <4>2, <4>3
    <3>3. PICK i : i = J - (L + a) + 1
      OBVIOUS
    <3>4. i \in 1..k.cc[q]
      <4>1. i \in Int /\ 1 <= i
        BY <1>7, <2>3, <2>4, <3>2, <3>3
      <4>2. i <= K
        BY <1>7, <2>3, <2>4, <2>6, <3>2, <3>3
      <4> QED BY <1>7, <2>5, <4>1, <4>2
    <3>5. PICK n, o : n = CharStart(k, y, q) + i - 1 /\ o = 0
      OBVIOUS
    <3>6. n = j * CBSIZE + o /\ o \in 0..CBSIZE - 1
      <4>1. n = J
        BY <2>4, <3>2, <3>3, <3>5
      <4> QED BY <1>7, <3>1, <3>2, <3>5, <4>1
    <3>7. Cell(y, x, n) = <<y.at[x][j], o>>
      BY <2>2, <3>6, CellIs
    <3>8. at[i] = Cell(y, x, n)
      BY <1>5, <3>4, <3>5
    <3> QED BY <2>2, <3>4, <3>7, <3>8
  <2> QED BY <2>7, <2>8
<1> HIDE <1>3
<1> QED BY <1>1, <1>4, <1>5, <1>8, <1>9

\* A list ends where its last character is.
LEMMA EndsAtLast ==
    ASSUME NEW k, NEW y, Laid(k, y), NEW q \in Names, k.cc[q] > 0
    PROVE  Advance(Last(PlacesIn(k, q))) = k.cl[q]
<1>1. PICK x : x = ListOf(q)
  OBVIOUS
<1>2. PICK at : at = PlacesIn(k, q)
  OBVIOUS
<1>3. at = [i \in 1..k.cc[q] |-> Cell(y, x, CharStart(k, y, q) + i - 1)]
  BY <1>1, <1>2, PlacesAre
<1>4. /\ k \in ClistMems /\ y \in Layouts /\ Linked(k.next, y)
      /\ \A r \in Names : QueueLaid(k, y, r)
  BY DEF Laid
<1>5. /\ x \in BlockLists /\ y.lo[x] \in Int /\ y.hi[x] \in Int /\ k.cc[q] \in Nat
      /\ CBSIZE \in Nat \ {0}
  BY <1>1, <1>4, ListsDiffer, LayoutFields, ClistFields, ClistAssumption
<1>6. y.lo[x] <= y.hi[x]
  BY <1>1, <1>4, <1>5 DEF QueueLaid
<1>7. PICK a \in 0..CBSIZE - 1, e \in 1..CBSIZE, b, d \in Cblocks, L, H \in Int :
        /\ k.cf[q] = <<b, a>> /\ k.cl[q] = <<d, e>> /\ d = y.at[x][y.hi[x]]
        /\ L = y.lo[x] * CBSIZE /\ H = y.hi[x] * CBSIZE
        /\ k.cc[q] = H - L + e - a
  BY <1>1, <1>4, <1>6, WithChars
<1>8. PICK K, h, o : K = k.cc[q] /\ h = y.hi[x] /\ o = e - 1
  OBVIOUS
<1>9. K \in Nat /\ K > 0 /\ h \in Int /\ o \in 0..CBSIZE - 1 /\ H = h * CBSIZE /\ o \in Int
      /\ o + 1 = e /\ K = H - L + e - a /\ a \in Int
  BY <1>5, <1>7, <1>8
<1>10. Len(at) = K /\ at[K] = Cell(y, x, CharStart(k, y, q) + K - 1)
  <2>1. DOMAIN at = 1..K /\ K \in 1..K
    BY <1>3, <1>8, <1>9
  <2> QED BY <1>3, <1>8, <1>9, <2>1
<1>11. PICK n : n = CharStart(k, y, q) + K - 1
  OBVIOUS
<1>12. n = h * CBSIZE + o
  <2>1. CharStart(k, y, q) = L + a
    BY <1>1, <1>7 DEF CharStart
  <2>2. L \in Int /\ H \in Int
    BY <1>7
  <2>3. L + a + K - 1 = H + o
    BY <1>9, <2>2
  <2>4. n = L + a + K - 1
    BY <1>11, <2>1
  <2> QED BY <1>9, <2>3, <2>4
<1>13. Cell(y, x, n) = <<y.at[x][h], o>>
  BY <1>9, <1>12, CellIs
<1>14. Last(at) = <<d, o>>
  BY <1>7, <1>8, <1>10, <1>11, <1>13 DEF Last
<1>15. Advance(<<d, o>>) = <<d, e>>
  BY <1>9 DEF Advance
<1> QED BY <1>2, <1>7, <1>14, <1>15

----------------------------------------------------------------------------
(* Character lists: no block is lost, and each list is a queue *)

\* The blocks that the free list leads to, which ends.
LEMMA FreeChain ==
    ASSUME NEW k, NEW y, Laid(k, y), NEW f, f = ChainOf(k, k.cfreelist)
    PROVE  /\ f[NBLOCK] = 0
           /\ {f[n] : n \in 0..NBLOCK} \ {0} = {b \in Cblocks : y.own[b] = Unused}
<1>1. /\ k \in ClistMems /\ y \in Layouts /\ Linked(k.next, y)
      /\ k.cfreelist = FirstBlock(y, Unused)
  BY DEF Laid
<1>2. PICK l, h : l = y.lo[Unused] /\ h = y.hi[Unused]
  OBVIOUS
<1>3. Unused \in BlockLists /\ l \in Int /\ h \in Int /\ NBLOCK \in Nat /\ h - l < NBLOCK
  BY <1>1, <1>2, ListsDiffer, LayoutFields, ListIsShort, ClistAssumption
<1>4. ASSUME NEW n \in 0..NBLOCK
      PROVE  f[n] = IF l + n <= h THEN y.at[Unused][l + n] ELSE 0
  BY <1>1, <1>2, <1>3, ChainIsList
<1>5. f[NBLOCK] = 0
  <2>1. NBLOCK \in 0..NBLOCK /\ ~(l + NBLOCK <= h)
    BY <1>3
  <2> QED BY <1>4, <2>1
<1>6. ASSUME NEW n \in 0..NBLOCK, f[n] # 0
      PROVE  f[n] \in Cblocks /\ y.own[f[n]] = Unused
  <2>1. l + n <= h /\ f[n] = y.at[Unused][l + n]
    BY <1>4, <1>6
  <2>2. PICK j : j = l + n
    OBVIOUS
  <2>3. j \in Int /\ l <= j /\ j <= h
    BY <1>3, <2>1, <2>2
  <2> QED BY <1>1, <1>2, <1>3, <2>1, <2>2, <2>3 DEF Linked, PlaceHas
<1>7. ASSUME NEW b \in Cblocks, y.own[b] = Unused
      PROVE  b # 0 /\ \E n \in 0..NBLOCK : f[n] = b
  <2>1. PICK j : j = y.pos[b]
    OBVIOUS
  <2>2. j \in Int /\ l <= j /\ j <= h /\ y.at[Unused][j] = b
    <3>1. BlockIn(y, b) /\ j \in Int
      BY <1>1, <2>1, LayoutFields DEF Linked
    <3> QED BY <1>2, <1>7, <2>1, <3>1 DEF BlockIn
  <2>3. PICK n : n = j - l
    OBVIOUS
  <2>4. n \in 0..NBLOCK /\ l + n = j
    BY <1>3, <2>2, <2>3
  <2>5. f[n] = b
    BY <1>4, <2>2, <2>4
  <2> QED BY <1>3, <2>4, <2>5 DEF Cblocks
<1> QED BY <1>5, <1>6, <1>7

\* What is said of the blocks in the memory k.
Conserved(k) ==
    LET onFree == ChainOf(k, k.cfreelist)
        onList == {onFree[n] : n \in 0..NBLOCK} \ {0}
    IN /\ onFree[NBLOCK] = 0
       /\ onList \cup UNION {BlocksIn(k, q) : q \in Names} = Cblocks
       /\ \A q \in Names :
            /\ onList \cap BlocksIn(k, q) = {}
            /\ \A r \in Names \ {q} : BlocksIn(k, q) \cap BlocksIn(k, r) = {}
            /\ k.cc[q] > 0 => Advance(Last(PlacesIn(k, q))) = k.cl[q]

\* No block is lost.
LEMMA LaidConserves ==
    ASSUME NEW k, NEW y, Laid(k, y)
    PROVE  Conserved(k)
<1>1. PICK f : f = ChainOf(k, k.cfreelist)
  OBVIOUS
<1>2. PICK s : s = {f[n] : n \in 0..NBLOCK} \ {0}
  OBVIOUS
<1>3. f[NBLOCK] = 0 /\ s = {b \in Cblocks : y.own[b] = Unused}
  BY <1>1, <1>2, FreeChain
<1>4. \A q \in Names : BlocksIn(k, q) = {b \in Cblocks : y.own[b] = ListOf(q)}
  BY BlocksAre
<1>5. \A b \in Cblocks : y.own[b] \in BlockLists
  BY LayoutFields DEF Laid
<1>6. s \cup UNION {BlocksIn(k, q) : q \in Names} = Cblocks
  BY <1>3, <1>4, <1>5 DEF BlockLists
<1>7. \A q \in Names : s \cap BlocksIn(k, q) = {}
  BY <1>3, <1>4, ListsDiffer
<1>8. \A q \in Names : \A r \in Names \ {q} : BlocksIn(k, q) \cap BlocksIn(k, r) = {}
  BY <1>4, ListsDiffer
<1>9. \A q \in Names : k.cc[q] > 0 => Advance(Last(PlacesIn(k, q))) = k.cl[q]
  BY EndsAtLast
<1>10. \A q \in Names :
          /\ s \cap BlocksIn(k, q) = {}
          /\ \A r \in Names \ {q} : BlocksIn(k, q) \cap BlocksIn(k, r) = {}
          /\ k.cc[q] > 0 => Advance(Last(PlacesIn(k, q))) = k.cl[q]
  BY <1>7, <1>8, <1>9
<1>11. f[NBLOCK] = 0
  BY <1>3
<1> HIDE <1>3
<1> QED BY <1>1, <1>2, <1>6, <1>10, <1>11, SMT DEF Conserved

\* The characters of q are a sequence.
LEMMA TextIsSeq ==
    ASSUME NEW k, NEW y, Laid(k, y), NEW q \in Names
    PROVE  TextIn(k, y, q) \in Seq(AllChars) /\ Len(TextIn(k, y, q)) = k.cc[q]
<1>1. /\ k \in ClistMems /\ y \in Layouts /\ Linked(k.next, y)
      /\ \A r \in Names : QueueLaid(k, y, r)
  BY DEF Laid
<1>2. k.cc[q] \in Nat /\ k.info \in [Cblocks \X (0..CBSIZE - 1) -> AllChars]
  BY <1>1, ClistFields
<1>3. PICK x : x = ListOf(q)
  OBVIOUS
<1>4. ASSUME NEW i \in 1..k.cc[q]
      PROVE  k.info[Cell(y, x, CharStart(k, y, q) + i - 1)] \in AllChars
  <2>1. PICK n : n = CharStart(k, y, q) + i - 1
    OBVIOUS
  <2>2. PICK j \in Int, o \in 0..CBSIZE - 1 :
          Cell(y, x, n) = <<y.at[x][j], o>> /\ PlaceHas(y, x, j)
    BY <1>1, <1>3, <2>1, CharCells
  <2>3. PICK b \in Cblocks : b = y.at[x][j]
    BY <2>2 DEF PlaceHas
  <2>4. Cell(y, x, n) \in Cblocks \X (0..CBSIZE - 1)
    BY <2>2, <2>3
  <2> QED BY <1>2, <2>1, <2>4
<1>5. TextIn(k, y, q) \in [1..k.cc[q] -> AllChars]
  BY <1>3, <1>4 DEF TextIn
<1> QED BY <1>2, <1>5

\* A sequence that starts with the elements of another has it as a prefix.
LEMMA StartsWith ==
    ASSUME NEW S, NEW s \in Seq(S), NEW t \in Seq(S), Len(s) <= Len(t),
           \A i \in 1..Len(s) : t[i] = s[i]
    PROVE  IsPrefix(s, t)
<1>1. PICK n : n = Len(s)
  OBVIOUS
<1>2. n \in Nat /\ Len(t) \in Nat /\ n <= Len(t)
  BY <1>1
<1>3. /\ SubSeq(s, 1, n) = [i \in 1..n |-> s[i]]
      /\ SubSeq(t, 1, n) = [i \in 1..n |-> t[i]]
  BY <1>1, <1>2
<1>4. SubSeq(s, 1, n) = SubSeq(t, 1, n)
  BY <1>1, <1>3
<1> QED BY <1>1, <1>2, <1>4 DEF IsPrefix

\* A function on the first numbers is a sequence.
LEMMA FunctionIsSeq ==
    ASSUME NEW S, NEW n \in Nat, NEW v \in [1..n -> S]
    PROVE  v \in Seq(S) /\ Len(v) = n
OBVIOUS

\* And one that ends with them has it as a suffix.
LEMMA EndsWith ==
    ASSUME NEW S, NEW s \in Seq(S), NEW t \in Seq(S), NEW d \in Nat, Len(s) + d = Len(t),
           \A i \in 1..Len(s) : s[i] = t[i + d]
    PROVE  IsSuffix(s, t)
<1>1. PICK m, n : m = Len(s) /\ n = Len(t)
  OBVIOUS
<1>2. m \in Nat /\ n \in Nat /\ m + d = n
  BY <1>1
<1>3. PICK u, v : /\ u = [i \in 1..m |-> s[m - i + 1]] /\ v = [i \in 1..n |-> t[n - i + 1]]
                  /\ u = Reverse(s) /\ v = Reverse(t)
  BY <1>1 DEF Reverse
<1>4. u \in Seq(S) /\ Len(u) = m
  <2>1. \A i \in 1..m : m - i + 1 \in 1..m
    BY <1>2
  <2>2. u \in [1..m -> S]
    BY <1>1, <1>3, <2>1
  <2> QED BY <1>2, <2>2, FunctionIsSeq
<1>5. v \in Seq(S) /\ Len(v) = n
  <2>1. \A i \in 1..n : n - i + 1 \in 1..n
    BY <1>2
  <2>2. v \in [1..n -> S]
    BY <1>1, <1>3, <2>1
  <2> QED BY <1>2, <2>2, FunctionIsSeq
<1>6. ASSUME NEW i \in 1..m PROVE v[i] = u[i]
  <2>1. PICK j : j = m - i + 1
    OBVIOUS
  <2>2. j \in 1..m /\ n - i + 1 = j + d /\ i \in 1..n
    BY <1>2, <2>1
  <2>3. u[i] = s[j] /\ v[i] = t[j + d]
    BY <1>3, <2>1, <2>2
  <2> QED BY <1>1, <2>2, <2>3
<1>7. IsPrefix(u, v)
  BY <1>2, <1>4, <1>5, <1>6, StartsWith
<1> QED BY <1>3, <1>7 DEF IsSuffix

\* The characters of each queue are laid out in its blocks.
ClistInv == \E y : Laid(clists, y)

\* The properties say of the memory what is said of k.
LEMMA ConservedNow == Conserved(clists) => BlocksConserved
BY Zenon DEF Conserved, BlocksConserved, Chain, ChainOf, BlocksOf, BlocksIn, Places, PlacesIn

\* And of its characters.
LEMMA ContentsNow ==
    ASSUME NEW q
    PROVE  Contents(q) = ContentsIn(clists, q)
BY Zenon DEF Contents, ContentsIn, Chain, ChainOf, Places, PlacesIn

\* Also in the next state.
LEMMA ContentsNext ==
    ASSUME NEW q
    PROVE  Contents(q)' = ContentsIn(clists', q)
BY Zenon DEF Contents, ContentsIn, Chain, ChainOf, Places, PlacesIn

\* A step of one queue leaves the layout right, and is one that a queue may take.
QueueStep(k, m, q) ==
    /\ \E v : Laid(m, v)
    /\ \/ IsPrefix(ContentsIn(k, q), ContentsIn(m, q))
       \/ IsSuffix(ContentsIn(m, q), ContentsIn(k, q))
    /\ \A r \in Names \ {q} : ContentsIn(m, r) = ContentsIn(k, r)

\* Taking characters is one.
LEMMA TakingSteps ==
    ASSUME NEW k, NEW y, Laid(k, y), NEW q \in Names, NEW m, GetsFrom(k, y, m, q)
    PROVE  QueueStep(k, m, q)
<1>1. PICK v : Laid(m, v) /\ Taken(k, y, m, v, q)
  BY DEF GetsFrom
<1>2. PICK d \in Nat :
        /\ m.cc[q] + d = k.cc[q]
        /\ \A i \in 1..m.cc[q] : TextIn(m, v, q)[i] = TextIn(k, y, q)[i + d]
  BY <1>1 DEF Taken
<1>3. PICK s, t : s = TextIn(m, v, q) /\ t = TextIn(k, y, q)
  OBVIOUS
<1>4. s \in Seq(AllChars) /\ t \in Seq(AllChars) /\ Len(s) = m.cc[q] /\ Len(t) = k.cc[q]
  BY <1>1, <1>3, TextIsSeq
<1>5. Len(s) + d = Len(t) /\ \A i \in 1..Len(s) : s[i] = t[i + d]
  BY <1>2, <1>3, <1>4
<1>6. IsSuffix(s, t)
  BY <1>4, <1>5, EndsWith
<1>7. IsSuffix(ContentsIn(m, q), ContentsIn(k, q))
  BY <1>1, <1>3, <1>6, ContentsAre
<1>8. \A r \in Names \ {q} : ContentsIn(m, r) = ContentsIn(k, r)
  BY <1>1, ContentsAre DEF Taken, OthersKept
<1> QED BY <1>1, <1>7, <1>8, Zenon DEF QueueStep

\* And putting them.
LEMMA PuttingSteps ==
    ASSUME NEW k, NEW y, Laid(k, y), NEW q \in Names, NEW m, PutsTo(k, y, m, q)
    PROVE  QueueStep(k, m, q)
<1>1. PICK v : Laid(m, v) /\ Grown(k, y, m, v, q)
  BY DEF PutsTo
<1>2. PICK s, t : s = TextIn(k, y, q) /\ t = TextIn(m, v, q)
  OBVIOUS
<1>3. s \in Seq(AllChars) /\ t \in Seq(AllChars) /\ Len(s) = k.cc[q] /\ Len(t) = m.cc[q]
  BY <1>1, <1>2, TextIsSeq
<1>4. Len(s) <= Len(t) /\ \A i \in 1..Len(s) : t[i] = s[i]
  BY <1>1, <1>2, <1>3 DEF Grown
<1>5. IsPrefix(s, t)
  BY <1>3, <1>4, StartsWith
<1>6. IsPrefix(ContentsIn(k, q), ContentsIn(m, q))
  BY <1>1, <1>2, <1>5, ContentsAre
<1>7. \A r \in Names \ {q} : ContentsIn(m, r) = ContentsIn(k, r)
  BY <1>1, ContentsAre DEF Grown, OthersKept
<1> QED BY <1>1, <1>6, <1>7, Zenon DEF QueueStep

\* Every action is a step of one queue.
LEMMA ActionSteps ==
    ASSUME NEW y, Laid(clists, y), NEW q \in Names, Getc(q) \/ Putc(q) \/ QToB(q) \/ BToQ(q)
    PROVE  QueueStep(clists, clists', q)
<1>1. GetsFrom(clists, y, clists, q) /\ PutsTo(clists, y, clists, q)
  BY NothingMoved
<1>2. CASE Getc(q)
  <2>1. clists' = TakeOne(clists, q)
    BY <1>2, Zenon DEF Getc, TakeOne
  <2>2. GetsFrom(clists, y, TakeOne(clists, q), q)
    BY <1>1, TakenOnce
  <2> QED BY <2>1, <2>2, TakingSteps
<1>3. CASE Putc(q)
  <2>1. PICK c \in Chars : clists' = Put(clists, q, c)
    BY <1>3, Zenon DEF Putc
  <2>2. PutsTo(clists, y, Put(clists, q, c), q)
    BY <1>1, GrownOnce
  <2> QED BY <2>1, <2>2, PuttingSteps
<1>4. CASE QToB(q)
  <2>1. PICK n \in 1..MaxMove : clists' = CharsTaken(clists, q, n)
    BY <1>4, Zenon DEF QToB, CharsTaken
  <2>2. n \in Nat
    BY ClistAssumption
  <2> QED BY <2>1, <2>2, CharsAreTaken, TakingSteps
<1>5. CASE BToQ(q)
  <2>1. PICK n \in 1..MaxMove, c, d \in Chars : clists' = CharsPut(clists, q, n, c, d)
    BY <1>5, Zenon DEF BToQ, CharsPut
  <2>2. n \in Nat
    BY ClistAssumption
  <2> QED BY <2>1, <2>2, CharsArePut, PuttingSteps
<1> QED BY <1>2, <1>3, <1>4, <1>5

\* A character that is put is the last one.
LEMMA PutIsLast ==
    ASSUME NEW k, NEW y, Laid(k, y), NEW q \in Names, NEW c \in Chars, NEW m, m = Put(k, q, c),
           m # k
    PROVE  ContentsIn(m, q) = Append(ContentsIn(k, q), c)
<1>1. PICK v : Laid(m, v) /\ Appended(k, y, m, v, q, c)
  BY PutKeeps
<1>2. PICK s, t : s = TextIn(k, y, q) /\ t = TextIn(m, v, q)
  OBVIOUS
<1>3. s \in Seq(AllChars) /\ t \in Seq(AllChars) /\ Len(s) = k.cc[q] /\ Len(t) = m.cc[q]
  BY <1>1, <1>2, TextIsSeq
<1>4. /\ Len(t) = Len(s) + 1 /\ t[Len(s) + 1] = c
      /\ \A i \in 1..Len(s) : t[i] = s[i]
  BY <1>1, <1>2, <1>3 DEF Appended
<1>5. c \in AllChars
  BY DEF AllChars
<1>6. t = Append(s, c)
  <2>1. PICK w : w = Append(s, c)
    OBVIOUS
  <2>2. /\ w \in Seq(AllChars) /\ Len(w) = Len(s) + 1 /\ w[Len(s) + 1] = c
        /\ \A i \in 1..Len(s) : w[i] = s[i]
    BY <1>3, <1>5, <2>1, AppendProperties
  <2>3. ASSUME NEW i \in 1..Len(t) PROVE t[i] = w[i]
    <3>1. i \in 1..Len(s) \/ i = Len(s) + 1
      BY <1>3, <1>4
    <3> QED BY <1>4, <2>2, <3>1
  <2>4. t = w
    BY <1>3, <1>4, <2>2, <2>3, SeqEqual
  <2> QED BY <2>1, <2>4
<1> QED BY <1>1, <1>2, <1>6, ContentsAre

\* The layout after cinit: every block is free.
FirstLayout ==
    [own |-> [b \in Cblocks |-> Unused], pos |-> [b \in Cblocks |-> NBLOCK - b + 1],
     at |-> [x \in BlockLists |->
                [n \in Int |-> IF x = Unused /\ 1 <= n /\ n <= NBLOCK THEN NBLOCK - n + 1 ELSE 0]],
     lo |-> [x \in BlockLists |-> 1],
     hi |-> [x \in BlockLists |-> IF x = Unused THEN NBLOCK ELSE 0]]

\* It is a layout.
LEMMA FirstLayoutFields ==
    ASSUME NEW y, y = FirstLayout
    PROVE  /\ y \in Layouts
           /\ \A b \in Cblocks : y.own[b] = Unused /\ y.pos[b] = NBLOCK - b + 1
           /\ \A x \in BlockLists : y.lo[x] = 1 /\ y.hi[x] = IF x = Unused THEN NBLOCK ELSE 0
           /\ \A n \in Int :
                 y.at[Unused][n] = IF 1 <= n /\ n <= NBLOCK THEN NBLOCK - n + 1 ELSE 0
<1>1. NBLOCK \in Nat /\ Unused \in BlockLists
  BY ListsDiffer, ClistAssumption
<1>2. /\ y.own = [b \in Cblocks |-> Unused] /\ y.pos = [b \in Cblocks |-> NBLOCK - b + 1]
      /\ y.at = [x \in BlockLists |->
                    [n \in Int |-> IF x = Unused /\ 1 <= n /\ n <= NBLOCK
                                   THEN NBLOCK - n + 1 ELSE 0]]
      /\ y.lo = [x \in BlockLists |-> 1]
      /\ y.hi = [x \in BlockLists |-> IF x = Unused THEN NBLOCK ELSE 0]
      /\ y = [own |-> y.own, pos |-> y.pos, at |-> y.at, lo |-> y.lo, hi |-> y.hi]
  BY DEF FirstLayout
<1>3. y.own \in [Cblocks -> BlockLists]
  BY <1>1, <1>2
<1>4. y.pos \in [Cblocks -> Int]
  BY <1>1, <1>2 DEF Cblocks
<1>5. y.lo \in [BlockLists -> Int] /\ y.hi \in [BlockLists -> Int]
  BY <1>1, <1>2
<1>6. y.at \in [BlockLists -> [Int -> 0..NBLOCK]]
  <2>1. ASSUME NEW x \in BlockLists
        PROVE  [n \in Int |-> IF x = Unused /\ 1 <= n /\ n <= NBLOCK THEN NBLOCK - n + 1 ELSE 0]
                 \in [Int -> 0..NBLOCK]
    BY <1>1
  <2> QED BY <1>2, <2>1
<1>7. y \in Layouts
  BY <1>2, <1>3, <1>4, <1>5, <1>6 DEF Layouts
<1>8. \A b \in Cblocks : y.own[b] = Unused /\ y.pos[b] = NBLOCK - b + 1
  BY <1>2
<1>9. \A x \in BlockLists : y.lo[x] = 1 /\ y.hi[x] = IF x = Unused THEN NBLOCK ELSE 0
  BY <1>2
<1>10. \A n \in Int : y.at[Unused][n] = IF 1 <= n /\ n <= NBLOCK THEN NBLOCK - n + 1 ELSE 0
  BY <1>1, <1>2
<1> QED BY <1>7, <1>8, <1>9, <1>10

\* cinit leaves the blocks in order, and the queues empty.
LEMMA ClistInvInit == ClistInit => \E y : Laid(clists, y) /\ \A q \in Names : clists.cc[q] = 0
<1> SUFFICES ASSUME ClistInit
             PROVE  \E y : Laid(clists, y) /\ \A q \in Names : clists.cc[q] = 0
  OBVIOUS
<1>1. PICK k : k = clists
  OBVIOUS
<1>2. /\ k.cfreelist = NBLOCK /\ k.next = [b \in Cblocks |-> b - 1]
      /\ k.info = [p \in Cblocks \X (0..CBSIZE - 1) |-> CHOOSE c \in Chars : TRUE]
      /\ k.cc = [q \in Names |-> 0] /\ k.cf = [q \in Names |-> NULL]
      /\ k.cl = [q \in Names |-> NULL]
      /\ k = [cfreelist |-> k.cfreelist, next |-> k.next, info |-> k.info, cc |-> k.cc,
              cf |-> k.cf, cl |-> k.cl]
  BY <1>1 DEF ClistInit
<1>3. NBLOCK \in Nat /\ Unused \in BlockLists
  BY ListsDiffer, ClistAssumption
<1>4. k \in ClistMems
  <2>1. k.cfreelist \in 0..NBLOCK /\ k.next \in [Cblocks -> 0..NBLOCK]
    BY <1>2, <1>3 DEF Cblocks
  <2>2. k.info \in [Cblocks \X (0..CBSIZE - 1) -> AllChars]
    BY <1>2 DEF AllChars
  <2>3. k.cc \in [Names -> Nat]
    BY <1>2
  <2>4. NULL \in Int \X Int
    BY DEF NULL
  <2>5. k.cf \in [Names -> Int \X Int] /\ k.cl \in [Names -> Int \X Int]
    BY <1>2, <2>4
  <2> QED BY <1>2, <2>1, <2>2, <2>3, <2>5 DEF ClistMems
<1>5. PICK y : y = FirstLayout
  OBVIOUS
<1>6. /\ y \in Layouts
      /\ \A b \in Cblocks : y.own[b] = Unused /\ y.pos[b] = NBLOCK - b + 1
      /\ \A x \in BlockLists : y.lo[x] = 1 /\ y.hi[x] = IF x = Unused THEN NBLOCK ELSE 0
      /\ \A n \in Int : y.at[Unused][n] = IF 1 <= n /\ n <= NBLOCK THEN NBLOCK - n + 1 ELSE 0
  BY <1>5, FirstLayoutFields
<1>7. Linked(k.next, y)
  <2>1. ASSUME NEW b \in Cblocks PROVE BlockIn(y, b) /\ LinkIn(k.next, y, b)
    <3>1. b \in Int /\ 1 <= b /\ b <= NBLOCK
      BY <1>3 DEF Cblocks
    <3>2. PICK n : n = NBLOCK - b + 1
      OBVIOUS
    <3>3. n \in Int /\ 1 <= n /\ n <= NBLOCK /\ NBLOCK - n + 1 = b
      BY <1>3, <3>1, <3>2
    <3>4. /\ y.own[b] = Unused /\ y.pos[b] = n /\ y.lo[Unused] = 1 /\ y.hi[Unused] = NBLOCK
          /\ y.at[Unused][n] = b
      BY <1>3, <1>6, <3>2, <3>3
    <3>5. BlockIn(y, b)
      BY <3>3, <3>4 DEF BlockIn
    <3>6. k.next[b] = b - 1
      BY <1>2
    <3>7. CASE n = NBLOCK
      <4>1. b - 1 = 0
        BY <1>3, <3>1, <3>2, <3>7
      <4> QED BY <3>4, <3>5, <3>6, <3>7, <4>1 DEF LinkIn
    <3>8. CASE n # NBLOCK
      <4>1. n + 1 \in Int /\ 1 <= n + 1 /\ n + 1 <= NBLOCK /\ NBLOCK - (n + 1) + 1 = b - 1
        BY <1>3, <3>1, <3>2, <3>3, <3>8
      <4>2. y.at[Unused][n + 1] = b - 1
        BY <1>6, <4>1
      <4> QED BY <3>4, <3>5, <3>6, <3>8, <4>2 DEF LinkIn
    <3> QED BY <3>7, <3>8
  <2>2. ASSUME NEW x \in BlockLists, NEW n \in Int, y.lo[x] <= n, n <= y.hi[x]
        PROVE  PlaceHas(y, x, n)
    <3>1. x = Unused /\ 1 <= n /\ n <= NBLOCK
      BY <1>3, <1>6, <2>2
    <3>2. PICK b : b = NBLOCK - n + 1
      OBVIOUS
    <3>3. b \in Cblocks /\ NBLOCK - b + 1 = n
      BY <1>3, <3>1, <3>2 DEF Cblocks
    <3>4. y.at[Unused][n] = b
      BY <1>6, <3>1, <3>2
    <3> QED BY <1>6, <3>1, <3>3, <3>4 DEF PlaceHas
  <2>3. \A x \in BlockLists : y.lo[x] <= y.hi[x] + 1
    BY <1>3, <1>6
  <2> QED BY <2>1, <2>2, <2>3 DEF Linked
<1>8. k.cfreelist = FirstBlock(y, Unused)
  <2>1. y.lo[Unused] = 1 /\ y.hi[Unused] = NBLOCK
    BY <1>3, <1>6
  <2>2. 1 <= NBLOCK => y.at[Unused][1] = NBLOCK
    <3>1. 1 \in Int /\ NBLOCK - 1 + 1 = NBLOCK
      BY <1>3
    <3>2. y.at[Unused][1] = IF 1 <= 1 /\ 1 <= NBLOCK THEN NBLOCK - 1 + 1 ELSE 0
      BY <1>6, <3>1
    <3> QED BY <3>1, <3>2
  <2>3. ~(1 <= NBLOCK) => NBLOCK = 0
    BY <1>3
  <2> QED BY <1>2, <2>1, <2>2, <2>3 DEF FirstBlock
<1>9. ASSUME NEW q \in Names PROVE QueueLaid(k, y, q)
  <2>1. ListOf(q) \in BlockLists /\ ListOf(q) # Unused
    BY ListsDiffer
  <2>2. ~(y.lo[ListOf(q)] <= y.hi[ListOf(q)])
    BY <1>6, <2>1
  <2> QED BY <1>2, <2>2 DEF QueueLaid
<1>10. Laid(k, y)
  BY <1>4, <1>6, <1>7, <1>8, <1>9 DEF Laid
<1>11. \A q \in Names : clists.cc[q] = 0
  BY <1>1, <1>2
<1> QED BY <1>1, <1>10, <1>11

\* Every step leaves the characters laid out.
LEMMA ClistInvNext == ClistInv /\ [ClistNext]_clists => ClistInv'
<1> SUFFICES ASSUME ClistInv, [ClistNext]_clists PROVE \E v : Laid(clists', v)
  BY DEF ClistInv
<1>1. PICK y : Laid(clists, y)
  BY DEF ClistInv
<1>2. CASE clists' = clists
  BY <1>1, <1>2
<1>3. CASE ClistNext
  <2>1. PICK q \in Names : Getc(q) \/ Putc(q) \/ QToB(q) \/ BToQ(q)
    BY <1>3 DEF ClistNext
  <2> QED BY <1>1, <2>1, ActionSteps DEF QueueStep
<1> QED BY <1>2, <1>3

\* No operation on character lists loses a block (prim.c:18-176).
THEOREM BlocksTheorem == ClistSpec => []BlocksConserved
<1>1. ClistInit => ClistInv
  BY ClistInvInit DEF ClistInv
<1>2. ClistInv /\ [ClistNext]_clists => ClistInv'
  BY ClistInvNext
<1>3. ClistInv => BlocksConserved
  BY LaidConserves, ConservedNow DEF ClistInv
<1> QED BY <1>1, <1>2, <1>3, PTL DEF ClistSpec

\* cinit leaves empty queues.
LEMMA QueuesInitially == ClistInit => ListsAreQueues!Init
<1> SUFFICES ASSUME ClistInit
             PROVE  [q \in Names |-> Contents(q)] = [q \in Names |-> <<>>]
  BY DEF ListsAreQueues!Init
<1>1. PICK y : Laid(clists, y) /\ \A q \in Names : clists.cc[q] = 0
  BY ClistInvInit
<1>2. ASSUME NEW q \in Names PROVE Contents(q) = <<>>
  <2>1. PICK s : s = TextIn(clists, y, q)
    OBVIOUS
  <2>2. s \in Seq(AllChars) /\ Len(s) = 0
    BY <1>1, <2>1, TextIsSeq
  <2>3. s = <<>>
    BY <2>2
  <2>4. Contents(q) = s
    BY <1>1, <2>1, ContentsNow, ContentsAre
  <2> QED BY <2>3, <2>4
<1> QED BY <1>2

\* And every step is one of a queue.
LEMMA QueuesNext == ClistInv /\ ClistNext => ListsAreQueues!Next
<1> SUFFICES ASSUME ClistInv, ClistNext PROVE ListsAreQueues!Next
  OBVIOUS
<1>1. PICK y : Laid(clists, y)
  BY DEF ClistInv
<1>2. PICK q \in Names : Getc(q) \/ Putc(q) \/ QToB(q) \/ BToQ(q)
  BY DEF ClistNext
<1>3. QueueStep(clists, clists', q)
  BY <1>1, <1>2, ActionSteps
<1>4. \A r \in Names : Contents(r) = ContentsIn(clists, r)
  BY ContentsNow
<1>5. \A r \in Names : Contents(r)' = ContentsIn(clists', r)
  BY ContentsNext
<1>6. PICK u, v : u = [r \in Names |-> Contents(r)] /\ v = [r \in Names |-> Contents(r)']
  OBVIOUS
<1>7. \A r \in Names : u[r] = ContentsIn(clists, r) /\ v[r] = ContentsIn(clists', r)
  BY <1>4, <1>5, <1>6
<1>8. /\ IsPrefix(u[q], v[q]) \/ IsSuffix(v[q], u[q])
      /\ \A r \in Names \ {q} : v[r] = u[r]
  BY <1>3, <1>7 DEF QueueStep
<1>9. ListsAreQueues!IsPrefix(u[q], v[q]) \/ ListsAreQueues!IsSuffix(v[q], u[q])
  BY <1>8, Zenon DEF ListsAreQueues!IsPrefix, ListsAreQueues!IsSuffix, ListsAreQueues!Reverse,
                     IsPrefix, IsSuffix, Reverse
<1>10. u = [r \in Names |-> Contents(r)] /\ v = [r \in Names |-> Contents(r)]'
  BY <1>6
<1> HIDE <1>6
<1> QED BY <1>8, <1>9, <1>10, Zenon
        DEF ListsAreQueues!Next, ListsAreQueues!Put, ListsAreQueues!Take

\* What putc puts is the last character.
LEMMA PutsAtEndNext == ClistInv => PutsAtEnd
<1> SUFFICES ASSUME ClistInv, NEW q \in Names, NEW c \in Chars, clists' = Put(clists, q, c),
                    clists' # clists
             PROVE  Contents(q)' = Append(Contents(q), c)
  BY DEF PutsAtEnd
<1>1. PICK y : Laid(clists, y)
  BY DEF ClistInv
<1>2. ContentsIn(clists', q) = Append(ContentsIn(clists, q), c)
  BY <1>1, PutIsLast
<1> QED BY <1>2, ContentsNow, ContentsNext

\* What is taken from a list is what was put there, in order, wherever the blocks end
\* (prim.c:18-176).
THEOREM ClistTheorem == ClistSpec => ClistsAreQueues
<1>1. ClistInit => ClistInv /\ ListsAreQueues!Init
  BY ClistInvInit, QueuesInitially DEF ClistInv
<1>2. ClistInv /\ [ClistNext]_clists => ClistInv'
  BY ClistInvNext
<1>3. ClistInv /\ [ClistNext]_clists
        => [ListsAreQueues!Next]_([q \in Names |-> Contents(q)]) /\ [PutsAtEnd]_clists
  <2>1. CASE clists' = clists
    <3>1. ([q \in Names |-> Contents(q)])' = [q \in Names |-> Contents(q)]
      BY <2>1 DEF Contents, Places, Chain
    <3> QED BY <2>1, <3>1
  <2>2. CASE clists' # clists
    BY <2>2, QueuesNext, PutsAtEndNext
  <2> QED BY <2>1, <2>2
<1> QED BY <1>1, <1>2, <1>3, PTL DEF ClistSpec, ClistsAreQueues, ListsAreQueues!Spec
=============================================================================
