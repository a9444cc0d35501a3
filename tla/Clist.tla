------------------------------- MODULE Clist -------------------------------
(***************************************************************************)
(* Character lists: getc, putc, q_to_b and b_to_q of sys/sys/prim.c.       *)
(*                                                                         *)
(* The code masks interrupts in each, so each is one step.  The memory is  *)
(* the record clists: the links of the blocks, what they hold, the free    *)
(* list and the heads of the queues.  A pointer into a block is a pair of  *)
(* the block and a place in it; the place behind the last one is where the *)
(* next block would begin, which the code recognises by its address.       *)
(***************************************************************************)
EXTENDS Integers, Sequences, SequencesExt

CONSTANTS
    Names,      \* the queues
    Chars,
    NBLOCK,     \* number of blocks
    CBSIZE,     \* characters in a block
    MaxMove     \* bound: characters that q_to_b and b_to_q move

ASSUME ClistAssumption == NBLOCK \in Nat /\ CBSIZE \in Nat \ {0} /\ MaxMove \in Nat

VARIABLE clists

Cblocks == 1..NBLOCK

NULL == <<0, 0>>

Advance(p) == <<p[1], p[2] + 1>>

AtEnd(p) == p[2] = CBSIZE

\* Block b goes to the free list.
FreeBlock(k, b) == [k EXCEPT !.next[b] = k.cfreelist, !.cfreelist = b]

GetEmptied(k, q) ==
    LET p == Advance(k.cf[q])
        u == [k EXCEPT !.cf[q] = p, !.cc[q] = @ - 1]
    IN IF u.cc[q] = 0 THEN FreeBlock([u EXCEPT !.cf[q] = NULL, !.cl[q] = NULL], p[1]) ELSE u

\* The memory after one character has been taken from q, which is not empty: its block
\* is freed with the last character of the queue, or of the block.
Get(k, q) ==
    LET p == Advance(k.cf[q])
        u == [k EXCEPT !.cf[q] = p, !.cc[q] = @ - 1]
    IN IF u.cc[q] = 0 THEN FreeBlock([u EXCEPT !.cf[q] = NULL, !.cl[q] = NULL], p[1])
       ELSE IF AtEnd(p) THEN FreeBlock([u EXCEPT !.cf[q] = <<k.next[p[1]], 0>>], p[1])
       ELSE u

Getc(q) == clists.cc[q] > 0 /\ clists' = Get(clists, q)

\* The memory with a block for q's next character if it needs one; without a free block
\* nothing changes: the link of the last block is cleared, and was 0.
NeedsBlock(k, q) == k.cl[q] = NULL \/ AtEnd(k.cl[q])

Extend(k, q) ==
    LET b == k.cfreelist
        e == [k EXCEPT !.cfreelist = k.next[b], !.next[b] = 0, !.cl[q] = <<b, 0>>]
    IN IF k.cl[q] = NULL THEN [e EXCEPT !.cf[q] = <<b, 0>>]
       ELSE [e EXCEPT !.next[k.cl[q][1]] = b]

StoreAhead(k, q, c) ==
    LET p == Advance(k.cl[q])
    IN [k EXCEPT !.info[p] = c, !.cl[q] = p, !.cc[q] = @ + 1]

Store(k, q, c) ==
    LET p == k.cl[q]
    IN [k EXCEPT !.info[p] = c, !.cl[q] = Advance(p), !.cc[q] = @ + 1]

Full(k, q) == NeedsBlock(k, q) /\ k.cfreelist = 0

Put(k, q, c) ==
    IF Full(k, q) THEN k
    ELSE Store(IF NeedsBlock(k, q) THEN Extend(k, q) ELSE k, q, c)

Putc(q) == \E c \in Chars : clists' = Put(clists, q, c)

\* q_to_b takes up to n, b_to_q puts what there is room for.
QToB(q) ==
    \E n \in 1..MaxMove :
        /\ clists.cc[q] > 0
        /\ clists' = FoldLeft(LAMBDA k, i : IF k.cc[q] > 0 THEN Get(k, q) ELSE k, clists,
                         [i \in 1..n |-> i])

BToQ(q) ==
    \E n \in 1..MaxMove, c, d \in Chars :
        clists' = FoldLeft(LAMBDA k, i : Put(k, q, IF i = 1 THEN c ELSE d), clists,
                           [i \in 1..n |-> i])

\* cinit.
ClistInit ==
    clists = [cfreelist |-> NBLOCK, next |-> [b \in Cblocks |-> b - 1],
         info |-> [p \in Cblocks \X (0..CBSIZE - 1) |-> CHOOSE c \in Chars : TRUE],
         cc |-> [q \in Names |-> 0], cf |-> [q \in Names |-> NULL],
         cl |-> [q \in Names |-> NULL]]

ClistNext == \E q \in Names : Getc(q) \/ Putc(q) \/ QToB(q) \/ BToQ(q)

ClistSpec == ClistInit /\ [][ClistNext]_clists

----------------------------------------------------------------------------
(* Properties *)

\* The blocks from b, following the links.
Chain(b) ==
    LET f[k \in 0..NBLOCK] ==
            IF k = 0 THEN b ELSE IF f[k - 1] = 0 THEN 0 ELSE clists.next[f[k - 1]]
    IN f

\* The places of the characters of q.
Places(q) ==
    LET f == Chain(clists.cf[q][1]) first == clists.cf[q][2] IN
    [i \in 1..clists.cc[q] |->
        <<f[(first + i - 1) \div CBSIZE], (first + i - 1) % CBSIZE>>]

Contents(q) == LET at == Places(q) IN [i \in DOMAIN at |-> clists.info[at[i]]]

BlocksOf(q) == LET at == Places(q) IN {at[i][1] : i \in DOMAIN at}

\* Every block is in the free list or in exactly one queue, and queues end where their
\* last character is: no operation loses a block.
BlocksConserved ==
    LET free == Chain(clists.cfreelist)
        onList == {free[k] : k \in 0..NBLOCK} \ {0}
    IN /\ free[NBLOCK] = 0
       /\ onList \cup UNION {BlocksOf(q) : q \in Names} = Cblocks
       /\ \A q \in Names :
            /\ onList \cap BlocksOf(q) = {}
            /\ \A r \in Names \ {q} : BlocksOf(q) \cap BlocksOf(r) = {}
            /\ clists.cc[q] > 0 => Advance(Last(Places(q))) = clists.cl[q]

ListsAreQueues == INSTANCE Queues WITH queue <- [q \in Names |-> Contents(q)]

\* What putc puts is the last character, if there was a block for it.
PutsAtEnd ==
    \A q \in Names, c \in Chars :
        clists' = Put(clists, q, c) /\ clists' # clists => Contents(q)' = Append(Contents(q), c)

\* prim.c:18-176: what is taken from a list is what was put there, in order, wherever the
\* blocks end.
ClistsAreQueues == ListsAreQueues!Spec /\ [][PutsAtEnd]_clists
=============================================================================
