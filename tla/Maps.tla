-------------------------------- MODULE Maps --------------------------------
(***************************************************************************)
(* Resource maps, sys/sys/malloc.c: malloc and mfree as functions from a   *)
(* map to a map.  A map is the sequence of its entries; the entry of size  *)
(* 0 that ends the array is left out.                                      *)
(***************************************************************************)
EXTENDS Integers, Sequences, SequencesExt

Entry(a, n) == [addr |-> a, size |-> n]

\* The first entry with room, 0 if there is none.
FirstFit(mp, size) == SelectInSeq(mp, LAMBDA e : e.size >= size)

\* The map after malloc has found room in it; what it returns is Base.
Base(mp, size) == mp[FirstFit(mp, size)].addr

malloc(mp, size) ==
    LET n == FirstFit(mp, size)
    IN IF mp[n].size = size THEN RemoveAt(mp, n)
       ELSE [mp EXCEPT ![n] = Entry(@.addr + size, @.size - size)]

\* mfree: n is the entry that a goes before.
mfreeUnmerged(mp, size, a) ==
    LET n == 1 + Cardinality({k \in DOMAIN mp : mp[k].addr <= a})
        joinsLeft == n > 1 /\ mp[n - 1].addr + mp[n - 1].size = a
    IN IF joinsLeft THEN [mp EXCEPT ![n - 1].size = @ + size]
       ELSE InsertAt(mp, n, Entry(a, size))

mfree(mp, size, a) ==
    LET n == 1 + Cardinality({k \in DOMAIN mp : mp[k].addr <= a})
        joinsLeft == n > 1 /\ mp[n - 1].addr + mp[n - 1].size = a
        joinsRight == n <= Len(mp) /\ a + size = mp[n].addr
    IN IF joinsLeft /\ joinsRight
         THEN RemoveAt([mp EXCEPT ![n - 1].size = @ + size + mp[n].size], n)
       ELSE IF joinsLeft THEN [mp EXCEPT ![n - 1].size = @ + size]
       ELSE IF joinsRight THEN [mp EXCEPT ![n] = Entry(a, @.size + size)]
       ELSE IF size > 0 THEN InsertAt(mp, n, Entry(a, size))
       ELSE mp

\* What is free by a map.
Covered(e) == e.addr .. e.addr + e.size - 1

FreeIn(mp) == UNION {Covered(mp[n]) : n \in DOMAIN mp}

\* In order, none empty, none touching the next.
Tidy(mp) ==
    /\ \A n \in DOMAIN mp : mp[n].size > 0
    /\ \A n \in 1..Len(mp) - 1 : mp[n].addr + mp[n].size < mp[n + 1].addr
=============================================================================
