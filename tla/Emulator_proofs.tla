--------------------------- MODULE Emulator_proofs ---------------------------
(***************************************************************************)
(* Proofs about the emulator's processes and descriptors, for any number   *)
(* of threads, process numbers, descriptors and files, and any width of    *)
(* f_count.                                                                *)
(***************************************************************************)
EXTENDS Emulator, FiniteSetTheorems, SeqLemmas, TLAPS

----------------------------------------------------------------------------
(* Arithmetic of a reference count *)

\* Multiples of the modulus do not count.
LEMMA ModuloShift ==
    ASSUME NEW a \in Int, NEW q \in Int, NEW m \in Nat \ {0}
    PROVE  (a - q * m) % m = a % m
<1>1. PICK p \in Int, r \in 0..m - 1 : a = p * m + r /\ a % m = r
  BY Division
<1>2. a - q * m = (p - q) * m + r
  <2>1. p * m - q * m = (p - q) * m /\ p * m \in Int /\ q * m \in Int
    OBVIOUS
  <2>2. a = p * m + r
    BY <1>1, Zenon
  <2> QED BY <2>1, <2>2
<1>3. p - q \in Int
  OBVIOUS
<1>4. (a - q * m) % m = r
  <2> DEFINE k == p - q
             b == a - q * m
  <2>1. k \in Int /\ b = k * m + r
    BY <1>2, <1>3
  <2> HIDE DEF k, b
  <2>2. b % m = r
    BY <2>1, RestIs
  <2> QED BY <2>2 DEF b
<1> QED BY <1>1, <1>4, Zenon

\* FileItem.f_count: a byte keeps what it is given, up to its width, so that what is added
\* later and what has been cut off do not interfere.
LEMMA WrapAdd ==
    ASSUME NEW a \in Int
    PROVE  /\ Wrap(a) \in -SignBit..SignBit - 1
           /\ \A b \in Int : Wrap(Wrap(a) + b) = Wrap(a + b)
           /\ a \in -SignBit..SignBit - 1 => Wrap(a) = a
<1> DEFINE m == 2 * SignBit
<1>1. SignBit \in Nat \ {0, 1} /\ m \in Nat \ {0}
  BY EmulatorAssumption
<1> HIDE DEF m
<1>2. PICK q \in Int, r \in 0..m - 1 :
            a + SignBit = q * m + r /\ (a + SignBit) % m = r
  <2>1. a + SignBit \in Int
    BY <1>1
  <2> QED BY <1>1, <2>1, Division
<1>3. \A n : Wrap(n) = ((n + SignBit) % m) - SignBit
  BY DEF Wrap, m
<1>4. m = 2 * SignBit
  BY DEF m
<1>5. Wrap(a) = r - SignBit
  BY <1>2, <1>3, Zenon
<1>6. Wrap(a) \in -SignBit..SignBit - 1
  BY <1>1, <1>4, <1>5
<1>7. q * m \in Int /\ Wrap(a) = a - q * m
  <2>1. q * m \in Int
    BY <1>1
  <2>2. a + SignBit = q * m + r
    BY <1>2, Zenon
  <2> QED BY <2>1, <2>2, <1>1, <1>5
<1>8. ASSUME NEW b \in Int PROVE Wrap(Wrap(a) + b) = Wrap(a + b)
  <2> DEFINE c == a + b + SignBit
  <2>1. c \in Int
    BY <1>1
  <2>2. Wrap(a) + b + SignBit = c - q * m
    BY <1>1, <1>7
  <2>3. (c - q * m) % m = c % m
    <3> HIDE DEF c
    <3> QED BY <1>1, <2>1, ModuloShift
  <2>4. (Wrap(a) + b + SignBit) % m = (a + b + SignBit) % m
    BY <2>2, <2>3, Zenon
  <2> QED BY <2>4, <1>3, Zenon
<1>9. ASSUME a \in -SignBit..SignBit - 1 PROVE Wrap(a) = a
  <2> DEFINE c == a + SignBit
  <2>1. c \in 0..m - 1
    BY <1>1, <1>4, <1>9
  <2>2. c = 0 * m + c
    BY <1>1, <2>1
  <2>3. c % m = c
    <3> HIDE DEF c
    <3> QED BY <1>1, <2>1, <2>2, RestIs
  <2>4. Wrap(a) = c - SignBit
    BY <2>3, <1>3, Zenon
  <2> QED BY <2>4, <1>1
<1> QED BY <1>6, <1>8, <1>9

----------------------------------------------------------------------------
(* Counting descriptors *)

\* The descriptors in a table f of descriptors, that refer to i, and those of t.
At(f, i) == {w \in Threads \X Fds : f[w[1]][w[2]] = i}
RowOf(f, t, i) == {w \in Threads \X Fds : w[1] = t /\ f[w[1]][w[2]] = i}

\* There are finitely many descriptors, so that any set of them has a number of elements.
LEMMA FinitelyMany ==
    /\ IsFiniteSet(Fds)
    /\ \A W \in SUBSET (Threads \X Fds) : IsFiniteSet(W) /\ Cardinality(W) \in Nat
<1>1. IsFiniteSet(Fds)
  BY EmulatorAssumption, FS_Interval DEF Fds
<1>2. IsFiniteSet(Threads \X Fds)
  BY <1>1, EmulatorAssumption, FS_Product
<1>3. ASSUME NEW W \in SUBSET (Threads \X Fds)
      PROVE  IsFiniteSet(W) /\ Cardinality(W) \in Nat
  BY <1>2, FS_Subset, FS_CardinalityType
<1> QED BY <1>1, <1>3

\* Context.u_ofile: the descriptors of one process that refer to a file, as places in the
\* table of all processes and as numbers.
LEMMA RowCounted ==
    ASSUME NEW f, NEW t \in Threads, NEW i
    PROVE  /\ RowOf(f, t, i) \in SUBSET (Threads \X Fds)
           /\ Cardinality(RowOf(f, t, i)) = Cardinality({d \in Fds : f[t][d] = i})
           /\ Cardinality(RowOf(f, t, i)) \in Nat
<1> DEFINE D == {d \in Fds : f[t][d] = i}
<1>1. RowOf(f, t, i) = {t} \X D
  BY DEF RowOf
<1>2. IsFiniteSet(D) /\ IsFiniteSet({t}) /\ Cardinality({t}) = 1 /\ Cardinality(D) \in Nat
  BY FinitelyMany, FS_Subset, FS_Singleton, FS_CardinalityType
<1>3. Cardinality({t} \X D) = 1 * Cardinality(D)
  BY <1>2, FS_Product
<1>4. RowOf(f, t, i) \in SUBSET (Threads \X Fds)
  BY DEF RowOf
<1> HIDE DEF D
<1>5. Cardinality(RowOf(f, t, i)) = Cardinality(D)
  BY <1>1, <1>2, <1>3
<1> QED BY <1>2, <1>4, <1>5 DEF D

\* What is in one of two sets of descriptors without common ones counts once.
LEMMA Together ==
    ASSUME NEW A \in SUBSET (Threads \X Fds), NEW B \in SUBSET (Threads \X Fds),
           A \cap B = {}
    PROVE  Cardinality(A \cup B) = Cardinality(A) + Cardinality(B)
<1>1. /\ IsFiniteSet(A) /\ IsFiniteSet(B)
      /\ Cardinality(A) \in Nat /\ Cardinality(B) \in Nat
  BY FinitelyMany
<1>2. Cardinality(A \cup B) = Cardinality(A) + Cardinality(B) - Cardinality(A \cap B)
  BY <1>1, FS_Union
<1>3. Cardinality(A \cap B) = 0
  BY FS_EmptySet
<1> QED BY <1>1, <1>2, <1>3

\* g is the table f with another file in one descriptor.
SetsCell(f, g, t, e, v) ==
    \A u \in Threads, d \in Fds : g[u][d] = IF u = t /\ d = e THEN v ELSE f[u][d]

\* Setting one descriptor.
LEMMA CellCounted ==
    ASSUME NEW f, NEW g, NEW t \in Threads, NEW e \in Fds, NEW v, SetsCell(f, g, t, e, v),
           NEW i
    PROVE  Cardinality(At(g, i))
             = Cardinality(At(f, i)) - (IF f[t][e] = i THEN 1 ELSE 0)
                                     + (IF v = i THEN 1 ELSE 0)
<1> DEFINE R == At(f, i) \ {<<t, e>>}
<1>1. /\ At(f, i) \in SUBSET (Threads \X Fds) /\ R \in SUBSET (Threads \X Fds)
      /\ IsFiniteSet(At(f, i)) /\ IsFiniteSet(R)
      /\ Cardinality(At(f, i)) \in Nat /\ Cardinality(R) \in Nat
  BY FinitelyMany DEF At
<1>2. Cardinality(R) = Cardinality(At(f, i)) - (IF f[t][e] = i THEN 1 ELSE 0)
  <2>1. <<t, e>> \in At(f, i) <=> f[t][e] = i
    BY DEF At
  <2> QED BY <1>1, <2>1, FS_RemoveElement
<1>3. At(g, i) = IF v = i THEN R \cup {<<t, e>>} ELSE R
  <2>1. \A w \in Threads \X Fds : g[w[1]][w[2]] = IF w = <<t, e>> THEN v ELSE f[w[1]][w[2]]
    BY DEF SetsCell
  <2> QED BY <2>1 DEF At
<1>4. Cardinality(R \cup {<<t, e>>}) = Cardinality(R) + 1
  BY <1>1, FS_AddElement
<1> HIDE DEF R
<1>5. Cardinality(At(g, i)) = Cardinality(R) + (IF v = i THEN 1 ELSE 0)
  BY <1>1, <1>3, <1>4
<1> QED BY <1>1, <1>2, <1>5

----------------------------------------------------------------------------
(* The inductive invariant *)

\* A thread is somewhere as long as its process runs; a process that has ended, or not
\* begun, has no descriptors.
ThreadsOK ==
    \A t \in Threads :
        /\ stat[t] = "SRUN" <=> does[t] # "none"
        /\ stat[t] # "SRUN" => \A d \in Fds : ofile[t][d] = Nobody

\* A number is in pidFree or that of one process.
PidsOnce ==
    /\ IsInjective(pidFree)
    /\ \A t \in procSet : pid[t] \in Pids /\ ~Contains(pidFree, pid[t])
    /\ \A t, u \in procSet : pid[t] = pid[u] => t = u
    /\ \A p \in Pids : Contains(pidFree, p) \/ \E t \in procSet : pid[t] = p

EmulatorInv ==
    /\ EmulatorTypeOK /\ ThreadsOK /\ PidsOnce
    /\ ReferencesCounted /\ WaitersAreNotified

\* Context.ufalloc: what it returns is a descriptor without a file, or -1.
LEMMA UfallocIsFree ==
    ASSUME NEW t \in Threads, Ufalloc(t) # -1
    PROVE  Ufalloc(t) \in Fds /\ ofile[t][Ufalloc(t)] = Nobody
<1> DEFINE free == {d \in Fds : ofile[t][d] = Nobody}
<1>1. free # {} /\ Ufalloc(t) = Min(free)
  BY DEF Ufalloc
<1>2. free \in SUBSET Nat
  BY EmulatorAssumption DEF Fds
<1> HIDE DEF free
<1>3. \E x \in free : \A y \in free : x <= y
  BY <1>1, <1>2, LeastNumber
<1>4. Min(free) \in free
  BY <1>3 DEF Min
<1> QED BY <1>1, <1>4 DEF free

\* A process has so many descriptors on a file.
LEMMA RefsOfType ==
    ASSUME NEW t \in Threads, NEW i
    PROVE  RefsOf(t, i) \in Nat /\ RefsOf(t, i) = Cardinality(RowOf(ofile, t, i))
<1>1. RefsOf(t, i) = Cardinality({d \in Fds : ofile[t][d] = i})
  BY DEF RefsOf
<1>2. Cardinality(RowOf(ofile, t, i)) = Cardinality({d \in Fds : ofile[t][d] = i})
  BY RowCounted
<1> QED BY <1>1, <1>2, RowCounted

\* Every step keeps the types, and ThreadsOK.
LEMMA TypeStep ==
    ASSUME EmulatorInv, [EmulatorNext]_emulatorVars
    PROVE  EmulatorTypeOK' /\ ThreadsOK'
<1> USE EmulatorAssumption DEF EmulatorTypeOK, ThreadsOK
<1>0. EmulatorTypeOK /\ ThreadsOK /\ IsInjective(pidFree)
  BY DEF EmulatorInv, PidsOnce
<1>a. \A n \in Int : Wrap(n) \in -SignBit..SignBit - 1
  BY WrapAdd
<1>b. \A i \in Items : f_count[i] \in Int
  BY <1>0
<1>c. \A t \in Threads, i \in Items : RefsOf(t, i) \in Nat
  BY RefsOfType
<1>d. ASSUME NEW t \in Threads, NEW i \in Items
      PROVE  DropOne(i) \in [Items -> Nat]
  BY DEF DropOne
<1>e. ASSUME NEW k \in [Items -> Nat]
      PROVE  /\ Drop(k) \in [Items -> -SignBit..SignBit - 1]
             /\ Shut(k) \in [Items -> BOOLEAN]
  <2>1. \A i \in Items : f_count[i] - k[i] \in Int
    BY <1>b
  <2>2. \A i \in Items : Wrap(f_count[i] - k[i]) \in -SignBit..SignBit - 1
    BY <1>a, <2>1
  <2>3. Drop(k) \in [Items -> -SignBit..SignBit - 1]
    BY <2>2 DEF Drop
  <2> DEFINE stays(i) == open[i] /\ \A j \in 1..k[i] : Wrap(f_count[i] - j) > 0
  <2>4. Shut(k) = [i \in Items |-> stays(i)]
    BY DEF Shut
  <2> HIDE DEF stays
  <2>5. \A i \in Items : stays(i) \in BOOLEAN
    BY DEF stays
  <2>6. [i \in Items |-> stays(i)] \in [Items -> BOOLEAN]
    BY <2>5
  <2> QED BY <2>3, <2>4, <2>6
<1>f. ASSUME NEW t \in Threads
      PROVE  AddRefs(t) \in [Items -> -SignBit..SignBit - 1]
  <2>1. \A i \in Items : f_count[i] + RefsOf(t, i) \in Int
    BY <1>b, <1>c
  <2>2. \A i \in Items : Wrap(f_count[i] + RefsOf(t, i)) \in -SignBit..SignBit - 1
    BY <1>a, <2>1
  <2> QED BY <2>2 DEF AddRefs
<1>1. ASSUME NEW t \in Threads, NEW c \in Threads, Fork(t, c)
      PROVE  EmulatorTypeOK' /\ ThreadsOK'
  <2>1. pidFree' \in Seq(Pids) /\ Head(pidFree) \in Pids
    BY <1>0, <1>1, TailProps DEF Fork
  <2>2. f_count' \in [Items -> -SignBit..SignBit - 1]
    BY <1>1, <1>f DEF Fork
  <2>3. t # c
    BY <1>0, <1>1 DEF Fork, Runs
  <2> QED BY <1>0, <1>1, <2>1, <2>2, <2>3 DEF Fork, Runs
<1>2. ASSUME NEW t \in Threads, ForkFails(t)
      PROVE  EmulatorTypeOK' /\ ThreadsOK'
  <2>1. f_count' \in [Items -> -SignBit..SignBit - 1]
    BY <1>2, <1>f DEF ForkFails
  <2> QED BY <1>0, <1>2, <2>1 DEF ForkFails, Runs, procVars
<1>3. ASSUME NEW t \in Threads, Exit(t)
      PROVE  EmulatorTypeOK' /\ ThreadsOK'
  <2> DEFINE k == [i \in Items |-> RefsOf(t, i)]
  <2>1. k \in [Items -> Nat] /\ f_count' = Drop(k) /\ open' = Shut(k)
    BY <1>3, <1>c DEF Exit
  <2> HIDE DEF k
  <2>2. /\ f_count' \in [Items -> -SignBit..SignBit - 1]
        /\ open' \in [Items -> BOOLEAN]
    BY <1>e, <2>1
  <2>3. does' = [does EXCEPT ![t] = "none"] \/ does' = [Notified EXCEPT ![t] = "none"]
    BY <1>3 DEF Exit
  <2>4. /\ does' \in [Threads -> {"none", "run", "wait", "woken", "dead", "nopid"}]
        /\ does'[t] = "none"
        /\ \A u \in Threads : u # t => (does'[u] = "none" <=> does[u] = "none")
    BY <1>0, <2>3 DEF Notified
  <2> QED BY <1>0, <1>3, <2>2, <2>4 DEF Exit
<1>4. ASSUME NEW t \in Threads, Wait(t)
      PROVE  EmulatorTypeOK' /\ ThreadsOK'
  <2>1. CASE UNCHANGED procVars
    <3>1. /\ does[t] \in {"run", "woken"}
          /\ \/ does' = [does EXCEPT ![t] = "run"]
             \/ does' = [does EXCEPT ![t] = "wait"]
          /\ UNCHANGED <<ofile, f_count, open, reading, made>>
      BY <1>4 DEF Wait, fileVars
    <3> QED BY <1>0, <2>1, <3>1 DEF procVars
  <2>2. ASSUME NEW q \in Children(t), stat[q] = "SZOMB", Reaped(q),
               does' = [does EXCEPT ![t] = "run"]
        PROVE  EmulatorTypeOK' /\ ThreadsOK'
    <3>1. q \in Threads /\ pid[q] \in Pids
      BY <2>2 DEF Children, procSet, EmulatorInv, PidsOnce
    <3>2. pidFree' \in Seq(Pids)
      BY <1>0, <2>2, <3>1 DEF Reaped
    <3>3. creator' \in [Threads -> Threads \cup {Nobody}]
      BY <1>0, <2>2 DEF Reaped
    <3>4. UNCHANGED <<ofile, f_count, open, reading, made>>
      BY <1>4 DEF Wait, fileVars
    <3>5. does[t] # "none"
      BY <1>4 DEF Wait
    <3> QED BY <1>0, <2>2, <3>1, <3>2, <3>3, <3>4, <3>5 DEF Reaped, StartPid
  <2> QED BY <1>4, <2>1, <2>2 DEF Wait
<1>5. ASSUME NEW t \in Threads, Open(t)
      PROVE  EmulatorTypeOK' /\ ThreadsOK'
  <2>1. PICK i \in Items :
            /\ f_count' = [f_count EXCEPT ![i] = 1]
            /\ open' = [open EXCEPT ![i] = TRUE]
            /\ ofile' = IF Ufalloc(t) = -1 THEN ofile
                        ELSE [ofile EXCEPT ![t][Ufalloc(t)] = i]
    BY <1>5 DEF Open
  <2>2. ofile' \in [Threads -> [Fds -> Items \cup {Nobody}]]
    BY <1>0, <2>1, UfallocIsFree
  <2>3. \A u \in Threads : u # t => ofile'[u] = ofile[u]
    BY <1>0, <2>1
  <2>4. stat[t] = "SRUN" /\ made' \in 0..MaxCalls
    BY <1>0, <1>5 DEF Open, Runs, Counted
  <2> QED BY <1>0, <1>5, <2>1, <2>2, <2>3, <2>4 DEF Open, procVars
<1>6. ASSUME NEW t \in Threads, NEW d \in Fds, Close(t, d)
      PROVE  EmulatorTypeOK' /\ ThreadsOK'
  <2>1. /\ f_count' \in [Items -> -SignBit..SignBit - 1]
        /\ open' \in [Items -> BOOLEAN]
    <3>1. ofile[t][d] \in Items
      BY <1>0, <1>6 DEF Close
    <3>2. DropOne(ofile[t][d]) \in [Items -> Nat]
      BY <1>d, <3>1
    <3> QED BY <1>6, <1>e, <3>2 DEF Close
  <2>2. stat[t] = "SRUN" /\ made' \in 0..MaxCalls
    BY <1>0, <1>6 DEF Close, Runs, Counted
  <2> QED BY <1>0, <1>6, <2>1, <2>2 DEF Close, procVars
<1>7. ASSUME NEW t \in Threads, NEW d \in Fds, NEW e \in Fds, ofile[t][d] # Nobody,
             Duplicate(t, d, e), Runs(t), Counted, UNCHANGED <<procVars, does, reading>>
      PROVE  EmulatorTypeOK' /\ ThreadsOK'
  <2> DEFINE k == IF ofile[t][e] = Nobody THEN [i \in Items |-> 0] ELSE DropOne(ofile[t][e])
  <2>1. k \in [Items -> Nat]
    BY <1>0, <1>d
  <2>2. /\ ofile' = [ofile EXCEPT ![t][e] = ofile[t][d]]
        /\ f_count' = [Drop(k) EXCEPT ![ofile[t][d]] = Wrap(@ + 1)]
        /\ open' = Shut(k)
    BY <1>7 DEF Duplicate
  <2> HIDE DEF k
  <2>3. /\ Drop(k) \in [Items -> -SignBit..SignBit - 1] /\ Shut(k) \in [Items -> BOOLEAN]
    BY <1>e, <2>1
  <2>4. ofile[t][d] \in Items /\ Drop(k)[ofile[t][d]] + 1 \in Int
    BY <1>0, <1>7, <2>3
  <2>5. f_count' \in [Items -> -SignBit..SignBit - 1]
    BY <1>a, <2>2, <2>3, <2>4
  <2>6. stat[t] = "SRUN" /\ made' \in 0..MaxCalls
    BY <1>0, <1>7 DEF Runs, Counted
  <2> QED BY <1>0, <1>7, <2>2, <2>3, <2>4, <2>5, <2>6 DEF procVars
<1>8. ASSUME NEW t \in Threads, NEW d \in Fds, Dup(t, d)
      PROVE  EmulatorTypeOK' /\ ThreadsOK'
  BY <1>7, <1>8, UfallocIsFree DEF Dup
<1>9. ASSUME NEW t \in Threads, NEW d \in Fds, NEW e \in Fds, Dup2(t, d, e)
      PROVE  EmulatorTypeOK' /\ ThreadsOK'
  BY <1>7, <1>9 DEF Dup2
<1>10. ASSUME NEW t \in Threads, NEW d \in Fds, UseClosed(t, d) \/ SeekStd(t, d)
       PROVE  EmulatorTypeOK' /\ ThreadsOK'
  BY <1>0, <1>10 DEF UseClosed, SeekStd, Die, Runs, procVars, fileVars
<1>11. ASSUME NEW t \in Threads, NEW d \in Fds, ReadStdin(t, d)
       PROVE  EmulatorTypeOK' /\ ThreadsOK'
  BY <1>0, <1>11 DEF ReadStdin, procVars, fileVars
<1>12. ASSUME Input PROVE EmulatorTypeOK' /\ ThreadsOK'
  BY <1>0, <1>12 DEF Input, procVars, fileVars
<1>13. ASSUME UNCHANGED emulatorVars PROVE EmulatorTypeOK' /\ ThreadsOK'
  BY <1>0, <1>13 DEF emulatorVars, procVars, fileVars
<1> QED
  BY <1>1, <1>2, <1>3, <1>4, <1>5, <1>6, <1>8, <1>9, <1>10, <1>11, <1>12, <1>13
     DEF EmulatorNext, ThreadStep

\* What leaves pidFree, the states and the numbers of processes as they are: all steps but
\* fork, exit and wait.
LEMMA KeepsPids ==
    ASSUME NEW t \in Threads, ThreadStep(t),
           \A c \in Threads : ~Fork(t, c), ~Exit(t), ~Wait(t)
    PROVE  UNCHANGED procVars
BY DEF ThreadStep, ForkFails, Open, Close, Dup, Dup2, UseClosed, SeekStd, ReadStdin, procVars

\* Every step keeps the numbers where they belong.
LEMMA PidStep ==
    ASSUME EmulatorInv, [EmulatorNext]_emulatorVars
    PROVE  PidsOnce'
<1> USE DEF PidsOnce, procSet
<1>0. EmulatorTypeOK /\ PidsOnce
  BY DEF EmulatorInv
<1>1. ASSUME UNCHANGED procVars PROVE PidsOnce'
  BY <1>0, <1>1 DEF procVars
<1>2. ASSUME NEW t \in Threads, NEW c \in Threads, Fork(t, c) PROVE PidsOnce'
  <2>1. /\ pidFree # <<>> /\ pidFree' = Tail(pidFree) /\ stat[c] = "none"
        /\ stat' = [stat EXCEPT ![c] = "SRUN"] /\ pid' = [pid EXCEPT ![c] = Head(pidFree)]
    BY <1>2 DEF Fork
  <2>2. /\ Head(pidFree) \in Pids /\ Contains(pidFree, Head(pidFree))
        /\ IsInjective(pidFree')
        /\ \A x : Contains(pidFree', x) <=> Contains(pidFree, x) /\ x # Head(pidFree)
    BY <1>0, <2>1, TailProps DEF EmulatorTypeOK
  <2>3. /\ procSet' = procSet \cup {c} /\ c \notin procSet
        /\ pid'[c] = Head(pidFree) /\ \A u \in procSet : pid'[u] = pid[u]
    BY <1>0, <2>1 DEF EmulatorTypeOK
  <2> QED BY <1>0, <2>2, <2>3
<1>3. ASSUME NEW t \in Threads, Exit(t) PROVE PidsOnce'
  <2>1. stat[t] = "SRUN" /\ stat' = [stat EXCEPT ![t] = "SZOMB"]
    BY <1>3 DEF Exit, Runs, EmulatorInv, ThreadsOK
  <2>2. procSet' = procSet
    BY <1>0, <2>1 DEF EmulatorTypeOK
  <2>3. UNCHANGED <<pidFree, pid>>
    BY <1>3 DEF Exit
  <2> QED BY <1>0, <2>2, <2>3
<1>4. ASSUME NEW t \in Threads, Wait(t) PROVE PidsOnce'
  <2>1. ASSUME NEW q \in Children(t), stat[q] = "SZOMB", Reaped(q) PROVE PidsOnce'
    <3>1. /\ q \in procSet /\ pidFree' = Append(pidFree, pid[q])
          /\ stat' = [stat EXCEPT ![q] = "none"] /\ pid' = [pid EXCEPT ![q] = StartPid]
      BY <2>1 DEF Children, Reaped
    <3>2. pid[q] \in Pids /\ ~Contains(pidFree, pid[q])
      BY <1>0, <3>1
    <3>3. /\ IsInjective(pidFree')
          /\ \A x : Contains(pidFree', x) <=> Contains(pidFree, x) \/ x = pid[q]
      BY <1>0, <3>1, <3>2, AppendProps DEF EmulatorTypeOK
    <3>4. /\ procSet' = procSet \ {q}
          /\ \A u \in procSet' : pid'[u] = pid[u]
      BY <1>0, <3>1 DEF EmulatorTypeOK
    <3> QED BY <1>0, <3>1, <3>2, <3>3, <3>4
  <2> QED BY <1>1, <1>4, <2>1 DEF Wait
<1>5. ASSUME Input PROVE PidsOnce'
  BY <1>1, <1>5 DEF Input
<1>6. ASSUME UNCHANGED emulatorVars PROVE PidsOnce'
  BY <1>1, <1>6 DEF emulatorVars
<1>7. ASSUME NEW t \in Threads, ThreadStep(t) PROVE PidsOnce'
  BY <1>1, <1>2, <1>3, <1>4, <1>7, KeepsPids
<1> QED BY <1>5, <1>6, <1>7 DEF EmulatorNext

\* Who waits stays waiting without being a parent of a zombie, in every step.
LEMMA NotifyStep ==
    ASSUME EmulatorInv, [EmulatorNext]_emulatorVars
    PROVE  WaitersAreNotified'
<1> USE DEF WaitersAreNotified, Children, procSet
<1>0. EmulatorTypeOK /\ ThreadsOK /\ WaitersAreNotified
  BY DEF EmulatorInv
<1>1. ASSUME UNCHANGED procVars,
             \A u \in Threads : does'[u] = "wait" => does[u] = "wait"
      PROVE  WaitersAreNotified'
  BY <1>0, <1>1 DEF procVars
<1>2. ASSUME NEW t \in Threads, NEW c \in Threads, Fork(t, c) PROVE WaitersAreNotified'
  <2>1. /\ stat[c] = "none"
        /\ stat' = [stat EXCEPT ![c] = "SRUN"] /\ pid' = [pid EXCEPT ![c] = Head(pidFree)]
        /\ ppid' = [ppid EXCEPT ![c] = pid[t]] /\ does' = [does EXCEPT ![c] = "run"]
    BY <1>2 DEF Fork
  <2>2. \A u \in Threads : does'[u] = "wait" => u # c /\ does[u] = "wait"
    BY <1>0, <2>1 DEF EmulatorTypeOK
  <2>3. stat'[c] = "SRUN" /\ \A u \in Threads \ {c} :
            stat'[u] = stat[u] /\ pid'[u] = pid[u] /\ ppid'[u] = ppid[u]
    BY <1>0, <2>1 DEF EmulatorTypeOK
  <2> QED BY <1>0, <2>2, <2>3
<1>3. ASSUME NEW t \in Threads, Exit(t) PROVE WaitersAreNotified'
  <2> DEFINE parent == \E q \in procSet : pid[q] = ppid[t]
  <2>1. /\ stat' = [stat EXCEPT ![t] = "SZOMB"] /\ UNCHANGED <<pid, ppid>>
        /\ does' = [(IF parent THEN Notified ELSE does) EXCEPT ![t] = "none"]
    BY <1>3 DEF Exit
  <2>2. stat[t] = "SRUN"
    BY <1>0, <1>3 DEF Exit, Runs, ThreadsOK
  <2>3. CASE parent
    <3>1. does' = [Notified EXCEPT ![t] = "none"]
      BY <2>1, <2>3
    <3>2. \A u \in Threads : does'[u] # "wait"
      BY <3>1 DEF Notified
    <3> QED BY <3>2
  <2>4. CASE ~parent
    <3>1. does' = [does EXCEPT ![t] = "none"]
      BY <2>1, <2>4
    <3>2. \A u \in Threads : does'[u] = "wait" => does[u] = "wait" /\ u \in procSet
      BY <1>0, <3>1 DEF EmulatorTypeOK, ThreadsOK
    <3>3. \A u \in Threads : does'[u] = "wait" => ppid[t] # pid[u]
      BY <2>4, <3>2
    <3>4. \A q \in Threads \ {t} : stat'[q] = stat[q]
      BY <1>0, <2>1 DEF EmulatorTypeOK
    <3> QED BY <1>0, <2>1, <2>2, <3>2, <3>3, <3>4
  <2> QED BY <2>3, <2>4
<1>4. ASSUME NEW t \in Threads, Wait(t) PROVE WaitersAreNotified'
  <2>1. ASSUME NEW q \in Children(t), stat[q] = "SZOMB", Reaped(q),
               does' = [does EXCEPT ![t] = "run"]
        PROVE  WaitersAreNotified'
    <3>1. /\ stat' = [stat EXCEPT ![q] = "none"] /\ pid' = [pid EXCEPT ![q] = StartPid]
          /\ ppid' = [ppid EXCEPT ![q] = StartPid]
      BY <2>1 DEF Reaped
    <3>2. \A u \in Threads : does'[u] = "wait" => does[u] = "wait" /\ u # q
      BY <1>0, <2>1 DEF EmulatorTypeOK, ThreadsOK
    <3>3. \A u \in Threads \ {q} :
              stat'[u] = stat[u] /\ pid'[u] = pid[u] /\ ppid'[u] = ppid[u]
      BY <1>0, <3>1 DEF EmulatorTypeOK
    <3>4. stat'[q] = "none"
      BY <1>0, <2>1, <3>1 DEF EmulatorTypeOK
    <3> QED BY <1>0, <3>2, <3>3, <3>4
  <2>2. ASSUME UNCHANGED procVars, \A q \in Children(t) : stat[q] # "SZOMB",
               \A u \in Threads \ {t} : does'[u] = does[u]
        PROVE  WaitersAreNotified'
    BY <1>0, <2>2 DEF procVars
  <2>3. \A v : \A u \in Threads \ {t} : [does EXCEPT ![t] = v][u] = does[u]
    BY <1>0 DEF EmulatorTypeOK
  <2>4. CASE \E q \in Children(t) : stat[q] = "SZOMB"
    <3>1. /\ \E q \in Children(t) : stat[q] = "SZOMB" /\ Reaped(q)
          /\ does' = [does EXCEPT ![t] = "run"]
      BY <1>4, <2>4 DEF Wait
    <3> QED BY <2>1, <3>1
  <2>5. CASE \A q \in Children(t) : stat[q] # "SZOMB"
    <3>1. UNCHANGED procVars /\ \E v : does' = [does EXCEPT ![t] = v]
      BY <1>4, <2>5 DEF Wait
    <3> QED BY <2>2, <2>3, <2>5, <3>1
  <2> QED BY <2>4, <2>5
<1>5. ASSUME NEW t \in Threads, ThreadStep(t),
             \A c \in Threads : ~Fork(t, c), ~Exit(t), ~Wait(t)
      PROVE  WaitersAreNotified'
  <2>1. \/ does' = [does EXCEPT ![t] = "dead"] \/ does' = [does EXCEPT ![t] = "nopid"]
        \/ UNCHANGED does
    BY <1>5 DEF ThreadStep, ForkFails, Open, Close, Dup, Dup2, UseClosed, SeekStd, ReadStdin, Die
  <2>2. \A u \in Threads : does'[u] = "wait" => does[u] = "wait"
    BY <1>0, <2>1 DEF EmulatorTypeOK
  <2> QED BY <1>1, <1>5, <2>2, KeepsPids
<1>6. ASSUME Input PROVE WaitersAreNotified'
  BY <1>1, <1>6 DEF Input
<1>7. ASSUME UNCHANGED emulatorVars PROVE WaitersAreNotified'
  BY <1>1, <1>7 DEF emulatorVars
<1> QED BY <1>2, <1>3, <1>4, <1>5, <1>6, <1>7 DEF EmulatorNext

\* A descriptor refers to a file, which is not Nobody.
LEMMA NobodyIsNoItem == Nobody \notin Items
BY EmulatorAssumption

\* The numbers of descriptors are numbers, and the descriptors of the table ofile are those
\* that refer to i.
LEMMA DescriptorsType ==
    ASSUME NEW i
    PROVE  /\ Referring(i) = At(ofile, i)
           /\ Referring(i) \in SUBSET (Threads \X Fds)
           /\ LeftBehind(i) \in SUBSET (Threads \X Fds)
           /\ Cardinality(Referring(i)) \in Nat /\ Cardinality(LeftBehind(i)) \in Nat
           /\ Descriptors(i) \in Nat
<1>1. Referring(i) = At(ofile, i)
  BY DEF Referring, At
<1>2. Referring(i) \in SUBSET (Threads \X Fds) /\ LeftBehind(i) \in SUBSET (Threads \X Fds)
  BY DEF Referring, LeftBehind
<1> QED BY <1>1, <1>2, FinitelyMany DEF Descriptors

\* fork adds the descriptors of the child, ...
LEMMA ForkCounts ==
    ASSUME EmulatorInv, NEW t \in Threads, NEW c \in Threads, Fork(t, c), NEW i \in Items
    PROVE  Descriptors(i)' = Descriptors(i) + RefsOf(t, i)
<1>0. EmulatorTypeOK /\ ThreadsOK
  BY DEF EmulatorInv
<1>1. /\ stat[c] = "none" /\ ofile' = [ofile EXCEPT ![c] = ofile[t]]
      /\ does' = [does EXCEPT ![c] = "run"]
  BY DEF Fork
<1> DEFINE new == RowOf([u \in Threads |-> ofile[t]], c, i)
<1>2. \A d \in Fds : ofile[c][d] # i
  BY <1>0, <1>1, NobodyIsNoItem DEF ThreadsOK
<1>3. \A u \in Threads : ofile'[u] = IF u = c THEN ofile[t] ELSE ofile[u]
  BY <1>0, <1>1 DEF EmulatorTypeOK
<1>4. Referring(i)' = Referring(i) \cup new /\ Referring(i) \cap new = {}
  BY <1>2, <1>3 DEF Referring, RowOf
<1>5. LeftBehind(i)' = LeftBehind(i)
  <2>1. \A u \in Threads : does'[u] = IF u = c THEN "run" ELSE does[u]
    BY <1>0, <1>1 DEF EmulatorTypeOK
  <2> QED BY <1>2, <1>3, <2>1 DEF LeftBehind, Referring
<1>6. /\ new \in SUBSET (Threads \X Fds)
      /\ Cardinality(new) = RefsOf(t, i)
  BY RowCounted DEF RefsOf
<1> HIDE DEF new
<1>7. Cardinality(Referring(i) \cup new) = Cardinality(Referring(i)) + Cardinality(new)
  BY <1>4, <1>6, DescriptorsType, Together
<1>8. /\ Descriptors(i) = Cardinality(Referring(i)) + Cardinality(LeftBehind(i))
      /\ Descriptors(i)' = Cardinality(Referring(i)') + Cardinality(LeftBehind(i)')
  BY DEF Descriptors
<1> QED BY <1>4, <1>5, <1>6, <1>7, <1>8, DescriptorsType, RefsOfType

\* ... and if it fails leaves them behind, ...
LEMMA ForkFailsCounts ==
    ASSUME EmulatorInv, NEW t \in Threads, ForkFails(t), NEW i \in Items
    PROVE  Descriptors(i)' = Descriptors(i) + RefsOf(t, i)
<1>0. EmulatorTypeOK
  BY DEF EmulatorInv
<1>1. does[t] = "run" /\ does' = [does EXCEPT ![t] = "nopid"] /\ ofile' = ofile
  BY DEF ForkFails, Runs
<1> DEFINE new == RowOf(ofile, t, i)
<1>2. Referring(i)' = Referring(i)
  BY <1>1 DEF Referring
<1>3. LeftBehind(i)' = LeftBehind(i) \cup new /\ LeftBehind(i) \cap new = {}
  <2>1. \A u \in Threads : does'[u] = IF u = t THEN "nopid" ELSE does[u]
    BY <1>0, <1>1 DEF EmulatorTypeOK
  <2> QED BY <1>1, <2>1 DEF LeftBehind, Referring, RowOf
<1>4. new \in SUBSET (Threads \X Fds) /\ Cardinality(new) = RefsOf(t, i)
  BY RowCounted, RefsOfType
<1> HIDE DEF new
<1>5. Cardinality(LeftBehind(i) \cup new) = Cardinality(LeftBehind(i)) + Cardinality(new)
  BY <1>3, <1>4, DescriptorsType, Together
<1>6. /\ Descriptors(i) = Cardinality(Referring(i)) + Cardinality(LeftBehind(i))
      /\ Descriptors(i)' = Cardinality(Referring(i)') + Cardinality(LeftBehind(i)')
  BY DEF Descriptors
<1> QED BY <1>2, <1>3, <1>4, <1>5, <1>6, DescriptorsType, RefsOfType

\* ... exit takes those of the process away, ...
LEMMA ExitCounts ==
    ASSUME EmulatorInv, NEW t \in Threads, Exit(t), NEW i \in Items
    PROVE  /\ Descriptors(i)' = Descriptors(i) - RefsOf(t, i)
           /\ RefsOf(t, i) <= Descriptors(i)
<1>0. EmulatorTypeOK
  BY DEF EmulatorInv
<1>1. /\ does[t] = "run" /\ ofile' = [ofile EXCEPT ![t] = [d \in Fds |-> Nobody]]
      /\ does' = [does EXCEPT ![t] = "none"] \/ does' = [Notified EXCEPT ![t] = "none"]
  BY DEF Exit, Runs
<1> DEFINE old == RowOf(ofile, t, i)
<1>2. Referring(i)' = Referring(i) \ old /\ Referring(i) \cap old = old
  <2>1. \A u \in Threads : ofile'[u] = IF u = t THEN [d \in Fds |-> Nobody] ELSE ofile[u]
    BY <1>0, <1>1 DEF EmulatorTypeOK
  <2> QED BY <2>1, NobodyIsNoItem DEF Referring, RowOf
<1>3. LeftBehind(i)' = LeftBehind(i)
  <2>1. \A u \in Threads : u # t => ofile'[u] = ofile[u]
    BY <1>0, <1>1 DEF EmulatorTypeOK
  <2>2. does'[t] = "none" /\ \A u \in Threads : u # t =>
            (does'[u] = "nopid" <=> does[u] = "nopid")
    BY <1>0, <1>1 DEF EmulatorTypeOK, Notified
  <2> QED BY <1>1, <2>1, <2>2 DEF LeftBehind, Referring
<1>4. /\ old \in SUBSET (Threads \X Fds)
      /\ Cardinality(old) = RefsOf(t, i) /\ RefsOf(t, i) \in Nat
  BY RowCounted, RefsOfType
<1> HIDE DEF old
<1>5. /\ Cardinality(Referring(i) \ old) = Cardinality(Referring(i)) - Cardinality(old)
      /\ Cardinality(old) <= Cardinality(Referring(i))
  <2>1. IsFiniteSet(Referring(i)) /\ old \in SUBSET Referring(i)
    BY <1>2, DescriptorsType, FinitelyMany
  <2> QED BY <1>2, <2>1, FS_Difference, FS_Subset
<1>6. /\ Descriptors(i) = Cardinality(Referring(i)) + Cardinality(LeftBehind(i))
      /\ Descriptors(i)' = Cardinality(Referring(i)') + Cardinality(LeftBehind(i)')
  BY DEF Descriptors
<1> QED BY <1>2, <1>3, <1>4, <1>5, <1>6, DescriptorsType

\* ... and a step of a process that sets one of its descriptors changes what refers to the
\* old and the new file of it.
LEMMA CellCounts ==
    ASSUME EmulatorInv, NEW t \in Threads, does[t] = "run", UNCHANGED does,
           NEW e \in Fds, NEW v, SetsCell(ofile, ofile', t, e, v), NEW i \in Items
    PROVE  Descriptors(i)' = Descriptors(i) - (IF ofile[t][e] = i THEN 1 ELSE 0)
                                            + (IF v = i THEN 1 ELSE 0)
<1>0. EmulatorTypeOK
  BY DEF EmulatorInv
<1>1. Cardinality(At(ofile', i)) = Cardinality(At(ofile, i))
            - (IF ofile[t][e] = i THEN 1 ELSE 0) + (IF v = i THEN 1 ELSE 0)
  BY CellCounted
<1>2. Referring(i) = At(ofile, i) /\ Referring(i)' = At(ofile', i)
  BY DEF Referring, At
<1>3. LeftBehind(i)' = LeftBehind(i)
  <2>1. \A u \in Threads, d \in Fds : u # t => ofile'[u][d] = ofile[u][d]
    BY DEF SetsCell
  <2> QED BY <2>1 DEF LeftBehind, Referring
<1>4. /\ Descriptors(i) = Cardinality(Referring(i)) + Cardinality(LeftBehind(i))
      /\ Descriptors(i)' = Cardinality(Referring(i)') + Cardinality(LeftBehind(i)')
  BY DEF Descriptors
<1> QED BY <1>1, <1>2, <1>3, <1>4, DescriptorsType

\* What a process has on a file is part of all there is.
LEMMA RefsOfBound ==
    ASSUME NEW t \in Threads, NEW i
    PROVE  RefsOf(t, i) <= Descriptors(i)
<1>1. RowOf(ofile, t, i) \in SUBSET Referring(i)
  BY DEF RowOf, Referring
<1>2. RefsOf(t, i) <= Cardinality(Referring(i))
  BY <1>1, RefsOfType, DescriptorsType, FinitelyMany, FS_Subset
<1> QED BY <1>2, RefsOfType, DescriptorsType DEF Descriptors

\* A count that is right stays so if what is added to it is added to the descriptors.
LEMMA StaysCounted ==
    ASSUME NEW f \in Int, NEW n \in Nat, NEW k \in Int,
           n > 0 => f = Wrap(n), n + k > 0 => n > 0
    PROVE  n + k > 0 => Wrap(f + k) = Wrap(n + k)
BY WrapAdd

\* Every step keeps the counts those of the descriptors.
LEMMA CountStep ==
    ASSUME EmulatorInv, [EmulatorNext]_emulatorVars
    PROVE  ReferencesCounted'
<1>0. EmulatorTypeOK /\ ReferencesCounted
  BY DEF EmulatorInv
<1>a. ASSUME NEW i \in Items
      PROVE  /\ f_count[i] \in Int /\ Descriptors(i) \in Nat
             /\ Descriptors(i) > 0 => f_count[i] = Wrap(Descriptors(i))
  BY <1>0, EmulatorAssumption, DescriptorsType DEF EmulatorTypeOK, ReferencesCounted
<1>b. ASSUME NEW i \in Items, NEW k \in Int, Descriptors(i)' = Descriptors(i) + k,
             f_count'[i] = Wrap(f_count[i] + k), Descriptors(i)' > 0 => Descriptors(i) > 0
      PROVE  Descriptors(i)' > 0 => f_count'[i] = Wrap(Descriptors(i)')
  BY <1>a, <1>b, StaysCounted
<1>c. ASSUME UNCHANGED <<ofile, f_count>>,
             \A u \in Threads : does'[u] = "nopid" <=> does[u] = "nopid"
      PROVE  ReferencesCounted'
  <2>1. ASSUME NEW i \in Items
        PROVE  Descriptors(i)' = Descriptors(i)
    <3>1. Referring(i)' = Referring(i) /\ LeftBehind(i)' = LeftBehind(i)
      BY <1>c DEF Referring, LeftBehind
    <3> QED BY <3>1 DEF Descriptors
  <2> QED BY <1>0, <1>c, <2>1 DEF ReferencesCounted
<1>1. ASSUME NEW t \in Threads, f_count' = AddRefs(t),
             \A i \in Items : Descriptors(i)' = Descriptors(i) + RefsOf(t, i)
      PROVE  ReferencesCounted'
  <2> SUFFICES ASSUME NEW i \in Items
               PROVE  Descriptors(i)' > 0 => f_count'[i] = Wrap(Descriptors(i)')
    BY DEF ReferencesCounted
  <2>1. RefsOf(t, i) \in Nat /\ RefsOf(t, i) <= Descriptors(i)
    BY RefsOfType, RefsOfBound
  <2>2. f_count'[i] = Wrap(f_count[i] + RefsOf(t, i))
    BY <1>1 DEF AddRefs
  <2> QED BY <1>1, <1>a, <1>b, <2>1, <2>2
<1>2. ASSUME NEW t \in Threads, NEW c \in Threads, Fork(t, c) PROVE ReferencesCounted'
  BY <1>1, <1>2, ForkCounts DEF Fork
<1>3. ASSUME NEW t \in Threads, ForkFails(t) PROVE ReferencesCounted'
  BY <1>1, <1>3, ForkFailsCounts DEF ForkFails
<1>4. ASSUME NEW t \in Threads, Exit(t) PROVE ReferencesCounted'
  <2> SUFFICES ASSUME NEW i \in Items
               PROVE  Descriptors(i)' > 0 => f_count'[i] = Wrap(Descriptors(i)')
    BY DEF ReferencesCounted
  <2>1. RefsOf(t, i) \in Nat /\ Descriptors(i)' = Descriptors(i) - RefsOf(t, i)
    BY <1>4, RefsOfType, ExitCounts
  <2>2. f_count'[i] = Wrap(f_count[i] - RefsOf(t, i))
    BY <1>4 DEF Exit, Drop
  <2> DEFINE k == -RefsOf(t, i)
  <2>3. /\ k \in Int /\ Descriptors(i)' = Descriptors(i) + k
        /\ f_count[i] - RefsOf(t, i) = f_count[i] + k
        /\ Descriptors(i)' > 0 => Descriptors(i) > 0
    BY <1>a, <2>1
  <2> HIDE DEF k
  <2>4. f_count'[i] = Wrap(f_count[i] + k)
    BY <2>2, <2>3
  <2> QED BY <1>b, <2>3, <2>4
<1>5. ASSUME NEW t \in Threads, Open(t) PROVE ReferencesCounted'
  <2>1. PICK j \in Items :
            /\ \A q \in Threads : RefsOf(q, j) = 0
            /\ f_count' = [f_count EXCEPT ![j] = 1]
            /\ ofile' = IF Ufalloc(t) = -1 THEN ofile ELSE [ofile EXCEPT ![t][Ufalloc(t)] = j]
    BY <1>5 DEF Open
  <2>2. Descriptors(j) = 0
    <3>1. \A q \in Threads, d \in Fds : ofile[q][d] # j
      <4>1. ASSUME NEW q \in Threads PROVE \A d \in Fds : ofile[q][d] # j
        <5>1. IsFiniteSet({d \in Fds : ofile[q][d] = j})
          BY FinitelyMany, FS_Subset
        <5>2. {d \in Fds : ofile[q][d] = j} = {}
          BY <2>1, <5>1, FS_EmptySet DEF RefsOf
        <5> QED BY <5>2
      <4> QED BY <4>1
    <3>2. Referring(j) = {} /\ LeftBehind(j) = {}
      BY <3>1 DEF Referring, LeftBehind
    <3> QED BY <3>2, FS_EmptySet DEF Descriptors
  <2>3. does[t] = "run" /\ UNCHANGED does
    BY <1>5 DEF Open, Runs
  <2>4. CASE Ufalloc(t) = -1
    <3>1. ofile' = ofile
      BY <2>1, <2>4
    <3>2. ASSUME NEW i \in Items PROVE Descriptors(i)' = Descriptors(i)
      BY <2>3, <3>1 DEF Descriptors, Referring, LeftBehind
    <3>3. ASSUME NEW i \in Items
          PROVE  Descriptors(i)' > 0 => f_count'[i] = Wrap(Descriptors(i)')
      <4>1. i # j => f_count'[i] = f_count[i]
        BY <1>0, <2>1 DEF EmulatorTypeOK
      <4> QED BY <1>a, <2>2, <3>2, <4>1
    <3> QED BY <3>3 DEF ReferencesCounted
  <2>5. CASE Ufalloc(t) # -1
    <3> DEFINE d == Ufalloc(t)
    <3>1. /\ d \in Fds /\ ofile[t][d] = Nobody
          /\ SetsCell(ofile, ofile', t, d, j)
      BY <1>0, <2>1, <2>5, UfallocIsFree DEF SetsCell, EmulatorTypeOK
    <3> HIDE DEF d
    <3>2. ASSUME NEW i \in Items
          PROVE  Descriptors(i)' = Descriptors(i) + (IF j = i THEN 1 ELSE 0)
      <4>1. Descriptors(i)' = Descriptors(i) - (IF ofile[t][d] = i THEN 1 ELSE 0)
                                             + (IF j = i THEN 1 ELSE 0)
        BY <2>3, <3>1, CellCounts
      <4> QED BY <1>a, <3>1, <4>1, NobodyIsNoItem
    <3>3. ASSUME NEW i \in Items
          PROVE  Descriptors(i)' > 0 => f_count'[i] = Wrap(Descriptors(i)')
      <4>1. CASE i = j
        <5>1. Descriptors(i)' = 1 /\ f_count'[i] = 1
          BY <1>0, <2>1, <2>2, <3>2, <4>1 DEF EmulatorTypeOK
        <5>2. Wrap(1) = 1
          BY WrapAdd, EmulatorAssumption
        <5> QED BY <5>1, <5>2
      <4>2. CASE i # j
        <5>1. Descriptors(i)' = Descriptors(i) /\ f_count'[i] = f_count[i]
          BY <1>0, <1>a, <2>1, <3>2, <4>2 DEF EmulatorTypeOK
        <5> QED BY <1>a, <5>1
      <4> QED BY <4>1, <4>2
    <3> QED BY <3>3 DEF ReferencesCounted
  <2> QED BY <2>4, <2>5
<1>6. ASSUME NEW t \in Threads, NEW d \in Fds, Close(t, d) PROVE ReferencesCounted'
  <2>1. /\ does[t] = "run" /\ UNCHANGED does /\ ofile[t][d] \in Items
        /\ ofile' = [ofile EXCEPT ![t][d] = Nobody]
        /\ f_count' = Drop(DropOne(ofile[t][d]))
    BY <1>0, <1>6 DEF Close, Runs, EmulatorTypeOK
  <2> SUFFICES ASSUME NEW i \in Items
               PROVE  Descriptors(i)' > 0 => f_count'[i] = Wrap(Descriptors(i)')
    BY DEF ReferencesCounted
  <2> DEFINE k == IF ofile[t][d] = i THEN -1 ELSE 0
  <2>2. Descriptors(i)' = Descriptors(i) - (IF ofile[t][d] = i THEN 1 ELSE 0)
                                         + (IF Nobody = i THEN 1 ELSE 0)
    <3>1. SetsCell(ofile, ofile', t, d, Nobody)
      BY <1>0, <2>1 DEF SetsCell, EmulatorTypeOK
    <3>2. \A v : SetsCell(ofile, ofile', t, d, v) =>
            Descriptors(i)' = Descriptors(i) - (IF ofile[t][d] = i THEN 1 ELSE 0)
                                             + (IF v = i THEN 1 ELSE 0)
      BY <2>1, CellCounts
    <3> QED BY <3>1, <3>2
  <2>3. k \in Int /\ Descriptors(i)' = Descriptors(i) + k
    BY <1>a, <2>2, NobodyIsNoItem
  <2>4. f_count'[i] = Wrap(f_count[i] + k)
    <3>1. f_count'[i] = Wrap(f_count[i] - DropOne(ofile[t][d])[i])
      BY <2>1 DEF Drop
    <3>2. f_count[i] - DropOne(ofile[t][d])[i] = f_count[i] + k
      BY <1>a, <2>1 DEF DropOne
    <3> QED BY <3>1, <3>2
  <2>5. Descriptors(i)' > 0 => Descriptors(i) > 0
    BY <1>a, <2>3
  <2> HIDE DEF k
  <2> QED BY <1>b, <2>3, <2>4, <2>5
<1>7. ASSUME NEW t \in Threads, NEW d \in Fds, NEW e \in Fds, d # e,
             ofile[t][d] # Nobody, Duplicate(t, d, e), does[t] = "run", UNCHANGED does
      PROVE  ReferencesCounted'
  <2> SUFFICES ASSUME NEW i \in Items
               PROVE  Descriptors(i)' > 0 => f_count'[i] = Wrap(Descriptors(i)')
    BY DEF ReferencesCounted
  <2> DEFINE x == ofile[t][d]
             y == ofile[t][e]
             j == IF y = i THEN 1 ELSE 0
             k == IF x = i THEN 1 ELSE 0
             K == IF y = Nobody THEN [m \in Items |-> 0] ELSE DropOne(y)
  <2>1. x \in Items /\ y \in Items \cup {Nobody}
    BY <1>0, <1>7 DEF EmulatorTypeOK
  <2>2. ofile' = [ofile EXCEPT ![t][e] = x] /\ f_count' = [Drop(K) EXCEPT ![x] = Wrap(@ + 1)]
    BY <1>7 DEF Duplicate
  <2>3. K[i] = j
    BY <2>1, NobodyIsNoItem DEF DropOne
  <2>4. Drop(K) = [m \in Items |-> Wrap(f_count[m] - K[m])]
    BY DEF Drop
  <2>5. Drop(K)[i] = Wrap(f_count[i] - j)
    BY <2>3, <2>4
  <2>6. f_count'[i] = IF x = i THEN Wrap(Wrap(f_count[i] - j) + 1) ELSE Wrap(f_count[i] - j)
    <3> HIDE DEF K, x, j
    <3> QED BY <2>2, <2>4, <2>5
  <2>7. Descriptors(i)' = Descriptors(i) - j + k
    <3>1. Descriptors(i)' = Descriptors(i) - (IF ofile[t][e] = i THEN 1 ELSE 0)
                                           + (IF x = i THEN 1 ELSE 0)
      <4> HIDE DEF x
      <4>1. SetsCell(ofile, ofile', t, e, x)
        BY <1>0, <2>2 DEF SetsCell, EmulatorTypeOK
      <4> QED BY <1>7, <4>1, CellCounts
    <3> QED BY <3>1
  <2>8. Descriptors(i)' > 0 => Descriptors(i) > 0
    <3>1. x = i => RefsOf(t, i) > 0
      <4>1. /\ IsFiniteSet({c \in Fds : ofile[t][c] = i})
            /\ x = i => {c \in Fds : ofile[t][c] = i} # {}
        BY FinitelyMany, FS_Subset
      <4> HIDE DEF x
      <4>2. x = i => RefsOf(t, i) # 0
        BY <4>1, FS_EmptySet DEF RefsOf
      <4> QED BY <4>2, RefsOfType
    <3>2. x = i => Descriptors(i) > 0
      BY <1>a, <3>1, RefsOfBound, RefsOfType
    <3> HIDE DEF x, y
    <3> QED BY <1>a, <2>7, <3>2
  <2>9. j \in {0, 1} /\ k \in {0, 1} /\ f_count[i] - j \in Int
    BY <1>a
  <2>10. f_count'[i] = Wrap(f_count[i] + (k - j))
    <3>1. Wrap(Wrap(f_count[i] - j) + 1) = Wrap(f_count[i] - j + 1)
      BY <2>9, WrapAdd
    <3>2. /\ x = i => f_count[i] - j + 1 = f_count[i] + (k - j)
          /\ x # i => f_count[i] - j = f_count[i] + (k - j)
      BY <1>a, <2>9
    <3> HIDE DEF x, j, k
    <3> QED BY <2>6, <3>1, <3>2
  <2>11. Descriptors(i)' = Descriptors(i) + (k - j)
    <3> HIDE DEF j, k
    <3> QED BY <1>a, <2>7, <2>9
  <2>12. k - j \in Int
    <3> HIDE DEF j, k
    <3> QED BY <2>9
  <2> HIDE DEF j, k
  <2> QED BY <1>b, <2>8, <2>10, <2>11, <2>12
<1>8. ASSUME NEW t \in Threads, NEW d \in Fds, Dup(t, d) PROVE ReferencesCounted'
  <2>1. /\ ofile[t][d] # Nobody /\ Ufalloc(t) # -1 /\ Duplicate(t, d, Ufalloc(t))
        /\ does[t] = "run" /\ UNCHANGED does
    BY <1>8 DEF Dup, Runs
  <2>2. Ufalloc(t) \in Fds /\ ofile[t][Ufalloc(t)] = Nobody
    BY <2>1, UfallocIsFree
  <2> QED BY <1>7, <2>1, <2>2
<1>9. ASSUME NEW t \in Threads, NEW d \in Fds, NEW e \in Fds, Dup2(t, d, e)
      PROVE  ReferencesCounted'
  BY <1>7, <1>9 DEF Dup2, Runs
<1>10. ASSUME NEW t \in Threads, Wait(t) PROVE ReferencesCounted'
  <2>1. /\ does[t] \in {"run", "woken"} /\ UNCHANGED <<ofile, f_count>>
        /\ \E v \in {"run", "wait"} : does' = [does EXCEPT ![t] = v]
    BY <1>10 DEF Wait, fileVars
  <2>2. \A u \in Threads : does'[u] = "nopid" <=> does[u] = "nopid"
    BY <1>0, <2>1 DEF EmulatorTypeOK
  <2> QED BY <1>c, <2>1, <2>2
<1>11. ASSUME NEW t \in Threads, NEW d \in Fds,
              UseClosed(t, d) \/ SeekStd(t, d) \/ ReadStdin(t, d)
       PROVE  ReferencesCounted'
  <2>1. /\ does[t] = "run" /\ UNCHANGED <<ofile, f_count>>
        /\ does' = [does EXCEPT ![t] = "dead"] \/ UNCHANGED does
    BY <1>11 DEF UseClosed, SeekStd, ReadStdin, Die, Runs, fileVars
  <2>2. \A u \in Threads : does'[u] = "nopid" <=> does[u] = "nopid"
    BY <1>0, <2>1 DEF EmulatorTypeOK
  <2> QED BY <1>c, <2>1, <2>2
<1>12. ASSUME Input \/ UNCHANGED emulatorVars PROVE ReferencesCounted'
  BY <1>c, <1>12 DEF Input, emulatorVars, fileVars
<1> QED
  BY <1>2, <1>3, <1>4, <1>5, <1>6, <1>8, <1>9, <1>10, <1>11, <1>12
     DEF EmulatorNext, ThreadStep

----------------------------------------------------------------------------
(* Theorems *)

\* VaxInterpreter.main: it begins well, with the numbers but one free and each standard file
\* in one descriptor.
LEMMA InitInv == EmulatorInit => EmulatorInv
<1> SUFFICES ASSUME EmulatorInit PROVE EmulatorInv
  OBVIOUS
<1> USE EmulatorAssumption
<1>1. /\ pidFree \in Seq(Pids) /\ IsInjective(pidFree)
      /\ \A p : Contains(pidFree, p) <=> p \in 2..NPIDS
  <2>1. pidFree = [n \in 1..NPIDS - 1 |-> n + 1] /\ NPIDS - 1 \in Nat
    BY DEF EmulatorInit
  <2>2. \A n \in 1..NPIDS - 1 : n + 1 \in Pids
    BY DEF Pids
  <2>3. pidFree \in Seq(Pids) /\ Len(pidFree) = NPIDS - 1
    BY <2>1, <2>2, IsASeq
  <2>4. \A n \in 1..NPIDS - 1 : pidFree[n] = n + 1
    BY <2>1
  <2>5. IsInjective(pidFree)
    <3>1. \A a, b \in 1..Len(pidFree) : pidFree[a] = pidFree[b] => a = b
      BY <2>3, <2>4
    <3> QED BY <2>3, <3>1, InjectiveSeq
  <2>6. ASSUME NEW p PROVE Contains(pidFree, p) <=> p \in 2..NPIDS
    <3>1. Contains(pidFree, p) <=> \E n \in 1..NPIDS - 1 : n + 1 = p
      BY <2>3, <2>4 DEF Contains
    <3>2. p \in 2..NPIDS => p - 1 \in 1..NPIDS - 1 /\ (p - 1) + 1 = p
      OBVIOUS
    <3> QED BY <3>1, <3>2
  <2> QED BY <2>3, <2>5, <2>6
<1>2. EmulatorTypeOK
  <2>1. ofile \in [Threads -> [Fds -> Items \cup {Nobody}]]
    <3>1. \A d \in Fds : d < Len(Std) => Std[d + 1] \in Items
      BY DEF Fds
    <3> QED BY <3>1 DEF EmulatorInit
  <2>2. f_count \in [Items -> -SignBit..SignBit - 1]
    BY DEF EmulatorInit
  <2> QED BY <1>1, <2>1, <2>2 DEF EmulatorInit, EmulatorTypeOK, Pids, StartPid
<1>3. ThreadsOK
  BY DEF EmulatorInit, ThreadsOK
<1>4. PidsOnce
  <2>1. procSet = {First} /\ pid[First] = 1
    BY DEF EmulatorInit, procSet
  <2> QED BY <1>1, <2>1 DEF PidsOnce, Pids
<1>5. ReferencesCounted
  <2> SUFFICES ASSUME NEW i \in Items, Descriptors(i) > 0
               PROVE  f_count[i] = Wrap(Descriptors(i))
    BY DEF ReferencesCounted
  <2>1. LeftBehind(i) = {}
    BY DEF EmulatorInit, LeftBehind, Referring
  <2>2. \A w \in Referring(i) : w[1] = First /\ w[2] + 1 \in 1..Len(Std) /\ Std[w[2] + 1] = i
    BY NobodyIsNoItem DEF EmulatorInit, Referring, Fds
  <2>3. \A w, x \in Referring(i) : w = x
    <3>1. \A a, b \in 1..Len(Std) : Std[a] = Std[b] => a = b
      BY InjectiveSeq
    <3> TAKE w, x \in Referring(i)
    <3>2. w[2] + 1 = x[2] + 1 /\ w[2] \in Int /\ x[2] \in Int
      BY <2>2, <3>1 DEF Referring, Fds
    <3> QED BY <2>2, <3>2 DEF Referring
  <2>4. Referring(i) # {}
    BY <2>1, FS_EmptySet DEF Descriptors
  <2>5. PICK w : Referring(i) = {w}
    BY <2>3, <2>4
  <2>6. Descriptors(i) = 1
    <3>1. Cardinality(Referring(i)) = 1 /\ Cardinality(LeftBehind(i)) = 0
      BY <2>1, <2>5, FS_Singleton, FS_EmptySet
    <3> QED BY <3>1 DEF Descriptors
  <2>7. i \in Range(Std)
    BY <2>2, <2>5 DEF Range
  <2>8. f_count[i] = 1 /\ Wrap(1) = 1
    BY <2>7, WrapAdd DEF EmulatorInit
  <2> QED BY <2>6, <2>8
<1>6. WaitersAreNotified
  BY DEF EmulatorInit, WaitersAreNotified
<1> QED BY <1>2, <1>3, <1>4, <1>5, <1>6 DEF EmulatorInv

\* Kernel.java, FileItem.java: the tables of processes and of open files agree, whatever
\* threads do in which order.
THEOREM EmulatorInvariant == EmulatorSpec => []EmulatorInv
<1>1. EmulatorInv /\ [EmulatorNext]_emulatorVars => EmulatorInv'
  BY TypeStep, PidStep, CountStep, NotifyStep DEF EmulatorInv
<1> QED BY InitInv, <1>1, PTL DEF EmulatorSpec

\* Kernel.java:101-142: the numbers as PidsOnce has them are accounted for.
LEMMA PidsOnceAccounts == PidsOnce => PidsAccounted
<1> SUFFICES ASSUME PidsOnce, NEW p \in Pids
             PROVE  Cardinality({t \in procSet : pid[t] = p})
                        + (IF Contains(pidFree, p) THEN 1 ELSE 0) = 1
  BY DEF PidsAccounted, PidsOnce
<1> DEFINE P == {t \in procSet : pid[t] = p}
<1>1. CASE Contains(pidFree, p)
  <2>1. P = {}
    BY <1>1 DEF PidsOnce
  <2> QED BY <1>1, <2>1, FS_EmptySet
<1>2. CASE ~Contains(pidFree, p)
  <2>1. PICK t \in procSet : pid[t] = p
    BY <1>2 DEF PidsOnce
  <2>2. Cardinality(P) = 1
    <3>1. P = {t}
      BY <2>1 DEF PidsOnce
    <3> QED BY <3>1, FS_Singleton
  <2> QED BY <1>2, <2>2
<1> QED BY <1>1, <1>2

\* Kernel.java:101-245, FileItem.java:122-125: however many processes fork, exit, wait, open
\* and close, each number is free or that of one process, f_count is the number of
\* descriptors as far as its width goes, and who waits has no zombie.
THEOREM EmulatorTheorem == EmulatorSpec => []EmulatorOK
<1>1. EmulatorInv => EmulatorOK
  BY PidsOnceAccounts DEF EmulatorInv, EmulatorOK, TablesOK
<1> QED BY EmulatorInvariant, <1>1, PTL

\* FileItem.close: as long as the count fits into f_count, a channel is found unused only by
\* who takes the last reference away.
LEMMA ClosedByTheLast ==
    ASSUME NEW n \in Nat, n < SignBit, NEW k \in Nat, k <= n,
           NEW j \in 1..k, ~(Wrap(Wrap(n) - j) > 0)
    PROVE  k = n
<1>1. n \in -SignBit..SignBit - 1 /\ n - j \in -SignBit..SignBit - 1
  BY EmulatorAssumption
<1>2. Wrap(n) = n /\ Wrap(n - j) = n - j
  BY <1>1, WrapAdd
<1> QED BY <1>2

\* Two descriptors of a process on one file count twice.
LEMMA TwoDescriptors ==
    ASSUME NEW t \in Threads, NEW d \in Fds, NEW e \in Fds, d # e, NEW i \in Items,
           ofile[t][d] = i, ofile[t][e] = i
    PROVE  Descriptors(i) >= 2
<1>1. {<<t, d>>} \cup {<<t, e>>} \in SUBSET Referring(i)
  BY DEF Referring
<1>2. Cardinality({<<t, d>>} \cup {<<t, e>>}) = 2
  <2>1. IsFiniteSet({<<t, d>>}) /\ Cardinality({<<t, d>>}) = 1 /\ <<t, e>> \notin {<<t, d>>}
    BY FS_Singleton
  <2>2. Cardinality({<<t, d>>} \cup {<<t, e>>}) = Cardinality({<<t, d>>}) + 1
    BY <2>1, FS_AddElement
  <2> QED BY <2>1, <2>2
<1>3. Cardinality(Referring(i)) >= 2
  BY <1>1, <1>2, DescriptorsType, FinitelyMany, FS_Subset
<1> QED BY <1>3, DescriptorsType DEF Descriptors

\* What one step may close.
LEMMA ClosingStep ==
    ASSUME EmulatorInv, [EmulatorNext]_emulatorVars,
           NEW i \in Items, open[i], ~open'[i], Descriptors(i) < SignBit
    PROVE  Descriptors(i)' = 0
<1>0. EmulatorTypeOK
  BY DEF EmulatorInv
<1>a. /\ f_count[i] \in Int /\ Descriptors(i) \in Nat
      /\ Descriptors(i) > 0 => f_count[i] = Wrap(Descriptors(i))
  BY EmulatorAssumption, DescriptorsType DEF EmulatorInv, EmulatorTypeOK, ReferencesCounted
<1>b. ASSUME NEW k \in [Items -> Nat], open' = Shut(k), k[i] <= Descriptors(i)
      PROVE  k[i] = Descriptors(i)
  <2>1. PICK j \in 1..k[i] : ~(Wrap(f_count[i] - j) > 0)
    BY <1>b DEF Shut
  <2>2. Descriptors(i) > 0
    BY <1>a, <1>b, <2>1
  <2> QED BY <1>a, <1>b, <2>1, <2>2, ClosedByTheLast
<1>c. ASSUME NEW k \in [Items -> Nat], open' = Shut(k) PROVE k[i] # 0
  <2>1. k[i] = 0 => 1..k[i] = {}
    OBVIOUS
  <2> QED BY <1>c, <2>1 DEF Shut
<1>1. ASSUME NEW t \in Threads, Exit(t) PROVE Descriptors(i)' = 0
  <2> DEFINE k == [m \in Items |-> RefsOf(t, m)]
  <2>1. open' = Shut(k) /\ k \in [Items -> Nat] /\ k[i] = RefsOf(t, i)
    BY <1>1, RefsOfType DEF Exit
  <2> HIDE DEF k
  <2>2. RefsOf(t, i) = Descriptors(i)
    BY <1>b, <2>1, RefsOfBound
  <2> QED BY <1>1, <1>a, <2>2, ExitCounts
<1>2. ASSUME NEW t \in Threads, NEW d \in Fds, Close(t, d) PROVE Descriptors(i)' = 0
  <2> DEFINE k == DropOne(ofile[t][d])
  <2>1. /\ open' = Shut(k) /\ does[t] = "run" /\ UNCHANGED does
        /\ SetsCell(ofile, ofile', t, d, Nobody)
    BY <1>0, <1>2 DEF Close, Runs, SetsCell, EmulatorTypeOK
  <2>2. k \in [Items -> Nat] /\ k[i] = IF i = ofile[t][d] THEN 1 ELSE 0
    BY DEF DropOne
  <2>3. i = ofile[t][d]
    <3> HIDE DEF k
    <3> QED BY <1>c, <2>1, <2>2
  <2>4. RefsOf(t, i) > 0
    <3>1. i \in Items /\ {c \in Fds : ofile[t][c] = i} # {}
      BY <2>3
    <3> QED BY <3>1, FinitelyMany, FS_Subset, FS_EmptySet, RefsOfType DEF RefsOf
  <2>5. 1 <= Descriptors(i)
    BY <1>a, <2>4, RefsOfBound, RefsOfType
  <2> HIDE DEF k
  <2>6. Descriptors(i) = 1
    BY <1>b, <2>1, <2>2, <2>3, <2>5
  <2>7. \A v : SetsCell(ofile, ofile', t, d, v) =>
            Descriptors(i)' = Descriptors(i) - (IF ofile[t][d] = i THEN 1 ELSE 0)
                                             + (IF v = i THEN 1 ELSE 0)
    BY <2>1, CellCounts
  <2> QED BY <2>1, <2>3, <2>6, <2>7, NobodyIsNoItem
<1>3. ASSUME NEW t \in Threads, NEW d \in Fds, NEW e \in Fds, d # e,
             Duplicate(t, d, e), does[t] = "run", UNCHANGED does
      PROVE  Descriptors(i)' = 0
  <2> DEFINE x == ofile[t][d]
             y == ofile[t][e]
             k == IF y = Nobody THEN [m \in Items |-> 0] ELSE DropOne(y)
  <2>1. open' = Shut(k) /\ SetsCell(ofile, ofile', t, e, x)
    BY <1>0, <1>3 DEF Duplicate, SetsCell, EmulatorTypeOK
  <2>2. k \in [Items -> Nat] /\ k[i] = IF y = i THEN 1 ELSE 0
    BY NobodyIsNoItem DEF DropOne
  <2> HIDE DEF k
  <2>3. y = i
    <3> HIDE DEF y
    <3> QED BY <1>c, <2>1, <2>2
  <2>4. 1 <= Descriptors(i)
    <3>1. {c \in Fds : ofile[t][c] = i} # {}
      BY <2>3
    <3>2. RefsOf(t, i) # 0
      BY <3>1, FinitelyMany, FS_Subset, FS_EmptySet DEF RefsOf
    <3> QED BY <1>a, <3>2, RefsOfBound, RefsOfType
  <2>5. Descriptors(i) = 1
    <3> HIDE DEF y
    <3> QED BY <1>b, <2>1, <2>2, <2>3, <2>4
  <2>6. x # i
    BY <1>3, <2>3, <2>5, TwoDescriptors
  <2>7. Descriptors(i)' = Descriptors(i) - (IF ofile[t][e] = i THEN 1 ELSE 0)
                                         + (IF x = i THEN 1 ELSE 0)
    <3> HIDE DEF x
    <3> QED BY <1>3, <2>1, CellCounts
  <2> QED BY <2>3, <2>5, <2>6, <2>7
<1>4. ASSUME NEW t \in Threads, NEW d \in Fds, Dup(t, d) PROVE Descriptors(i)' = 0
  <2>1. /\ ofile[t][d] # Nobody /\ Ufalloc(t) # -1 /\ Duplicate(t, d, Ufalloc(t))
        /\ does[t] = "run" /\ UNCHANGED does
    BY <1>4 DEF Dup, Runs
  <2>2. Ufalloc(t) \in Fds /\ ofile[t][Ufalloc(t)] = Nobody
    BY <2>1, UfallocIsFree
  <2> QED BY <1>3, <2>1, <2>2
<1>5. ASSUME NEW t \in Threads, NEW d \in Fds, NEW e \in Fds, Dup2(t, d, e)
      PROVE  Descriptors(i)' = 0
  BY <1>3, <1>5 DEF Dup2, Runs
<1>6. ASSUME NEW t \in Threads, Open(t) PROVE FALSE
  <2>1. \E j \in Items : open' = [open EXCEPT ![j] = TRUE]
    BY <1>6 DEF Open
  <2> QED BY <1>0, <2>1 DEF EmulatorTypeOK
<1>7. UNCHANGED open => FALSE
  OBVIOUS
<1> QED
  BY <1>1, <1>2, <1>4, <1>5, <1>6, <1>7
     DEF EmulatorNext, ThreadStep, Fork, ForkFails, Wait, UseClosed, SeekStd, ReadStdin,
         Input, emulatorVars, fileVars

\* FileItem.java:122-125: nobody's channel is closed by what others close, unless more
\* descriptors refer to it than f_count can count.
THEOREM ChannelsTheorem == EmulatorSpec => ChannelsStayOpen
<1>1. EmulatorInv /\ [EmulatorNext]_emulatorVars =>
        [\A i \in Items : open[i] /\ ~open'[i] =>
            Descriptors(i)' = 0 \/ Descriptors(i) >= SignBit]_emulatorVars
  <2> SUFFICES ASSUME EmulatorInv, [EmulatorNext]_emulatorVars, NEW i \in Items,
                      open[i], ~open'[i], ~(Descriptors(i) >= SignBit)
               PROVE  Descriptors(i)' = 0
    OBVIOUS
  <2>1. Descriptors(i) < SignBit
    BY EmulatorAssumption, DescriptorsType
  <2> QED BY <2>1, ClosingStep
<1> QED BY EmulatorInvariant, <1>1, PTL DEF EmulatorSpec, ChannelsStayOpen
=============================================================================
