--------------------------- MODULE Devices_proofs ---------------------------
(***************************************************************************)
(* Proofs about the clock (Clock), the Unibus adapter (Uba), the page      *)
(* frames (Memory), the magnetic tape (Ht) and the disk (Disk).            *)
(*                                                                         *)
(* What a fold computes is shown by the least number for which it would be *)
(* something else: a fold is a function on the subsets of its domain, of   *)
(* which there is one, and it has one value for each of 1..k.              *)
(***************************************************************************)
EXTENDS Clock, Uba, Memory, Ht, Disk, SeqLemmas, FiniteSetTheorems, TLAPS

----------------------------------------------------------------------------
(* Sums *)

\* g is the sum of f over each of the sets of numbers up to n.
Adds(f, n, g) ==
    \A s \in SUBSET (1..n) : g[s] = IF s = {} THEN 0 ELSE g[s \ {Max(s)}] + f[Max(s)]

HasSums(f, n) == \E g \in [SUBSET (1..n) -> Int] : Adds(f, n, g)

\* There is such a function.
LEMMA SumExists ==
    ASSUME NEW N \in Nat, NEW f \in [1..N -> Int]
    PROVE  HasSums(f, N)
<1> DEFINE step == [p \in (1..N) \X Int |-> p[2] + f[p[1]]]
<1>1. step \in [(1..N) \X Int -> Int]
  <2>1. ASSUME NEW p \in (1..N) \X Int PROVE p[2] + f[p[1]] \in Int
    <3>1. p[1] \in 1..N /\ p[2] \in Int
      OBVIOUS
    <3> QED BY <3>1
  <2> QED BY <2>1
<1>2. \A n \in 1..N, x \in Int : step[<<n, x>>] = x + f[n]
  OBVIOUS
<1> HIDE DEF step
<1>3. HasFold(N, 0, step, Int)
  <2>1. 0 \in Int
    OBVIOUS
  <2> QED BY <1>1, <2>1, FoldExists
<1>4. PICK g \in [SUBSET (1..N) -> Int] : Iterates(N, 0, step, g)
  BY <1>3, Zenon DEF HasFold
<1>5. ASSUME NEW s \in SUBSET (1..N)
      PROVE  g[s] = IF s = {} THEN 0 ELSE g[s \ {Max(s)}] + f[Max(s)]
  <2>1. CASE s = {}
    BY <1>4, <2>1 DEF Iterates
  <2>2. CASE s # {}
    <3>1. Max(s) \in 1..N
      BY <2>2, MaxOfNumbers
    <3>2. PICK x \in Int : x = g[s \ {Max(s)}]
      BY <1>4
    <3>3. g[s] = step[<<Max(s), x>>]
      BY <1>4, <2>2, <3>2 DEF Iterates
    <3>4. step[<<Max(s), x>>] = x + f[Max(s)]
      BY <1>2, <3>1
    <3> QED BY <2>2, <3>2, <3>3, <3>4
  <2> QED BY <2>1, <2>2
<1>6. Adds(f, N, g)
  BY <1>5 DEF Adds
<1> QED BY <1>4, <1>6, Zenon DEF HasSums

\* Two such functions agree on the numbers up to k.
LEMMA SumUnique ==
    ASSUME NEW n \in Nat, NEW m \in Nat, NEW f, NEW g, NEW h,
           Adds(f, n, g), Adds(f, m, h), NEW k \in Nat, k <= n, k <= m
    PROVE  g[1..k] = h[1..k]
<1> DEFINE Differ == {j \in Nat : j <= k /\ g[1..j] # h[1..j]}
<1>1. SUFFICES ASSUME Differ # {} PROVE FALSE
  OBVIOUS
<1>2. PICK j \in Differ : \A y \in Differ : j <= y
  <2>1. Differ \in SUBSET Nat
    OBVIOUS
  <2> HIDE DEF Differ
  <2> QED BY <1>1, <2>1, LeastNumber
<1>3. j \in Nat /\ j <= k /\ g[1..j] # h[1..j]
  BY <1>2
<1>4. 1..j \in SUBSET (1..n) /\ 1..j \in SUBSET (1..m)
  BY <1>3
<1>5. j # 0
  <2>1. ASSUME j = 0 PROVE 1..j = {}
    BY <2>1
  <2>2. 1..j # {}
    BY <1>3, <1>4 DEF Adds
  <2> QED BY <2>1, <2>2
<1> DEFINE i == j - 1
<1>6. i \in Nat /\ i <= k /\ i + 1 = j /\ ~(j <= i)
  BY <1>3, <1>5
<1>7. g[1..i] = h[1..i]
  <2>1. i \notin Differ
    BY <1>2, <1>6
  <2> QED BY <2>1, <1>6
<1> HIDE DEF i, Differ
<1>8. 1..j # {} /\ Max(1..j) = j /\ (1..j) \ {j} = 1..i
  <2>1. j \in 1..j /\ (1..j) \ {j} = 1..i
    BY <1>3, <1>5, <1>6
  <2>2. PICK b : b = Max(1..j)
    OBVIOUS
  <2>3. b \in 1..j /\ j <= b
    BY <2>1, <2>2, <1>3, MaxOfNumbers
  <2>4. b = j
    BY <2>3, <1>3
  <2> QED BY <2>1, <2>2, <2>4
<1>9. g[1..j] = g[1..i] + f[j] /\ h[1..j] = h[1..i] + f[j]
  BY <1>4, <1>8 DEF Adds
<1> QED BY <1>3, <1>7, <1>9

----------------------------------------------------------------------------
(* The differences of the callout table *)

CalloutEntries == [fun : Funs \cup {Periodic}, time : Nat, due : Nat]

Times(t) == [i \in 1..Len(t) |-> t[i].time]

Folds(t, g) ==
    g = [s \in SUBSET DOMAIN t |-> IF s = {} THEN 0 ELSE g[s \ {Max(s)}] + t[Max(s)].time]

FoldOf(t) == CHOOSE g : Folds(t, g)

\* What TimeUpTo computes is a value of the function that is folded.
LEMMA FoldForm ==
    ASSUME NEW tbl, NEW n
    PROVE  TimeUpTo(tbl, n) = FoldOf(SubSeq(tbl, 1, n))[DOMAIN SubSeq(tbl, 1, n)]
<1> DEFINE t == SubSeq(tbl, 1, n)
<1>1. TimeUpTo(tbl, n) = FoldLeft(LAMBDA s, e : s + e.time, 0, t)
  BY Zenon DEF TimeUpTo
<1>2. FoldLeft(LAMBDA s, e : s + e.time, 0, t) = FoldOf(t)[DOMAIN t]
  BY Zenon DEF FoldLeft, MapThenFoldSet, FoldOf, Folds
<1> QED BY <1>1, <1>2

\* That function adds up the times of the table.
LEMMA FoldAdds ==
    ASSUME NEW tbl \in Seq(CalloutEntries), NEW k \in 0..Len(tbl)
    PROVE  Adds(Times(tbl), k, FoldOf(SubSeq(tbl, 1, k)))
<1> DEFINE t == SubSeq(tbl, 1, k)
<1> DEFINE f == [i \in 1..k |-> tbl[i].time]
<1>1. t \in Seq(CalloutEntries) /\ Len(t) = k /\ \A i \in 1..k : t[i] = tbl[i]
  BY SubSeqProperties
<1>2. DOMAIN t = 1..k
  BY <1>1
<1>3. f \in [1..k -> Int]
  <2>1. \A i \in 1..k : tbl[i] \in CalloutEntries
    OBVIOUS
  <2>2. \A i \in 1..k : tbl[i].time \in Int
    BY <2>1 DEF CalloutEntries
  <2> QED BY <2>2
<1> HIDE DEF t
<1>4. PICK g \in [SUBSET (1..k) -> Int] : Adds(f, k, g)
  <2>1. HasSums(f, k)
    <3> HIDE DEF f
    <3> QED BY <1>3, SumExists
  <2> QED BY <2>1, Zenon DEF HasSums
<1>5. ASSUME NEW s \in SUBSET (1..k), s # {} PROVE Max(s) \in 1..k
  <2>1. Max(s) \in s
    <3>1. k \in Nat
      OBVIOUS
    <3> QED BY <3>1, <1>5, MaxOfNumbers
  <2> QED BY <2>1
<1>6. Folds(t, g)
  <2>1. \A s \in SUBSET (1..k) :
            g[s] = IF s = {} THEN 0 ELSE g[s \ {Max(s)}] + t[Max(s)].time
    BY <1>1, <1>4, <1>5 DEF Adds
  <2>2. g = [s \in SUBSET (1..k) |-> g[s]]
    OBVIOUS
  <2>3. g = [s \in SUBSET (1..k) |-> IF s = {} THEN 0 ELSE g[s \ {Max(s)}] + t[Max(s)].time]
    BY <2>1, <2>2
  <2> QED BY <2>3, <1>2 DEF Folds
<1>7. Folds(t, FoldOf(t))
  BY <1>6, Zenon DEF FoldOf
<1>8. PICK h : h = FoldOf(t)
  OBVIOUS
<1>9. \A s \in SUBSET (1..k) :
        h[s] = IF s = {} THEN 0 ELSE h[s \ {Max(s)}] + t[Max(s)].time
  BY <1>7, <1>8, <1>2 DEF Folds
<1>10. Adds(Times(tbl), k, h)
  <2>1. \A i \in 1..k : Times(tbl)[i] = t[i].time
    BY <1>1 DEF Times
  <2> QED BY <2>1, <1>9, <1>5 DEF Adds
<1> QED BY <1>8, <1>10 DEF t

\* TimeUpTo is the sum of the times.
LEMMA TimesAddUp ==
    ASSUME NEW tbl \in Seq(CalloutEntries)
    PROVE  /\ TimeUpTo(tbl, 0) = 0
           /\ \A k \in 1..Len(tbl) : TimeUpTo(tbl, k) = TimeUpTo(tbl, k - 1) + tbl[k].time
           /\ \A k \in 0..Len(tbl) : TimeUpTo(tbl, k) \in Nat
<1> DEFINE f == Times(tbl)
<1> DEFINE N == Len(tbl)
<1>1. N \in Nat /\ f \in [1..N -> Nat]
  <2>1. \A i \in 1..N : tbl[i] \in CalloutEntries
    OBVIOUS
  <2> QED BY <2>1 DEF CalloutEntries, Times
<1>2. \A i \in 1..N : f[i] = tbl[i].time
  BY DEF Times
<1> HIDE DEF f
<1>3. PICK g \in [SUBSET (1..N) -> Int] : Adds(f, N, g)
  <2>1. f \in [1..N -> Int]
    BY <1>1
  <2>2. HasSums(f, N)
    BY <1>1, <2>1, SumExists
  <2> QED BY <2>2, Zenon DEF HasSums
<1>4. ASSUME NEW k \in 0..N PROVE TimeUpTo(tbl, k) = g[1..k]
  <2>1. DOMAIN SubSeq(tbl, 1, k) = 1..k
    BY SubSeqProperties
  <2>2. PICK h : h = FoldOf(SubSeq(tbl, 1, k))
    OBVIOUS
  <2>3. Adds(f, k, h)
    BY <2>2, FoldAdds DEF f
  <2>4. TimeUpTo(tbl, k) = h[1..k]
    BY <2>1, <2>2, FoldForm
  <2>5. k \in Nat /\ k <= N /\ k <= k
    BY <1>1
  <2>6. h[1..k] = g[1..k]
    BY <2>3, <2>5, <1>1, <1>3, SumUnique
  <2> QED BY <2>4, <2>6
<1>5. g[1..0] = 0
  <2>1. 1..0 = {} /\ 1..0 \in SUBSET (1..N)
    OBVIOUS
  <2> QED BY <2>1, <1>3 DEF Adds
<1>6. ASSUME NEW k \in 1..N PROVE g[1..k] = g[1..(k - 1)] + f[k]
  <2>1. k \in 1..k /\ (1..k) \ {k} = 1..(k - 1) /\ 1..k \in SUBSET (1..N) /\ k \in Nat
    BY <1>1
  <2>2. PICK b : b = Max(1..k)
    OBVIOUS
  <2>3. b \in 1..k /\ k <= b
    BY <2>1, <2>2, MaxOfNumbers
  <2>4. b = k
    BY <2>3
  <2> QED BY <2>1, <2>2, <2>4, <1>3 DEF Adds
<1>7. \A k \in 0..N : g[1..k] \in Int
  <2>1. \A k \in 0..N : 1..k \in SUBSET (1..N)
    BY <1>1
  <2> QED BY <2>1, <1>3
<1>8. ASSUME NEW k \in 0..N PROVE g[1..k] >= 0
  <2> DEFINE Negative == {j \in 0..N : ~(g[1..j] >= 0)}
  <2>1. SUFFICES ASSUME Negative # {} PROVE FALSE
    OBVIOUS
  <2>2. PICK j \in Negative : \A y \in Negative : j <= y
    <3>1. Negative \in SUBSET Nat
      BY <1>1
    <3> HIDE DEF Negative
    <3> QED BY <2>1, <3>1, LeastNumber
  <2>3. j \in 1..N
    BY <2>2, <1>5
  <2>4. (j - 1) \in 0..N /\ ~(j <= j - 1)
    BY <2>3, <1>1
  <2>5. g[1..(j - 1)] >= 0
    BY <2>2, <2>4
  <2>6. f[j] \in Nat /\ g[1..(j - 1)] \in Int /\ g[1..j] = g[1..(j - 1)] + f[j]
    BY <1>1, <1>6, <1>7, <2>3, <2>4
  <2>7. g[1..j] >= 0
    BY <2>5, <2>6
  <2> QED BY <2>2, <2>7
<1>9. TimeUpTo(tbl, 0) = 0
  BY <1>1, <1>4, <1>5
<1>10. ASSUME NEW k \in 1..N PROVE TimeUpTo(tbl, k) = TimeUpTo(tbl, k - 1) + tbl[k].time
  <2>1. k \in 0..N /\ (k - 1) \in 0..N
    BY <1>1
  <2> QED BY <2>1, <1>2, <1>4, <1>6
<1>11. ASSUME NEW k \in 0..N PROVE TimeUpTo(tbl, k) \in Nat
  BY <1>4, <1>7, <1>8
<1> QED BY <1>9, <1>10, <1>11

\* Later entries are due no earlier.
LEMMA LaterIsMore ==
    ASSUME NEW tbl \in Seq(CalloutEntries), NEW j \in 0..Len(tbl), NEW k \in 0..Len(tbl), j <= k
    PROVE  TimeUpTo(tbl, j) <= TimeUpTo(tbl, k)
<1> DEFINE T == [i \in 0..Len(tbl) |-> TimeUpTo(tbl, i)]
<1>1. T \in [0..Len(tbl) -> Nat]
  BY TimesAddUp
<1>2. \A i \in 1..Len(tbl) : T[i - 1] <= T[i]
  <2>1. ASSUME NEW i \in 1..Len(tbl) PROVE T[i - 1] <= T[i]
    <3>1. i \in 0..Len(tbl) /\ i - 1 \in 0..Len(tbl)
      OBVIOUS
    <3>2. TimeUpTo(tbl, i) = TimeUpTo(tbl, i - 1) + tbl[i].time
      BY TimesAddUp
    <3>3. tbl[i].time \in Nat
      <4>1. tbl[i] \in CalloutEntries
        OBVIOUS
      <4> QED BY <4>1 DEF CalloutEntries
    <3>4. T[i] = T[i - 1] + tbl[i].time
      BY <3>1, <3>2
    <3>5. T[i] \in Nat /\ T[i - 1] \in Nat
      BY <1>1, <3>1
    <3> HIDE DEF T
    <3> QED BY <3>3, <3>4, <3>5
  <2> QED BY <2>1
<1>3. T[j] = TimeUpTo(tbl, j) /\ T[k] = TimeUpTo(tbl, k)
  OBVIOUS
<1> HIDE DEF T
<1> DEFINE Less == {i \in Nat : i \in j..k /\ ~(T[j] <= T[i])}
<1>4. SUFFICES ASSUME Less # {} PROVE FALSE
  <2>1. k \in Nat /\ k \in j..k
    OBVIOUS
  <2>2. k \notin Less
    BY <1>4
  <2>3. T[j] <= T[k]
    BY <2>1, <2>2
  <2> QED BY <2>3, <1>3
<1>5. PICK i \in Less : \A y \in Less : i <= y
  <2>1. Less \in SUBSET Nat
    OBVIOUS
  <2> HIDE DEF Less
  <2> QED BY <1>4, <2>1, LeastNumber
<1>6. i # j /\ i \in 1..Len(tbl) /\ i - 1 \in Nat /\ i - 1 \in j..k /\ ~(i <= i - 1)
  BY <1>1, <1>5
<1>7. T[j] <= T[i - 1]
  BY <1>5, <1>6
<1>8. T[i - 1] <= T[i] /\ T[i] \in Nat /\ T[i - 1] \in Nat /\ T[j] \in Nat
  BY <1>1, <1>2, <1>6, SMTT(30)
<1> QED BY <1>5, <1>7, <1>8

\* timeout finds the place between those that are due no later and the others.
LEMMA PlaceBetween ==
    ASSUME NEW tbl \in Seq(CalloutEntries), NEW tim \in Nat
    PROVE  /\ PlaceFor(tbl, tim) \in 1..Len(tbl) + 1
           /\ \A m \in 1..Len(tbl) : m < PlaceFor(tbl, tim) <=> TimeUpTo(tbl, m) <= tim
<1> DEFINE S == {n \in 1..Len(tbl) : TimeUpTo(tbl, n) <= tim}
<1>1. PlaceFor(tbl, tim) = 1 + Cardinality(S)
  <2>1. DOMAIN tbl = 1..Len(tbl)
    OBVIOUS
  <2> QED BY <2>1, Zenon DEF PlaceFor
<1>2. \A m \in 1..Len(tbl) : m \in S <=> TimeUpTo(tbl, m) <= tim
  OBVIOUS
<1>3. S \in SUBSET (1..Len(tbl))
  OBVIOUS
<1>4. \E k \in 0..Len(tbl) : S = 1..k
  <2>1. CASE S = {}
    <3>1. S = 1..0 /\ 0 \in 0..Len(tbl)
      BY <2>1
    <3> QED BY <3>1
  <2>2. CASE S # {}
    <3>1. PICK k : k = Max(S)
      OBVIOUS
    <3>2. k \in S /\ \A y \in S : y <= k
      <4> HIDE DEF S
      <4>1. Len(tbl) \in Nat
        OBVIOUS
      <4> QED BY <3>1, <4>1, <1>3, <2>2, MaxOfNumbers
    <3>3. k \in 1..Len(tbl) /\ TimeUpTo(tbl, k) <= tim
      BY <3>2
    <3>4. ASSUME NEW m \in 1..k PROVE m \in S
      <4>1. m \in 0..Len(tbl) /\ k \in 0..Len(tbl) /\ m <= k /\ m \in 1..Len(tbl)
        BY <3>3
      <4>2. TimeUpTo(tbl, m) <= TimeUpTo(tbl, k)
        BY <4>1, LaterIsMore
      <4>3. TimeUpTo(tbl, m) \in Nat /\ TimeUpTo(tbl, k) \in Nat
        BY <4>1, TimesAddUp
      <4>4. TimeUpTo(tbl, m) <= tim
        BY <3>3, <4>2, <4>3
      <4> QED BY <4>1, <4>4
    <3> HIDE DEF S
    <3>5. S = 1..k
      <4>1. \A y \in S : y \in 1..k
        BY <1>3, <3>2, <3>3
      <4> QED BY <4>1, <3>4
    <3> QED BY <3>3, <3>5
  <2> QED BY <2>1, <2>2
<1> HIDE DEF S
<1>5. PICK k \in 0..Len(tbl) : S = 1..k
  BY <1>4
<1>6. Cardinality(S) = k
  <2>1. k \in Int /\ 1 \in Int
    OBVIOUS
  <2>2. Cardinality(1..k) = IF 1 > k THEN 0 ELSE k - 1 + 1
    BY <2>1, FS_Interval
  <2> QED BY <2>2, <1>5
<1>7. \A m \in 1..Len(tbl) : m < 1 + k <=> m \in 1..k
  OBVIOUS
<1> QED BY <1>1, <1>2, <1>5, <1>6, <1>7

\* What a table with an entry put in at n for tim from now is.
EnteredAt(tbl, e, n, tim, d) ==
    /\ e \in Seq(CalloutEntries) /\ Len(e) = Len(tbl) + 1
    /\ n \in 1..Len(tbl) + 1
    /\ e[n].due = d /\ TimeUpTo(e, n) = tim
    /\ \A m \in 1..Len(tbl) :
          IF m < n
          THEN e[m] = tbl[m] /\ TimeUpTo(e, m) = TimeUpTo(tbl, m) /\ TimeUpTo(tbl, m) <= tim
          ELSE e[m + 1].due = tbl[m].due /\ TimeUpTo(e, m + 1) = TimeUpTo(tbl, m)
                 /\ TimeUpTo(tbl, m) > tim

\* clock.c:163-183: the entry is due after its time, and the others when they were.
LEMMA EnteredInPlace ==
    ASSUME NEW tbl \in Seq(CalloutEntries), NEW f \in Funs \cup {Periodic},
           NEW tim \in Nat, NEW d \in Nat
    PROVE  EnteredAt(tbl, Entered(tbl, f, tim, d), PlaceFor(tbl, tim), tim, d)
<1>1. PICK n : n = PlaceFor(tbl, tim)
  OBVIOUS
<1>2. PICK N : N = Len(tbl)
  OBVIOUS
<1>3. /\ N \in Nat /\ n \in 1..N + 1 /\ DOMAIN tbl = 1..N
      /\ \A m \in 1..N : m < n <=> TimeUpTo(tbl, m) <= tim
  <2>1. N \in Nat /\ DOMAIN tbl = 1..N
    BY <1>2
  <2>2. /\ PlaceFor(tbl, tim) \in 1..N + 1
        /\ \A m \in 1..N : m < PlaceFor(tbl, tim) <=> TimeUpTo(tbl, m) <= tim
    BY <1>2, PlaceBetween, Zenon
  <2> QED BY <1>1, <2>1, <2>2
<1>4. PICK T : T = [i \in 0..N |-> TimeUpTo(tbl, i)]
  OBVIOUS
<1>5. T \in [0..N -> Nat] /\ T[0] = 0 /\ \A i \in 0..N : T[i] = TimeUpTo(tbl, i)
  BY <1>2, <1>3, <1>4, TimesAddUp
<1>6. \A i \in 1..N : T[i] = T[i - 1] + tbl[i].time
  <2>1. \A i \in 1..N : i \in 0..N /\ i - 1 \in 0..N
    BY <1>3
  <2> QED BY <2>1, <1>2, <1>5, TimesAddUp
<1>7. PICK rest : rest = T[n - 1]
  OBVIOUS
<1>8. /\ rest \in Nat /\ rest <= tim /\ n - 1 \in 0..N
      /\ n \in 1..N => T[n] \in Nat /\ T[n] > tim
  <2>1. n - 1 \in 0..N
    BY <1>3
  <2>2. CASE n - 1 = 0
    <3>1. rest = 0
      BY <2>2, <1>5, <1>7
    <3>2. n \in 1..N => T[n] \in Nat /\ T[n] > tim
      BY <1>3, <1>5
    <3> QED BY <2>1, <3>1, <3>2
  <2>3. CASE n - 1 # 0
    <3>1. n - 1 \in 1..N /\ n - 1 < n
      BY <2>1, <2>3, <1>3
    <3>2. T[n - 1] <= tim
      BY <3>1, <1>3, <1>5
    <3>3. n \in 1..N => T[n] \in Nat /\ T[n] > tim
      BY <1>3, <1>5
    <3> QED BY <2>1, <3>2, <3>3, <1>5, <1>7
  <2> QED BY <2>2, <2>3
<1>9. PICK later : later = IF n > N THEN tbl ELSE [tbl EXCEPT ![n].time = @ - (tim - rest)]
  OBVIOUS
<1>10. \A i \in 1..N : /\ tbl[i].fun \in Funs \cup {Periodic} /\ tbl[i].time \in Nat
                       /\ tbl[i].due \in Nat /\ tbl[i] \in CalloutEntries
  <2>1. \A i \in 1..N : tbl[i] \in CalloutEntries
    BY <1>2
  <2> QED BY <2>1 DEF CalloutEntries
<1>11. /\ later \in Seq(CalloutEntries) /\ Len(later) = N
       /\ \A i \in 1..N : /\ i # n => later[i] = tbl[i]
                          /\ i = n => later[i].time = T[n] - tim /\ later[i].due = tbl[n].due
  <2>1. CASE n > N
    BY <2>1, <1>2, <1>9, <1>3
  <2>2. CASE ~(n > N)
    <3>1. n \in 1..N
      BY <2>2, <1>3
    <3>2. PICK o \in CalloutEntries : o = tbl[n]
      BY <3>1, <1>10
    <3>3. PICK c : c = T[n] - tim
      OBVIOUS
    <3>4. c \in Nat /\ o.time - (tim - rest) = c
      <4>1. T[n] = rest + o.time /\ o.time \in Nat
        BY <3>1, <3>2, <1>6, <1>7, <1>10
      <4> QED BY <4>1, <3>1, <3>3, <1>8
    <3>5. PICK x \in CalloutEntries : x = [fun |-> o.fun, time |-> c, due |-> o.due]
      <4>1. o.fun \in Funs \cup {Periodic} /\ o.due \in Nat
        BY <3>1, <3>2, <1>10
      <4> QED BY <4>1, <3>4 DEF CalloutEntries
    <3>6. [o EXCEPT !.time = @ - (tim - rest)] = x
      <4>1. [o EXCEPT !.time = c] = x
        BY <3>5, SMTT(30) DEF CalloutEntries
      <4> QED BY <3>4, <4>1, Zenon
    <3>7. later = [tbl EXCEPT ![n] = x]
      <4>1. later = [tbl EXCEPT ![n] = [tbl[n] EXCEPT !.time = @ - (tim - rest)]]
        BY <1>9, <2>2, Zenon
      <4> QED BY <4>1, <3>2, <3>6, Zenon
    <3>8. later \in Seq(CalloutEntries) /\ Len(later) = N
      BY <1>2, <3>1, <3>5, <3>7, ExceptSeq
    <3>9. \A i \in 1..N : later[i] = IF i = n THEN x ELSE tbl[i]
      BY <1>2, <1>3, <3>7
    <3>10. x.time = T[n] - tim /\ x.due = tbl[n].due
      BY <3>2, <3>3, <3>5
    <3> QED BY <3>8, <3>9, <3>10
  <2> QED BY <2>1, <2>2
<1>12. PICK new \in CalloutEntries : new = [fun |-> f, time |-> tim - rest, due |-> d]
  <2>1. tim - rest \in Nat
    BY <1>8
  <2> QED BY <2>1 DEF CalloutEntries
<1>13. new.time = tim - rest /\ new.due = d
  BY <1>12
<1>14. PICK e : e = Entered(tbl, f, tim, d)
  OBVIOUS
<1>15. e = InsertAt(later, n, new)
  <2>1. rest = TimeUpTo(tbl, n - 1)
    BY <1>5, <1>7, <1>8
  <2> QED BY <2>1, <1>1, <1>2, <1>9, <1>12, <1>14, Zenon DEF Entered
<1>16. /\ e \in Seq(CalloutEntries) /\ Len(e) = N + 1
       /\ \A k \in 1..N + 1 :
             e[k] = IF k < n THEN later[k] ELSE IF k = n THEN new ELSE later[k - 1]
  <2>1. n \in 1..Len(later) + 1
    BY <1>3, <1>11
  <2>2. /\ e \in Seq(CalloutEntries) /\ Len(e) = Len(later) + 1
        /\ \A k \in 1..Len(later) + 1 :
              e[k] = IF k < n THEN later[k] ELSE IF k = n THEN new ELSE later[k - 1]
    <3>1. later \in Seq(CalloutEntries) /\ new \in CalloutEntries
      BY <1>11
    <3>2. Inserted(CalloutEntries, later, n, new, e)
      BY <2>1, <3>1, <1>15, InsertAtIndex, Zenon
    <3> QED BY <3>2, Zenon DEF Inserted
  <2> QED BY <2>2, <1>11
<1>17. PICK E : E = [i \in 0..N + 1 |-> TimeUpTo(e, i)]
  OBVIOUS
<1>18. /\ E \in [0..N + 1 -> Nat] /\ E[0] = 0 /\ \A i \in 0..N + 1 : E[i] = TimeUpTo(e, i)
       /\ \A i \in 1..N + 1 : E[i] = E[i - 1] + e[i].time
  <2>1. \A i \in 1..N + 1 : i \in 0..N + 1 /\ i - 1 \in 0..N + 1
    BY <1>3
  <2>2. 0 \in 0..N + 1
    BY <1>3
  <2> QED BY <2>1, <2>2, <1>16, <1>17, TimesAddUp
<1> DEFINE Sum(i) == IF i < n THEN T[i] ELSE IF i = n THEN tim ELSE T[i - 1]
<1>19. \A i \in 0..N + 1 : E[i] = Sum(i)
  <2> DEFINE Other == {i \in 0..N + 1 : E[i] # Sum(i)}
  <2>1. SUFFICES ASSUME Other # {} PROVE FALSE
    OBVIOUS
  <2>2. PICK i \in Other : \A y \in Other : i <= y
    <3>1. Other \in SUBSET Nat
      BY <1>3
    <3> HIDE DEF Other
    <3> QED BY <2>1, <3>1, LeastNumber
  <2>3. i \in 1..N + 1
    <3>1. 0 < n /\ 0 \in 0..N + 1
      BY <1>3
    <3>2. E[0] = Sum(0)
      BY <3>1, <1>5, <1>18
    <3> QED BY <2>2, <3>2
  <2>4. i - 1 \in 0..N + 1 /\ ~(i <= i - 1)
    BY <2>3, <1>3
  <2>5. E[i - 1] = Sum(i - 1) /\ E[i] # Sum(i)
    BY <2>2, <2>4
  <2> HIDE DEF Other
  <2>6. E[i] = E[i - 1] + e[i].time
    BY <2>3, <1>18
  <2>7. CASE i < n
    <3>1. i \in 1..N /\ i # n /\ i - 1 < n
      BY <2>3, <2>7, <1>3
    <3>2. e[i] = tbl[i]
      BY <2>3, <2>7, <3>1, <1>11, <1>16
    <3>3. E[i] = T[i - 1] + tbl[i].time
      BY <2>5, <2>6, <3>1, <3>2
    <3> QED BY <2>5, <2>7, <3>1, <3>3, <1>6
  <2>8. CASE i = n
    <3>1. e[i] = new /\ i - 1 < n
      BY <2>3, <2>8, <1>16
    <3>2. E[i] = T[n - 1] + new.time
      BY <2>5, <2>6, <2>8, <3>1
    <3>3. E[i] = rest + (tim - rest)
      BY <3>2, <1>7, <1>13
    <3>4. E[i] = tim
      BY <3>3, <1>8
    <3>5. ~(i < n)
      BY <2>8, <1>3
    <3> QED BY <2>5, <2>8, <3>4, <3>5
  <2>9. CASE i = n + 1
    <3>1. n \in 1..N /\ i - 1 = n /\ ~(i < n) /\ i # n
      BY <2>3, <2>9, <1>3
    <3>2. e[i] = later[n]
      BY <2>3, <3>1, <1>16
    <3>3. E[i] = tim + (T[n] - tim)
      BY <2>5, <2>6, <3>1, <3>2, <1>11
    <3>4. E[i] = T[n]
      BY <3>1, <3>3, <1>8
    <3> QED BY <2>5, <3>1, <3>4
  <2>10. CASE i > n + 1
    <3>1. /\ i - 1 \in 1..N /\ i - 1 # n /\ ~(i < n) /\ i # n
          /\ ~(i - 1 < n) /\ (i - 1) - 1 = i - 2
      BY <2>3, <2>10, <1>3
    <3>2. e[i] = tbl[i - 1]
      BY <2>3, <3>1, <1>11, <1>16
    <3>3. E[i] = T[i - 2] + tbl[i - 1].time
      BY <2>5, <2>6, <3>1, <3>2
    <3>4. T[i - 1] = T[i - 2] + tbl[i - 1].time
      BY <3>1, <1>6
    <3> QED BY <2>5, <3>1, <3>3, <3>4
  <2> QED BY <2>3, <2>7, <2>8, <2>9, <2>10, <1>3
<1>20. e[n].due = d /\ TimeUpTo(e, n) = tim
  <2>1. n \in 0..N + 1 /\ n \in 1..N + 1
    BY <1>3
  <2>2. e[n] = new
    BY <2>1, <1>16
  <2>3. E[n] = tim
    BY <2>1, <1>19
  <2> QED BY <2>1, <2>2, <2>3, <1>13, <1>18
<1>21. ASSUME NEW m \in 1..N, m < n
       PROVE  e[m] = tbl[m] /\ TimeUpTo(e, m) = TimeUpTo(tbl, m) /\ TimeUpTo(tbl, m) <= tim
  <2>1. m \in 0..N + 1 /\ m \in 1..N + 1 /\ m \in 0..N /\ m # n
    BY <1>3, <1>21
  <2>2. e[m] = tbl[m]
    BY <2>1, <1>21, <1>11, <1>16
  <2>3. E[m] = T[m]
    BY <2>1, <1>21, <1>19
  <2>4. TimeUpTo(tbl, m) <= tim
    BY <1>3, <1>21
  <2> QED BY <2>1, <2>2, <2>3, <2>4, <1>5, <1>18
<1>22. ASSUME NEW m \in 1..N, ~(m < n)
       PROVE  e[m + 1].due = tbl[m].due /\ TimeUpTo(e, m + 1) = TimeUpTo(tbl, m)
                /\ TimeUpTo(tbl, m) > tim
  <2>1. /\ m + 1 \in 0..N + 1 /\ m + 1 \in 1..N + 1 /\ m \in 0..N
        /\ ~(m + 1 < n) /\ m + 1 # n /\ (m + 1) - 1 = m
    BY <1>3, <1>22
  <2>2. e[m + 1] = later[m]
    BY <2>1, <1>16, SMTT(30)
  <2>3. later[m].due = tbl[m].due
    BY <1>11
  <2>4. E[m + 1] = T[m]
    BY <2>1, <1>19
  <2>5. TimeUpTo(tbl, m) > tim
    <3>1. T[m] \in Nat /\ ~(T[m] <= tim)
      BY <2>1, <1>3, <1>5, <1>22
    <3>2. T[m] > tim
      BY <3>1
    <3> QED BY <2>1, <3>2, <1>5
  <2> QED BY <2>1, <2>2, <2>3, <2>4, <2>5, <1>5, <1>18
<1> HIDE DEF Sum
<1>23. EnteredAt(tbl, e, n, tim, d)
  BY <1>2, <1>3, <1>16, <1>20, <1>21, <1>22 DEF EnteredAt
<1> QED BY <1>1, <1>14, <1>23

----------------------------------------------------------------------------
(* clock and timeout *)

ClockTypes ==
    /\ callout \in Seq(CalloutEntries) /\ state \in {"up", "panic", "overrun"}
    /\ lbolt \in Nat /\ time \in Nat /\ ticks \in Nat
    /\ clktim \in [AlarmUsers -> Nat] /\ second \in [AlarmUsers -> Nat]

ClockInv == ClockTypes /\ ClockOK

\* What is left at tick t of the time of entry n.
Left(tbl, n, t) == IF tbl[n].due - t > 0 THEN tbl[n].due - t ELSE 0

\* A table whose differences add up to what is left at tick t.
Right(tbl, t) == \A n \in 1..Len(tbl) : TimeUpTo(tbl, n) = Left(tbl, n, t)

\* DeltasAddUp is about the table and the tick.
LEMMA RightNow ==
    ASSUME callout \in Seq(CalloutEntries), state = "up"
    PROVE  DeltasAddUp <=> Right(callout, ticks)
<1>1. DOMAIN callout = 1..Len(callout)
  OBVIOUS
<1> QED BY <1>1 DEF DeltasAddUp, Right, Left

\* An entry for a time from now keeps the table right.
LEMMA EnteredRight ==
    ASSUME NEW tbl \in Seq(CalloutEntries), NEW t \in Nat, Right(tbl, t),
           NEW f \in Funs \cup {Periodic}, NEW tim \in Nat
    PROVE  /\ Entered(tbl, f, tim, t + tim) \in Seq(CalloutEntries)
           /\ Right(Entered(tbl, f, tim, t + tim), t)
<1>1. PICK e : e = Entered(tbl, f, tim, t + tim)
  OBVIOUS
<1>2. PICK p : p = PlaceFor(tbl, tim)
  OBVIOUS
<1>3. EnteredAt(tbl, e, p, tim, t + tim)
  <2>1. t + tim \in Nat
    OBVIOUS
  <2> QED BY <2>1, <1>1, <1>2, EnteredInPlace
<1>4. PICK N : N = Len(tbl)
  OBVIOUS
<1>5. N \in Nat /\ Len(e) = N + 1 /\ p \in 1..N + 1 /\ e \in Seq(CalloutEntries)
  BY <1>3, <1>4 DEF EnteredAt
<1>6. ASSUME NEW n \in 1..N + 1 PROVE TimeUpTo(e, n) = Left(e, n, t)
  <2>1. CASE n < p
    <3>1. n \in 1..N
      BY <2>1, <1>5
    <3>2. e[n] = tbl[n] /\ TimeUpTo(e, n) = TimeUpTo(tbl, n)
      BY <3>1, <2>1, <1>3, <1>4 DEF EnteredAt
    <3>3. TimeUpTo(tbl, n) = Left(tbl, n, t)
      BY <3>1, <1>4 DEF Right
    <3> QED BY <3>2, <3>3 DEF Left
  <2>2. CASE n = p
    <3>1. e[n].due = t + tim /\ TimeUpTo(e, n) = tim
      BY <2>2, <1>3 DEF EnteredAt
    <3>2. t + tim - t = tim
      OBVIOUS
    <3> QED BY <3>1, <3>2 DEF Left
  <2>3. CASE n > p
    <3>1. n - 1 \in 1..N /\ ~(n - 1 < p) /\ n - 1 + 1 = n
      BY <2>3, <1>5
    <3>2. e[n - 1 + 1].due = tbl[n - 1].due /\ TimeUpTo(e, n - 1 + 1) = TimeUpTo(tbl, n - 1)
      BY <3>1, <1>3, <1>4 DEF EnteredAt
    <3>3. TimeUpTo(tbl, n - 1) = Left(tbl, n - 1, t)
      BY <3>1, <1>4 DEF Right
    <3> QED BY <3>1, <3>2, <3>3 DEF Left
  <2> QED BY <2>1, <2>2, <2>3, <1>5
<1>7. Right(e, t)
  BY <1>5, <1>6 DEF Right
<1> QED BY <1>1, <1>5, <1>7

\* The first r entries of a table are those whose time has run out.
RunOut(tbl, r) ==
    /\ r \in 0..Len(tbl)
    /\ \A m \in 1..r : tbl[m].time = 0
    /\ r < Len(tbl) => tbl[r + 1].time > 0

\* Such entries add up to nothing, and others to something.
LEMMA RunOutSums ==
    ASSUME NEW tbl \in Seq(CalloutEntries), NEW r \in 0..Len(tbl), \A m \in 1..r : tbl[m].time = 0
    PROVE  \A m \in 0..r : TimeUpTo(tbl, m) = 0
<1> DEFINE Positive == {m \in 0..r : TimeUpTo(tbl, m) # 0}
<1>1. SUFFICES ASSUME Positive # {} PROVE FALSE
  OBVIOUS
<1>2. PICK m \in Positive : \A y \in Positive : m <= y
  <2>1. Positive \in SUBSET Nat
    OBVIOUS
  <2> HIDE DEF Positive
  <2> QED BY <1>1, <2>1, LeastNumber
<1>3. TimeUpTo(tbl, 0) = 0
  BY TimesAddUp
<1>4. m \in 1..r /\ m \in 1..Len(tbl) /\ m - 1 \in 0..r /\ ~(m <= m - 1)
  BY <1>2, <1>3
<1>5. TimeUpTo(tbl, m - 1) = 0
  BY <1>2, <1>4
<1>6. TimeUpTo(tbl, m) = TimeUpTo(tbl, m - 1) + tbl[m].time /\ tbl[m].time = 0
  BY <1>4, TimesAddUp
<1>7. TimeUpTo(tbl, m) = 0
  BY <1>5, <1>6
<1> QED BY <1>2, <1>7

\* clock.c:57-64 counts them.
LEMMA RanOut ==
    ASSUME NEW tbl \in Seq(CalloutEntries)
    PROVE  RunOut(tbl, Ran(tbl))
<1> DEFINE I == {i \in 1..Len(tbl) : tbl[i].time > 0}
<1>1. /\ I = {} => Ran(tbl) = Len(tbl)
      /\ I # {} => Ran(tbl) = IF Min(I) = 0 THEN Len(tbl) ELSE Min(I) - 1
  BY Zenon DEF Ran, SelectInSeq
<1>2. \A i \in 1..Len(tbl) : tbl[i].time \in Nat
  <2>1. \A i \in 1..Len(tbl) : tbl[i] \in CalloutEntries
    OBVIOUS
  <2> QED BY <2>1 DEF CalloutEntries
<1>3. CASE I = {}
  <2>1. \A i \in 1..Len(tbl) : tbl[i].time = 0
    BY <1>2, <1>3
  <2>2. Ran(tbl) = Len(tbl) /\ Len(tbl) \in Nat
    BY <1>1, <1>3
  <2> QED BY <2>1, <2>2 DEF RunOut
<1>4. CASE I # {}
  <2>1. PICK k : k = Min(I)
    OBVIOUS
  <2>2. k \in I /\ \A y \in I : k <= y
    <3>1. I \in SUBSET Nat
      OBVIOUS
    <3> HIDE DEF I
    <3> QED BY <2>1, <3>1, <1>4, MinOfNumbers
  <2>3. k \in 1..Len(tbl) /\ tbl[k].time > 0
    BY <2>2
  <2>4. Ran(tbl) = k - 1
    <3> HIDE DEF I
    <3> QED BY <1>1, <1>4, <2>1, <2>3
  <2>5. ASSUME NEW m \in 1..(k - 1) PROVE tbl[m].time = 0
    <3>1. m \in 1..Len(tbl) /\ ~(k <= m)
      BY <2>3
    <3>2. m \notin I
      BY <2>2, <3>1
    <3> QED BY <3>1, <3>2, <1>2
  <2>6. k - 1 \in 0..Len(tbl) /\ (k - 1) + 1 = k
    BY <2>3
  <2> QED BY <2>3, <2>4, <2>5, <2>6 DEF RunOut
<1> QED BY <1>3, <1>4

\* clock.c:47-53: a tick is a tick for the whole table.
LEMMA NearerRight ==
    ASSUME NEW tbl \in Seq(CalloutEntries), NEW t \in Nat, Right(tbl, t)
    PROVE  Nearer(tbl) \in Seq(CalloutEntries) /\ Right(Nearer(tbl), t + 1)
<1>1. PICK N : N = Len(tbl)
  OBVIOUS
<1>2. PICK r : r = Ran(tbl)
  OBVIOUS
<1>3. /\ N \in Nat /\ r \in 0..N /\ (\A m \in 1..r : tbl[m].time = 0)
      /\ r < N => tbl[r + 1].time > 0
  BY <1>1, <1>2, RanOut DEF RunOut
<1>4. \A m \in 0..r : TimeUpTo(tbl, m) = 0
  BY <1>1, <1>3, RunOutSums
<1>5. \A m \in 1..N : tbl[m].due \in Nat
  <2>1. \A i \in 1..N : tbl[i] \in CalloutEntries
    BY <1>1
  <2> QED BY <2>1 DEF CalloutEntries
<1>6. \A m \in 1..r : Left(tbl, m, t + 1) = 0
  <2> TAKE m \in 1..r
  <2>1. m \in 1..N /\ m \in 0..r
    BY <1>3
  <2>2. Left(tbl, m, t) = 0
    BY <2>1, <1>1, <1>4 DEF Right
  <2>3. tbl[m].due \in Nat
    BY <2>1, <1>5
  <2>4. ~(tbl[m].due - t > 0)
    BY <2>2, <2>3 DEF Left
  <2>5. ~(tbl[m].due - (t + 1) > 0)
    BY <2>3, <2>4
  <2> QED BY <2>5 DEF Left
<1>7. CASE r = N
  <2>1. Nearer(tbl) = tbl
    <3>1. SelectInSeq(tbl, LAMBDA e : e.time > 0) = 0
      <4> DEFINE I == {i \in 1..Len(tbl) : tbl[i].time > 0}
      <4>1. I = {}
        BY <1>1, <1>3, <1>7
      <4> QED BY <4>1, Zenon DEF SelectInSeq
    <3> QED BY <3>1, Zenon DEF Nearer
  <2>2. Right(tbl, t + 1)
    BY <1>1, <1>4, <1>6, <1>7 DEF Right
  <2> QED BY <2>1, <2>2
<1>8. CASE r # N
  <2>1. PICK k : k = r + 1
    OBVIOUS
  <2>2. k \in 1..N /\ tbl[k].time > 0 /\ r = k - 1
    BY <1>3, <1>8, <2>1
  <2>3. PICK near : near = Nearer(tbl)
    OBVIOUS
  <2>4. SelectInSeq(tbl, LAMBDA e : e.time > 0) = k
    <3> DEFINE I == {i \in 1..Len(tbl) : tbl[i].time > 0}
    <3>1. k \in I
      BY <1>1, <2>2
    <3>2. SelectInSeq(tbl, LAMBDA e : e.time > 0) = Min(I)
      BY <3>1, Zenon DEF SelectInSeq
    <3>3. ASSUME NEW y \in I PROVE k <= y
      <4>1. y \in 1..N /\ tbl[y].time > 0
        BY <1>1
      <4>2. CASE y \in 1..r
        BY <4>1, <4>2, <1>3
      <4>3. CASE y \notin 1..r
        BY <4>1, <4>3, <1>3, <2>1
      <4> QED BY <4>2, <4>3
    <3>4. Min(I) \in I /\ \A y \in I : Min(I) <= y
      <4>1. I \in SUBSET Nat /\ I # {}
        BY <3>1
      <4> HIDE DEF I
      <4> QED BY <4>1, MinOfNumbers
    <3>5. PICK b : b = Min(I)
      OBVIOUS
    <3>6. b \in I /\ b <= k /\ k <= b
      BY <3>1, <3>3, <3>4, <3>5
    <3>7. b = k
      <4>1. b \in Nat /\ k \in Nat
        BY <3>6, <2>2
      <4> QED BY <3>6, <4>1
    <3> QED BY <3>2, <3>5, <3>7
  <2>5. near = [tbl EXCEPT ![k].time = @ - 1]
    <3>1. k # 0
      BY <2>2
    <3> QED BY <2>3, <2>4, <3>1, Zenon DEF Nearer
  <2>6. PICK o \in CalloutEntries : o = tbl[k]
    BY <1>1, <2>2
  <2>7. PICK c : c = o.time - 1
    OBVIOUS
  <2>8. c \in Nat /\ o.fun \in Funs \cup {Periodic} /\ o.due \in Nat /\ o.time = c + 1
    <3>1. o.time \in Nat /\ o.fun \in Funs \cup {Periodic} /\ o.due \in Nat
      BY <2>6 DEF CalloutEntries
    <3>2. o.time > 0
      BY <2>2, <2>6
    <3> QED BY <3>1, <3>2, <2>7
  <2>9. PICK x \in CalloutEntries : x = [fun |-> o.fun, time |-> c, due |-> o.due]
    BY <2>8 DEF CalloutEntries
  <2>10. near = [tbl EXCEPT ![k] = x]
    <3>1. [o EXCEPT !.time = c] = x
      BY <2>9 DEF CalloutEntries
    <3>2. near = [tbl EXCEPT ![k] = [tbl[k] EXCEPT !.time = @ - 1]]
      BY <2>5, Zenon
    <3> QED BY <2>6, <2>7, <3>1, <3>2, Zenon
  <2>11. /\ near \in Seq(CalloutEntries) /\ Len(near) = N
         /\ \A j \in 1..N : near[j] = IF j = k THEN x ELSE tbl[j]
    BY <1>1, <2>2, <2>9, <2>10, ExceptSeq
  <2>12. x.time = c /\ x.due = tbl[k].due
    BY <2>6, <2>9
  <2> HIDE <2>3, <2>5, <2>6, <2>7, <2>9, <2>10
  <2>13. \A j \in 1..N : near[j].due = tbl[j].due
    BY <2>11, <2>12
  <2> DEFINE Sum(i) == IF i < k THEN 0 ELSE TimeUpTo(tbl, i) - 1
  <2>14. PICK E : E = [i \in 0..N |-> TimeUpTo(near, i)]
    OBVIOUS
  <2>15. /\ E[0] = 0 /\ (\A i \in 0..N : E[i] = TimeUpTo(near, i))
         /\ \A i \in 1..N : E[i] = E[i - 1] + near[i].time
    <3>1. \A i \in 1..N : i \in 0..N /\ i - 1 \in 0..N
      BY <1>3
    <3> QED BY <3>1, <2>11, <2>14, <1>3, TimesAddUp
  <2>16. PICK T : T = [i \in 0..N |-> TimeUpTo(tbl, i)]
    OBVIOUS
  <2>17. /\ T \in [0..N -> Nat] /\ (\A i \in 0..N : T[i] = TimeUpTo(tbl, i))
         /\ \A i \in 1..N : T[i] = T[i - 1] + tbl[i].time
    <3>1. \A i \in 1..N : i \in 0..N /\ i - 1 \in 0..N
      BY <1>3
    <3> QED BY <3>1, <1>1, <2>16, TimesAddUp
  <2>18. \A i \in 0..N : E[i] = Sum(i)
    <3> DEFINE Other == {i \in 0..N : E[i] # Sum(i)}
    <3>1. SUFFICES ASSUME Other # {} PROVE FALSE
      OBVIOUS
    <3>2. PICK i \in Other : \A y \in Other : i <= y
      <4>1. Other \in SUBSET Nat
        BY <1>3
      <4> HIDE DEF Other
      <4> QED BY <3>1, <4>1, LeastNumber
    <3>3. i \in 1..N
      <4>1. 0 < k /\ 0 \in 0..N
        BY <2>2, <1>3
      <4>2. E[0] = Sum(0)
        BY <4>1, <2>15
      <4> QED BY <3>2, <4>2
    <3>4. i - 1 \in 0..N /\ ~(i <= i - 1)
      BY <3>3, <1>3
    <3>5. E[i - 1] = Sum(i - 1) /\ E[i] # Sum(i)
      BY <3>2, <3>4
    <3> HIDE DEF Other
    <3>6. E[i] = E[i - 1] + near[i].time
      BY <3>3, <2>15
    <3>7. CASE i < k
      <4>1. i - 1 < k /\ i \in 1..r /\ i # k
        BY <3>3, <3>7, <2>2
      <4>2. near[i] = tbl[i] /\ tbl[i].time = 0
        BY <4>1, <3>3, <2>11, <1>3
      <4>3. E[i] = 0
        BY <3>5, <3>6, <4>1, <4>2
      <4> QED BY <3>5, <3>7, <4>3
    <3>8. CASE i = k
      <4>1. i - 1 < k /\ ~(i < k) /\ i - 1 = r /\ r \in 0..r
        BY <3>3, <3>8, <2>2
      <4>2. near[i] = x
        BY <3>3, <3>8, <2>11
      <4>3. E[i] = c
        BY <3>5, <3>6, <4>1, <4>2, <2>12, <2>8
      <4>4. T[i] = tbl[k].time /\ T[i - 1] = 0
        <5>1. T[i - 1] = 0
          BY <4>1, <3>4, <2>17, <1>4
        <5>2. tbl[k].time \in Nat
          BY <2>6, <2>8
        <5> QED BY <5>1, <5>2, <3>3, <3>8, <2>17
      <4>5. T[i] - 1 = c
        BY <4>4, <2>8, <2>6
      <4> QED BY <3>3, <3>5, <4>1, <4>3, <4>5, <2>17
    <3>9. CASE i > k
      <4>1. ~(i - 1 < k) /\ ~(i < k) /\ i # k
        BY <3>3, <3>9, <2>2
      <4>2. near[i] = tbl[i]
        BY <3>3, <4>1, <2>11
      <4>3. E[i - 1] = T[i - 1] - 1
        BY <3>4, <3>5, <4>1, <2>17
      <4>4. T[i] = T[i - 1] + tbl[i].time /\ T[i] \in Nat /\ T[i - 1] \in Nat
        BY <3>3, <3>4, <2>17
      <4>5. E[i] = (T[i - 1] - 1) + tbl[i].time
        BY <3>6, <4>2, <4>3
      <4>6. tbl[i].time \in Nat
        <5>1. tbl[i] \in CalloutEntries
          BY <3>3, <1>1
        <5> QED BY <5>1 DEF CalloutEntries
      <4>7. E[i] = T[i] - 1
        BY <4>4, <4>5, <4>6
      <4> QED BY <3>3, <3>5, <4>1, <4>7, <2>17
    <3> QED BY <3>3, <3>7, <3>8, <3>9, <2>2
  <2>19. ASSUME NEW n \in 1..N PROVE TimeUpTo(near, n) = Left(near, n, t + 1)
    <3>1. n \in 0..N /\ TimeUpTo(near, n) = Sum(n)
      <4>1. n \in 0..N
        OBVIOUS
      <4> QED BY <4>1, <2>15, <2>18
    <3>2. Left(near, n, t + 1) = Left(tbl, n, t + 1)
      BY <2>13 DEF Left
    <3>3. CASE n < k
      <4>1. n \in 1..r
        BY <3>3, <2>2
      <4> QED BY <4>1, <3>1, <3>2, <3>3, <1>6
    <3>4. CASE ~(n < k)
      <4>1. TimeUpTo(tbl, n) >= 1
        <5>1. k \in 0..Len(tbl) /\ n \in 0..Len(tbl) /\ k <= n
          BY <3>4, <2>2, <1>1, <1>3
        <5>2. TimeUpTo(tbl, k) <= TimeUpTo(tbl, n)
          BY <5>1, LaterIsMore
        <5>3. T[k] = T[k - 1] + tbl[k].time /\ T[k - 1] \in Nat /\ tbl[k].time >= 1
          BY <2>2, <2>17, <1>3, <2>8, <2>6
        <5>4. T[k] = TimeUpTo(tbl, k) /\ T[n] = TimeUpTo(tbl, n) /\ T[k] \in Nat /\ T[n] \in Nat
          BY <5>1, <2>17, <1>1
        <5>5. tbl[k].time \in Nat
          BY <2>6, <2>8
        <5>6. T[k] >= 1
          BY <5>3, <5>4, <5>5
        <5>7. T[k] <= T[n]
          BY <5>2, <5>4
        <5>8. T[n] >= 1
          BY <5>4, <5>6, <5>7
        <5> QED BY <5>4, <5>8
      <4>2. TimeUpTo(tbl, n) = Left(tbl, n, t) /\ tbl[n].due \in Nat
        BY <1>1, <1>5 DEF Right
      <4>3. tbl[n].due - t > 0 /\ TimeUpTo(tbl, n) = tbl[n].due - t
        BY <4>1, <4>2 DEF Left
      <4>4. PICK d : d = tbl[n].due
        OBVIOUS
      <4>5. d \in Nat /\ d - t > 0 /\ d - t - 1 = d - (t + 1)
        BY <4>2, <4>3, <4>4
      <4>6. Left(tbl, n, t + 1) = d - t - 1
        BY <4>4, <4>5 DEF Left
      <4>7. Sum(n) = d - t - 1
        BY <4>3, <4>4, <3>4
      <4> QED BY <4>6, <4>7, <3>1, <3>2
    <3> QED BY <3>3, <3>4
  <2>20. Right(near, t + 1)
    BY <2>11, <2>19 DEF Right
  <2> QED BY <2>3, <2>11, <2>20
<1> QED BY <1>7, <1>8

\* What is behind entries that add up to nothing adds up as before.
LEMMA RestRight ==
    ASSUME NEW e \in Seq(CalloutEntries), NEW t \in Nat, Right(e, t),
           NEW r \in 0..Len(e), TimeUpTo(e, r) = 0
    PROVE  /\ SubSeq(e, r + 1, Len(e)) \in Seq(CalloutEntries)
           /\ Right(SubSeq(e, r + 1, Len(e)), t)
<1>1. PICK u : u = SubSeq(e, r + 1, Len(e))
  OBVIOUS
<1>2. PICK N : N = Len(e)
  OBVIOUS
<1>3. /\ N \in Nat /\ r \in 0..N /\ u \in Seq(CalloutEntries) /\ Len(u) = N - r
      /\ \A i \in 1..(N - r) : u[i] = e[r + i]
  <2>1. N \in Nat
    BY <1>2
  <2>2. \A i \in (r + 1)..N : e[i] \in CalloutEntries
    BY <1>2
  <2>3. /\ u \in Seq(CalloutEntries) /\ Len(u) = IF r + 1 <= N THEN N - (r + 1) + 1 ELSE 0
        /\ \A i \in 1..(N - (r + 1) + 1) : u[i] = e[r + 1 + i - 1]
    BY <1>1, <1>2, <2>1, <2>2, SubSeqProperties
  <2>4. r \in 0..N
    BY <1>2
  <2>5. N - (r + 1) + 1 = N - r /\ \A i \in 1..(N - r) : r + 1 + i - 1 = r + i
    BY <2>1, <2>4
  <2>6. Len(u) = N - r
    BY <2>1, <2>3, <2>4
  <2>7. \A i \in 1..(N - r) : u[i] = e[r + i]
    BY <2>3, <2>5
  <2> QED BY <2>1, <2>3, <2>4, <2>6, <2>7
<1>4. PICK E : E = [i \in 0..N |-> TimeUpTo(e, i)]
  OBVIOUS
<1>5. /\ E[r] = 0 /\ (\A i \in 0..N : E[i] = TimeUpTo(e, i))
      /\ \A i \in 1..N : E[i] = E[i - 1] + e[i].time
  <2>1. \A i \in 1..N : i \in 0..N /\ i - 1 \in 0..N
    BY <1>3
  <2> QED BY <2>1, <1>2, <1>3, <1>4, TimesAddUp
<1>6. PICK U : U = [i \in 0..(N - r) |-> TimeUpTo(u, i)]
  OBVIOUS
<1>7. /\ U[0] = 0 /\ (\A i \in 0..(N - r) : U[i] = TimeUpTo(u, i))
      /\ \A i \in 1..(N - r) : U[i] = U[i - 1] + u[i].time
  <2>1. \A i \in 1..(N - r) : i \in 0..(N - r) /\ i - 1 \in 0..(N - r)
    BY <1>3
  <2>2. 0 \in 0..(N - r)
    BY <1>3
  <2> QED BY <2>1, <2>2, <1>3, <1>6, TimesAddUp
<1>8. \A i \in 0..(N - r) : U[i] = E[r + i]
  <2> DEFINE Other == {i \in 0..(N - r) : U[i] # E[r + i]}
  <2>1. SUFFICES ASSUME Other # {} PROVE FALSE
    OBVIOUS
  <2>2. PICK i \in Other : \A y \in Other : i <= y
    <3>1. Other \in SUBSET Nat
      BY <1>3
    <3> HIDE DEF Other
    <3> QED BY <2>1, <3>1, LeastNumber
  <2>3. i \in 1..(N - r)
    <3>1. U[0] = E[r + 0]
      BY <1>3, <1>5, <1>7
    <3> QED BY <2>2, <3>1
  <2>4. i - 1 \in 0..(N - r) /\ ~(i <= i - 1) /\ r + i \in 1..N
    BY <2>3, <1>3
  <2>5. U[i - 1] = E[r + (i - 1)] /\ U[i] # E[r + i]
    BY <2>2, <2>4
  <2> HIDE DEF Other
  <2>6. U[i] = U[i - 1] + e[r + i].time
    BY <2>3, <1>3, <1>7
  <2>7. E[r + i] = E[r + (i - 1)] + e[r + i].time
    <3>1. PICK j : j = r + i
      OBVIOUS
    <3>2. j \in 1..N
      BY <2>4, <3>1
    <3>3. E[j] = E[j - 1] + e[j].time
      BY <3>2, <1>5
    <3>4. j - 1 = r + (i - 1)
      BY <2>3, <3>1, <1>3
    <3> QED BY <3>1, <3>3, <3>4
  <2> QED BY <2>4, <2>5, <2>6, <2>7
<1>9. ASSUME NEW n \in 1..(N - r) PROVE TimeUpTo(u, n) = Left(u, n, t)
  <2>1. r + n \in 1..N /\ r + n \in 0..N /\ n \in 0..(N - r)
    BY <1>3
  <2>2. TimeUpTo(u, n) = TimeUpTo(e, r + n)
    BY <2>1, <1>5, <1>7, <1>8
  <2>3. TimeUpTo(e, r + n) = Left(e, r + n, t)
    BY <2>1, <1>2 DEF Right
  <2>4. u[n] = e[r + n]
    BY <1>3
  <2> QED BY <2>2, <2>3, <2>4 DEF Left
<1>10. Right(u, t)
  BY <1>3, <1>9 DEF Right
<1> QED BY <1>1, <1>3, <1>10

\* clock.c:66-79: those that are due are called, and may ask again, and are taken out.
LEMMA CalledRight ==
    ASSUME NEW tbl \in Seq(CalloutEntries), ticks \in Nat, Right(tbl, ticks + 1)
    PROVE  Called(tbl) \in Seq(CalloutEntries) /\ Right(Called(tbl), ticks + 1)
<1>1. PICK e : e = CallsMade(tbl)
  OBVIOUS
<1>2. PICK r : r = Ran(tbl)
  OBVIOUS
<1>3. PICK N : N = Len(tbl)
  OBVIOUS
<1>4. N \in Nat /\ r \in 0..N /\ \A m \in 1..r : tbl[m].time = 0
  BY <1>2, <1>3, RanOut DEF RunOut
<1>5. \A m \in 0..r : TimeUpTo(tbl, m) = 0
  BY <1>3, <1>4, RunOutSums
<1>6. ticks + 1 \in Nat /\ Period \in Nat
  BY ClockAssumption
<1>7. e \in Seq(CalloutEntries) /\ Right(e, ticks + 1) /\ r \in 0..Len(e) /\ TimeUpTo(e, r) = 0
  <2>1. CASE e = tbl
    <3>1. r \in 0..r
      BY <1>4
    <3> QED BY <2>1, <3>1, <1>3, <1>4, <1>5
  <2>2. CASE e = Entered(tbl, Periodic, Period, ticks + 1 + Period)
    <3>1. e \in Seq(CalloutEntries) /\ Right(e, ticks + 1)
      BY <2>2, <1>6, EnteredRight
    <3>2. PICK p : p = PlaceFor(tbl, Period)
      OBVIOUS
    <3>3. EnteredAt(tbl, e, p, Period, ticks + 1 + Period)
      <4>1. ticks + 1 + Period \in Nat
        BY <1>6
      <4> QED BY <4>1, <2>2, <3>2, <1>6, EnteredInPlace
    <3>4. Len(e) = N + 1
      BY <3>3, <1>3 DEF EnteredAt
    <3>5. CASE r = 0
      <4>1. TimeUpTo(e, 0) = 0
        BY <3>1, TimesAddUp
      <4> QED BY <4>1, <3>1, <3>4, <3>5, <1>4
    <3>6. CASE r # 0
      <4>1. r \in 1..N /\ r \in 0..r
        BY <3>6, <1>4
      <4>2. TimeUpTo(tbl, r) = 0
        BY <4>1, <1>5
      <4>3. r < p
        <5>1. ~(0 > Period)
          BY <1>6
        <5> QED BY <4>1, <4>2, <5>1, <3>3, <1>3 DEF EnteredAt
      <4>4. TimeUpTo(e, r) = TimeUpTo(tbl, r)
        BY <4>1, <4>3, <3>3, <1>3 DEF EnteredAt
      <4> QED BY <3>1, <3>4, <4>1, <4>2, <4>4, <1>4
    <3> QED BY <3>5, <3>6
  <2> QED BY <2>1, <2>2, <1>1 DEF CallsMade
<1>8. Called(tbl) = SubSeq(e, r + 1, Len(e))
  BY <1>1, <1>2, Zenon DEF Called
<1> QED BY <1>6, <1>7, <1>8, RestRight

\* binit: no entries, no alarm clocks.
LEMMA ClockInitially == ClockInit => ClockInv
<1> SUFFICES ASSUME ClockInit PROVE ClockInv
  OBVIOUS
<1>1. ClockTypes
  BY DEF ClockInit, ClockTypes
<1>2. TimeKept
  BY ClockAssumption DEF ClockInit, TimeKept
<1>3. DeltasAddUp
  BY DEF ClockInit, DeltasAddUp
<1> QED BY <1>1, <1>2, <1>3 DEF ClockInv, ClockOK

\* timeout leaves the time alone.
LEMMA TimeoutStep ==
    ASSUME ClockInv, NEW f \in Funs, NEW tim \in 1..MaxTim, timeout(f, tim)
    PROVE  ClockInv'
<1>1. /\ UNCHANGED <<lbolt, time, clktim, ticks, second>> /\ state = "up"
      /\ state' = StateAfter(callout, tim)
      /\ callout' = IF state' = "panic" THEN callout
                    ELSE Entered(callout, f, tim, ticks + tim)
  BY DEF timeout
<1>2. ClockTypes /\ DeltasAddUp /\ TimeKept
  BY DEF ClockInv, ClockOK
<1>3. tim \in Nat /\ callout \in Seq(CalloutEntries) /\ ticks \in Nat
  BY <1>2, ClockAssumption DEF ClockTypes
<1>4. Right(callout, ticks)
  BY <1>1, <1>2, <1>3, RightNow
<1>5. /\ Entered(callout, f, tim, ticks + tim) \in Seq(CalloutEntries)
      /\ Right(Entered(callout, f, tim, ticks + tim), ticks)
  BY <1>3, <1>4, EnteredRight
<1>6. callout' \in Seq(CalloutEntries) /\ Right(callout', ticks')
  BY <1>1, <1>3, <1>4, <1>5
<1>7. state' \in {"up", "panic", "overrun"}
  BY <1>1 DEF StateAfter
<1>8. ClockTypes'
  BY <1>1, <1>2, <1>6, <1>7 DEF ClockTypes
<1>9. TimeKept'
  BY <1>1, <1>2 DEF TimeKept
<1>10. DeltasAddUp'
  <2>1. DOMAIN callout' = 1..Len(callout')
    BY <1>6
  <2> QED BY <2>1, <1>6 DEF DeltasAddUp, Right, Left
<1> QED BY <1>8, <1>9, <1>10 DEF ClockInv, ClockOK

\* The interrupt counts the tick, and a second when there is one.
LEMMA ClockStep ==
    ASSUME ClockInv, NEW basepri \in BOOLEAN, clock(basepri)
    PROVE  ClockInv'
<1>1. PICK tbl : tbl = Nearer(callout)
  OBVIOUS
<1>2. /\ state = "up" /\ ticks' = ticks + 1
      /\ callout' = tbl \/ callout' = Called(tbl)
      /\ state' = StateAfter(tbl, Period) \/ state' = state
  BY <1>1 DEF clock
<1>3. \/ lbolt' = (lbolt + 1) - HZ /\ Second /\ lbolt + 1 >= HZ
      \/ lbolt' = lbolt + 1 /\ NoSecond
  <2>1. IF lbolt + 1 >= HZ /\ ~basepri
        THEN lbolt' = (lbolt + 1) - HZ /\ Second
        ELSE lbolt' = lbolt + 1 /\ NoSecond
    BY Zenon DEF clock, Rest
  <2> QED BY <2>1, Zenon
<1>4. ClockTypes /\ DeltasAddUp /\ TimeKept
  BY DEF ClockInv, ClockOK
<1>5. /\ callout \in Seq(CalloutEntries) /\ ticks \in Nat /\ time \in Nat /\ lbolt \in Nat
      /\ clktim \in [AlarmUsers -> Nat] /\ second \in [AlarmUsers -> Nat] /\ HZ \in Nat
  BY <1>4, ClockAssumption DEF ClockTypes
<1>6. Right(callout, ticks)
  BY <1>2, <1>4, <1>5, RightNow
<1>7. tbl \in Seq(CalloutEntries) /\ Right(tbl, ticks + 1)
  BY <1>1, <1>5, <1>6, NearerRight
<1>8. Called(tbl) \in Seq(CalloutEntries) /\ Right(Called(tbl), ticks + 1)
  BY <1>5, <1>7, CalledRight
<1>9. callout' \in Seq(CalloutEntries) /\ Right(callout', ticks')
  BY <1>2, <1>7, <1>8
<1>10. state' \in {"up", "panic", "overrun"}
  BY <1>2 DEF StateAfter
<1>11. DeltasAddUp'
  <2>1. DOMAIN callout' = 1..Len(callout')
    BY <1>9
  <2> QED BY <2>1, <1>9 DEF DeltasAddUp, Right, Left
<1>12. CASE lbolt' = (lbolt + 1) - HZ /\ Second /\ lbolt + 1 >= HZ
  <2>1. /\ time' = time + 1
        /\ clktim' = [p \in AlarmUsers |-> IF p \in Running /\ clktim[p] > 0 THEN clktim[p] - 1
                                           ELSE clktim[p]]
        /\ second' = [p \in AlarmUsers |-> IF p \in stopped THEN second[p] + 1 ELSE second[p]]
    BY <1>12 DEF Second
  <2>2. \A p \in AlarmUsers : clktim[p] \in Nat /\ second[p] \in Nat
    BY <1>5
  <2>3. clktim' \in [AlarmUsers -> Nat] /\ second' \in [AlarmUsers -> Nat]
    BY <2>1, <2>2
  <2>4. lbolt' \in Nat /\ time' \in Nat /\ ticks' \in Nat
    BY <1>2, <1>5, <1>12, <2>1
  <2>5. time' * HZ + lbolt' = ticks'
    <3>1. time * HZ + lbolt = ticks /\ time * HZ \in Nat
      BY <1>4, <1>5 DEF TimeKept
    <3>2. (time + 1) * HZ = time * HZ + HZ
      BY <1>5
    <3> QED BY <3>1, <3>2, <1>2, <1>5, <1>12, <2>1
  <2>6. ASSUME NEW p \in AlarmUsers, clktim'[p] > 0
        PROVE  time' + clktim'[p] = second'[p]
    <3>1. clktim[p] > 0
      BY <2>1, <2>2, <2>6
    <3>2. time + clktim[p] = second[p]
      BY <3>1, <1>4 DEF TimeKept
    <3>3. CASE p \in stopped
      <4>1. clktim'[p] = clktim[p] /\ second'[p] = second[p] + 1
        BY <2>1, <3>3 DEF Running
      <4> QED BY <4>1, <3>2, <2>1, <2>2, <1>5
    <3>4. CASE p \notin stopped
      <4>1. clktim'[p] = clktim[p] - 1 /\ second'[p] = second[p]
        BY <2>1, <3>1, <3>4 DEF Running
      <4> QED BY <4>1, <3>2, <2>1, <2>2, <1>5
    <3> QED BY <3>3, <3>4
  <2>7. TimeKept'
    BY <2>5, <2>6 DEF TimeKept
  <2>8. ClockTypes'
    BY <1>9, <1>10, <2>3, <2>4 DEF ClockTypes
  <2> QED BY <2>7, <2>8, <1>11 DEF ClockInv, ClockOK
<1>13. CASE lbolt' = lbolt + 1 /\ NoSecond
  <2>1. UNCHANGED <<time, clktim, second>>
    BY <1>13 DEF NoSecond
  <2>2. time' * HZ + lbolt' = ticks'
    <3>1. time * HZ + lbolt = ticks /\ time * HZ \in Nat
      BY <1>4, <1>5 DEF TimeKept
    <3> QED BY <3>1, <2>1, <1>2, <1>5, <1>13
  <2>3. TimeKept'
    BY <1>4, <2>1, <2>2 DEF TimeKept
  <2>4. ClockTypes'
    BY <1>2, <1>5, <1>9, <1>10, <1>13, <2>1 DEF ClockTypes
  <2> QED BY <2>3, <2>4, <1>11 DEF ClockInv, ClockOK
<1> QED BY <1>3, <1>12, <1>13

\* Processes set, stop and take their alarms; the time goes on without them.
LEMMA AlarmsStep ==
    ASSUME ClockInv, Alarms
    PROVE  ClockInv'
<1>1. UNCHANGED <<callout, state, lbolt, time, ticks>>
  BY DEF Alarms, alarm, TakesSignal, StopsOrGoes
<1>2. ClockTypes /\ DeltasAddUp /\ TimeKept
  BY DEF ClockInv, ClockOK
<1>3. \/ UNCHANGED <<clktim, second>>
      \/ \E p \in AlarmUsers, n \in 0..MaxDeltat :
            /\ clktim' = [clktim EXCEPT ![p] = n]
            /\ second' = [second EXCEPT ![p] = time + n]
  BY DEF Alarms, alarm, TakesSignal, StopsOrGoes
<1>4. DeltasAddUp'
  BY <1>1, <1>2 DEF DeltasAddUp
<1>5. CASE UNCHANGED <<clktim, second>>
  <2>1. ClockTypes' /\ TimeKept'
    BY <1>1, <1>2, <1>5 DEF ClockTypes, TimeKept
  <2> QED BY <2>1, <1>4 DEF ClockInv, ClockOK
<1>6. ASSUME NEW p \in AlarmUsers, NEW n \in 0..MaxDeltat,
             clktim' = [clktim EXCEPT ![p] = n], second' = [second EXCEPT ![p] = time + n]
      PROVE  ClockInv'
  <2>1. n \in Nat /\ time \in Nat
    BY <1>2, ClockAssumption DEF ClockTypes
  <2>2. clktim \in [AlarmUsers -> Nat] /\ second \in [AlarmUsers -> Nat]
    BY <1>2 DEF ClockTypes
  <2>3. clktim' \in [AlarmUsers -> Nat] /\ second' \in [AlarmUsers -> Nat]
    BY <1>6, <2>1, <2>2
  <2>4. ClockTypes'
    BY <1>1, <1>2, <2>3 DEF ClockTypes
  <2>5. ASSUME NEW q \in AlarmUsers, clktim'[q] > 0
        PROVE  time' + clktim'[q] = second'[q]
    <3>1. CASE q = p
      BY <3>1, <1>1, <1>6, <2>1, <2>2
    <3>2. CASE q # p
      <4>1. clktim'[q] = clktim[q] /\ second'[q] = second[q]
        BY <3>2, <1>6, <2>2
      <4> QED BY <4>1, <2>5, <1>1, <1>2 DEF TimeKept
    <3> QED BY <3>1, <3>2
  <2>6. TimeKept'
    BY <1>1, <1>2, <2>5 DEF TimeKept
  <2> QED BY <2>4, <2>6, <1>4 DEF ClockInv, ClockOK
<1> QED BY <1>3, <1>5, <1>6

\* The inductive invariant of the clock: types, the differences of the callout table and the
\* time.
THEOREM ClockInvariant == ClockSpec => []ClockInv
<1>1. ClockInv /\ [ClockNext]_clockVars => ClockInv'
  <2> SUFFICES ASSUME ClockInv, [ClockNext]_clockVars PROVE ClockInv'
    OBVIOUS
  <2>1. CASE ClockNext
    BY <2>1, TimeoutStep, ClockStep, AlarmsStep DEF ClockNext
  <2>2. CASE UNCHANGED clockVars
    BY <2>2 DEF clockVars, ClockInv, ClockTypes, ClockOK, TimeKept, DeltasAddUp
  <2> QED BY <2>1, <2>2
<1> QED BY <1>1, ClockInitially, PTL DEF ClockSpec

\* clock.c:108-143: for any functions, times, length of the table, HZ and number of processes,
\* the differences up to an entry add up to what is left of its time, no tick is lost, and an
\* alarm clock runs out with its second.
THEOREM ClockTheorem == ClockSpec => []ClockOK
<1>1. ClockInv => ClockOK
  BY DEF ClockInv
<1> QED BY <1>1, ClockInvariant, PTL

----------------------------------------------------------------------------
(* Resource maps *)

\* A set that has with a number all the smaller ones, and how many it has.
LEMMA CountOfPrefix ==
    ASSUME NEW N \in Nat, NEW S \in SUBSET (1..N), \A k \in S : \A m \in 1..k : m \in S
    PROVE  Cardinality(S) \in 0..N /\ S = 1..Cardinality(S)
<1>1. PICK k \in 0..N : S = 1..k
  <2>1. CASE S = {}
    <3>1. S = 1..0 /\ 0 \in 0..N
      BY <2>1
    <3> QED BY <3>1
  <2>2. CASE S # {}
    <3>1. PICK k : k = Max(S)
      OBVIOUS
    <3>2. k \in S /\ \A y \in S : y <= k
      BY <3>1, <2>2, MaxOfNumbers
    <3>3. k \in 1..N /\ \A y \in S : y \in 1..k
      BY <3>2
    <3>4. S = 1..k
      BY <3>2, <3>3
    <3> QED BY <3>3, <3>4
  <2> QED BY <2>1, <2>2
<1>2. Cardinality(1..k) = IF 1 > k THEN 0 ELSE k - 1 + 1
  <2>1. k \in Int /\ 1 \in Int
    OBVIOUS
  <2> QED BY <2>1, FS_Interval
<1>3. Cardinality(1..k) = k
  BY <1>2
<1> QED BY <1>1, <1>3

MapEntries == [addr : Nat, size : Nat]

\* The last unit of an entry, and one more.
Over(e) == e.addr + e.size

\* x is free by the map.
FreeAt(mp, x) == \E k \in 1..Len(mp) : mp[k].addr <= x /\ x < Over(mp[k])

\* A tidy map, of which FreeAt tells what is free.
TidyMap(mp) ==
    /\ mp \in Seq(MapEntries)
    /\ \A k \in 1..Len(mp) : mp[k].size > 0
    /\ \A j, k \in 1..Len(mp) : j < k => Over(mp[j]) < mp[k].addr

\* The fields of an entry are numbers.
LEMMA EntryNumbers ==
    ASSUME NEW mp \in Seq(MapEntries), NEW k \in 1..Len(mp)
    PROVE  /\ mp[k] \in MapEntries /\ mp[k].addr \in Nat /\ mp[k].size \in Nat
           /\ Over(mp[k]) \in Nat /\ Over(mp[k]) = mp[k].addr + mp[k].size
<1>1. mp[k] \in MapEntries
  OBVIOUS
<1> QED BY <1>1 DEF MapEntries, Over

\* An entry made of numbers.
LEMMA EntryOfNumbers ==
    ASSUME NEW a \in Nat, NEW n \in Nat
    PROVE  Entry(a, n) \in MapEntries /\ Entry(a, n).addr = a /\ Entry(a, n).size = n
             /\ Over(Entry(a, n)) = a + n
BY DEF Entry, MapEntries, Over

\* Neighbours apart are all entries apart.
LEMMA TidyIsApart ==
    ASSUME NEW mp \in Seq(MapEntries)
    PROVE  Tidy(mp) <=> TidyMap(mp)
<1>1. PICK N : N = Len(mp)
  OBVIOUS
<1>2. N \in Nat /\ DOMAIN mp = 1..N
  BY <1>1
<1>3. \A k \in 1..N : /\ mp[k].addr \in Nat /\ mp[k].size \in Nat /\ Over(mp[k]) \in Nat
                      /\ Over(mp[k]) = mp[k].addr + mp[k].size
  BY <1>1, EntryNumbers
<1>4. ASSUME TidyMap(mp) PROVE Tidy(mp)
  <2>1. ASSUME NEW n \in 1..N - 1 PROVE mp[n].addr + mp[n].size < mp[n + 1].addr
    <3>1. n \in 1..N /\ n + 1 \in 1..N /\ n < n + 1
      BY <1>2
    <3> QED BY <3>1, <1>1, <1>3, <1>4 DEF TidyMap
  <2> QED BY <2>1, <1>1, <1>2, <1>4 DEF TidyMap, Tidy
<1>5. ASSUME Tidy(mp) PROVE TidyMap(mp)
  <2>1. /\ \A n \in 1..N : mp[n].size > 0
        /\ \A n \in 1..N - 1 : Over(mp[n]) < mp[n + 1].addr
    <3>1. \A n \in 1..N - 1 : n \in 1..N
      BY <1>2
    <3> QED BY <3>1, <1>1, <1>2, <1>3, <1>5 DEF Tidy
  <2>2. ASSUME NEW j \in 1..N
        PROVE  \A k \in 1..N : j < k => Over(mp[j]) < mp[k].addr
    <3> DEFINE Near == {k \in 1..N : j < k /\ ~(Over(mp[j]) < mp[k].addr)}
    <3>1. SUFFICES ASSUME Near # {} PROVE FALSE
      OBVIOUS
    <3>2. PICK k \in Near : \A y \in Near : k <= y
      <4>1. Near \in SUBSET Nat
        OBVIOUS
      <4> HIDE DEF Near
      <4> QED BY <3>1, <4>1, LeastNumber
    <3>3. k \in 1..N /\ j < k /\ ~(Over(mp[j]) < mp[k].addr) /\ k - 1 \notin Near
      <4>1. k \in 1..N /\ j < k /\ ~(Over(mp[j]) < mp[k].addr)
        BY <3>2
      <4>2. ~(k <= k - 1)
        BY <4>1
      <4> HIDE DEF Near
      <4> QED BY <4>1, <4>2, <3>2
    <3>4. PICK i : i = k - 1
      OBVIOUS
    <3>5. i \in 1..N - 1 /\ i \in 1..N /\ i + 1 = k
      BY <3>3, <3>4, <1>2
    <3>6. Over(mp[i]) < mp[k].addr
      BY <3>5, <2>1
    <3>7. CASE i = j
      BY <3>3, <3>6, <3>7
    <3>8. CASE i # j
      <4>1. j < i
        BY <3>3, <3>5, <3>8
      <4>2. Over(mp[j]) < mp[i].addr
        BY <3>3, <3>4, <3>5, <4>1
      <4>3. /\ mp[i].addr \in Nat /\ mp[i].size \in Nat /\ Over(mp[i]) \in Nat
            /\ Over(mp[i]) = mp[i].addr + mp[i].size
            /\ Over(mp[j]) \in Nat /\ mp[k].addr \in Nat
        BY <3>3, <3>5, <1>3
      <4>4. PICK x, y, z : x = Over(mp[j]) /\ y = Over(mp[i]) /\ z = mp[k].addr
        OBVIOUS
      <4>5. PICK w, v : w = mp[i].addr /\ v = mp[i].size
        OBVIOUS
      <4>7. x \in Nat /\ y \in Nat /\ z \in Nat /\ w \in Nat /\ v \in Nat
        BY <4>3, <4>4, <4>5, Zenon
      <4>8. x < w /\ y = w + v /\ y < z
        BY <3>6, <4>2, <4>3, <4>4, <4>5, Zenon
      <4>6. x < z
        BY <4>7, <4>8
      <4> QED BY <3>3, <4>4, <4>6, Zenon
    <3> QED BY <3>7, <3>8
  <2> QED BY <2>1, <2>2, <1>1 DEF TidyMap
<1> QED BY <1>4, <1>5

\* FreeIn is the set of what is free.
LEMMA FreeInAt ==
    ASSUME NEW mp \in Seq(MapEntries), NEW x
    PROVE  x \in FreeIn(mp) <=> x \in Int /\ FreeAt(mp, x)
<1>1. \A k \in 1..Len(mp) : /\ mp[k].addr \in Nat /\ mp[k].size \in Nat
                            /\ Over(mp[k]) = mp[k].addr + mp[k].size
  BY EntryNumbers
<1>2. \A k \in 1..Len(mp) :
        x \in Covered(mp[k]) <=> x \in Int /\ mp[k].addr <= x /\ x < Over(mp[k])
  <2> TAKE k \in 1..Len(mp)
  <2>1. PICK a : a = mp[k].addr
    OBVIOUS
  <2>2. PICK s : s = mp[k].size
    OBVIOUS
  <2>3. a \in Nat /\ s \in Nat /\ Over(mp[k]) = a + s
    BY <2>1, <2>2, <1>1
  <2>4. Covered(mp[k]) = a..((a + s) - 1)
    <3>1. a + (s - 1) = (a + s) - 1
      BY <2>3
    <3> QED BY <3>1, <2>1, <2>2 DEF Covered
  <2>5. x \in a..((a + s) - 1) <=> x \in Int /\ a <= x /\ x < a + s
    BY <2>3
  <2> QED BY <2>1, <2>3, <2>4, <2>5
<1>3. DOMAIN mp = 1..Len(mp)
  OBVIOUS
<1>4. x \in FreeIn(mp) <=> \E k \in 1..Len(mp) : x \in Covered(mp[k])
  BY <1>3 DEF FreeIn
<1> QED BY <1>2, <1>4 DEF FreeAt

\* The first entry with room is one with room, if there is one.
LEMMA FirstWithRoom ==
    ASSUME NEW mp \in Seq(MapEntries), NEW size \in Nat
    PROVE  IF \E k \in 1..Len(mp) : mp[k].size >= size
             THEN FirstFit(mp, size) \in 1..Len(mp) /\ mp[FirstFit(mp, size)].size >= size
             ELSE FirstFit(mp, size) = 0
<1> DEFINE I == {k \in 1..Len(mp) : mp[k].size >= size}
<1>1. FirstFit(mp, size) = IF I # {} THEN Min(I) ELSE 0
  BY Zenon DEF FirstFit, SelectInSeq
<1>2. CASE I = {}
  BY <1>1, <1>2
<1>3. CASE I # {}
  <2>1. I \in SUBSET Nat
    OBVIOUS
  <2>2. Min(I) \in I
    <3> HIDE DEF I
    <3> QED BY <1>3, <2>1, MinOfNumbers
  <2>3. FirstFit(mp, size) \in I
    <3> HIDE DEF I
    <3> QED BY <1>1, <1>3, <2>2
  <2> QED BY <2>3
<1> QED BY <1>2, <1>3

\* r is a tidy map of what is free by mp but the size units from b, which were free.
Taken(mp, size, b, r) ==
    /\ TidyMap(r) /\ b \in Nat
    /\ \A x \in Int : FreeAt(r, x) <=> FreeAt(mp, x) /\ ~(b <= x /\ x < b + size)
    /\ \A x \in Int : b <= x /\ x < b + size => FreeAt(mp, x)

\* r is a tidy map of what is free by mp and of the size units from a.
GivenBack(mp, size, a, r) ==
    /\ TidyMap(r)
    /\ \A x \in Int : FreeAt(r, x) <=> FreeAt(mp, x) \/ (a <= x /\ x < a + size)

\* The bounds of the entries of a tidy map.
LEMMA TidyBounds ==
    ASSUME NEW mp, TidyMap(mp)
    PROVE  /\ mp \in Seq(MapEntries) /\ Len(mp) \in Nat
           /\ \A k \in 1..Len(mp) : mp[k].addr \in Nat /\ Over(mp[k]) \in Nat
           /\ \A k \in 1..Len(mp) : mp[k].addr < Over(mp[k])
           /\ \A j, k \in 1..Len(mp) : j < k => Over(mp[j]) < mp[k].addr
<1>1. mp \in Seq(MapEntries)
  BY DEF TidyMap
<1>2. ASSUME NEW k \in 1..Len(mp)
      PROVE  mp[k].addr \in Nat /\ Over(mp[k]) \in Nat /\ mp[k].addr < Over(mp[k])
  <2>1. mp[k].size > 0
    BY DEF TidyMap
  <2>2. PICK a, s, o : a = mp[k].addr /\ s = mp[k].size /\ o = Over(mp[k])
    OBVIOUS
  <2>3. a \in Nat /\ s \in Nat /\ o = a + s
    BY <1>1, <2>2, EntryNumbers
  <2>4. s > 0
    BY <2>1, <2>2
  <2>5. o \in Nat /\ a < o
    BY <2>3, <2>4
  <2> QED BY <2>2, <2>3, <2>5
<1> QED BY <1>1, <1>2 DEF TidyMap

\* And from the bounds a map is tidy.
LEMMA TidyFromBounds ==
    ASSUME NEW mp \in Seq(MapEntries),
           \A k \in 1..Len(mp) : mp[k].addr < Over(mp[k]),
           \A j, k \in 1..Len(mp) : j < k => Over(mp[j]) < mp[k].addr
    PROVE  TidyMap(mp)
<1>1. ASSUME NEW k \in 1..Len(mp) PROVE mp[k].size > 0
  <2>1. PICK a, s, o : a = mp[k].addr /\ s = mp[k].size /\ o = Over(mp[k])
    OBVIOUS
  <2>2. a \in Nat /\ s \in Nat /\ o = a + s /\ a < o
    BY <2>1, EntryNumbers
  <2>3. s > 0
    BY <2>2
  <2> QED BY <2>1, <2>3
<1> QED BY <1>1 DEF TidyMap

\* malloc.c:17-37: malloc takes from the first entry with room.
LEMMA MallocTakes ==
    ASSUME NEW mp, TidyMap(mp), NEW size \in Nat, size > 0, FirstFit(mp, size) # 0
    PROVE  Taken(mp, size, Base(mp, size), malloc(mp, size))
<1>1. PICK n : n = FirstFit(mp, size)
  OBVIOUS
<1>2. PICK N : N = Len(mp)
  OBVIOUS
<1>3. /\ mp \in Seq(MapEntries) /\ N \in Nat
      /\ \A k \in 1..N : mp[k].addr \in Nat /\ Over(mp[k]) \in Nat
      /\ \A k \in 1..N : mp[k].addr < Over(mp[k])
      /\ \A j, k \in 1..N : j < k => Over(mp[j]) < mp[k].addr
  BY <1>2, TidyBounds
<1>4. n \in 1..N /\ mp[n].size >= size
  BY <1>1, <1>2, <1>3, FirstWithRoom
<1>5. PICK b, s : b = mp[n].addr /\ s = mp[n].size
  OBVIOUS
<1>6. b \in Nat /\ s \in Nat /\ Over(mp[n]) = b + s /\ s >= size
  BY <1>2, <1>3, <1>4, <1>5, EntryNumbers
<1>7. Base(mp, size) = b
  BY <1>1, <1>5 DEF Base
<1>8. \A x \in Int : b <= x /\ x < b + size => FreeAt(mp, x)
  <2>1. ASSUME NEW x \in Int, b <= x, x < b + size PROVE FreeAt(mp, x)
    <3>1. x < b + s
      BY <1>6, <2>1
    <3>2. mp[n].addr <= x /\ x < Over(mp[n])
      BY <1>5, <1>6, <2>1, <3>1
    <3> QED BY <3>2, <1>2, <1>4 DEF FreeAt
  <2> QED BY <2>1
<1>9. \A x \in Int : \A j \in 1..N :
         j # n /\ mp[j].addr <= x /\ x < Over(mp[j]) => ~(b <= x /\ x < b + s)
  <2> SUFFICES ASSUME NEW x \in Int, NEW j \in 1..N,
                      j # n, mp[j].addr <= x, x < Over(mp[j]), b <= x, x < b + s
               PROVE  FALSE
    OBVIOUS
  <2>1. PICK d, o : d = mp[j].addr /\ o = Over(mp[j])
    OBVIOUS
  <2>2. d \in Nat /\ o \in Nat /\ d <= x /\ x < o
    BY <2>1, <1>3
  <2>3. CASE j < n
    <3>1. o < b
      BY <2>1, <2>3, <1>3, <1>4, <1>5
    <3> QED BY <3>1, <2>2, <1>6
  <2>4. CASE j > n
    <3>1. b + s < d
      BY <2>1, <2>4, <1>3, <1>4, <1>6
    <3> QED BY <3>1, <2>2, <1>6
  <2> QED BY <2>3, <2>4, <1>4
<1>10. PICK r : r = malloc(mp, size)
  OBVIOUS
<1>11. CASE s = size
  <2>1. r = RemoveAt(mp, n)
    BY <1>1, <1>5, <1>10, <1>11, Zenon DEF malloc
  <2>2. /\ r \in Seq(MapEntries) /\ Len(r) = N - 1
        /\ \A k \in 1..N - 1 : r[k] = IF k < n THEN mp[k] ELSE mp[k + 1]
    <3>1. n \in 1..Len(mp)
      BY <1>2, <1>4
    <3>2. /\ RemoveAt(mp, n) \in Seq(MapEntries) /\ Len(RemoveAt(mp, n)) = Len(mp) - 1
          /\ \A k \in 1..Len(RemoveAt(mp, n)) :
                RemoveAt(mp, n)[k] = IF k < n THEN mp[k] ELSE mp[k + 1]
      BY <1>3, <3>1, RemoveAtIndex
    <3> QED BY <2>1, <1>2, <3>2, Zenon
  <2>3. PICK F : F = [k \in 1..N - 1 |-> IF k < n THEN k ELSE k + 1]
    OBVIOUS
  <2>4. /\ \A k \in 1..N - 1 : F[k] \in 1..N /\ F[k] # n /\ r[k] = mp[F[k]]
        /\ \A j, k \in 1..N - 1 : j < k => F[j] < F[k]
    <3>1. ASSUME NEW k \in 1..N - 1 PROVE F[k] \in 1..N /\ F[k] # n /\ r[k] = mp[F[k]]
      <4>1. CASE k < n
        <5>1. F[k] = k /\ r[k] = mp[k] /\ k \in 1..N /\ k # n
          BY <2>2, <2>3, <4>1, <1>3, <1>4
        <5> QED BY <5>1
      <4>2. CASE ~(k < n)
        <5>1. F[k] = k + 1 /\ r[k] = mp[k + 1] /\ k + 1 \in 1..N /\ k + 1 # n
          BY <2>2, <2>3, <4>2, <1>3, <1>4
        <5> QED BY <5>1
      <4> QED BY <4>1, <4>2
    <3>2. ASSUME NEW j \in 1..N - 1, NEW k \in 1..N - 1, j < k PROVE F[j] < F[k]
      <4>1. F[j] = (IF j < n THEN j ELSE j + 1) /\ F[k] = (IF k < n THEN k ELSE k + 1)
        BY <2>3
      <4> QED BY <4>1, <3>2, <1>4
    <3> QED BY <3>1, <3>2
  <2>5. \A j \in 1..N : j # n => \E k \in 1..N - 1 : F[k] = j
    <3>1. ASSUME NEW j \in 1..N, j < n PROVE \E k \in 1..N - 1 : F[k] = j
      <4>1. j \in 1..N - 1
        BY <3>1, <1>3, <1>4
      <4> QED BY <4>1, <3>1, <2>3
    <3>2. ASSUME NEW j \in 1..N, j > n PROVE \E k \in 1..N - 1 : F[k] = j
      <4>1. j - 1 \in 1..N - 1 /\ ~(j - 1 < n) /\ j - 1 + 1 = j
        BY <3>2, <1>3, <1>4
      <4> QED BY <4>1, <2>3
    <3> QED BY <3>1, <3>2, <1>4
  <2>6. TidyMap(r)
    <3>1. \A k \in 1..Len(r) : r[k].addr < Over(r[k])
      BY <2>2, <2>4, <1>3
    <3>2. ASSUME NEW j \in 1..N - 1, NEW k \in 1..N - 1, j < k PROVE Over(r[j]) < r[k].addr
      <4>1. F[j] \in 1..N /\ F[k] \in 1..N /\ F[j] < F[k] /\ r[j] = mp[F[j]] /\ r[k] = mp[F[k]]
        BY <2>4, <3>2
      <4>2. Over(mp[F[j]]) < mp[F[k]].addr
        BY <4>1, <1>3
      <4> QED BY <4>1, <4>2
    <3> QED BY <2>2, <3>1, <3>2, TidyFromBounds
  <2>7. ASSUME NEW x \in Int
        PROVE  FreeAt(r, x) <=> FreeAt(mp, x) /\ ~(b <= x /\ x < b + size)
    <3>1. ASSUME FreeAt(r, x) PROVE FreeAt(mp, x) /\ ~(b <= x /\ x < b + size)
      <4>1. PICK k \in 1..N - 1 : r[k].addr <= x /\ x < Over(r[k])
        BY <3>1, <2>2 DEF FreeAt
      <4>2. F[k] \in 1..N /\ F[k] # n /\ mp[F[k]].addr <= x /\ x < Over(mp[F[k]])
        BY <4>1, <2>4
      <4> QED BY <4>2, <1>2, <1>9, <1>11 DEF FreeAt
    <3>2. ASSUME FreeAt(mp, x), ~(b <= x /\ x < b + size) PROVE FreeAt(r, x)
      <4>1. PICK j \in 1..N : mp[j].addr <= x /\ x < Over(mp[j])
        BY <3>2, <1>2 DEF FreeAt
      <4>2. j # n
        BY <4>1, <3>2, <1>5, <1>6, <1>11
      <4>3. PICK k \in 1..N - 1 : F[k] = j
        BY <4>2, <2>5
      <4>4. r[k].addr <= x /\ x < Over(r[k])
        BY <4>1, <4>3, <2>4
      <4> QED BY <4>4, <2>2 DEF FreeAt
    <3> QED BY <3>1, <3>2
  <2> QED BY <2>6, <2>7, <1>6, <1>7, <1>8, <1>10 DEF Taken
<1>12. CASE s # size
  <2>1. PICK e : e = Entry(b + size, s - size)
    OBVIOUS
  <2>2. /\ e \in MapEntries /\ e.addr \in Nat /\ e.addr = b + size /\ Over(e) \in Nat
        /\ Over(e) = b + s /\ b + size < b + s
    <3>1. b + size \in Nat /\ s - size \in Nat /\ (b + size) + (s - size) = b + s
          /\ b + size < b + s /\ b + s \in Nat
      BY <1>6, <1>12
    <3>2. /\ Entry(b + size, s - size) \in MapEntries
          /\ Entry(b + size, s - size).addr = b + size
          /\ Over(Entry(b + size, s - size)) = (b + size) + (s - size)
      BY <3>1, EntryOfNumbers
    <3> QED BY <3>1, <3>2, <2>1
  <2>3. r = [mp EXCEPT ![n] = e]
    BY <1>1, <1>5, <1>10, <1>12, <2>1, Zenon DEF malloc
  <2>4. /\ r \in Seq(MapEntries) /\ Len(r) = N
        /\ \A k \in 1..N : r[k] = IF k = n THEN e ELSE mp[k]
    <3>1. n \in 1..Len(mp)
      BY <1>2, <1>4
    <3> QED BY <2>2, <2>3, <1>2, <1>3, <3>1
  <2>5. TidyMap(r)
    <3>1. \A k \in 1..Len(r) : r[k].addr < Over(r[k])
      BY <2>2, <2>4, <1>3
    <3>2. ASSUME NEW j \in 1..N, NEW k \in 1..N, j < k PROVE Over(r[j]) < r[k].addr
      <4>1. Over(mp[j]) < mp[k].addr /\ Over(mp[j]) \in Nat
        BY <3>2, <1>3
      <4>2. CASE k = n
        <5>1. j # n /\ Over(r[j]) = Over(mp[j]) /\ r[k].addr = b + size /\ Over(mp[j]) < b
          BY <4>1, <4>2, <3>2, <2>2, <2>4, <1>5
        <5>2. PICK o : o = Over(mp[j])
          OBVIOUS
        <5>3. o \in Nat /\ o < b
          BY <5>1, <5>2, <4>1
        <5>4. o < b + size
          BY <5>3, <1>6
        <5> QED BY <5>1, <5>2, <5>4
      <4>3. CASE k # n /\ j = n
        BY <4>1, <4>3, <2>2, <2>4, <1>6
      <4>4. CASE k # n /\ j # n
        BY <4>1, <4>4, <2>4
      <4> QED BY <4>2, <4>3, <4>4
    <3> QED BY <2>4, <3>1, <3>2, TidyFromBounds
  <2>6. ASSUME NEW x \in Int
        PROVE  FreeAt(r, x) <=> FreeAt(mp, x) /\ ~(b <= x /\ x < b + size)
    <3>1. ASSUME FreeAt(r, x) PROVE FreeAt(mp, x) /\ ~(b <= x /\ x < b + size)
      <4>1. PICK k \in 1..N : r[k].addr <= x /\ x < Over(r[k])
        BY <3>1, <2>4 DEF FreeAt
      <4>2. CASE k = n
        <5>1. b + size <= x /\ x < b + s
          BY <4>1, <4>2, <2>2, <2>4
        <5>2. b <= x /\ ~(x < b + size)
          BY <5>1, <1>6
        <5>3. mp[k].addr <= x /\ x < Over(mp[k])
          BY <5>1, <5>2, <4>2, <1>5, <1>6
        <5> QED BY <5>2, <5>3, <1>2 DEF FreeAt
      <4>3. CASE k # n
        <5>1. mp[k].addr <= x /\ x < Over(mp[k])
          BY <4>1, <4>3, <2>4
        <5>2. ~(b <= x /\ x < b + s)
          BY <5>1, <4>3, <1>9
        <5>3. ~(b <= x /\ x < b + size)
          BY <5>2, <1>6
        <5> QED BY <5>1, <5>3, <1>2 DEF FreeAt
      <4> QED BY <4>2, <4>3
    <3>2. ASSUME FreeAt(mp, x), ~(b <= x /\ x < b + size) PROVE FreeAt(r, x)
      <4>1. PICK k \in 1..N : mp[k].addr <= x /\ x < Over(mp[k])
        BY <3>2, <1>2 DEF FreeAt
      <4>2. CASE k = n
        <5>1. b <= x /\ x < b + s
          BY <4>1, <4>2, <1>5, <1>6
        <5>2. b + size <= x
          BY <5>1, <3>2, <1>6
        <5>3. r[k].addr <= x /\ x < Over(r[k])
          BY <5>1, <5>2, <4>2, <2>2, <2>4
        <5> QED BY <5>3, <2>4 DEF FreeAt
      <4>3. CASE k # n
        BY <4>1, <4>3, <2>4 DEF FreeAt
      <4> QED BY <4>2, <4>3
    <3> QED BY <3>1, <3>2
  <2> QED BY <2>5, <2>6, <1>6, <1>7, <1>8, <1>10 DEF Taken
<1> QED BY <1>11, <1>12

\* r is mp with its entries between p and q replaced by e.
Spliced(mp, p, q, e, r) ==
    /\ r \in Seq(MapEntries) /\ Len(r) = Len(mp) - (q - (p + 2))
    /\ \A k \in 1..p : r[k] = mp[k]
    /\ r[p + 1] = e
    /\ \A k \in q..Len(mp) : r[k - (q - (p + 2))] = mp[k]

\* Where an entry of such a map comes from.
LEMMA SplicedFrom ==
    ASSUME NEW mp \in Seq(MapEntries), NEW p \in Nat, NEW q \in Nat, p < q, q <= Len(mp) + 1,
           NEW e, NEW r, Spliced(mp, p, q, e, r), NEW k \in 1..Len(r)
    PROVE  \/ k <= p /\ k \in 1..p /\ r[k] = mp[k]
           \/ k = p + 1 /\ r[k] = e
           \/ /\ k > p + 1 /\ k + (q - (p + 2)) \in q..Len(mp)
              /\ r[k] = mp[k + (q - (p + 2))]
<1>1. PICK N : N = Len(mp)
  OBVIOUS
<1>2. PICK d : d = q - (p + 2)
  OBVIOUS
<1>3. N \in Nat /\ d \in Int /\ Len(r) = N - d /\ k \in 1..N - d
  BY <1>1, <1>2 DEF Spliced
<1>4. CASE k <= p
  <2>1. k \in 1..p
    BY <1>4
  <2> QED BY <2>1 DEF Spliced
<1>5. CASE k = p + 1
  BY <1>5 DEF Spliced
<1>6. CASE k > p + 1
  <2>1. k + d \in q..N /\ (k + d) - d = k
    BY <1>1, <1>2, <1>3, <1>6
  <2>2. \A j \in q..N : r[j - d] = mp[j]
    BY <1>1, <1>2 DEF Spliced
  <2>3. r[k] = mp[k + d]
    BY <2>1, <2>2
  <2> QED BY <1>1, <1>2, <1>6, <2>1, <2>3
<1> QED BY <1>4, <1>5, <1>6, <1>3

\* When e is what is given back with the entries it replaces, the map gives it back.
LEMMA SplicedGivesBack ==
    ASSUME NEW mp, TidyMap(mp), NEW p \in Nat, NEW q \in Nat, p < q, q <= Len(mp) + 1,
           NEW e \in MapEntries, NEW r, Spliced(mp, p, q, e, r), NEW size, NEW a,
           e.addr < Over(e),
           \A k \in 1..p : Over(mp[k]) < e.addr,
           \A k \in q..Len(mp) : Over(e) < mp[k].addr,
           \A x \in Int : e.addr <= x /\ x < Over(e) <=>
              \/ a <= x /\ x < a + size
              \/ \E k \in p + 1 .. q - 1 : mp[k].addr <= x /\ x < Over(mp[k])
    PROVE  GivenBack(mp, size, a, r)
<1>1. PICK N : N = Len(mp)
  OBVIOUS
<1>2. PICK d : d = q - (p + 2)
  OBVIOUS
<1>3. /\ mp \in Seq(MapEntries) /\ N \in Nat
      /\ \A k \in 1..N : mp[k].addr \in Nat /\ Over(mp[k]) \in Nat
      /\ \A k \in 1..N : mp[k].addr < Over(mp[k])
      /\ \A j, k \in 1..N : j < k => Over(mp[j]) < mp[k].addr
  BY <1>1, TidyBounds
<1>4. d \in Int /\ q = d + (p + 2) /\ d + 1 >= 0
  BY <1>2
<1>5. r \in Seq(MapEntries) /\ Len(r) = N - d /\ N - d \in Nat
  BY <1>1, <1>2, <1>3, <1>4 DEF Spliced
<1>6. /\ \A k \in 1..p : r[k] = mp[k]
      /\ r[p + 1] = e
      /\ \A k \in q..N : r[k - d] = mp[k]
  BY <1>1, <1>2 DEF Spliced
<1>7. \A k \in 1..N - d :
        \/ k <= p /\ k \in 1..p /\ r[k] = mp[k]
        \/ k = p + 1 /\ r[k] = e
        \/ k > p + 1 /\ k + d \in q..N /\ r[k] = mp[k + d]
  <2> TAKE k \in 1..N - d
  <2>1. k \in 1..Len(r)
    BY <1>5
  <2> QED BY <2>1, <1>1, <1>2, <1>3, SplicedFrom
<1>8. /\ \A k \in 1..p : k \in 1..N
      /\ \A k \in q..N : k \in 1..N
      /\ \A j \in 1..p : \A k \in q..N : j < k
      /\ \A k \in p + 1 .. q - 1 : k \in 1..N
  BY <1>1, <1>3
<1>9. e.addr \in Nat /\ Over(e) \in Nat
  BY DEF MapEntries, Over
<1>10. TidyMap(r)
  <2>1. ASSUME NEW k \in 1..N - d PROVE r[k].addr < Over(r[k])
    BY <1>3, <1>7, <1>8
  <2>2. ASSUME NEW j \in 1..N - d, NEW k \in 1..N - d, j < k PROVE Over(r[j]) < r[k].addr
    <3>1. CASE j \in 1..p /\ r[j] = mp[j]
      <4>1. CASE k \in 1..p /\ r[k] = mp[k]
        BY <3>1, <4>1, <2>2, <1>3, <1>8
      <4>2. CASE k = p + 1 /\ r[k] = e
        BY <3>1, <4>2
      <4>3. CASE k + d \in q..N /\ r[k] = mp[k + d]
        BY <3>1, <4>3, <1>3, <1>8
      <4> QED BY <4>1, <4>2, <4>3, <1>7
    <3>2. CASE j = p + 1 /\ r[j] = e
      <4>1. k > p + 1
        BY <3>2, <2>2
      <4>2. k + d \in q..N /\ r[k] = mp[k + d]
        BY <4>1, <1>7
      <4> QED BY <3>2, <4>2, <1>1
    <3>3. CASE j > p + 1 /\ j + d \in q..N /\ r[j] = mp[j + d]
      <4>1. k > p + 1
        BY <3>3, <2>2
      <4>2. k + d \in q..N /\ r[k] = mp[k + d]
        BY <4>1, <1>7
      <4>3. j + d < k + d
        BY <2>2, <1>4
      <4> QED BY <3>3, <4>2, <4>3, <1>3, <1>8
    <3> QED BY <3>1, <3>2, <3>3, <1>7
  <2> QED BY <2>1, <2>2, <1>5, TidyFromBounds
<1>11. ASSUME NEW x \in Int
       PROVE  FreeAt(r, x) <=> FreeAt(mp, x) \/ (a <= x /\ x < a + size)
  <2>1. ASSUME FreeAt(r, x) PROVE FreeAt(mp, x) \/ (a <= x /\ x < a + size)
    <3>1. PICK k \in 1..N - d : r[k].addr <= x /\ x < Over(r[k])
      BY <2>1, <1>5 DEF FreeAt
    <3>2. CASE k = p + 1 /\ r[k] = e
      BY <3>1, <3>2, <1>1, <1>8 DEF FreeAt
    <3>3. CASE k \in 1..p /\ r[k] = mp[k]
      BY <3>1, <3>3, <1>1, <1>8 DEF FreeAt
    <3>4. CASE k + d \in q..N /\ r[k] = mp[k + d]
      BY <3>1, <3>4, <1>1, <1>8 DEF FreeAt
    <3> QED BY <3>2, <3>3, <3>4, <1>7
  <2>2. ASSUME FreeAt(mp, x) \/ (a <= x /\ x < a + size) PROVE FreeAt(r, x)
    <3>1. ASSUME e.addr <= x, x < Over(e) PROVE FreeAt(r, x)
      <4>1. p + 1 \in 1..Len(r)
        BY <1>1, <1>3, <1>4, <1>5
      <4> QED BY <3>1, <4>1, <1>6 DEF FreeAt
    <3>2. CASE a <= x /\ x < a + size
      BY <3>1, <3>2
    <3>3. CASE FreeAt(mp, x)
      <4>1. PICK k \in 1..N : mp[k].addr <= x /\ x < Over(mp[k])
        BY <3>3, <1>1 DEF FreeAt
      <4>2. CASE k \in 1..p
        <5>1. k \in 1..Len(r)
          BY <4>2, <1>1, <1>3, <1>4, <1>5
        <5> QED BY <4>1, <4>2, <5>1, <1>6 DEF FreeAt
      <4>3. CASE k \in q..N
        <5>1. k - d \in 1..Len(r)
          BY <4>3, <1>1, <1>3, <1>4, <1>5
        <5> QED BY <4>1, <4>3, <5>1, <1>6 DEF FreeAt
      <4>4. CASE k \in p + 1 .. q - 1
        BY <4>1, <4>4, <3>1
      <4> QED BY <4>2, <4>3, <4>4
    <3> QED BY <2>2, <3>2, <3>3
  <2> QED BY <2>1, <2>2
<1> QED BY <1>10, <1>11 DEF GivenBack

\* An entry of another size.
LEMMA Resized ==
    ASSUME NEW o \in MapEntries, NEW c \in Nat
    PROVE  /\ [o EXCEPT !.size = c] \in MapEntries /\ [o EXCEPT !.size = c].addr = o.addr
           /\ Over([o EXCEPT !.size = c]) = o.addr + c
BY DEF MapEntries, Over

\* malloc.c:45-79: mfree gives back what was not free, joined to what it touches.
LEMMA MfreeGives ==
    ASSUME NEW mp, TidyMap(mp), NEW size \in Nat, size > 0, NEW a \in Nat,
           \A x \in Int : a <= x /\ x < a + size => ~FreeAt(mp, x)
    PROVE  GivenBack(mp, size, a, mfree(mp, size, a))
<1>1. PICK N : N = Len(mp)
  OBVIOUS
<1>2. /\ mp \in Seq(MapEntries) /\ N \in Nat
      /\ \A k \in 1..N : mp[k].addr \in Nat /\ Over(mp[k]) \in Nat
      /\ \A k \in 1..N : mp[k].addr < Over(mp[k])
      /\ \A j, k \in 1..N : j < k => Over(mp[j]) < mp[k].addr
  BY <1>1, TidyBounds
<1>3. PICK S : S = {k \in DOMAIN mp : mp[k].addr <= a}
  OBVIOUS
<1>4. S = {k \in 1..N : mp[k].addr <= a}
  BY <1>1, <1>2, <1>3
<1>5. PICK m : m = Cardinality(S)
  OBVIOUS
<1>6. m \in 0..N /\ S = 1..m
  <2>1. S \in SUBSET (1..N)
    BY <1>4
  <2>2. \A k \in S : \A j \in 1..k : j \in S
    <3> SUFFICES ASSUME NEW k \in S, NEW j \in 1..k PROVE j \in S
      OBVIOUS
    <3>1. k \in 1..N /\ j \in 1..N /\ mp[k].addr <= a
      <4>1. k \in 1..N /\ mp[k].addr <= a
        BY <1>4
      <4> QED BY <4>1, <1>2
    <3>2. CASE j = k
      BY <3>2
    <3>3. CASE j < k
      <4>1. PICK x, y, z : x = mp[j].addr /\ y = Over(mp[j]) /\ z = mp[k].addr
        OBVIOUS
      <4>2. x \in Nat /\ y \in Nat /\ z \in Nat /\ x < y /\ y < z /\ z <= a
        BY <3>1, <3>3, <4>1, <1>2
      <4>3. x <= a
        BY <4>2
      <4> QED BY <3>1, <4>1, <4>3, <1>4
    <3> QED BY <3>2, <3>3, <3>1
  <2> QED BY <2>1, <2>2, <1>2, <1>5, CountOfPrefix
<1>7. \A k \in 1..m : k \in 1..N /\ mp[k].addr <= a /\ Over(mp[k]) <= a
  <2> TAKE k \in 1..m
  <2>1. k \in S
    BY <1>6
  <2>2. k \in 1..N /\ mp[k].addr <= a
    BY <2>1, <1>4
  <2>3. ASSUME a < Over(mp[k]) PROVE FALSE
    <3>1. FreeAt(mp, a)
      BY <2>2, <2>3, <1>1 DEF FreeAt
    <3>2. a \in Int /\ a <= a /\ a < a + size
      OBVIOUS
    <3> QED BY <3>1, <3>2
  <2>4. PICK o : o = Over(mp[k])
    OBVIOUS
  <2>5. o \in Nat /\ ~(a < o)
    BY <2>2, <2>3, <2>4, <1>2
  <2>6. o <= a
    BY <2>5
  <2> QED BY <2>2, <2>4, <2>6
<1>8. \A k \in m + 1 .. N : k \in 1..N /\ a + size <= mp[k].addr
  <2> TAKE k \in m + 1 .. N
  <2>1. k \in 1..N /\ k \notin S
    BY <1>6
  <2>2. PICK x : x = mp[k].addr
    OBVIOUS
  <2>3. x \in Nat /\ x > a
    BY <2>1, <2>2, <1>2, <1>4
  <2>4. ASSUME x < a + size PROVE FALSE
    <3>1. FreeAt(mp, x)
      <4>1. mp[k].addr <= x /\ x < Over(mp[k])
        BY <2>1, <2>2, <2>3, <1>2
      <4> QED BY <4>1, <2>1, <1>1 DEF FreeAt
    <3>2. x \in Int /\ a <= x /\ x < a + size
      BY <2>3, <2>4
    <3> QED BY <3>1, <3>2
  <2>5. a + size <= x
    BY <2>3, <2>4
  <2> QED BY <2>1, <2>2, <2>5
<1>9. PICK n : n = 1 + m
  OBVIOUS
<1>10. n \in 1..N + 1 /\ n - 1 = m /\ (n > 1 <=> m > 0)
  BY <1>6, <1>9, <1>2
<1> DEFINE left == n > 1 /\ mp[n - 1].addr + mp[n - 1].size = a
           right == n <= N /\ a + size = mp[n].addr
<1>11. mfree(mp, size, a) =
         IF left /\ right
           THEN RemoveAt([mp EXCEPT ![n - 1].size = @ + size + mp[n].size], n)
         ELSE IF left THEN [mp EXCEPT ![n - 1].size = @ + size]
         ELSE IF right THEN [mp EXCEPT ![n] = Entry(a, @.size + size)]
         ELSE IF size > 0 THEN InsertAt(mp, n, Entry(a, size))
         ELSE mp
  BY <1>1, <1>3, <1>5, <1>9, Zenon DEF mfree
<1>12. left => m \in 1..N /\ Over(mp[m]) = a
  <2> SUFFICES ASSUME left PROVE m \in 1..N /\ Over(mp[m]) = a
    OBVIOUS
  <2>1. m \in 1..N
    BY <1>6, <1>10
  <2> QED BY <2>1, <1>1, <1>2, <1>10, EntryNumbers
<1>13. m \in 1..N /\ Over(mp[m]) = a => left
  <2> SUFFICES ASSUME m \in 1..N, Over(mp[m]) = a PROVE left
    OBVIOUS
  <2>1. mp[m].addr + mp[m].size = a
    BY <1>1, <1>2, EntryNumbers
  <2> QED BY <2>1, <1>10
<1>14. right <=> m + 1 \in 1..N /\ a + size = mp[m + 1].addr
  BY <1>2, <1>6, <1>9
<1> HIDE DEF left, right
<1>15. ASSUME NEW k \in 1..m, ~left \/ k < m PROVE Over(mp[k]) < a
  <2>1. PICK o : o = Over(mp[k])
    OBVIOUS
  <2>2. o \in Nat /\ o <= a /\ k \in 1..N
    BY <2>1, <1>2, <1>7
  <2>3. CASE k = m
    BY <2>1, <2>2, <2>3, <1>13, <1>15
  <2>4. CASE k < m
    <3>1. m \in 1..m /\ m \in 1..N
      BY <2>4, <1>6
    <3>2. o < mp[m].addr /\ mp[m].addr <= a /\ mp[m].addr \in Nat
      BY <2>1, <2>2, <2>4, <3>1, <1>2, <1>7
    <3> QED BY <3>2, <2>1, <2>2
  <2> QED BY <2>3, <2>4, <1>6
<1>16. ASSUME NEW k \in m + 1 .. N, ~right \/ k > m + 1 PROVE a + size < mp[k].addr
  <2>1. PICK x : x = mp[k].addr
    OBVIOUS
  <2>2. x \in Nat /\ a + size <= x /\ k \in 1..N
    BY <2>1, <1>2, <1>8
  <2>3. CASE k = m + 1
    <3>1. a + size # x
      BY <2>1, <2>2, <2>3, <1>14, <1>16
    <3>2. a + size < x
      BY <3>1, <2>2
    <3> QED BY <3>2, <2>1
  <2>4. CASE k > m + 1
    <3>1. m + 1 \in m + 1 .. N /\ m + 1 \in 1..N
      <4>1. m \in Nat /\ k \in Int /\ k <= N /\ N \in Nat
        BY <1>2, <1>6
      <4> QED BY <4>1, <2>4
    <3>2. PICK y, z : y = mp[m + 1].addr /\ z = Over(mp[m + 1])
      OBVIOUS
    <3>3. y \in Nat /\ z \in Nat /\ y < z /\ z < x /\ a + size <= y
      BY <3>1, <3>2, <2>1, <2>2, <2>4, <1>2, <1>8
    <3>4. a + size < x
      BY <3>3, <2>2
    <3> QED BY <3>4, <2>1
  <2> QED BY <2>3, <2>4, <1>6

<1>17. CASE ~left /\ ~right
  <2>1. PICK e : e = Entry(a, size)
    OBVIOUS
  <2>2. e \in MapEntries /\ e.addr = a /\ Over(e) = a + size
    BY <2>1, EntryOfNumbers
  <2>3. PICK r : r = mfree(mp, size, a)
    OBVIOUS
  <2>4. r = InsertAt(mp, n, e)
    BY <1>11, <1>17, <2>1, <2>3, Zenon
  <2>5. Inserted(MapEntries, mp, n, e, r)
    BY <2>2, <2>4, <1>1, <1>2, <1>10, InsertAtIndex
  <2>6. Spliced(mp, m, m + 1, e, r)
    <3>1. /\ r \in Seq(MapEntries) /\ Len(r) = N + 1
          /\ \A k \in 1..N + 1 :
                r[k] = IF k < n THEN mp[k] ELSE IF k = n THEN e ELSE mp[k - 1]
      BY <2>5, <1>1 DEF Inserted
    <3>2. (m + 1) - (m + 2) = -1 /\ N - (-1) = N + 1 /\ \A k \in m + 1 .. N : k - (-1) = k + 1
      BY <1>2, <1>6
    <3>3. \A k \in 1..m : r[k] = mp[k]
      BY <3>1, <1>2, <1>6, <1>9
    <3>4. r[m + 1] = e
      BY <3>1, <1>2, <1>6, <1>9
    <3>5. \A k \in m + 1 .. N : r[k + 1] = mp[k]
      <4> TAKE k \in m + 1 .. N
      <4>1. k + 1 \in 1..N + 1 /\ ~(k + 1 < n) /\ k + 1 # n /\ (k + 1) - 1 = k
        BY <1>2, <1>6, <1>9
      <4> QED BY <4>1, <3>1
    <3> QED BY <3>1, <3>2, <3>3, <3>4, <3>5, <1>1 DEF Spliced
  <2>7. /\ \A k \in 1..m : Over(mp[k]) < e.addr
        /\ \A k \in m + 1 .. Len(mp) : Over(e) < mp[k].addr
        /\ e.addr < Over(e)
    BY <2>2, <1>1, <1>15, <1>16, <1>17
  <2>8. \A x \in Int : e.addr <= x /\ x < Over(e) <=>
           \/ a <= x /\ x < a + size
           \/ \E k \in m + 1 .. (m + 1) - 1 : mp[k].addr <= x /\ x < Over(mp[k])
    BY <2>2, <1>6
  <2>9. m \in Nat /\ m + 1 \in Nat /\ m < m + 1 /\ m + 1 <= Len(mp) + 1
    BY <1>1, <1>2, <1>6
  <2>10. GivenBack(mp, size, a, r)
    BY <2>2, <2>6, <2>7, <2>8, <2>9, SplicedGivesBack
  <2> QED BY <2>3, <2>10
<1>18. CASE ~left /\ right
  <2>1. PICK o : o = mp[n]
    OBVIOUS
  <2>2. PICK h, w : h = o.addr /\ w = o.size
    OBVIOUS
  <2>3. /\ n \in 1..N /\ n = m + 1 /\ h = a + size /\ w \in Nat /\ Over(mp[n]) = h + w
        /\ Over(mp[n]) \in Nat
    <3>1. n = m + 1 /\ n \in 1..N /\ a + size = mp[n].addr
      <4>1. n = m + 1
        BY <1>6, <1>9
      <4> QED BY <4>1, <1>14, <1>18
    <3>2. /\ mp[n].size \in Nat /\ Over(mp[n]) \in Nat
          /\ Over(mp[n]) = mp[n].addr + mp[n].size
      BY <3>1, <1>1, <1>2, EntryNumbers
    <3> QED BY <3>1, <3>2, <2>1, <2>2
  <2>4. PICK e : e = Entry(a, w + size)
    OBVIOUS
  <2>5. e \in MapEntries /\ e.addr = a /\ Over(e) = h + w
    <3>1. w + size \in Nat /\ a + (w + size) = h + w
      BY <2>3
    <3> QED BY <2>4, <3>1, EntryOfNumbers
  <2>6. PICK r : r = mfree(mp, size, a)
    OBVIOUS
  <2>7. r = [mp EXCEPT ![n] = e]
    BY <1>11, <1>18, <2>1, <2>2, <2>4, <2>6, Zenon
  <2>8. Spliced(mp, m, m + 2, e, r)
    <3>1. /\ r \in Seq(MapEntries) /\ Len(r) = N
          /\ \A k \in 1..N : r[k] = IF k = n THEN e ELSE mp[k]
      BY <2>3, <2>5, <2>7, <1>1, <1>2
    <3>2. (m + 2) - (m + 2) = 0 /\ N - 0 = N /\ \A k \in m + 2 .. N : k - 0 = k
      BY <1>2, <1>6
    <3>3. \A k \in 1..m : r[k] = mp[k]
      BY <3>1, <2>3, <1>2, <1>6
    <3>4. r[m + 1] = e
      BY <3>1, <2>3
    <3>5. \A k \in m + 2 .. N : r[k] = mp[k]
      BY <3>1, <2>3, <1>2, <1>6
    <3> QED BY <3>1, <3>2, <3>3, <3>4, <3>5, <1>1 DEF Spliced
  <2>9. \A k \in 1..m : Over(mp[k]) < e.addr
    BY <2>5, <1>15, <1>18
  <2>10. \A k \in m + 2 .. Len(mp) : Over(e) < mp[k].addr
    <3> TAKE k \in m + 2 .. Len(mp)
    <3>1. k \in 1..N /\ n < k
      BY <2>3, <1>1, <1>2, <1>6
    <3> QED BY <3>1, <2>3, <2>5, <1>2
  <2>11. e.addr < Over(e)
    BY <2>3, <2>5
  <2>12. \A x \in Int : e.addr <= x /\ x < Over(e) <=>
           \/ a <= x /\ x < a + size
           \/ \E k \in m + 1 .. (m + 2) - 1 : mp[k].addr <= x /\ x < Over(mp[k])
    <3> TAKE x \in Int
    <3>1. (m + 2) - 1 = m + 1 /\ m + 1 .. m + 1 = {n}
      BY <2>3, <1>6
    <3>2. mp[n].addr = h /\ Over(mp[n]) = h + w
      BY <2>1, <2>2, <2>3
    <3>3. (\E k \in {n} : mp[k].addr <= x /\ x < Over(mp[k])) <=> h <= x /\ x < h + w
      BY <3>2
    <3>4. a <= x /\ x < h + w <=> (a <= x /\ x < a + size) \/ (h <= x /\ x < h + w)
      BY <2>3
    <3> QED BY <3>1, <3>3, <3>4, <2>5
  <2>13. m \in Nat /\ m + 2 \in Nat /\ m < m + 2 /\ m + 2 <= Len(mp) + 1
    BY <2>3, <1>1, <1>2, <1>6
  <2>14. GivenBack(mp, size, a, r)
    BY <2>5, <2>8, <2>9, <2>10, <2>11, <2>12, <2>13, SplicedGivesBack
  <2> QED BY <2>6, <2>14
<1>19. CASE left /\ ~right
  <2>1. PICK o : o = mp[m]
    OBVIOUS
  <2>2. PICK b, s : b = o.addr /\ s = o.size
    OBVIOUS
  <2>3. /\ m \in 1..N /\ o \in MapEntries /\ b \in Nat /\ s \in Nat /\ b + s = a
        /\ mp[m].addr = b /\ Over(mp[m]) = a
    BY <2>1, <2>2, <1>1, <1>2, <1>12, <1>19, EntryNumbers
  <2>4. PICK e : e = [o EXCEPT !.size = s + size]
    OBVIOUS
  <2>5. e \in MapEntries /\ e.addr = b /\ Over(e) = a + size
    <3>1. s + size \in Nat /\ b + (s + size) = a + size
      BY <2>3
    <3> QED BY <2>2, <2>3, <2>4, <3>1, Resized
  <2>6. PICK r : r = mfree(mp, size, a)
    OBVIOUS
  <2>7. r = [mp EXCEPT ![m] = e]
    <3>1. r = [mp EXCEPT ![m].size = @ + size]
      BY <1>10, <1>11, <1>19, <2>6, Zenon
    <3> QED BY <3>1, <2>1, <2>2, <2>4, Zenon
  <2>8. Spliced(mp, m - 1, m + 1, e, r)
    <3>1. /\ r \in Seq(MapEntries) /\ Len(r) = N
          /\ \A k \in 1..N : r[k] = IF k = m THEN e ELSE mp[k]
      BY <2>3, <2>5, <2>7, <1>1, <1>2
    <3>2. /\ (m + 1) - ((m - 1) + 2) = 0 /\ N - 0 = N /\ (m - 1) + 1 = m
          /\ \A k \in m + 1 .. N : k - 0 = k
      BY <1>2, <1>6
    <3>3. \A k \in 1..m - 1 : r[k] = mp[k]
      BY <3>1, <2>3, <1>2, <1>6
    <3>4. r[m] = e
      BY <3>1, <2>3
    <3>5. \A k \in m + 1 .. N : r[k] = mp[k]
      BY <3>1, <2>3, <1>2, <1>6
    <3> QED BY <3>1, <3>2, <3>3, <3>4, <3>5, <1>1 DEF Spliced
  <2>9. \A k \in 1..m - 1 : Over(mp[k]) < e.addr
    <3> TAKE k \in 1..m - 1
    <3>1. k \in 1..N /\ k < m
      BY <2>3, <1>2
    <3> QED BY <3>1, <2>3, <2>5, <1>2
  <2>10. \A k \in m + 1 .. Len(mp) : Over(e) < mp[k].addr
    BY <2>5, <1>1, <1>16, <1>19
  <2>11. e.addr < Over(e)
    BY <2>3, <2>5
  <2>12. \A x \in Int : e.addr <= x /\ x < Over(e) <=>
           \/ a <= x /\ x < a + size
           \/ \E k \in (m - 1) + 1 .. (m + 1) - 1 : mp[k].addr <= x /\ x < Over(mp[k])
    <3> TAKE x \in Int
    <3>1. (m - 1) + 1 .. (m + 1) - 1 = {m}
      BY <1>6
    <3>2. (\E k \in {m} : mp[k].addr <= x /\ x < Over(mp[k])) <=> b <= x /\ x < a
      BY <2>3
    <3>3. b <= x /\ x < a + size <=> (a <= x /\ x < a + size) \/ (b <= x /\ x < a)
      BY <2>3
    <3> QED BY <3>1, <3>2, <3>3, <2>5
  <2>13. m - 1 \in Nat /\ m + 1 \in Nat /\ m - 1 < m + 1 /\ m + 1 <= Len(mp) + 1
    BY <2>3, <1>1, <1>2, <1>6
  <2>14. GivenBack(mp, size, a, r)
    BY <2>5, <2>8, <2>9, <2>10, <2>11, <2>12, <2>13, SplicedGivesBack
  <2> QED BY <2>6, <2>14
<1>20. CASE left /\ right
  <2>1. PICK o, f : o = mp[m] /\ f = mp[n]
    OBVIOUS
  <2>2. PICK b, s : b = o.addr /\ s = o.size
    OBVIOUS
  <2>3. PICK h, w : h = f.addr /\ w = f.size
    OBVIOUS
  <2>4. /\ m \in 1..N /\ o \in MapEntries /\ b \in Nat /\ s \in Nat /\ b + s = a
        /\ mp[m].addr = b /\ Over(mp[m]) = a
    BY <2>1, <2>2, <1>1, <1>2, <1>12, <1>20, EntryNumbers
  <2>5. /\ n \in 1..N /\ n = m + 1 /\ h = a + size /\ w \in Nat
        /\ mp[n].addr = h /\ Over(mp[n]) = h + w
    <3>1. n = m + 1 /\ n \in 1..N /\ a + size = mp[n].addr
      <4>1. n = m + 1
        BY <1>6, <1>9
      <4> QED BY <4>1, <1>14, <1>20
    <3>2. /\ mp[n].size \in Nat /\ Over(mp[n]) \in Nat
          /\ Over(mp[n]) = mp[n].addr + mp[n].size
      BY <3>1, <1>1, <1>2, EntryNumbers
    <3> QED BY <3>1, <3>2, <2>1, <2>3
  <2>6. PICK e : e = [o EXCEPT !.size = (s + size) + w]
    OBVIOUS
  <2>7. e \in MapEntries /\ e.addr = b /\ Over(e) = h + w
    <3>1. (s + size) + w \in Nat /\ b + ((s + size) + w) = h + w
      BY <2>4, <2>5
    <3> QED BY <2>2, <2>4, <2>6, <3>1, Resized
  <2>8. PICK r : r = mfree(mp, size, a)
    OBVIOUS
  <2>9. PICK g : g = [mp EXCEPT ![m] = e]
    OBVIOUS
  <2>10. r = RemoveAt(g, n)
    <3>1. r = RemoveAt([mp EXCEPT ![m].size = @ + size + mp[n].size], n)
      BY <1>10, <1>11, <1>20, <2>8, Zenon
    <3> QED BY <3>1, <2>1, <2>2, <2>3, <2>6, <2>9, Zenon
  <2>11. /\ g \in Seq(MapEntries) /\ Len(g) = N
         /\ \A k \in 1..N : g[k] = IF k = m THEN e ELSE mp[k]
    BY <2>4, <2>7, <2>9, <1>1, <1>2
  <2>12. /\ r \in Seq(MapEntries) /\ Len(r) = N - 1
         /\ \A k \in 1..N - 1 : r[k] = IF k < n THEN g[k] ELSE g[k + 1]
    <3>1. n \in 1..Len(g)
      BY <2>5, <2>11
    <3>2. /\ RemoveAt(g, n) \in Seq(MapEntries) /\ Len(RemoveAt(g, n)) = Len(g) - 1
          /\ \A k \in 1..Len(RemoveAt(g, n)) :
                RemoveAt(g, n)[k] = IF k < n THEN g[k] ELSE g[k + 1]
      BY <2>11, <3>1, RemoveAtIndex
    <3> QED BY <2>10, <2>11, <3>2, Zenon
  <2>13. Spliced(mp, m - 1, m + 2, e, r)
    <3>1. /\ (m + 2) - ((m - 1) + 2) = 1 /\ (m - 1) + 1 = m
      BY <1>2, <1>6
    <3>2. \A k \in 1..m - 1 : r[k] = mp[k]
      <4> TAKE k \in 1..m - 1
      <4>1. k \in 1..N - 1 /\ k \in 1..N /\ k < n /\ k # m
        <5>1. m \in Nat /\ N \in Nat /\ m + 1 <= N
          BY <2>5, <1>2, <1>6
        <5> QED BY <5>1, <2>5
      <4> QED BY <4>1, <2>11, <2>12
    <3>3. r[m] = e
      <4>1. m \in 1..N - 1 /\ m \in 1..N /\ m < n
        BY <2>4, <2>5, <1>2
      <4> QED BY <4>1, <2>11, <2>12
    <3>4. \A k \in m + 2 .. N : r[k - 1] = mp[k]
      <4> TAKE k \in m + 2 .. N
      <4>1. k - 1 \in 1..N - 1 /\ k \in 1..N /\ ~(k - 1 < n) /\ k # m /\ k - 1 + 1 = k
        <5>1. m \in Nat /\ N \in Nat /\ n = m + 1
          BY <2>5, <1>2, <1>6
        <5> QED BY <5>1
      <4>2. r[k - 1] = g[k]
        BY <4>1, <2>12
      <4> QED BY <4>1, <4>2, <2>11
    <3> QED BY <3>1, <3>2, <3>3, <3>4, <2>12, <1>1 DEF Spliced
  <2>14. \A k \in 1..m - 1 : Over(mp[k]) < e.addr
    <3> TAKE k \in 1..m - 1
    <3>1. k \in 1..N /\ k < m
      BY <2>4, <1>2
    <3> QED BY <3>1, <2>4, <2>7, <1>2
  <2>15. \A k \in m + 2 .. Len(mp) : Over(e) < mp[k].addr
    <3> TAKE k \in m + 2 .. Len(mp)
    <3>1. k \in 1..N /\ n < k
      BY <2>5, <1>1, <1>2, <1>6
    <3> QED BY <3>1, <2>5, <2>7, <1>2
  <2>16. e.addr < Over(e)
    BY <2>4, <2>5, <2>7
  <2>17. \A x \in Int : e.addr <= x /\ x < Over(e) <=>
           \/ a <= x /\ x < a + size
           \/ \E k \in (m - 1) + 1 .. (m + 2) - 1 : mp[k].addr <= x /\ x < Over(mp[k])
    <3> TAKE x \in Int
    <3>1. (m - 1) + 1 .. (m + 2) - 1 = {m, n}
      BY <2>5, <1>6
    <3>2. (\E k \in {m, n} : mp[k].addr <= x /\ x < Over(mp[k])) <=>
             (b <= x /\ x < a) \/ (h <= x /\ x < h + w)
      BY <2>4, <2>5
    <3>3. b <= x /\ x < h + w <=>
             \/ a <= x /\ x < a + size
             \/ b <= x /\ x < a
             \/ h <= x /\ x < h + w
      BY <2>4, <2>5
    <3> QED BY <3>1, <3>2, <3>3, <2>7
  <2>18. m - 1 \in Nat /\ m + 2 \in Nat /\ m - 1 < m + 2 /\ m + 2 <= Len(mp) + 1
    BY <2>4, <2>5, <1>1, <1>2
  <2>19. GivenBack(mp, size, a, r)
    BY <2>7, <2>13, <2>14, <2>15, <2>16, <2>17, <2>18, SplicedGivesBack
  <2> QED BY <2>8, <2>19
<1> QED BY <1>17, <1>18, <1>19, <1>20

----------------------------------------------------------------------------
(* Registers and data paths *)

\* Of 1..N the map mp and the sets D[p] have a share each.
Shares(N, mp, D) ==
    /\ TidyMap(mp)
    /\ D \in [Xfers -> SUBSET (1..N)]
    /\ \A x \in Int : FreeAt(mp, x) <=> x \in 1..N /\ \A p \in Xfers : x \notin D[p]
    /\ \A p, q \in Xfers : p # q => D[p] \cap D[q] = {}

\* What malloc takes can be p's.
LEMMA ShareTaken ==
    ASSUME NEW N \in Nat, NEW mp, NEW D, Shares(N, mp, D), NEW p \in Xfers, D[p] = {},
           NEW size, NEW b, NEW r, Taken(mp, size, b, r),
           NEW X, X = {x \in Int : b <= x /\ x < b + size}
    PROVE  X \subseteq 1..N /\ Shares(N, r, [D EXCEPT ![p] = X])
<1>1. /\ TidyMap(r)
      /\ \A x \in Int : FreeAt(r, x) <=> FreeAt(mp, x) /\ x \notin X
      /\ \A x \in X : FreeAt(mp, x)
  BY DEF Taken
<1>2. /\ D \in [Xfers -> SUBSET (1..N)]
      /\ \A x \in Int : FreeAt(mp, x) <=> x \in 1..N /\ \A q \in Xfers : x \notin D[q]
      /\ \A q, s \in Xfers : q # s => D[q] \cap D[s] = {}
  BY DEF Shares
<1>3. X \subseteq 1..N /\ \A x \in X : \A q \in Xfers : x \notin D[q]
  BY <1>1, <1>2
<1>4. PICK E : E = [D EXCEPT ![p] = X]
  OBVIOUS
<1>5. E \in [Xfers -> SUBSET (1..N)] /\ \A q \in Xfers : E[q] = IF q = p THEN X ELSE D[q]
  BY <1>2, <1>3, <1>4
<1>6. \A x \in Int : FreeAt(r, x) <=> x \in 1..N /\ \A q \in Xfers : x \notin E[q]
  BY <1>1, <1>2, <1>5
<1>7. \A q, s \in Xfers : q # s => E[q] \cap E[s] = {}
  BY <1>2, <1>3, <1>5
<1> QED BY <1>1, <1>3, <1>4, <1>5, <1>6, <1>7 DEF Shares

\* What is p's is given back.
LEMMA ShareGiven ==
    ASSUME NEW N \in Nat, NEW mp, NEW D, Shares(N, mp, D), NEW p \in Xfers,
           NEW size, NEW a, D[p] = {x \in Int : a <= x /\ x < a + size},
           NEW r, GivenBack(mp, size, a, r)
    PROVE  Shares(N, r, [D EXCEPT ![p] = {}])
<1>1. /\ TidyMap(r)
      /\ \A x \in Int : FreeAt(r, x) <=> FreeAt(mp, x) \/ x \in D[p]
  BY DEF GivenBack
<1>2. /\ D \in [Xfers -> SUBSET (1..N)]
      /\ \A x \in Int : FreeAt(mp, x) <=> x \in 1..N /\ \A q \in Xfers : x \notin D[q]
      /\ \A q, s \in Xfers : q # s => D[q] \cap D[s] = {}
  BY DEF Shares
<1>3. PICK E : E = [D EXCEPT ![p] = {}]
  OBVIOUS
<1>4. E \in [Xfers -> SUBSET (1..N)] /\ \A q \in Xfers : E[q] = IF q = p THEN {} ELSE D[q]
  BY <1>2, <1>3
<1>5. ASSUME NEW x \in Int
      PROVE  FreeAt(r, x) <=> x \in 1..N /\ \A q \in Xfers : x \notin E[q]
  <2>1. ASSUME x \in D[p] PROVE x \in 1..N /\ \A q \in Xfers : x \notin E[q]
    BY <2>1, <1>2, <1>4
  <2>2. ASSUME x \notin D[p]
        PROVE  (\A q \in Xfers : x \notin E[q]) <=> \A q \in Xfers : x \notin D[q]
    BY <2>2, <1>4
  <2> QED BY <2>1, <2>2, <1>1, <1>2
<1>6. \A q, s \in Xfers : q # s => E[q] \cap E[s] = {}
  BY <1>2, <1>4
<1> QED BY <1>1, <1>3, <1>4, <1>5, <1>6 DEF Shares

\* So mfree may be given it.
LEMMA ShareIsTaken ==
    ASSUME NEW N \in Nat, NEW mp, NEW D, Shares(N, mp, D), NEW p \in Xfers,
           NEW size \in Nat, size > 0, NEW a \in Nat,
           D[p] = {x \in Int : a <= x /\ x < a + size}
    PROVE  Shares(N, mfree(mp, size, a), [D EXCEPT ![p] = {}])
<1>1. TidyMap(mp)
  BY DEF Shares
<1>2. \A x \in Int : a <= x /\ x < a + size => ~FreeAt(mp, x)
  BY DEF Shares
<1>3. GivenBack(mp, size, a, mfree(mp, size, a))
  BY <1>1, <1>2, MfreeGives
<1> QED BY <1>3, ShareGiven

\* ubainit: all of it is free.
LEMMA ShareInitially ==
    ASSUME NEW N \in Nat, NEW D, D = [p \in Xfers |-> {}]
    PROVE  Shares(N, mfree(<<>>, N, 1), D)
<1>1. PICK e : e = <<>>
  OBVIOUS
<1>2. e \in Seq(MapEntries) /\ Len(e) = 0
  BY <1>1
<1>3. TidyMap(e) /\ \A x : ~FreeAt(e, x)
  BY <1>2 DEF TidyMap, FreeAt
<1>4. CASE N > 0
  <2>1. GivenBack(e, N, 1, mfree(e, N, 1))
    BY <1>3, <1>4, MfreeGives
  <2>2. /\ TidyMap(mfree(e, N, 1))
        /\ \A x \in Int : FreeAt(mfree(e, N, 1), x) <=> 1 <= x /\ x < 1 + N
    BY <2>1, <1>3 DEF GivenBack
  <2>3. \A x \in Int : 1 <= x /\ x < 1 + N <=> x \in 1..N
    OBVIOUS
  <2> QED BY <2>2, <2>3, <1>1 DEF Shares
<1>5. CASE N = 0
  <2>1. PICK S : S = {k \in DOMAIN e : e[k].addr <= 1}
    OBVIOUS
  <2>2. S = {}
    BY <2>1, <1>2
  <2>3. PICK n : n = 1 + Cardinality(S)
    OBVIOUS
  <2>4. n = 1
    BY <2>2, <2>3, FS_EmptySet
  <2>5. ~(n > 1) /\ ~(n <= Len(e)) /\ ~(N > 0)
    BY <2>4, <1>2, <1>5
  <2>6. mfree(e, N, 1) = e
    BY <2>1, <2>3, <2>5, Zenon DEF mfree
  <2>7. \A x \in Int : x \notin 1..N
    BY <1>5
  <2> QED BY <2>6, <2>7, <1>1, <1>3 DEF Shares
<1> QED BY <1>4, <1>5

----------------------------------------------------------------------------
(* The adapter *)

Grants == [regnum : Nat, nmreg : Nat, bdp : Nat]

RegsOf == [p \in Xfers |-> Regs(p)]

PathsOf == [p \in Xfers |-> {mr[p].bdp} \ {0}]

UbaTypes ==
    /\ xat \in [Xfers -> {"idle", "regs", "path", "transfer"}]
    /\ mr \in [Xfers -> Grants]

\* Who asks has a number of registers, and no data path before it has registers.
UbaStages ==
    \A p \in Xfers :
        /\ xat[p] # "idle" => mr[p].nmreg > 0
        /\ xat[p] # "transfer" => mr[p].bdp = 0

UbaInv ==
    /\ UbaTypes /\ UbaStages
    /\ Shares(NREG, ubamap, RegsOf)
    /\ Shares(NBDP, bdpmap, PathsOf)

\* The fields of a record of registers, and of one with one of them changed.
LEMMA GrantFields ==
    ASSUME NEW o \in Grants, NEW c \in Nat
    PROVE  /\ o.regnum \in Nat /\ o.nmreg \in Nat /\ o.bdp \in Nat
           /\ [o EXCEPT !.regnum = c] \in Grants /\ [o EXCEPT !.regnum = c].regnum = c
           /\ [o EXCEPT !.regnum = c].nmreg = o.nmreg /\ [o EXCEPT !.regnum = c].bdp = o.bdp
           /\ [o EXCEPT !.nmreg = c] \in Grants /\ [o EXCEPT !.nmreg = c].nmreg = c
           /\ [o EXCEPT !.nmreg = c].bdp = o.bdp
           /\ [o EXCEPT !.bdp = c] \in Grants /\ [o EXCEPT !.bdp = c].bdp = c
           /\ [o EXCEPT !.bdp = c].nmreg = o.nmreg /\ [o EXCEPT !.bdp = c].regnum = o.regnum
BY DEF Grants

\* And of no registers.
LEMMA NoGrant == NoRegs \in Grants /\ NoRegs.bdp = 0
BY DEF NoRegs, Grants

\* The adapter begins with all registers and paths free.
LEMMA UbaInitially == ASSUME UbaInit PROVE UbaInv
<1>1. \A p \in Xfers : xat[p] = "idle" /\ mr[p] = NoRegs
  BY DEF UbaInit
<1>2. UbaTypes
  BY NoGrant DEF UbaInit, UbaTypes
<1>3. UbaStages
  BY <1>1, NoGrant DEF UbaStages
<1>4. NREG \in Nat /\ NBDP \in Nat
  BY UbaAssumption
<1>5. RegsOf = [p \in Xfers |-> {}]
  <2>1. \A p \in Xfers : Regs(p) = {}
    BY <1>1 DEF Regs
  <2> QED BY <2>1 DEF RegsOf
<1>6. PathsOf = [p \in Xfers |-> {}]
  <2>1. \A p \in Xfers : {mr[p].bdp} \ {0} = {}
    BY <1>1, NoGrant
  <2> QED BY <2>1 DEF PathsOf
<1>7. Shares(NREG, ubamap, RegsOf) /\ Shares(NBDP, bdpmap, PathsOf)
  BY <1>4, <1>5, <1>6, ShareInitially DEF UbaInit
<1> QED BY <1>2, <1>3, <1>7 DEF UbaInv

\* What was free or given by the maps is what RegistersAreOwned says.
LEMMA SharesAreOwned == ASSUME UbaInv PROVE RegistersAreOwned
<1>1. ASSUME NEW N \in Nat, NEW mp, NEW D, Shares(N, mp, D)
      PROVE  Tidy(mp) /\ FreeIn(mp) = 1..N \ UNION {D[p] : p \in Xfers}
  <2>1. mp \in Seq(MapEntries) /\ TidyMap(mp)
    BY <1>1 DEF Shares, TidyMap
  <2>2. Tidy(mp)
    BY <2>1, TidyIsApart
  <2>3. ASSUME NEW x PROVE x \in FreeIn(mp) <=> x \in 1..N /\ \A p \in Xfers : x \notin D[p]
    <3>1. x \in FreeIn(mp) <=> x \in Int /\ FreeAt(mp, x)
      BY <2>1, FreeInAt
    <3>2. x \in 1..N => x \in Int
      OBVIOUS
    <3> QED BY <3>1, <3>2, <1>1 DEF Shares
  <2> QED BY <2>2, <2>3
<1>2. NREG \in Nat /\ NBDP \in Nat
  BY UbaAssumption
<1>3. /\ Tidy(ubamap) /\ FreeIn(ubamap) = 1..NREG \ UNION {RegsOf[p] : p \in Xfers}
      /\ Tidy(bdpmap) /\ FreeIn(bdpmap) = 1..NBDP \ UNION {PathsOf[p] : p \in Xfers}
  BY <1>1, <1>2 DEF UbaInv
<1>4. \A p \in Xfers : RegsOf[p] = Regs(p) /\ PathsOf[p] = {mr[p].bdp} \ {0}
  BY DEF RegsOf, PathsOf
<1>5. FreeIn(ubamap) = 1..NREG \ UNION {Regs(p) : p \in Xfers}
  BY <1>3, <1>4
<1>6. FreeIn(bdpmap) = 1..NBDP \ {mr[p].bdp : p \in Xfers}
  <2>1. \A x \in 1..NBDP : x # 0
    OBVIOUS
  <2> QED BY <2>1, <1>3, <1>4
<1>7. ASSUME NEW p \in Xfers, NEW q \in Xfers, p # q
      PROVE  Regs(p) \cap Regs(q) = {} /\ (mr[p].bdp = mr[q].bdp => mr[p].bdp = 0)
  <2>1. RegsOf[p] \cap RegsOf[q] = {} /\ PathsOf[p] \cap PathsOf[q] = {}
    BY <1>7 DEF UbaInv, Shares
  <2> QED BY <2>1, <1>4
<1> QED BY <1>3, <1>5, <1>6, <1>7 DEF RegistersAreOwned

\* A driver's request: nothing is given yet.
LEMMA AskStep ==
    ASSUME UbaInv, NEW p \in Xfers, NEW n \in XferSizes, NEW f \in BOOLEAN, Ask(p, n, f)
    PROVE  UbaInv'
<1>1. PICK g : g = [NoRegs EXCEPT !.nmreg = n]
  OBVIOUS
<1>2. n \in Nat /\ n > 0
  BY UbaAssumption
<1>3. g \in Grants /\ g.nmreg = n /\ g.bdp = 0
  BY <1>1, <1>2, NoGrant, GrantFields
<1>4. /\ xat[p] = "idle" /\ xat' = [xat EXCEPT ![p] = "regs"] /\ mr' = [mr EXCEPT ![p] = g]
      /\ ubamap' = ubamap /\ bdpmap' = bdpmap
  BY <1>1, Zenon DEF Ask
<1>5. UbaTypes /\ UbaStages
  BY DEF UbaInv
<1>6. /\ UbaTypes'
      /\ \A q \in Xfers : xat'[q] = (IF q = p THEN "regs" ELSE xat[q])
                          /\ mr'[q] = (IF q = p THEN g ELSE mr[q])
  BY <1>3, <1>4, <1>5 DEF UbaTypes
<1>7. UbaStages'
  BY <1>2, <1>3, <1>5, <1>6 DEF UbaStages
<1>8. RegsOf' = RegsOf
  <2>1. \A q \in Xfers : Regs(q)' = Regs(q)
    BY <1>4, <1>6 DEF Regs
  <2> QED BY <2>1 DEF RegsOf
<1>9. PathsOf' = PathsOf
  <2>1. \A q \in Xfers : {mr'[q].bdp} \ {0} = {mr[q].bdp} \ {0}
    BY <1>3, <1>4, <1>5, <1>6 DEF UbaStages
  <2> QED BY <2>1 DEF PathsOf
<1> QED BY <1>4, <1>6, <1>7, <1>8, <1>9 DEF UbaInv

\* uballoc, the registers: what malloc took is the transfer's.
LEMMA TakeRegsStep ==
    ASSUME UbaInv, NEW p \in Xfers, TakeRegs(p)
    PROVE  UbaInv'
<1>1. PICK o : o = mr[p]
  OBVIOUS
<1>2. PICK n : n = o.nmreg
  OBVIOUS
<1>3. PICK b : b = Base(ubamap, n)
  OBVIOUS
<1>4. PICK g : g = [o EXCEPT !.regnum = b - 1]
  OBVIOUS
<1>5. PICK l : l = IF bdpflg[p] THEN "path" ELSE "transfer"
  OBVIOUS
<1>6. /\ xat[p] = "regs" /\ FirstFit(ubamap, n) # 0 /\ ubamap' = malloc(ubamap, n)
      /\ mr' = [mr EXCEPT ![p] = g] /\ xat' = [xat EXCEPT ![p] = l] /\ bdpmap' = bdpmap
  <2>1. /\ xat[p] = "regs" /\ FirstFit(ubamap, n) # 0 /\ ubamap' = malloc(ubamap, n)
        /\ mr' = [mr EXCEPT ![p].regnum = b - 1] /\ xat' = [xat EXCEPT ![p] = l]
        /\ bdpmap' = bdpmap
    BY <1>1, <1>2, <1>3, <1>5, Zenon DEF TakeRegs, XferAt
  <2>2. [mr EXCEPT ![p].regnum = b - 1] = [mr EXCEPT ![p] = g]
    BY <1>1, <1>4, Zenon
  <2> QED BY <2>1, <2>2
<1>7. UbaTypes /\ UbaStages /\ Shares(NREG, ubamap, RegsOf) /\ NREG \in Nat
  BY UbaAssumption DEF UbaInv
<1>8. o \in Grants /\ n \in Nat /\ n > 0 /\ o.bdp = 0
  <2>1. o \in Grants /\ n > 0 /\ o.bdp = 0
    BY <1>1, <1>2, <1>6, <1>7 DEF UbaTypes, UbaStages
  <2>2. o.nmreg \in Nat
    BY <2>1 DEF Grants
  <2> QED BY <2>1, <2>2, <1>2
<1>9. TidyMap(ubamap) /\ RegsOf[p] = {}
  BY <1>6, <1>7 DEF Shares, RegsOf, Regs
<1>10. Taken(ubamap, n, b, ubamap')
  BY <1>3, <1>6, <1>8, <1>9, MallocTakes
<1>11. PICK X : X = {x \in Int : b <= x /\ x < b + n}
  OBVIOUS
<1>12. X \subseteq 1..NREG /\ Shares(NREG, ubamap', [RegsOf EXCEPT ![p] = X])
  BY <1>7, <1>9, <1>10, <1>11, ShareTaken
<1>13. b \in Nat /\ b - 1 \in Nat
  <2>1. b \in Nat
    BY <1>10 DEF Taken
  <2>2. b \in X
    BY <2>1, <1>8, <1>11
  <2> QED BY <2>1, <2>2, <1>12
<1>14. g \in Grants /\ g.regnum = b - 1 /\ g.nmreg = n /\ g.bdp = 0
  BY <1>2, <1>4, <1>8, <1>13, GrantFields, Zenon
<1>15. l \in {"path", "transfer"}
  BY <1>5
<1>16. /\ UbaTypes'
       /\ \A q \in Xfers : xat'[q] = (IF q = p THEN l ELSE xat[q])
                           /\ mr'[q] = (IF q = p THEN g ELSE mr[q])
  BY <1>6, <1>7, <1>14, <1>15 DEF UbaTypes
<1>17. UbaStages'
  BY <1>7, <1>8, <1>14, <1>16 DEF UbaStages
<1>18. RegsOf' = [RegsOf EXCEPT ![p] = X]
  <2>1. ASSUME NEW q \in Xfers, q # p PROVE Regs(q)' = Regs(q)
    BY <2>1, <1>16 DEF Regs
  <2>2. Regs(p)' = X
    <3>1. xat'[p] = l /\ mr'[p] = g
      BY <1>16
    <3>2. Regs(p)' = g.regnum + 1 .. g.regnum + g.nmreg
      BY <3>1, <1>15 DEF Regs
    <3>3. (b - 1) + 1 .. (b - 1) + n = X
      BY <1>8, <1>11, <1>13
    <3> QED BY <3>2, <3>3, <1>14
  <2> QED BY <2>1, <2>2 DEF RegsOf
<1>19. PathsOf' = PathsOf
  <2>1. \A q \in Xfers : {mr'[q].bdp} \ {0} = {mr[q].bdp} \ {0}
    BY <1>1, <1>8, <1>14, <1>16
  <2> QED BY <2>1 DEF PathsOf
<1>20. Shares(NREG, ubamap, RegsOf)'
  BY <1>12, <1>18
<1>21. Shares(NBDP, bdpmap, PathsOf)'
  BY <1>6, <1>19 DEF UbaInv
<1> QED BY <1>16, <1>17, <1>20, <1>21 DEF UbaInv

\* uballoc, the data path: so is the path.
LEMMA TakePathStep ==
    ASSUME UbaInv, NEW p \in Xfers, TakePath(p)
    PROVE  UbaInv'
<1>1. PICK o : o = mr[p]
  OBVIOUS
<1>2. PICK b : b = Base(bdpmap, 1)
  OBVIOUS
<1>3. PICK g : g = [o EXCEPT !.bdp = b]
  OBVIOUS
<1>4. /\ xat[p] = "path" /\ bdpmap # <<>> /\ bdpmap' = malloc(bdpmap, 1)
      /\ mr' = [mr EXCEPT ![p] = g] /\ xat' = [xat EXCEPT ![p] = "transfer"]
      /\ ubamap' = ubamap
  <2>1. /\ xat[p] = "path" /\ bdpmap # <<>> /\ bdpmap' = malloc(bdpmap, 1)
        /\ mr' = [mr EXCEPT ![p].bdp = b] /\ xat' = [xat EXCEPT ![p] = "transfer"]
        /\ ubamap' = ubamap
    BY <1>2, Zenon DEF TakePath, XferAt
  <2>2. [mr EXCEPT ![p].bdp = b] = [mr EXCEPT ![p] = g]
    BY <1>1, <1>3, Zenon
  <2> QED BY <2>1, <2>2
<1>5. UbaTypes /\ UbaStages /\ Shares(NBDP, bdpmap, PathsOf) /\ NBDP \in Nat
  BY UbaAssumption DEF UbaInv
<1>6. o \in Grants /\ o.bdp = 0 /\ o.nmreg > 0
  BY <1>1, <1>4, <1>5 DEF UbaTypes, UbaStages
<1>7. TidyMap(bdpmap) /\ PathsOf[p] = {}
  BY <1>1, <1>5, <1>6 DEF Shares, PathsOf
<1>8. FirstFit(bdpmap, 1) # 0
  <2>1. bdpmap \in Seq(MapEntries) /\ 1 \in 1..Len(bdpmap)
    BY <1>4, <1>7 DEF TidyMap
  <2>2. PICK s : s = bdpmap[1].size
    OBVIOUS
  <2>3. s \in Nat /\ s > 0
    BY <2>1, <2>2, <1>7, EntryNumbers DEF TidyMap
  <2>4. bdpmap[1].size >= 1
    BY <2>2, <2>3
  <2>5. FirstFit(bdpmap, 1) \in 1..Len(bdpmap)
    BY <2>1, <2>4, FirstWithRoom
  <2> QED BY <2>5
<1>9. Taken(bdpmap, 1, b, bdpmap')
  BY <1>2, <1>4, <1>7, <1>8, MallocTakes
<1>10. PICK X : X = {x \in Int : b <= x /\ x < b + 1}
  OBVIOUS
<1>11. X \subseteq 1..NBDP /\ Shares(NBDP, bdpmap', [PathsOf EXCEPT ![p] = X])
  BY <1>5, <1>7, <1>9, <1>10, ShareTaken
<1>12. b \in Nat /\ b # 0 /\ X = {b}
  <2>1. b \in Nat
    BY <1>9 DEF Taken
  <2>2. b \in X /\ X = {b}
    BY <2>1, <1>10
  <2> QED BY <2>1, <2>2, <1>11
<1>13. g \in Grants /\ g.regnum = o.regnum /\ g.nmreg = o.nmreg /\ g.bdp = b
  BY <1>3, <1>6, <1>12, GrantFields
<1>14. /\ UbaTypes'
       /\ \A q \in Xfers : xat'[q] = (IF q = p THEN "transfer" ELSE xat[q])
                           /\ mr'[q] = (IF q = p THEN g ELSE mr[q])
  BY <1>4, <1>5, <1>13 DEF UbaTypes
<1>15. UbaStages'
  BY <1>5, <1>6, <1>13, <1>14 DEF UbaStages
<1>16. RegsOf' = RegsOf
  <2>1. ASSUME NEW q \in Xfers PROVE Regs(q)' = Regs(q)
    <3>1. CASE q = p
      <4>1. xat'[p] = "transfer" /\ mr'[p] = g
        BY <1>14
      <4>2. Regs(p)' = g.regnum + 1 .. g.regnum + g.nmreg
        BY <4>1 DEF Regs
      <4>3. Regs(p) = o.regnum + 1 .. o.regnum + o.nmreg
        BY <1>1, <1>4 DEF Regs
      <4> QED BY <3>1, <4>2, <4>3, <1>13
    <3>2. CASE q # p
      BY <3>2, <1>14 DEF Regs
    <3> QED BY <3>1, <3>2
  <2> QED BY <2>1 DEF RegsOf
<1>17. PathsOf' = [PathsOf EXCEPT ![p] = X]
  <2>1. ASSUME NEW q \in Xfers
        PROVE  {mr'[q].bdp} \ {0} = IF q = p THEN X ELSE {mr[q].bdp} \ {0}
    BY <1>12, <1>13, <1>14
  <2> QED BY <2>1 DEF PathsOf
<1>18. Shares(NREG, ubamap, RegsOf)'
  BY <1>4, <1>16 DEF UbaInv
<1>19. Shares(NBDP, bdpmap, PathsOf)'
  BY <1>11, <1>17
<1> QED BY <1>14, <1>15, <1>18, <1>19 DEF UbaInv

\* ubafree: what is given back is free again, and nobody's.
LEMMA ubafreeStep ==
    ASSUME UbaInv, NEW p \in Xfers, ubafree(p)
    PROVE  UbaInv'
<1>1. PICK o : o = mr[p]
  OBVIOUS
<1>2. /\ xat[p] = "transfer" /\ ubamap' = mfree(ubamap, o.nmreg, o.regnum + 1)
      /\ bdpmap' = (IF o.bdp # 0 THEN mfree(bdpmap, 1, o.bdp) ELSE bdpmap)
      /\ mr' = [mr EXCEPT ![p] = NoRegs] /\ xat' = [xat EXCEPT ![p] = "idle"]
  BY <1>1, Zenon DEF ubafree, Given
<1>3. /\ UbaTypes /\ UbaStages /\ NREG \in Nat /\ NBDP \in Nat
      /\ Shares(NREG, ubamap, RegsOf) /\ Shares(NBDP, bdpmap, PathsOf)
  BY UbaAssumption DEF UbaInv
<1>4. o \in Grants /\ o.nmreg > 0
  BY <1>1, <1>2, <1>3 DEF UbaTypes, UbaStages
<1>5. PICK a, n : a = o.regnum + 1 /\ n = o.nmreg
  OBVIOUS
<1>6. a \in Nat /\ n \in Nat /\ n > 0 /\ o.bdp \in Nat
  BY <1>4, <1>5 DEF Grants
<1>7. RegsOf[p] = {x \in Int : a <= x /\ x < a + n}
  <2>1. o.regnum \in Nat
    BY <1>4 DEF Grants
  <2>2. RegsOf[p] = o.regnum + 1 .. o.regnum + o.nmreg
    BY <1>1, <1>2 DEF RegsOf, Regs
  <2> QED BY <2>1, <2>2, <1>5, <1>6
<1>8. Shares(NREG, ubamap', [RegsOf EXCEPT ![p] = {}])
  BY <1>2, <1>3, <1>5, <1>6, <1>7, ShareIsTaken
<1>9. /\ UbaTypes'
      /\ \A q \in Xfers : xat'[q] = (IF q = p THEN "idle" ELSE xat[q])
                          /\ mr'[q] = (IF q = p THEN NoRegs ELSE mr[q])
  BY <1>2, <1>3, NoGrant DEF UbaTypes
<1>10. UbaStages'
  BY <1>3, <1>9, NoGrant DEF UbaStages
<1>11. RegsOf' = [RegsOf EXCEPT ![p] = {}]
  <2>1. ASSUME NEW q \in Xfers PROVE Regs(q)' = IF q = p THEN {} ELSE Regs(q)
    BY <1>9 DEF Regs
  <2> QED BY <2>1 DEF RegsOf
<1>12. PathsOf' = [PathsOf EXCEPT ![p] = {}]
  <2>1. ASSUME NEW q \in Xfers
        PROVE  {mr'[q].bdp} \ {0} = IF q = p THEN {} ELSE {mr[q].bdp} \ {0}
    BY <1>9, NoGrant
  <2> QED BY <2>1 DEF PathsOf
<1>13. Shares(NBDP, bdpmap', [PathsOf EXCEPT ![p] = {}])
  <2>1. CASE o.bdp = 0
    <3>1. PathsOf = [PathsOf EXCEPT ![p] = {}]
      BY <2>1, <1>1 DEF PathsOf
    <3> QED BY <2>1, <3>1, <1>2, <1>3
  <2>2. CASE o.bdp # 0
    <3>1. PICK d : d = o.bdp
      OBVIOUS
    <3>2. PathsOf[p] = {d}
      BY <2>2, <3>1, <1>1 DEF PathsOf
    <3>3. d \in Nat /\ PathsOf[p] = {x \in Int : d <= x /\ x < d + 1}
      BY <3>1, <3>2, <1>6
    <3>4. Shares(NBDP, mfree(bdpmap, 1, d), [PathsOf EXCEPT ![p] = {}])
      <4>1. NBDP \in Nat /\ Shares(NBDP, bdpmap, PathsOf) /\ 1 \in Nat /\ 1 > 0
        BY <1>3
      <4> QED BY <4>1, <3>3, ShareIsTaken, SMTT(30)
    <3> QED BY <2>2, <3>1, <3>4, <1>2
  <2> QED BY <2>1, <2>2
<1>14. Shares(NREG, ubamap, RegsOf)' /\ Shares(NBDP, bdpmap, PathsOf)'
  BY <1>8, <1>11, <1>12, <1>13
<1> QED BY <1>9, <1>10, <1>14 DEF UbaInv

\* The inductive invariant: registers and data paths are shared out between the maps and the
\* transfers.
THEOREM UbaInvariant == UbaSpec => []UbaInv
<1>1. UbaInv /\ [UbaNext]_ubaVars => UbaInv'
  <2> SUFFICES ASSUME UbaInv, [UbaNext]_ubaVars PROVE UbaInv'
    OBVIOUS
  <2>1. ASSUME UNCHANGED <<ubamap, bdpmap, xat, mr>> PROVE UbaInv'
    BY <2>1 DEF UbaInv, UbaTypes, UbaStages, RegsOf, PathsOf, Regs, Shares
  <2>2. CASE UNCHANGED ubaVars
    BY <2>1, <2>2 DEF ubaVars
  <2>3. ASSUME NEW p \in Xfers, XferStep(p) PROVE UbaInv'
    <3>1. CASE WaitRegs(p) \/ WaitPath(p)
      BY <3>1, <2>1 DEF WaitRegs, WaitPath
    <3> QED BY <2>3, <3>1, TakeRegsStep, TakePathStep, ubafreeStep DEF XferStep
  <2> QED BY <2>2, <2>3, AskStep DEF UbaNext
<1> QED BY <1>1, UbaInitially, PTL DEF UbaSpec

\* uba.c:5-101: for any numbers of registers, data paths and drivers, each register and path
\* is free or one transfer's, and the maps are tidy.
THEOREM UbaTheorem == UbaSpec => []RegistersAreOwned
<1>1. UbaInv => RegistersAreOwned
  BY SharesAreOwned
<1> QED BY <1>1, UbaInvariant, PTL
----------------------------------------------------------------------------
(* Page frames: what is looked at *)

\* How many frames there are.
FrameSpan == maxfree - firstfree

\* Where the search of memall starts, is a frame.
LEMMA StartsAt ==
    ASSUME NEW pos \in FramesOf \cup {maxfree}
    PROVE  After(pos) \in FramesOf
BY MemoryAssumption DEF FramesOf, After

\* There are frames.
LEMMA FrameSpanIsMore ==
    /\ firstfree \in Nat /\ maxfree \in Nat
    /\ FrameSpan \in Nat \ {0} /\ NICMEM \in 1..FrameSpan
BY MemoryAssumption DEF FrameSpan

\* The n-th frame looked at comes n - 1 behind the first of them, or so much and once
\* around.
LEMMA ScannedAt ==
    ASSUME NEW pos \in FramesOf \cup {maxfree}, NEW n \in 1..FrameSpan
    PROVE  ScanFrom(pos)[n] = IF After(pos) + (n - 1) < maxfree THEN After(pos) + (n - 1)
                              ELSE After(pos) + (n - 1) - FrameSpan
<1> DEFINE d == After(pos) - firstfree
           a == d + n - 1
<1>1. After(pos) \in FramesOf
  BY StartsAt
<1>2. PICK c : c = After(pos)
  OBVIOUS
<1>3. c \in Int /\ firstfree <= c /\ c < maxfree
  BY <1>1, <1>2, FrameSpanIsMore DEF FramesOf
<1>4. ScanFrom(pos)[n] = firstfree + (a % FrameSpan)
  BY <1>2 DEF ScanFrom, FrameSpan
<1>5. d = c - firstfree
  BY <1>2
<1>6. CASE c + (n - 1) < maxfree
  <2>1. a = 0 * FrameSpan + a /\ a \in 0..FrameSpan - 1
    BY <1>3, <1>5, <1>6, FrameSpanIsMore DEF FrameSpan
  <2>2. a % FrameSpan = a
    BY <2>1, RestIs, FrameSpanIsMore
  <2>3. firstfree + a = c + (n - 1)
    BY <1>3, <1>5, FrameSpanIsMore
  <2> QED BY <1>2, <1>4, <1>6, <2>2, <2>3
<1>7. CASE ~(c + (n - 1) < maxfree)
  <2>1. a = 1 * FrameSpan + (a - FrameSpan) /\ a - FrameSpan \in 0..FrameSpan - 1
    BY <1>3, <1>5, <1>7, FrameSpanIsMore DEF FrameSpan
  <2>2. a % FrameSpan = a - FrameSpan
    <3> DEFINE r == a - FrameSpan
    <3>1. r \in 0..FrameSpan - 1 /\ a = 1 * FrameSpan + r
      BY <2>1
    <3> HIDE DEF r
    <3>2. a % FrameSpan = r
      BY <3>1, RestIs, FrameSpanIsMore
    <3> QED BY <3>2 DEF r
  <2>3. firstfree + (a - FrameSpan) = c + (n - 1) - FrameSpan
    BY <1>3, <1>5, FrameSpanIsMore
  <2> QED BY <1>2, <1>4, <1>7, <2>2, <2>3
<1> QED BY <1>6, <1>7

\* Every frame is looked at, and none twice.
LEMMA ScanIsAll ==
    ASSUME NEW pos \in FramesOf \cup {maxfree}
    PROVE  /\ ScanFrom(pos) \in Seq(FramesOf) /\ Len(ScanFrom(pos)) = FrameSpan
           /\ \A i, j \in 1..FrameSpan : ScanFrom(pos)[i] = ScanFrom(pos)[j] => i = j
           /\ \A f \in FramesOf : \E i \in 1..FrameSpan : ScanFrom(pos)[i] = f
<1>1. PICK c : c = After(pos)
  OBVIOUS
<1>2. c \in Int /\ firstfree <= c /\ c < maxfree
  BY <1>1, StartsAt, FrameSpanIsMore DEF FramesOf
<1>2a. /\ FrameSpan \in Nat \ {0} /\ firstfree \in Int /\ maxfree \in Int
       /\ maxfree = firstfree + FrameSpan
  BY FrameSpanIsMore DEF FrameSpan
<1>3. PICK s : s = ScanFrom(pos)
  OBVIOUS
<1>4. \A n \in 1..FrameSpan : s[n] = IF c + (n - 1) < maxfree THEN c + (n - 1)
                                ELSE c + (n - 1) - FrameSpan
  BY <1>1, <1>3, ScannedAt
<1>5. \A n \in 1..FrameSpan : s[n] \in FramesOf
  <2>1. ASSUME NEW n \in 1..FrameSpan PROVE s[n] \in FramesOf
    <3>1. c + (n - 1) \in Int /\ c + (n - 1) >= firstfree /\ c + (n - 1) - FrameSpan < maxfree
      BY <1>2, FrameSpanIsMore
    <3>2. CASE c + (n - 1) < maxfree
      <4>1. s[n] = c + (n - 1)
        BY <1>4, <3>2
      <4> QED BY <3>1, <3>2, <4>1, FrameSpanIsMore DEF FramesOf
    <3>3. CASE ~(c + (n - 1) < maxfree)
      <4>1. s[n] = c + (n - 1) - FrameSpan
        BY <1>4, <3>3
      <4>2. c + (n - 1) >= firstfree + FrameSpan
        BY <3>1, <3>3, <1>2a
      <4>3. c + (n - 1) - FrameSpan >= firstfree
        BY <4>2, <1>2, <1>2a
      <4>4. c + (n - 1) - FrameSpan \in Int
        BY <1>2, <1>2a
      <4> QED BY <3>1, <4>1, <4>3, <4>4, <1>2a DEF FramesOf
    <3> QED BY <3>2, <3>3
  <2> QED BY <2>1
<1>6. s = [n \in 1..FrameSpan |-> s[n]]
  BY <1>3 DEF ScanFrom, FrameSpan
<1>7. s \in Seq(FramesOf) /\ Len(s) = FrameSpan
  BY <1>5, <1>6, FrameSpanIsMore
<1>8. ASSUME NEW i \in 1..FrameSpan, NEW j \in 1..FrameSpan, s[i] = s[j] PROVE i = j
  <2>1. s[i] = IF c + (i - 1) < maxfree THEN c + (i - 1) ELSE c + (i - 1) - FrameSpan
    BY <1>4
  <2>2. s[j] = IF c + (j - 1) < maxfree THEN c + (j - 1) ELSE c + (j - 1) - FrameSpan
    BY <1>4
  <2>3. i \in 1..FrameSpan /\ j \in 1..FrameSpan /\ i - 1 < FrameSpan /\ j - 1 < FrameSpan
    BY <1>2a
  <2>4. CASE c + (i - 1) < maxfree /\ c + (j - 1) < maxfree
    <3>1. c + (i - 1) = c + (j - 1)
      BY <1>8, <2>1, <2>2, <2>4
    <3> QED BY <1>2, <1>2a, <2>3, <3>1
  <2>5. CASE c + (i - 1) < maxfree /\ ~(c + (j - 1) < maxfree)
    <3>1. c + (i - 1) = c + (j - 1) - FrameSpan
      BY <1>8, <2>1, <2>2, <2>5
    <3> QED BY <1>2, <1>2a, <2>3, <3>1
  <2>6. CASE ~(c + (i - 1) < maxfree) /\ c + (j - 1) < maxfree
    <3>1. c + (i - 1) - FrameSpan = c + (j - 1)
      BY <1>8, <2>1, <2>2, <2>6
    <3> QED BY <1>2, <1>2a, <2>3, <3>1
  <2>7. CASE ~(c + (i - 1) < maxfree) /\ ~(c + (j - 1) < maxfree)
    <3>1. c + (i - 1) - FrameSpan = c + (j - 1) - FrameSpan
      BY <1>8, <2>1, <2>2, <2>7
    <3> QED BY <1>2, <1>2a, <2>3, <3>1
  <2> QED BY <2>4, <2>5, <2>6, <2>7
<1>9. ASSUME NEW f \in FramesOf PROVE \E i \in 1..FrameSpan : s[i] = f
  <2>1. f \in Int /\ firstfree <= f /\ f < maxfree
    BY FrameSpanIsMore DEF FramesOf
  <2>2. CASE f >= c
    <3> DEFINE i == f - c + 1
    <3>1. i \in 1..FrameSpan /\ c + (i - 1) = f
      BY <1>2, <2>1, <2>2, FrameSpanIsMore DEF FrameSpan
    <3> HIDE DEF i
    <3>2. s[i] = f
      BY <1>4, <2>1, <3>1
    <3> QED BY <3>1, <3>2
  <2>3. CASE ~(f >= c)
    <3> DEFINE i == f - c + 1 + FrameSpan
    <3>1. i \in 1..FrameSpan /\ c + (i - 1) = f + FrameSpan
      BY <1>2, <2>1, <2>3, FrameSpanIsMore DEF FrameSpan
    <3> HIDE DEF i
    <3>2. ~(f + FrameSpan < maxfree) /\ f + FrameSpan - FrameSpan = f
      BY <2>1, FrameSpanIsMore DEF FrameSpan
    <3>3. s[i] = c + (i - 1) - FrameSpan
      BY <1>4, <3>1, <3>2
    <3>4. c + (i - 1) - FrameSpan = f
      <4> DEFINE x == c + (i - 1)
      <4>1. x = f + FrameSpan
        BY <3>1
      <4> HIDE DEF x
      <4>2. x - FrameSpan = f
        BY <4>1, <2>1, <1>2a
      <4>3. x - FrameSpan = c + (i - 1) - FrameSpan
        BY <1>2, <1>2a, <3>1 DEF x
      <4> QED BY <4>2, <4>3
    <3> QED BY <3>1, <3>3, <3>4
  <2> QED BY <2>2, <2>3
<1> QED BY <1>3, <1>7, <1>8, <1>9

\* The frames not in use, in the order in which they are looked at.
FreeFrames(pos, used) ==
    FoldLeft(LAMBDA s, f : IF f \in used THEN s ELSE Append(s, f), <<>>, ScanFrom(pos))

FoundFold(t, used) ==
    CHOOSE g : g = [s \in SUBSET DOMAIN t |->
                       IF s = {} THEN <<>>
                       ELSE IF t[Max(s)] \in used THEN g[s \ {Max(s)}]
                            ELSE Append(g[s \ {Max(s)}], t[Max(s)])]

\* It is a value of the function that is folded.
LEMMA FoundForm ==
    ASSUME NEW pos, NEW used
    PROVE  FreeFrames(pos, used) = FoundFold(ScanFrom(pos), used)[DOMAIN ScanFrom(pos)]
BY Zenon DEF FreeFrames, FoldLeft, MapThenFoldSet, FoundFold

\* That function takes the frames one after the other.
LEMMA FoundAlong ==
    ASSUME NEW N \in Nat, NEW t \in Seq(FramesOf), Len(t) = N, NEW used,
           NEW g, g = FoundFold(t, used)
    PROVE  /\ g[1..0] = <<>>
           /\ \A n \in 1..N : g[1..n] = IF t[n] \in used THEN g[1..(n - 1)]
                                        ELSE Append(g[1..(n - 1)], t[n])
<1> DEFINE S == Seq(FramesOf)
           step == [p \in (1..N) \X S |-> IF t[p[1]] \in used THEN p[2] ELSE Append(p[2], t[p[1]])]
<1>1. \A n \in 1..N : t[n] \in FramesOf
  OBVIOUS
<1>2. step \in [(1..N) \X S -> S]
  <2>1. ASSUME NEW p \in (1..N) \X S
        PROVE  (IF t[p[1]] \in used THEN p[2] ELSE Append(p[2], t[p[1]])) \in S
    <3>1. p[1] \in 1..N /\ p[2] \in S
      OBVIOUS
    <3>2. t[p[1]] \in FramesOf
      BY <1>1, <3>1
    <3> QED BY <3>1, <3>2
  <2> QED BY <2>1
<1>3. <<>> \in S
  OBVIOUS
<1>4. \A n \in 1..N, x \in S : step[<<n, x>>] = IF t[n] \in used THEN x ELSE Append(x, t[n])
  OBVIOUS
<1> HIDE DEF step
<1>5. HasFold(N, <<>>, step, S)
  <2> HIDE DEF S
  <2> QED BY <1>2, <1>3, FoldExists
<1>6. PICK e \in [SUBSET (1..N) -> S] : Iterates(N, <<>>, step, e)
  BY <1>5, Zenon DEF HasFold
<1>7. DOMAIN t = 1..N
  OBVIOUS
<1>8. \A s \in SUBSET (1..N) :
          e[s] = IF s = {} THEN <<>>
                 ELSE IF t[Max(s)] \in used THEN e[s \ {Max(s)}]
                      ELSE Append(e[s \ {Max(s)}], t[Max(s)])
  <2>1. ASSUME NEW s \in SUBSET (1..N), s # {}
        PROVE  e[s] = IF t[Max(s)] \in used THEN e[s \ {Max(s)}]
                      ELSE Append(e[s \ {Max(s)}], t[Max(s)])
    <3>1. Max(s) \in 1..N
      BY <2>1, MaxOfNumbers
    <3>2. s \ {Max(s)} \in SUBSET (1..N)
      OBVIOUS
    <3>3. e[s \ {Max(s)}] \in S
      BY <1>6, <3>2
    <3>4. e[s] = step[<<Max(s), e[s \ {Max(s)}]>>]
      BY <1>6, <2>1 DEF Iterates
    <3> HIDE DEF S
    <3> QED BY <1>4, <3>1, <3>3, <3>4
  <2>2. e[{}] = <<>>
    BY <1>6 DEF Iterates
  <2> QED BY <2>1, <2>2
<1>9. e = [s \in SUBSET (1..N) |->
              IF s = {} THEN <<>>
              ELSE IF t[Max(s)] \in used THEN e[s \ {Max(s)}]
                   ELSE Append(e[s \ {Max(s)}], t[Max(s)])]
  <2>1. e = [s \in SUBSET (1..N) |-> e[s]]
    BY <1>6
  <2> QED BY <1>8, <2>1
<1>10. g = [s \in SUBSET (1..N) |->
              IF s = {} THEN <<>>
              ELSE IF t[Max(s)] \in used THEN g[s \ {Max(s)}]
                   ELSE Append(g[s \ {Max(s)}], t[Max(s)])]
  BY <1>7, <1>9, Zenon DEF FoundFold
<1>11. g[1..0] = <<>>
  <2>1. 1..0 = {} /\ {} \in SUBSET (1..N)
    OBVIOUS
  <2> QED BY <1>10, <2>1
<1>12. ASSUME NEW n \in 1..N
       PROVE  g[1..n] = IF t[n] \in used THEN g[1..(n - 1)] ELSE Append(g[1..(n - 1)], t[n])
  <2>1. 1..n # {} /\ Max(1..n) = n /\ (1..n) \ {n} = 1..(n - 1)
    <3>1. n \in Nat \ {0}
      OBVIOUS
    <3> QED BY <3>1, GreatestOf
  <2>2. 1..n \in SUBSET (1..N)
    OBVIOUS
  <2> QED BY <1>10, <2>1, <2>2
<1> QED BY <1>11, <1>12

\* No element comes twice.
Distinct(s) == \A i, j \in 1..Len(s) : s[i] = s[j] => i = j

\* The frames found are those not in use, none twice.
FindsFree(s, used) ==
    /\ s \in Seq(FramesOf) /\ Distinct(s)
    /\ \A i \in 1..Len(s) : s[i] \notin used
    /\ \A f \in FramesOf \ used : \E i \in 1..Len(s) : s[i] = f

\* So it is with those that memall finds.
LEMMA FoundIsFree ==
    ASSUME NEW pos \in FramesOf \cup {maxfree}, NEW used
    PROVE  FindsFree(FreeFrames(pos, used), used)
<1>1. PICK t : t = ScanFrom(pos)
  OBVIOUS
<1>2. /\ t \in Seq(FramesOf) /\ Len(t) = FrameSpan
      /\ \A i, j \in 1..FrameSpan : t[i] = t[j] => i = j
      /\ \A f \in FramesOf : \E i \in 1..FrameSpan : t[i] = f
  BY <1>1, ScanIsAll
<1>3. FrameSpan \in Nat
  BY FrameSpanIsMore
<1>4. PICK g : g = FoundFold(t, used)
  OBVIOUS
<1>5. FreeFrames(pos, used) = g[1..FrameSpan]
  <2>1. DOMAIN t = 1..FrameSpan
    BY <1>2
  <2> QED BY <1>1, <1>4, <2>1, FoundForm
<1>6. /\ g[1..0] = <<>>
      /\ \A n \in 1..FrameSpan : g[1..n] = IF t[n] \in used THEN g[1..(n - 1)]
                                      ELSE Append(g[1..(n - 1)], t[n])
  BY <1>2, <1>3, <1>4, FoundAlong
<1> DEFINE v == [n \in 0..FrameSpan |-> g[1..n]]
           Q(s, n) == /\ Distinct(s)
                      /\ \A i \in 1..Len(s) : \E k \in 1..n : s[i] = t[k] /\ t[k] \notin used
                      /\ \A k \in 1..n : t[k] \notin used => \E i \in 1..Len(s) : s[i] = t[k]
           P == [n \in 0..FrameSpan |-> {s \in Seq(FramesOf) : Q(s, n)}]
<1>7. v[0] \in P[0]
  <2>1. v[0] = <<>>
    BY <1>3, <1>6
  <2>2. Q(<<>>, 0)
    BY DEF Distinct
  <2>3. <<>> \in Seq(FramesOf)
    OBVIOUS
  <2>4. 0 \in 0..FrameSpan
    BY <1>3
  <2>5. <<>> \in {s \in Seq(FramesOf) : Q(s, 0)}
    BY <2>2, <2>3, Zenon
  <2> HIDE DEF v, Q
  <2> QED BY <2>1, <2>4, <2>5
<1>8. ASSUME NEW n \in 1..FrameSpan, v[n - 1] \in P[n - 1] PROVE v[n] \in P[n]
  <2>1. n \in 0..FrameSpan /\ n - 1 \in 0..FrameSpan /\ n \in Nat /\ n - 1 \in Nat
    BY <1>3
  <2>2. PICK s : s = g[1..(n - 1)]
    OBVIOUS
  <2>3. s \in Seq(FramesOf) /\ Q(s, n - 1)
    BY <1>8, <2>1, <2>2
  <2>4. v[n] = IF t[n] \in used THEN s ELSE Append(s, t[n])
    BY <1>6, <2>1, <2>2
  <2>5. t[n] \in FramesOf
    BY <1>2
  <2> HIDE DEF v
  <2>6. CASE t[n] \in used
    <3>1. Q(s, n)
      <4>1. \A i \in 1..Len(s) : \E k \in 1..n : s[i] = t[k] /\ t[k] \notin used
        <5>1. \A i \in 1..Len(s) : \E k \in 1..(n - 1) : s[i] = t[k] /\ t[k] \notin used
          BY <2>3
        <5>2. 1..(n - 1) \subseteq 1..n
          BY <2>1
        <5> QED BY <5>1, <5>2, Zenon
      <4>2. \A k \in 1..n : t[k] \notin used => \E i \in 1..Len(s) : s[i] = t[k]
        BY <2>1, <2>3, <2>6
      <4> QED BY <2>3, <4>1, <4>2
    <3> HIDE DEF Q
    <3> QED BY <2>1, <2>3, <2>4, <2>6, <3>1
  <2>7. CASE t[n] \notin used
    <3>1. PICK u : u = Append(s, t[n])
      OBVIOUS
    <3>2. /\ u \in Seq(FramesOf) /\ Len(u) = Len(s) + 1 /\ u[Len(u)] = t[n]
          /\ \A i \in 1..Len(s) : u[i] = s[i]
      BY <2>3, <2>5, <3>1
    <3>3. Len(s) \in Nat
      BY <2>3
    <3>4. \A i \in 1..Len(s) : s[i] # t[n]
      <4>1. ASSUME NEW i \in 1..Len(s), s[i] = t[n] PROVE FALSE
        <5>1. PICK k \in 1..(n - 1) : s[i] = t[k]
          BY <2>3
        <5>2. k \in 1..FrameSpan /\ k # n
          BY <2>1, <1>3
        <5> QED BY <1>2, <4>1, <5>1, <5>2
      <4> QED BY <4>1
    <3>5. Distinct(u)
      BY <2>3, <3>2, <3>3, <3>4 DEF Distinct
    <3>6. \A i \in 1..Len(u) : \E k \in 1..n : u[i] = t[k] /\ t[k] \notin used
      <4>1. ASSUME NEW i \in 1..Len(u) PROVE \E k \in 1..n : u[i] = t[k] /\ t[k] \notin used
        <5>1. CASE i = Len(u)
          BY <2>1, <2>7, <3>2, <5>1
        <5>2. CASE i # Len(u)
          <6>1. i \in 1..Len(s) /\ u[i] = s[i]
            BY <3>2, <3>3, <5>2
          <6>2. PICK k \in 1..(n - 1) : s[i] = t[k] /\ t[k] \notin used
            BY <2>3, <6>1
          <6> QED BY <2>1, <6>1, <6>2
        <5> QED BY <5>1, <5>2
      <4> QED BY <4>1
    <3>7. \A k \in 1..n : t[k] \notin used => \E i \in 1..Len(u) : u[i] = t[k]
      <4>1. ASSUME NEW k \in 1..n, t[k] \notin used PROVE \E i \in 1..Len(u) : u[i] = t[k]
        <5>1. CASE k = n
          BY <3>2, <3>3, <5>1
        <5>2. CASE k # n
          <6>1. k \in 1..(n - 1)
            BY <2>1, <5>2
          <6>2. PICK i \in 1..Len(s) : s[i] = t[k]
            BY <2>3, <4>1, <6>1
          <6> QED BY <3>2, <3>3, <6>2
        <5> QED BY <5>1, <5>2
      <4> QED BY <4>1
    <3>8. Q(u, n)
      BY <3>5, <3>6, <3>7
    <3> HIDE DEF Q
    <3> QED BY <2>1, <2>4, <2>7, <3>1, <3>2, <3>8
  <2> QED BY <2>6, <2>7
<1> HIDE DEF P
<1>9. v[FrameSpan] \in P[FrameSpan]
  <2> HIDE DEF v
  <2> QED BY <1>3, <1>7, <1>8, ChainReaches
<1>10. PICK s : s = FreeFrames(pos, used)
  OBVIOUS
<1>11. s \in Seq(FramesOf) /\ Q(s, FrameSpan)
  BY <1>3, <1>5, <1>9, <1>10 DEF P
<1>12. \A f \in FramesOf \ used : \E i \in 1..Len(s) : s[i] = f
  <2>1. ASSUME NEW f \in FramesOf \ used PROVE \E i \in 1..Len(s) : s[i] = f
    <3>1. PICK k \in 1..FrameSpan : t[k] = f
      BY <1>2
    <3> QED BY <1>11, <3>1
  <2> QED BY <2>1
<1>13. \A i \in 1..Len(s) : s[i] \notin used
  BY <1>11
<1> QED BY <1>10, <1>11, <1>12, <1>13 DEF FindsFree

----------------------------------------------------------------------------
(* Page frames: one is taken *)

Panics == {"none", "lost mem", "dup alloc", "dup free"}

Mems == [memmap : SUBSET FramesOf, pnum : Seq(FramesOf), lastpos : FramesOf \cup {maxfree},
         freemem : Int, got : Seq(FramesOf), panic : Panics]

\* The stack has frames that are not in use, none twice.
StackOK(k) == Distinct(k.pnum) /\ \A i \in 1..Len(k.pnum) : k.pnum[i] \notin k.memmap

\* r is k with its stack filled.
Fills(k, r) ==
    /\ r \in Mems
    /\ r.memmap = k.memmap /\ r.freemem = k.freemem /\ r.got = k.got /\ r.panic = k.panic
    /\ StackOK(r)
    /\ FramesOf \ k.memmap # {} => Len(r.pnum) > 0

\* Refilled does it.
LEMMA RefilledFills ==
    ASSUME NEW k \in Mems
    PROVE  Fills(k, Refilled(k))
<1>1. k.lastpos \in FramesOf \cup {maxfree} /\ k.memmap \in SUBSET FramesOf
  BY DEF Mems
<1>2. PICK s : s = FreeFrames(k.lastpos, k.memmap)
  OBVIOUS
<1>3. FindsFree(s, k.memmap)
  BY <1>1, <1>2, FoundIsFree
<1>4. PICK scan : scan = ScanFrom(k.lastpos)
  OBVIOUS
<1>5. /\ scan \in Seq(FramesOf) /\ Len(scan) = FrameSpan
      /\ Last(scan) = scan[FrameSpan] /\ scan[FrameSpan] \in FramesOf
  <2>1. scan \in Seq(FramesOf) /\ Len(scan) = FrameSpan
    BY <1>1, <1>4, ScanIsAll
  <2>2. FrameSpan \in 1..Len(scan)
    BY <2>1, FrameSpanIsMore
  <2>3. Last(scan) = scan[FrameSpan]
    BY <2>1 DEF Last
  <2> QED BY <2>1, <2>2, <2>3
<1>6. Refilled(k) =
        IF Len(s) < NICMEM \/ s[NICMEM] = k.lastpos
          THEN [k EXCEPT !.pnum = s, !.lastpos = Last(scan)]
          ELSE [k EXCEPT !.pnum = SubSeq(s, 1, NICMEM), !.lastpos = After(s[NICMEM])]
  BY <1>2, <1>4, Zenon DEF Refilled, FreeFrames
<1>7. PICK r : r = Refilled(k)
  OBVIOUS
<1>8. /\ r.memmap = k.memmap /\ r.freemem = k.freemem /\ r.got = k.got /\ r.panic = k.panic
  <2>1. ASSUME NEW p, NEW l, r = [k EXCEPT !.pnum = p, !.lastpos = l]
        PROVE  r.memmap = k.memmap /\ r.freemem = k.freemem /\ r.got = k.got /\ r.panic = k.panic
    BY <2>1 DEF Mems
  <2> QED BY <1>6, <1>7, <2>1
<1>9. s \in Seq(FramesOf) /\ Len(s) \in Nat
  BY <1>3 DEF FindsFree
<1>10. FramesOf \ k.memmap # {} => Len(s) > 0
  <2>1. ASSUME NEW f \in FramesOf \ k.memmap PROVE Len(s) > 0
    <3>1. PICK i \in 1..Len(s) : s[i] = f
      BY <1>3 DEF FindsFree
    <3> QED BY <3>1, <1>9
  <2> QED BY <2>1
<1>11. NICMEM \in Nat /\ NICMEM >= 1
  BY FrameSpanIsMore
<1>12. CASE Len(s) < NICMEM \/ s[NICMEM] = k.lastpos
  <2>1. r = [k EXCEPT !.pnum = s, !.lastpos = Last(scan)]
    BY <1>6, <1>7, <1>12, Zenon
  <2>2. r \in Mems
    BY <2>1, <1>5, <1>9 DEF Mems
  <2>3. r.pnum = s
    BY <2>1 DEF Mems
  <2>4. StackOK(r)
    BY <1>3, <1>8, <2>3 DEF StackOK, FindsFree
  <2> QED BY <1>7, <1>8, <1>10, <2>2, <2>3, <2>4 DEF Fills
<1>13. CASE ~(Len(s) < NICMEM \/ s[NICMEM] = k.lastpos)
  <2>1. PICK u : u = SubSeq(s, 1, NICMEM)
    OBVIOUS
  <2>2. NICMEM \in 1..Len(s)
    BY <1>9, <1>11, <1>13
  <2>3. u \in Seq(FramesOf) /\ Len(u) = NICMEM /\ \A i \in 1..NICMEM : u[i] = s[i]
    BY <1>9, <2>1, <2>2, SubSeqProperties
  <2>4. s[NICMEM] \in FramesOf
    BY <1>9, <2>2
  <2>5. After(s[NICMEM]) \in FramesOf
    BY <2>4, StartsAt
  <2>6. r = [k EXCEPT !.pnum = u, !.lastpos = After(s[NICMEM])]
    BY <1>6, <1>7, <1>13, <2>1, Zenon
  <2>7. r \in Mems
    BY <2>6, <2>3, <2>5 DEF Mems
  <2>8. r.pnum = u
    BY <2>6 DEF Mems
  <2>9. StackOK(r)
    <3>1. \A i \in 1..Len(u) : i \in 1..Len(s) /\ u[i] = s[i]
      BY <2>2, <2>3, <1>9
    <3> QED BY <1>3, <1>8, <2>8, <3>1 DEF StackOK, FindsFree, Distinct
  <2>10. Len(r.pnum) > 0
    BY <2>3, <2>8, <1>11
  <2> QED BY <1>7, <1>8, <2>7, <2>9, <2>10 DEF Fills
<1> QED BY <1>12, <1>13

\* r is k with one more frame taken.
Takes(k, r) ==
    \E f \in FramesOf \ k.memmap :
        /\ r.memmap = k.memmap \cup {f} /\ r.freemem = k.freemem - 1
        /\ r.got = Append(k.got, f) /\ r.panic = k.panic
        /\ StackOK(r)

\* One keeps the types, and takes a frame if there is one that is not in use.
LEMMA OneTakes ==
    ASSUME NEW k \in Mems
    PROVE  /\ One(k) \in Mems
           /\ StackOK(k) /\ FramesOf \ k.memmap # {} => Takes(k, One(k))
<1>1. PICK r : r = IF k.pnum = <<>> THEN Refilled(k) ELSE k
  OBVIOUS
<1>2. Fills(k, Refilled(k))
  BY RefilledFills
<1>3. /\ r \in Mems
      /\ r.memmap = k.memmap /\ r.freemem = k.freemem /\ r.got = k.got /\ r.panic = k.panic
      /\ StackOK(k) => StackOK(r)
      /\ FramesOf \ k.memmap # {} => r.pnum # <<>>
  <2>1. CASE k.pnum = <<>>
    <3>1. r = Refilled(k)
      BY <1>1, <2>1
    <3>2. Len(r.pnum) > 0 => r.pnum # <<>>
      OBVIOUS
    <3> QED BY <1>2, <3>1, <3>2 DEF Fills
  <2>2. CASE k.pnum # <<>>
    BY <1>1, <2>2
  <2> QED BY <2>1, <2>2
<1>4. PICK o : o = One(k)
  OBVIOUS
<1>5. o = IF r.pnum = <<>> THEN [r EXCEPT !.panic = "lost mem"]
          ELSE IF Last(r.pnum) \in r.memmap THEN [r EXCEPT !.panic = "dup alloc"]
          ELSE [r EXCEPT !.memmap = @ \cup {Last(r.pnum)}, !.got = Append(@, Last(r.pnum)),
                         !.pnum = Front(@), !.freemem = @ - 1]
  BY <1>1, <1>4, Zenon DEF One
<1>6. r.pnum \in Seq(FramesOf) /\ r.got \in Seq(FramesOf) /\ r.freemem \in Int
      /\ r.memmap \in SUBSET FramesOf
  BY <1>3 DEF Mems
<1>7. CASE r.pnum = <<>>
  <2>1. o = [r EXCEPT !.panic = "lost mem"]
    BY <1>5, <1>7, Zenon
  <2>2. o \in Mems
    BY <1>3, <2>1 DEF Mems, Panics
  <2> QED BY <1>3, <1>4, <1>7, <2>2
<1>8. CASE r.pnum # <<>>
  <2>1. PICK f : f = Last(r.pnum)
    OBVIOUS
  <2>2. PICK p : p = Front(r.pnum)
    OBVIOUS
  <2>3. /\ Len(r.pnum) \in 1..Len(r.pnum) /\ f = r.pnum[Len(r.pnum)] /\ f \in FramesOf
    <3>1. Len(r.pnum) \in 1..Len(r.pnum)
      BY <1>6, <1>8
    <3>2. f = r.pnum[Len(r.pnum)]
      BY <2>1 DEF Last
    <3> QED BY <1>6, <3>1, <3>2
  <2>4. /\ p \in Seq(FramesOf) /\ Len(p) = Len(r.pnum) - 1
        /\ \A i \in 1..Len(p) : i \in 1..Len(r.pnum) /\ i # Len(r.pnum) /\ p[i] = r.pnum[i]
    <3>1. p = SubSeq(r.pnum, 1, Len(r.pnum) - 1)
      BY <2>2 DEF Front
    <3>2. Len(r.pnum) \in Nat /\ Len(r.pnum) - 1 \in 0..Len(r.pnum)
      BY <2>3, <1>6
    <3>3. /\ p \in Seq(FramesOf) /\ Len(p) = Len(r.pnum) - 1
          /\ \A i \in 1..Len(r.pnum) - 1 : p[i] = r.pnum[i]
      BY <1>6, <3>1, <3>2, SubSeqProperties
    <3> QED BY <3>2, <3>3
  <2>5. CASE f \in r.memmap
    <3>1. o = [r EXCEPT !.panic = "dup alloc"]
      BY <1>5, <1>8, <2>1, <2>5, Zenon
    <3>2. o \in Mems
      BY <1>3, <3>1 DEF Mems, Panics
    <3>3. StackOK(r) => f \notin r.memmap
      BY <2>3 DEF StackOK
    <3> QED BY <1>3, <1>4, <2>5, <3>2, <3>3
  <2>6. CASE f \notin r.memmap
    <3>1. PICK a : a = Append(r.got, f)
      OBVIOUS
    <3>2. o = [r EXCEPT !.memmap = @ \cup {f}, !.got = a, !.pnum = p, !.freemem = @ - 1]
      BY <1>5, <1>8, <2>1, <2>2, <2>6, <3>1, Zenon
    <3>3. a \in Seq(FramesOf)
      BY <1>6, <2>3, <3>1
    <3>4. r.memmap \cup {f} \in SUBSET FramesOf /\ r.freemem - 1 \in Int
      BY <1>6, <2>3
    <3>5. o \in Mems
      BY <1>3, <2>4, <3>2, <3>3, <3>4 DEF Mems
    <3>6. /\ o.memmap = r.memmap \cup {f} /\ o.got = a /\ o.pnum = p /\ o.freemem = r.freemem - 1
          /\ o.panic = r.panic
      BY <1>3, <3>2 DEF Mems
    <3>7. ASSUME StackOK(k) PROVE Takes(k, o)
      <4>1. StackOK(r)
        BY <1>3, <3>7
      <4>2. Distinct(p)
        BY <2>4, <4>1 DEF StackOK, Distinct
      <4>3. \A i \in 1..Len(p) : p[i] \notin o.memmap
        BY <2>3, <2>4, <3>6, <4>1 DEF StackOK, Distinct
      <4>4. StackOK(o)
        BY <3>6, <4>2, <4>3 DEF StackOK
      <4>5. f \in FramesOf \ k.memmap
        BY <1>3, <2>3, <2>6
      <4> QED BY <1>3, <3>1, <3>6, <4>4, <4>5 DEF Takes
    <3> QED BY <1>4, <3>5, <3>7
  <2> QED BY <2>5, <2>6
<1> QED BY <1>7, <1>8

----------------------------------------------------------------------------
(* Page frames: memall and memfree *)

\* There are finitely many frames.
LEMMA FramesAreFinite == IsFiniteSet(FramesOf)
BY FrameSpanIsMore, FS_Interval DEF FramesOf

\* freemem counts the frames not in use, and the stack has some of them.
FramesCounted(k) ==
    /\ k \in Mems /\ k.panic = "none" /\ StackOK(k)
    /\ k.freemem = Cardinality(FramesOf \ k.memmap)

\* Taking a frame keeps it so.
LEMMA OneCounted ==
    ASSUME NEW k, FramesCounted(k), k.freemem > 0
    PROVE  FramesCounted(One(k)) /\ Takes(k, One(k))
<1>1. FramesOf \ k.memmap # {}
  <2>1. ASSUME FramesOf \ k.memmap = {} PROVE FALSE
    <3>1. k.freemem = 0
      BY <2>1, FS_EmptySet DEF FramesCounted
    <3> QED BY <3>1
  <2> QED BY <2>1
<1>2. PICK o : o = One(k)
  OBVIOUS
<1>3. o \in Mems /\ Takes(k, o)
  BY <1>1, <1>2, OneTakes DEF FramesCounted
<1>4. PICK f \in FramesOf \ k.memmap :
          o.memmap = k.memmap \cup {f} /\ o.freemem = k.freemem - 1 /\ o.panic = k.panic
  BY <1>3 DEF Takes
<1>5. o.freemem = Cardinality(FramesOf \ o.memmap)
  <2>1. IsFiniteSet(FramesOf \ k.memmap)
    BY FramesAreFinite, FS_Difference
  <2>2. Cardinality((FramesOf \ k.memmap) \ {f}) = Cardinality(FramesOf \ k.memmap) - 1
    BY <2>1, <1>4, FS_RemoveElement
  <2>3. FramesOf \ o.memmap = (FramesOf \ k.memmap) \ {f}
    BY <1>4
  <2> QED BY <2>2, <2>3, <1>4 DEF FramesCounted
<1>6. StackOK(o)
  BY <1>3 DEF Takes
<1> QED BY <1>2, <1>3, <1>4, <1>5, <1>6 DEF FramesCounted

\* k is m with the n frames of got taken.
FramesTaken(m, n, k) ==
    /\ FramesCounted(k) /\ k.freemem = m.freemem - n
    /\ Len(k.got) = n /\ Distinct(k.got)
    /\ \A i \in 1..n : k.got[i] \notin m.memmap
    /\ \A f : f \in k.memmap <=> f \in m.memmap \/ \E i \in 1..n : k.got[i] = f

\* One frame more.
LEMMA TakenOneMore ==
    ASSUME NEW m \in Mems, NEW n \in Nat, NEW k, FramesTaken(m, n, k), k.freemem > 0
    PROVE  FramesTaken(m, n + 1, One(k))
<1>1. /\ FramesCounted(k) /\ k \in Mems /\ k.got \in Seq(FramesOf)
      /\ Len(k.got) = n /\ k.freemem \in Int
  BY DEF FramesTaken, FramesCounted, Mems
<1>2. PICK o : o = One(k)
  OBVIOUS
<1>3. FramesCounted(o) /\ Takes(k, o)
  BY <1>1, <1>2, OneCounted
<1>4. PICK f \in FramesOf \ k.memmap :
          o.memmap = k.memmap \cup {f} /\ o.freemem = k.freemem - 1 /\ o.got = Append(k.got, f)
  BY <1>3 DEF Takes
<1>5. PICK g : g = o.got
  OBVIOUS
<1>6. g \in Seq(FramesOf) /\ Len(g) = n + 1 /\ g[n + 1] = f /\ \A i \in 1..n : g[i] = k.got[i]
  BY <1>1, <1>4, <1>5
<1>7. \A i \in 1..n : k.got[i] \in k.memmap
  BY DEF FramesTaken
<1>8. Distinct(g)
  <2>1. \A i \in 1..n : g[i] # f
    BY <1>4, <1>6, <1>7
  <2>2. \A i, j \in 1..n : g[i] = g[j] => i = j
    BY <1>1, <1>6 DEF FramesTaken, Distinct
  <2>3. ASSUME NEW i \in 1..(n + 1), NEW j \in 1..(n + 1), g[i] = g[j] PROVE i = j
    <3>1. i \in 1..n \/ i = n + 1
      OBVIOUS
    <3>2. j \in 1..n \/ j = n + 1
      OBVIOUS
    <3> QED BY <1>6, <2>1, <2>2, <2>3, <3>1, <3>2
  <2> QED BY <1>6, <2>3 DEF Distinct
<1>9. ASSUME NEW i \in 1..(n + 1) PROVE g[i] \notin m.memmap
  <2>1. f \notin m.memmap
    BY <1>4 DEF FramesTaken
  <2>2. i \in 1..n \/ i = n + 1
    OBVIOUS
  <2> QED BY <1>6, <2>1, <2>2 DEF FramesTaken
<1>10. ASSUME NEW x PROVE x \in o.memmap <=> x \in m.memmap \/ \E i \in 1..(n + 1) : g[i] = x
  <2>1. x \in o.memmap <=> x \in m.memmap \/ (\E i \in 1..n : k.got[i] = x) \/ x = f
    BY <1>4 DEF FramesTaken
  <2>2. (\E i \in 1..(n + 1) : g[i] = x) <=> (\E i \in 1..n : g[i] = x) \/ g[n + 1] = x
    <3>1. 1..(n + 1) = 1..n \cup {n + 1}
      OBVIOUS
    <3> QED BY <3>1
  <2> QED BY <1>6, <2>1, <2>2
<1>11. o.freemem = m.freemem - (n + 1)
  <2>1. k.freemem = m.freemem - n
    BY DEF FramesTaken
  <2>2. PICK c \in Int : c = m.freemem
    BY DEF Mems
  <2>3. k.freemem = c - n /\ o.freemem = (c - n) - 1
    BY <1>4, <2>1, <2>2
  <2> QED BY <1>1, <2>2, <2>3
<1> QED BY <1>2, <1>3, <1>5, <1>6, <1>8, <1>9, <1>10, <1>11 DEF FramesTaken

\* What memall makes of m.
AllOf(m, size) ==
    FoldLeft(LAMBDA a, n : IF a.panic = "none" THEN One(a) ELSE a, m, [n \in 1..size |-> n])

AllFold(m, t) ==
    CHOOSE g : g = [s \in SUBSET DOMAIN t |->
                       IF s = {} THEN m
                       ELSE IF g[s \ {Max(s)}].panic = "none" THEN One(g[s \ {Max(s)}])
                            ELSE g[s \ {Max(s)}]]

\* It is a value of the function that is folded.
LEMMA AllForm ==
    ASSUME NEW m, NEW size
    PROVE  AllOf(m, size) = AllFold(m, [n \in 1..size |-> n])[DOMAIN [n \in 1..size |-> n]]
BY Zenon DEF AllOf, FoldLeft, MapThenFoldSet, AllFold

\* That function takes one frame after the other.
LEMMA AllAlong ==
    ASSUME NEW N \in Nat, NEW m \in Mems, NEW t, t = [n \in 1..N |-> n], NEW g, g = AllFold(m, t)
    PROVE  /\ g[1..0] = m
           /\ \A n \in 1..N : g[1..n] = IF g[1..(n - 1)].panic = "none" THEN One(g[1..(n - 1)])
                                        ELSE g[1..(n - 1)]
<1> DEFINE step == [p \in (1..N) \X Mems |-> IF p[2].panic = "none" THEN One(p[2]) ELSE p[2]]
<1>2. step \in [(1..N) \X Mems -> Mems]
  <2>1. ASSUME NEW p \in (1..N) \X Mems
        PROVE  (IF p[2].panic = "none" THEN One(p[2]) ELSE p[2]) \in Mems
    <3>1. p[2] \in Mems
      OBVIOUS
    <3> QED BY <3>1, OneTakes
  <2> QED BY <2>1
<1>4. \A n \in 1..N, x \in Mems : step[<<n, x>>] = IF x.panic = "none" THEN One(x) ELSE x
  OBVIOUS
<1> HIDE DEF step
<1>5. HasFold(N, m, step, Mems)
  BY <1>2, FoldExists
<1>6. PICK e \in [SUBSET (1..N) -> Mems] : Iterates(N, m, step, e)
  BY <1>5, Zenon DEF HasFold
<1>7. DOMAIN t = 1..N
  OBVIOUS
<1>8. \A s \in SUBSET (1..N) :
          e[s] = IF s = {} THEN m
                 ELSE IF e[s \ {Max(s)}].panic = "none" THEN One(e[s \ {Max(s)}])
                      ELSE e[s \ {Max(s)}]
  <2>1. ASSUME NEW s \in SUBSET (1..N), s # {}
        PROVE  e[s] = IF e[s \ {Max(s)}].panic = "none" THEN One(e[s \ {Max(s)}])
                      ELSE e[s \ {Max(s)}]
    <3>1. Max(s) \in 1..N
      BY <2>1, MaxOfNumbers
    <3>2. s \ {Max(s)} \in SUBSET (1..N)
      OBVIOUS
    <3>3. PICK x \in Mems : x = e[s \ {Max(s)}]
      BY <1>6, <3>2
    <3>4. e[s] = step[<<Max(s), x>>]
      BY <1>6, <2>1, <3>3 DEF Iterates
    <3>5. e[s] = IF x.panic = "none" THEN One(x) ELSE x
      BY <1>4, <3>1, <3>3, <3>4
    <3> QED BY <3>3, <3>5
  <2>2. e[{}] = m
    BY <1>6 DEF Iterates
  <2> QED BY <2>1, <2>2
<1>9. e = [s \in SUBSET (1..N) |->
              IF s = {} THEN m
              ELSE IF e[s \ {Max(s)}].panic = "none" THEN One(e[s \ {Max(s)}])
                   ELSE e[s \ {Max(s)}]]
  <2>1. e = [s \in SUBSET (1..N) |-> e[s]]
    BY <1>6
  <2> QED BY <1>8, <2>1
<1>10. g = [s \in SUBSET (1..N) |->
              IF s = {} THEN m
              ELSE IF g[s \ {Max(s)}].panic = "none" THEN One(g[s \ {Max(s)}])
                   ELSE g[s \ {Max(s)}]]
  BY <1>7, <1>9, Zenon DEF AllFold
<1>11. g[1..0] = m
  <2>1. 1..0 = {} /\ {} \in SUBSET (1..N)
    OBVIOUS
  <2> QED BY <1>10, <2>1
<1>12. ASSUME NEW n \in 1..N
       PROVE  g[1..n] = IF g[1..(n - 1)].panic = "none" THEN One(g[1..(n - 1)])
                        ELSE g[1..(n - 1)]
  <2>1. 1..n # {} /\ Max(1..n) = n /\ (1..n) \ {n} = 1..(n - 1)
    <3>1. n \in Nat \ {0}
      OBVIOUS
    <3> QED BY <3>1, GreatestOf
  <2>2. 1..n \in SUBSET (1..N)
    OBVIOUS
  <2> QED BY <1>10, <2>1, <2>2
<1> QED BY <1>11, <1>12

\* If freemem promises that many frames, memall takes them.
LEMMA AllFramesTaken ==
    ASSUME NEW m, FramesCounted(m), m.got = <<>>, NEW size \in Nat, size <= m.freemem
    PROVE  FramesTaken(m, size, AllOf(m, size))
<1>1. m \in Mems /\ m.freemem \in Int
  BY DEF FramesCounted, Mems
<1>2. PICK t : t = [n \in 1..size |-> n]
  OBVIOUS
<1>3. PICK g : g = AllFold(m, t)
  OBVIOUS
<1>4. AllOf(m, size) = g[1..size]
  <2>1. DOMAIN [n \in 1..size |-> n] = 1..size
    OBVIOUS
  <2> QED BY <1>2, <1>3, <2>1, AllForm
<1>5. /\ g[1..0] = m
      /\ \A n \in 1..size : g[1..n] = IF g[1..(n - 1)].panic = "none" THEN One(g[1..(n - 1)])
                                      ELSE g[1..(n - 1)]
  BY <1>1, <1>2, <1>3, AllAlong
<1> DEFINE v == [n \in 0..size |-> g[1..n]]
           P == [n \in 0..size |-> {k \in Mems : FramesTaken(m, n, k)}]
<1>6. v[0] \in P[0]
  <2>1. FramesTaken(m, 0, m)
    BY <1>1 DEF FramesTaken, Distinct
  <2> QED BY <1>1, <1>5, <2>1
<1>7. ASSUME NEW n \in 1..size, v[n - 1] \in P[n - 1] PROVE v[n] \in P[n]
  <2>1. n \in 0..size /\ n - 1 \in 0..size /\ n - 1 \in Nat /\ (n - 1) + 1 = n
    OBVIOUS
  <2>2. PICK k : k = g[1..(n - 1)]
    OBVIOUS
  <2>3. k \in Mems /\ FramesTaken(m, n - 1, k)
    BY <1>7, <2>1, <2>2
  <2>4. k.panic = "none" /\ k.freemem = m.freemem - (n - 1)
    BY <2>3 DEF FramesTaken, FramesCounted
  <2>5. k.freemem > 0
    BY <1>1, <2>1, <2>4
  <2>6. v[n] = One(k)
    BY <1>5, <2>1, <2>2, <2>4
  <2>7. FramesTaken(m, (n - 1) + 1, One(k))
    BY <1>1, <2>1, <2>3, <2>5, TakenOneMore
  <2>8. One(k) \in Mems
    BY <2>7 DEF FramesTaken, FramesCounted
  <2> QED BY <2>1, <2>6, <2>7, <2>8
<1>8. v[size] \in P[size]
  <2> HIDE DEF v, P
  <2> QED BY <1>6, <1>7, ChainReaches
<1> QED BY <1>4, <1>8

\* k is m with the first n frames of t given back.
FramesGiven(m, t, n, k) ==
    /\ FramesCounted(k) /\ k.got = m.got
    /\ \A f : f \in k.memmap <=> f \in m.memmap /\ \A i \in 1..n : t[i] # f

\* Giving a frame keeps the types, and one in use is no longer so.
LEMMA GiveKeeps ==
    ASSUME NEW k \in Mems, NEW f \in FramesOf
    PROVE  /\ Give(k, f) \in Mems
           /\ f \in k.memmap /\ FramesCounted(k) =>
                 /\ FramesCounted(Give(k, f)) /\ Give(k, f).got = k.got
                 /\ Give(k, f).memmap = k.memmap \ {f}
<1>1. PICK o : o = Give(k, f)
  OBVIOUS
<1>2. PICK p : p = IF Len(k.pnum) < NICMEM THEN Append(k.pnum, f) ELSE k.pnum
  OBVIOUS
<1>3. k.pnum \in Seq(FramesOf) /\ k.freemem \in Int /\ k.memmap \in SUBSET FramesOf
  BY DEF Mems
<1>4. p \in Seq(FramesOf)
  BY <1>2, <1>3
<1>5. CASE f \notin k.memmap
  <2>1. o = [k EXCEPT !.panic = "dup free"]
    BY <1>1, <1>5 DEF Give
  <2>2. o \in Mems
    BY <2>1 DEF Mems, Panics
  <2> QED BY <1>1, <1>5, <2>2
<1>6. CASE f \in k.memmap
  <2>1. o = [k EXCEPT !.pnum = p, !.memmap = @ \ {f}, !.freemem = @ + 1]
    BY <1>1, <1>2, <1>6 DEF Give
  <2>2. o \in Mems
    <3>1. k.memmap \ {f} \in SUBSET FramesOf /\ k.freemem + 1 \in Int
      BY <1>3
    <3> QED BY <1>4, <2>1, <3>1 DEF Mems
  <2>3. /\ o.pnum = p /\ o.memmap = k.memmap \ {f} /\ o.freemem = k.freemem + 1
        /\ o.got = k.got /\ o.panic = k.panic
    BY <2>1 DEF Mems
  <2>4. ASSUME FramesCounted(k) PROVE FramesCounted(o)
    <3>1. StackOK(o)
      <4>1. CASE Len(k.pnum) < NICMEM
        <5>1. p = Append(k.pnum, f)
          BY <1>2, <4>1
        <5>2. /\ Len(p) = Len(k.pnum) + 1 /\ p[Len(k.pnum) + 1] = f
              /\ \A i \in 1..Len(k.pnum) : p[i] = k.pnum[i]
          BY <1>3, <5>1
        <5>3. PICK n \in Nat : n = Len(k.pnum)
          BY <1>3
        <5>4. \A i \in 1..n : p[i] \notin k.memmap /\ p[i] # f
          BY <1>6, <2>4, <5>2, <5>3 DEF FramesCounted, StackOK
        <5>5. \A i, j \in 1..n : p[i] = p[j] => i = j
          BY <2>4, <5>2, <5>3 DEF FramesCounted, StackOK, Distinct
        <5>6. \A i \in 1..(n + 1) : i \in 1..n \/ i = n + 1
          BY <5>3
        <5>7. Distinct(p)
          BY <5>2, <5>3, <5>4, <5>5, <5>6 DEF Distinct
        <5>8. \A i \in 1..Len(p) : p[i] \notin o.memmap
          BY <2>3, <5>2, <5>3, <5>4, <5>6
        <5> QED BY <2>3, <5>7, <5>8 DEF StackOK
      <4>2. CASE ~(Len(k.pnum) < NICMEM)
        BY <1>2, <2>3, <2>4, <4>2 DEF FramesCounted, StackOK
      <4> QED BY <4>1, <4>2
    <3>2. o.freemem = Cardinality(FramesOf \ o.memmap)
      <4>1. IsFiniteSet(FramesOf \ k.memmap)
        BY FramesAreFinite, FS_Difference
      <4>2. f \notin FramesOf \ k.memmap
        BY <1>6
      <4>3. Cardinality((FramesOf \ k.memmap) \cup {f}) = Cardinality(FramesOf \ k.memmap) + 1
        BY <4>1, <4>2, FS_AddElement
      <4>4. FramesOf \ o.memmap = (FramesOf \ k.memmap) \cup {f}
        BY <1>3, <1>6, <2>3
      <4> QED BY <2>3, <2>4, <4>3, <4>4 DEF FramesCounted
    <3> QED BY <2>2, <2>3, <2>4, <3>1, <3>2 DEF FramesCounted
  <2> QED BY <1>1, <2>2, <2>3, <2>4
<1> QED BY <1>5, <1>6

FreeFold(m, t) ==
    CHOOSE g : g = [s \in SUBSET DOMAIN t |->
                       IF s = {} THEN m ELSE Give(g[s \ {Max(s)}], t[Max(s)])]

\* What memfree makes of m is a value of the function that is folded.
LEMMA FreeForm ==
    ASSUME NEW m, NEW t
    PROVE  FoldLeft(Give, m, t) = FreeFold(m, t)[DOMAIN t]
BY Zenon DEF FoldLeft, MapThenFoldSet, FreeFold

\* That function gives back one frame after the other.
LEMMA FreeAlong ==
    ASSUME NEW m \in Mems, NEW t \in Seq(FramesOf), NEW N, N = Len(t), NEW g, g = FreeFold(m, t)
    PROVE  g[1..0] = m /\ \A n \in 1..N : g[1..n] = Give(g[1..(n - 1)], t[n])
<1> DEFINE step == [p \in (1..N) \X Mems |-> Give(p[2], t[p[1]])]
<1>1. \A n \in 1..N : t[n] \in FramesOf
  OBVIOUS
<1>2. step \in [(1..N) \X Mems -> Mems]
  <2>1. ASSUME NEW p \in (1..N) \X Mems PROVE Give(p[2], t[p[1]]) \in Mems
    <3>1. p[1] \in 1..N /\ p[2] \in Mems
      OBVIOUS
    <3>2. t[p[1]] \in FramesOf
      BY <1>1, <3>1
    <3> QED BY <3>1, <3>2, GiveKeeps
  <2> QED BY <2>1
<1>4. \A n \in 1..N, x \in Mems : step[<<n, x>>] = Give(x, t[n])
  OBVIOUS
<1> HIDE DEF step
<1>5. HasFold(N, m, step, Mems)
  <2>1. N \in Nat
    OBVIOUS
  <2> QED BY <1>2, <2>1, FoldExists
<1>6. PICK e \in [SUBSET (1..N) -> Mems] : Iterates(N, m, step, e)
  BY <1>5, Zenon DEF HasFold
<1>7. DOMAIN t = 1..N /\ N \in Nat
  OBVIOUS
<1>8. \A s \in SUBSET (1..N) :
          e[s] = IF s = {} THEN m ELSE Give(e[s \ {Max(s)}], t[Max(s)])
  <2>1. ASSUME NEW s \in SUBSET (1..N), s # {}
        PROVE  e[s] = Give(e[s \ {Max(s)}], t[Max(s)])
    <3>1. Max(s) \in 1..N
      BY <2>1, <1>7, MaxOfNumbers
    <3>2. s \ {Max(s)} \in SUBSET (1..N)
      OBVIOUS
    <3>3. PICK x \in Mems : x = e[s \ {Max(s)}]
      BY <1>6, <3>2
    <3>4. e[s] = step[<<Max(s), x>>]
      BY <1>6, <2>1, <3>3 DEF Iterates
    <3>5. e[s] = Give(x, t[Max(s)])
      BY <1>4, <3>1, <3>3, <3>4
    <3> QED BY <3>3, <3>5
  <2>2. e[{}] = m
    BY <1>6 DEF Iterates
  <2> QED BY <2>1, <2>2
<1>9. e = [s \in SUBSET (1..N) |-> IF s = {} THEN m ELSE Give(e[s \ {Max(s)}], t[Max(s)])]
  <2>1. e = [s \in SUBSET (1..N) |-> e[s]]
    BY <1>6
  <2> QED BY <1>8, <2>1
<1>10. g = [s \in SUBSET (1..N) |-> IF s = {} THEN m ELSE Give(g[s \ {Max(s)}], t[Max(s)])]
  BY <1>7, <1>9, Zenon DEF FreeFold
<1>11. g[1..0] = m
  <2>1. 1..0 = {} /\ {} \in SUBSET (1..N)
    OBVIOUS
  <2> QED BY <1>10, <2>1
<1>12. ASSUME NEW n \in 1..N PROVE g[1..n] = Give(g[1..(n - 1)], t[n])
  <2>1. 1..n # {} /\ Max(1..n) = n /\ (1..n) \ {n} = 1..(n - 1)
    <3>1. n \in Nat \ {0}
      OBVIOUS
    <3> QED BY <3>1, GreatestOf
  <2>2. 1..n \in SUBSET (1..N)
    OBVIOUS
  <2> QED BY <1>10, <2>1, <2>2
<1> QED BY <1>11, <1>12

\* memfree gives back frames that are in use, each once.
LEMMA AllFramesGiven ==
    ASSUME NEW m, FramesCounted(m), NEW t \in Seq(FramesOf), Distinct(t),
           \A i \in 1..Len(t) : t[i] \in m.memmap
    PROVE  FramesGiven(m, t, Len(t), FoldLeft(Give, m, t))
<1>1. m \in Mems
  BY DEF FramesCounted
<1>2. PICK N \in Nat : N = Len(t)
  OBVIOUS
<1>3. PICK g : g = FreeFold(m, t)
  OBVIOUS
<1>4. FoldLeft(Give, m, t) = g[1..N]
  <2>1. DOMAIN t = 1..N
    BY <1>2
  <2> QED BY <1>3, <2>1, FreeForm
<1>5. g[1..0] = m /\ \A n \in 1..N : g[1..n] = Give(g[1..(n - 1)], t[n])
  BY <1>1, <1>2, <1>3, FreeAlong
<1> DEFINE v == [n \in 0..N |-> g[1..n]]
           P == [n \in 0..N |-> {k \in Mems : FramesGiven(m, t, n, k)}]
<1>6. v[0] \in P[0]
  <2>1. FramesGiven(m, t, 0, m)
    BY <1>1 DEF FramesGiven
  <2> QED BY <1>1, <1>5, <2>1
<1>7. ASSUME NEW n \in 1..N, v[n - 1] \in P[n - 1] PROVE v[n] \in P[n]
  <2>1. n \in 0..N /\ n - 1 \in 0..N /\ n - 1 \in Nat /\ n \in 1..Len(t) /\ n \in Nat
    BY <1>2
  <2>2. PICK k : k = g[1..(n - 1)]
    OBVIOUS
  <2>3. k \in Mems /\ FramesGiven(m, t, n - 1, k)
    BY <1>7, <2>1, <2>2
  <2>4. PICK o : o = Give(k, t[n])
    OBVIOUS
  <2>5. v[n] = o
    BY <1>5, <2>1, <2>2, <2>4
  <2>6. \A i \in 1..(n - 1) : t[i] # t[n]
    <3>1. ASSUME NEW i \in 1..(n - 1) PROVE t[i] # t[n]
      <4>1. i \in 1..Len(t) /\ i # n
        BY <2>1, <1>2
      <4> QED BY <2>1, <4>1 DEF Distinct
    <3> QED BY <3>1
  <2>7. t[n] \in FramesOf /\ t[n] \in k.memmap /\ FramesCounted(k)
    BY <2>1, <2>3, <2>6 DEF FramesGiven
  <2>8. FramesCounted(o) /\ o.got = k.got /\ o.memmap = k.memmap \ {t[n]}
    BY <2>3, <2>4, <2>7, GiveKeeps
  <2>9. ASSUME NEW f PROVE f \in o.memmap <=> f \in m.memmap /\ \A i \in 1..n : t[i] # f
    <3>1. f \in o.memmap <=> f \in m.memmap /\ (\A i \in 1..(n - 1) : t[i] # f) /\ t[n] # f
      BY <2>3, <2>8 DEF FramesGiven
    <3>2. 1..n = 1..(n - 1) \cup {n}
      BY <2>1
    <3> QED BY <3>1, <3>2
  <2>10. FramesGiven(m, t, n, o)
    BY <2>3, <2>8, <2>9 DEF FramesGiven
  <2>11. o \in Mems
    BY <2>8 DEF FramesCounted
  <2> QED BY <2>1, <2>5, <2>10, <2>11
<1>8. v[N] \in P[N]
  <2> HIDE DEF v, P
  <2> QED BY <1>6, <1>7, ChainReaches
<1> QED BY <1>2, <1>4, <1>8

----------------------------------------------------------------------------
(* Page frames: the accounts agree *)

\* The frames of the holders are those in use, each once.
HeldOnce(fr, used) ==
    /\ fr \in [FrameHolders -> Seq(FramesOf)]
    /\ \A h \in FrameHolders : Distinct(fr[h]) /\ \A i \in 1..Len(fr[h]) : fr[h][i] \in used
    /\ \A f \in used : \E h \in FrameHolders : \E i \in 1..Len(fr[h]) : fr[h][i] = f
    /\ \A h, g \in FrameHolders :
          \A i \in 1..Len(fr[h]), j \in 1..Len(fr[g]) : fr[h][i] = fr[g][j] => h = g

\* The invariant: between the calls nothing has been got that is not held.
MemoryInv == FramesCounted(mem) /\ mem.got = <<>> /\ HeldOnce(frames, mem.memmap)

\* The invariant implies that the accounts agree.
LEMMA InvIsAccounted == ASSUME MemoryInv PROVE MemoryAccounted
<1>1. /\ FramesCounted(mem) /\ HeldOnce(frames, mem.memmap) /\ mem \in Mems
      /\ frames \in [FrameHolders -> Seq(FramesOf)]
  BY DEF MemoryInv, FramesCounted, HeldOnce
<1>2. ASSUME NEW s \in Seq(FramesOf)
      PROVE  /\ \A f : f \in Range(s) <=> \E i \in 1..Len(s) : s[i] = f
             /\ Distinct(s) => IsInjective(s)
  <2>1. DOMAIN s = 1..Len(s)
    OBVIOUS
  <2>2. Distinct(s) => IsInjective(s)
    BY InjectiveSeq DEF Distinct
  <2>3. Range(s) = {s[i] : i \in DOMAIN s}
    BY Zenon DEF Range
  <2>4. \A f : f \in Range(s) <=> \E i \in 1..Len(s) : s[i] = f
    BY <2>1, <2>3
  <2> QED BY <2>2, <2>4
<1>3. \A h \in FrameHolders : frames[h] \in Seq(FramesOf)
  BY <1>1
<1>4. mem.memmap = UNION {Range(frames[h]) : h \in FrameHolders}
  <2>1. ASSUME NEW f
        PROVE  f \in mem.memmap <=>
                  \E h \in FrameHolders : \E i \in 1..Len(frames[h]) : frames[h][i] = f
    <3>1. PICK used : used = mem.memmap
      OBVIOUS
    <3>2. HeldOnce(frames, used)
      BY <1>1, <3>1
    <3>3. f \in used <=> \E h \in FrameHolders : \E i \in 1..Len(frames[h]) : frames[h][i] = f
      BY <3>2 DEF HeldOnce
    <3> QED BY <3>1, <3>3
  <2>2. ASSUME NEW f
        PROVE  f \in UNION {Range(frames[h]) : h \in FrameHolders} <=>
                  \E h \in FrameHolders : f \in Range(frames[h])
    OBVIOUS
  <2>3. ASSUME NEW f, NEW h \in FrameHolders
        PROVE  f \in Range(frames[h]) <=> \E i \in 1..Len(frames[h]) : frames[h][i] = f
    BY <1>2, <1>3
  <2>4. \A f : f \in mem.memmap <=> f \in UNION {Range(frames[h]) : h \in FrameHolders}
    BY <2>1, <2>2, <2>3
  <2> QED BY <2>4
<1>5. \A h \in FrameHolders : IsInjective(frames[h])
  BY <1>1, <1>2, <1>3 DEF HeldOnce
<1>6. ASSUME NEW h \in FrameHolders, NEW g \in FrameHolders, h # g
      PROVE  Range(frames[h]) \cap Range(frames[g]) = {}
  <2>1. ASSUME NEW f, f \in Range(frames[h]), f \in Range(frames[g]) PROVE FALSE
    <3>1. PICK i \in 1..Len(frames[h]) : frames[h][i] = f
      BY <1>2, <1>3, <2>1
    <3>2. PICK j \in 1..Len(frames[g]) : frames[g][j] = f
      BY <1>2, <1>3, <2>1
    <3> QED BY <1>1, <1>6, <3>1, <3>2 DEF HeldOnce
  <2> QED BY <2>1
<1>7. IsInjective(mem.pnum) /\ Range(mem.pnum) \subseteq FramesOf \ mem.memmap
  <2>1. PICK s : s = mem.pnum
    OBVIOUS
  <2>2. s \in Seq(FramesOf)
    BY <1>1, <2>1 DEF Mems
  <2>3. Distinct(s) /\ \A i \in 1..Len(s) : s[i] \notin mem.memmap
    BY <1>1, <2>1 DEF FramesCounted, StackOK
  <2>4. \A i \in 1..Len(s) : s[i] \in FramesOf
    BY <2>2
  <2>5. Range(s) \subseteq FramesOf \ mem.memmap
    BY <1>2, <2>2, <2>3, <2>4
  <2>6. IsInjective(s)
    BY <1>2, <2>2, <2>3
  <2> QED BY <2>1, <2>5, <2>6
<1>8. mem.panic = "none" /\ mem.freemem = Cardinality(FramesOf \ mem.memmap)
  BY <1>1 DEF FramesCounted
<1> QED BY <1>4, <1>5, <1>6, <1>7, <1>8 DEF MemoryAccounted

\* The first states satisfy the invariant.
LEMMA MemoryInitially == ASSUME MemoryInit PROVE MemoryInv
<1>1. mem = [memmap |-> {}, pnum |-> <<>>, lastpos |-> maxfree,
             freemem |-> FrameSpan, got |-> <<>>, panic |-> "none"]
  BY DEF MemoryInit, FrameSpan
<1>2. mem \in Mems
  BY <1>1, FrameSpanIsMore DEF Mems, Panics
<1>3. StackOK(mem)
  BY <1>1 DEF StackOK, Distinct
<1>4. mem.freemem = Cardinality(FramesOf \ mem.memmap)
  <2>1. Cardinality(FramesOf) = FrameSpan
    <3>1. firstfree \in Int /\ maxfree - 1 \in Int /\ ~(firstfree > maxfree - 1)
      BY FrameSpanIsMore DEF FrameSpan
    <3>2. Cardinality(firstfree..(maxfree - 1)) = (maxfree - 1) - firstfree + 1
      BY <3>1, FS_Interval
    <3>3. (maxfree - 1) - firstfree + 1 = FrameSpan
      BY FrameSpanIsMore DEF FrameSpan
    <3> QED BY <3>2, <3>3 DEF FramesOf
  <2>2. FramesOf \ {} = FramesOf
    OBVIOUS
  <2> QED BY <1>1, <2>1, <2>2
<1>5. frames = [h \in FrameHolders |-> <<>>]
  BY DEF MemoryInit
<1>6. HeldOnce(frames, {})
  BY <1>5 DEF HeldOnce, Distinct
<1> QED BY <1>1, <1>2, <1>3, <1>4, <1>6 DEF MemoryInv, FramesCounted

\* memall keeps it: the frames it takes were in nobody's hands.
LEMMA memallStep ==
    ASSUME MemoryInv, NEW h \in FrameHolders, NEW size \in 1..MaxHeld, memall(h, size),
           size <= mem.freemem
    PROVE  MemoryInv'
<1>1. FramesCounted(mem) /\ mem.got = <<>> /\ HeldOnce(frames, mem.memmap) /\ mem.freemem \in Int
  BY DEF MemoryInv, FramesCounted, Mems
<1>2. size \in Nat
  BY MemoryAssumption
<1>3. PICK k : k = AllOf(mem, size)
  OBVIOUS
<1>4. mem' = [k EXCEPT !.got = <<>>] /\ frames' = [frames EXCEPT ![h] = @ \o k.got]
  <2>1. ~(size > mem.freemem)
    BY <1>1, <1>2
  <2> QED BY <1>3, <2>1, Zenon DEF memall, AllOf
<1>5. FramesTaken(mem, size, k)
  BY <1>1, <1>2, <1>3, AllFramesTaken
<1>6. PICK s : s = k.got
  OBVIOUS
<1>7. FramesCounted(k) /\ k \in Mems /\ s \in Seq(FramesOf) /\ Len(s) = size
  BY <1>5, <1>6 DEF FramesTaken, FramesCounted, Mems
<1>8. mem' \in Mems
  <2>1. <<>> \in Seq(FramesOf)
    OBVIOUS
  <2> QED BY <1>4, <1>7, <2>1 DEF Mems
<1>9. /\ mem'.memmap = k.memmap /\ mem'.pnum = k.pnum /\ mem'.freemem = k.freemem
      /\ mem'.panic = k.panic /\ mem'.got = <<>>
  BY <1>4, <1>7 DEF Mems
<1>10. FramesCounted(mem')
  BY <1>7, <1>8, <1>9 DEF FramesCounted, StackOK
<1>11. PICK u : u = frames[h]
  OBVIOUS
<1>12. u \in Seq(FramesOf) /\ Distinct(u) /\ \A i \in 1..Len(u) : u[i] \in mem.memmap
  BY <1>1, <1>11 DEF HeldOnce
<1>13. PICK w : w = u \o s
  OBVIOUS
<1>14. PICK n \in Nat : n = Len(u)
  BY <1>12
<1>15. /\ w \in Seq(FramesOf) /\ Len(w) = n + size
       /\ \A i \in 1..(n + size) : w[i] = IF i <= n THEN u[i] ELSE s[i - n]
  BY <1>7, <1>12, <1>13, <1>14, ConcatProperties
<1>16. \A i \in 1..(n + size) : i \in 1..n \/ (i - n \in 1..size /\ ~(i <= n))
  BY <1>2, <1>14
<1>17. \A i \in 1..size : s[i] \notin mem.memmap
  BY <1>5, <1>6 DEF FramesTaken
<1>18. \A f : f \in k.memmap <=> f \in mem.memmap \/ \E i \in 1..size : s[i] = f
  BY <1>5, <1>6 DEF FramesTaken
<1>19. PICK fr : fr = frames'
  OBVIOUS
<1>20. /\ fr \in [FrameHolders -> Seq(FramesOf)]
       /\ fr[h] = w /\ \A g \in FrameHolders : g # h => fr[g] = frames[g]
  BY <1>1, <1>4, <1>6, <1>11, <1>13, <1>15, <1>19 DEF HeldOnce
<1>21. Distinct(w)
  <2>1. ASSUME NEW i \in 1..(n + size), NEW j \in 1..(n + size), w[i] = w[j] PROVE i = j
    <3>1. i \in Int /\ j \in Int
      OBVIOUS
    <3>2. CASE i \in 1..n /\ j \in 1..n
      <4>1. u[i] = u[j]
        BY <1>15, <2>1, <3>2
      <4> QED BY <1>12, <1>14, <3>2, <4>1 DEF Distinct
    <3>3. CASE i \in 1..n /\ ~(j <= n) /\ j - n \in 1..size
      <4>1. u[i] = s[j - n]
        BY <1>15, <2>1, <3>3
      <4> QED BY <1>12, <1>14, <1>17, <3>3, <4>1
    <3>4. CASE ~(i <= n) /\ i - n \in 1..size /\ j \in 1..n
      <4>1. s[i - n] = u[j]
        BY <1>15, <2>1, <3>4
      <4> QED BY <1>12, <1>14, <1>17, <3>4, <4>1
    <3>5. CASE ~(i <= n) /\ i - n \in 1..size /\ ~(j <= n) /\ j - n \in 1..size
      <4>1. s[i - n] = s[j - n]
        BY <1>15, <2>1, <3>5
      <4>2. \A x, y \in 1..size : s[x] = s[y] => x = y
        BY <1>5, <1>6, <1>7 DEF FramesTaken, Distinct
      <4>3. i - n = j - n
        BY <3>5, <4>1, <4>2
      <4> QED BY <1>14, <3>1, <4>3
    <3> QED BY <1>16, <3>2, <3>3, <3>4, <3>5
  <2> QED BY <1>15, <2>1 DEF Distinct
<1>22. \A i \in 1..Len(w) :
           w[i] \in k.memmap /\ (w[i] \in mem.memmap => w[i] \in {u[x] : x \in 1..n})
  <2>1. ASSUME NEW i \in 1..(n + size)
        PROVE  w[i] \in k.memmap /\ (w[i] \in mem.memmap => w[i] \in {u[x] : x \in 1..n})
    <3>1. CASE i \in 1..n
      BY <1>12, <1>14, <1>15, <1>18, <3>1
    <3>2. CASE ~(i <= n) /\ i - n \in 1..size
      <4>1. w[i] = s[i - n]
        BY <1>15, <3>2
      <4> QED BY <1>17, <1>18, <3>2, <4>1
    <3> QED BY <1>16, <3>1, <3>2
  <2> QED BY <1>15, <2>1
<1>23. \A g \in FrameHolders : g # h =>
           \A i \in 1..Len(fr[g]) : fr[g][i] \in mem.memmap /\ fr[g][i] \notin {u[x] : x \in 1..n}
  <2>1. ASSUME NEW g \in FrameHolders, g # h, NEW i \in 1..Len(frames[g])
        PROVE  frames[g][i] \in mem.memmap /\ frames[g][i] \notin {u[x] : x \in 1..n}
    <3>1. \A x \in 1..Len(frames[h]) : frames[g][i] # frames[h][x]
      BY <1>1, <2>1 DEF HeldOnce
    <3>2. frames[g][i] \in mem.memmap
      BY <1>1, <2>1 DEF HeldOnce
    <3> QED BY <1>11, <1>14, <3>1, <3>2
  <2> QED BY <1>20, <2>1
<1>24. \A f \in k.memmap : \E g \in FrameHolders : \E i \in 1..Len(fr[g]) : fr[g][i] = f
  <2>1. ASSUME NEW f \in k.memmap
        PROVE  \E g \in FrameHolders : \E i \in 1..Len(fr[g]) : fr[g][i] = f
    <3>1. CASE f \in mem.memmap
      <4>1. PICK g \in FrameHolders : \E i \in 1..Len(frames[g]) : frames[g][i] = f
        BY <1>1, <3>1 DEF HeldOnce
      <4>2. PICK i \in 1..Len(frames[g]) : frames[g][i] = f
        BY <4>1
      <4>3. CASE g = h
        <5>1. i \in 1..n /\ i \in 1..Len(w) /\ w[i] = u[i]
          BY <1>2, <1>11, <1>14, <1>15, <4>2, <4>3
        <5> QED BY <1>11, <1>20, <4>2, <4>3, <5>1
      <4>4. CASE g # h
        BY <1>20, <4>2, <4>4
      <4> QED BY <4>3, <4>4
    <3>2. CASE f \notin mem.memmap
      <4>1. PICK i \in 1..size : s[i] = f
        BY <1>18, <3>2
      <4>2. n + i \in 1..(n + size) /\ ~(n + i <= n) /\ (n + i) - n = i
        BY <1>2, <1>14
      <4>3. w[n + i] = f
        BY <1>15, <4>1, <4>2
      <4> QED BY <1>15, <1>20, <4>2, <4>3
    <3> QED BY <3>1, <3>2
  <2> QED BY <2>1
<1>25. HeldOnce(fr, k.memmap)
  <2>1. ASSUME NEW g \in FrameHolders
        PROVE  Distinct(fr[g]) /\ \A i \in 1..Len(fr[g]) : fr[g][i] \in k.memmap
    <3>1. CASE g = h
      BY <1>20, <1>21, <1>22, <3>1
    <3>2. CASE g # h
      <4>1. Distinct(fr[g])
        BY <1>1, <1>20, <3>2 DEF HeldOnce
      <4> QED BY <1>18, <1>23, <3>2, <4>1
    <3> QED BY <3>1, <3>2
  <2>2. ASSUME NEW a \in FrameHolders, NEW g \in FrameHolders, a # g,
               NEW i \in 1..Len(fr[a]), NEW j \in 1..Len(fr[g]), fr[a][i] = fr[g][j]
        PROVE  FALSE
    <3>1. CASE a = h
      BY <1>20, <1>22, <1>23, <2>2, <3>1
    <3>2. CASE g = h
      BY <1>20, <1>22, <1>23, <2>2, <3>2
    <3>3. CASE a # h /\ g # h
      BY <1>1, <1>20, <2>2, <3>3 DEF HeldOnce
    <3> QED BY <3>1, <3>2, <3>3
  <2> QED BY <1>20, <1>24, <2>1, <2>2 DEF HeldOnce
<1> QED BY <1>9, <1>10, <1>19, <1>25 DEF MemoryInv

\* memfree keeps it: what it gives back is all the holder gives up.
LEMMA memfreeStep ==
    ASSUME MemoryInv, NEW h \in FrameHolders, NEW m \in 1..Len(frames[h]),
           NEW n \in 1..Len(frames[h]), m <= n, memfree(h, m, n)
    PROVE  MemoryInv'
<1>1. FramesCounted(mem) /\ mem.got = <<>> /\ HeldOnce(frames, mem.memmap)
  BY DEF MemoryInv
<1>2. PICK u : u = frames[h]
  OBVIOUS
<1>3. u \in Seq(FramesOf) /\ Distinct(u) /\ \A i \in 1..Len(u) : u[i] \in mem.memmap
  BY <1>1, <1>2 DEF HeldOnce
<1>4. PICK N \in Nat : N = Len(u)
  BY <1>3
<1>5. m \in 1..N /\ n \in 1..N /\ m <= n /\ m \in Int /\ n \in Int
  BY <1>2, <1>4
<1>6. PICK t : t = SubSeq(u, m, n)
  OBVIOUS
<1>7. /\ t \in Seq(FramesOf) /\ Len(t) = n - m + 1
      /\ \A i \in 1..(n - m + 1) : t[i] = u[m + i - 1]
  BY <1>3, <1>4, <1>5, <1>6, SubSeqProperties
<1>8. \A i \in 1..(n - m + 1) : m + i - 1 \in 1..N /\ m <= m + i - 1 /\ m + i - 1 <= n
  BY <1>5
<1>9. Distinct(t)
  <2>1. ASSUME NEW i \in 1..(n - m + 1), NEW j \in 1..(n - m + 1), t[i] = t[j] PROVE i = j
    <3>1. m + i - 1 = m + j - 1
      <4>1. u[m + i - 1] = u[m + j - 1]
        BY <1>7, <2>1
      <4> QED BY <1>3, <1>4, <1>8, <4>1 DEF Distinct
    <3>2. i \in Int /\ j \in Int
      OBVIOUS
    <3> QED BY <1>5, <3>1, <3>2
  <2> QED BY <1>7, <2>1 DEF Distinct
<1>10. \A i \in 1..Len(t) : t[i] \in mem.memmap
  BY <1>3, <1>4, <1>7, <1>8
<1>11. PICK k : k = FoldLeft(Give, mem, t)
  OBVIOUS
<1>12. FramesGiven(mem, t, Len(t), k)
  BY <1>1, <1>7, <1>9, <1>10, <1>11, AllFramesGiven
<1>13. mem' = k
  BY <1>2, <1>6, <1>11, Zenon DEF memfree
<1>14. FramesCounted(k) /\ k.got = <<>>
  BY <1>1, <1>12 DEF FramesGiven
<1>15. \A f : f \in k.memmap <=> f \in mem.memmap /\ \A i \in m..n : u[i] # f
  <2>1. ASSUME NEW f PROVE (\A i \in 1..Len(t) : t[i] # f) <=> (\A i \in m..n : u[i] # f)
    <3>1. ASSUME \A i \in 1..Len(t) : t[i] # f, NEW i \in m..n PROVE u[i] # f
      <4>1. (i - m + 1) \in 1..(n - m + 1) /\ m + (i - m + 1) - 1 = i
        BY <1>5
      <4>2. t[i - m + 1] = u[m + (i - m + 1) - 1]
        BY <1>7, <4>1
      <4>3. t[i - m + 1] = u[i]
        BY <4>1, <4>2
      <4> QED BY <1>7, <3>1, <4>1, <4>3
    <3>2. ASSUME \A i \in m..n : u[i] # f, NEW i \in 1..Len(t) PROVE t[i] # f
      <4>1. m + i - 1 \in m..n /\ t[i] = u[m + i - 1]
        BY <1>5, <1>7, <1>8
      <4> QED BY <3>2, <4>1
    <3> QED BY <3>1, <3>2
  <2> QED BY <1>12, <2>1 DEF FramesGiven
<1>16. PICK w : w = SubSeq(u, 1, m - 1) \o SubSeq(u, n + 1, Len(u))
  OBVIOUS
<1>17. /\ w \in Seq(FramesOf) /\ Len(w) = (m - 1) + (N - n)
       /\ \A i \in 1..((m - 1) + (N - n)) : w[i] = IF i <= m - 1 THEN u[i] ELSE u[i + (n - m) + 1]
  <2>1. PICK a : a = SubSeq(u, 1, m - 1)
    OBVIOUS
  <2>2. a \in Seq(FramesOf) /\ Len(a) = m - 1 /\ \A i \in 1..(m - 1) : a[i] = u[i]
    BY <1>3, <1>4, <1>5, <2>1, SubSeqProperties
  <2>3. PICK b : b = SubSeq(u, n + 1, N)
    OBVIOUS
  <2>4. b \in Seq(FramesOf) /\ Len(b) = N - n /\ \A i \in 1..(N - n) : b[i] = u[n + i]
    <3>1. CASE n = N
      <4>1. n + 1 \in Nat \ {0} /\ n + 1 > N
        BY <1>5, <3>1
      <4>2. b = <<>>
        BY <1>3, <1>4, <2>3, <4>1, SubSeqProperties
      <4>3. N - n = 0
        BY <1>4, <3>1
      <4> QED BY <4>2, <4>3
    <3>2. CASE n # N
      <4>1. n + 1 \in 1..N /\ N - (n + 1) + 1 = N - n
        BY <1>4, <1>5, <3>2
      <4>2. /\ b \in Seq(FramesOf) /\ Len(b) = N - (n + 1) + 1
            /\ \A i \in 1..(N - (n + 1) + 1) : b[i] = u[(n + 1) + i - 1]
        BY <1>3, <1>4, <2>3, <4>1, SubSeqProperties
      <4>3. \A i \in 1..(N - n) : (n + 1) + i - 1 = n + i
        BY <1>5
      <4> QED BY <4>1, <4>2, <4>3
    <3> QED BY <3>1, <3>2
  <2>5. /\ w \in Seq(FramesOf) /\ Len(w) = (m - 1) + (N - n)
        /\ \A i \in 1..((m - 1) + (N - n)) : w[i] = IF i <= m - 1 THEN a[i] ELSE b[i - (m - 1)]
    <3>1. w = a \o b
      BY <1>4, <1>16, <2>1, <2>3
    <3>2. /\ a \o b \in Seq(FramesOf)
          /\ Len(a \o b) = Len(a) + Len(b)
          /\ \A i \in 1..(Len(a) + Len(b)) :
                (a \o b)[i] = IF i <= Len(a) THEN a[i] ELSE b[i - Len(a)]
      BY <2>2, <2>4, ConcatProperties
    <3>3. Len(a) = m - 1 /\ Len(a) + Len(b) = (m - 1) + (N - n)
      BY <2>2, <2>4
    <3> QED BY <3>1, <3>2, <3>3
  <2>6. ASSUME NEW i \in 1..((m - 1) + (N - n))
        PROVE  w[i] = IF i <= m - 1 THEN u[i] ELSE u[i + (n - m) + 1]
    <3>1. CASE i <= m - 1
      <4>1. i \in 1..(m - 1)
        BY <1>5, <3>1
      <4> QED BY <2>2, <2>5, <3>1, <4>1
    <3>2. CASE ~(i <= m - 1)
      <4>1. i - (m - 1) \in 1..(N - n) /\ n + (i - (m - 1)) = i + (n - m) + 1
        BY <1>4, <1>5, <3>2
      <4>2. b[i - (m - 1)] = u[n + (i - (m - 1))]
        BY <2>4, <4>1
      <4> QED BY <2>5, <3>2, <4>1, <4>2
    <3> QED BY <3>1, <3>2
  <2> QED BY <2>5, <2>6
<1> DEFINE at(i) == IF i <= m - 1 THEN i ELSE i + (n - m) + 1
<1>18. ASSUME NEW i \in 1..Len(w)
       PROVE  at(i) \in 1..N /\ at(i) \notin m..n /\ w[i] = u[at(i)]
  <2>1. i \in 1..((m - 1) + (N - n))
    BY <1>17
  <2>2. CASE i <= m - 1
    <3>1. at(i) = i /\ i \in 1..N /\ i \notin m..n
      BY <1>4, <1>5, <2>1, <2>2
    <3> QED BY <1>17, <2>1, <2>2, <3>1
  <2>3. CASE ~(i <= m - 1)
    <3>1. at(i) = i + (n - m) + 1 /\ i + (n - m) + 1 \in 1..N /\ i + (n - m) + 1 \notin m..n
      BY <1>4, <1>5, <2>1, <2>3
    <3> QED BY <1>17, <2>1, <2>3, <3>1
  <2> QED BY <2>2, <2>3
<1>19. ASSUME NEW i \in 1..Len(w), NEW j \in 1..Len(w), at(i) = at(j) PROVE i = j
  <2>1. i \in Int /\ j \in Int
    OBVIOUS
  <2> QED BY <1>5, <1>19, <2>1
<1>20. ASSUME NEW x \in 1..N, x \notin m..n PROVE \E i \in 1..Len(w) : w[i] = u[x]
  <2>1. CASE x < m
    <3>1. x \in 1..Len(w) /\ x \in 1..((m - 1) + (N - n)) /\ x <= m - 1
      BY <1>4, <1>5, <1>17, <2>1
    <3>2. w[x] = u[x]
      BY <1>17, <3>1
    <3> QED BY <3>1, <3>2
  <2>2. CASE ~(x < m)
    <3> DEFINE i == x - (n - m) - 1
    <3>1. i \in 1..Len(w) /\ i \in 1..((m - 1) + (N - n)) /\ ~(i <= m - 1) /\ i + (n - m) + 1 = x
      BY <1>4, <1>5, <1>17, <1>20, <2>2
    <3> HIDE DEF i
    <3>2. w[i] = u[x]
      BY <1>17, <3>1
    <3> QED BY <3>1, <3>2
  <2> QED BY <2>1, <2>2
<1> HIDE DEF at
<1>21. PICK fr : fr = frames'
  OBVIOUS
<1>22. /\ fr \in [FrameHolders -> Seq(FramesOf)]
       /\ fr[h] = w /\ \A g \in FrameHolders : g # h => fr[g] = frames[g]
  <2>1. frames' = [frames EXCEPT ![h] = w]
    BY <1>2, <1>16 DEF memfree
  <2> QED BY <1>1, <1>17, <1>21, <2>1 DEF HeldOnce
<1>23. Distinct(w)
  <2>1. ASSUME NEW i \in 1..Len(w), NEW j \in 1..Len(w), w[i] = w[j] PROVE i = j
    <3>1. u[at(i)] = u[at(j)] /\ at(i) \in 1..N /\ at(j) \in 1..N
      BY <1>18, <2>1
    <3>2. at(i) = at(j)
      BY <1>3, <1>4, <3>1 DEF Distinct
    <3> QED BY <1>19, <3>2
  <2> QED BY <2>1 DEF Distinct
<1>24. ASSUME NEW i \in 1..Len(w) PROVE w[i] \in k.memmap /\ \E x \in 1..N : w[i] = u[x]
  <2>1. at(i) \in 1..N /\ at(i) \notin m..n /\ w[i] = u[at(i)]
    BY <1>18
  <2>2. \A x \in m..n : x \in 1..N /\ u[x] # w[i]
    <3>1. ASSUME NEW x \in m..n PROVE x \in 1..N /\ u[x] # w[i]
      <4>1. x \in 1..N
        BY <1>4, <1>5
      <4> QED BY <1>3, <1>4, <2>1, <4>1 DEF Distinct
    <3> QED BY <3>1
  <2>3. w[i] \in mem.memmap
    BY <1>3, <1>4, <2>1
  <2> QED BY <1>15, <2>1, <2>2, <2>3
<1>25. ASSUME NEW g \in FrameHolders, g # h, NEW i \in 1..Len(fr[g])
       PROVE  fr[g][i] \in k.memmap /\ \A x \in 1..N : u[x] # fr[g][i]
  <2>1. fr[g] = frames[g]
    BY <1>22, <1>25
  <2>2. \A x \in 1..N : u[x] # fr[g][i]
    BY <1>1, <1>2, <1>4, <1>25, <2>1 DEF HeldOnce
  <2>3. fr[g][i] \in mem.memmap
    BY <1>1, <1>25, <2>1 DEF HeldOnce
  <2>4. \A x \in m..n : x \in 1..N
    BY <1>4, <1>5
  <2> QED BY <1>15, <2>2, <2>3, <2>4
<1>26. ASSUME NEW f \in k.memmap PROVE \E g \in FrameHolders : \E i \in 1..Len(fr[g]) : fr[g][i] = f
  <2>1. f \in mem.memmap /\ \A x \in m..n : u[x] # f
    BY <1>15
  <2>2. PICK g \in FrameHolders : \E i \in 1..Len(frames[g]) : frames[g][i] = f
    BY <1>1, <2>1 DEF HeldOnce
  <2>3. PICK i \in 1..Len(frames[g]) : frames[g][i] = f
    BY <2>2
  <2>4. CASE g = h
    <3>1. i \in 1..N /\ u[i] = f /\ i \notin m..n
      BY <1>2, <1>4, <2>1, <2>3, <2>4
    <3>2. \E j \in 1..Len(w) : w[j] = f
      BY <1>20, <3>1
    <3> QED BY <1>22, <3>2
  <2>5. CASE g # h
    BY <1>22, <2>3, <2>5
  <2> QED BY <2>4, <2>5
<1>27. HeldOnce(fr, k.memmap)
  <2>1. ASSUME NEW g \in FrameHolders
        PROVE  Distinct(fr[g]) /\ \A i \in 1..Len(fr[g]) : fr[g][i] \in k.memmap
    <3>1. CASE g = h
      BY <1>22, <1>23, <1>24, <3>1
    <3>2. CASE g # h
      <4>1. Distinct(fr[g])
        BY <1>1, <1>22, <3>2 DEF HeldOnce
      <4> QED BY <1>25, <3>2, <4>1
    <3> QED BY <3>1, <3>2
  <2>2. ASSUME NEW a \in FrameHolders, NEW g \in FrameHolders, a # g,
               NEW i \in 1..Len(fr[a]), NEW j \in 1..Len(fr[g]), fr[a][i] = fr[g][j]
        PROVE  FALSE
    <3>1. CASE a = h
      <4>1. PICK x \in 1..N : fr[a][i] = u[x]
        BY <1>22, <1>24, <3>1
      <4> QED BY <1>25, <2>2, <3>1, <4>1
    <3>2. CASE g = h
      <4>1. PICK x \in 1..N : fr[g][j] = u[x]
        BY <1>22, <1>24, <3>2
      <4> QED BY <1>25, <2>2, <3>2, <4>1
    <3>3. CASE a # h /\ g # h
      BY <1>1, <1>22, <2>2, <3>3 DEF HeldOnce
    <3> QED BY <3>1, <3>2, <3>3
  <2> QED BY <1>22, <1>26, <2>1, <2>2 DEF HeldOnce
<1> QED BY <1>13, <1>14, <1>21, <1>27 DEF MemoryInv

\* The types, the stack and the counts are invariant for every number of frames, of
\* holders and of places on the stack of malloc.c.
THEOREM MemoryInvariant == MemorySpec => []MemoryInv
<1>1. MemoryInit => MemoryInv
  BY MemoryInitially
<1>2. ASSUME MemoryInv, [MemoryNext]_memoryVars PROVE MemoryInv'
  <2>1. CASE UNCHANGED memoryVars
    BY <1>2, <2>1 DEF memoryVars, MemoryInv
  <2>2. ASSUME NEW h \in FrameHolders, NEW size \in 1..MaxHeld, memall(h, size)
        PROVE  MemoryInv'
    <3>1. CASE size <= mem.freemem
      BY <1>2, <2>2, <3>1, memallStep
    <3>2. CASE ~(size <= mem.freemem)
      <4>1. size \in Int /\ mem.freemem \in Int
        BY <1>2, MemoryAssumption DEF MemoryInv, FramesCounted, Mems
      <4>2. size > mem.freemem
        BY <3>2, <4>1
      <4>3. UNCHANGED memoryVars
        BY <2>2, <4>2 DEF memall
      <4> QED BY <1>2, <4>3 DEF memoryVars, MemoryInv
    <3> QED BY <3>1, <3>2
  <2>3. ASSUME NEW h \in FrameHolders, NEW m \in 1..Len(frames[h]),
               NEW n \in 1..Len(frames[h]), m <= n, memfree(h, m, n)
        PROVE  MemoryInv'
    BY <1>2, <2>3, memfreeStep
  <2> QED BY <1>2, <2>1, <2>2, <2>3 DEF MemoryNext
<1> QED BY <1>1, <1>2, PTL DEF MemorySpec

\* The three accounts of free memory of malloc.c agree: memall finds the frames that
\* freemem promises, and none of its panics comes.
THEOREM MemoryTheorem == MemorySpec => []MemoryAccounted
<1>1. MemoryInv => MemoryAccounted
  BY InvIsAccounted
<1> QED BY <1>1, MemoryInvariant, PTL

----------------------------------------------------------------------------
(* The magnetic tape: the driver knows where the head is *)

HtWords == {"closed", "NOP", "open", "close", "WEOF", "SREV", "REW", "io"}

HtRequests == [com : HtWords, blkno : Nat, read : BOOLEAN]

HtStates == {"none", "SIO", "SSFOR", "SSREV", "SRETRY", "SCOM"}

HtDrivers == [q : Seq(HtRequests), active : HtStates, errcnt : Nat, openf : Int, blkno : Int,
              nxrec : Int, written : BOOLEAN, fc : Int]

\* The types, and the head is on the tape.
HtTypes ==
    /\ tape \in Seq({"rec", "mark"}) /\ head \in 0..Len(tape) /\ base \in Nat
    /\ ht \in HtDrivers /\ opener \in Seq(HtWords)

\* Where the head is, in each state of the drive.
HeadKnown ==
    /\ ht.active = "none" => head = base + ht.blkno
    /\ ht.active = "SIO" => head = base + Bp.blkno /\ ht.blkno = Bp.blkno
    /\ ht.active \in {"SSFOR", "SSREV"} => head + ht.fc = base + Bp.blkno
    /\ ht.active = "SRETRY" => head = base + Bp.blkno

\* The invariant: a drive that does something does it for a request.
HtInv ==
    /\ HtTypes
    /\ ht.active # "none" => ~hstart /\ ht.q # <<>>
    /\ ~strayed => HeadKnown

\* The fields of the driver.
LEMMA HtFields ==
    ASSUME NEW s \in HtDrivers
    PROVE  /\ s.q \in Seq(HtRequests) /\ s.active \in HtStates /\ s.errcnt \in Nat
           /\ s.openf \in Int /\ s.blkno \in Int /\ s.nxrec \in Int /\ s.written \in BOOLEAN
           /\ s.fc \in Int
BY DEF HtDrivers

\* Fields of the driver that do not say what the drive does are changed.
SetOpenf(s, o, x) == o = [s EXCEPT !.openf = x]
SetEnd(s, o, x) == o = [s EXCEPT !.nxrec = x, !.written = TRUE]
SetStart(s, o, x) == o = [s EXCEPT !.blkno = 0, !.nxrec = x, !.written = FALSE]

\* What the driver does is what it did.
SameWork(s, o) == o \in HtDrivers /\ o.q = s.q /\ o.active = s.active /\ o.fc = s.fc

\* Such a change keeps the driver's types and its work.
LEMMA SetOpenfKeeps ==
    ASSUME NEW s \in HtDrivers, NEW o, NEW x \in Int, SetOpenf(s, o, x)
    PROVE  SameWork(s, o) /\ o.blkno = s.blkno
<1>1. o \in HtDrivers
  BY DEF SetOpenf, HtDrivers
<1>2. o.q = s.q /\ o.active = s.active /\ o.fc = s.fc /\ o.blkno = s.blkno
  BY DEF SetOpenf, HtDrivers
<1> QED BY <1>1, <1>2 DEF SameWork

\* Such a change keeps the driver's types and its work.
LEMMA SetEndKeeps ==
    ASSUME NEW s \in HtDrivers, NEW o, NEW x \in Int, SetEnd(s, o, x)
    PROVE  SameWork(s, o) /\ o.blkno = s.blkno
<1>1. o \in HtDrivers
  BY DEF SetEnd, HtDrivers
<1>2. o.q = s.q /\ o.active = s.active /\ o.fc = s.fc /\ o.blkno = s.blkno
  BY DEF SetEnd, HtDrivers
<1> QED BY <1>1, <1>2 DEF SameWork

\* Such a change keeps the driver's types and its work.
LEMMA SetStartKeeps ==
    ASSUME NEW s \in HtDrivers, NEW o, NEW x \in Int, SetStart(s, o, x)
    PROVE  SameWork(s, o) /\ o.blkno = 0
<1>1. o \in HtDrivers
  <2>1. 0 \in Int /\ FALSE \in BOOLEAN
    OBVIOUS
  <2>2. o = [s EXCEPT !.blkno = 0, !.nxrec = x, !.written = FALSE]
    BY DEF SetStart
  <2>3. PICK z : z = 0
    OBVIOUS
  <2> QED BY <2>1, <2>2, <2>3 DEF HtDrivers
<1>2. o.q = s.q /\ o.active = s.active /\ o.fc = s.fc /\ o.blkno = 0
  BY DEF SetStart, HtDrivers
<1> QED BY <1>1, <1>2 DEF SameWork

\* The first request is one.
LEMMA HtFirst ==
    ASSUME NEW q \in Seq(HtRequests), q # <<>>
    PROVE  Head(q) \in HtRequests /\ Head(q).blkno \in Nat /\ Head(q).com \in HtWords
           /\ Tail(q) \in Seq(HtRequests)
<1>1. Head(q) \in HtRequests /\ Tail(q) \in Seq(HtRequests)
  OBVIOUS
<1> QED BY <1>1 DEF HtRequests

\* A request that is put in the queue does not come before the first one.
LEMMA EnqueuedKeeps ==
    ASSUME NEW s \in HtDrivers, NEW bp \in HtRequests
    PROVE  /\ Enqueued(s, bp) \in HtDrivers
           /\ Enqueued(s, bp).q # <<>>
           /\ s.q # <<>> => Head(Enqueued(s, bp).q) = Head(s.q)
           /\ Enqueued(s, bp).active = s.active /\ Enqueued(s, bp).blkno = s.blkno
           /\ Enqueued(s, bp).fc = s.fc
<1>1. PICK o : o = Enqueued(s, bp)
  OBVIOUS
<1>2. PICK q : q = Append(s.q, bp)
  OBVIOUS
<1>3. q \in Seq(HtRequests) /\ q # <<>> /\ (s.q # <<>> => Head(q) = Head(s.q))
  BY <1>2, HtFields
<1>4. o = [s EXCEPT !.q = q]
  BY <1>1, <1>2 DEF Enqueued
<1>5. o \in HtDrivers
  BY <1>3, <1>4 DEF HtDrivers
<1>6. o.q = q /\ o.active = s.active /\ o.blkno = s.blkno /\ o.fc = s.fc
  BY <1>4 DEF HtDrivers
<1> QED BY <1>1, <1>3, <1>5, <1>6

\* The end of a request.
LEMMA NextRequestGoes ==
    ASSUME NEW s \in HtDrivers, s.q # <<>>
    PROVE  /\ NextRequest(s) \in HtDrivers /\ NextRequest(s).active = "none"
           /\ NextRequest(s).blkno = s.blkno
           /\ Finished(s) \in HtDrivers /\ Finished(s).active = "none"
           /\ Finished(s).blkno = s.blkno + 1
<1>1. PICK o : o = NextRequest(s)
  OBVIOUS
<1>2. o = [s EXCEPT !.active = "none", !.q = Tail(s.q), !.errcnt = 0]
  BY <1>1 DEF NextRequest
<1>3. Tail(s.q) \in Seq(HtRequests)
  BY HtFields, HtFirst
<1>4. o \in HtDrivers
  BY <1>2, <1>3 DEF HtDrivers, HtStates
<1>5. o.active = "none" /\ o.blkno = s.blkno
  BY <1>2 DEF HtDrivers
<1>6. PICK f : f = Finished(s)
  OBVIOUS
<1>7. f = [o EXCEPT !.blkno = o.blkno + 1]
  BY <1>1, <1>6 DEF Finished
<1>8. o.blkno + 1 \in Int
  BY <1>4, HtFields
<1>9. f \in HtDrivers
  BY <1>4, <1>7, <1>8 DEF HtDrivers
<1>10. f.active = o.active /\ f.blkno = o.blkno + 1
  BY <1>4, <1>7 DEF HtDrivers
<1> QED BY <1>1, <1>4, <1>5, <1>6, <1>9, <1>10

\* A record is written: it is the last one.
LEMMA WriteAtEnd ==
    ASSUME HtTypes, NEW x \in {"rec", "mark"}
    PROVE  WriteAt(x) \in Seq({"rec", "mark"}) /\ Len(WriteAt(x)) = head + 1
<1>1. tape \in Seq({"rec", "mark"}) /\ head \in 0..Len(tape) /\ Len(tape) \in Nat
  BY DEF HtTypes
<1>2. SubSeq(tape, 1, head) \in Seq({"rec", "mark"}) /\ Len(SubSeq(tape, 1, head)) = head
  <2>1. CASE head = 0
    <3>1. SubSeq(tape, 1, 0) = <<>>
      BY SubSeqEmpty
    <3> QED BY <2>1, <3>1
  <2>2. CASE head # 0
    <3>1. 1 \in 1..Len(tape) /\ head \in 1..Len(tape)
      BY <1>1, <2>2
    <3> QED BY <1>1, <3>1, SubSeqProperties
  <2> QED BY <2>1, <2>2
<1>3. <<x>> \in Seq({"rec", "mark"}) /\ Len(<<x>>) = 1
  OBVIOUS
<1>4. PICK u : u = SubSeq(tape, 1, head)
  OBVIOUS
<1>5. u \o <<x>> \in Seq({"rec", "mark"}) /\ Len(u \o <<x>>) = Len(u) + Len(<<x>>)
  BY <1>2, <1>3, <1>4, ConcatProperties
<1> QED BY <1>1, <1>2, <1>3, <1>4, <1>5 DEF WriteAt

\* The first states satisfy the invariant.
LEMMA HtInitially == ASSUME HtInit PROVE HtInv
<1>1. tape \in Seq({"rec", "mark"}) /\ head = 0 /\ base = 0 /\ opener = <<"closed">> /\ ~strayed
  BY HtAssumption DEF HtInit
<1>2. ht \in HtDrivers /\ ht.active = "none" /\ ht.blkno = 0
  BY DEF HtInit, HtDrivers, HtStates
<1>3. HtTypes
  BY <1>1, <1>2 DEF HtTypes, HtWords
<1>4. HeadKnown
  BY <1>1, <1>2 DEF HeadKnown
<1> QED BY <1>2, <1>3, <1>4 DEF HtInv

\* A step that only puts a request in the queue.
LEMMA HtEnqueues ==
    ASSUME HtInv, NEW bp \in HtRequests, NEW s \in HtDrivers,
           s.q = ht.q, s.active = ht.active, s.blkno = ht.blkno, s.fc = ht.fc,
           ht' = Enqueued(s, bp), hstart' = (ht.active = "none"),
           UNCHANGED <<tape, head, base, strayed>>, opener' \in Seq(HtWords)
    PROVE  HtInv'
<1>1. /\ ht' \in HtDrivers /\ ht'.q # <<>> /\ (ht.q # <<>> => Head(ht'.q) = Head(ht.q))
      /\ ht'.active = ht.active /\ ht'.blkno = ht.blkno /\ ht'.fc = ht.fc
  BY EnqueuedKeeps
<1>2. HtTypes'
  BY <1>1 DEF HtInv, HtTypes
<1>3. ht'.active # "none" => ~hstart' /\ ht'.q # <<>>
  BY <1>1
<1>4. ASSUME ~strayed' PROVE HeadKnown'
  <2>1. HeadKnown
    BY <1>4 DEF HtInv
  <2>2. ht.active # "none" => Bp' = Bp
    BY <1>1 DEF HtInv, Bp
  <2> QED BY <1>1, <2>1, <2>2 DEF HeadKnown
<1> QED BY <1>2, <1>3, <1>4 DEF HtInv

\* A step of the processes that changes neither the tape nor what the drive does.
LEMMA HtNothing ==
    ASSUME HtInv, ht' \in HtDrivers, ht'.q = ht.q, ht'.active = ht.active,
           ht'.blkno = ht.blkno, ht'.fc = ht.fc,
           UNCHANGED <<tape, head, base, strayed>>, opener' \in Seq(HtWords),
           hstart' => hstart
    PROVE  HtInv'
<1>1. HtTypes'
  BY DEF HtInv, HtTypes
<1>2. ht'.active # "none" => ~hstart' /\ ht'.q # <<>>
  BY DEF HtInv
<1>3. ASSUME ~strayed' PROVE HeadKnown'
  <2>1. HeadKnown /\ Bp' = Bp
    BY <1>3 DEF HtInv, Bp
  <2> QED BY <2>1 DEF HeadKnown
<1> QED BY <1>1, <1>2, <1>3 DEF HtInv

\* What the processes do keeps the invariant.
LEMMA HtUserStep == ASSUME HtInv, HtUser \/ HtWaits PROVE HtInv'
<1>1. /\ ht \in HtDrivers /\ tape \in Seq({"rec", "mark"}) /\ head \in 0..Len(tape)
      /\ opener \in Seq(HtWords) /\ base \in Nat
  BY DEF HtInv, HtTypes
<1>2. CASE htopen
  <2>1. PICK s : s = [ht EXCEPT !.blkno = 0, !.nxrec = INF, !.written = FALSE]
    OBVIOUS
  <2>2. SameWork(ht, s) /\ s.blkno = 0
    <3>1. INF \in Int
      BY SMT DEF INF
    <3>2. SetStart(ht, s, INF)
      BY <2>1 DEF SetStart
    <3> QED BY <1>1, <3>1, <3>2, SetStartKeeps
  <2>3. s \in HtDrivers /\ s.q = ht.q /\ s.active = ht.active
    BY <2>2 DEF SameWork
  <2>4. Cmd("NOP") \in HtRequests
    BY DEF Cmd, HtRequests, HtWords
  <2>5. ht' = Enqueued(s, Cmd("NOP")) /\ hstart' = (ht.active = "none") /\ base' = head
        /\ strayed' = (ht.q # <<>>) /\ tape' = tape /\ head' = head /\ opener' = <<"NOP">>
    BY <1>2, <2>1 DEF htopen
  <2>6. ht' \in HtDrivers /\ ht'.q # <<>> /\ ht'.active = ht.active /\ ht'.blkno = 0
    BY <2>2, <2>3, <2>4, <2>5, EnqueuedKeeps
  <2>7. HtTypes'
    BY <1>1, <2>5, <2>6 DEF HtTypes, HtWords
  <2>8. ASSUME ~strayed' PROVE HeadKnown'
    <3>1. ht.active = "none"
      BY <2>5, <2>8 DEF HtInv
    <3> QED BY <1>1, <2>5, <2>6, <3>1 DEF HeadKnown
  <2> QED BY <2>5, <2>6, <2>7, <2>8 DEF HtInv
<1>3. ASSUME NEW n \in 0..MaxBlkno, NEW read \in BOOLEAN, htstrategy(n, read) PROVE HtInv'
  <2>1. PICK bp : bp = [com |-> "io", blkno |-> n, read |-> read]
    OBVIOUS
  <2>2. n \in Nat
    BY HtAssumption
  <2>3. bp \in HtRequests
    BY <2>1, <2>2 DEF HtRequests, HtWords
  <2>4. UNCHANGED <<tape, head, opener, base, strayed>>
    BY <1>3 DEF htstrategy
  <2>5. CASE n > ht.nxrec \/ (n = ht.nxrec /\ read)
    <3>1. UNCHANGED <<ht, hstart>>
      BY <1>3, <2>5 DEF htstrategy
    <3> QED BY <1>1, <2>4, <3>1, HtNothing
  <2>6. CASE ~(n > ht.nxrec \/ (n = ht.nxrec /\ read))
    <3>1. PICK s : s = IF read THEN ht ELSE [ht EXCEPT !.nxrec = n + 1, !.written = TRUE]
      OBVIOUS
    <3>2. ht' = Enqueued(s, bp) /\ hstart' = (ht.active = "none")
      BY <1>3, <2>1, <2>6, <3>1 DEF htstrategy
    <3>3. n + 1 \in Int
      BY <2>2
    <3>4. /\ s \in HtDrivers
          /\ s.q = ht.q /\ s.active = ht.active /\ s.blkno = ht.blkno /\ s.fc = ht.fc
      <4>1. CASE s = ht
        BY <1>1, <4>1
      <4>2. CASE s = [ht EXCEPT !.nxrec = n + 1, !.written = TRUE]
        <5>1. SetEnd(ht, s, n + 1)
          BY <4>2 DEF SetEnd
        <5> QED BY <1>1, <3>3, <5>1, SetEndKeeps DEF SameWork
      <4> QED BY <3>1, <4>1, <4>2
    <3> QED BY <1>1, <2>3, <2>4, <3>2, <3>4, HtEnqueues
  <2> QED BY <2>5, <2>6
<1>4. ASSUME NEW marks \in {TRUE, ht.written}, NEW rewind \in BOOLEAN, htclose(marks, rewind)
      PROVE  HtInv'
  <2>1. UNCHANGED <<tape, head, ht, hstart, base, strayed>>
    BY <1>4 DEF htclose
  <2>2. opener' \in Seq(HtWords)
    <3>1. PICK u : u = IF marks THEN <<"WEOF", "WEOF", "SREV">> ELSE <<>>
      OBVIOUS
    <3>2. PICK w : w = IF rewind THEN <<"REW">> ELSE <<>>
      OBVIOUS
    <3>3. u \in Seq(HtWords) /\ w \in Seq(HtWords) /\ <<"close">> \in Seq(HtWords)
      <4>1. <<"WEOF", "WEOF", "SREV">> \in Seq(HtWords) /\ <<"REW">> \in Seq(HtWords)
            /\ <<>> \in Seq(HtWords) /\ <<"close">> \in Seq(HtWords)
        BY DEF HtWords
      <4>2. u \in Seq(HtWords)
        BY <3>1, <4>1, Zenon
      <4>3. w \in Seq(HtWords)
        BY <3>2, <4>1, Zenon
      <4> QED BY <4>1, <4>2, <4>3
    <3>4. opener' = <<"close">> \o u \o w
      BY <1>4, <3>1, <3>2, Zenon DEF htclose
    <3>5. <<"close">> \o u \in Seq(HtWords)
      BY <3>3
    <3> QED BY <3>3, <3>4, <3>5
  <2> QED BY <1>1, <2>1, <2>2, HtNothing
<1>5. CASE Opened
  <2>1. ht' = [ht EXCEPT !.openf = 1] /\ opener' = <<"open">>
        /\ UNCHANGED <<tape, head, hstart, base, strayed>>
    BY <1>5 DEF Opened
  <2>2. /\ ht' \in HtDrivers
        /\ ht'.q = ht.q /\ ht'.active = ht.active /\ ht'.blkno = ht.blkno /\ ht'.fc = ht.fc
    <3>1. SetOpenf(ht, ht', 1)
      BY <2>1 DEF SetOpenf
    <3>2. 1 \in Int
      OBVIOUS
    <3> QED BY <1>1, <3>1, <3>2, SetOpenfKeeps DEF SameWork
  <2>4. opener' \in Seq(HtWords)
    BY <2>1 DEF HtWords
  <2> QED BY <2>1, <2>2, <2>4, HtNothing
<1>6. CASE hcommand
  <2>1. /\ Len(opener) > 1 /\ ht' = Enqueued(ht, Cmd(opener[2]))
        /\ opener' = <<"close">> \o SubSeq(opener, 3, Len(opener))
        /\ hstart' = (ht.active = "none") /\ UNCHANGED <<tape, head, base, strayed>>
    BY <1>6 DEF hcommand
  <2>2. opener[2] \in HtWords
    BY <1>1, <2>1
  <2>3. Cmd(opener[2]) \in HtRequests
    BY <2>2 DEF Cmd, HtRequests
  <2>4. opener' \in Seq(HtWords)
    <3>1. SubSeq(opener, 3, Len(opener)) \in Seq(HtWords)
      <4>1. CASE Len(opener) = 2
        <5>1. SubSeq(opener, 3, 2) = <<>>
          BY SubSeqEmpty
        <5> QED BY <4>1, <5>1
      <4>2. CASE Len(opener) # 2
        <5>1. 3 \in 1..Len(opener) /\ Len(opener) \in 1..Len(opener)
          <6>1. PICK n : n = Len(opener)
            OBVIOUS
          <6>2. n \in Nat
            BY <1>1, <6>1
          <6>3. n > 1 /\ n # 2
            BY <2>1, <4>2, <6>1
          <6>4. 3 \in 1..n /\ n \in 1..n
            BY <6>2, <6>3
          <6> QED BY <6>1, <6>4, Zenon
        <5> QED BY <1>1, <5>1, SubSeqProperties
      <4> QED BY <4>1, <4>2
    <3>2. <<"close">> \in Seq(HtWords)
      BY DEF HtWords
    <3> QED BY <2>1, <3>1, <3>2
  <2> QED BY <1>1, <2>1, <2>3, <2>4, HtEnqueues
<1>7. CASE Closed
  <2>1. ht' = [ht EXCEPT !.openf = 0] /\ opener' = <<"closed">>
        /\ UNCHANGED <<tape, head, hstart, base, strayed>>
    BY <1>7 DEF Closed
  <2>2. /\ ht' \in HtDrivers
        /\ ht'.q = ht.q /\ ht'.active = ht.active /\ ht'.blkno = ht.blkno /\ ht'.fc = ht.fc
    <3>1. SetOpenf(ht, ht', 0)
      BY <2>1 DEF SetOpenf
    <3>2. 0 \in Int
      OBVIOUS
    <3> QED BY <1>1, <3>1, <3>2, SetOpenfKeeps DEF SameWork
  <2>4. opener' \in Seq(HtWords)
    BY <2>1 DEF HtWords
  <2> QED BY <2>1, <2>2, <2>4, HtNothing
<1> QED BY <1>2, <1>3, <1>4, <1>5, <1>6, <1>7 DEF HtUser, HtWaits

\* A step after which the drive does nothing keeps the invariant if the head is where the
\* driver thinks.
LEMMA HtEnds ==
    ASSUME HtInv, HtTypes', ht'.active = "none", ~strayed' => head' = base' + ht'.blkno
    PROVE  HtInv'
BY DEF HtInv, HeadKnown

\* A request has ended at a mark.
LEMMA AtMarkGoes ==
    ASSUME NEW n \in Int, NEW s \in HtDrivers, s.q # <<>>
    PROVE  /\ Finished([s EXCEPT !.nxrec = n]) \in HtDrivers
           /\ Finished([s EXCEPT !.nxrec = n]).active = "none"
           /\ Finished([s EXCEPT !.nxrec = n]).blkno = s.blkno + 1
<1>1. PICK o : o = [s EXCEPT !.nxrec = n]
  OBVIOUS
<1>2. o \in HtDrivers /\ o.q = s.q /\ o.blkno = s.blkno
  BY <1>1 DEF HtDrivers
<1>3. /\ Finished(o) \in HtDrivers /\ Finished(o).active = "none"
      /\ Finished(o).blkno = s.blkno + 1
  BY <1>2, NextRequestGoes
<1> QED BY <1>1, <1>3

\* What the driver does when it is called keeps the invariant.
LEMMA HtStartStep == ASSUME HtInv, htstart PROVE HtInv'
<1>1. /\ ht \in HtDrivers /\ tape \in Seq({"rec", "mark"}) /\ head \in 0..Len(tape)
      /\ opener \in Seq(HtWords) /\ base \in Nat
  BY DEF HtInv, HtTypes
<1>2. hstart
  BY DEF htstart, StartIdle, Idle, StartNext, StartMotion
<1>3. ht.active = "none" /\ (~strayed => head = base + ht.blkno)
  BY <1>2 DEF HtInv, HeadKnown
<1>4. UNCHANGED <<tape, head, opener, base, strayed>>
  BY DEF htstart, StartIdle, Idle, StartNext, StartMotion
<1>5. CASE StartIdle
  <2>1. ht' = ht /\ ~hstart'
    BY <1>5 DEF StartIdle
  <2>2. HtTypes'
    BY <1>1, <1>4, <2>1 DEF HtTypes
  <2> QED BY <1>3, <1>4, <2>1, <2>2, HtEnds
<1>6. CASE StartNext
  <2>1. ht' = [ht EXCEPT !.q = Tail(ht.q)] /\ ht.q # <<>>
    BY <1>6 DEF StartNext
  <2>2. PICK q : q = Tail(ht.q)
    OBVIOUS
  <2>3. q \in Seq(HtRequests)
    BY <1>1, <2>1, <2>2, HtFields, HtFirst
  <2>4. ht' \in HtDrivers
    BY <1>1, <2>1, <2>2, <2>3 DEF HtDrivers
  <2>5. ht'.active = ht.active /\ ht'.blkno = ht.blkno
    BY <1>1, <2>1 DEF HtDrivers
  <2>6. HtTypes'
    BY <1>1, <1>4, <2>4 DEF HtTypes
  <2> QED BY <1>3, <1>4, <2>5, <2>6, HtEnds
<1>7. CASE StartMotion
  <2>1. PICK m, f : m = Motion(Bp) /\ f = Bp.blkno - ht.blkno
    OBVIOUS
  <2>2. ht' = [ht EXCEPT !.active = m, !.fc = f] /\ ht.q # <<>> /\ hstart' = FALSE
    BY <1>7, <2>1 DEF StartMotion
  <2>3. PICK b, n : b = Bp.blkno /\ n = ht.blkno
    OBVIOUS
  <2>4. b \in Nat /\ n \in Int
    BY <1>1, <2>2, <2>3, HtFields, HtFirst DEF Bp
  <2>5. /\ m \in {"SCOM", "SIO", "SSFOR", "SSREV"}
        /\ m = "SIO" => n = b
    BY <2>1, <2>3 DEF Motion
  <2>6. f \in Int /\ f = b - n
    BY <2>1, <2>3, <2>4
  <2>7. ht' \in HtDrivers
    BY <1>1, <2>2, <2>5, <2>6 DEF HtDrivers, HtStates
  <2>8. ht'.q = ht.q /\ ht'.active = m /\ ht'.fc = f /\ ht'.blkno = n
    BY <1>1, <2>2, <2>3 DEF HtDrivers
  <2>9. HtTypes'
    BY <1>1, <1>4, <2>7 DEF HtTypes
  <2>10. ASSUME ~strayed' PROVE HeadKnown'
    <3>1. Bp'.blkno = b
      BY <2>3, <2>8 DEF Bp
    <3>2. head = base + n /\ head' = head /\ base' = base
      BY <1>3, <1>4, <2>3, <2>10
    <3>3. ht'.active \in {"SSFOR", "SSREV"} => head' + ht'.fc = base' + Bp'.blkno
      BY <1>1, <2>4, <2>6, <2>8, <3>1, <3>2
    <3>4. ht'.active = "SIO" => head' = base' + Bp'.blkno /\ ht'.blkno = Bp'.blkno
      BY <2>5, <2>8, <3>1, <3>2
    <3>5. ht'.active \notin {"none", "SRETRY"}
      BY <2>5, <2>8
    <3> QED BY <3>3, <3>4, <3>5 DEF HeadKnown
  <2> QED BY <2>2, <2>8, <2>9, <2>10 DEF HtInv
<1> QED BY <1>5, <1>6, <1>7 DEF htstart

\* What is known in an interrupt.
HtAt(b, n, f) ==
    /\ HtTypes /\ ht.q # <<>> /\ b = Bp.blkno /\ n = ht.blkno /\ f = ht.fc
    /\ b \in Nat /\ n \in Int /\ f \in Int /\ ~hstart /\ ht.active # "none"

\* The drive works for the first request.
LEMMA HtInterrupted ==
    ASSUME HtInv, htintr
    PROVE  HtAt(Bp.blkno, ht.blkno, ht.fc) /\ UNCHANGED <<opener, base>>
<1>1. ~hstart /\ ht.active # "none"
  BY DEF htintr, IntrIn, IntrRead, IntrWrite, IntrSoft, IntrRetry, IntrSpaced,
         IntrSpacedMark, IntrHard, IntrCommand
<1>2. UNCHANGED <<opener, base>>
  BY DEF htintr, NothingElse, IntrRead, IntrWrite, IntrSoft, IntrRetry, IntrSpaced,
         IntrSpacedMark, IntrHard, IntrCommand
<1>3. HtTypes /\ ht.q # <<>> /\ ht \in HtDrivers
  BY <1>1 DEF HtInv, HtTypes
<1>4. Bp.blkno \in Nat /\ ht.blkno \in Int /\ ht.fc \in Int
  BY <1>3, HtFields, HtFirst DEF Bp
<1> QED BY <1>1, <1>2, <1>3, <1>4 DEF HtAt

\* An interrupt after a transfer keeps the invariant.
LEMMA HtTransferStep ==
    ASSUME HtInv, htintr, IntrRead \/ IntrWrite \/ IntrSoft
    PROVE  HtInv'
<1>1. PICK b, n, f : HtAt(b, n, f) /\ UNCHANGED <<opener, base>>
  BY HtInterrupted
<1>2. /\ ht \in HtDrivers /\ tape \in Seq({"rec", "mark"}) /\ head \in 0..Len(tape)
      /\ opener \in Seq(HtWords) /\ base \in Nat /\ b \in Nat /\ n \in Int /\ ht.q # <<>>
      /\ Len(tape) \in Nat /\ ht.blkno = n /\ Bp.blkno = b
  BY <1>1 DEF HtAt, HtTypes
<1>3. ht.active = "SIO" /\ UNCHANGED strayed
  BY DEF IntrRead, IntrWrite, IntrSoft, IntrIn
<1>4. ~strayed => head = base + b /\ n = b
  BY <1>2, <1>3 DEF HtInv, HeadKnown
<1>5. CASE IntrRead
  <2>1. head < Len(tape) /\ head' = head + 1 /\ tape' = tape
    BY <1>5 DEF IntrRead
  <2>2. ht' \in HtDrivers /\ ht'.active = "none" /\ ht'.blkno = n + 1
    <3>1. CASE ht' = Finished(ht)
      BY <1>2, <3>1, NextRequestGoes
    <3>2. CASE ht' = Finished([ht EXCEPT !.nxrec = b])
      <4>1. b \in Int
        BY <1>2
      <4> QED BY <1>2, <3>2, <4>1, AtMarkGoes
    <3> QED BY <1>2, <1>5, <3>1, <3>2 DEF IntrRead, AtMark
  <2>3. HtTypes'
    <3>1. head' \in 0..Len(tape')
      BY <1>2, <2>1
    <3> QED BY <1>1, <1>2, <2>1, <2>2, <3>1 DEF HtTypes
  <2>4. ~strayed' => head' = base' + ht'.blkno
    BY <1>1, <1>2, <1>3, <1>4, <2>1, <2>2
  <2> QED BY <2>2, <2>3, <2>4, HtEnds
<1>6. CASE IntrWrite
  <2>1. tape' = WriteAt("rec") /\ head' = head + 1 /\ ht' = Finished(ht)
    BY <1>6 DEF IntrWrite
  <2>2. ht' \in HtDrivers /\ ht'.active = "none" /\ ht'.blkno = n + 1
    BY <1>2, <2>1, NextRequestGoes
  <2>3. HtTypes'
    <3>1. tape' \in Seq({"rec", "mark"}) /\ Len(tape') = head + 1
      BY <1>1, <2>1, WriteAtEnd DEF HtAt
    <3>2. head' \in 0..Len(tape')
      BY <1>2, <2>1, <3>1
    <3> QED BY <1>1, <1>2, <2>1, <2>2, <3>1, <3>2 DEF HtTypes
  <2>4. ~strayed' => head' = base' + ht'.blkno
    BY <1>1, <1>2, <1>3, <1>4, <2>1, <2>2
  <2> QED BY <2>2, <2>3, <2>4, HtEnds
<1>7. CASE IntrSoft
  <2>1. (Bp.read => head < Len(tape)) /\ tape' = IF Bp.read THEN tape ELSE WriteAt("rec")
    BY <1>7 DEF IntrSoft
  <2>2. tape' \in Seq({"rec", "mark"}) /\ Len(tape') \in Nat /\ head + 1 <= Len(tape')
    <3>1. CASE Bp.read
      BY <1>2, <2>1, <3>1
    <3>2. CASE ~Bp.read
      <4>1. tape' \in Seq({"rec", "mark"}) /\ Len(tape') = head + 1
        BY <1>1, <2>1, <3>2, WriteAtEnd DEF HtAt
      <4> QED BY <1>2, <4>1
    <3> QED BY <3>1, <3>2
  <2>3. CASE ht.errcnt + 1 < MaxErr
    <3>1. ht' = Retried(ht) /\ head' = head /\ UNCHANGED hstart
      BY <1>7, <2>3 DEF IntrSoft
    <3>2. ht.errcnt + 1 \in Nat /\ n + 1 \in Int
      BY <1>2, HtFields
    <3>3. PICK e, z : e = ht.errcnt + 1 /\ z = n + 1
      OBVIOUS
    <3>4. ht' = [ht EXCEPT !.errcnt = e, !.active = "SRETRY", !.blkno = z]
      BY <1>2, <3>1, <3>3 DEF Retried
    <3>5. ht' \in HtDrivers
      BY <1>2, <3>2, <3>3, <3>4 DEF HtDrivers, HtStates
    <3>6. ht'.q = ht.q /\ ht'.active = "SRETRY"
      BY <1>2, <3>4 DEF HtDrivers
    <3>7. HtTypes'
      <4>1. head' \in 0..Len(tape')
        BY <1>2, <2>2, <3>1
      <4> QED BY <1>1, <1>2, <2>2, <3>5, <4>1 DEF HtTypes
    <3>8. ~strayed' => HeadKnown'
      BY <1>1, <1>2, <1>3, <1>4, <3>1, <3>6 DEF HeadKnown, Bp
    <3>9. ~hstart'
      BY <1>1, <3>1 DEF HtAt
    <3> QED BY <1>2, <3>6, <3>7, <3>8, <3>9 DEF HtInv
  <2>4. CASE ~(ht.errcnt + 1 < MaxErr)
    <3>1. ht' = Finished(ht) /\ head' = head + 1
      BY <1>7, <2>4 DEF IntrSoft
    <3>2. ht' \in HtDrivers /\ ht'.active = "none" /\ ht'.blkno = n + 1
      BY <1>2, <3>1, NextRequestGoes
    <3>3. HtTypes'
      <4>1. head' \in 0..Len(tape')
        BY <1>2, <2>2, <3>1
      <4> QED BY <1>1, <1>2, <2>2, <3>2, <4>1 DEF HtTypes
    <3>4. ~strayed' => head' = base' + ht'.blkno
      BY <1>1, <1>2, <1>3, <1>4, <3>1, <3>2
    <3> QED BY <3>2, <3>3, <3>4, HtEnds
  <2> QED BY <2>3, <2>4
<1> QED BY <1>5, <1>6, <1>7

\* After a space back over a block that is tried again, and after spacing that nothing
\* stopped, the head is before the block.
LEMMA HtSpacedStep == ASSUME HtInv, htintr, IntrRetry \/ IntrSpaced PROVE HtInv'
<1>1. PICK b, n, f : HtAt(b, n, f) /\ UNCHANGED <<opener, base>>
  BY HtInterrupted
<1>2. /\ ht \in HtDrivers /\ tape \in Seq({"rec", "mark"}) /\ head \in 0..Len(tape)
      /\ opener \in Seq(HtWords) /\ base \in Nat /\ b \in Nat /\ n \in Int /\ ht.q # <<>>
      /\ Len(tape) \in Nat /\ ht.blkno = n /\ Bp.blkno = b /\ ht.fc = f /\ f \in Int
  BY <1>1 DEF HtAt, HtTypes
<1>3. UNCHANGED strayed /\ tape' = tape
  BY DEF IntrRetry, IntrSpaced
<1>4. ASSUME ht' = [ht EXCEPT !.active = "none", !.blkno = Bp.blkno]
      PROVE  ht' \in HtDrivers /\ ht'.active = "none" /\ ht'.blkno = b
  <2>1. ht' = [ht EXCEPT !.active = "none", !.blkno = b] /\ b \in Int
    BY <1>2, <1>4
  <2>2. ht' \in HtDrivers
    BY <1>2, <2>1 DEF HtDrivers, HtStates
  <2> QED BY <1>2, <2>1, <2>2 DEF HtDrivers
<1>5. CASE IntrRetry
  <2>1. ht.active = "SRETRY" /\ head' = head
    BY <1>5 DEF IntrRetry, IntrIn
  <2>2. ~strayed => head = base + b
    BY <1>2, <2>1 DEF HtInv, HeadKnown
  <2>3. CASE Bp.read
    <3>1. ht' \in HtDrivers /\ ht'.active = "none" /\ ht'.blkno = b
      BY <1>4, <1>5, <2>3 DEF IntrRetry
    <3>2. HtTypes'
      BY <1>1, <1>2, <1>3, <2>1, <3>1 DEF HtTypes
    <3>3. ~strayed' => head' = base' + ht'.blkno
      BY <1>1, <1>3, <2>1, <2>2, <3>1
    <3> QED BY <3>1, <3>2, <3>3, HtEnds
  <2>4. CASE ~Bp.read
    <3>1. ht' = [ht EXCEPT !.active = "SSFOR", !.fc = 0] /\ UNCHANGED hstart
      BY <1>5, <2>4 DEF IntrRetry
    <3>2. ht' \in HtDrivers
      <4>1. PICK z : z = 0
        OBVIOUS
      <4>2. ht' = [ht EXCEPT !.active = "SSFOR", !.fc = z] /\ z \in Int
        BY <3>1, <4>1
      <4> QED BY <1>2, <4>2 DEF HtDrivers, HtStates
    <3>3. ht'.q = ht.q /\ ht'.active = "SSFOR" /\ ht'.fc = 0
      BY <1>2, <3>1 DEF HtDrivers
    <3>4. HtTypes'
      BY <1>1, <1>2, <1>3, <2>1, <3>2 DEF HtTypes
    <3>5. ~strayed' => HeadKnown'
      <4>1. Bp'.blkno = b
        BY <1>2, <3>3 DEF Bp
      <4>2. ~strayed' => head' + ht'.fc = base' + Bp'.blkno
        BY <1>1, <1>2, <1>3, <2>1, <2>2, <3>3, <4>1
      <4> QED BY <3>3, <4>2 DEF HeadKnown
    <3>6. ~hstart'
      BY <1>1, <3>1 DEF HtAt
    <3> QED BY <1>2, <3>3, <3>4, <3>5, <3>6 DEF HtInv
  <2> QED BY <2>3, <2>4
<1>6. CASE IntrSpaced
  <2>1. /\ ht.active \in {"SSFOR", "SSREV"} /\ head' = head + f
        /\ Way \subseteq DOMAIN tape
    BY <1>2, <1>6 DEF IntrSpaced, IntrIn
  <2>2. ht' \in HtDrivers /\ ht'.active = "none" /\ ht'.blkno = b
    BY <1>4, <1>6 DEF IntrSpaced
  <2>3. ~strayed => head + f = base + b
    BY <1>2, <2>1 DEF HtInv, HeadKnown
  <2>4. DOMAIN tape = 1..Len(tape)
    BY <1>2
  <2>5. head' \in 0..Len(tape')
    <3>1. PICK l : l = Len(tape)
      OBVIOUS
    <3>2. l \in Nat /\ head \in 0..l
      BY <1>2, <3>1
    <3>3. CASE f > 0
      <4>1. Way = head + 1 .. head + f
        BY <1>2, <3>3 DEF Way
      <4>2. head + f \in head + 1 .. head + f
        BY <1>2, <3>2, <3>3
      <4>3. head + f \in 1..l
        BY <2>1, <2>4, <3>1, <4>1, <4>2
      <4> QED BY <1>3, <2>1, <3>1, <3>2, <4>3
    <3>4. CASE f = 0
      BY <1>3, <2>1, <3>1, <3>2, <3>4
    <3>5. CASE f < 0
      <4>1. Way = head + f + 1 .. head
        BY <1>2, <3>5 DEF Way
      <4>2. head + f + 1 \in head + f + 1 .. head
        BY <1>2, <3>2, <3>5
      <4>3. head + f + 1 \in 1..l
        BY <2>1, <2>4, <3>1, <4>1, <4>2
      <4>4. head + f \in 0..l
        BY <1>2, <3>2, <4>3
      <4> QED BY <1>3, <2>1, <3>1, <4>4
    <3> QED BY <1>2, <3>3, <3>4, <3>5
  <2>6. HtTypes'
    BY <1>1, <1>2, <1>3, <2>2, <2>5 DEF HtTypes
  <2>7. ~strayed' => head' = base' + ht'.blkno
    BY <1>1, <1>3, <2>1, <2>2, <2>3
  <2> QED BY <2>2, <2>6, <2>7, HtEnds
<1> QED BY <1>5, <1>6

\* The driver loses the place: the head stays on the tape.
LEMMA HtLostStep ==
    ASSUME HtInv, htintr, IntrSpacedMark \/ IntrHard \/ IntrCommand
    PROVE  HtInv'
<1>1. PICK b, n, f : HtAt(b, n, f) /\ UNCHANGED <<opener, base>>
  BY HtInterrupted
<1>2. /\ ht \in HtDrivers /\ tape \in Seq({"rec", "mark"}) /\ head \in 0..Len(tape)
      /\ opener \in Seq(HtWords) /\ base \in Nat /\ b \in Int /\ ht.q # <<>>
      /\ Len(tape) \in Nat /\ Bp.blkno = b
  BY <1>1 DEF HtAt, HtTypes
<1>3. strayed'
  BY DEF IntrSpacedMark, IntrHard, IntrCommand
<1>4. AtMark(ht) \in HtDrivers /\ AtMark(ht).active = "none"
  BY <1>2, AtMarkGoes DEF AtMark
<1>5. CASE IntrSpacedMark
  <2>1. MarksIn(Way) # {} /\ tape' = tape /\ ht' = AtMark(ht)
        /\ head' = IF ht.fc > 0 THEN Min(MarksIn(Way)) ELSE Max(MarksIn(Way)) - 1
    BY <1>5 DEF IntrSpacedMark
  <2>2. PICK M : M = MarksIn(Way)
    OBVIOUS
  <2>3. M \subseteq 1..Len(tape) /\ M # {}
    BY <1>2, <2>1, <2>2 DEF MarksIn
  <2>4. Max(M) \in M
    <3>1. PICK l \in Nat : l = Len(tape)
      BY <1>2
    <3>2. M \in SUBSET (1..l)
      BY <2>3, <3>1
    <3> QED BY <2>3, <3>2, MaxOfNumbers
  <2>5. Min(M) \in M
    <3>1. M \in SUBSET Nat
      BY <2>3
    <3> QED BY <2>3, <3>1, MinOfNumbers
  <2>6. head' \in 0..Len(tape')
    <3>1. PICK i, j : i = Min(M) /\ j = Max(M)
      OBVIOUS
    <3>2. i \in 1..Len(tape) /\ j \in 1..Len(tape)
      BY <2>3, <2>4, <2>5, <3>1
    <3>3. head' = IF ht.fc > 0 THEN i ELSE j - 1
      BY <2>1, <2>2, <3>1
    <3>4. i \in 0..Len(tape) /\ j - 1 \in 0..Len(tape)
      BY <1>2, <3>2
    <3> QED BY <2>1, <3>3, <3>4
  <2>7. HtTypes'
    BY <1>1, <1>2, <1>4, <2>1, <2>6 DEF HtTypes
  <2> QED BY <1>3, <1>4, <2>1, <2>7, HtEnds
<1>6. CASE IntrHard
  <2>1. tape' = tape /\ head' = IF ht.fc >= 0 THEN Len(tape) ELSE 0
    BY <1>6 DEF IntrHard
  <2>2. PICK eot \in BOOLEAN : ht' = Finished(IF eot THEN [ht EXCEPT !.openf = -1] ELSE ht)
    BY <1>6 DEF IntrHard
  <2>3. PICK s : s = IF eot THEN [ht EXCEPT !.openf = -1] ELSE ht
    OBVIOUS
  <2>4. s \in HtDrivers /\ s.q = ht.q
    <3>1. CASE s = ht
      BY <1>2, <3>1
    <3>2. CASE s = [ht EXCEPT !.openf = -1]
      <4>1. SetOpenf(ht, s, -1)
        BY <3>2 DEF SetOpenf
      <4>2. -1 \in Int
        OBVIOUS
      <4> QED BY <1>2, <4>1, <4>2, SetOpenfKeeps DEF SameWork
    <3> QED BY <2>3, <3>1, <3>2
  <2>5. ht' \in HtDrivers /\ ht'.active = "none"
    BY <1>2, <2>2, <2>3, <2>4, NextRequestGoes
  <2>6. head' \in 0..Len(tape')
    BY <1>2, <2>1
  <2>7. HtTypes'
    BY <1>1, <1>2, <2>1, <2>5, <2>6 DEF HtTypes
  <2> QED BY <1>3, <2>5, <2>7, HtEnds
<1>7. CASE IntrCommand
  <2>1. /\ tape' = IF Bp.com = "WEOF" THEN WriteAt("mark") ELSE tape
        /\ head' = CASE Bp.com = "WEOF" -> head + 1
                     [] Bp.com = "SREV" -> IF head = 0 THEN 0 ELSE head - 1
                     [] OTHER -> 0
        /\ ht' = IF Bp.com = "REW" THEN NextRequest(ht) ELSE AtMark(ht)
    BY <1>7 DEF IntrCommand
  <2>2. ht' \in HtDrivers /\ ht'.active = "none"
    BY <1>2, <1>4, <2>1, NextRequestGoes
  <2>3. tape' \in Seq({"rec", "mark"}) /\ head' \in 0..Len(tape')
    <3>1. CASE Bp.com = "WEOF"
      <4>1. tape' \in Seq({"rec", "mark"}) /\ Len(tape') = head + 1
        BY <1>1, <2>1, <3>1, WriteAtEnd DEF HtAt
      <4>2. head' = head + 1
        BY <2>1, <3>1
      <4> QED BY <1>2, <4>1, <4>2
    <3>2. CASE Bp.com = "SREV"
      BY <1>2, <2>1, <3>2
    <3>3. CASE Bp.com \notin {"WEOF", "SREV"}
      BY <1>2, <2>1, <3>3
    <3> QED BY <3>1, <3>2, <3>3
  <2>4. HtTypes'
    BY <1>1, <1>2, <2>2, <2>3 DEF HtTypes
  <2> QED BY <1>3, <2>2, <2>4, HtEnds
<1> QED BY <1>5, <1>6, <1>7

\* Every step of the tape keeps the invariant.
LEMMA HtStep == ASSUME HtInv, [HtNext]_htVars PROVE HtInv'
<1>1. CASE UNCHANGED htVars
  BY <1>1 DEF htVars, HtInv, HtTypes, HeadKnown, Bp
<1>2. CASE htintr
  <2>1. CASE IntrRead \/ IntrWrite \/ IntrSoft
    BY <1>2, <2>1, HtTransferStep
  <2>2. CASE IntrRetry \/ IntrSpaced
    BY <1>2, <2>2, HtSpacedStep
  <2>3. CASE IntrSpacedMark \/ IntrHard \/ IntrCommand
    BY <1>2, <2>3, HtLostStep
  <2> QED BY <1>2, <2>1, <2>2, <2>3 DEF htintr
<1> QED BY <1>1, <1>2, HtUserStep, HtStartStep DEF HtNext

\* The drive works for a request, and while the driver has not lost the place it is known
\* where the head is in each of the drive's states, of sys/dev/ht.c.
THEOREM HtInvariant == HtSpec => []HtInv
<1>1. HtInit => HtInv
  BY HtInitially
<1>2. HtInv /\ [HtNext]_htVars => HtInv'
  BY HtStep
<1> QED BY <1>1, <1>2, PTL DEF HtSpec

\* Data is transferred only with the head before the block that was asked for, counted from
\* where the tape was opened, whatever spacing, retries and marks there have been.
THEOREM HtTheorem == HtSpec => []TransfersInPlace
<1>1. HtInv => TransfersInPlace
  BY DEF HtInv, HeadKnown, TransfersInPlace
<1> QED BY <1>1, HtInvariant, PTL

----------------------------------------------------------------------------
(* The disk: the request that is under way is the first of its queue *)

DiskRequests == [unit : Units \cup {NoBuf}, cylin : Int, read : BOOLEAN, queued : BOOLEAN]

DiskTabs == [actf : Units \cup {NoBuf}, actl : Units \cup {NoBuf}, active : BOOLEAN,
             errcnt : Int]

DiskDrivers == [actf : [Units -> Seq(Bufs)], busy : SUBSET Units, tab : DiskTabs,
                forw : [Units -> Units \cup {NoBuf}], hpdc : [Units -> Int],
                searching : SUBSET Units]

DiskTypes ==
    /\ req \in [Bufs -> DiskRequests] /\ Driver \in DiskDrivers
    /\ att \subseteq Units

\* The invariant: a transfer is for the first request of the unit at the front of the list;
\* hpstart does not run while one goes on, and runs to try it again.
DiskInv ==
    /\ DiskTypes
    /\ UnderWay => tab.actf # NoBuf /\ actf[tab.actf] # <<>> /\ (tab.active <=> ~starting)

\* The request that is under way stays the same.
KeepsRequest ==
    UnderWay /\ UnderWay' => tab'.actf = tab.actf
                            /\ Head(actf'[tab.actf]) = Head(actf[tab.actf])

\* The fields of the driver's state.
LEMMA DriverFields ==
    /\ Driver.actf = actf /\ Driver.busy = busy /\ Driver.tab = tab /\ Driver.forw = forw
    /\ Driver.hpdc = hpdc /\ Driver.searching = searching
BY DEF Driver

\* Their types.
LEMMA DiskFields ==
    ASSUME NEW k \in DiskDrivers
    PROVE  /\ k.actf \in [Units -> Seq(Bufs)] /\ k.busy \in SUBSET Units /\ k.tab \in DiskTabs
           /\ k.forw \in [Units -> Units \cup {NoBuf}] /\ k.hpdc \in [Units -> Int]
           /\ k.searching \in SUBSET Units
           /\ k.tab.actf \in Units \cup {NoBuf} /\ k.tab.actl \in Units \cup {NoBuf}
           /\ k.tab.active \in BOOLEAN /\ k.tab.errcnt \in Int
<1>1. /\ k.actf \in [Units -> Seq(Bufs)] /\ k.busy \in SUBSET Units /\ k.tab \in DiskTabs
      /\ k.forw \in [Units -> Units \cup {NoBuf}] /\ k.hpdc \in [Units -> Int]
      /\ k.searching \in SUBSET Units
  BY DEF DiskDrivers
<1> QED BY <1>1 DEF DiskTabs

\* The next state is the driver's.
LEMMA BecomesDriver == ASSUME NEW k \in DiskDrivers, DiskBecomes(k) PROVE Driver' = k
<1>1. k = [actf |-> k.actf, busy |-> k.busy, tab |-> k.tab, forw |-> k.forw, hpdc |-> k.hpdc,
           searching |-> k.searching]
  BY DEF DiskDrivers
<1> QED BY <1>1 DEF DiskBecomes, Driver

----------------------------------------------------------------------------
(* The disk: disksort *)

\* Some request is farthest in.
LEMMA FarthestIn ==
    ASSUME req \in [Bufs -> DiskRequests], NEW q \in Seq(Bufs), NEW C \in SUBSET (1..Len(q)),
           C # {}
    PROVE  Farthest(q, C) \in C
<1>1. \A n \in 1..Len(q) : req[q[n]].cylin \in Int
  <2>1. ASSUME NEW n \in 1..Len(q) PROVE req[q[n]].cylin \in Int
    <3>1. req[q[n]] \in DiskRequests
      OBVIOUS
    <3> QED BY <3>1 DEF DiskRequests
  <2> QED BY <2>1
<1> DEFINE cyl(n) == req[q[n]].cylin
           last == Len(q)
           Up(m) == \E n \in C : n <= m /\ \A k \in C :
                        k <= m => cyl(k) < cyl(n) \/ (cyl(k) = cyl(n) /\ k <= n)
           Some(m) == \E n \in C : n <= m
           Fails == {m \in 0..last : Some(m) /\ ~Up(m)}
<1>2. last \in Nat /\ \A k \in C : k \in 1..last /\ cyl(k) \in Int
  BY <1>1
<1> HIDE DEF cyl, last
<1>3. Fails = {}
  <2>1. SUFFICES ASSUME Fails # {} PROVE FALSE
    OBVIOUS
  <2>2. PICK m \in Fails : \A y \in Fails : m <= y
    <3>1. Fails \in SUBSET Nat
      BY <1>2
    <3> HIDE DEF Fails
    <3> QED BY <2>1, <3>1, LeastNumber
  <2>3. m \in 1..last
    BY <1>2, <2>2
  <2>4. m - 1 \notin Fails /\ m - 1 \in 0..last
    <3>1. m - 1 \in 0..last /\ ~(m <= m - 1)
      BY <1>2, <2>3
    <3> HIDE DEF Fails
    <3> QED BY <2>2, <3>1
  <2>5. ASSUME NEW k \in C PROVE k <= m <=> k <= m - 1 \/ k = m
    <3>1. k \in Int /\ m \in Int
      BY <1>2, <2>3
    <3> QED BY <3>1
  <2>6. CASE m \notin C
    <3>1. \A k \in C : k <= m <=> k <= m - 1
      BY <2>5, <2>6
    <3>2. Some(m - 1) /\ ~Up(m - 1)
      BY <2>2, <3>1
    <3> QED BY <2>4, <3>2
  <2>7. CASE m \in C
    <3>1. m <= m
      BY <2>3
    <3>2. CASE ~Some(m - 1)
      <4>1. \A k \in C : k <= m => k = m
        BY <2>5, <3>2
      <4>2. Up(m)
        BY <2>7, <3>1, <4>1
      <4> QED BY <2>2, <4>2
    <3>3. CASE Some(m - 1)
      <4>1. PICK n \in C : n <= m - 1 /\ \A k \in C :
                k <= m - 1 => cyl(k) < cyl(n) \/ (cyl(k) = cyl(n) /\ k <= n)
        BY <2>4, <3>3
      <4>2. n <= m /\ n \in 1..last /\ cyl(n) \in Int /\ cyl(m) \in Int
        BY <1>2, <2>3, <2>7, <4>1
      <4>3. CASE cyl(m) < cyl(n)
        <5>1. \A k \in C : k <= m => cyl(k) < cyl(n) \/ (cyl(k) = cyl(n) /\ k <= n)
          BY <2>5, <4>1, <4>3
        <5>2. Up(m)
          BY <4>2, <5>1
        <5> QED BY <2>2, <5>2
      <4>4. CASE ~(cyl(m) < cyl(n))
        <5>1. ASSUME NEW k \in C, k <= m
              PROVE  cyl(k) < cyl(m) \/ (cyl(k) = cyl(m) /\ k <= m)
          <6>1. k = m \/ cyl(k) < cyl(n) \/ cyl(k) = cyl(n)
            BY <2>5, <4>1, <5>1
          <6>2. PICK x, y, z : x = cyl(k) /\ y = cyl(m) /\ z = cyl(n)
            OBVIOUS
          <6>3. x \in Int /\ y \in Int /\ z \in Int
            BY <1>2, <4>2, <5>1, <6>2
          <6>4. ~(y < z) /\ (k = m \/ x < z \/ x = z) /\ (k = m => x = y)
            BY <4>4, <6>1, <6>2
          <6>5. x < y \/ x = y
            BY <6>3, <6>4
          <6> QED BY <5>1, <6>2, <6>5
        <5>2. Up(m)
          BY <2>7, <3>1, <5>1
        <5> QED BY <2>2, <5>2
      <4> QED BY <4>3, <4>4
    <3> QED BY <3>2, <3>3
  <2> QED BY <2>6, <2>7
<1>4. Up(last)
  <2>1. PICK n : n \in C
    OBVIOUS
  <2>2. n <= last /\ last \in 0..last
    BY <1>2, <2>1
  <2>3. last \in 0..last /\ Some(last)
    BY <2>1, <2>2
  <2> HIDE DEF Some, Up
  <2> QED BY <1>3, <2>3
<1>5. \E n \in C : \A k \in C : cyl(k) < cyl(n) \/ (cyl(k) = cyl(n) /\ k <= n)
  BY <1>2, <1>4
<1> QED BY <1>5, Zenon DEF Farthest, cyl

\* A request is put behind the first one.
LEMMA PlaceInQueue ==
    ASSUME req \in [Bufs -> DiskRequests], NEW q \in Seq(Bufs), q # <<>>, NEW r \in DiskRequests
    PROVE  PlaceIn(q, r) \in 1..Len(q)
<1> DEFINE W == {i \in 1..Len(q) : ~req[q[i]].read}
           write == IF W # {} THEN Min(W) ELSE 0
           last == IF write = 0 \/ ~r.read THEN Len(q) ELSE write - 1
           C == {n \in 1..last : req[q[n]].read = r.read /\ req[q[n]].cylin <= r.cylin}
<1>1. SelectInSeq(q, LAMBDA b : ~req[b].read) = write
  BY DEF SelectInSeq
<1>2. PlaceIn(q, r) = IF C # {} THEN Farthest(q, C)
                      ELSE IF r.read /\ write # 0 THEN write
                      ELSE Len(q)
  BY <1>1 DEF PlaceIn
<1>3. Len(q) \in Nat /\ Len(q) > 0
  OBVIOUS
<1>4. write # 0 => write \in 1..Len(q)
  <2>1. W \in SUBSET Nat
    BY <1>3
  <2>2. W # {} => Min(W) \in W
    BY <2>1, MinOfNumbers
  <2> QED BY <2>2
<1>5. C \in SUBSET (1..Len(q))
  <2>1. last \in Int /\ last <= Len(q)
    BY <1>3, <1>4
  <2> HIDE DEF last
  <2> QED BY <1>3, <2>1
<1>6. C # {} => Farthest(q, C) \in 1..Len(q)
  <2> HIDE DEF C
  <2> QED BY <1>5, FarthestIn
<1> HIDE DEF C, write
<1> QED BY <1>2, <1>3, <1>4, <1>6

\* The queue after disksort: the first request remains the first.
LEMMA SortedKeeps ==
    ASSUME req \in [Bufs -> DiskRequests], NEW q \in Seq(Bufs), NEW b \in Bufs,
           NEW r \in DiskRequests
    PROVE  /\ Sorted(q, b, r) \in Seq(Bufs) /\ Sorted(q, b, r) # <<>>
           /\ q # <<>> => Head(Sorted(q, b, r)) = Head(q)
<1>1. Len(q) \in Nat
  OBVIOUS
<1>2. PICK i : i = IF q = <<>> THEN 1 ELSE PlaceIn(q, r) + 1
  OBVIOUS
<1>3. i \in 1..Len(q) + 1 /\ (q # <<>> => i > 1)
  <2>1. CASE q = <<>>
    BY <1>1, <1>2, <2>1
  <2>2. CASE q # <<>>
    <3>1. PICK p : p = PlaceIn(q, r)
      OBVIOUS
    <3>2. p \in 1..Len(q) /\ i = p + 1
      BY <1>2, <2>2, <3>1, PlaceInQueue
    <3> QED BY <1>1, <3>2
  <2> QED BY <2>1, <2>2
<1>4. PICK s : s = InsertAt(q, i, b)
  OBVIOUS
<1>5. Inserted(Bufs, q, i, b, s)
  BY <1>3, <1>4, InsertAtIndex
<1>6. s \in Seq(Bufs) /\ Len(s) = Len(q) + 1
  BY <1>5 DEF Inserted
<1>7. q # <<>> => s[1] = q[1]
  <2>1. 1 \in 1..Len(q) + 1
    BY <1>1
  <2> QED BY <1>3, <1>5, <2>1 DEF Inserted
<1>8. s # <<>> /\ (q # <<>> => Head(s) = Head(q))
  BY <1>1, <1>6, <1>7
<1>9. Sorted(q, b, r) = s
  BY <1>2, <1>4 DEF Sorted
<1> QED BY <1>6, <1>8, <1>9

----------------------------------------------------------------------------
(* The disk: hpustart *)

\* o is k with heads moved and units put on the list: no queue, and not what is being
\* transferred, is changed.
UnitStarted(k, o) ==
    /\ o \in DiskDrivers /\ o.actf = k.actf /\ (o.tab.active <=> k.tab.active)
    /\ o.tab.errcnt = k.tab.errcnt
    /\ k.tab.actf # NoBuf => o.tab.actf = k.tab.actf

\* Ready does so.
LEMMA ReadyKeeps ==
    ASSUME NEW k \in DiskDrivers, NEW u \in Units
    PROVE  UnitStarted(k, Ready(k, u))
<1>1. PICK t : t = [k.tab EXCEPT !.actf = IF k.tab.actf = NoBuf THEN u ELSE k.tab.actf,
                                 !.actl = u]
  OBVIOUS
<1>2. PICK f : f = IF k.tab.actf = NoBuf THEN [k.forw EXCEPT ![u] = NoBuf]
                   ELSE [[k.forw EXCEPT ![u] = NoBuf] EXCEPT ![k.tab.actl] = u]
  OBVIOUS
<1>3. PICK o : o = Ready(k, u)
  OBVIOUS
<1>4. o = [k EXCEPT !.tab = t, !.forw = f]
  <2>1. o = [k EXCEPT !.tab.actf = IF @ = NoBuf THEN u ELSE @, !.tab.actl = u,
                      !.forw = IF k.tab.actf = NoBuf THEN [k.forw EXCEPT ![u] = NoBuf]
                               ELSE [[k.forw EXCEPT ![u] = NoBuf] EXCEPT ![k.tab.actl] = u]]
    BY <1>3 DEF Ready
  <2> QED BY <1>1, <1>2, <2>1 DEF DiskDrivers, DiskTabs
<1>5. /\ t \in DiskTabs /\ t.active = k.tab.active /\ t.errcnt = k.tab.errcnt
      /\ k.tab.actf # NoBuf => t.actf = k.tab.actf
  <2>1. k.tab \in DiskTabs
    BY DiskFields
  <2>2. t \in DiskTabs
    BY <1>1, <2>1 DEF DiskTabs
  <2> QED BY <1>1, <2>1, <2>2 DEF DiskTabs
<1>6. f \in [Units -> Units \cup {NoBuf}]
  <2>1. k.forw \in [Units -> Units \cup {NoBuf}]
    BY DiskFields
  <2> QED BY <1>2, <2>1
<1>7. o \in DiskDrivers
  BY <1>4, <1>5, <1>6 DEF DiskDrivers
<1>8. o.actf = k.actf /\ o.tab = t
  BY <1>4 DEF DiskDrivers
<1> QED BY <1>3, <1>5, <1>7, <1>8 DEF UnitStarted

\* The driver with u active.
LEMMA BusyDriver ==
    ASSUME NEW k \in DiskDrivers, NEW u \in Units
    PROVE  LET b == [k EXCEPT !.busy = k.busy \cup {u}]
           IN  b \in DiskDrivers /\ b.actf = k.actf /\ b.tab = k.tab
<1>1. PICK b : b = [k EXCEPT !.busy = k.busy \cup {u}]
  OBVIOUS
<1>2. k.busy \cup {u} \in SUBSET Units
  BY DiskFields
<1>3. b \in DiskDrivers
  BY <1>1, <1>2 DEF DiskDrivers
<1>4. b.actf = k.actf /\ b.tab = k.tab
  BY <1>1 DEF DiskDrivers
<1> QED BY <1>1, <1>3, <1>4

\* The driver with the heads of u sent to a cylinder.
LEMMA SearchingDriver ==
    ASSUME NEW k \in DiskDrivers, NEW u \in Units, NEW cn \in Int
    PROVE  UnitStarted(k, [k EXCEPT !.hpdc[u] = cn, !.searching = @ \cup {u}])
<1>1. PICK h : h = [k.hpdc EXCEPT ![u] = cn]
  OBVIOUS
<1>2. h \in [Units -> Int] /\ k.searching \cup {u} \in SUBSET Units
  BY <1>1, DiskFields
<1>3. PICK o : o = [k EXCEPT !.hpdc[u] = cn, !.searching = @ \cup {u}]
  OBVIOUS
<1>4. o = [k EXCEPT !.hpdc = h, !.searching = k.searching \cup {u}]
  BY <1>1, <1>3 DEF DiskDrivers
<1>5. o \in DiskDrivers
  BY <1>2, <1>4 DEF DiskDrivers
<1>6. o.actf = k.actf /\ o.tab = k.tab
  BY <1>4 DEF DiskDrivers
<1> QED BY <1>3, <1>5, <1>6 DEF UnitStarted

\* hpustart does no more.
LEMMA UnitStarts ==
    ASSUME req' \in [Bufs -> DiskRequests], NEW k \in DiskDrivers, NEW u \in Units,
           NEW inPlace \in BOOLEAN
    PROVE  UnitStarted(k, hpustart(k, u, inPlace))
<1>1. CASE k.actf[u] = <<>>
  <2>1. hpustart(k, u, inPlace) = k
    BY <1>1, Zenon DEF hpustart
  <2> QED BY <2>1 DEF UnitStarted
<1>2. CASE k.actf[u] # <<>> /\ u \in k.busy
  <2>1. hpustart(k, u, inPlace) = Ready(k, u)
    BY <1>2, Zenon DEF hpustart
  <2> QED BY <2>1, ReadyKeeps
<1>3. CASE k.actf[u] # <<>> /\ u \notin k.busy
  <2>1. PICK b : b = [k EXCEPT !.busy = @ \cup {u}]
    OBVIOUS
  <2>2. PICK cn : cn = req'[Head(k.actf[u])].cylin
    OBVIOUS
  <2>3. cn \in Int
    <3>1. k.actf[u] \in Seq(Bufs)
      BY DiskFields
    <3>2. Head(k.actf[u]) \in Bufs
      BY <1>3, <3>1
    <3>3. req'[Head(k.actf[u])] \in DiskRequests
      BY <3>2
    <3> QED BY <2>2, <3>3 DEF DiskRequests
  <2>4. b \in DiskDrivers /\ b.actf = k.actf /\ b.tab = k.tab
    BY <2>1, BusyDriver
  <2>5. \/ hpustart(k, u, inPlace) = Ready(b, u)
        \/ hpustart(k, u, inPlace) = [b EXCEPT !.hpdc[u] = cn, !.searching = @ \cup {u}]
    BY <1>3, <2>1, <2>2, Zenon DEF hpustart
  <2>6. UnitStarted(b, hpustart(k, u, inPlace))
    BY <2>3, <2>4, <2>5, ReadyKeeps, SearchingDriver
  <2> QED BY <2>4, <2>6 DEF UnitStarted
<1> QED BY <1>1, <1>2, <1>3

\* hpustart one after the other.
Attend(k, u) == hpustart(k, u, TRUE)

DiskFold(m, t) ==
    CHOOSE g : g = [s \in SUBSET DOMAIN t |->
                       IF s = {} THEN m ELSE Attend(g[s \ {Max(s)}], t[Max(s)])]

\* What becomes of the driver is a value of the function that is folded.
LEMMA AttendForm ==
    ASSUME NEW m, NEW us
    PROVE  Attended(m, us) = DiskFold(m, SetToSeq(us))[DOMAIN SetToSeq(us)]
BY Zenon DEF Attended, Attend, FoldLeft, MapThenFoldSet, DiskFold

\* The units that ask for attention, in some order.
LEMMA UnitsInOrder ==
    ASSUME NEW us \in SUBSET Units
    PROVE  SetToSeq(us) \in Seq(Units)
<1> DEFINE n == Cardinality(us)
           q == SetToSeq(us)
<1>1. IsFiniteSet(us)
  BY FS_Subset, DiskAssumption
<1>2. n \in Nat /\ ExistsBijection(1..n, us)
  BY <1>1, FS_CardinalityType
<1>3. \E f \in [1..n -> us] : IsInjective(f)
  BY <1>2 DEF ExistsBijection, Bijection, Injection, IsInjective
<1>4. q = CHOOSE f \in [1..n -> us] : IsInjective(f)
  BY DEF SetToSeq
<1> HIDE DEF q
<1>5. q \in [1..n -> us]
  BY <1>3, <1>4
<1>6. q \in Seq(Units)
  BY <1>2, <1>5
<1> QED BY <1>6 DEF q

\* hpustart for one unit.
LEMMA AttendStarts ==
    ASSUME req' \in [Bufs -> DiskRequests], NEW k \in DiskDrivers, NEW u \in Units
    PROVE  UnitStarted(k, Attend(k, u))
<1>1. PICK inPlace \in BOOLEAN : inPlace
  OBVIOUS
<1>2. UnitStarted(k, hpustart(k, u, inPlace))
  BY UnitStarts
<1>3. hpustart(k, u, inPlace) = Attend(k, u)
  BY <1>1, Zenon DEF Attend, hpustart
<1> QED BY <1>2, <1>3

\* hpustart for some units.
LEMMA UnitsStart ==
    ASSUME req' \in [Bufs -> DiskRequests], NEW m \in DiskDrivers, NEW us \in SUBSET Units
    PROVE  UnitStarted(m, Attended(m, us))
<1>1. PICK t \in Seq(Units) : t = SetToSeq(us)
  BY UnitsInOrder
<1>2. PICK N \in Nat : N = Len(t)
  OBVIOUS
<1> DEFINE step == [p \in (1..N) \X DiskDrivers |-> Attend(p[2], t[p[1]])]
<1>3. \A n \in 1..N : t[n] \in Units
  BY <1>2
<1>4. step \in [(1..N) \X DiskDrivers -> DiskDrivers]
  <2>1. ASSUME NEW p \in (1..N) \X DiskDrivers PROVE Attend(p[2], t[p[1]]) \in DiskDrivers
    <3>1. p[1] \in 1..N /\ p[2] \in DiskDrivers
      OBVIOUS
    <3>2. t[p[1]] \in Units
      BY <1>3, <3>1
    <3> QED BY <3>1, <3>2, AttendStarts DEF UnitStarted
  <2> QED BY <2>1
<1>5. \A n \in 1..N, x \in DiskDrivers : step[<<n, x>>] = Attend(x, t[n])
  OBVIOUS
<1> HIDE DEF step
<1>6. HasFold(N, m, step, DiskDrivers)
  BY <1>4, FoldExists
<1>7. PICK e \in [SUBSET (1..N) -> DiskDrivers] : Iterates(N, m, step, e)
  BY <1>6, Zenon DEF HasFold
<1>8. \A s \in SUBSET (1..N) :
          e[s] = IF s = {} THEN m ELSE Attend(e[s \ {Max(s)}], t[Max(s)])
  <2>1. ASSUME NEW s \in SUBSET (1..N), s # {}
        PROVE  e[s] = Attend(e[s \ {Max(s)}], t[Max(s)])
    <3>1. Max(s) \in 1..N
      BY <2>1, MaxOfNumbers
    <3>2. s \ {Max(s)} \in SUBSET (1..N)
      OBVIOUS
    <3>3. PICK x \in DiskDrivers : x = e[s \ {Max(s)}]
      BY <1>7, <3>2
    <3>4. e[s] = step[<<Max(s), x>>]
      BY <1>7, <2>1, <3>3 DEF Iterates
    <3>5. e[s] = Attend(x, t[Max(s)])
      BY <1>5, <3>1, <3>3, <3>4
    <3> QED BY <3>3, <3>5
  <2>2. e[{}] = m
    BY <1>7 DEF Iterates
  <2> QED BY <2>1, <2>2
<1>9. e = [s \in SUBSET (1..N) |-> IF s = {} THEN m ELSE Attend(e[s \ {Max(s)}], t[Max(s)])]
  <2>1. e = [s \in SUBSET (1..N) |-> e[s]]
    BY <1>7
  <2> QED BY <1>8, <2>1
<1>10. PICK g : g = DiskFold(m, t)
  OBVIOUS
<1>11. DOMAIN t = 1..N
  BY <1>2
<1>12. g = [s \in SUBSET (1..N) |-> IF s = {} THEN m ELSE Attend(g[s \ {Max(s)}], t[Max(s)])]
  BY <1>9, <1>10, <1>11, Zenon DEF DiskFold
<1>13. Attended(m, us) = g[1..N]
  BY <1>1, <1>10, <1>11, AttendForm
<1> DEFINE v == [n \in 0..N |-> g[1..n]]
           P == [n \in 0..N |-> {k \in DiskDrivers : UnitStarted(m, k)}]
<1>14. v[0] \in P[0]
  <2>1. 1..0 = {} /\ {} \in SUBSET (1..N)
    OBVIOUS
  <2>2. g[1..0] = m
    BY <1>12, <2>1
  <2>3. UnitStarted(m, m)
    BY DEF UnitStarted
  <2> QED BY <1>2, <2>2, <2>3
<1>15. ASSUME NEW n \in 1..N, v[n - 1] \in P[n - 1] PROVE v[n] \in P[n]
  <2>1. n \in 0..N /\ n - 1 \in 0..N
    BY <1>2
  <2>2. PICK k \in DiskDrivers : k = g[1..(n - 1)] /\ UnitStarted(m, k)
    BY <1>15, <2>1
  <2>3. g[1..n] = Attend(k, t[n])
    <3>1. 1..n # {} /\ Max(1..n) = n /\ (1..n) \ {n} = 1..(n - 1)
      <4>1. n \in Nat \ {0}
        OBVIOUS
      <4> QED BY <4>1, GreatestOf
    <3>2. 1..n \in SUBSET (1..N)
      OBVIOUS
    <3> QED BY <1>12, <2>2, <3>1, <3>2
  <2>4. PICK o : o = Attend(k, t[n])
    OBVIOUS
  <2>5. UnitStarted(k, o)
    BY <1>3, <2>4, AttendStarts
  <2>6. UnitStarted(m, o)
    BY <2>2, <2>5 DEF UnitStarted
  <2>7. v[n] = o
    BY <2>1, <2>3, <2>4
  <2> QED BY <2>1, <2>5, <2>6, <2>7 DEF UnitStarted
<1>16. v[N] \in P[N]
  <2> HIDE DEF v, P
  <2> QED BY <1>14, <1>15, ChainReaches
<1> QED BY <1>13, <1>16

----------------------------------------------------------------------------
(* The disk: its steps *)

\* A request is put in the queue of its unit.
LEMMA DiskRequestStep ==
    ASSUME DiskInv, NEW b \in Bufs, Request(b)
    PROVE  DiskInv' /\ KeepsRequest
<1>1. /\ req \in [Bufs -> DiskRequests] /\ Driver \in DiskDrivers /\ att \subseteq Units
      /\ actf \in [Units -> Seq(Bufs)] /\ tab.actf \in Units \cup {NoBuf}
  BY DiskFields, DriverFields DEF DiskInv, DiskTypes
<1>2. att' = att /\ ~starting
  BY DEF Request
<1>3. PICK u \in Units, c \in Cylinders, r \in BOOLEAN, inRange, inPlace \in BOOLEAN :
        IF ~inRange
          THEN /\ RequestDone(b)
               /\ UNCHANGED <<actf, busy, tab, forw, hpdc, searching, starting>>
          ELSE LET new == [unit |-> u, cylin |-> c, read |-> r, queued |-> TRUE]
                   k == [Driver EXCEPT !.actf[u] = Sorted(@, b, new)]
               IN /\ req' = [req EXCEPT ![b] = new]
                  /\ DiskBecomes(IF u \in busy THEN k ELSE hpustart(k, u, inPlace))
                  /\ starting' = (u \notin busy /\ ~tab.active)
  BY DEF Request
<1>4. CASE ~inRange
  <2>1. RequestDone(b) /\ UNCHANGED <<actf, busy, tab, forw, hpdc, searching, starting>>
    BY <1>3, <1>4
  <2>2. req' \in [Bufs -> DiskRequests]
    <3>1. NoRequest \in DiskRequests
      BY DEF NoRequest, DiskRequests
    <3> QED BY <1>1, <2>1, <3>1 DEF RequestDone
  <2>3. Driver' = Driver
    BY <2>1 DEF Driver
  <2> QED BY <1>1, <1>2, <2>1, <2>2, <2>3 DEF DiskInv, DiskTypes, KeepsRequest, UnderWay
<1>5. CASE inRange
  <2>1. PICK new : new = [unit |-> u, cylin |-> c, read |-> r, queued |-> TRUE]
    OBVIOUS
  <2>2. PICK k : k = [Driver EXCEPT !.actf[u] = Sorted(@, b, new)]
    OBVIOUS
  <2>3. PICK o : o = IF u \in busy THEN k ELSE hpustart(k, u, inPlace)
    OBVIOUS
  <2>4. /\ req' = [req EXCEPT ![b] = new] /\ DiskBecomes(o)
        /\ starting' = (u \notin busy /\ ~tab.active)
    BY <1>3, <1>5, <2>1, <2>2, <2>3, Zenon
  <2>5. new \in DiskRequests
    <3>1. c \in Int
      BY DiskAssumption
    <3> QED BY <2>1, <3>1 DEF DiskRequests
  <2>6. req' \in [Bufs -> DiskRequests]
    BY <1>1, <2>4, <2>5
  <2>7. PICK s : s = Sorted(actf[u], b, new)
    OBVIOUS
  <2>8. s \in Seq(Bufs) /\ s # <<>> /\ (actf[u] # <<>> => Head(s) = Head(actf[u]))
    BY <1>1, <2>5, <2>7, SortedKeeps
  <2>9. k \in DiskDrivers /\ k.actf = [actf EXCEPT ![u] = s] /\ k.tab = tab
    <3>1. k = [Driver EXCEPT !.actf = [actf EXCEPT ![u] = s]]
      BY <1>1, <2>2, <2>7, DriverFields DEF DiskDrivers
    <3>2. [actf EXCEPT ![u] = s] \in [Units -> Seq(Bufs)]
      BY <1>1, <2>8
    <3>3. PICK A \in [Units -> Seq(Bufs)] : A = [actf EXCEPT ![u] = s]
      BY <3>2
    <3>4. k = [Driver EXCEPT !.actf = A]
      BY <3>1, <3>3
    <3>5. k \in DiskDrivers
      BY <1>1, <3>4 DEF DiskDrivers
    <3>6. k.actf = A /\ k.tab = Driver.tab
      BY <1>1, <3>4 DEF DiskDrivers
    <3> QED BY <3>3, <3>5, <3>6, DriverFields
  <2>10. UnitStarted(k, o)
    <3>1. CASE u \in busy
      BY <2>3, <2>9, <3>1 DEF UnitStarted
    <3>2. CASE u \notin busy
      BY <2>3, <2>6, <2>9, <3>2, UnitStarts
    <3> QED BY <3>1, <3>2
  <2>11. Driver' = o /\ o \in DiskDrivers
    BY <2>4, <2>10, BecomesDriver DEF UnitStarted
  <2>12. actf' = [actf EXCEPT ![u] = s] /\ (UnderWay' <=> UnderWay)
         /\ (tab'.active <=> tab.active) /\ (tab.actf # NoBuf => tab'.actf = tab.actf)
    BY <2>4, <2>9, <2>10 DEF UnitStarted, DiskBecomes, UnderWay
  <2>13. ASSUME UnderWay
         PROVE  /\ tab'.actf = tab.actf /\ tab.actf # NoBuf /\ actf'[tab.actf] # <<>>
                /\ Head(actf'[tab.actf]) = Head(actf[tab.actf])
    <3>1. tab.actf \in Units /\ tab.actf # NoBuf /\ actf[tab.actf] # <<>>
      BY <1>1, <2>13 DEF DiskInv
    <3>2. tab'.actf = tab.actf
      BY <2>12, <3>1
    <3>3. actf'[tab.actf] = IF tab.actf = u THEN s ELSE actf[tab.actf]
      BY <1>1, <2>12, <3>1
    <3> QED BY <2>8, <3>1, <3>2, <3>3
  <2>14. UnderWay => tab.active
    BY <1>2 DEF DiskInv
  <2>15. UnderWay' => (tab'.active <=> ~starting')
    BY <2>4, <2>12, <2>14
  <2>16. DiskTypes'
    BY <1>1, <1>2, <2>6, <2>11 DEF DiskTypes
  <2> QED BY <2>12, <2>13, <2>15, <2>16 DEF DiskInv, KeepsRequest
<1> QED BY <1>4, <1>5

\* A step that starts nothing: no transfer goes on after it.
LEMMA DiskQuiet ==
    ASSUME DiskTypes', ~UnderWay'
    PROVE  DiskInv' /\ KeepsRequest
BY DEF DiskInv, KeepsRequest

\* A request is done with.
LEMMA DoneKeeps ==
    ASSUME req \in [Bufs -> DiskRequests], NEW b, RequestDone(b)
    PROVE  req' \in [Bufs -> DiskRequests]
<1>1. NoRequest \in DiskRequests
  BY DEF NoRequest, DiskRequests
<1> QED BY <1>1 DEF RequestDone

\* hptab's list begins elsewhere.
LEMMA TabMoved ==
    ASSUME NEW t \in DiskTabs, NEW a \in Units \cup {NoBuf}, NEW o,
           o = [t EXCEPT !.actf = a]
    PROVE  o \in DiskTabs /\ (o.active <=> t.active) /\ o.errcnt = t.errcnt
<1>1. TRUE \in BOOLEAN /\ FALSE \in BOOLEAN
  OBVIOUS
<1>2. o \in DiskTabs
  BY <1>1 DEF DiskTabs
<1>3. (o.active <=> t.active) /\ o.errcnt = t.errcnt
  BY DEF DiskTabs
<1> QED BY <1>2, <1>3

\* A transfer begins.
LEMMA TabStarted ==
    ASSUME NEW t \in DiskTabs, NEW o, o = [t EXCEPT !.active = TRUE]
    PROVE  o \in DiskTabs /\ o.active /\ o.actf = t.actf
<1>1. TRUE \in BOOLEAN /\ FALSE \in BOOLEAN
  OBVIOUS
<1>2. o \in DiskTabs
  BY <1>1 DEF DiskTabs
<1>3. o.active /\ o.actf = t.actf
  BY DEF DiskTabs
<1> QED BY <1>2, <1>3

\* A transfer ends, or will be tried again; or it ends, and the list goes on.
StoppedTab(t, e, o) == o = [t EXCEPT !.active = FALSE, !.errcnt = e]
EndedTab(t, e, a, o) == o = [t EXCEPT !.active = FALSE, !.errcnt = e, !.actf = a]

\* What that changes.
LEMMA TabStopped ==
    ASSUME NEW t \in DiskTabs, NEW e \in Int, NEW o, StoppedTab(t, e, o)
    PROVE  o \in DiskTabs /\ ~o.active /\ o.errcnt = e /\ o.actf = t.actf
<1>1. TRUE \in BOOLEAN /\ FALSE \in BOOLEAN
  OBVIOUS
<1>2. o \in DiskTabs
  BY <1>1 DEF StoppedTab, DiskTabs
<1>3. ~o.active /\ o.errcnt = e /\ o.actf = t.actf
  BY DEF StoppedTab, DiskTabs
<1> QED BY <1>2, <1>3

\* A transfer ends, and the list goes on.
LEMMA TabEnded ==
    ASSUME NEW t \in DiskTabs, NEW e \in Int, NEW a \in Units \cup {NoBuf}, NEW o,
           EndedTab(t, e, a, o)
    PROVE  o \in DiskTabs /\ ~o.active /\ o.errcnt = e
<1>1. TRUE \in BOOLEAN /\ FALSE \in BOOLEAN
  OBVIOUS
<1>2. o \in DiskTabs
  BY <1>1 DEF EndedTab, DiskTabs
<1>3. ~o.active /\ o.errcnt = e
  BY DEF EndedTab, DiskTabs
<1> QED BY <1>2, <1>3

\* hpstart keeps the invariant.
LEMMA HpstartStep == ASSUME DiskInv, hpstart PROVE DiskInv' /\ KeepsRequest
<1>1. /\ req \in [Bufs -> DiskRequests] /\ Driver \in DiskDrivers /\ att \subseteq Units
      /\ actf \in [Units -> Seq(Bufs)] /\ tab \in DiskTabs /\ tab.actf \in Units \cup {NoBuf}
      /\ forw \in [Units -> Units \cup {NoBuf}] /\ hpdc \in [Units -> Int]
      /\ busy \in SUBSET Units /\ searching \in SUBSET Units
  BY DiskFields, DriverFields DEF DiskInv, DiskTypes
<1>2. tab.active \in BOOLEAN /\ tab.errcnt \in Int
  BY <1>1 DEF DiskTabs
<1>3. UNCHANGED <<att, busy, forw, searching>>
  BY DEF hpstart, StartSkip, StartOffline, StartTransfer, StartNothing
<1>4. ASSUME actf' \in [Units -> Seq(Bufs)], tab' \in DiskTabs, hpdc' \in [Units -> Int],
             req' \in [Bufs -> DiskRequests]
      PROVE  DiskTypes'
  <2>1. Driver' \in DiskDrivers
    BY <1>1, <1>3, <1>4 DEF DiskDrivers, Driver
  <2> QED BY <1>1, <1>3, <1>4, <2>1 DEF DiskTypes
<1>5. CASE StartSkip
  <2>1. /\ tab' = [tab EXCEPT !.actf = forw[tab.actf]] /\ tab.actf # NoBuf
        /\ actf' = actf /\ hpdc' = hpdc /\ req' = req /\ actf[tab.actf] = <<>>
    BY <1>5 DEF StartSkip
  <2>2. PICK a : a = forw[tab.actf]
    OBVIOUS
  <2>3. a \in Units \cup {NoBuf} /\ 0 \in Int
    BY <1>1, <2>1, <2>2
  <2>4. tab' = [tab EXCEPT !.actf = a]
    BY <2>1, <2>2
  <2>5. tab' \in DiskTabs /\ (tab'.active <=> tab.active) /\ tab'.errcnt = tab.errcnt
    BY <1>1, <2>3, <2>4, TabMoved
  <2>6. DiskTypes'
    BY <1>1, <1>4, <2>1, <2>5
  <2>7. ~UnderWay'
    BY <2>1, <2>5 DEF DiskInv, UnderWay
  <2> QED BY <2>6, <2>7, DiskQuiet
<1>6. CASE StartOffline
  <2>1. /\ tab.actf # NoBuf /\ actf[tab.actf] # <<>>
        /\ RequestDone(Head(actf[tab.actf]))
        /\ actf' = [actf EXCEPT ![tab.actf] = Tail(@)]
        /\ tab' = [tab EXCEPT !.active = FALSE, !.errcnt = 0] /\ hpdc' = hpdc
    BY <1>6 DEF StartOffline
  <2>2. actf' \in [Units -> Seq(Bufs)]
    <3>1. PICK q : q = Tail(actf[tab.actf])
      OBVIOUS
    <3>2. q \in Seq(Bufs)
      BY <1>1, <2>1, <3>1
    <3>3. actf' = [actf EXCEPT ![tab.actf] = q]
      BY <2>1, <3>1
    <3> QED BY <1>1, <3>2, <3>3
  <2>3. tab' \in DiskTabs /\ ~tab'.active /\ tab'.errcnt = 0
    <3>1. PICK e \in Int : e = 0
      OBVIOUS
    <3>2. tab' = [tab EXCEPT !.active = FALSE, !.errcnt = e]
      BY <2>1, <3>1
    <3>3. StoppedTab(tab, e, tab')
      BY <3>2 DEF StoppedTab
    <3>4. tab' \in DiskTabs /\ ~tab'.active /\ tab'.errcnt = e
      BY <1>1, <3>3, TabStopped
    <3> QED BY <3>1, <3>4
  <2>4. req' \in [Bufs -> DiskRequests]
    BY <1>1, <2>1, DoneKeeps
  <2>5. DiskTypes'
    BY <1>1, <1>4, <2>1, <2>2, <2>3, <2>4
  <2>6. ~UnderWay'
    BY <2>3 DEF UnderWay
  <2> QED BY <2>5, <2>6, DiskQuiet
<1>7. CASE StartTransfer
  <2>1. /\ tab.actf # NoBuf /\ actf[tab.actf] # <<>>
        /\ tab' = [tab EXCEPT !.active = TRUE]
        /\ hpdc' = [hpdc EXCEPT ![tab.actf] = req[Head(actf[tab.actf])].cylin]
        /\ ~starting' /\ actf' = actf /\ req' = req
    BY <1>7 DEF StartTransfer
  <2>2. hpdc' \in [Units -> Int]
    <3>1. PICK q : q = actf[tab.actf]
      OBVIOUS
    <3>2. q \in Seq(Bufs) /\ q # <<>>
      BY <1>1, <2>1, <3>1
    <3>3. PICK x : x = Head(q)
      OBVIOUS
    <3>4. x \in Bufs
      BY <3>2, <3>3
    <3>5. req[x] \in DiskRequests
      BY <1>1, <3>4
    <3>6. req[x].cylin \in Int
      BY <3>5 DEF DiskRequests
    <3> QED BY <1>1, <2>1, <3>1, <3>3, <3>6
  <2>3. tab' \in DiskTabs /\ tab'.actf = tab.actf /\ tab'.active
    BY <1>1, <2>1, TabStarted
  <2>4. DiskTypes'
    BY <1>1, <1>4, <2>1, <2>2, <2>3
  <2> QED BY <2>1, <2>3, <2>4 DEF DiskInv, KeepsRequest
<1>8. CASE StartNothing
  <2>1. tab' = tab /\ actf' = actf /\ hpdc' = hpdc /\ req' = req /\ tab.actf = NoBuf
    BY <1>8 DEF StartNothing
  <2>2. DiskTypes'
    BY <1>1, <1>4, <2>1
  <2>3. ~UnderWay'
    BY <2>1 DEF DiskInv, UnderWay
  <2> QED BY <2>2, <2>3, DiskQuiet
<1> QED BY <1>5, <1>6, <1>7, <1>8 DEF hpstart

\* A driver's state in which nothing is being transferred, from which units are started.
LEMMA QuietStarts ==
    ASSUME DiskInv, req' \in [Bufs -> DiskRequests], att' = {},
           NEW k \in DiskDrivers, ~k.tab.active, k.tab.errcnt = 0, NEW us \in SUBSET Units,
           DiskBecomes(Attended(k, us))
    PROVE  DiskInv' /\ KeepsRequest
<1>1. PICK o : o = Attended(k, us)
  OBVIOUS
<1>2. UnitStarted(k, o)
  BY <1>1, UnitsStart
<1>3. o \in DiskDrivers /\ ~o.tab.active /\ o.tab.errcnt = 0
  BY <1>2 DEF UnitStarted
<1>4. Driver' = o
  BY <1>1, <1>3, BecomesDriver
<1>5. tab' = o.tab
  BY <1>1 DEF DiskBecomes
<1>6. DiskTypes'
  BY <1>3, <1>4 DEF DiskTypes
<1>7. ~UnderWay'
  BY <1>3, <1>5 DEF UnderWay
<1> QED BY <1>6, <1>7, DiskQuiet

\* hpintr keeps the invariant, and a request that is to be tried again.
LEMMA HpintrStep == ASSUME DiskInv, hpintr PROVE DiskInv' /\ KeepsRequest
<1>1. /\ req \in [Bufs -> DiskRequests] /\ Driver \in DiskDrivers /\ att \subseteq Units
      /\ actf \in [Units -> Seq(Bufs)] /\ tab \in DiskTabs /\ tab.actf \in Units \cup {NoBuf}
      /\ forw \in [Units -> Units \cup {NoBuf}] /\ busy \in SUBSET Units /\ tab.errcnt \in Int
  BY DiskFields, DriverFields DEF DiskInv, DiskTypes
<1>2. CASE IntrEnd
  <2>1. tab.active /\ att' = {} /\ Ends
    BY <1>2 DEF IntrEnd
  <2>2. tab.actf \in Units /\ actf[tab.actf] # <<>>
    BY <1>1, <2>1 DEF DiskInv, UnderWay
  <2>3. PICK u \in Units : u = tab.actf
    BY <2>2
  <2>4. PICK q : q = Tail(actf[u])
    OBVIOUS
  <2>5. PICK k : k = [Driver EXCEPT !.tab.active = FALSE, !.tab.errcnt = 0,
                         !.tab.actf = forw[u], !.busy = @ \ {u}, !.actf[u] = Tail(@)]
    OBVIOUS
  <2>6. PICK inPlace \in BOOLEAN :
            /\ RequestDone(Head(actf[u]))
            /\ DiskBecomes(Attended(hpustart(k, u, inPlace), att \ {u}))
    BY <2>1, <2>3, <2>5 DEF Ends
  <2>7. req' \in [Bufs -> DiskRequests]
    BY <1>1, <2>6, DoneKeeps
  <2>8. k \in DiskDrivers /\ ~k.tab.active /\ k.tab.errcnt = 0
    <3>1. PICK A : A = [actf EXCEPT ![u] = q]
      OBVIOUS
    <3>2. q \in Seq(Bufs)
      BY <1>1, <2>2, <2>3, <2>4
    <3>3. A \in [Units -> Seq(Bufs)]
      BY <1>1, <3>1, <3>2
    <3>4. PICK a \in Units \cup {NoBuf}, e \in Int : a = forw[u] /\ e = 0
      BY <1>1
    <3>5. PICK t : t = [tab EXCEPT !.active = FALSE, !.errcnt = e, !.actf = a]
      OBVIOUS
    <3>6. t \in DiskTabs /\ ~t.active /\ t.errcnt = 0
      <4>1. t \in DiskTabs /\ ~t.active /\ t.errcnt = e
        <5>1. EndedTab(tab, e, a, t)
          BY <3>5 DEF EndedTab
        <5> QED BY <1>1, <5>1, TabEnded
      <4> QED BY <3>4, <4>1
    <3>7. k = [Driver EXCEPT !.tab = t, !.busy = busy \ {u}, !.actf = A]
      BY <1>1, <2>4, <2>5, <3>1, <3>4, <3>5, DriverFields, ZenonT(60) DEF DiskDrivers, DiskTabs
    <3>8. busy \ {u} \in SUBSET Units
      BY <1>1
    <3>9. PICK B \in SUBSET Units : B = busy \ {u}
      BY <3>8
    <3>10. k = [Driver EXCEPT !.tab = t, !.busy = B, !.actf = A]
      BY <3>7, <3>9
    <3>11. k \in DiskDrivers
      BY <1>1, <3>3, <3>6, <3>10 DEF DiskDrivers
    <3>12. k.tab = t
      BY <1>1, <3>10 DEF DiskDrivers
    <3> QED BY <3>6, <3>11, <3>12
  <2>9. PICK o : o = hpustart(k, u, inPlace)
    OBVIOUS
  <2>10. UnitStarted(k, o)
    BY <2>7, <2>8, <2>9, UnitStarts
  <2>11. o \in DiskDrivers /\ ~o.tab.active /\ o.tab.errcnt = 0
    BY <2>8, <2>10 DEF UnitStarted
  <2>12. att \ {u} \in SUBSET Units /\ DiskBecomes(Attended(o, att \ {u}))
    BY <1>1, <2>6, <2>9
  <2> QED BY <2>1, <2>7, <2>11, <2>12, QuietStarts
<1>3. CASE DiskRetry
  <2>1. PICK k : k = [Driver EXCEPT !.tab.active = FALSE, !.tab.errcnt = @ + 1]
    OBVIOUS
  <2>2. /\ DiskBecomes(Attended(k, att \ {tab.actf})) /\ att' = {} /\ req' = req
        /\ tab.active /\ starting'
    BY <1>3, <2>1 DEF DiskRetry
  <2>3. k \in DiskDrivers /\ ~k.tab.active /\ k.tab.actf = tab.actf /\ k.actf = actf
    <3>1. PICK e \in Int : e = tab.errcnt + 1
      BY <1>1
    <3>2. PICK t : t = [tab EXCEPT !.active = FALSE, !.errcnt = e]
      OBVIOUS
    <3>3. t \in DiskTabs /\ ~t.active /\ t.actf = tab.actf
      <4>1. StoppedTab(tab, e, t)
        BY <3>2 DEF StoppedTab
      <4> QED BY <1>1, <4>1, TabStopped
    <3>4. k = [Driver EXCEPT !.tab = t]
      BY <1>1, <2>1, <3>1, <3>2, DriverFields DEF DiskDrivers, DiskTabs
    <3>5. k \in DiskDrivers
      BY <1>1, <3>3, <3>4 DEF DiskDrivers
    <3>6. k.tab = t /\ k.actf = actf
      BY <1>1, <3>4, DriverFields DEF DiskDrivers
    <3> QED BY <3>3, <3>5, <3>6
  <2>4. att \ {tab.actf} \in SUBSET Units /\ req' \in [Bufs -> DiskRequests]
    BY <1>1, <2>2
  <2>5. PICK o : o = Attended(k, att \ {tab.actf})
    OBVIOUS
  <2>6. UnitStarted(k, o)
    BY <2>3, <2>4, <2>5, UnitsStart
  <2>7. tab.actf # NoBuf /\ actf[tab.actf] # <<>>
    BY <2>2 DEF DiskInv, UnderWay
  <2>8. o \in DiskDrivers /\ ~o.tab.active /\ o.tab.actf = tab.actf /\ o.actf = actf
    BY <2>3, <2>6, <2>7 DEF UnitStarted
  <2>9. Driver' = o /\ tab' = o.tab /\ actf' = o.actf
    BY <2>2, <2>5, <2>8, BecomesDriver DEF DiskBecomes
  <2>10. DiskTypes'
    BY <2>2, <2>4, <2>8, <2>9 DEF DiskTypes
  <2> QED BY <2>2, <2>7, <2>8, <2>9, <2>10 DEF DiskInv, KeepsRequest
<1>4. CASE IntrAttention
  <2>1. DiskBecomes(Attended(Driver, att)) /\ att' = {} /\ req' = req /\ ~tab.active
        /\ ~starting
    BY <1>4 DEF IntrAttention
  <2>2. ~Driver.tab.active /\ Driver.tab.errcnt = 0
    BY <2>1, DriverFields DEF DiskInv, UnderWay
  <2>3. att \in SUBSET Units /\ req' \in [Bufs -> DiskRequests]
    BY <1>1, <2>1
  <2> QED BY <1>1, <2>1, <2>2, <2>3, QuietStarts
<1> QED BY <1>2, <1>3, <1>4 DEF hpintr

\* What the drives do keeps the invariant.
LEMMA DrivesStep ==
    ASSUME DiskInv, SearchEnds \/ DriveEvent \/ UNCHANGED diskVars
    PROVE  DiskInv' /\ KeepsRequest
<1>1. /\ req \in [Bufs -> DiskRequests] /\ Driver \in DiskDrivers /\ att \subseteq Units
      /\ actf \in [Units -> Seq(Bufs)] /\ tab \in DiskTabs
      /\ forw \in [Units -> Units \cup {NoBuf}] /\ hpdc \in [Units -> Int]
      /\ busy \in SUBSET Units /\ searching \in SUBSET Units
  BY DiskFields, DriverFields DEF DiskInv, DiskTypes
<1>2. UNCHANGED <<req, actf, busy, tab, forw, starting, hpdc>>
  BY DEF SearchEnds, DriveEvent, diskVars
<1>3. searching' \in SUBSET Units /\ att' \subseteq Units
  <2>1. CASE SearchEnds
    <3>1. PICK u \in searching : searching' = searching \ {u} /\ att' = att \cup {u}
      BY <2>1 DEF SearchEnds
    <3> QED BY <1>1, <3>1
  <2>2. CASE DriveEvent
    <3>1. PICK u \in Units : searching' = searching \ {u} /\ att' = att \cup {u}
      BY <2>2 DEF DriveEvent
    <3> QED BY <1>1, <3>1
  <2>3. CASE UNCHANGED diskVars
    BY <1>1, <2>3 DEF diskVars
  <2> QED BY <2>1, <2>2, <2>3
<1>4. Driver' \in DiskDrivers
  BY <1>1, <1>2, <1>3 DEF Driver, DiskDrivers
<1>5. DiskTypes'
  BY <1>1, <1>2, <1>3, <1>4 DEF DiskTypes
<1> QED BY <1>2, <1>5 DEF DiskInv, KeepsRequest, UnderWay

\* The first states satisfy it.
LEMMA DiskInitially == ASSUME DiskInit PROVE DiskInv
<1>1. req \in [Bufs -> DiskRequests]
  <2>1. NoRequest \in DiskRequests
    BY DEF NoRequest, DiskRequests
  <2> QED BY <2>1 DEF DiskInit
<1>2. tab \in DiskTabs /\ ~tab.active /\ tab.errcnt = 0
  BY DEF DiskInit, DiskTabs
<1>3. /\ actf \in [Units -> Seq(Bufs)] /\ busy \in SUBSET Units
      /\ forw \in [Units -> Units \cup {NoBuf}] /\ hpdc \in [Units -> Int]
      /\ searching \in SUBSET Units /\ att \subseteq Units
  <2>1. <<>> \in Seq(Bufs)
    OBVIOUS
  <2> QED BY <2>1 DEF DiskInit
<1>4. Driver \in DiskDrivers
  BY <1>2, <1>3 DEF Driver, DiskDrivers
<1>5. DiskTypes
  BY <1>1, <1>3, <1>4 DEF DiskTypes
<1> QED BY <1>2, <1>5 DEF DiskInv, UnderWay

\* Every step keeps the invariant, and the request that is under way.
LEMMA DiskStep ==
    ASSUME DiskInv, [DiskNext]_diskVars
    PROVE  DiskInv' /\ KeepsRequest
<1>1. CASE \E b \in Bufs : Request(b)
  BY <1>1, DiskRequestStep
<1>2. CASE hpstart
  BY <1>2, HpstartStep
<1>3. CASE hpintr
  BY <1>3, HpintrStep
<1>4. CASE SearchEnds \/ DriveEvent \/ UNCHANGED diskVars
  BY <1>4, DrivesStep
<1> QED BY <1>1, <1>2, <1>3, <1>4 DEF DiskNext

\* For any number of drives and requests, the types of hp.c's state hold, and a transfer is
\* for the first request of the drive at the front of the controller's list.
THEOREM DiskInvariant == DiskSpec => []DiskInv
<1>1. DiskInit => DiskInv
  BY DiskInitially
<1>2. DiskInv /\ [DiskNext]_diskVars => DiskInv'
  BY DiskStep
<1> QED BY <1>1, <1>2, PTL DEF DiskSpec

\* However requests are sorted in (dsort.c), and drives seek and ask for attention, the
\* request that is being transferred, or tried again, stays the same.
THEOREM DiskTheorem == DiskSpec => TransfersKeep
<1>1. DiskInv /\ [DiskNext]_diskVars =>
        [UnderWay /\ UnderWay' => tab'.actf = tab.actf
                                   /\ Head(actf'[tab.actf]) = Head(actf[tab.actf])]_diskVars
  BY DiskStep DEF KeepsRequest
<1> QED BY <1>1, DiskInvariant, PTL DEF DiskSpec, TransfersKeep
=============================================================================
