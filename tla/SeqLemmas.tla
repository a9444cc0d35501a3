----------------------------- MODULE SeqLemmas -----------------------------
(***************************************************************************)
(* Facts about the least of a set of numbers, by which the kernel takes    *)
(* the first free entry of a table, about remainders, by which its counts  *)
(* wrap, about membership and distinctness in the sequences that model its       *)
(* linked lists, and about folds.                                          *)
(***************************************************************************)
EXTENDS SequencesExt, SequenceTheorems, WellFoundedInduction, TLAPS

\* A set of numbers that is not empty has a least one.
LEMMA LeastNumber ==
    ASSUME NEW S \in SUBSET Nat, S # {}
    PROVE  \E x \in S : \A y \in S : x <= y
<1> DEFINE R == {ss \in Nat \X Nat : ss[1] < ss[2]}
<1>1. R = OpToRel(<, Nat)
  BY Zenon DEF OpToRel
<1>2. IsWellFoundedOn(R, Nat)
  BY <1>1, NatLessThanWellFounded, Zenon
<1> HIDE DEF R
<1>3. PICK x \in S : \A y \in S : ~(<<y, x>> \in R)
  BY <1>2, WFMin, Zenon
<1>4. \A y \in S : y < x => <<y, x>> \in R
  BY DEF R
<1>5. x \in Nat /\ \A y \in S : y \in Nat
  OBVIOUS
<1>6. \A y \in S : ~(y < x)
  BY <1>3, <1>4, Zenon
<1>7. \A y \in S : x <= y
  BY <1>5, <1>6
<1> QED BY <1>7

\* Min returns it.
LEMMA MinOfNumbers ==
    ASSUME NEW S \in SUBSET Nat, S # {}
    PROVE  Min(S) \in S /\ \A y \in S : Min(S) <= y
<1>1. \E x \in S : \A y \in S : x <= y
  BY LeastNumber
<1> QED BY <1>1 DEF Min

\* Who writes a number as multiples of a modulus and a rest knows its rest.
LEMMA RestIs ==
    ASSUME NEW m \in Nat \ {0}, NEW q \in Int, NEW r \in 0..m - 1,
           NEW a, a = q * m + r
    PROVE  a % m = r
<1>1. (q * m + r) % m = r
  OBVIOUS
<1> QED BY <1>1, Zenon

\* Every number can be written so.
LEMMA Division ==
    ASSUME NEW a \in Int, NEW m \in Nat \ {0}
    PROVE  \E q \in Int, r \in 0..m - 1 : a = q * m + r /\ a % m = r
<1> DEFINE q == a \div m
           r == a - q * m
<1>1. q \in Int
  OBVIOUS
<1>2. q * m \in Int /\ q * m <= a /\ a < q * m + m
  <2> HIDE DEF q
  <2>1. q = a \div m
    BY DEF q
  <2> QED BY <1>1, <2>1
<1> HIDE DEF q
<1>3. r \in 0..m - 1 /\ a = q * m + r
  BY <1>1, <1>2
<1> HIDE DEF r
<1>4. a % m = r
  BY <1>1, <1>3, RestIs
<1> QED BY <1>1, <1>3, <1>4

\* For a sequence, being injective is having no element twice.
LEMMA InjectiveSeq ==
    ASSUME NEW S, NEW s \in Seq(S)
    PROVE  IsInjective(s) <=> \A a, b \in 1..Len(s) : s[a] = s[b] => a = b
<1>1. DOMAIN s = 1..Len(s)
  OBVIOUS
<1> QED BY <1>1 DEF IsInjective

\* The elements of a list after element i is taken off.
LEMMA RemoveAtIndex ==
    ASSUME NEW S, NEW s \in Seq(S), NEW i \in 1..Len(s)
    PROVE  /\ RemoveAt(s, i) \in Seq(S) /\ Len(RemoveAt(s, i)) = Len(s) - 1
           /\ \A k \in 1..Len(RemoveAt(s, i)) :
                 RemoveAt(s, i)[k] = IF k < i THEN s[k] ELSE s[k + 1]
<1> DEFINE r == RemoveAt(s, i)
<1> DEFINE u == SubSeq(s, 1, i - 1)
           v == SubSeq(s, i + 1, Len(s))
<1>1. u \in Seq(S) /\ Len(u) = i - 1 /\ \A k \in 1..(i - 1) : u[k] = s[k]
  BY SubSeqProperties
<1>2. v \in Seq(S) /\ Len(v) = Len(s) - i /\ \A k \in 1..(Len(s) - i) : v[k] = s[i + k]
  BY SubSeqProperties
<1>3. r = u \o v
  BY DEF RemoveAt
<1> HIDE DEF u, v, r
<1>4. /\ r \in Seq(S)
      /\ Len(r) = Len(s) - 1
      /\ \A k \in 1..(Len(s) - 1) :
            r[k] = IF k <= i - 1 THEN u[k] ELSE v[k - (i - 1)]
  <2>1. /\ u \o v \in Seq(S)
        /\ Len(u \o v) = Len(u) + Len(v)
        /\ \A k \in 1..(Len(u) + Len(v)) :
              (u \o v)[k] = IF k <= Len(u) THEN u[k] ELSE v[k - Len(u)]
    BY <1>1, <1>2, ConcatProperties
  <2>2. Len(u) = i - 1 /\ Len(u) + Len(v) = Len(s) - 1
    BY <1>1, <1>2
  <2> QED BY <2>1, <2>2, <1>3
<1>5. ASSUME NEW k \in 1..Len(r)
      PROVE  r[k] = IF k < i THEN s[k] ELSE s[k + 1]
  <2>1. CASE k < i
    BY <2>1, <1>1, <1>2, <1>3, <1>4
  <2>2. CASE ~(k < i)
    <3>1. r[k] = v[k - (i - 1)] /\ k - (i - 1) \in 1..(Len(s) - i)
      BY <2>2, <1>1, <1>2, <1>3, <1>4
    <3>2. i + (k - (i - 1)) = k + 1
      BY <1>4
    <3> QED BY <2>2, <3>1, <3>2, <1>2
  <2> QED BY <2>1, <2>2
<1>6. r \in Seq(S) /\ Len(r) = Len(s) - 1
  BY <1>4
<1> QED BY <1>5, <1>6 DEF r

\* Taking element i off a list without repetitions removes just that element.
LEMMA RemoveAtProps ==
    ASSUME NEW S, NEW s \in Seq(S), IsInjective(s), NEW i \in 1..Len(s)
    PROVE  /\ RemoveAt(s, i) \in Seq(S)
           /\ IsInjective(RemoveAt(s, i))
           /\ \A x : Contains(RemoveAt(s, i), x) <=> Contains(s, x) /\ x # s[i]
<1> DEFINE r == RemoveAt(s, i)
<1>1. /\ r \in Seq(S) /\ Len(r) = Len(s) - 1
      /\ \A k \in 1..Len(r) : r[k] = IF k < i THEN s[k] ELSE s[k + 1]
  BY RemoveAtIndex
<1> HIDE DEF r
<1>2. IsInjective(r)
  <2> SUFFICES ASSUME NEW a \in 1..Len(r), NEW b \in 1..Len(r), r[a] = r[b]
               PROVE  a = b
    BY <1>1, InjectiveSeq
  <2>1. \A j, k \in 1..Len(s) : s[j] = s[k] => j = k
    BY InjectiveSeq
  <2>2. /\ a \in 1..Len(s) /\ a + 1 \in 1..Len(s)
        /\ b \in 1..Len(s) /\ b + 1 \in 1..Len(s)
    BY <1>1
  <2>3. /\ r[a] = IF a < i THEN s[a] ELSE s[a + 1]
        /\ r[b] = IF b < i THEN s[b] ELSE s[b + 1]
    BY <1>1
  <2> DEFINE f(k) == IF k < i THEN k ELSE k + 1
  <2>4. f(a) \in 1..Len(s) /\ f(b) \in 1..Len(s) /\ s[f(a)] = s[f(b)]
    BY <2>2, <2>3
  <2>5. f(a) = f(b)
    <3> HIDE DEF f
    <3> QED BY <2>1, <2>4
  <2>6. a \in Int /\ b \in Int /\ i \in Int
    BY <2>2
  <2> QED BY <2>5, <2>6
<1>3. ASSUME NEW x, Contains(r, x) PROVE Contains(s, x) /\ x # s[i]
  <2>0. \A j, k \in 1..Len(s) : s[j] = s[k] => j = k
    BY InjectiveSeq
  <2>1. PICK k \in 1..Len(r) : r[k] = x
    BY <1>3 DEF Contains
  <2>2. k \in 1..Len(s) /\ k + 1 \in 1..Len(s) /\ i \in 1..Len(s)
    BY <1>1
  <2>3. CASE k < i
    BY <2>0, <2>1, <2>2, <2>3, <1>1 DEF Contains
  <2>4. CASE ~(k < i)
    BY <2>0, <2>1, <2>2, <2>4, <1>1 DEF Contains
  <2> QED BY <2>3, <2>4
<1>4. ASSUME NEW x, Contains(s, x), x # s[i] PROVE Contains(r, x)
  <2>1. PICK k \in 1..Len(s) : s[k] = x
    BY <1>4 DEF Contains
  <2>2. CASE k < i
    <3>1. k \in 1..Len(r) /\ r[k] = x
      BY <2>1, <2>2, <1>1
    <3> QED BY <3>1 DEF Contains
  <2>3. CASE k > i
    <3>1. k - 1 \in 1..Len(r) /\ r[k - 1] = x
      BY <2>1, <2>3, <1>1
    <3> QED BY <3>1 DEF Contains
  <2> QED BY <2>1, <2>2, <2>3, <1>4
<1> QED BY <1>1, <1>2, <1>3, <1>4 DEF r

\* Putting a new element at the tail of a list.
LEMMA AppendProps ==
    ASSUME NEW S, NEW s \in Seq(S), IsInjective(s), NEW e \in S, ~Contains(s, e)
    PROVE  /\ Append(s, e) \in Seq(S)
           /\ IsInjective(Append(s, e))
           /\ \A x : Contains(Append(s, e), x) <=> Contains(s, x) \/ x = e
<1> DEFINE r == Append(s, e)
<1>1. /\ r \in Seq(S) /\ Len(r) = Len(s) + 1 /\ r[Len(r)] = e
      /\ \A k \in 1..Len(s) : r[k] = s[k]
  OBVIOUS
<1> HIDE DEF r
<1>2. \A k \in 1..Len(s) : s[k] # e
  BY DEF Contains
<1>3. IsInjective(r)
  <2> SUFFICES ASSUME NEW a \in 1..Len(r), NEW b \in 1..Len(r), r[a] = r[b]
               PROVE  a = b
    BY <1>1, InjectiveSeq
  <2>1. \A j, k \in 1..Len(s) : s[j] = s[k] => j = k
    BY InjectiveSeq
  <2> QED BY <1>1, <1>2, <2>1
<1>4. \A x : Contains(r, x) <=> Contains(s, x) \/ x = e
  BY <1>1 DEF Contains
<1> QED BY <1>1, <1>3, <1>4 DEF r

\* Putting a new element at the head of a list.
LEMMA PrependProps ==
    ASSUME NEW S, NEW s \in Seq(S), IsInjective(s), NEW e \in S, ~Contains(s, e)
    PROVE  /\ <<e>> \o s \in Seq(S)
           /\ IsInjective(<<e>> \o s)
           /\ \A x : Contains(<<e>> \o s, x) <=> Contains(s, x) \/ x = e
<1> DEFINE r == <<e>> \o s
<1>1. /\ r \in Seq(S) /\ Len(r) = Len(s) + 1 /\ r[1] = e
      /\ \A k \in 2..Len(r) : r[k] = s[k - 1]
  OBVIOUS
<1> HIDE DEF r
<1>2. \A k \in 1..Len(s) : s[k] # e
  BY DEF Contains
<1>3. IsInjective(r)
  <2> SUFFICES ASSUME NEW a \in 1..Len(r), NEW b \in 1..Len(r), r[a] = r[b]
               PROVE  a = b
    BY <1>1, InjectiveSeq
  <2>1. \A j, k \in 1..Len(s) : s[j] = s[k] => j = k
    BY InjectiveSeq
  <2> QED BY <1>1, <1>2, <2>1
<1>4. ASSUME NEW x, Contains(s, x) PROVE Contains(r, x)
  <2>1. PICK k \in 1..Len(s) : s[k] = x
    BY <1>4 DEF Contains
  <2>2. k + 1 \in 1..Len(r) /\ r[k + 1] = x
    BY <2>1, <1>1
  <2> QED BY <2>2 DEF Contains
<1>5. \A x : Contains(r, x) => Contains(s, x) \/ x = e
  BY <1>1 DEF Contains
<1>6. Contains(r, e)
  BY <1>1 DEF Contains
<1> QED BY <1>1, <1>3, <1>4, <1>5, <1>6 DEF r

\* Taking the first element off a list without repetitions.
LEMMA TailProps ==
    ASSUME NEW S, NEW s \in Seq(S), IsInjective(s), s # <<>>
    PROVE  /\ Tail(s) \in Seq(S) /\ Head(s) \in S /\ Contains(s, Head(s))
           /\ IsInjective(Tail(s))
           /\ \A x : Contains(Tail(s), x) <=> Contains(s, x) /\ x # Head(s)
<1>1. Head(s) = s[1] /\ 1 \in 1..Len(s) /\ s[1] \in S
  OBVIOUS
<1>2. Tail(s) = RemoveAt(s, 1)
  <2>1. SubSeq(s, 1, 1 - 1) = << >>
    BY SubSeqEmpty
  <2>2. SubSeq(s, 1 + 1, Len(s)) = Tail(s)
    BY TailIsSubSeq
  <2>3. Tail(s) \in Seq(S)
    OBVIOUS
  <2> QED BY <2>1, <2>2, <2>3, ConcatEmptySeq DEF RemoveAt
<1>3. Contains(s, s[1])
  BY <1>1 DEF Contains
<1>4. /\ Tail(s) \in Seq(S) /\ IsInjective(Tail(s))
      /\ \A x : Contains(Tail(s), x) <=> Contains(s, x) /\ x # s[1]
  <2>1. /\ RemoveAt(s, 1) \in Seq(S) /\ IsInjective(RemoveAt(s, 1))
        /\ \A x : Contains(RemoveAt(s, 1), x) <=> Contains(s, x) /\ x # s[1]
    BY <1>1, RemoveAtProps
  <2> QED BY <1>2, <2>1
<1> QED BY <1>1, <1>3, <1>4

\* r is s with e put at place i: those before it stay where they are.
Inserted(S, s, i, e, r) ==
    /\ r \in Seq(S) /\ Len(r) = Len(s) + 1
    /\ \A k \in 1..Len(s) + 1 :
          r[k] = IF k < i THEN s[k] ELSE IF k = i THEN e ELSE s[k - 1]

\* InsertAt does so.
LEMMA InsertAtIndex ==
    ASSUME NEW S, NEW s \in Seq(S), NEW i \in 1..Len(s) + 1, NEW e \in S
    PROVE  Inserted(S, s, i, e, InsertAt(s, i, e))
<1> DEFINE r == InsertAt(s, i, e)
<1> DEFINE u == SubSeq(s, 1, i - 1)
           v == SubSeq(s, i, Len(s))
           w == u \o <<e>>
<1>1. u \in Seq(S) /\ Len(u) = i - 1 /\ \A k \in 1..(i - 1) : u[k] = s[k]
  BY SubSeqProperties
<1>2. v \in Seq(S) /\ Len(v) = Len(s) - i + 1 /\ \A k \in 1..(Len(s) - i + 1) : v[k] = s[i - 1 + k]
  <2>1. CASE i = Len(s) + 1
    <3>1. v = <<>>
      BY <2>1, SubSeqProperties
    <3>2. Len(s) - i + 1 = 0
      BY <2>1
    <3> QED BY <3>1, <3>2
  <2>2. CASE i # Len(s) + 1
    <3>1. i \in 1..Len(s)
      BY <2>2
    <3>2. v \in Seq(S) /\ Len(v) = Len(s) - i + 1 /\ \A k \in 1..(Len(s) - i + 1) : v[k] = s[i + k - 1]
      BY <3>1, SubSeqProperties
    <3>3. \A k \in 1..(Len(s) - i + 1) : i + k - 1 = i - 1 + k
      BY <3>1
    <3> QED BY <3>2, <3>3
  <2> QED BY <2>1, <2>2
<1>3. r = w \o v
  BY DEF InsertAt
<1>4. w \in Seq(S) /\ Len(w) = i /\ \A k \in 1..i : w[k] = IF k < i THEN s[k] ELSE e
  <2> HIDE DEF u
  <2>1. w = Append(u, e)
    BY <1>1
  <2>2. Append(u, e) \in Seq(S) /\ Len(Append(u, e)) = Len(u) + 1
        /\ \A k \in 1..(Len(u) + 1) : Append(u, e)[k] = IF k <= Len(u) THEN u[k] ELSE e
    BY <1>1
  <2> HIDE DEF w
  <2>3. Len(u) + 1 = i
    BY <1>1
  <2> QED BY <2>1, <2>2, <2>3, <1>1
<1> HIDE DEF u, v, w, r
<1>5. /\ r \in Seq(S)
      /\ Len(r) = Len(s) + 1
      /\ \A k \in 1..Len(s) + 1 : r[k] = IF k <= i THEN w[k] ELSE v[k - i]
  <2>1. /\ w \o v \in Seq(S)
        /\ Len(w \o v) = Len(w) + Len(v)
        /\ \A k \in 1..(Len(w) + Len(v)) :
              (w \o v)[k] = IF k <= Len(w) THEN w[k] ELSE v[k - Len(w)]
    BY <1>2, <1>4, ConcatProperties
  <2>2. Len(w) = i /\ Len(w) + Len(v) = Len(s) + 1
    BY <1>2, <1>4
  <2> QED BY <2>1, <2>2, <1>3
<1>6. ASSUME NEW k \in 1..Len(s) + 1
      PROVE  r[k] = IF k < i THEN s[k] ELSE IF k = i THEN e ELSE s[k - 1]
  <2>1. CASE k <= i
    <3>1. r[k] = w[k] /\ k \in 1..i
      BY <1>5, <2>1
    <3> QED BY <3>1, <1>4, <2>1
  <2>2. CASE k > i
    <3>1. r[k] = v[k - i] /\ k - i \in 1..(Len(s) - i + 1) /\ i - 1 + (k - i) = k - 1
      BY <1>5, <2>2
    <3>2. v[k - i] = s[k - 1]
      BY <3>1, <1>2
    <3> QED BY <3>1, <3>2, <2>2
  <2> QED BY <2>1, <2>2
<1>7. Inserted(S, s, i, e, r)
  BY <1>5, <1>6 DEF Inserted
<1> QED BY <1>7 DEF r
\* A set of numbers with a bound that is not empty has a greatest one, which Max returns.
LEMMA MaxOfNumbers ==
    ASSUME NEW n \in Nat, NEW s \in SUBSET (1..n), s # {}
    PROVE  Max(s) \in s /\ \A y \in s : y <= Max(s)
<1> DEFINE S == {n - x : x \in s}
<1>1. S \in SUBSET Nat /\ S # {}
  <2>1. \A x \in s : n - x \in Nat
    OBVIOUS
  <2>2. PICK x : x \in s
    OBVIOUS
  <2>3. n - x \in S
    BY <2>2
  <2> QED BY <2>1, <2>3
<1>2. PICK z \in S : \A y \in S : z <= y
  BY <1>1, LeastNumber
<1>3. PICK x \in s : z = n - x
  BY <1>2
<1>4. ASSUME NEW y \in s PROVE y <= x
  <2>1. n - y \in S
    OBVIOUS
  <2>2. n - x <= n - y
    BY <1>2, <1>3, <2>1
  <2> QED BY <2>2
<1> HIDE DEF S
<1>5. \E w \in s : \A y \in s : w >= y
  <2>1. \A y \in s : x >= y
    BY <1>4
  <2> QED BY <2>1
<1>6. Max(s) \in s /\ \A y \in s : Max(s) >= y
  BY <1>5, Zenon DEF Max
<1>7. PICK b : b = Max(s)
  OBVIOUS
<1>8. b \in s /\ \A y \in s : b >= y
  BY <1>6, <1>7
<1>9. \A y \in s : b \in Int /\ y \in Int
  BY <1>8
<1>10. \A y \in s : y <= b
  BY <1>8, <1>9
<1> QED BY <1>7, <1>8, <1>10

\* The greatest of the numbers up to n is n, and the others are those up to n - 1.
LEMMA GreatestOf ==
    ASSUME NEW n \in Nat \ {0}
    PROVE  1..n # {} /\ Max(1..n) = n /\ (1..n) \ {n} = 1..(n - 1)
<1>1. n \in 1..n /\ (1..n) \ {n} = 1..(n - 1) /\ n \in Nat
  OBVIOUS
<1>2. PICK b : b = Max(1..n)
  OBVIOUS
<1>3. b \in 1..n /\ n <= b
  BY <1>1, <1>2, MaxOfNumbers
<1>4. b = n
  BY <1>3
<1> QED BY <1>1, <1>2, <1>4

\* g is what is folded from b by the steps: its value for a set of numbers up to n is the
\* step of the greatest of them from its value for the others.
Iterates(n, b, step, g) ==
    \A s \in SUBSET (1..n) :
        g[s] = IF s = {} THEN b ELSE step[<<Max(s), g[s \ {Max(s)}]>>]

HasFold(n, b, step, S) == \E g \in [SUBSET (1..n) -> S] : Iterates(n, b, step, g)

\* There is such a function.
LEMMA FoldExists ==
    ASSUME NEW N \in Nat, NEW S, NEW b \in S, NEW step \in [(1..N) \X S -> S]
    PROVE  HasFold(N, b, step, S)
<1> DEFINE Fails == {n \in 0..N : ~HasFold(n, b, step, S)}
<1>1. SUFFICES ASSUME Fails # {} PROVE FALSE
  <2>1. N \notin Fails
    BY <1>1
  <2> QED BY <2>1
<1>2. PICK m \in Fails : \A y \in Fails : m <= y
  <2>1. Fails \in SUBSET Nat
    OBVIOUS
  <2> HIDE DEF Fails
  <2> QED BY <1>1, <2>1, LeastNumber
<1>3. m # 0
  <2> DEFINE g == [s \in SUBSET (1..0) |-> b]
  <2>1. \A s \in SUBSET (1..0) : s = {}
    OBVIOUS
  <2>2. g \in [SUBSET (1..0) -> S]
    OBVIOUS
  <2>3. Iterates(0, b, step, g)
    BY <2>1 DEF Iterates
  <2>4. HasFold(0, b, step, S)
    BY <2>2, <2>3, Zenon DEF HasFold
  <2> QED BY <2>4
<1> DEFINE k == m - 1
<1>4. k \in 0..N /\ k + 1 = m /\ k \notin Fails /\ m \in 1..N
  <2>1. m \in 1..N
    BY <1>3
  <2>2. k \in 0..N /\ k + 1 = m /\ ~(m <= k)
    BY <2>1
  <2>3. k \notin Fails
    BY <1>2, <2>2
  <2> QED BY <2>1, <2>2, <2>3
<1>5. PICK g \in [SUBSET (1..k) -> S] : Iterates(k, b, step, g)
  BY <1>4 DEF HasFold
<1> HIDE DEF k
<1> DEFINE h == [s \in SUBSET (1..m) |-> IF m \in s THEN step[<<m, g[s \ {m}]>>] ELSE g[s]]
<1>6. \A s \in SUBSET (1..m) : s \ {m} \in SUBSET (1..k) /\ (m \notin s => s \in SUBSET (1..k))
  BY <1>4
<1>7. h \in [SUBSET (1..m) -> S]
  <2>1. ASSUME NEW s \in SUBSET (1..m) PROVE g[s \ {m}] \in S /\ (m \notin s => g[s] \in S)
    BY <1>5, <1>6
  <2>2. \A x \in S : step[<<m, x>>] \in S
    BY <1>4
  <2> QED BY <2>1, <2>2
<1>8. ASSUME NEW s \in SUBSET (1..m), s # {}
      PROVE  h[s] = step[<<Max(s), h[s \ {Max(s)}]>>]
  <2>1. Max(s) \in s /\ \A y \in s : y <= Max(s)
    <3>1. m \in Nat
      BY <1>4
    <3> QED BY <3>1, <1>8, MaxOfNumbers
  <2>2. CASE m \in s
    <3>1. Max(s) = m
      <4>1. m <= Max(s)
        BY <2>1, <2>2
      <4>2. PICK c : c = Max(s)
        OBVIOUS
      <4>3. c \in 1..m /\ m <= c /\ m \in Int
        <5>1. c \in s
          BY <2>1, <4>2
        <5> QED BY <5>1, <4>1, <4>2, <1>4
      <4>4. c = m
        BY <4>3
      <4> QED BY <4>2, <4>4
    <3>2. h[s] = step[<<m, g[s \ {m}]>>]
      BY <2>2
    <3>3. h[s \ {m}] = g[s \ {m}]
      OBVIOUS
    <3> QED BY <3>1, <3>2, <3>3
  <2>3. CASE m \notin s
    <3>1. h[s] = g[s]
      BY <2>3
    <3>2. h[s \ {Max(s)}] = g[s \ {Max(s)}]
      BY <2>3
    <3>3. g[s] = step[<<Max(s), g[s \ {Max(s)}]>>]
      BY <1>5, <1>6, <1>8, <2>3 DEF Iterates
    <3> QED BY <3>1, <3>2, <3>3
  <2> QED BY <2>2, <2>3
<1>9. h[{}] = b
  <2>1. h[{}] = g[{}]
    OBVIOUS
  <2>2. g[{}] = b
    BY <1>5 DEF Iterates
  <2> QED BY <2>1, <2>2
<1> HIDE DEF h
<1>10. Iterates(m, b, step, h)
  BY <1>8, <1>9 DEF Iterates
<1>11. HasFold(m, b, step, S)
  BY <1>7, <1>10, Zenon DEF HasFold
<1> QED BY <1>2, <1>11

\* What the values of a chain have first, and keep in each step, they have at its end.
LEMMA ChainReaches ==
    ASSUME NEW N \in Nat, NEW v, NEW P, v[0] \in P[0],
           \A n \in 1..N : v[n - 1] \in P[n - 1] => v[n] \in P[n]
    PROVE  v[N] \in P[N]
<1> DEFINE Fails == {n \in 0..N : v[n] \notin P[n]}
<1>1. SUFFICES ASSUME Fails # {} PROVE FALSE
  OBVIOUS
<1>2. PICK m \in Fails : \A y \in Fails : m <= y
  <2>1. Fails \in SUBSET Nat
    OBVIOUS
  <2> HIDE DEF Fails
  <2> QED BY <1>1, <2>1, LeastNumber
<1>3. m \in 1..N /\ m - 1 \in 0..N /\ ~(m <= m - 1)
  BY <1>2
<1>4. v[m - 1] \in P[m - 1]
  BY <1>2, <1>3
<1> QED BY <1>2, <1>3, <1>4
=============================================================================
