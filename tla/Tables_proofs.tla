---------------------------- MODULE Tables_proofs ----------------------------
(***************************************************************************)
(* Proofs about the kernel's tables: file[] and the descriptors of         *)
(* processes, for any number of processes, entries and slots, and any      *)
(* inodes and devices; proc[] with signals and tracing, for any number of  *)
(* entries, signals and process numbers.                                   *)
(***************************************************************************)
EXTENDS Fio, Procs, SeqLemmas, FiniteSetTheorems, TLAPS

\* The entry a slot keeps alive, 0 for none: what it holds, what closef still has of a
\* descriptor that is cleared already, nothing if closef has let it go.
Mark(p, i) ==
    LET c == busy[p] IN
    IF c.at = "plock" /\ c.call \in {"close", "exit"} /\ c.slot = i THEN c.f
    ELSE IF c.at = "dclose" /\ c.call \in {"dup", "exec"} /\ c.slot = i THEN 0
    ELSE ft.ofile[p][i]

NoInode == CHOOSE ip \in Inodes : TRUE

Callers == {"", "open", "stat", "close", "dup", "exec", "exit"}

Tables ==
    [count : [FileEntries -> Nat], inode : [FileEntries -> Inodes \cup {NoInode}],
     ofile : [Tasks -> [FileSlots -> 0..NFILE]], excl : [Tasks -> SUBSET FileSlots],
     icount : [Inodes -> Int], keeper : [Inodes -> Tasks \cup {0}]]

CallRecords ==
    [call : Callers, at : FioPlaces \cup Inodes, slot : FileSlots, f : 0..NFILE, from : 0..NFILE]

FileTypes ==
    /\ ft \in Tables
    /\ busy \in [Tasks -> CallRecords]
    /\ fioCalls \in Nat
    /\ \A f \in FileEntries : ft.count[f] > 0 => ft.inode[f] \in Inodes

\* Where a call has got to.
CallOK(p) ==
    LET c == busy[p] IN
    /\ c.call = "stat" <=> c.at \in Inodes
    /\ c.at = "unborn" => \A i \in FileSlots : ft.ofile[p][i] = 0
    /\ c.at = "openi" =>
        /\ c.call = "open" /\ c.f \in FileEntries
        /\ ft.count[c.f] = 1 /\ ft.ofile[p][c.slot] = c.f
    /\ c.at = "plock" =>
        /\ c.call \in {"close", "dup", "exec", "exit"} /\ c.f \in FileEntries
        /\ ft.count[c.f] = 1
        /\ ft.ofile[p][c.slot] = IF c.call \in {"dup", "exec"} THEN c.f ELSE 0
    /\ c.at = "dclose" =>
        /\ c.call \in {"close", "dup", "exec", "exit"}
        /\ c.call \in {"close", "exit"} => ft.ofile[p][c.slot] = 0
    /\ c.at \in {"plock", "dclose"} /\ c.call = "dup" =>
        /\ c.from \in FileEntries
        /\ \E j \in FileSlots : j # c.slot /\ ft.ofile[p][j] = c.from

Marks(f) == {r \in Tasks \X FileSlots : Mark(r[1], r[2]) = f}

CallsOK == \A p \in Tasks : CallOK(p)

FileInv == FileTypes /\ CallsOK /\ FilesCounted

Bit(b) == IF b THEN 1 ELSE 0

\* The entries that name an inode, and the calls that have it in hand.
Naming(ip) == {f \in FileEntries : ft.count[f] > 0 /\ ft.inode[f] = ip}

Stating(ip) == {p \in Tasks : busy[p].call = "stat" /\ busy[p].at = ip}

----------------------------------------------------------------------------
(* What counts are of                                                      *)

\* The sets that are counted are finite.
LEMMA FiniteTables ==
    /\ \A f : IsFiniteSet(Marks(f))
    /\ \A ip : IsFiniteSet(Naming(ip)) /\ IsFiniteSet(Stating(ip))
    /\ IsFiniteSet(FileSlots) /\ IsFiniteSet(FileEntries)
<1>1. IsFiniteSet(FileSlots) /\ IsFiniteSet(FileEntries)
  <2>1. NOFILE - 1 \in Int /\ NFILE \in Int
    BY FioAssumption
  <2> QED BY <2>1, FS_Interval DEF FileSlots, FileEntries
<1>2. IsFiniteSet(Tasks)
  BY FioAssumption
<1>3. IsFiniteSet(Tasks \X FileSlots)
  BY <1>1, <1>2, FS_Product
<1>4. ASSUME NEW f PROVE IsFiniteSet(Marks(f))
  <2>1. Marks(f) \in SUBSET (Tasks \X FileSlots)
    BY DEF Marks
  <2> QED BY <1>3, <2>1, FS_Subset
<1>5. ASSUME NEW ip PROVE IsFiniteSet(Naming(ip)) /\ IsFiniteSet(Stating(ip))
  <2>1. Naming(ip) \in SUBSET FileEntries /\ Stating(ip) \in SUBSET Tasks
    BY DEF Naming, Stating
  <2> QED BY <1>1, <1>2, <2>1, FS_Subset
<1> QED BY <1>1, <1>4, <1>5

\* The slots and calls that refer to an entry are those marked with it.
LEMMA RefersAreMarks ==
    ASSUME FileTypes, CallsOK, NEW f \in FileEntries
    PROVE  Refers(f) = Marks(f)
<1>1. f # 0
  BY FioAssumption DEF FileEntries
<1>2. ASSUME NEW p \in Tasks, NEW i \in FileSlots
      PROVE  <<p, i>> \in Refers(f) <=> Mark(p, i) = f
  <2>1. busy[p].at = "plock" /\ busy[p].call \in {"close", "exit"} /\ busy[p].slot = i
          => ft.ofile[p][i] = 0
    BY DEF CallsOK, CallOK
  <2> QED BY <1>1, <2>1 DEF Refers, Mark
<1>3. Refers(f) \in SUBSET (Tasks \X FileSlots) /\ Marks(f) \in SUBSET (Tasks \X FileSlots)
  BY DEF Refers, Marks
<1>4. \A p \in Tasks, i \in FileSlots : <<p, i>> \in Marks(f) <=> Mark(p, i) = f
  BY DEF Marks
<1> QED BY <1>2, <1>3, <1>4

\* What FilesCounted says, in these words.
RightlyCounted == \A f \in FileEntries : ft.count[f] = Cardinality(Marks(f))

InodesCounted ==
    \A ip \in Inodes : ft.icount[ip] = Cardinality(Naming(ip)) + Cardinality(Stating(ip))

\* FilesCounted in these words.
LEMMA CountedInMarks ==
    ASSUME FileTypes, CallsOK
    PROVE  FilesCounted <=> RightlyCounted /\ InodesCounted
BY RefersAreMarks DEF FilesCounted, RightlyCounted, InodesCounted, Naming, Stating

\* The same of the next state.
LEMMA CountedInMarksNext ==
    FileTypes' /\ CallsOK' => (FilesCounted' <=> RightlyCounted' /\ InodesCounted')
<1>1. FileTypes /\ CallsOK => (FilesCounted <=> RightlyCounted /\ InodesCounted)
  BY CountedInMarks
<1> QED BY <1>1, PTL

\* An entry with a count of one has one mark.
LEMMA SoleMark ==
    ASSUME RightlyCounted, NEW f \in FileEntries, ft.count[f] = 1,
           NEW p \in Tasks, NEW i \in FileSlots, Mark(p, i) = f,
           NEW q \in Tasks, NEW j \in FileSlots, Mark(q, j) = f
    PROVE  p = q /\ i = j
<1>1. PICK x : Marks(f) = {x}
  BY FiniteTables, FS_Singleton DEF RightlyCounted
<1>2. <<p, i>> \in Marks(f) /\ <<q, j>> \in Marks(f)
  BY DEF Marks
<1> QED BY <1>1, <1>2

\* An entry that is marked has a count, and one with no count is not marked.
LEMMA MarkedIsCounted ==
    ASSUME RightlyCounted, NEW p \in Tasks, NEW i \in FileSlots, Mark(p, i) \in FileEntries
    PROVE  ft.count[Mark(p, i)] > 0
<1> DEFINE f == Mark(p, i)
<1>1. <<p, i>> \in Marks(f)
  BY DEF Marks
<1>2. IsFiniteSet(Marks(f))
  BY FiniteTables
<1>3. Cardinality(Marks(f)) \in Nat /\ Cardinality(Marks(f)) # 0
  BY <1>1, <1>2, FS_CardinalityType, FS_EmptySet
<1> QED BY <1>3 DEF RightlyCounted

----------------------------------------------------------------------------
(* A step moves the mark of one slot of one process                        *)

\* The mark of slot i of p goes from a to b, the counts follow, and b is an entry nobody
\* has, or one that p has in another slot.
Moves(p, i, a, b) ==
    /\ \A q \in Tasks \ {p} : busy'[q] = busy[q] /\ ft'.ofile[q] = ft.ofile[q]
    /\ \A j \in FileSlots \ {i} : Mark(p, j)' = Mark(p, j)
    /\ Mark(p, i) = a /\ Mark(p, i)' = b
    /\ \A g \in FileEntries : ft'.count[g] = ft.count[g] - Bit(g = a) + Bit(g = b)
    /\ a = b \/ b = 0 \/ ft.count[b] = 0 \/ \E j \in FileSlots : j # i /\ Mark(p, j) = b

\* The other processes and the other slots keep their marks.
LEMMA OtherMarks ==
    ASSUME NEW p \in Tasks, NEW i \in FileSlots, NEW a, NEW b, Moves(p, i, a, b),
           NEW q \in Tasks, NEW j \in FileSlots, q # p \/ j # i
    PROVE  Mark(q, j)' = Mark(q, j)
<1>1. CASE q # p
  BY <1>1 DEF Moves, Mark
<1>2. CASE q = p
  BY <1>2 DEF Moves
<1> QED BY <1>1, <1>2

\* Where marks move and counts follow, the counts are still those of the marks.
LEMMA CountsFollow ==
    ASSUME FileTypes, RightlyCounted, NEW p \in Tasks, NEW i \in FileSlots, NEW a, NEW b,
           Moves(p, i, a, b)
    PROVE  RightlyCounted'
<1> SUFFICES ASSUME NEW g \in FileEntries PROVE ft'.count[g] = Cardinality(Marks(g)')
  BY DEF RightlyCounted
<1> DEFINE M == Marks(g)
           N == Marks(g)'
           x == <<p, i>>
<1>1. M \in SUBSET (Tasks \X FileSlots) /\ N \in SUBSET (Tasks \X FileSlots) /\ IsFiniteSet(M)
  BY FiniteTables DEF Marks
<1>2. \A q \in Tasks, j \in FileSlots : q # p \/ j # i => (<<q, j>> \in N <=> <<q, j>> \in M)
  BY OtherMarks DEF Marks
<1>3. (x \in M <=> g = a) /\ (x \in N <=> g = b)
  BY DEF Marks, Moves
<1>4. ft'.count[g] = Cardinality(M) - Bit(g = a) + Bit(g = b) /\ Cardinality(M) \in Nat
  BY <1>1, FS_CardinalityType DEF RightlyCounted, Moves
<1> HIDE DEF M, N, x
<1>5. \A r \in Tasks \X FileSlots : r # x => (r \in N <=> r \in M)
  BY <1>2 DEF x
<1>6. CASE (g = a) <=> (g = b)
  <2>1. N = M
    BY <1>1, <1>3, <1>5, <1>6
  <2>2. Bit(g = a) = Bit(g = b) /\ Bit(g = a) \in Nat
    BY <1>6 DEF Bit
  <2>3. ft'.count[g] = Cardinality(M)
    BY <1>4, <2>2
  <2> QED BY <2>1, <2>3 DEF N
<1>7. CASE g = a /\ g # b
  <2>1. N = M \ {x} /\ x \in M
    BY <1>1, <1>3, <1>5, <1>7
  <2>2. Cardinality(N) = Cardinality(M) - 1
    BY <1>1, <2>1, FS_RemoveElement
  <2>3. Bit(g = a) = 1 /\ Bit(g = b) = 0
    BY <1>7 DEF Bit
  <2>4. ft'.count[g] = Cardinality(M) - 1
    BY <1>4, <2>3
  <2> QED BY <2>2, <2>4 DEF N
<1>8. CASE g # a /\ g = b
  <2>1. N = M \cup {x} /\ x \notin M
    <3>1. x \in Tasks \X FileSlots
      BY DEF x
    <3> QED BY <1>1, <1>3, <1>5, <1>8, <3>1
  <2>2. Cardinality(N) = Cardinality(M) + 1
    BY <1>1, <2>1, FS_AddElement
  <2>3. Bit(g = a) = 0 /\ Bit(g = b) = 1
    BY <1>8 DEF Bit
  <2>4. ft'.count[g] = Cardinality(M) + 1
    BY <1>4, <2>3
  <2> QED BY <2>2, <2>4 DEF N
<1> QED BY <1>6, <1>7, <1>8

\* What others are doing is not disturbed: an entry with a count of one is theirs alone.
LEMMA OthersStayOK ==
    ASSUME FileTypes, CallsOK, RightlyCounted, NEW p \in Tasks, NEW i \in FileSlots,
           NEW a \in 0..NFILE, NEW b \in 0..NFILE, Moves(p, i, a, b),
           NEW q \in Tasks, q # p
    PROVE  CallOK(q)'
<1>1. busy'[q] = busy[q] /\ ft'.ofile[q] = ft.ofile[q]
  BY DEF Moves
<1>2. CallOK(q)
  BY DEF CallsOK
<1>3. ASSUME busy[q].at \in {"openi", "plock"}
      PROVE  ft'.count[busy[q].f] = 1
  <2> DEFINE f == busy[q].f
             k == busy[q].slot
  <2>1. f \in FileEntries /\ ft.count[f] = 1 /\ k \in FileSlots /\ Mark(q, k) = f
    BY <1>2, <1>3 DEF CallOK, Mark, FileTypes, CallRecords
  <2> HIDE DEF f, k
  <2>2. a # f
    BY <2>1, SoleMark DEF Moves
  <2>3. a = b \/ b # f
    <3>1. CASE ft.count[b] = 0
      BY <2>1, <3>1
    <3>2. CASE \E j \in FileSlots : j # i /\ Mark(p, j) = b
      BY <2>1, <3>2, SoleMark
    <3>3. CASE b = 0
      BY <2>1, <3>3 DEF FileEntries
    <3> QED BY <3>1, <3>2, <3>3 DEF Moves
  <2>4. Bit(f = a) = 0 /\ Bit(f = b) = 0
    BY <2>2, <2>3 DEF Bit
  <2>5. ft'.count[f] = ft.count[f] - Bit(f = a) + Bit(f = b)
    BY <2>1 DEF Moves
  <2>6. ft'.count[f] = 1
    BY <2>1, <2>4, <2>5
  <2> QED BY <2>6 DEF f
<1> QED BY <1>1, <1>2, <1>3 DEF CallOK

\* A step that moves a mark keeps the invariant if it leaves the call of p and the counts of
\* the inodes right.
LEMMA MovePreserves ==
    ASSUME FileInv, FileTypes', NEW p \in Tasks, NEW i \in FileSlots,
           NEW a \in 0..NFILE, NEW b \in 0..NFILE, Moves(p, i, a, b),
           CallOK(p)', InodesCounted'
    PROVE  FileInv'
<1>1. RightlyCounted
  BY CountedInMarks DEF FileInv
<1>2. RightlyCounted'
  BY <1>1, CountsFollow DEF FileInv
<1>3. CallsOK'
  BY <1>1, OthersStayOK DEF FileInv, CallsOK
<1> QED BY <1>2, <1>3, CountedInMarksNext DEF FileInv

\* No entry is taken or given up.
LEMMA SameEntries ==
    ASSUME InodesCounted,
           \A g \in FileEntries : /\ ft'.count[g] > 0 <=> ft.count[g] > 0
                                  /\ ft.count[g] > 0 => ft'.inode[g] = ft.inode[g],
           \A ip \in Inodes : Stating(ip)' = Stating(ip) /\ ft'.icount[ip] = ft.icount[ip]
    PROVE  InodesCounted'
<1>1. \A ip \in Inodes : Naming(ip)' = Naming(ip)
  BY DEF Naming
<1> QED BY <1>1 DEF InodesCounted

\* Entry f is taken for an inode.
LEMMA EntryTaken ==
    ASSUME FileTypes, InodesCounted, NEW f \in FileEntries, NEW ip \in Inodes,
           ft.count[f] = 0, ft'.count[f] > 0, ft'.inode[f] = ip,
           \A g \in FileEntries \ {f} : ft'.count[g] = ft.count[g] /\ ft'.inode[g] = ft.inode[g],
           \A jp \in Inodes : /\ Stating(jp)' = Stating(jp)
                              /\ ft'.icount[jp] = ft.icount[jp] + Bit(jp = ip)
    PROVE  InodesCounted'
<1> SUFFICES ASSUME NEW jp \in Inodes
             PROVE  ft'.icount[jp] = Cardinality(Naming(jp)') + Cardinality(Stating(jp)')
  BY DEF InodesCounted
<1> DEFINE M == Naming(jp)
           N == Naming(jp)'
<1>1. IsFiniteSet(M) /\ Cardinality(M) \in Nat /\ Cardinality(Stating(jp)) \in Nat
  BY FiniteTables, FS_CardinalityType
<1>2. Cardinality(N) = Cardinality(M) + Bit(jp = ip)
  <2>1. CASE jp = ip
    <3>1. N = M \cup {f} /\ f \notin M
      BY <2>1 DEF Naming
    <3> HIDE DEF M, N
    <3> QED BY <1>1, <2>1, <3>1, FS_AddElement DEF Bit
  <2>2. CASE jp # ip
    <3>1. N = M
      BY <2>2 DEF Naming
    <3> HIDE DEF M, N
    <3> QED BY <1>1, <2>2, <3>1 DEF Bit
  <2> QED BY <2>1, <2>2
<1>3. Bit(jp = ip) \in Nat
  BY DEF Bit
<1>4. /\ ft'.icount[jp] = Cardinality(M) + Cardinality(Stating(jp)) + Bit(jp = ip)
      /\ Stating(jp)' = Stating(jp)
  BY DEF InodesCounted
<1> HIDE DEF M, N
<1>5. \A x, y, z \in Nat : x + y + z = (x + z) + y
  OBVIOUS
<1>6. ft'.icount[jp] = Cardinality(N) + Cardinality(Stating(jp))
  BY <1>1, <1>2, <1>3, <1>4, <1>5
<1> QED BY <1>4, <1>6 DEF N

\* Entry f is given up.
LEMMA EntryGivenUp ==
    ASSUME FileTypes, InodesCounted, NEW f \in FileEntries, NEW ip \in Inodes,
           ft.count[f] > 0, ft'.count[f] = 0, ft.inode[f] = ip,
           \A g \in FileEntries \ {f} :
                /\ ft'.count[g] > 0 <=> ft.count[g] > 0
                /\ ft'.inode[g] = ft.inode[g],
           \A jp \in Inodes : /\ Stating(jp)' = Stating(jp)
                              /\ ft'.icount[jp] = ft.icount[jp] - Bit(jp = ip)
    PROVE  InodesCounted'
<1> SUFFICES ASSUME NEW jp \in Inodes
             PROVE  ft'.icount[jp] = Cardinality(Naming(jp)') + Cardinality(Stating(jp)')
  BY DEF InodesCounted
<1> DEFINE M == Naming(jp)
           N == Naming(jp)'
<1>1. IsFiniteSet(M) /\ Cardinality(M) \in Nat /\ Cardinality(Stating(jp)) \in Nat
  BY FiniteTables, FS_CardinalityType
<1>2. Cardinality(N) = Cardinality(M) - Bit(jp = ip)
  <2>1. CASE jp = ip
    <3>1. N = M \ {f} /\ f \in M
      BY <2>1 DEF Naming
    <3> HIDE DEF M, N
    <3> QED BY <1>1, <2>1, <3>1, FS_RemoveElement DEF Bit
  <2>2. CASE jp # ip
    <3>1. N = M
      BY <2>2 DEF Naming
    <3> HIDE DEF M, N
    <3> QED BY <1>1, <2>2, <3>1 DEF Bit
  <2> QED BY <2>1, <2>2
<1>3. Bit(jp = ip) \in Nat
  BY DEF Bit
<1>4. /\ ft'.icount[jp] = Cardinality(M) + Cardinality(Stating(jp)) - Bit(jp = ip)
      /\ Stating(jp)' = Stating(jp)
  <2>1. ft.icount[jp] = Cardinality(M) + Cardinality(Stating(jp))
    BY DEF InodesCounted
  <2>2. ft'.icount[jp] = ft.icount[jp] - Bit(jp = ip) /\ Stating(jp)' = Stating(jp)
    OBVIOUS
  <2> HIDE DEF M, N
  <2> QED BY <1>1, <1>3, <2>1, <2>2
<1> HIDE DEF M, N
<1>5. \A x, y, z \in Nat : x + y - z = (x - z) + y
  OBVIOUS
<1>6. ft'.icount[jp] = Cardinality(N) + Cardinality(Stating(jp))
  BY <1>1, <1>2, <1>3, <1>4, <1>5
<1> QED BY <1>4, <1>6 DEF N

\* A call takes an inode in hand, or puts it back.
LEMMA StatCounted ==
    ASSUME FileTypes, InodesCounted, NEW p \in Tasks, NEW ip \in Inodes, NEW d \in {1, -1},
           \A g \in FileEntries : ft'.count[g] = ft.count[g] /\ ft'.inode[g] = ft.inode[g],
           \A jp \in Inodes : ft'.icount[jp] = ft.icount[jp] + (IF jp = ip THEN d ELSE 0),
           \A q \in Tasks \ {p} : busy'[q] = busy[q],
           IF d = 1 THEN /\ busy[p].call # "stat"
                         /\ busy'[p].call = "stat" /\ busy'[p].at = ip
           ELSE /\ busy'[p].call # "stat"
                /\ busy[p].call = "stat" /\ busy[p].at = ip
    PROVE  InodesCounted'
<1> SUFFICES ASSUME NEW jp \in Inodes
             PROVE  ft'.icount[jp] = Cardinality(Naming(jp)') + Cardinality(Stating(jp)')
  BY DEF InodesCounted
<1> DEFINE M == Stating(jp)
           N == Stating(jp)'
<1>1. IsFiniteSet(M) /\ Cardinality(M) \in Nat /\ Cardinality(Naming(jp)) \in Nat
  BY FiniteTables, FS_CardinalityType
<1>2. Cardinality(N) = Cardinality(M) + (IF jp = ip THEN d ELSE 0)
  <2>1. CASE jp = ip /\ d = 1
    <3>1. N = M \cup {p} /\ p \notin M
      BY <2>1 DEF Stating
    <3> HIDE DEF M, N
    <3> QED BY <1>1, <2>1, <3>1, FS_AddElement
  <2>2. CASE jp = ip /\ d # 1
    <3>1. N = M \ {p} /\ p \in M /\ d = -1
      BY <2>2 DEF Stating
    <3> HIDE DEF M, N
    <3> QED BY <1>1, <2>2, <3>1, FS_RemoveElement
  <2>3. CASE jp # ip
    <3>1. N = M
      BY <2>3 DEF Stating
    <3> HIDE DEF M, N
    <3> QED BY <1>1, <2>3, <3>1
  <2> QED BY <2>1, <2>2, <2>3
<1>3. Naming(jp)' = Naming(jp)
  BY DEF Naming
<1>4. ft'.icount[jp] = Cardinality(Naming(jp)) + Cardinality(M) + (IF jp = ip THEN d ELSE 0)
  BY DEF InodesCounted
<1> HIDE DEF M, N
<1>5. ft'.icount[jp] = Cardinality(Naming(jp)) + Cardinality(N)
  BY <1>1, <1>2, <1>4
<1> QED BY <1>3, <1>5 DEF N

----------------------------------------------------------------------------
(* closef                                                                  *)

\* What a call leaves in its slot, 0 for nothing.
LeavesIn(c) == IF c.call = "dup" THEN c.from ELSE 0

\* The tables u that the caller of closef leaves, having found t.
CallerLeaves(p, t, c, u) ==
    /\ u \in Tables /\ u.inode = t.inode /\ u.icount = t.icount
    /\ \A g \in FileEntries : u.count[g] = t.count[g] + Bit(g = LeavesIn(c))
    /\ \A q \in Tasks \ {p} : u.ofile[q] = t.ofile[q]
    /\ \A j \in FileSlots \ {c.slot} : u.ofile[p][j] = t.ofile[p][j]
    /\ u.ofile[p][c.slot] = LeavesIn(c)

\* That is what the caller does to the tables.
LEMMA CallerEffect ==
    ASSUME NEW p \in Tasks, NEW t \in Tables, NEW c, c.slot \in FileSlots,
           c.call \in {"close", "dup", "exec", "exit"},
           c.call = "dup" => c.from \in FileEntries,
           c.call \in {"close", "exit"} => t.ofile[p][c.slot] = 0,
           NEW u, u = TablesAfter(p, t, c)
    PROVE  CallerLeaves(p, t, c, u)
<1>0. \A g \in FileEntries : g # 0 /\ g \in 0..NFILE
  BY FioAssumption DEF FileEntries
<1>1. CASE c.call = "dup"
  <2>1. u = [t EXCEPT !.ofile[p][c.slot] = c.from, !.count[c.from] = @ + 1]
    BY <1>1 DEF TablesAfter
  <2>2. u = [count |-> [t.count EXCEPT ![c.from] = @ + 1], inode |-> t.inode,
             ofile |-> [t.ofile EXCEPT ![p] = [@ EXCEPT ![c.slot] = c.from]],
             excl |-> t.excl, icount |-> t.icount, keeper |-> t.keeper]
    BY <2>1 DEF Tables
  <2>3. u \in Tables
    <3>1. [t.count EXCEPT ![c.from] = @ + 1] \in [FileEntries -> Nat]
      BY <1>1 DEF Tables
    <3>2. [t.ofile[p] EXCEPT ![c.slot] = c.from] \in [FileSlots -> 0..NFILE]
      BY <1>0, <1>1 DEF Tables
    <3>3. [t.ofile EXCEPT ![p] = [@ EXCEPT ![c.slot] = c.from]]
            \in [Tasks -> [FileSlots -> 0..NFILE]]
      BY <3>2 DEF Tables
    <3> QED BY <2>2, <3>1, <3>3 DEF Tables
  <2>4. \A g \in FileEntries : u.count[g] = t.count[g] + Bit(g = c.from)
    BY <1>1, <2>2 DEF Tables, Bit
  <2> QED BY <1>1, <2>2, <2>3, <2>4 DEF Tables, LeavesIn, CallerLeaves
<1>2. CASE c.call = "exec"
  <2>1. u = [t EXCEPT !.ofile[p][c.slot] = 0, !.excl[p] = @ \ {c.slot}]
    BY <1>2 DEF TablesAfter
  <2>2. u = [count |-> t.count, inode |-> t.inode,
             ofile |-> [t.ofile EXCEPT ![p] = [@ EXCEPT ![c.slot] = 0]],
             excl |-> [t.excl EXCEPT ![p] = @ \ {c.slot}],
             icount |-> t.icount, keeper |-> t.keeper]
    BY <2>1 DEF Tables
  <2>3. 0 \in 0..NFILE
    BY FioAssumption
  <2>4. u \in Tables
    <3>1. [t.excl EXCEPT ![p] = @ \ {c.slot}] \in [Tasks -> SUBSET FileSlots]
      BY DEF Tables
    <3>2. [t.ofile[p] EXCEPT ![c.slot] = 0] \in [FileSlots -> 0..NFILE]
      BY <2>3 DEF Tables
    <3>3. [t.ofile EXCEPT ![p] = [@ EXCEPT ![c.slot] = 0]]
            \in [Tasks -> [FileSlots -> 0..NFILE]]
      BY <3>2 DEF Tables
    <3> QED BY <2>2, <3>1, <3>3 DEF Tables
  <2>5. \A g \in FileEntries : u.count[g] = t.count[g] + Bit(g = 0)
    BY <1>0, <2>2 DEF Tables, Bit
  <2> QED BY <1>2, <2>2, <2>4, <2>5 DEF Tables, LeavesIn, CallerLeaves
<1>3. CASE c.call \in {"close", "exit"}
  <2>1. u = t
    BY <1>3 DEF TablesAfter
  <2>2. \A g \in FileEntries : u.count[g] = t.count[g] + Bit(g = 0)
    BY <1>0, <2>1 DEF Tables, Bit
  <2> QED BY <1>3, <2>1, <2>2 DEF LeavesIn, CallerLeaves
<1> QED BY <1>1, <1>2, <1>3

\* Where a call goes on after closef.
LEMMA CallAfterOK ==
    ASSUME NEW c, c.call \in {"close", "dup", "exec", "exit"}, NEW d, d = CallAfter(c)
    PROVE  /\ d \in CallRecords /\ d.at \in {"user", "exec", "exit"} /\ d.call # "stat"
<1>1. 0 \in FileSlots /\ 0 \in 0..NFILE
  BY FioAssumption DEF FileSlots
<1> QED BY <1>1 DEF CallAfter, NotBusy, CallRecords, Callers, FioPlaces

\* A process that is not in a call that waits is marked with what it holds.
LEMMA MarksAreHeld ==
    ASSUME NEW p, busy[p].at \notin {"plock", "dclose"}, NEW i
    PROVE  Mark(p, i) = ft.ofile[p][i]
BY DEF Mark

\* Where a call that takes no inode in hand goes on: it has nothing to answer for.
LEMMA PlainCallOK ==
    ASSUME NEW p, busy[p].at \in {"user", "exec", "exit", "dead"}, busy[p].call # "stat"
    PROVE  CallOK(p)
BY FioAssumption DEF CallOK, FioPlaces

\* The same of the next state.
LEMMA PlainCallOKNext ==
    ASSUME NEW p, busy'[p].at \in {"user", "exec", "exit", "dead"}, busy'[p].call # "stat"
    PROVE  CallOK(p)'
BY FioAssumption DEF CallOK, FioPlaces

\* If one process changes its call, from none that has an inode in hand to another such,
\* nothing else has changed who has which.
LEMMA SameStating ==
    ASSUME NEW p, busy[p].call # "stat", busy'[p].call # "stat",
           \A q \in Tasks \ {p} : busy'[q] = busy[q], NEW ip
    PROVE  Stating(ip)' = Stating(ip)
BY DEF Stating

\* A process at one of these places has no inode in hand, and is marked with what it holds.
LEMMA PlainCall ==
    ASSUME CallsOK, NEW p \in Tasks, busy[p].at \in {"user", "exec", "exit"}
    PROVE  busy[p].call # "stat" /\ \A i \in FileSlots : Mark(p, i) = ft.ofile[p][i]
BY FioAssumption, MarksAreHeld DEF CallsOK, CallOK, FioPlaces

Closers == {"close", "dup", "exec", "exit"}

Waiting(name, i, f, h) == [call |-> name, at |-> "plock", slot |-> i, f |-> f, from |-> h]

\* What each caller has done by the time it calls closef for entry f in slot i.
ReadyToClose(p, i, s, name, f, h) ==
    /\ busy[p].at \in {"user", "exec", "exit"} /\ f = ft.ofile[p][i]
    /\ s \in Tables /\ s.count = ft.count /\ s.inode = ft.inode /\ s.icount = ft.icount
    /\ \A q \in Tasks \ {p} : s.ofile[q] = ft.ofile[q]
    /\ \A j \in FileSlots \ {i} : s.ofile[p][j] = ft.ofile[p][j]
    /\ s.ofile[p][i] = IF name \in {"close", "exit"} THEN 0 ELSE f
    /\ name \in {"close", "exit"} => f # 0
    /\ name = "dup" =>
        /\ h \in FileEntries
        /\ \E j \in FileSlots : j # i /\ ft.ofile[p][j] = h
    /\ name \in Closers /\ h \in 0..NFILE

\* The entry that is closed is one, with a count, or none.
LEMMA ClosedIsCounted ==
    ASSUME FileTypes, CallsOK, RightlyCounted, NEW p \in Tasks, NEW i \in FileSlots, NEW s, NEW name,
           NEW f, NEW h, ReadyToClose(p, i, s, name, f, h)
    PROVE  /\ f \in 0..NFILE
           /\ f # 0 => f \in FileEntries /\ ft.count[f] \in Nat \ {0}
           /\ Mark(p, i) = f /\ busy[p].call # "stat"
<1>1. f \in 0..NFILE /\ f = ft.ofile[p][i]
  BY DEF ReadyToClose, FileTypes, Tables
<1>2. busy[p].call # "stat" /\ Mark(p, i) = f
  BY <1>1, PlainCall DEF ReadyToClose
<1>3. f # 0 => f \in FileEntries
  BY <1>1, FioAssumption DEF FileEntries
<1>4. f # 0 => ft.count[f] > 0 /\ ft.count[f] \in Nat
  BY <1>2, <1>3, MarkedIsCounted DEF FileTypes, Tables
<1> QED BY <1>1, <1>2, <1>3, <1>4

\* closef begins to wait for the inode of the last descriptor.
LEMMA ClosefWaits ==
    ASSUME FileInv, fioCalls' \in Nat, NEW p \in Tasks, NEW i \in FileSlots, NEW s, NEW name,
           NEW f, NEW h, ReadyToClose(p, i, s, name, f, h), f # 0, s.count[f] <= 1,
           ft' = s, busy' = [busy EXCEPT ![p] = Waiting(name, i, f, h)]
    PROVE  FileInv'
<1>1. FileTypes /\ CallsOK /\ RightlyCounted /\ InodesCounted
  BY CountedInMarks DEF FileInv
<1>2. /\ f \in FileEntries /\ f \in 0..NFILE /\ ft.count[f] = 1
      /\ Mark(p, i) = f /\ busy[p].call # "stat"
  <2>1. f \in FileEntries /\ f \in 0..NFILE /\ ft.count[f] \in Nat \ {0}
        /\ Mark(p, i) = f /\ busy[p].call # "stat"
    BY <1>1, ClosedIsCounted
  <2>2. ft.count[f] <= 1
    BY DEF ReadyToClose
  <2> QED BY <2>1, <2>2
<1>3. PICK d : d = [call |-> name, at |-> "plock", slot |-> i, f |-> f, from |-> h]
  OBVIOUS
<1>4. busy' = [busy EXCEPT ![p] = d]
  BY <1>3 DEF Waiting
<1>5. d \in CallRecords
  BY <1>2, <1>3 DEF ReadyToClose, CallRecords, Callers, Closers, FioPlaces
<1>6. busy'[p] = d /\ \A q \in Tasks \ {p} : busy'[q] = busy[q]
  BY <1>1, <1>4 DEF FileTypes
<1>7. FileTypes'
  BY <1>1, <1>4, <1>5 DEF FileTypes, ReadyToClose
<1>8. name \in Closers /\ d.call = name /\ d.at = "plock" /\ d.slot = i /\ d.f = f /\ d.from = h
  BY <1>3 DEF ReadyToClose
<1>9. ft'.ofile[p][i] = IF name \in {"close", "exit"} THEN 0 ELSE f
  BY DEF ReadyToClose
<1>10. Mark(p, i)' = f
  BY <1>6, <1>8, <1>9 DEF Mark, Closers
<1>11. ASSUME NEW j \in FileSlots \ {i} PROVE Mark(p, j)' = Mark(p, j)
  <2>1. Mark(p, j) = ft.ofile[p][j]
    BY <1>1, PlainCall DEF ReadyToClose
  <2>2. Mark(p, j)' = ft'.ofile[p][j]
    BY <1>6, <1>8 DEF Mark
  <2> QED BY <2>1, <2>2 DEF ReadyToClose
<1>12. Moves(p, i, f, f)
  <2>1. \A g \in FileEntries : ft'.count[g] = ft.count[g] - Bit(g = f) + Bit(g = f)
    <3>1. \A g \in FileEntries : ft'.count[g] = ft.count[g] /\ ft.count[g] \in Nat
      BY <1>1 DEF ReadyToClose, FileTypes, Tables
    <3>2. \A g \in FileEntries : Bit(g = f) \in Nat
      BY DEF Bit
    <3>3. \A x, y \in Nat : x = x - y + y
      OBVIOUS
    <3> QED BY <3>1, <3>2, <3>3
  <2>2. \A q \in Tasks \ {p} : busy'[q] = busy[q] /\ ft'.ofile[q] = ft.ofile[q]
    BY <1>6 DEF ReadyToClose
  <2> QED BY <1>2, <1>10, <1>11, <2>1, <2>2 DEF Moves
<1>13. CallOK(p)'
  <2> DEFINE c == busy'[p]
  <2>1. c.call = name /\ c.at = "plock" /\ c.slot = i /\ c.f = f /\ c.from = h
    BY <1>6, <1>8
  <2>2. c.call # "stat" /\ c.at \notin Inodes
    BY <1>8, <2>1, FioAssumption DEF FioPlaces, Closers
  <2>3. ft'.count[c.f] = 1 /\ ft'.ofile[p][c.slot] = IF c.call \in {"dup", "exec"} THEN c.f ELSE 0
    BY <1>2, <1>8, <1>9, <2>1 DEF ReadyToClose, Closers
  <2>4. c.call = "dup" => /\ c.from \in FileEntries
                          /\ \E j \in FileSlots : j # c.slot /\ ft'.ofile[p][j] = c.from
    BY <2>1 DEF ReadyToClose
  <2>5. c.f \in FileEntries /\ c.call \in {"close", "dup", "exec", "exit"}
    BY <1>2, <1>8, <2>1 DEF Closers
  <2> HIDE DEF c
  <2>6. /\ c.call = "stat" <=> c.at \in Inodes
        /\ c.at # "unborn" /\ c.at # "openi" /\ c.at # "dclose"
    BY <2>1, <2>2
  <2> QED BY <2>1, <2>3, <2>4, <2>5, <2>6 DEF CallOK, c
<1>14. InodesCounted'
  <2>1. d.call # "stat"
    BY <1>8 DEF Closers
  <2>2. \A ip \in Inodes : Stating(ip)' = Stating(ip)
    BY <1>2, <1>6, <2>1, SameStating
  <2> QED BY <1>1, <2>2, SameEntries DEF ReadyToClose
<1> QED BY <1>2, <1>7, <1>12, <1>13, <1>14, MovePreserves

\* closef of an entry that others have, or of none, and what the caller does after it.
LEMMA ClosefGoesOn ==
    ASSUME FileInv, fioCalls' \in Nat, NEW p \in Tasks, NEW i \in FileSlots, NEW s, NEW name,
           NEW f, NEW h, ReadyToClose(p, i, s, name, f, h), f = 0 \/ ~(s.count[f] <= 1),
           NEW c, c.call = name, c.slot = i, c.from = h,
           ft' = TablesAfter(p, IF f = 0 THEN s ELSE [s EXCEPT !.count[f] = @ - 1], c),
           busy' = [busy EXCEPT ![p] = CallAfter(c)]
    PROVE  FileInv'
<1>1. FileTypes /\ CallsOK /\ RightlyCounted /\ InodesCounted
  BY CountedInMarks DEF FileInv
<1>2. /\ f \in 0..NFILE
      /\ f # 0 => f \in FileEntries /\ ft.count[f] \in Nat \ {0}
      /\ Mark(p, i) = f /\ busy[p].call # "stat"
  BY <1>1, ClosedIsCounted
<1>3. PICK t : t = IF f = 0 THEN s ELSE [s EXCEPT !.count[f] = @ - 1]
  OBVIOUS
<1>4. /\ t \in Tables /\ t.inode = ft.inode /\ t.icount = ft.icount /\ t.ofile = s.ofile
      /\ \A g \in FileEntries : t.count[g] = ft.count[g] - Bit(g = f)
  <2>1. s \in Tables /\ s.count = ft.count /\ s.inode = ft.inode /\ s.icount = ft.icount
    BY DEF ReadyToClose
  <2>2. CASE f = 0
    <3>1. t = s
      BY <1>3, <2>2
    <3>2. \A g \in FileEntries : Bit(g = f) = 0 /\ s.count[g] \in Nat
      BY <2>1, <2>2, FioAssumption DEF Bit, FileEntries, Tables
    <3> QED BY <2>1, <3>1, <3>2
  <2>3. CASE f # 0
    <3>1. PICK n : n = [s.count EXCEPT ![f] = @ - 1]
      OBVIOUS
    <3>2. t = [count |-> n, inode |-> s.inode, ofile |-> s.ofile, excl |-> s.excl,
               icount |-> s.icount, keeper |-> s.keeper]
      BY <1>3, <2>1, <2>3, <3>1 DEF Tables
    <3>3. s.count[f] \in Nat /\ s.count[f] > 1 /\ f \in FileEntries
      BY <1>2, <2>1, <2>3 DEF Tables
    <3>4. n \in [FileEntries -> Nat] /\ \A g \in FileEntries : n[g] = s.count[g] - Bit(g = f)
      BY <2>1, <3>1, <3>3 DEF Tables, Bit
    <3>5. t \in Tables
      BY <2>1, <3>2, <3>4 DEF Tables
    <3> QED BY <2>1, <3>2, <3>4, <3>5
  <2> QED BY <2>2, <2>3
<1>5. name \in Closers /\ h \in 0..NFILE /\ (name = "dup" => h \in FileEntries)
  BY DEF ReadyToClose
<1>6. /\ ft' \in Tables /\ ft'.inode = t.inode /\ ft'.icount = t.icount
      /\ \A g \in FileEntries : ft'.count[g] = t.count[g] + Bit(g = LeavesIn(c))
      /\ \A q \in Tasks \ {p} : ft'.ofile[q] = t.ofile[q]
      /\ \A j \in FileSlots \ {i} : ft'.ofile[p][j] = t.ofile[p][j]
      /\ ft'.ofile[p][i] = LeavesIn(c)
  <2>1. c.call \in {"close", "exit"} => t.ofile[p][c.slot] = 0
    BY <1>4 DEF ReadyToClose
  <2>2. ft' = TablesAfter(p, t, c)
    BY <1>3
  <2>3. c.slot \in FileSlots /\ c.call \in {"close", "dup", "exec", "exit"}
    BY <1>5 DEF Closers
  <2>4. c.call = "dup" => c.from \in FileEntries
    BY <1>5
  <2>5. CallerLeaves(p, t, c, ft')
    BY <1>4, <2>1, <2>2, <2>3, <2>4, CallerEffect
  <2> QED BY <2>5 DEF CallerLeaves
<1>7. PICK d : d = CallAfter(c)
  OBVIOUS
<1>8. d \in CallRecords /\ d.at \in {"user", "exec", "exit"} /\ d.call # "stat"
  BY <1>5, <1>7, CallAfterOK DEF Closers
<1>9. busy'[p] = d /\ \A q \in Tasks \ {p} : busy'[q] = busy[q]
  BY <1>1, <1>7 DEF FileTypes
<1>10. \A j \in FileSlots : Mark(p, j)' = ft'.ofile[p][j]
  BY <1>8, <1>9 DEF Mark
<1>11. \A j \in FileSlots : Mark(p, j) = ft.ofile[p][j]
  BY <1>1, PlainCall DEF ReadyToClose
<1>12. LeavesIn(c) \in 0..NFILE
  BY <1>5, FioAssumption DEF LeavesIn
<1>13. LeavesIn(c) # 0 => /\ LeavesIn(c) \in FileEntries
                          /\ \E j \in FileSlots : j # i /\ Mark(p, j) = LeavesIn(c)
  BY <1>11 DEF LeavesIn, ReadyToClose
<1>14. Moves(p, i, f, LeavesIn(c))
  <2>0. /\ \A q \in Tasks \ {p} : s.ofile[q] = ft.ofile[q]
        /\ \A j \in FileSlots \ {i} : s.ofile[p][j] = ft.ofile[p][j]
    BY DEF ReadyToClose
  <2>1. \A q \in Tasks \ {p} : busy'[q] = busy[q] /\ ft'.ofile[q] = ft.ofile[q]
    BY <1>4, <1>6, <1>9, <2>0
  <2>2. \A j \in FileSlots \ {i} : Mark(p, j)' = Mark(p, j)
    BY <1>4, <1>6, <1>10, <1>11, <2>0
  <2>3. \A g \in FileEntries : ft'.count[g] = ft.count[g] - Bit(g = f) + Bit(g = LeavesIn(c))
    BY <1>4, <1>6
  <2> QED BY <1>2, <1>6, <1>10, <1>13, <2>1, <2>2, <2>3 DEF Moves
<1>15. CallOK(p)'
  BY <1>8, <1>9, PlainCallOKNext
<1>16. \A g \in FileEntries : /\ ft'.count[g] > 0 <=> ft.count[g] > 0
                              /\ ft'.inode[g] = ft.inode[g]
  <2> SUFFICES ASSUME NEW g \in FileEntries PROVE ft'.count[g] > 0 <=> ft.count[g] > 0
    BY <1>4, <1>6
  <2>1. ft.count[g] \in Nat /\ ft'.count[g] = ft.count[g] - Bit(g = f) + Bit(g = LeavesIn(c))
    BY <1>1, <1>14 DEF FileTypes, Tables, Moves
  <2>2. g = f => ft.count[g] > 1
    <3>1. g # 0
      BY FioAssumption DEF FileEntries
    <3> QED BY <2>1, <3>1 DEF ReadyToClose
  <2>3. g = LeavesIn(c) => ft.count[g] > 0
    BY <1>1, <1>13, MarkedIsCounted, FioAssumption DEF FileEntries
  <2> QED BY <2>1, <2>2, <2>3 DEF Bit
<1>17. InodesCounted'
  <2>1. \A ip \in Inodes : Stating(ip)' = Stating(ip)
    BY <1>2, <1>8, <1>9, SameStating
  <2> QED BY <1>1, <1>4, <1>6, <1>16, <2>1, SameEntries
<1>18. FileTypes'
  <2>1. busy' \in [Tasks -> CallRecords]
    BY <1>1, <1>7, <1>8 DEF FileTypes
  <2>2. \A g \in FileEntries : ft'.count[g] > 0 => ft'.inode[g] \in Inodes
    BY <1>1, <1>16 DEF FileTypes
  <2> QED BY <1>6, <2>1, <2>2 DEF FileTypes
<1> QED BY <1>2, <1>12, <1>14, <1>15, <1>17, <1>18, MovePreserves

\* The calls with which callers begin closef.
ClosingCalls ==
    [call : Closers, at : {""}, slot : FileSlots, f : 0..NFILE, from : 0..NFILE]

\* closef.
LEMMA ClosefStep ==
    ASSUME FileInv, fioCalls' \in Nat, NEW p \in Tasks, NEW s, NEW c \in ClosingCalls,
           ReadyToClose(p, c.slot, s, c.call, c.f, c.from), closef(p, s, c)
    PROVE  FileInv'
<1>1. CASE c.f # 0 /\ s.count[c.f] <= 1
  <2>0. PICK d : d = [c EXCEPT !.at = "plock"]
    OBVIOUS
  <2>1. d = Waiting(c.call, c.slot, c.f, c.from)
    BY <2>0 DEF ClosingCalls, Waiting
  <2>2. ft' = s /\ busy' = [busy EXCEPT ![p] = d]
    BY <1>1, <2>0 DEF closef
  <2>3. c.slot \in FileSlots
    BY DEF ClosingCalls
  <2> QED BY <1>1, <2>1, <2>2, <2>3, ClosefWaits
<1>2. CASE ~(c.f # 0 /\ s.count[c.f] <= 1)
  <2>1. /\ ft' = TablesAfter(p, IF c.f = 0 THEN s ELSE [s EXCEPT !.count[c.f] = @ - 1], c)
        /\ busy' = [busy EXCEPT ![p] = CallAfter(c)]
    BY <1>2 DEF closef
  <2>2. c.slot \in FileSlots
    BY DEF ClosingCalls
  <2> QED BY <1>2, <2>1, <2>2, ClosefGoesOn
<1> QED BY <1>1, <1>2

----------------------------------------------------------------------------
(* The actions                                                             *)

\* A process goes from one place to another and keeps what it holds.
LEMMA QuietStep ==
    ASSUME FileInv, fioCalls' \in Nat, NEW p \in Tasks, NEW d \in CallRecords,
           ft' \in Tables, ft'.count = ft.count, ft'.inode = ft.inode, ft'.icount = ft.icount,
           ft'.ofile = ft.ofile, busy' = [busy EXCEPT ![p] = d],
           \/ busy[p].at \in {"user", "openi", "exec", "exit"}
           \/ busy[p].at = "dclose" /\ busy[p].call \notin {"dup", "exec"},
           d.at \in {"user", "exec", "exit", "dead"}, d.call # "stat"
    PROVE  FileInv'
<1>1. FileTypes /\ CallsOK /\ RightlyCounted /\ InodesCounted
  BY CountedInMarks DEF FileInv
<1>2. busy'[p] = d /\ \A q \in Tasks \ {p} : busy'[q] = busy[q]
  BY <1>1 DEF FileTypes
<1>3. FileTypes'
  BY <1>1 DEF FileTypes
<1>4. \A j \in FileSlots : Mark(p, j) = ft.ofile[p][j] /\ Mark(p, j)' = ft.ofile[p][j]
  BY <1>2 DEF Mark
<1>5. CallOK(p)'
  BY <1>2, PlainCallOKNext
<1>6. busy[p].call # "stat"
  BY <1>1, FioAssumption DEF CallsOK, CallOK, FioPlaces
<1>7. InodesCounted'
  <2>1. \A ip \in Inodes : Stating(ip)' = Stating(ip)
    BY <1>2, <1>6, SameStating
  <2> QED BY <1>1, <2>1, SameEntries
<1>8. PICK i \in FileSlots : i = 0
  BY FioAssumption DEF FileSlots
<1>9. ft.ofile[p][i] \in 0..NFILE
  BY <1>1 DEF FileTypes, Tables
<1>10. Moves(p, i, ft.ofile[p][i], ft.ofile[p][i])
  <2>1. \A g \in FileEntries :
          ft'.count[g] = ft.count[g] - Bit(g = ft.ofile[p][i]) + Bit(g = ft.ofile[p][i])
    <3>1. \A g \in FileEntries : ft'.count[g] = ft.count[g] /\ ft.count[g] \in Nat
      BY <1>1 DEF FileTypes, Tables
    <3>2. \A g \in FileEntries : Bit(g = ft.ofile[p][i]) \in Nat
      BY DEF Bit
    <3>3. \A x, y \in Nat : x = x - y + y
      OBVIOUS
    <3> QED BY <3>1, <3>2, <3>3
  <2> QED BY <1>2, <1>4, <2>1 DEF Moves
<1> QED BY <1>3, <1>5, <1>7, <1>9, <1>10, MovePreserves

\* A process that is in no call.
LEMMA NotBusyIsPlain == NotBusy \in CallRecords /\ NotBusy.at = "user" /\ NotBusy.call = ""
<1>1. 0 \in FileSlots /\ 0 \in 0..NFILE
  BY FioAssumption DEF FileSlots
<1> QED BY <1>1 DEF NotBusy, CallRecords, Callers, FioPlaces

\* A signal or the end of the wait brings open back, or close; exec and exit begin; EXCLOSE.
LEMMA QuietActions ==
    ASSUME FileInv, Broken \cap {"dup", "exec"} = {}, NEW p \in Tasks,
           \/ OpenEnded(p) \/ CloseBroken(p) \/ exec(p) \/ exitCloses(p)
           \/ \E i \in FileSlots : Fioclex(p, i)
    PROVE  FileInv'
<1>1. FileTypes
  BY DEF FileInv
<1>2. fioCalls' \in Nat
  BY <1>1 DEF OpenEnded, CloseBroken, exec, exitCloses, Fioclex, FioEnters, TurnsTo, FileTypes
<1>3. CASE OpenEnded(p) \/ CloseBroken(p)
  <2>1. /\ \/ busy[p].at = "openi"
           \/ busy[p].at = "dclose" /\ busy[p].call \in Broken
        /\ busy' = [busy EXCEPT ![p] = NotBusy] /\ ft' = ft
    BY <1>3 DEF OpenEnded, CloseBroken, TurnsTo
  <2>2. ft' \in Tables
    BY <1>1, <2>1 DEF FileTypes
  <2> QED BY <1>2, <2>1, <2>2, NotBusyIsPlain, QuietStep
<1>4. CASE exec(p) \/ exitCloses(p)
  <2>1. PICK x \in {"exec", "exit"} :
          busy[p].at = "user" /\ ft' = ft /\ busy' = [busy EXCEPT ![p] = CallAfter(Call(x, 0, 0))]
    BY <1>4 DEF exec, exitCloses, FioEnters
  <2>2. Call(x, 0, 0).call = x
    BY DEF Call
  <2>3. PICK d : d = CallAfter(Call(x, 0, 0))
    OBVIOUS
  <2>4. d \in CallRecords /\ d.at \in {"user", "exec", "exit"} /\ d.call # "stat"
    BY <2>2, <2>3, CallAfterOK
  <2>5. ft' \in Tables
    BY <1>1, <2>1 DEF FileTypes
  <2> QED BY <1>2, <2>1, <2>3, <2>4, <2>5, QuietStep
<1>5. CASE \E i \in FileSlots : Fioclex(p, i)
  <2>1. PICK i \in FileSlots : Fioclex(p, i)
    BY <1>5
  <2>2. ft' = [ft EXCEPT !.excl[p] = @ \cup {i}] /\ busy[p].at = "user" /\ busy' = busy
    BY <2>1 DEF Fioclex, FioEnters
  <2>3. ft' \in Tables /\ ft'.count = ft.count /\ ft'.inode = ft.inode
        /\ ft'.icount = ft.icount /\ ft'.ofile = ft.ofile
    BY <1>1, <2>2 DEF FileTypes, Tables
  <2>4. PICK d \in CallRecords : d = busy[p]
    BY <1>1 DEF FileTypes
  <2>5. busy' = [busy EXCEPT ![p] = d]
    BY <1>1, <2>2, <2>4 DEF FileTypes
  <2>6. d.call # "stat"
    BY <2>2, <2>4, PlainCall DEF FileInv
  <2> QED BY <1>2, <2>2, <2>3, <2>4, <2>5, <2>6, QuietStep
<1> QED BY <1>3, <1>4, <1>5

\* The tables s have slot i of p cleared.
ClearedIn(p, i, s) ==
    /\ s \in Tables /\ s.count = ft.count /\ s.inode = ft.inode /\ s.icount = ft.icount
    /\ \A q \in Tasks \ {p} : s.ofile[q] = ft.ofile[q]
    /\ \A j \in FileSlots \ {i} : s.ofile[p][j] = ft.ofile[p][j]
    /\ s.ofile[p][i] = 0

\* Clearing a descriptor does that.
LEMMA DescriptorCleared ==
    ASSUME FileTypes, NEW p \in Tasks, NEW i \in FileSlots, NEW s,
           s = [ft EXCEPT !.ofile[p][i] = 0]
    PROVE  ClearedIn(p, i, s)
<1>1. ft \in Tables
  BY DEF FileTypes
<1>2. s = [count |-> ft.count, inode |-> ft.inode,
           ofile |-> [ft.ofile EXCEPT ![p] = [@ EXCEPT ![i] = 0]],
           excl |-> ft.excl, icount |-> ft.icount, keeper |-> ft.keeper]
  BY <1>1 DEF Tables
<1>3. 0 \in 0..NFILE
  BY FioAssumption
<1>4. [ft.ofile[p] EXCEPT ![i] = 0] \in [FileSlots -> 0..NFILE]
  BY <1>1, <1>3 DEF Tables
<1>5. [ft.ofile EXCEPT ![p] = [@ EXCEPT ![i] = 0]] \in [Tasks -> [FileSlots -> 0..NFILE]]
  BY <1>1, <1>4 DEF Tables
<1>6. s \in Tables
  BY <1>1, <1>2, <1>5 DEF Tables
<1>7. /\ s.count = ft.count /\ s.inode = ft.inode /\ s.icount = ft.icount
      /\ s.ofile = [ft.ofile EXCEPT ![p] = [@ EXCEPT ![i] = 0]]
  BY <1>2
<1>8. ft.ofile \in [Tasks -> [FileSlots -> 0..NFILE]]
  BY <1>1 DEF Tables
<1>9. /\ \A q \in Tasks \ {p} : s.ofile[q] = ft.ofile[q]
      /\ \A j \in FileSlots \ {i} : s.ofile[p][j] = ft.ofile[p][j]
      /\ s.ofile[p][i] = 0
  BY <1>7, <1>8
<1> QED BY <1>6, <1>7, <1>9 DEF ClearedIn

\* The call of closef that closes what slot i of p holds.
LEMMA CallOfSlot ==
    ASSUME FileTypes, NEW p \in Tasks, NEW i \in FileSlots, NEW name \in Closers
    PROVE  LET c == Call(name, i, ft.ofile[p][i]) IN
           /\ c \in ClosingCalls /\ c.call = name /\ c.slot = i /\ c.f = ft.ofile[p][i]
           /\ c.from = 0
<1>1. ft.ofile[p][i] \in 0..NFILE /\ 0 \in 0..NFILE
  BY FioAssumption DEF FileTypes, Tables
<1> QED BY <1>1 DEF Call, ClosingCalls

\* close, and the descriptors that exit closes.
LEMMA ClosesCleared ==
    ASSUME FileInv, fioCalls' \in Nat, NEW p \in Tasks, NEW i \in FileSlots,
           NEW name \in {"close", "exit"}, busy[p].at \in {"user", "exit"},
           ft.ofile[p][i] # 0,
           closef(p, [ft EXCEPT !.ofile[p][i] = 0], Call(name, i, ft.ofile[p][i]))
    PROVE  FileInv'
<1>1. PICK s : s = [ft EXCEPT !.ofile[p][i] = 0]
  OBVIOUS
<1>2. ClearedIn(p, i, s)
  BY <1>1, DescriptorCleared, Zenon DEF FileInv
<1>3. PICK c \in ClosingCalls :
        /\ c = Call(name, i, ft.ofile[p][i])
        /\ c.call = name /\ c.slot = i /\ c.f = ft.ofile[p][i] /\ c.from = 0
  BY CallOfSlot DEF FileInv, Closers
<1>4. closef(p, s, c)
  BY <1>1, <1>3
<1>5. 0 \in 0..NFILE
  BY FioAssumption
<1>6. ReadyToClose(p, c.slot, s, c.call, c.f, c.from)
  BY <1>2, <1>3, <1>5 DEF ReadyToClose, Closers, ClearedIn
<1> QED BY <1>3, <1>4, <1>6, ClosefStep

\* close.
LEMMA CloseStep ==
    ASSUME FileInv, NEW p \in Tasks, NEW i \in FileSlots, close(p, i)
    PROVE  FileInv'
<1>1. /\ busy[p].at = "user" /\ fioCalls' \in Nat /\ ft.ofile[p][i] # 0
      /\ closef(p, [ft EXCEPT !.ofile[p][i] = 0], Call("close", i, ft.ofile[p][i]))
  BY DEF close, FioEnters, FileInv, FileTypes
<1> QED BY <1>1, ClosesCleared

\* exit, slot by slot.
LEMMA ExitStep ==
    ASSUME FileInv, NEW p \in Tasks, ExitCloses(p)
    PROVE  FileInv'
<1>1. fioCalls' \in Nat /\ busy[p].at = "exit"
  BY DEF ExitCloses, FileInv, FileTypes
<1>2. CASE FileSlots \ FreeSlots(p) = {}
  <2>1. PICK d : d = [NotBusy EXCEPT !.at = "dead"]
    OBVIOUS
  <2>2. d \in CallRecords /\ d.at = "dead" /\ d.call # "stat"
    <3> 0 \in FileSlots /\ 0 \in 0..NFILE
      BY FioAssumption DEF FileSlots
    <3> QED BY <2>1 DEF NotBusy, CallRecords, Callers, FioPlaces
  <2>3. busy' = [busy EXCEPT ![p] = d] /\ ft' = ft
    BY <1>2, <2>1 DEF ExitCloses
  <2>4. ft' \in Tables
    BY <2>3 DEF FileInv, FileTypes
  <2> QED BY <1>1, <2>2, <2>3, <2>4, QuietStep
<1>3. CASE FileSlots \ FreeSlots(p) # {}
  <2>1. PICK i : i = Min(FileSlots \ FreeSlots(p))
    OBVIOUS
  <2>2. FileSlots \ FreeSlots(p) \subseteq Nat
    BY FioAssumption DEF FileSlots
  <2>3. i \in FileSlots /\ ft.ofile[p][i] # 0
    BY <1>3, <2>1, <2>2, MinOfNumbers DEF FreeSlots
  <2>4. closef(p, [ft EXCEPT !.ofile[p][i] = 0], Call("exit", i, ft.ofile[p][i]))
    BY <1>3, <2>1 DEF ExitCloses
  <2> QED BY <1>1, <2>3, <2>4, ClosesCleared
<1> QED BY <1>2, <1>3

\* exec closes the descriptors with EXCLOSE.
LEMMA ExecStep ==
    ASSUME FileInv, NEW p \in Tasks, setregs(p)
    PROVE  FileInv'
<1>1. fioCalls' \in Nat /\ busy[p].at = "exec" /\ ft \in Tables
  BY DEF setregs, FileInv, FileTypes
<1>2. CASE ft.excl[p] = {}
  <2>1. busy' = [busy EXCEPT ![p] = NotBusy] /\ ft' = ft
    BY <1>2 DEF setregs
  <2> QED BY <1>1, <2>1, NotBusyIsPlain, QuietStep
<1>3. CASE ft.excl[p] # {}
  <2>1. PICK i : i = Min(ft.excl[p])
    OBVIOUS
  <2>2. ft.excl[p] \subseteq Nat /\ ft.excl[p] \subseteq FileSlots
    BY <1>1, FioAssumption DEF FileSlots, Tables
  <2>3. i \in FileSlots
    BY <1>3, <2>1, <2>2, MinOfNumbers
  <2>4. PICK c \in ClosingCalls :
          /\ c = Call("exec", i, ft.ofile[p][i])
          /\ c.call = "exec" /\ c.slot = i /\ c.f = ft.ofile[p][i] /\ c.from = 0
    BY <2>3, CallOfSlot DEF FileInv, Closers
  <2>5. closef(p, ft, c)
    BY <1>3, <2>1, <2>4 DEF setregs
  <2>6. 0 \in 0..NFILE
    BY FioAssumption
  <2>7. ReadyToClose(p, c.slot, ft, c.call, c.f, c.from)
    BY <1>1, <2>4, <2>6 DEF ReadyToClose, Closers
  <2> QED BY <1>1, <2>4, <2>5, <2>7, ClosefStep
<1> QED BY <1>2, <1>3

\* dup.
LEMMA DupStep ==
    ASSUME FileInv, NEW p \in Tasks, NEW j \in FileSlots, NEW i \in FileSlots, dup(p, j, i)
    PROVE  FileInv'
<1>1. /\ fioCalls' \in Nat /\ busy[p].at = "user" /\ ft \in Tables
      /\ ft.ofile[p][j] # 0 /\ i # j
  BY DEF dup, FioEnters, FileInv, FileTypes
<1>2. ft.ofile[p][j] \in FileEntries /\ ft.ofile[p][j] \in 0..NFILE
  BY <1>1, FioAssumption DEF Tables, FileEntries
<1>3. PICK b \in ClosingCalls :
        /\ b = Call("dup", i, ft.ofile[p][i])
        /\ b.call = "dup" /\ b.slot = i /\ b.f = ft.ofile[p][i] /\ b.from = 0
  BY CallOfSlot DEF FileInv, Closers
<1>4. PICK c : c = [b EXCEPT !.from = ft.ofile[p][j]]
  OBVIOUS
<1>5. /\ c \in ClosingCalls
      /\ c.call = "dup" /\ c.slot = i /\ c.f = ft.ofile[p][i] /\ c.from = ft.ofile[p][j]
  BY <1>2, <1>3, <1>4 DEF ClosingCalls
<1>6. PICK s : s = [ft EXCEPT !.excl[p] = @ \ {i}]
  OBVIOUS
<1>7. /\ s \in Tables /\ s.count = ft.count /\ s.inode = ft.inode /\ s.icount = ft.icount
      /\ s.ofile = ft.ofile
  BY <1>1, <1>6 DEF Tables
<1>8. closef(p, s, c) \/ closef(p, ft, c)
  BY <1>3, <1>4, <1>6 DEF dup
<1>9. ReadyToClose(p, c.slot, s, c.call, c.f, c.from)
  BY <1>1, <1>2, <1>5, <1>7 DEF ReadyToClose, Closers
<1>10. ReadyToClose(p, c.slot, ft, c.call, c.f, c.from)
  BY <1>1, <1>2, <1>5 DEF ReadyToClose, Closers
<1> QED BY <1>1, <1>5, <1>8, <1>9, <1>10, ClosefStep

\* The tables s, in which entry f is free and its inode released.
GivenUp(f, ip, s) ==
    /\ s \in Tables /\ s.inode = ft.inode /\ s.ofile = ft.ofile
    /\ \A g \in FileEntries : s.count[g] = ft.count[g] - Bit(g = f)
    /\ \A jp \in Inodes : s.icount[jp] = ft.icount[jp] - Bit(jp = ip)

\* The last descriptor of an entry gives it up.
LEMMA LastGivesUp ==
    ASSUME FileTypes, NEW f \in FileEntries, ft.count[f] = 1, NEW ip \in Inodes, NEW s,
           s = [ft EXCEPT !.count[f] = 0, !.icount[ip] = @ - 1]
    PROVE  GivenUp(f, ip, s)
<1>1. ft \in Tables
  BY DEF FileTypes
<1>2. s = [count |-> [ft.count EXCEPT ![f] = 0], inode |-> ft.inode, ofile |-> ft.ofile,
           excl |-> ft.excl, icount |-> [ft.icount EXCEPT ![ip] = @ - 1],
           keeper |-> ft.keeper]
  BY <1>1 DEF Tables
<1>3. PICK n : n = [ft.count EXCEPT ![f] = 0]
  OBVIOUS
<1>4. PICK m : m = [ft.icount EXCEPT ![ip] = @ - 1]
  OBVIOUS
<1>5. n \in [FileEntries -> Nat] /\ \A g \in FileEntries : n[g] = ft.count[g] - Bit(g = f)
  BY <1>1, <1>3 DEF Tables, Bit
<1>6. m \in [Inodes -> Int] /\ \A jp \in Inodes : m[jp] = ft.icount[jp] - Bit(jp = ip)
  BY <1>1, <1>4 DEF Tables, Bit
<1>7. s.count = n /\ s.inode = ft.inode /\ s.ofile = ft.ofile /\ s.icount = m
  BY <1>2, <1>3, <1>4
<1>8. s \in Tables
  BY <1>1, <1>2, <1>3, <1>4, <1>5, <1>6 DEF Tables
<1> QED BY <1>5, <1>6, <1>7, <1>8 DEF GivenUp

\* What is true of a process that waits to give up an entry.
LEMMA Waiter ==
    ASSUME FileTypes, CallsOK, NEW p \in Tasks, busy[p].at = "plock"
    PROVE  LET c == busy[p] IN
           /\ c.call \in Closers /\ c.f \in FileEntries /\ c.f \in 0..NFILE /\ c.slot \in FileSlots
           /\ ft.count[c.f] = 1 /\ ft.inode[c.f] \in Inodes /\ Mark(p, c.slot) = c.f
           /\ c.call \in {"close", "exit"} => ft.ofile[p][c.slot] = 0
           /\ \A j \in FileSlots \ {c.slot} : Mark(p, j) = ft.ofile[p][j]
           /\ c.call = "dup" =>
                /\ c.from \in FileEntries
                /\ \E j \in FileSlots : j # c.slot /\ ft.ofile[p][j] = c.from
<1>1. CallOK(p) /\ busy[p] \in CallRecords
  BY DEF CallsOK, FileTypes
<1>2. busy[p].call \in Closers /\ busy[p].f \in FileEntries /\ busy[p].slot \in FileSlots
      /\ busy[p].f \in 0..NFILE /\ ft.count[busy[p].f] = 1
  BY <1>1 DEF CallOK, CallRecords, Closers
<1>3. ft.inode[busy[p].f] \in Inodes
  BY <1>2 DEF FileTypes
<1>4. ft.ofile[p][busy[p].slot] = IF busy[p].call \in {"dup", "exec"} THEN busy[p].f ELSE 0
  BY <1>1 DEF CallOK
<1>5. Mark(p, busy[p].slot) = busy[p].f
  BY <1>2, <1>4 DEF Mark, Closers
<1>6. \A j \in FileSlots \ {busy[p].slot} : Mark(p, j) = ft.ofile[p][j]
  BY DEF Mark
<1> QED BY <1>1, <1>2, <1>3, <1>4, <1>5, <1>6 DEF CallOK

\* The inode is locked and released; the device has still to be closed.
LEMMA PlockedThenClose ==
    ASSUME FileInv, fioCalls' \in Nat, NEW p \in Tasks, busy[p].at = "plock", NEW c, c = busy[p],
           GivenUp(c.f, ft.inode[c.f], ft'),
           busy' = [busy EXCEPT ![p] = [c EXCEPT !.at = "dclose"]]
    PROVE  FileInv'
<1>1. FileTypes /\ CallsOK /\ RightlyCounted /\ InodesCounted
  BY CountedInMarks DEF FileInv
<1>2. /\ c.call \in Closers /\ c.f \in FileEntries /\ c.f \in 0..NFILE /\ c.slot \in FileSlots
      /\ ft.count[c.f] = 1 /\ ft.inode[c.f] \in Inodes /\ Mark(p, c.slot) = c.f
      /\ c.call \in {"close", "exit"} => ft.ofile[p][c.slot] = 0
      /\ \A j \in FileSlots \ {c.slot} : Mark(p, j) = ft.ofile[p][j]
      /\ c.call = "dup" =>
           /\ c.from \in FileEntries
           /\ \E j \in FileSlots : j # c.slot /\ ft.ofile[p][j] = c.from
  BY <1>1, Waiter
<1>3. PICK d : d = [c EXCEPT !.at = "dclose"]
  OBVIOUS
<1>4. /\ d \in CallRecords /\ d.at = "dclose" /\ d.call = c.call /\ d.slot = c.slot
      /\ d.f = c.f /\ d.from = c.from
  <2>1. c \in CallRecords
    BY <1>1 DEF FileTypes
  <2> QED BY <1>3, <2>1 DEF CallRecords, FioPlaces
<1>5. busy' = [busy EXCEPT ![p] = d]
  BY <1>3
<1>6. busy'[p] = d /\ \A q \in Tasks \ {p} : busy'[q] = busy[q]
  BY <1>1, <1>5 DEF FileTypes
<1>7. ft' \in Tables /\ ft'.inode = ft.inode /\ ft'.ofile = ft.ofile
      /\ (\A g \in FileEntries : ft'.count[g] = ft.count[g] - Bit(g = c.f))
      /\ \A jp \in Inodes : ft'.icount[jp] = ft.icount[jp] - Bit(jp = ft.inode[c.f])
  BY DEF GivenUp
<1>8. \A g \in FileEntries : ft.count[g] \in Nat /\ ft'.count[g] \in Nat
  BY <1>1, <1>7 DEF FileTypes, Tables
<1>9. ft'.count[c.f] = 0 /\ \A g \in FileEntries \ {c.f} : ft'.count[g] = ft.count[g]
  BY <1>2, <1>7, <1>8 DEF Bit
<1>10. FileTypes'
  <2>1. busy' \in [Tasks -> CallRecords]
    BY <1>1, <1>4, <1>5 DEF FileTypes
  <2>2. \A g \in FileEntries : ft'.count[g] > 0 => ft'.inode[g] \in Inodes
    BY <1>1, <1>7, <1>9 DEF FileTypes
  <2> QED BY <1>7, <2>1, <2>2 DEF FileTypes
<1>11. Mark(p, c.slot)' = 0
  BY <1>2, <1>4, <1>6, <1>7 DEF Mark, Closers
<1>12. \A j \in FileSlots \ {c.slot} : Mark(p, j)' = Mark(p, j)
  BY <1>2, <1>4, <1>6, <1>7 DEF Mark
<1>13. Moves(p, c.slot, c.f, 0)
  <2>1. \A g \in FileEntries : ft'.count[g] = ft.count[g] - Bit(g = c.f) + Bit(g = 0)
    <3>1. \A g \in FileEntries : Bit(g = 0) = 0
      BY FioAssumption DEF FileEntries, Bit
    <3> QED BY <1>7, <1>8, <3>1
  <2> QED BY <1>2, <1>6, <1>7, <1>11, <1>12, <2>1 DEF Moves
<1>14. CallOK(p)'
  BY <1>2, <1>4, <1>6, <1>7, FioAssumption DEF CallOK, FioPlaces, Closers
<1>15. InodesCounted'
  <2>1. busy[p].call # "stat" /\ busy'[p].call # "stat"
    BY <1>2, <1>4, <1>6 DEF Closers
  <2>2. \A ip \in Inodes : Stating(ip)' = Stating(ip)
    BY <1>6, <2>1, SameStating
  <2>3. ft.count[c.f] > 0
    BY <1>2
  <2> QED BY <1>1, <1>2, <1>7, <1>9, <2>2, <2>3, EntryGivenUp
<1>16. 0 \in 0..NFILE
  BY FioAssumption
<1> QED BY <1>2, <1>10, <1>13, <1>14, <1>15, <1>16, MovePreserves

\* The inode is locked and released, and the caller goes on.
LEMMA PlockedThenOn ==
    ASSUME FileInv, fioCalls' \in Nat, NEW p \in Tasks, busy[p].at = "plock", NEW c, c = busy[p],
           NEW s, GivenUp(c.f, ft.inode[c.f], s), ft' = TablesAfter(p, s, c),
           busy' = [busy EXCEPT ![p] = CallAfter(c)]
    PROVE  FileInv'
<1>1. FileTypes /\ CallsOK /\ RightlyCounted /\ InodesCounted
  BY CountedInMarks DEF FileInv
<1>2. /\ c.call \in Closers /\ c.f \in FileEntries /\ c.f \in 0..NFILE /\ c.slot \in FileSlots
      /\ ft.count[c.f] = 1 /\ ft.inode[c.f] \in Inodes /\ Mark(p, c.slot) = c.f
      /\ c.call \in {"close", "exit"} => ft.ofile[p][c.slot] = 0
      /\ \A j \in FileSlots \ {c.slot} : Mark(p, j) = ft.ofile[p][j]
      /\ c.call = "dup" =>
           /\ c.from \in FileEntries
           /\ \E j \in FileSlots : j # c.slot /\ ft.ofile[p][j] = c.from
  BY <1>1, Waiter
<1>3. /\ s \in Tables /\ s.inode = ft.inode /\ s.ofile = ft.ofile
      /\ \A g \in FileEntries : s.count[g] = ft.count[g] - Bit(g = c.f)
      /\ \A jp \in Inodes : s.icount[jp] = ft.icount[jp] - Bit(jp = ft.inode[c.f])
  BY DEF GivenUp
<1>4. CallerLeaves(p, s, c, ft')
  <2>1. /\ c.call \in {"close", "dup", "exec", "exit"}
        /\ c.call = "dup" => c.from \in FileEntries
        /\ c.call \in {"close", "exit"} => s.ofile[p][c.slot] = 0
    BY <1>2, <1>3 DEF Closers
  <2> QED BY <1>2, <1>3, <2>1, CallerEffect
<1>5. PICK d : d = CallAfter(c)
  OBVIOUS
<1>6. d \in CallRecords /\ d.at \in {"user", "exec", "exit"} /\ d.call # "stat"
  BY <1>2, <1>5, CallAfterOK DEF Closers
<1>7. busy'[p] = d /\ \A q \in Tasks \ {p} : busy'[q] = busy[q]
  BY <1>1, <1>5 DEF FileTypes
<1>8. /\ ft' \in Tables /\ ft'.inode = ft.inode /\ ft'.icount = s.icount
      /\ \A g \in FileEntries : ft'.count[g] = s.count[g] + Bit(g = LeavesIn(c))
      /\ \A q \in Tasks \ {p} : ft'.ofile[q] = ft.ofile[q]
      /\ \A j \in FileSlots \ {c.slot} : ft'.ofile[p][j] = ft.ofile[p][j]
      /\ ft'.ofile[p][c.slot] = LeavesIn(c)
  BY <1>3, <1>4 DEF CallerLeaves
<1>9. \A j \in FileSlots : Mark(p, j)' = ft'.ofile[p][j]
  BY <1>6, <1>7 DEF Mark
<1>10. LeavesIn(c) \in 0..NFILE
  BY <1>2, FioAssumption DEF LeavesIn, FileEntries
<1>11. LeavesIn(c) # 0 => /\ LeavesIn(c) \in FileEntries
                          /\ \E j \in FileSlots : j # c.slot /\ Mark(p, j) = LeavesIn(c)
  BY <1>2 DEF LeavesIn
<1>12. \A g \in FileEntries : ft.count[g] \in Nat /\ s.count[g] \in Nat /\ ft'.count[g] \in Nat
  BY <1>1, <1>3, <1>8 DEF FileTypes, Tables
<1>13. \A g \in FileEntries : ft'.count[g] = ft.count[g] - Bit(g = c.f) + Bit(g = LeavesIn(c))
  BY <1>3, <1>8, <1>12
<1>14. Moves(p, c.slot, c.f, LeavesIn(c))
  BY <1>2, <1>7, <1>8, <1>9, <1>11, <1>13 DEF Moves
<1>15. LeavesIn(c) # c.f
  <2> SUFFICES ASSUME LeavesIn(c) = c.f PROVE FALSE
    OBVIOUS
  <2>1. PICK j \in FileSlots : j # c.slot /\ Mark(p, j) = c.f
    BY <1>2, <1>11, FioAssumption DEF FileEntries
  <2> QED BY <1>1, <1>2, <2>1, SoleMark
<1>16. LeavesIn(c) # 0 => ft.count[LeavesIn(c)] > 0
  BY <1>1, <1>11, MarkedIsCounted
<1>17. ft'.count[c.f] = 0
  BY <1>2, <1>13, <1>15 DEF Bit
<1>18. \A g \in FileEntries \ {c.f} : ft'.count[g] > 0 <=> ft.count[g] > 0
  <2> SUFFICES ASSUME NEW g \in FileEntries \ {c.f} PROVE ft'.count[g] > 0 <=> ft.count[g] > 0
    OBVIOUS
  <2>1. Bit(g = c.f) = 0 /\ Bit(g = LeavesIn(c)) \in Nat
    BY DEF Bit
  <2>2. CASE g = LeavesIn(c)
    <3>1. g # 0
      BY FioAssumption DEF FileEntries
    <3> QED BY <1>12, <1>13, <1>16, <2>1, <2>2, <3>1
  <2>3. CASE g # LeavesIn(c)
    <3>1. Bit(g = LeavesIn(c)) = 0
      BY <2>3 DEF Bit
    <3> QED BY <1>12, <1>13, <2>1, <3>1
  <2> QED BY <2>2, <2>3
<1>19. FileTypes'
  <2>1. busy' \in [Tasks -> CallRecords]
    BY <1>1, <1>5, <1>6 DEF FileTypes
  <2>2. \A g \in FileEntries : ft'.count[g] > 0 => ft'.inode[g] \in Inodes
    BY <1>1, <1>2, <1>8, <1>17, <1>18 DEF FileTypes
  <2> QED BY <1>8, <2>1, <2>2 DEF FileTypes
<1>20. CallOK(p)'
  BY <1>6, <1>7, PlainCallOKNext
<1>21. InodesCounted'
  <2>1. busy[p].call # "stat" /\ busy'[p].call # "stat"
    BY <1>2, <1>6, <1>7 DEF Closers
  <2>2. \A ip \in Inodes : Stating(ip)' = Stating(ip)
    BY <1>7, <2>1, SameStating
  <2>3. ft.count[c.f] > 0
    BY <1>2
  <2> QED BY <1>1, <1>2, <1>3, <1>8, <1>17, <1>18, <2>2, <2>3, EntryGivenUp
<1> QED BY <1>2, <1>10, <1>14, <1>19, <1>20, <1>21, MovePreserves

\* The entry is free, in closef.
LEMMA PlockedStep ==
    ASSUME FileInv, NEW p \in Tasks, Plocked(p)
    PROVE  FileInv'
<1>1. PICK c : c = busy[p]
  OBVIOUS
<1>2. PICK ip : ip = ft.inode[c.f]
  OBVIOUS
<1>3. PICK s : s = [ft EXCEPT !.count[c.f] = 0, !.icount[ip] = @ - 1]
  OBVIOUS
<1>4. /\ c.at = "plock"
      /\ \/ ft' = s /\ TurnsTo(p, [c EXCEPT !.at = "dclose"])
         \/ ft' = TablesAfter(p, s, c) /\ TurnsTo(p, CallAfter(c))
  BY <1>1, <1>2, <1>3 DEF Plocked
<1>5. FileTypes /\ CallsOK
  BY DEF FileInv
<1>6. c.f \in FileEntries /\ ft.count[c.f] = 1 /\ ip \in Inodes
  BY <1>1, <1>2, <1>4, <1>5, Waiter
<1>7. GivenUp(c.f, ip, s)
  BY <1>3, <1>5, <1>6, LastGivesUp, Zenon
<1>8. fioCalls' \in Nat
  BY <1>4, <1>5 DEF TurnsTo, FileTypes
<1>9. CASE ft' = s /\ TurnsTo(p, [c EXCEPT !.at = "dclose"])
  <2>1. busy' = [busy EXCEPT ![p] = [c EXCEPT !.at = "dclose"]]
    BY <1>9, Zenon DEF TurnsTo
  <2>2. GivenUp(c.f, ft.inode[c.f], ft')
    BY <1>2, <1>7, <1>9
  <2> QED BY <1>1, <1>4, <1>8, <2>1, <2>2, PlockedThenClose, Zenon
<1>10. CASE ft' = TablesAfter(p, s, c) /\ TurnsTo(p, CallAfter(c))
  <2>1. busy' = [busy EXCEPT ![p] = CallAfter(c)]
    BY <1>10 DEF TurnsTo
  <2>2. GivenUp(c.f, ft.inode[c.f], s)
    BY <1>2, <1>7
  <2> QED BY <1>1, <1>4, <1>8, <1>10, <2>1, <2>2, PlockedThenOn, Zenon
<1> QED BY <1>4, <1>9, <1>10

\* The device is closed, and the caller of closef goes on.
LEMMA DeviceClosedStep ==
    ASSUME FileInv, NEW p \in Tasks, DeviceClosed(p)
    PROVE  FileInv'
<1>1. FileTypes /\ CallsOK /\ RightlyCounted /\ InodesCounted
  BY CountedInMarks DEF FileInv
<1>2. PICK c \in CallRecords : c = busy[p]
  BY <1>1 DEF FileTypes
<1>3. /\ c.at = "dclose" /\ fioCalls' \in Nat /\ ft' = TablesAfter(p, ft, c)
      /\ busy' = [busy EXCEPT ![p] = CallAfter(c)]
  BY <1>1, <1>2 DEF DeviceClosed, TurnsTo, FileTypes
<1>4. /\ c.call \in Closers /\ c.slot \in FileSlots /\ ft \in Tables
      /\ c.call \in {"close", "exit"} => ft.ofile[p][c.slot] = 0
      /\ c.call = "dup" =>
           /\ c.from \in FileEntries
           /\ \E j \in FileSlots : j # c.slot /\ ft.ofile[p][j] = c.from
  BY <1>1, <1>2, <1>3 DEF CallsOK, CallOK, CallRecords, FileTypes, Closers
<1>5. /\ Mark(p, c.slot) = 0
      /\ \A j \in FileSlots \ {c.slot} : Mark(p, j) = ft.ofile[p][j]
  BY <1>2, <1>3, <1>4 DEF Mark, Closers
<1>6. CallerLeaves(p, ft, c, ft')
  <2>1. /\ c.call \in {"close", "dup", "exec", "exit"}
        /\ c.call = "dup" => c.from \in FileEntries
    BY <1>4 DEF Closers
  <2> QED BY <1>3, <1>4, <2>1, CallerEffect
<1>7. PICK d : d = CallAfter(c)
  OBVIOUS
<1>8. d \in CallRecords /\ d.at \in {"user", "exec", "exit"} /\ d.call # "stat"
  BY <1>4, <1>7, CallAfterOK DEF Closers
<1>9. busy'[p] = d /\ \A q \in Tasks \ {p} : busy'[q] = busy[q]
  BY <1>1, <1>3, <1>7 DEF FileTypes
<1>10. /\ ft' \in Tables /\ ft'.inode = ft.inode /\ ft'.icount = ft.icount
       /\ \A g \in FileEntries : ft'.count[g] = ft.count[g] + Bit(g = LeavesIn(c))
       /\ \A q \in Tasks \ {p} : ft'.ofile[q] = ft.ofile[q]
       /\ \A j \in FileSlots \ {c.slot} : ft'.ofile[p][j] = ft.ofile[p][j]
       /\ ft'.ofile[p][c.slot] = LeavesIn(c)
  BY <1>6 DEF CallerLeaves
<1>11. \A j \in FileSlots : Mark(p, j)' = ft'.ofile[p][j]
  BY <1>8, <1>9 DEF Mark
<1>12. LeavesIn(c) \in 0..NFILE /\ 0 \in 0..NFILE
  BY <1>4, FioAssumption DEF LeavesIn, FileEntries
<1>13. LeavesIn(c) # 0 => /\ LeavesIn(c) \in FileEntries
                          /\ \E j \in FileSlots : j # c.slot /\ Mark(p, j) = LeavesIn(c)
  BY <1>4, <1>5 DEF LeavesIn
<1>14. \A g \in FileEntries : ft.count[g] \in Nat
  BY <1>4 DEF Tables
<1>15. Moves(p, c.slot, 0, LeavesIn(c))
  <2>1. \A g \in FileEntries : ft'.count[g] = ft.count[g] - Bit(g = 0) + Bit(g = LeavesIn(c))
    <3>1. \A g \in FileEntries : Bit(g = 0) = 0
      BY FioAssumption DEF FileEntries, Bit
    <3> QED BY <1>10, <1>14, <3>1
  <2>2. Mark(p, c.slot)' = LeavesIn(c)
    BY <1>4, <1>10, <1>11
  <2>3. \A j \in FileSlots \ {c.slot} : Mark(p, j)' = Mark(p, j)
    BY <1>5, <1>10, <1>11
  <2>4. \A q \in Tasks \ {p} : busy'[q] = busy[q] /\ ft'.ofile[q] = ft.ofile[q]
    BY <1>9, <1>10
  <2>5. LeavesIn(c) = 0 \/ \E j \in FileSlots : j # c.slot /\ Mark(p, j) = LeavesIn(c)
    BY <1>13
  <2> QED BY <1>5, <2>1, <2>2, <2>3, <2>4, <2>5 DEF Moves
<1>16. LeavesIn(c) # 0 => ft.count[LeavesIn(c)] > 0
  BY <1>1, <1>13, MarkedIsCounted
<1>17. \A g \in FileEntries : ft'.count[g] > 0 <=> ft.count[g] > 0
  <2> SUFFICES ASSUME NEW g \in FileEntries PROVE ft'.count[g] > 0 <=> ft.count[g] > 0
    OBVIOUS
  <2>1. g # 0
    BY FioAssumption DEF FileEntries
  <2> QED BY <1>10, <1>14, <1>16, <2>1 DEF Bit
<1>18. FileTypes'
  <2>1. busy' \in [Tasks -> CallRecords]
    BY <1>1, <1>3, <1>7, <1>8 DEF FileTypes
  <2>2. \A g \in FileEntries : ft'.count[g] > 0 => ft'.inode[g] \in Inodes
    BY <1>1, <1>10, <1>17 DEF FileTypes
  <2> QED BY <1>3, <1>10, <2>1, <2>2 DEF FileTypes
<1>19. CallOK(p)'
  BY <1>8, <1>9, PlainCallOKNext
<1>20. InodesCounted'
  <2>1. busy[p].call # "stat" /\ busy'[p].call # "stat"
    BY <1>2, <1>4, <1>8, <1>9 DEF Closers
  <2>2. \A ip \in Inodes : Stating(ip)' = Stating(ip)
    BY <1>9, <2>1, SameStating
  <2> QED BY <1>1, <1>10, <1>17, <2>2, SameEntries
<1> QED BY <1>4, <1>12, <1>15, <1>18, <1>19, <1>20, MovePreserves

\* open of a device fails: the new descriptor and its entry are given up.
LEMMA OpenFailsStep ==
    ASSUME FileInv, NEW p \in Tasks, OpenFails(p)
    PROVE  FileInv'
<1>1. FileTypes /\ CallsOK /\ RightlyCounted /\ InodesCounted
  BY CountedInMarks DEF FileInv
<1>2. PICK c \in CallRecords : c = busy[p]
  BY <1>1 DEF FileTypes
<1>3. PICK ip : ip = ft.inode[c.f]
  OBVIOUS
<1>4. /\ c.at = "openi" /\ fioCalls' \in Nat /\ busy' = [busy EXCEPT ![p] = NotBusy]
      /\ ft' = [ft EXCEPT !.ofile[p][c.slot] = 0, !.count[c.f] = @ - 1,
                          !.icount[ip] = @ - 1, !.keeper[ip] = 0]
  BY <1>1, <1>2, <1>3 DEF OpenFails, TurnsTo, FileTypes
<1>5. /\ c.f \in FileEntries /\ c.f \in 0..NFILE /\ c.slot \in FileSlots /\ c.call = "open"
      /\ ft.count[c.f] = 1 /\ ft.ofile[p][c.slot] = c.f /\ ip \in Inodes
  BY <1>1, <1>2, <1>3, <1>4 DEF CallsOK, CallOK, CallRecords, FileTypes
<1>6. PICK o : o = [ft.ofile[p] EXCEPT ![c.slot] = 0]
  OBVIOUS
<1>7. PICK n : n = [ft.count EXCEPT ![c.f] = 0]
  OBVIOUS
<1>8. PICK m : m = [ft.icount EXCEPT ![ip] = @ - 1]
  OBVIOUS
<1>9. ft' = [count |-> n, inode |-> ft.inode, ofile |-> [ft.ofile EXCEPT ![p] = o],
             excl |-> ft.excl, icount |-> m, keeper |-> [ft.keeper EXCEPT ![ip] = 0]]
  <2>1. ft \in Tables /\ n = [ft.count EXCEPT ![c.f] = @ - 1]
    BY <1>1, <1>5, <1>7 DEF FileTypes
  <2> QED BY <1>4, <1>6, <1>8, <2>1 DEF Tables
<1>10. ft \in Tables /\ 0 \in 0..NFILE
  BY <1>1, FioAssumption DEF FileTypes
<1>11. n \in [FileEntries -> Nat] /\ n[c.f] = 0 /\ \A g \in FileEntries \ {c.f} : n[g] = ft.count[g]
  BY <1>5, <1>7, <1>10 DEF Tables
<1>12. m \in [Inodes -> Int] /\ \A jp \in Inodes : m[jp] = ft.icount[jp] - Bit(jp = ip)
  BY <1>5, <1>8, <1>10 DEF Tables, Bit
<1>13. /\ o \in [FileSlots -> 0..NFILE] /\ o[c.slot] = 0
       /\ \A j \in FileSlots \ {c.slot} : o[j] = ft.ofile[p][j]
  BY <1>5, <1>6, <1>10 DEF Tables
<1>14. /\ ft'.count = n /\ ft'.inode = ft.inode /\ ft'.icount = m
       /\ ft'.ofile = [ft.ofile EXCEPT ![p] = o]
  BY <1>9
<1>15. ft'.ofile[p] = o /\ \A q \in Tasks \ {p} : ft'.ofile[q] = ft.ofile[q]
  BY <1>10, <1>14 DEF Tables
<1>16. ft' \in Tables
  <2>1. [ft.keeper EXCEPT ![ip] = 0] \in [Inodes -> Tasks \cup {0}]
    BY <1>10 DEF Tables
  <2>2. [ft.ofile EXCEPT ![p] = o] \in [Tasks -> [FileSlots -> 0..NFILE]]
    BY <1>10, <1>13 DEF Tables
  <2> QED BY <1>9, <1>10, <1>11, <1>12, <2>1, <2>2 DEF Tables
<1>17. busy'[p] = NotBusy /\ \A q \in Tasks \ {p} : busy'[q] = busy[q]
  BY <1>1, <1>4 DEF FileTypes
<1>18. FileTypes'
  <2>1. busy' \in [Tasks -> CallRecords]
    BY <1>1, <1>4, NotBusyIsPlain DEF FileTypes
  <2>2. \A g \in FileEntries : ft'.count[g] > 0 => ft'.inode[g] \in Inodes
    BY <1>1, <1>11, <1>14 DEF FileTypes
  <2> QED BY <1>4, <1>16, <2>1, <2>2 DEF FileTypes
<1>19. /\ \A j \in FileSlots : Mark(p, j) = ft.ofile[p][j]
       /\ \A j \in FileSlots : Mark(p, j)' = o[j]
  BY <1>2, <1>4, <1>15, <1>17, NotBusyIsPlain DEF Mark
<1>20. Moves(p, c.slot, c.f, 0)
  <2>1. \A g \in FileEntries : ft'.count[g] = ft.count[g] - Bit(g = c.f) + Bit(g = 0)
    <3>1. \A g \in FileEntries : Bit(g = 0) = 0 /\ ft.count[g] \in Nat
      BY <1>10, FioAssumption DEF FileEntries, Bit, Tables
    <3>2. \A g \in FileEntries : n[g] = ft.count[g] - Bit(g = c.f)
      BY <1>5, <1>11, <3>1 DEF Bit
    <3> QED BY <1>14, <3>1, <3>2 DEF Bit
  <2> QED BY <1>5, <1>13, <1>15, <1>17, <1>19, <2>1 DEF Moves
<1>21. CallOK(p)'
  <2>1. busy'[p].at = "user" /\ busy'[p].call # "stat"
    BY <1>17, NotBusyIsPlain
  <2> QED BY <2>1, PlainCallOKNext
<1>22. InodesCounted'
  <2>1. busy[p].call # "stat" /\ busy'[p].call # "stat"
    BY <1>2, <1>5, <1>17, NotBusyIsPlain
  <2>2. \A jp \in Inodes : Stating(jp)' = Stating(jp)
    BY <1>17, <2>1, SameStating
  <2>3. ft.count[c.f] > 0
    BY <1>5
  <2> QED BY <1>1, <1>3, <1>5, <1>11, <1>12, <1>14, <2>2, <2>3, EntryGivenUp
<1> QED BY <1>5, <1>10, <1>18, <1>20, <1>21, <1>22, MovePreserves

\* open takes the first free slot and the first free entry.
LEMMA OpenStep ==
    ASSUME FileInv, NEW p \in Tasks, NEW ip \in Inodes, open(p, ip)
    PROVE  FileInv'
<1>1. FileTypes /\ CallsOK /\ RightlyCounted /\ InodesCounted
  BY CountedInMarks DEF FileInv
<1>2. PICK i : i = Min(FreeSlots(p))
  OBVIOUS
<1>3. PICK f : f = Min(FreeEntries)
  OBVIOUS
<1>4. PICK d : d = [call |-> "open", at |-> "openi", slot |-> i, f |-> f, from |-> 0]
  OBVIOUS
<1>5. /\ busy[p].at = "user" /\ fioCalls' \in Nat /\ FreeSlots(p) # {} /\ FreeEntries # {}
      /\ ft' = falloc(p, i, f, ip)
      /\ busy' = busy \/ busy' = [busy EXCEPT ![p] = d]
  BY <1>1, <1>2, <1>3, <1>4 DEF open, FioEnters, FileTypes
<1>6. i \in FileSlots /\ ft.ofile[p][i] = 0 /\ f \in FileEntries /\ ft.count[f] = 0
  <2>1. FreeSlots(p) \subseteq Nat /\ FreeEntries \subseteq Nat
    BY FioAssumption DEF FreeSlots, FreeEntries, FileSlots, FileEntries
  <2>2. i \in FreeSlots(p) /\ f \in FreeEntries
    BY <1>2, <1>3, <1>5, <2>1, MinOfNumbers
  <2> QED BY <2>2 DEF FreeSlots, FreeEntries
<1>7. f # 0 /\ f \in 0..NFILE /\ 0 \in 0..NFILE /\ ft \in Tables
  BY <1>1, <1>6, FioAssumption DEF FileEntries, FileTypes
<1>8. PICK o : o = [ft.ofile[p] EXCEPT ![i] = f]
  OBVIOUS
<1>9. PICK n : n = [ft.count EXCEPT ![f] = 1]
  OBVIOUS
<1>10. PICK m : m = [ft.icount EXCEPT ![ip] = @ + 1]
  OBVIOUS
<1>11. PICK k : k = [ft.inode EXCEPT ![f] = ip]
  OBVIOUS
<1>12. ft' = [count |-> n, inode |-> k, ofile |-> [ft.ofile EXCEPT ![p] = o],
              excl |-> [ft.excl EXCEPT ![p] = @ \ {i}], icount |-> m, keeper |-> ft.keeper]
  BY <1>5, <1>7, <1>8, <1>9, <1>10, <1>11 DEF falloc, Tables
<1>13. n \in [FileEntries -> Nat] /\ n[f] = 1 /\ \A g \in FileEntries \ {f} : n[g] = ft.count[g]
  BY <1>6, <1>7, <1>9 DEF Tables
<1>14. m \in [Inodes -> Int] /\ \A jp \in Inodes : m[jp] = ft.icount[jp] + Bit(jp = ip)
  BY <1>7, <1>10 DEF Tables, Bit
<1>15. /\ k \in [FileEntries -> Inodes \cup {NoInode}] /\ k[f] = ip
       /\ \A g \in FileEntries \ {f} : k[g] = ft.inode[g]
  BY <1>6, <1>7, <1>11 DEF Tables
<1>16. /\ o \in [FileSlots -> 0..NFILE] /\ o[i] = f
       /\ \A j \in FileSlots \ {i} : o[j] = ft.ofile[p][j]
  BY <1>6, <1>7, <1>8 DEF Tables
<1>17. /\ ft'.count = n /\ ft'.inode = k /\ ft'.icount = m
       /\ ft'.ofile = [ft.ofile EXCEPT ![p] = o]
  BY <1>12
<1>18. ft'.ofile[p] = o /\ \A q \in Tasks \ {p} : ft'.ofile[q] = ft.ofile[q]
  BY <1>7, <1>17 DEF Tables
<1>19. ft' \in Tables
  <2>1. [ft.excl EXCEPT ![p] = @ \ {i}] \in [Tasks -> SUBSET FileSlots]
    BY <1>7 DEF Tables
  <2>2. [ft.ofile EXCEPT ![p] = o] \in [Tasks -> [FileSlots -> 0..NFILE]]
    BY <1>7, <1>16 DEF Tables
  <2>3. ft.keeper \in [Inodes -> Tasks \cup {0}]
    BY <1>7 DEF Tables
  <2> QED BY <1>12, <1>13, <1>14, <1>15, <2>1, <2>2, <2>3 DEF Tables
<1>20. busy[p].call # "stat" /\ \A j \in FileSlots : Mark(p, j) = ft.ofile[p][j]
  BY <1>1, <1>5, PlainCall
<1>21. d \in CallRecords
  BY <1>4, <1>6, <1>7 DEF CallRecords, Callers, FioPlaces
<1>22. /\ \A q \in Tasks \ {p} : busy'[q] = busy[q]
       /\ busy'[p] = busy[p] \/ busy'[p] = d
       /\ busy' \in [Tasks -> CallRecords]
  BY <1>1, <1>5, <1>21 DEF FileTypes
<1>23. busy'[p].at \in {"user", "openi"} /\ busy'[p].call # "stat"
  BY <1>4, <1>5, <1>20, <1>22
<1>24. \A j \in FileSlots : Mark(p, j)' = o[j]
  BY <1>18, <1>23 DEF Mark
<1>25. FileTypes'
  <2>1. \A g \in FileEntries : ft'.count[g] > 0 => ft'.inode[g] \in Inodes
    BY <1>1, <1>13, <1>15, <1>17 DEF FileTypes
  <2> QED BY <1>5, <1>19, <1>22, <2>1 DEF FileTypes
<1>26. Moves(p, i, 0, f)
  <2>1. \A g \in FileEntries : ft'.count[g] = ft.count[g] - Bit(g = 0) + Bit(g = f)
    <3>1. \A g \in FileEntries : Bit(g = 0) = 0 /\ ft.count[g] \in Nat
      BY <1>7, FioAssumption DEF FileEntries, Bit, Tables
    <3> QED BY <1>6, <1>13, <1>17, <3>1 DEF Bit
  <2>2. Mark(p, i) = 0 /\ Mark(p, i)' = f
    BY <1>6, <1>16, <1>20, <1>24
  <2>3. \A j \in FileSlots \ {i} : Mark(p, j)' = Mark(p, j)
    BY <1>16, <1>20, <1>24
  <2> QED BY <1>6, <1>18, <1>22, <2>1, <2>2, <2>3 DEF Moves
<1>27. CallOK(p)'
  <2>1. CASE busy'[p] = busy[p]
    <3>1. busy'[p].at = "user" /\ busy'[p].call # "stat"
      BY <1>5, <1>20, <2>1
    <3> QED BY <3>1, PlainCallOKNext
  <2>2. CASE busy'[p] = d
    <3>1. /\ busy'[p].at = "openi" /\ busy'[p].call = "open" /\ busy'[p].f = f
          /\ busy'[p].slot = i
      BY <1>4, <2>2
    <3>2. ft'.count[f] = 1 /\ ft'.ofile[p][i] = f
      BY <1>13, <1>16, <1>17, <1>18
    <3> QED BY <1>6, <3>1, <3>2, FioAssumption DEF CallOK, FioPlaces
  <2> QED BY <1>22, <2>1, <2>2
<1>28. InodesCounted'
  <2>1. \A jp \in Inodes : Stating(jp)' = Stating(jp)
    BY <1>20, <1>22, <1>23, SameStating
  <2>2. /\ ft'.count[f] > 0 /\ ft'.inode[f] = ip
        /\ \A g \in FileEntries \ {f} : ft'.count[g] = ft.count[g] /\ ft'.inode[g] = ft.inode[g]
        /\ \A jp \in Inodes : ft'.icount[jp] = ft.icount[jp] + Bit(jp = ip)
    BY <1>13, <1>14, <1>15, <1>17
  <2> QED BY <1>1, <1>6, <2>1, <2>2, EntryTaken
<1> QED BY <1>6, <1>7, <1>25, <1>26, <1>27, <1>28, MovePreserves

\* A call takes an inode (e is 1, and x is p) or puts it back (e is -1, and x is 0).
StatKeeps(p, ip, e, x, d) ==
    /\ fioCalls' \in Nat /\ busy' = [busy EXCEPT ![p] = d]
    /\ ft' = [ft EXCEPT !.icount[ip] = @ + e, !.keeper[ip] = x]
    /\ IF e = 1 THEN busy[p].at = "user" /\ d.call = "stat" /\ d.at = ip
       ELSE busy[p].call = "stat" /\ busy[p].at = ip /\ d.call = "" /\ d.at = "user"

\* The descriptors stay as they are.
LEMMA StatSteps ==
    ASSUME FileInv, NEW p \in Tasks, StatEnds(p) \/ \E ip \in Inodes : statCall(p, ip)
    PROVE  FileInv'
<1>1. FileTypes /\ CallsOK /\ RightlyCounted /\ InodesCounted
  BY CountedInMarks DEF FileInv
<1>2. PICK ip \in Inodes, e \in {1, -1}, x \in Tasks \cup {0}, d \in CallRecords :
        StatKeeps(p, ip, e, x, d)
  <2>1. ASSUME NEW ip \in Inodes, statCall(p, ip)
        PROVE  /\ fioCalls' \in Nat /\ busy[p].at = "user"
               /\ ft' = [ft EXCEPT !.icount[ip] = @ + 1, !.keeper[ip] = p]
               /\ busy' = [busy EXCEPT ![p] = [NotBusy EXCEPT !.call = "stat", !.at = ip]]
    <3>0. fioCalls' = fioCalls + 1 /\ busy[p].at = "user"
      BY <2>1, Zenon DEF statCall, FioEnters
    <3>1. fioCalls' \in Nat /\ busy[p].at = "user"
      BY <1>1, <3>0 DEF FileTypes
    <3>2. /\ ft' = [ft EXCEPT !.icount[ip] = @ + 1, !.keeper[ip] = p]
          /\ busy' = [busy EXCEPT ![p] = [NotBusy EXCEPT !.call = "stat", !.at = ip]]
      BY <2>1, Zenon DEF statCall
    <3> QED BY <3>1, <3>2, Zenon
  <2>2. ASSUME NEW ip \in Inodes
        PROVE  \E d \in CallRecords : /\ d = [NotBusy EXCEPT !.call = "stat", !.at = ip]
                                      /\ d.call = "stat" /\ d.at = ip
    <3>1. PICK b \in CallRecords : b = NotBusy
      BY NotBusyIsPlain
    <3>2. PICK d : d = [b EXCEPT !.call = "stat", !.at = ip]
      OBVIOUS
    <3>3. d \in CallRecords /\ d.call = "stat" /\ d.at = ip
      BY <3>2 DEF CallRecords, Callers
    <3> QED BY <3>1, <3>2, <3>3, Zenon
  <2>3. CASE \E ip \in Inodes : statCall(p, ip)
    <3>1. PICK ip \in Inodes : statCall(p, ip)
      BY <2>3
    <3>2. PICK d \in CallRecords : /\ d = [NotBusy EXCEPT !.call = "stat", !.at = ip]
                                   /\ d.call = "stat" /\ d.at = ip
      BY <2>2, ZenonT(60)
    <3>3. /\ fioCalls' \in Nat /\ busy' = [busy EXCEPT ![p] = d]
          /\ ft' = [ft EXCEPT !.icount[ip] = @ + 1, !.keeper[ip] = p]
          /\ busy[p].at = "user" /\ d.call = "stat" /\ d.at = ip
      BY <2>1, <3>1, <3>2
    <3>4. StatKeeps(p, ip, 1, p, d)
      BY <3>3 DEF StatKeeps
    <3> QED BY <3>4
  <2>4. CASE StatEnds(p)
    <3>1. PICK ip : ip = busy[p].at
      OBVIOUS
    <3>2. ip \in Inodes /\ busy[p].call = "stat"
      BY <1>1, <2>4, <3>1 DEF StatEnds, CallsOK, CallOK
    <3>3. /\ ft' = [ft EXCEPT !.icount[ip] = @ - 1, !.keeper[ip] = 0]
          /\ busy' = [busy EXCEPT ![p] = NotBusy] /\ fioCalls' \in Nat
      BY <1>1, <2>4, <3>1 DEF StatEnds, TurnsTo, FileTypes
    <3>4. [ft EXCEPT !.icount[ip] = @ - 1, !.keeper[ip] = 0]
            = [ft EXCEPT !.icount[ip] = @ + (-1), !.keeper[ip] = 0]
      BY <1>1, <3>2 DEF FileTypes, Tables
    <3>5. PICK e \in {1, -1} : e = -1 /\ e # 1
      OBVIOUS
    <3>6. PICK x \in Tasks \cup {0} : x = 0
      OBVIOUS
    <3>7. ft' = [ft EXCEPT !.icount[ip] = @ + e, !.keeper[ip] = x]
      BY <3>3, <3>4, <3>5, <3>6
    <3>8. /\ busy[p].call = "stat" /\ busy[p].at = ip
          /\ NotBusy.call = "" /\ NotBusy.at = "user" /\ NotBusy \in CallRecords
      BY <3>1, <3>2, NotBusyIsPlain
    <3>9. IF e = 1 THEN busy[p].at = "user" /\ NotBusy.call = "stat" /\ NotBusy.at = ip
          ELSE busy[p].call = "stat" /\ busy[p].at = ip
                 /\ NotBusy.call = "" /\ NotBusy.at = "user"
      BY <3>5, <3>8
    <3>10. StatKeeps(p, ip, e, x, NotBusy)
      BY <3>3, <3>7, <3>9, Zenon DEF StatKeeps
    <3> QED BY <3>2, <3>8, <3>10
  <2> QED BY <2>3, <2>4
<1>3. /\ fioCalls' \in Nat /\ busy' = [busy EXCEPT ![p] = d]
      /\ ft' = [ft EXCEPT !.icount[ip] = @ + e, !.keeper[ip] = x]
      /\ IF e = 1 THEN busy[p].at = "user" /\ d.call = "stat" /\ d.at = ip
         ELSE busy[p].call = "stat" /\ busy[p].at = ip /\ d.call = "" /\ d.at = "user"
  BY <1>2 DEF StatKeeps
<1>4. PICK m : m = [ft.icount EXCEPT ![ip] = @ + e]
  OBVIOUS
<1>5. ft' = [count |-> ft.count, inode |-> ft.inode, ofile |-> ft.ofile, excl |-> ft.excl,
             icount |-> m, keeper |-> [ft.keeper EXCEPT ![ip] = x]]
  BY <1>1, <1>3, <1>4 DEF FileTypes, Tables
<1>6. m \in [Inodes -> Int] /\ \A jp \in Inodes : m[jp] = ft.icount[jp] + (IF jp = ip THEN e ELSE 0)
  BY <1>1, <1>4 DEF FileTypes, Tables
<1>7. /\ ft'.count = ft.count /\ ft'.inode = ft.inode /\ ft'.ofile = ft.ofile
      /\ ft'.icount = m
  BY <1>5
<1>8. ft' \in Tables
  <2>1. [ft.keeper EXCEPT ![ip] = x] \in [Inodes -> Tasks \cup {0}] /\ ft \in Tables
    BY <1>1 DEF FileTypes, Tables
  <2> QED BY <1>5, <1>6, <2>1 DEF Tables
<1>9. busy'[p] = d /\ \A q \in Tasks \ {p} : busy'[q] = busy[q]
  BY <1>1, <1>3 DEF FileTypes
<1>10. FileTypes'
  <2>1. busy' \in [Tasks -> CallRecords]
    BY <1>1, <1>3 DEF FileTypes
  <2> QED BY <1>1, <1>3, <1>7, <1>8, <2>1 DEF FileTypes
<1>11. \A j \in FileSlots : Mark(p, j)' = Mark(p, j) /\ Mark(p, j) = ft.ofile[p][j]
  <2>1. busy[p].at \notin {"plock", "dclose"} /\ busy'[p].at \notin {"plock", "dclose"}
    BY <1>3, <1>9, FioAssumption DEF FioPlaces
  <2> QED BY <1>7, <2>1 DEF Mark
<1>12. PICK i \in FileSlots : i = 0
  BY FioAssumption DEF FileSlots
<1>13. ft.ofile[p][i] \in 0..NFILE
  BY <1>1 DEF FileTypes, Tables
<1>14. Moves(p, i, ft.ofile[p][i], ft.ofile[p][i])
  <2>1. \A g \in FileEntries :
          ft'.count[g] = ft.count[g] - Bit(g = ft.ofile[p][i]) + Bit(g = ft.ofile[p][i])
    <3>1. \A g \in FileEntries : ft'.count[g] = ft.count[g] /\ ft.count[g] \in Nat
      BY <1>1, <1>7 DEF FileTypes, Tables
    <3>2. \A g \in FileEntries : Bit(g = ft.ofile[p][i]) \in Nat
      BY DEF Bit
    <3>3. \A y, z \in Nat : y = y - z + z
      OBVIOUS
    <3> QED BY <3>1, <3>2, <3>3
  <2> QED BY <1>7, <1>9, <1>11, <2>1 DEF Moves
<1>15. CallOK(p)'
  <2>1. CASE e = 1
    <3>1. busy'[p].call = "stat" /\ busy'[p].at = ip /\ ip \notin FioPlaces
      BY <1>3, <1>9, <2>1, FioAssumption
    <3> QED BY <3>1 DEF CallOK, FioPlaces
  <2>2. CASE e # 1
    <3>1. busy'[p].at = "user" /\ busy'[p].call # "stat"
      BY <1>3, <1>9, <2>2
    <3> QED BY <3>1, PlainCallOKNext
  <2> QED BY <2>1, <2>2
<1>16. InodesCounted'
  <2>1. e = 1 => busy[p].call # "stat"
    BY <1>1, <1>3, PlainCall
  <2>2. IF e = 1 THEN busy[p].call # "stat" /\ busy'[p].call = "stat" /\ busy'[p].at = ip
        ELSE busy'[p].call # "stat" /\ busy[p].call = "stat" /\ busy[p].at = ip
    BY <1>3, <1>9, <2>1
  <2>3. /\ \A g \in FileEntries : ft'.count[g] = ft.count[g] /\ ft'.inode[g] = ft.inode[g]
        /\ \A jp \in Inodes : ft'.icount[jp] = ft.icount[jp] + (IF jp = ip THEN e ELSE 0)
    BY <1>6, <1>7
  <2> QED BY <1>1, <1>9, <2>2, <2>3, StatCounted
<1> QED BY <1>10, <1>13, <1>14, <1>15, <1>16, MovePreserves

\* fork: the child holds what the parent holds, and every entry counts both.
LEMMA NewprocStep ==
    ASSUME FileInv, NEW p \in Tasks, NEW q \in Tasks, newproc(p, q)
    PROVE  FileInv'
<1>1. FileTypes /\ CallsOK /\ RightlyCounted /\ InodesCounted
  BY CountedInMarks DEF FileInv
<1>2. /\ busy[p].at = "user" /\ busy[q].at = "unborn" /\ fioCalls' \in Nat
      /\ busy' = [busy EXCEPT ![q] = NotBusy]
  BY <1>1 DEF newproc, FioEnters, FileTypes
<1>3. p # q /\ ft \in Tables
  BY <1>1, <1>2 DEF FileTypes
<1>4. PICK n : n = [f \in FileEntries |-> ft.count[f] + Shared(p)[f]]
  OBVIOUS
<1>5. ft' = [count |-> n, inode |-> ft.inode,
             ofile |-> [ft.ofile EXCEPT ![q] = ft.ofile[p]],
             excl |-> [ft.excl EXCEPT ![q] = ft.excl[p]], icount |-> ft.icount,
             keeper |-> ft.keeper]
  <2>1. ft' = [ft EXCEPT !.ofile[q] = ft.ofile[p], !.excl[q] = ft.excl[p],
                         !.count = [f \in FileEntries |-> @[f] + Shared(p)[f]]]
    BY Zenon DEF newproc
  <2> QED BY <1>3, <1>4, <2>1 DEF Tables
<1>6. \A f \in FileEntries : /\ n[f] = ft.count[f] + Cardinality({i \in FileSlots : ft.ofile[p][i] = f})
                             /\ Cardinality({i \in FileSlots : ft.ofile[p][i] = f}) \in Nat
                             /\ IsFiniteSet({i \in FileSlots : ft.ofile[p][i] = f})
  <2> SUFFICES ASSUME NEW f \in FileEntries
               PROVE  /\ n[f] = ft.count[f] + Cardinality({i \in FileSlots : ft.ofile[p][i] = f})
                      /\ Cardinality({i \in FileSlots : ft.ofile[p][i] = f}) \in Nat
                      /\ IsFiniteSet({i \in FileSlots : ft.ofile[p][i] = f})
    OBVIOUS
  <2>1. {i \in FileSlots : ft.ofile[p][i] = f} \in SUBSET FileSlots /\ IsFiniteSet(FileSlots)
    BY FiniteTables
  <2>2. IsFiniteSet({i \in FileSlots : ft.ofile[p][i] = f})
    BY <2>1, FS_Subset
  <2> QED BY <1>4, <2>2, FS_CardinalityType DEF Shared
<1>7. n \in [FileEntries -> Nat]
  <2>1. \A f \in FileEntries : n[f] \in Nat
    <3>1. \A f \in FileEntries : ft.count[f] \in Nat
      BY <1>3 DEF Tables
    <3>2. \A x, y \in Nat : x + y \in Nat
      OBVIOUS
    <3> QED BY <1>6, <3>1, <3>2
  <2> QED BY <1>4, <2>1
<1>8. /\ ft'.count = n /\ ft'.inode = ft.inode /\ ft'.icount = ft.icount
      /\ ft'.ofile = [ft.ofile EXCEPT ![q] = ft.ofile[p]]
  BY <1>5
<1>9. ft'.ofile[q] = ft.ofile[p] /\ \A r \in Tasks \ {q} : ft'.ofile[r] = ft.ofile[r]
  BY <1>3, <1>8 DEF Tables
<1>10. ft' \in Tables
  <2>1. [ft.excl EXCEPT ![q] = ft.excl[p]] \in [Tasks -> SUBSET FileSlots]
    BY <1>3 DEF Tables
  <2>2. [ft.ofile EXCEPT ![q] = ft.ofile[p]] \in [Tasks -> [FileSlots -> 0..NFILE]]
    BY <1>3 DEF Tables
  <2>3. ft.keeper \in [Inodes -> Tasks \cup {0}] /\ ft.icount \in [Inodes -> Int]
        /\ ft.inode \in [FileEntries -> Inodes \cup {NoInode}]
    BY <1>3 DEF Tables
  <2> QED BY <1>5, <1>7, <2>1, <2>2, <2>3 DEF Tables
<1>11. busy'[q] = NotBusy /\ \A r \in Tasks \ {q} : busy'[r] = busy[r]
  BY <1>1, <1>2 DEF FileTypes
<1>12. \A i \in FileSlots : Mark(p, i) = ft.ofile[p][i] /\ Mark(q, i) = 0
  <2>1. \A i \in FileSlots : ft.ofile[q][i] = 0
    BY <1>1, <1>2 DEF CallsOK, CallOK
  <2> QED BY <1>2, <2>1 DEF Mark
<1>13. \A i \in FileSlots : Mark(q, i)' = ft.ofile[p][i]
  BY <1>9, <1>11, NotBusyIsPlain DEF Mark
<1>14. \A r \in Tasks \ {q}, i \in FileSlots : Mark(r, i)' = Mark(r, i)
  BY <1>9, <1>11 DEF Mark
<1>15. \A f \in FileEntries : (\E i \in FileSlots : ft.ofile[p][i] = f) => ft.count[f] > 0
  BY <1>1, <1>12, MarkedIsCounted
<1>16. \A f \in FileEntries : /\ ft'.count[f] > 0 <=> ft.count[f] > 0
                              /\ ~(\E i \in FileSlots : ft.ofile[p][i] = f) => n[f] = ft.count[f]
  <2> SUFFICES ASSUME NEW f \in FileEntries
               PROVE  /\ ft'.count[f] > 0 <=> ft.count[f] > 0
                      /\ ~(\E i \in FileSlots : ft.ofile[p][i] = f) => n[f] = ft.count[f]
    OBVIOUS
  <2>1. ft.count[f] \in Nat
    BY <1>3 DEF Tables
  <2>2. CASE \E i \in FileSlots : ft.ofile[p][i] = f
    <3>1. ft.count[f] > 0
      BY <1>15, <2>2
    <3>2. PICK h \in Nat : n[f] = ft.count[f] + h
      BY <1>6
    <3>3. n[f] > 0
      BY <2>1, <3>1, <3>2
    <3> QED BY <1>8, <2>2, <3>1, <3>3
  <2>3. CASE ~ \E i \in FileSlots : ft.ofile[p][i] = f
    <3>1. {i \in FileSlots : ft.ofile[p][i] = f} = {}
      BY <2>3
    <3>2. n[f] = ft.count[f]
      BY <1>6, <2>1, <3>1, FS_EmptySet
    <3> QED BY <1>8, <3>2
  <2> QED BY <2>2, <2>3
<1>17. FileTypes'
  <2>1. busy' \in [Tasks -> CallRecords]
    BY <1>1, <1>2, NotBusyIsPlain DEF FileTypes
  <2>2. \A g \in FileEntries : ft'.count[g] > 0 => ft'.inode[g] \in Inodes
    BY <1>1, <1>8, <1>16 DEF FileTypes
  <2> QED BY <1>2, <1>10, <2>1, <2>2 DEF FileTypes
<1>18. RightlyCounted'
  <2> SUFFICES ASSUME NEW f \in FileEntries PROVE ft'.count[f] = Cardinality(Marks(f)')
    BY DEF RightlyCounted
  <2> DEFINE M == Marks(f)
             N == Marks(f)'
             I == {i \in FileSlots : ft.ofile[p][i] = f}
             K == {q} \X I
  <2>1. f # 0
    BY FioAssumption DEF FileEntries
  <2>2. N = M \cup K
    <3>1. M \in SUBSET (Tasks \X FileSlots) /\ N \in SUBSET (Tasks \X FileSlots)
          /\ K \in SUBSET (Tasks \X FileSlots)
      BY DEF Marks
    <3>2. \A r \in Tasks, i \in FileSlots : <<r, i>> \in N <=> <<r, i>> \in M \/ <<r, i>> \in K
      BY <1>12, <1>13, <1>14, <2>1 DEF Marks
    <3> HIDE DEF M, N, K
    <3> QED BY <3>1, <3>2
  <2>3. M \cap K = {}
    BY <1>12, <2>1 DEF Marks
  <2>4. IsFiniteSet(M) /\ IsFiniteSet(I)
    BY <1>6, FiniteTables
  <2>5. IsFiniteSet({q}) /\ Cardinality({q}) = 1
    BY FS_Singleton
  <2>6. IsFiniteSet(K) /\ Cardinality(K) = Cardinality(I)
    <3> HIDE DEF I
    <3>1. IsFiniteSet(K) /\ Cardinality(K) = 1 * Cardinality(I) /\ Cardinality(I) \in Nat
      BY <2>4, <2>5, FS_Product, FS_CardinalityType
    <3> QED BY <3>1
  <2>7. Cardinality(M) = ft.count[f]
    BY <1>1 DEF RightlyCounted
  <2>8. ft'.count[f] = Cardinality(M) + Cardinality(I)
    BY <1>6, <1>8, <2>7
  <2>9. Cardinality(N) = Cardinality(M) + Cardinality(K)
    <3> HIDE DEF M, N, K
    <3>1. Cardinality(M \cup K) = Cardinality(M) + Cardinality(K) - Cardinality(M \cap K)
      BY <2>4, <2>6, FS_Union
    <3>2. Cardinality(M) \in Nat /\ Cardinality(K) \in Nat /\ Cardinality({}) = 0
      BY <2>4, <2>6, FS_CardinalityType, FS_EmptySet
    <3>3. Cardinality(M \cap K) = 0
      BY <2>3, <3>2
    <3> QED BY <2>2, <3>1, <3>2, <3>3
  <2> QED BY <2>6, <2>8, <2>9
<1>19. ASSUME NEW r \in Tasks PROVE CallOK(r)'
  <2>1. CASE r = q
    <3>1. busy'[q].at = "user" /\ busy'[q].call # "stat"
      BY <1>11, NotBusyIsPlain
    <3> QED BY <2>1, <3>1, PlainCallOKNext
  <2>2. CASE r # q
    <3>1. CallOK(r) /\ busy'[r] = busy[r] /\ ft'.ofile[r] = ft.ofile[r]
      BY <1>1, <1>9, <1>11, <2>2 DEF CallsOK
    <3>2. ASSUME busy[r].at \in {"openi", "plock"}
          PROVE  ft'.count[busy[r].f] = 1
      <4>1. PICK f \in FileEntries, k \in FileSlots :
              f = busy[r].f /\ k = busy[r].slot /\ ft.count[f] = 1 /\ Mark(r, k) = f
        BY <1>1, <3>1, <3>2 DEF CallOK, Mark, FileTypes, CallRecords
      <4>2. r # p
        BY <1>2, <3>2
      <4>3. ~ \E i \in FileSlots : ft.ofile[p][i] = f
        BY <1>1, <1>12, <4>1, <4>2, SoleMark
      <4> QED BY <1>8, <1>16, <4>1, <4>3
    <3> QED BY <3>1, <3>2 DEF CallOK
  <2> QED BY <2>1, <2>2
<1>20. InodesCounted'
  <2>1. busy[q].call # "stat" /\ busy'[q].call # "stat"
    BY <1>1, <1>2, <1>11, NotBusyIsPlain, FioAssumption DEF CallsOK, CallOK, FioPlaces
  <2>2. \A ip \in Inodes : Stating(ip)' = Stating(ip)
    BY <1>11, <2>1, SameStating
  <2> QED BY <1>1, <1>8, <1>16, <2>2, SameEntries
<1>21. CallsOK'
  BY <1>19 DEF CallsOK
<1> QED BY <1>17, <1>18, <1>20, <1>21, CountedInMarksNext DEF FileInv

\* At first nothing is open.
LEMMA FilesAtFirst == FioInit => FileInv
<1> SUFFICES ASSUME FioInit PROVE FileInv
  OBVIOUS
<1>1. 0 \in FileSlots /\ 0 \in 0..NFILE /\ \A f \in FileEntries : f # 0
  BY FioAssumption DEF FileSlots, FileEntries
<1>2. /\ ft.count = [f \in FileEntries |-> 0] /\ ft.icount = [ip \in Inodes |-> 0]
      /\ ft.ofile = [p \in Tasks |-> [i \in FileSlots |-> 0]]
      /\ ft.inode = [f \in FileEntries |-> NoInode]
  BY DEF FioInit, NoInode
<1>3. ft \in Tables
  BY <1>1 DEF FioInit, Tables, NoInode
<1>4. \A p \in Tasks : /\ busy[p] \in CallRecords /\ busy[p].at \in {"user", "unborn"}
                       /\ busy[p].call = ""
  <2> SUFFICES ASSUME NEW p \in Tasks
               PROVE  /\ busy[p] \in CallRecords /\ busy[p].at \in {"user", "unborn"}
                      /\ busy[p].call = ""
    OBVIOUS
  <2>1. PICK b \in CallRecords : b = NotBusy /\ b.call = ""
    BY NotBusyIsPlain
  <2>2. PICK x \in {"user", "unborn"} : x = IF p = Parent THEN "user" ELSE "unborn"
    OBVIOUS
  <2>3. PICK d : d = [b EXCEPT !.at = x]
    OBVIOUS
  <2>4. busy[p] = d
    BY <2>1, <2>2, <2>3, Zenon DEF FioInit
  <2>5. d \in CallRecords /\ d.at = x /\ d.call = ""
    BY <2>1, <2>3 DEF CallRecords, FioPlaces
  <2> QED BY <2>4, <2>5
<1>5. busy \in [Tasks -> CallRecords] /\ fioCalls \in Nat
  <2>1. DOMAIN busy = Tasks /\ busy = [p \in DOMAIN busy |-> busy[p]] /\ fioCalls = 0
    BY Zenon DEF FioInit
  <2> QED BY <1>4, <2>1
<1>6. /\ \A f \in FileEntries : ft.count[f] = 0
      /\ \A ip \in Inodes : ft.icount[ip] = 0
      /\ \A p \in Tasks, i \in FileSlots : ft.ofile[p][i] = 0
  BY <1>2
<1>7. FileTypes
  BY <1>3, <1>5, <1>6 DEF FileTypes
<1>8. CallsOK
  BY <1>1, <1>4, <1>6, FioAssumption DEF CallsOK, CallOK, FioPlaces
<1>9. \A p \in Tasks, i \in FileSlots : Mark(p, i) = 0
  BY <1>4, <1>6 DEF Mark
<1>10. \A f \in FileEntries : Marks(f) = {}
  BY <1>1, <1>9 DEF Marks
<1>11. RightlyCounted
  BY <1>10, <1>6, FS_EmptySet DEF RightlyCounted
<1>12. \A ip \in Inodes : Naming(ip) = {} /\ Stating(ip) = {}
  <2>1. \A ip \in Inodes : Naming(ip) = {}
    BY <1>6 DEF Naming
  <2>2. \A ip \in Inodes : Stating(ip) = {}
    BY <1>4 DEF Stating
  <2> QED BY <2>1, <2>2
<1>13. InodesCounted
  BY <1>12, <1>6, FS_EmptySet DEF InodesCounted
<1> QED BY <1>7, <1>8, <1>11, <1>13, CountedInMarks DEF FileInv

\* The invariant is of the variables.
LEMMA FilesStutter == FileInv /\ UNCHANGED fioVars => FileInv'
BY DEF FileInv, FileTypes, CallsOK, CallOK, FilesCounted, Refers, fioVars

\* f_count and i_count count what refers to an entry and to an inode, whatever processes
\* open, close, dup, inherit, wait for and give up, provided no signal breaks off a dup or
\* an exec in the close routine of a device (with one, the run of Fio shows what is lost).
THEOREM FilesTheorem ==
    ASSUME Broken \cap {"dup", "exec"} = {}
    PROVE  FioSpec => []FilesCounted
<1>1. FileInv /\ [FioNext]_fioVars => FileInv'
  <2> SUFFICES ASSUME FileInv, [FioNext]_fioVars PROVE FileInv'
    OBVIOUS
  <2>1. CASE UNCHANGED fioVars
    BY <2>1, FilesStutter
  <2>2. ASSUME NEW p \in Tasks,
               \/ \E ip \in Inodes : open(p, ip) \/ statCall(p, ip)
               \/ \E i \in FileSlots : close(p, i)
               \/ \E i, j \in FileSlots : dup(p, j, i)
               \/ \E q \in Tasks : newproc(p, q)
        PROVE  FileInv'
    BY <2>2, OpenStep, StatSteps, CloseStep, DupStep, NewprocStep
  <2>3. ASSUME NEW p \in Tasks,
               \/ \E i \in FileSlots : Fioclex(p, i)
               \/ exec(p) \/ exitCloses(p) \/ OpenEnded(p) \/ CloseBroken(p)
        PROVE  FileInv'
    BY <2>3, QuietActions
  <2>4. ASSUME NEW p \in Tasks,
               OpenFails(p) \/ StatEnds(p) \/ Plocked(p) \/ DeviceClosed(p) \/ setregs(p)
                 \/ ExitCloses(p)
        PROVE  FileInv'
    BY <2>4, OpenFailsStep, StatSteps, PlockedStep, DeviceClosedStep, ExecStep, ExitStep
  <2>5. CASE FioNext
    BY <2>2, <2>3, <2>4, <2>5 DEF FioNext
  <2> QED BY <2>1, <2>5
<1>2. FileInv => FilesCounted
  BY DEF FileInv
<1> QED BY <1>1, <1>2, FilesAtFirst, PTL DEF FioSpec

----------------------------------------------------------------------------
(* The process table *)

\* A number is that of one process, and of a group it is in, as far as byNumber lets it be.
NumbersNow(P) ==
    \A p, q \in ProcEntries : P[p].stat # "none" /\ P[q].stat # "none" =>
        /\ P[p].pid = P[q].pid => p = q
        /\ byNumber \/ (P[p].pid = P[q].pgrp => P[p].pgrp = P[q].pgrp)

\* The table is sound but for that.
SoundNow(P, i) ==
    /\ TableTypes(P, i) /\ ParentsLive(P) /\ NumbersNow(P) /\ Heard(P)
    /\ OneAsks(P, i) /\ OthersWait(P)

\* A process that others leave alone may be woken, and reported to its parent.
LeftAlone(x, y) ==
    /\ y.pid = x.pid /\ y.ppid = x.ppid /\ y.pgrp = x.pgrp /\ y.sig = x.sig
    /\ y.traced = x.traced /\ y.low = x.low /\ y.at = x.at /\ y.peer = x.peer
    /\ y.req = x.req /\ y.act = x.act /\ (x.swted => y.swted)
    /\ \/ y.stat = x.stat /\ y.chan = x.chan
       \/ x.stat = "SSLEEP" /\ y.stat = "SRUN"

\* What is the same about it.
LEMMA LeftIsSame ==
    ASSUME NEW x, NEW y, LeftAlone(x, y)
    PROVE  /\ y.pid = x.pid /\ y.ppid = x.ppid /\ y.pgrp = x.pgrp /\ y.at = x.at
           /\ y.peer = x.peer /\ y.req = x.req /\ Deliverable(y) = Deliverable(x)
           /\ y.stat = "none" <=> x.stat = "none"
           /\ y.stat = "SZOMB" <=> x.stat = "SZOMB"
           /\ y.stat = "SSTOP" <=> x.stat = "SSTOP"
           /\ y.stat = "SSLEEP" => x.stat = "SSLEEP"
           /\ x.stat = "SRUN" => y.stat = "SRUN"
           /\ (News(y) => News(x)) /\ (Placed(x) => Placed(y)) /\ (Quiet(x) => Quiet(y))
<1>1. Deliverable(y) = Deliverable(x)
  BY DEF LeftAlone, Deliverable
<1>2. /\ y.pid = x.pid /\ y.ppid = x.ppid /\ y.pgrp = x.pgrp /\ y.at = x.at
      /\ y.peer = x.peer /\ y.req = x.req
      /\ y.stat = "none" <=> x.stat = "none"
      /\ y.stat = "SZOMB" <=> x.stat = "SZOMB"
      /\ y.stat = "SSTOP" <=> x.stat = "SSTOP"
      /\ y.stat = "SSLEEP" => x.stat = "SSLEEP"
      /\ x.stat = "SRUN" => y.stat = "SRUN"
  BY DEF LeftAlone
<1>3. News(y) => News(x)
  BY DEF LeftAlone, News
<1>4. Placed(x) => Placed(y)
  BY DEF LeftAlone, Placed
<1>5. Quiet(x) => Quiet(y)
  BY DEF LeftAlone, Quiet
<1> QED BY <1>1, <1>2, <1>3, <1>4, <1>5

\* A process that runs changes only itself: it stays who it is, sleeps for a reason, and when
\* it has news its parent is not asleep.
OwnChange(P, Q, p) ==
    /\ P[p].stat = "SRUN" /\ Q[p].stat # "none"
    /\ Q[p].pid = P[p].pid /\ Q[p].ppid = P[p].ppid
    /\ Q[p].pgrp = P[p].pgrp
    /\ Placed(Q[p]) /\ (p = Init1 => Quiet(Q[p]))
    /\ \A s \in ProcEntries \ {p} : LeftAlone(P[s], Q[s])

\* So the parents and the states of the others stay as they are.
LEMMA OwnIsSame ==
    ASSUME NEW P, NEW Q, NEW p \in ProcEntries, OwnChange(P, Q, p)
    PROVE  /\ \A s \in ProcEntries : /\ Q[s].pid = P[s].pid /\ Q[s].ppid = P[s].ppid
                                     /\ Q[s].stat = "none" <=> P[s].stat = "none"
           /\ \A s, q \in ProcEntries : Kid(Q, q, s) <=> Kid(P, q, s)
           /\ \A s \in ProcEntries \ {p} :
                /\ Q[s].at = P[s].at /\ Q[s].pgrp = P[s].pgrp
                /\ Q[s].stat = "SSLEEP" => P[s].stat = "SSLEEP"
                /\ Q[s].stat = "SZOMB" <=> P[s].stat = "SZOMB"
                /\ Q[s].stat = "SSTOP" <=> P[s].stat = "SSTOP"
                /\ P[s].stat = "SRUN" => Q[s].stat = "SRUN"
                /\ News(Q[s]) => News(P[s])
<1>1. \A s \in ProcEntries : /\ Q[s].pid = P[s].pid /\ Q[s].ppid = P[s].ppid
                             /\ Q[s].stat = "none" <=> P[s].stat = "none"
  <2> TAKE s \in ProcEntries
  <2>1. CASE s = p
    BY <2>1 DEF OwnChange
  <2>2. CASE s # p
    BY <2>2, LeftIsSame DEF OwnChange
  <2> QED BY <2>1, <2>2
<1>2. \A s, q \in ProcEntries : Kid(Q, q, s) <=> Kid(P, q, s)
  BY <1>1 DEF Kid
<1>3. \A s \in ProcEntries \ {p} :
        /\ Q[s].at = P[s].at /\ Q[s].pgrp = P[s].pgrp
        /\ Q[s].stat = "SSLEEP" => P[s].stat = "SSLEEP"
        /\ Q[s].stat = "SZOMB" <=> P[s].stat = "SZOMB"
        /\ Q[s].stat = "SSTOP" <=> P[s].stat = "SSTOP"
        /\ P[s].stat = "SRUN" => Q[s].stat = "SRUN"
        /\ News(Q[s]) => News(P[s])
  <2> TAKE s \in ProcEntries \ {p}
  <2>1. LeftAlone(P[s], Q[s])
    BY DEF OwnChange
  <2> QED BY <2>1, LeftIsSame
<1> QED BY <1>1, <1>2, <1>3

\* What does not depend on tracing.
LEMMA OwnTable ==
    ASSUME NEW P, NEW i, SoundNow(P, i), NEW Q \in [ProcEntries -> Processes],
           NEW p \in ProcEntries, OwnChange(P, Q, p),
           Q[p].stat = "SZOMB" => p # Init1 /\ \A q \in ProcEntries : ~Kid(P, p, q)
    PROVE  TableTypes(Q, i) /\ ParentsLive(Q) /\ NumbersNow(Q)
<1>1. TableTypes(P, i) /\ ParentsLive(P) /\ NumbersNow(P)
  BY DEF SoundNow
<1>2. /\ \A s \in ProcEntries : /\ Q[s].pid = P[s].pid /\ Q[s].ppid = P[s].ppid
                                /\ Q[s].stat = "none" <=> P[s].stat = "none"
      /\ \A s, q \in ProcEntries : Kid(Q, q, s) <=> Kid(P, q, s)
      /\ \A s \in ProcEntries \ {p} : /\ Q[s].pgrp = P[s].pgrp
                                      /\ Q[s].stat = "SZOMB" <=> P[s].stat = "SZOMB"
  BY OwnIsSame
<1>3. TableTypes(Q, i)
  <2>1. Quiet(Q[Init1])
    <3>1. Init1 \in ProcEntries
      BY ProcsAssumption DEF Init1
    <3>2. CASE p = Init1
      BY <3>2 DEF OwnChange
    <3>3. CASE p # Init1
      BY <3>1, <3>3, <1>1, LeftIsSame DEF OwnChange, TableTypes
    <3> QED BY <3>2, <3>3
  <2>2. ASSUME NEW s \in ProcEntries PROVE Placed(Q[s])
    <3>1. CASE s = p
      BY <3>1 DEF OwnChange
    <3>2. CASE s # p
      BY <3>2, <1>1, LeftIsSame DEF OwnChange, TableTypes
    <3> QED BY <3>1, <3>2
  <2> QED BY <2>1, <2>2, <1>1 DEF TableTypes
<1>4. ParentsLive(Q)
  <2> SUFFICES ASSUME NEW s \in ProcEntries \ {Init1}, Q[s].stat # "none"
               PROVE  \E q \in ProcEntries : Q[q].stat \notin {"none", "SZOMB"} /\ Kid(Q, q, s)
    BY DEF ParentsLive
  <2>1. PICK q \in ProcEntries : P[q].stat \notin {"none", "SZOMB"} /\ Kid(P, q, s)
    BY <1>1, <1>2 DEF ParentsLive
  <2>2. Q[q].stat # "none" /\ Kid(Q, q, s)
    BY <2>1, <1>2
  <2>3. Q[q].stat # "SZOMB"
    BY <2>1, <1>2
  <2> QED BY <2>2, <2>3
<1>5. NumbersNow(Q)
  <2>1. \A s \in ProcEntries : Q[s].pgrp = P[s].pgrp
    BY <1>2 DEF OwnChange
  <2> QED BY <2>1, <1>1, <1>2 DEF NumbersNow
<1> QED BY <1>3, <1>4, <1>5

\* Nobody sleeps through what p does.
LEMMA OwnHeard ==
    ASSUME NEW P, NEW i, SoundNow(P, i), NEW Q, NEW p \in ProcEntries, OwnChange(P, Q, p),
           News(Q[p]) => \A q \in ProcEntries \ {p} :
              Kid(P, q, p) => ~(Q[q].stat = "SSLEEP" /\ Q[q].at = "wait"),
           Q[p].stat = "SSLEEP" =>
              /\ Q[p].at \in {"wait", "pause"} => Deliverable(Q[p]) = {}
              /\ Q[p].at = "wait" => /\ \E q \in ProcEntries : Kid(P, p, q)
                                     /\ \A q \in ProcEntries : Kid(P, p, q) => ~News(P[q])
    PROVE  Heard(Q)
<1>1. /\ \A s, q \in ProcEntries : Kid(Q, q, s) <=> Kid(P, q, s)
      /\ \A s \in ProcEntries \ {p} :
           /\ Q[s].at = P[s].at /\ (Q[s].stat = "SSLEEP" => P[s].stat = "SSLEEP")
           /\ News(Q[s]) => News(P[s])
  BY OwnIsSame
<1> SUFFICES ASSUME NEW s \in ProcEntries, Q[s].stat = "SSLEEP"
             PROVE  /\ Q[s].at \in {"wait", "pause"} => Deliverable(Q[s]) = {}
                    /\ Q[s].at = "wait" => /\ \E q \in ProcEntries : Kid(Q, s, q)
                                           /\ \A q \in ProcEntries : Kid(Q, s, q) => ~News(Q[q])
  BY DEF Heard
<1>2. CASE s = p
  <2>1. ~News(Q[p])
    BY <1>2 DEF News
  <2>2. \A q \in ProcEntries : ~News(P[q]) => ~News(Q[q])
    BY <2>1, <1>1
  <2> QED BY <2>2, <1>1, <1>2
<1>3. CASE s # p
  <2>1. /\ P[s].stat = "SSLEEP" /\ Q[s].at = P[s].at
        /\ P[s].at \in {"wait", "pause"} => Deliverable(P[s]) = {}
        /\ P[s].at = "wait" => /\ \E q \in ProcEntries : Kid(P, s, q)
                               /\ \A q \in ProcEntries : Kid(P, s, q) => ~News(P[q])
    BY <1>1, <1>3 DEF SoundNow, Heard
  <2>2. Deliverable(Q[s]) = Deliverable(P[s])
    BY <1>3, LeftIsSame DEF OwnChange
  <2>3. ASSUME Q[s].at = "wait", NEW q \in ProcEntries, Kid(Q, s, q) PROVE ~News(Q[q])
    <3>1. CASE q = p
      BY <2>3, <3>1, <1>1, <1>3
    <3>2. CASE q # p
      BY <2>1, <2>3, <3>2, <1>1
    <3> QED BY <3>1, <3>2
  <2> QED BY <2>1, <2>2, <2>3, <1>1
<1> QED BY <1>2, <1>3

\* p waits to ask a child, and another one has asked.
WaitsToAsk(P, Q, p, i) ==
    /\ i.lock # 0 /\ Q[p].req \in Requests
    /\ \E q \in ProcEntries : Kid(P, p, q) /\ P[q].pid = Q[p].peer /\ P[q].stat = "SSTOP"

\* Nor do the tracers, unless p is one, or about to answer one.
LEMMA OwnTracing ==
    ASSUME NEW P, NEW i, SoundNow(P, i), NEW Q, NEW p \in ProcEntries, OwnChange(P, Q, p),
           P[p].at # "asked", Q[p].at # "asked", ~AboutToAnswer(Q[p]),
           AboutToAnswer(P[p]) => i.lock # P[p].pid, Q[p].at = "asks" => WaitsToAsk(P, Q, p, i)
    PROVE  OneAsks(Q, i) /\ OthersWait(Q)
<1>1. /\ \A s, q \in ProcEntries : Kid(Q, q, s) <=> Kid(P, q, s)
      /\ \A s \in ProcEntries : Q[s].pid = P[s].pid
      /\ \A s \in ProcEntries \ {p} :
           /\ Q[s].at = P[s].at /\ (Q[s].stat = "SSLEEP" => P[s].stat = "SSLEEP")
           /\ Q[s].stat = "SSTOP" <=> P[s].stat = "SSTOP"
           /\ P[s].stat = "SRUN" => Q[s].stat = "SRUN"
  BY OwnIsSame
<1>2. \A s \in ProcEntries \ {p} : Q[s].peer = P[s].peer /\ Q[s].req = P[s].req
  BY LeftIsSame DEF OwnChange
<1>3. \A s \in ProcEntries : Q[s].at = "asked" <=> P[s].at = "asked"
  BY <1>1
<1>4. OneAsks(P, i) /\ OthersWait(P)
  BY DEF SoundNow
<1>5. OneAsks(Q, i)
  <2>1. ASSUME NEW s \in ProcEntries, Q[s].at = "asked"
        PROVE  /\ i.lock # 0
               /\ \A q \in ProcEntries : Q[q].at = "asked" => s = q
               /\ \E q \in ProcEntries :
                    /\ Kid(Q, s, q) /\ Q[q].pid = i.lock
                    /\ \/ i.req \in Requests /\ AboutToAnswer(Q[q])
                       \/ /\ i.req[1] \in {"none", "error"} /\ Q[s].stat = "SRUN"
                          /\ ~AboutToAnswer(Q[q])
    <3>1. s # p /\ P[s].at = "asked"
      BY <2>1, <1>3
    <3>2. i.lock # 0 /\ \A q \in ProcEntries : Q[q].at = "asked" => s = q
      BY <3>1, <1>3, <1>4 DEF OneAsks
    <3>3. PICK q \in ProcEntries :
             /\ Kid(P, s, q) /\ P[q].pid = i.lock
             /\ \/ i.req \in Requests /\ AboutToAnswer(P[q])
                \/ /\ i.req[1] \in {"none", "error"} /\ P[s].stat = "SRUN"
                   /\ ~AboutToAnswer(P[q])
      BY <3>1, <1>4 DEF OneAsks
    <3>4. Kid(Q, s, q) /\ Q[q].pid = i.lock
      BY <3>3, <1>1
    <3>5. CASE q = p
      BY <3>1, <3>2, <3>3, <3>4, <3>5, <1>1
    <3>6. CASE q # p
      <4>1. AboutToAnswer(Q[q]) <=> AboutToAnswer(P[q])
        <5>1. LeftAlone(P[q], Q[q]) /\ Placed(P[q])
          BY <3>6 DEF OwnChange, SoundNow, TableTypes
        <5> QED BY <5>1 DEF LeftAlone, Placed, AboutToAnswer
      <4>2. P[s].stat = "SRUN" => Q[s].stat = "SRUN"
        BY <3>1, <1>1
      <4> QED BY <3>2, <3>3, <3>4, <4>1, <4>2
    <3> QED BY <3>5, <3>6
  <2>2. i.lock # 0 => \E s \in ProcEntries : Q[s].at = "asked"
    BY <1>3, <1>4 DEF OneAsks
  <2> QED BY <2>1, <2>2 DEF OneAsks
<1>6. OthersWait(Q)
  <2> SUFFICES ASSUME NEW s \in ProcEntries, Q[s].at = "asks"
               PROVE  /\ Q[s].req \in Requests
                      /\ \E q \in ProcEntries : /\ Kid(Q, s, q) /\ Q[q].pid = Q[s].peer
                                                /\ Q[q].stat = "SSTOP"
                      /\ Q[s].stat = "SSLEEP" => \E q \in ProcEntries : Q[q].at = "asked"
    BY DEF OthersWait
  <2>1. PICK q \in ProcEntries : Kid(P, s, q) /\ P[q].pid = Q[s].peer /\ P[q].stat = "SSTOP"
    <3>1. CASE s = p
      BY <3>1 DEF WaitsToAsk
    <3>2. CASE s # p
      BY <3>2, <1>1, <1>2, <1>4 DEF OthersWait
    <3> QED BY <3>1, <3>2
  <2>2. q # p
    BY <2>1 DEF OwnChange
  <2>3. Kid(Q, s, q) /\ Q[q].pid = Q[s].peer /\ Q[q].stat = "SSTOP"
    BY <2>1, <2>2, <1>1
  <2>4. CASE s = p
    <3>1. Q[s].req \in Requests /\ \E t \in ProcEntries : P[t].at = "asked"
      BY <2>4, <1>4 DEF WaitsToAsk, OneAsks
    <3> QED BY <2>3, <3>1, <1>3
  <2>5. CASE s # p
    <3>1. Q[s].req \in Requests
      BY <2>5, <1>1, <1>2, <1>4 DEF OthersWait
    <3>2. Q[s].stat = "SSLEEP" => \E t \in ProcEntries : Q[t].at = "asked"
      BY <2>5, <1>1, <1>3, <1>4 DEF OthersWait
    <3> QED BY <2>3, <3>1, <3>2
  <2> QED BY <2>4, <2>5
<1> QED BY <1>5, <1>6

----------------------------------------------------------------------------
(* What the operations on one process give *)

\* A process number and its fields stay those of a process.
LEMMA ProcFields ==
    ASSUME NEW x \in Processes
    PROVE  /\ x.stat \in Stats /\ x.pid \in Nat /\ x.ppid \in Nat /\ x.pgrp \in Nat
           /\ x.sig \subseteq Signals /\ x.act \in [Signals -> {"dfl", "ign", "fun"}]
           /\ x.traced \in BOOLEAN /\ x.swted \in BOOLEAN /\ x.low \in BOOLEAN
           /\ x.at \in Places /\ x.req \in Asked /\ x.peer \in Nat
<1> QED BY DEF Processes

\* A process that has been made to run.
MadeToRun(x, y) ==
    /\ y.pid = x.pid /\ y.ppid = x.ppid /\ y.pgrp = x.pgrp /\ y.sig = x.sig
    /\ y.traced = x.traced /\ y.low = x.low /\ y.at = x.at /\ y.peer = x.peer
    /\ y.req = x.req /\ y.act = x.act /\ y.swted = x.swted /\ y.stat = "SRUN"

\* Those of S are made to run and the others stay as they are.
Runs(P, Q, S) ==
    /\ Q \in [ProcEntries -> Processes]
    /\ \A s \in ProcEntries : IF s \in S THEN MadeToRun(P[s], Q[s]) ELSE Q[s] = P[s]

\* A wakeup makes the sleepers run.
LEMMA Woken ==
    ASSUME NEW P \in [ProcEntries -> Processes], NEW S
    PROVE  Runs(P, Awake(P, S), S)
<1>1. ASSUME NEW x \in Processes
      PROVE  /\ [x EXCEPT !.stat = "SRUN", !.chan = NoChan] \in Processes
             /\ MadeToRun(x, [x EXCEPT !.stat = "SRUN", !.chan = NoChan])
  BY DEF Processes, Stats, NoChan, MadeToRun
<1>2. \A s \in ProcEntries :
         Awake(P, S)[s] = IF s \in S THEN [P[s] EXCEPT !.stat = "SRUN", !.chan = NoChan]
                          ELSE P[s]
  BY Zenon DEF Awake
<1>3. Awake(P, S) = [s \in ProcEntries |-> Awake(P, S)[s]]
  BY <1>2 DEF Awake
<1>4. ASSUME NEW s \in ProcEntries
      PROVE  /\ Awake(P, S)[s] \in Processes
             /\ IF s \in S THEN MadeToRun(P[s], Awake(P, S)[s]) ELSE Awake(P, S)[s] = P[s]
  <2>1. P[s] \in Processes
    OBVIOUS
  <2>2. CASE s \in S
    BY <2>1, <2>2, <1>1, <1>2, Zenon
  <2>3. CASE s \notin S
    BY <2>1, <2>3, <1>2, Zenon
  <2> QED BY <2>2, <2>3
<1>5. Awake(P, S) \in [ProcEntries -> Processes]
  <2> DEFINE A == Awake(P, S)
  <2>1. A = [s \in ProcEntries |-> A[s]] /\ \A s \in ProcEntries : A[s] \in Processes
    BY <1>3, <1>4
  <2> HIDE DEF A
  <2>2. A \in [ProcEntries -> Processes]
    BY <2>1
  <2> QED BY <2>2 DEF A
<1> QED BY <1>4, <1>5, Zenon DEF Runs

\* What a wakeup on a channel does: it leaves everyone alone, and nobody asleep on it.
WokenOn(P, Q, c) ==
    /\ Q \in [ProcEntries -> Processes]
    /\ \A s \in ProcEntries :
         /\ LeftAlone(P[s], Q[s])
         /\ P[s].stat # "SSLEEP" => Q[s] = P[s]
         /\ ~(Q[s].stat = "SSLEEP" /\ P[s].chan = c)

\* wakeup does this.
LEMMA WakeupLeaves ==
    ASSUME NEW P \in [ProcEntries -> Processes], NEW c
    PROVE  WokenOn(P, Wakeup(P, c), c)
<1> DEFINE S == {s \in ProcEntries : P[s].stat = "SSLEEP" /\ P[s].chan = c}
<1>1. Wakeup(P, c) = Awake(P, S)
  BY Zenon DEF Wakeup
<1>2. \A s \in ProcEntries : LeftAlone(P[s], P[s])
  BY DEF LeftAlone
<1>3. \A s \in ProcEntries : s \in S <=> (P[s].stat = "SSLEEP" /\ P[s].chan = c)
  OBVIOUS
<1> HIDE DEF S
<1>4. Runs(P, Wakeup(P, c), S)
  BY <1>1, Woken
<1>5. ASSUME NEW s \in ProcEntries
      PROVE  /\ LeftAlone(P[s], Wakeup(P, c)[s])
             /\ P[s].stat # "SSLEEP" => Wakeup(P, c)[s] = P[s]
             /\ ~(Wakeup(P, c)[s].stat = "SSLEEP" /\ P[s].chan = c)
  <2>1. CASE s \in S
    <3>1. MadeToRun(P[s], Wakeup(P, c)[s]) /\ P[s].stat = "SSLEEP"
      BY <2>1, <1>3, <1>4 DEF Runs
    <3> QED BY <3>1 DEF MadeToRun, LeftAlone
  <2>2. CASE s \notin S
    <3>1. Wakeup(P, c)[s] = P[s]
      BY <2>2, <1>4 DEF Runs
    <3> QED BY <3>1, <2>2, <1>2, <1>3
  <2> QED BY <2>1, <2>2
<1> QED BY <1>4, <1>5, Zenon DEF Runs, WokenOn

\* It stays who it is.
SameOne(x, y) == y.pid = x.pid /\ y.ppid = x.ppid /\ y.pgrp = x.pgrp

\* The fields of a process that exits.
LEMMA ExitingFields ==
    ASSUME NEW x \in Processes
    PROVE  /\ Exiting(x) \in Processes /\ SameOne(x, Exiting(x))
           /\ Exiting(x).stat = "SRUN" /\ Exiting(x).at = "exit"
<1> QED BY DEF Processes, Exiting, Stats, Places, SameOne

\* issig only drops signals, all of them when it stops at none.
LEMMA IssigFields ==
    ASSUME NEW x \in Processes
    PROVE  /\ issig(x) \in Processes /\ SameOne(x, issig(x))
           /\ issig(x).stat = x.stat /\ issig(x).at = x.at /\ issig(x).sig \subseteq x.sig
           /\ issig(x).chan = x.chan /\ issig(x).low = x.low /\ issig(x).traced = x.traced
           /\ issig(x).peer = x.peer /\ issig(x).req = x.req
           /\ Deliverable(x) = {} => Deliverable(issig(x)) = {} /\ issig(x).sig = {}
<1> DEFINE g == IF Deliverable(x) = {} THEN {} ELSE {n \in x.sig : n >= Min(Deliverable(x))}
<1>1. issig(x) = [x EXCEPT !.sig = g]
  BY DEF issig
<1>2. g \subseteq x.sig /\ (Deliverable(x) = {} => g = {})
  OBVIOUS
<1> HIDE DEF g
<1>3. [x EXCEPT !.sig = g] \in Processes
  BY <1>2 DEF Processes
<1>4. /\ SameOne(x, issig(x))
      /\ issig(x).stat = x.stat /\ issig(x).at = x.at /\ issig(x).sig = g
      /\ issig(x).chan = x.chan /\ issig(x).low = x.low /\ issig(x).traced = x.traced
      /\ issig(x).peer = x.peer /\ issig(x).req = x.req
  BY <1>1 DEF Processes, SameOne
<1>5. issig(x).sig = {} => Deliverable(issig(x)) = {}
  BY DEF Deliverable
<1> QED BY <1>1, <1>2, <1>3, <1>4, <1>5, Zenon

\* What sleep above PZERO does: it is given up, or the process sleeps with no signal.
SleepsOrGivesUp(x, y, c) ==
    /\ y \in Processes /\ SameOne(x, y) /\ y.sig \subseteq x.sig /\ y.traced = x.traced
    /\ \/ y.stat = x.stat /\ y.at = "out" /\ Deliverable(x) # {}
       \/ /\ y.stat = "SSLEEP" /\ y.at = x.at /\ y.low /\ y.chan = c
          /\ Deliverable(y) = {} /\ Deliverable(x) = {}

\* Slept is one or the other.
LEMMA SleptFields ==
    ASSUME NEW x \in Processes, NEW c \in {"none", "ipc", "u", "proc"} \X Nat
    PROVE  SleepsOrGivesUp(x, Slept(x, c), c)
<1> DEFINE z == issig(x)
<1>1. /\ z \in Processes /\ SameOne(x, z)
      /\ z.stat = x.stat /\ z.at = x.at /\ z.sig \subseteq x.sig /\ z.traced = x.traced
      /\ Deliverable(x) = {} => Deliverable(z) = {}
  BY IssigFields
<1>2. Slept(x, c) = IF Deliverable(x) # {} THEN [z EXCEPT !.at = "out"]
                    ELSE [z EXCEPT !.stat = "SSLEEP", !.chan = c, !.low = TRUE]
  BY DEF Slept, SleptUnchecked
<1> HIDE DEF z
<1>3. CASE Deliverable(x) # {}
  <2>1. Slept(x, c) = [z EXCEPT !.at = "out"]
    BY <1>2, <1>3
  <2> QED BY <2>1, <1>1, <1>3 DEF SleepsOrGivesUp, SameOne, Processes, Places
<1>4. CASE Deliverable(x) = {}
  <2>1. Slept(x, c) = [z EXCEPT !.stat = "SSLEEP", !.chan = c, !.low = TRUE]
    BY <1>2, <1>4
  <2> DEFINE y == Slept(x, c)
  <2>2. /\ y \in Processes /\ y.pid = z.pid /\ y.ppid = z.ppid /\ y.pgrp = z.pgrp
        /\ y.sig = z.sig /\ y.stat = "SSLEEP" /\ y.at = z.at /\ y.low /\ y.chan = c
        /\ y.traced = z.traced /\ y.act = z.act
    <3>1. y.pid = z.pid /\ y.ppid = z.ppid /\ y.pgrp = z.pgrp /\ y.traced = z.traced
      BY <2>1, <1>1 DEF Processes
    <3>2. y.sig = z.sig /\ y.stat = "SSLEEP" /\ y.at = z.at /\ y.low /\ y.chan = c /\ y.act = z.act
      BY <2>1, <1>1 DEF Processes
    <3>3. "SSLEEP" \in Stats
      BY DEF Stats
    <3>4. y \in Processes
      BY <2>1, <1>1, <3>3, ZenonT(60) DEF Processes
    <3> HIDE DEF y
    <3> QED BY <3>1, <3>2, <3>4
  <2>3. Deliverable(y) = Deliverable(z)
    BY <2>2 DEF Deliverable
  <2> QED BY <2>2, <2>3, <1>1, <1>4, Zenon DEF SleepsOrGivesUp, SameOne
<1> QED BY <1>3, <1>4

\* psig leaves a process that it does not stop running, on its way to user mode or to exit.
LEMMA ActsFields ==
    ASSUME NEW x \in Processes
    PROVE  /\ Acts(x) \in Processes /\ SameOne(x, Acts(x))
           /\ Acts(x).stat = "SRUN" /\ Acts(x).at \in {"user", "exit"}
<1>1. CASE x.sig = {}
  <2>1. Acts(x) = [x EXCEPT !.at = "user", !.stat = "SRUN"]
    BY <1>1 DEF Acts
  <2> QED BY <2>1 DEF SameOne, Processes, Places, Stats
<1>2. CASE x.sig # {}
  <2> DEFINE n == Min(x.sig)
             y == [x EXCEPT !.sig = @ \ {n}, !.stat = "SRUN"]
  <2>1. Acts(x) = IF x.act[n] = "dfl" THEN Exiting(y)
                  ELSE [y EXCEPT !.act = HandlersAfter(y.act, n), !.at = "user"]
    BY <1>2 DEF Acts
  <2>2. y \in Processes /\ SameOne(x, y) /\ y.stat = "SRUN"
    <3> HIDE DEF n
    <3> QED BY DEF SameOne, Processes, Stats
  <2> HIDE DEF n, y
  <2>3. CASE x.act[n] = "dfl"
    BY <2>1, <2>2, <2>3, ExitingFields DEF SameOne
  <2>4. CASE x.act[n] # "dfl"
    <3> DEFINE f == HandlersAfter(y.act, n)
    <3>1. y.act \in [Signals -> {"dfl", "ign", "fun"}]
      BY <2>2, ProcFields
    <3>2. f \in [Signals -> {"dfl", "ign", "fun"}]
      BY <3>1 DEF HandlersAfter
    <3>3. Acts(x) = [y EXCEPT !.act = f, !.at = "user"]
      BY <2>1, <2>4
    <3> HIDE DEF f
    <3>4. "user" \in Places
      BY DEF Places
    <3>5. Acts(x) \in Processes
      <4> DEFINE F == [Signals -> {"dfl", "ign", "fun"}]
      <4>1. f \in F /\ y \in Processes
        BY <2>2, <3>2
      <4>2. Processes =
              [stat : Stats, pid : Nat, ppid : Nat, pgrp : Nat, sig : SUBSET Signals,
               traced : BOOLEAN, swted : BOOLEAN, low : BOOLEAN,
               chan : {"none", "ipc", "u", "proc"} \X Nat, at : Places, peer : Nat,
               req : Asked, act : F]
        BY DEF Processes
      <4> HIDE DEF F
      <4>3. [y EXCEPT !.act = f, !.at = "user"] \in Processes
        BY <4>1, <4>2, <3>4
      <4> QED BY <4>3, <3>3
    <3>6. /\ Acts(x).pid = y.pid /\ Acts(x).ppid = y.ppid /\ Acts(x).pgrp = y.pgrp
          /\ Acts(x).stat = y.stat /\ Acts(x).at = "user"
      BY <2>2, <3>3 DEF Processes
    <3> QED BY <2>2, <3>5, <3>6 DEF SameOne
  <2> QED BY <2>3, <2>4
<1> QED BY <1>1, <1>2

----------------------------------------------------------------------------
(* What one process does to itself *)

\* What a process does to itself, and whom it leaves asleep.
OwnSleep(P, Q, p) ==
    /\ Q[p].stat = "SZOMB" => p # Init1 /\ \A q \in ProcEntries : ~Kid(P, p, q)
    /\ News(Q[p]) => \A q \in ProcEntries \ {p} :
          Kid(P, q, p) => ~(Q[q].stat = "SSLEEP" /\ Q[q].at = "wait")
    /\ Q[p].stat = "SSLEEP" =>
          /\ Q[p].at \in {"wait", "pause"} => Deliverable(Q[p]) = {}
          /\ Q[p].at = "wait" => /\ \E q \in ProcEntries : Kid(P, p, q)
                                 /\ \A q \in ProcEntries : Kid(P, p, q) => ~News(P[q])

\* It neither asks nor answers, and may wait to ask.
OwnCalls(P, Q, p, i) ==
    /\ P[p].at # "asked" /\ Q[p].at # "asked" /\ ~AboutToAnswer(Q[p])
    /\ AboutToAnswer(P[p]) => i.lock # P[p].pid
    /\ Q[p].at = "asks" => WaitsToAsk(P, Q, p, i)

\* Then the table stays sound.
LEMMA OwnStep ==
    ASSUME NEW P, NEW i, SoundNow(P, i), NEW Q \in [ProcEntries -> Processes],
           NEW p \in ProcEntries, OwnChange(P, Q, p), OwnSleep(P, Q, p), OwnCalls(P, Q, p, i)
    PROVE  SoundNow(Q, i)
<1>1. TableTypes(Q, i) /\ ParentsLive(Q) /\ NumbersNow(Q)
  BY OwnTable DEF OwnSleep
<1>2. Heard(Q)
  BY OwnHeard DEF OwnSleep
<1>3. OneAsks(Q, i) /\ OthersWait(Q)
  BY OwnTracing DEF OwnCalls
<1> QED BY <1>1, <1>2, <1>3 DEF SoundNow

\* A process that others do not see change: it runs on, or sleeps with no signal.
OwnRecord(P, p, y) ==
    /\ P[p].stat = "SRUN" /\ P[p].at \notin {"asked", "stop"}
    /\ y \in Processes /\ y.pid = P[p].pid /\ y.ppid = P[p].ppid
    /\ y.pgrp = P[p].pgrp
    /\ p = Init1 => Quiet(y)
    /\ \/ y.stat = "SRUN" /\ y.at \notin {"asked", "asks", "stop"}
       \/ /\ y.stat = "SSLEEP" /\ y.low /\ Deliverable(y) = {}
          /\ \/ y.at = "pause"
             \/ /\ y.at = "wait" /\ y.chan = ChanOf(y.pid)
                /\ \E q \in ProcEntries : Kid(P, p, q)
                /\ \A q \in ProcEntries : Kid(P, p, q) => ~News(P[q])

\* Then the table stays sound.
LEMMA Replaced ==
    ASSUME NEW P, NEW i, SoundNow(P, i), NEW p \in ProcEntries, NEW y, OwnRecord(P, p, y)
    PROVE  SoundNow([P EXCEPT ![p] = y], i)
<1>1. PICK Q : Q = [P EXCEPT ![p] = y]
  OBVIOUS
<1>2. P \in [ProcEntries -> Processes] /\ Placed(P[p])
  BY DEF SoundNow, TableTypes
<1>3. Q[p] = y /\ \A s \in ProcEntries \ {p} : Q[s] = P[s]
  BY <1>1, <1>2
<1>4. Q \in [ProcEntries -> Processes]
  BY <1>1, <1>2 DEF OwnRecord
<1>5. \A s \in ProcEntries \ {p} : LeftAlone(P[s], Q[s])
  BY <1>3 DEF LeftAlone
<1>6. Placed(y)
  BY <1>2 DEF OwnRecord, Placed
<1>7. OwnChange(P, Q, p)
  BY <1>3, <1>5, <1>6 DEF OwnRecord, OwnChange
<1>8. OwnSleep(P, Q, p)
  BY <1>3 DEF OwnRecord, OwnSleep, News
<1>9. OwnCalls(P, Q, p, i)
  BY <1>3 DEF OwnRecord, OwnCalls, AboutToAnswer
<1> QED BY <1>1, <1>4, <1>7, <1>8, <1>9, OwnStep

\* Those that are left alone twice are.
LEMMA AloneTwice ==
    ASSUME NEW x, NEW y, NEW z, LeftAlone(x, y), LeftAlone(y, z)
    PROVE  LeftAlone(x, z)
<1> QED BY DEF LeftAlone

\* What stop does: p stops, and its parent does not sleep through it, or p exits.
Stopped(P, X, Q, p) ==
    /\ Q \in [ProcEntries -> Processes] /\ OwnChange(P, Q, p) /\ OwnSleep(P, Q, p)
    /\ \A s \in ProcEntries \ {p} : LeftAlone(X[s], Q[s])
    /\ \/ Q[p].stat = "SSTOP" /\ Q[p].at = "stop"
       \/ Q[p].stat = "SRUN" /\ Q[p].at \in {"user", "exit"}

\* Of a table where p alone may have changed, first when p runs on.
LEMMA Resumes ==
    ASSUME NEW P, NEW i, SoundNow(P, i), NEW X \in [ProcEntries -> Processes],
           NEW p \in ProcEntries, p # Init1, P[p].stat = "SRUN",
           SameOne(P[p], X[p]), \A s \in ProcEntries \ {p} : LeftAlone(P[s], X[s]),
           NEW y \in Processes, SameOne(X[p], y), y.stat = "SRUN", y.at \in {"user", "exit"}
    PROVE  Stopped(P, X, [X EXCEPT ![p] = y], p)
<1>1. PICK Q : Q = [X EXCEPT ![p] = y]
  OBVIOUS
<1>2. P[p].pid # 0
  BY DEF SoundNow, TableTypes, Placed
<1>3. /\ Q \in [ProcEntries -> Processes] /\ Q[p] = y
      /\ \A s \in ProcEntries \ {p} : Q[s] = X[s]
  BY <1>1
<1>4. OwnChange(P, Q, p)
  BY <1>2, <1>3 DEF OwnChange, SameOne, Placed
<1>5. OwnSleep(P, Q, p)
  BY <1>3 DEF OwnSleep, News
<1>6. \A s \in ProcEntries \ {p} : LeftAlone(X[s], Q[s])
  BY <1>3 DEF LeftAlone
<1>7. Stopped(P, X, Q, p)
  BY <1>3, <1>4, <1>5, <1>6 DEF Stopped
<1> QED BY <1>1, <1>7

\* Then when it stops.
LEMMA Stops ==
    ASSUME NEW P, NEW i, SoundNow(P, i), NEW X \in [ProcEntries -> Processes],
           NEW p \in ProcEntries, p # Init1, P[p].stat = "SRUN", X[p].stat = "SRUN",
           SameOne(P[p], X[p]), \A s \in ProcEntries \ {p} : LeftAlone(P[s], X[s])
    PROVE  Stopped(P, X, stop(X, p), p)
<1>1. P \in [ProcEntries -> Processes] /\ \A s \in ProcEntries : Placed(P[s])
  BY DEF SoundNow, TableTypes
<1>2. P[p].pid # 0 /\ X[p] \in Processes
  BY <1>1 DEF Placed
<1>3. ASSUME X[p].ppid # 1, NEW Q,
             Q = Wakeup([X EXCEPT ![p].stat = "SSTOP", ![p].at = "stop"], ChanOf(X[p].ppid))
      PROVE  Stopped(P, X, Q, p)
  <2> DEFINE y == [X[p] EXCEPT !.stat = "SSTOP", !.at = "stop"]
  <2>1. PICK Y : Y = [X EXCEPT ![p] = y]
    OBVIOUS
  <2>2. /\ y.stat = "SSTOP" /\ y.at = "stop"
        /\ y.pid = X[p].pid /\ y.ppid = X[p].ppid /\ y.pgrp = X[p].pgrp
    BY <1>2 DEF Processes
  <2>3. y \in Processes
    BY <1>2 DEF Processes, Stats, Places
  <2>4. Q = Wakeup(Y, ChanOf(X[p].ppid))
    <3>1. [X EXCEPT ![p].stat = "SSTOP", ![p].at = "stop"] = Y
      BY <2>1
    <3> QED BY <1>3, <3>1
  <2> HIDE DEF y
  <2>5. /\ Y \in [ProcEntries -> Processes] /\ Y[p] = y
        /\ \A s \in ProcEntries \ {p} : Y[s] = X[s]
    BY <2>1, <2>3
  <2>6. WokenOn(Y, Q, ChanOf(X[p].ppid))
    BY <2>4, <2>5, WakeupLeaves
  <2>7. Q[p] = y /\ Q \in [ProcEntries -> Processes]
    BY <2>2, <2>5, <2>6 DEF WokenOn
  <2>8. \A s \in ProcEntries \ {p} : LeftAlone(P[s], Q[s])
    <3> TAKE s \in ProcEntries \ {p}
    <3>1. LeftAlone(P[s], X[s]) /\ LeftAlone(X[s], Q[s])
      BY <2>5, <2>6 DEF WokenOn
    <3> QED BY <3>1, AloneTwice
  <2>9. OwnChange(P, Q, p)
    BY <2>2, <2>7, <2>8, <1>2, <1>3 DEF OwnChange, SameOne, Placed
  <2>10. ASSUME NEW q \in ProcEntries \ {p}, Kid(P, q, p), Q[q].stat = "SSLEEP", Q[q].at = "wait"
         PROVE  FALSE
    <3>1. LeftAlone(P[q], X[q]) /\ LeftAlone(X[q], Q[q]) /\ Y[q] = X[q]
      BY <2>5, <2>6 DEF WokenOn
    <3>2. X[q].stat = "SSLEEP" /\ P[q].stat = "SSLEEP" /\ P[q].at = "wait"
      BY <3>1, <2>10 DEF LeftAlone
    <3>3. P[q].chan = ChanOf(P[q].pid)
      BY <3>2, <1>1 DEF Placed
    <3>4. X[q].chan = P[q].chan
      BY <3>1, <3>2 DEF LeftAlone
    <3>5. P[q].pid = X[p].ppid
      BY <2>10 DEF Kid, SameOne
    <3>6. Y[q].chan = ChanOf(X[p].ppid)
      BY <3>1, <3>3, <3>4, <3>5
    <3> QED BY <3>6, <2>6, <2>10 DEF WokenOn
  <2>11. OwnSleep(P, Q, p)
    BY <2>2, <2>7, <2>10 DEF OwnSleep
  <2>12. \A s \in ProcEntries \ {p} : LeftAlone(X[s], Q[s])
    BY <2>5, <2>6 DEF WokenOn
  <2> QED BY <2>2, <2>7, <2>9, <2>11, <2>12 DEF Stopped
<1>4. ASSUME NEW Q, Q = [X EXCEPT ![p] = Exiting(X[p])]
      PROVE  Stopped(P, X, Q, p)
  <2>1. /\ Exiting(X[p]) \in Processes /\ SameOne(X[p], Exiting(X[p]))
        /\ Exiting(X[p]).stat = "SRUN" /\ Exiting(X[p]).at = "exit"
    BY <1>2, ExitingFields
  <2> QED BY <1>4, <2>1, Resumes
<1>5. \/ /\ X[p].ppid # 1
         /\ stop(X, p) = Wakeup([X EXCEPT ![p].stat = "SSTOP", ![p].at = "stop"],
                                ChanOf(X[p].ppid))
      \/ stop(X, p) = [X EXCEPT ![p] = Exiting(X[p])]
  BY Zenon DEF stop
<1> QED BY <1>3, <1>4, <1>5

----------------------------------------------------------------------------
(* exit *)

\* A child that process 1 takes runs if it was stopped.
Adopted(x, y) ==
    /\ y.ppid = 1 /\ y.pid = x.pid /\ y.pgrp = x.pgrp /\ y.sig = x.sig
    /\ y.traced = x.traced /\ y.low = x.low /\ y.at = x.at /\ y.peer = x.peer
    /\ y.req = x.req /\ y.act = x.act
    /\ \/ y.stat = x.stat /\ y.chan = x.chan /\ x.stat # "SSTOP"
       \/ x.stat \in {"SSLEEP", "SSTOP"} /\ y.stat = "SRUN"

\* p is a zombie, its children are those of process 1, and who waits for them or for it is
\* not asleep.
Exited(P, Q, p) ==
    /\ Q \in [ProcEntries -> Processes]
    /\ P[p].stat = "SRUN" /\ P[p].at = "exit"
    /\ Q[p].stat = "SZOMB" /\ Q[p].at = "none"
    /\ Q[p].pid = P[p].pid /\ Q[p].pgrp = P[p].pgrp
    /\ Q[p].ppid = IF Kid(P, p, p) THEN 1 ELSE P[p].ppid
    /\ \A s \in ProcEntries \ {p} :
         IF Kid(P, p, s) THEN Adopted(P[s], Q[s]) ELSE LeftAlone(P[s], Q[s])
    /\ (\E s \in ProcEntries : Kid(P, p, s)) =>
         ~(Q[Init1].stat = "SSLEEP" /\ Q[Init1].at = "wait")
    /\ \A s \in ProcEntries : Q[s].stat = "SSLEEP" /\ Q[s].at = "wait" => Q[s].pid # P[p].ppid

\* What an exit leaves the same.
ExitKeeps(P, Q, p) ==
    /\ \A s \in ProcEntries : /\ Q[s].pid = P[s].pid /\ Q[s].pgrp = P[s].pgrp
                              /\ Q[s].stat = "none" <=> P[s].stat = "none"
                              /\ Q[s].ppid = IF Kid(P, p, s) THEN 1 ELSE P[s].ppid
    /\ \A s \in ProcEntries \ {p} :
         /\ Q[s].at = P[s].at /\ Q[s].peer = P[s].peer /\ Q[s].req = P[s].req
         /\ Q[s].stat = "SSLEEP" => P[s].stat = "SSLEEP"
         /\ Q[s].stat = "SZOMB" <=> P[s].stat = "SZOMB"
         /\ Q[s].stat = "SSTOP" <=> P[s].stat = "SSTOP" /\ ~Kid(P, p, s)
         /\ P[s].stat = "SRUN" => Q[s].stat = "SRUN"
         /\ Deliverable(Q[s]) = Deliverable(P[s]) /\ (News(Q[s]) => News(P[s]))
         /\ ~Kid(P, p, s) => (AboutToAnswer(Q[s]) <=> AboutToAnswer(P[s]))
    /\ \A s \in ProcEntries : Placed(Q[s])

\* Entry by entry.
LEMMA ExitIsSame ==
    ASSUME NEW P, NEW i, SoundNow(P, i), NEW Q, NEW p \in ProcEntries, Exited(P, Q, p)
    PROVE  ExitKeeps(P, Q, p)
<1>1. \A s \in ProcEntries : Placed(P[s])
  BY DEF SoundNow, TableTypes
<1>2. ASSUME NEW s \in ProcEntries \ {p}, Kid(P, p, s)
      PROVE  /\ Q[s].pid = P[s].pid /\ Q[s].pgrp = P[s].pgrp /\ Q[s].ppid = 1
             /\ Q[s].stat = "none" <=> P[s].stat = "none"
             /\ Q[s].at = P[s].at /\ Q[s].peer = P[s].peer /\ Q[s].req = P[s].req
             /\ Q[s].stat = "SSLEEP" => P[s].stat = "SSLEEP"
             /\ Q[s].stat = "SZOMB" <=> P[s].stat = "SZOMB"
             /\ Q[s].stat # "SSTOP"
             /\ P[s].stat = "SRUN" => Q[s].stat = "SRUN"
             /\ Deliverable(Q[s]) = Deliverable(P[s]) /\ (News(Q[s]) => News(P[s]))
             /\ Placed(Q[s])
  <2>1. Adopted(P[s], Q[s])
    BY <1>2 DEF Exited
  <2>2. Deliverable(Q[s]) = Deliverable(P[s])
    BY <2>1 DEF Adopted, Deliverable
  <2>3. /\ Q[s].stat # "SSTOP" /\ (Q[s].stat = "none" <=> P[s].stat = "none")
        /\ Q[s].stat = "SZOMB" <=> P[s].stat = "SZOMB"
    BY <2>1 DEF Adopted
  <2>4. News(Q[s]) => News(P[s])
    BY <2>3 DEF News
  <2>5. Placed(Q[s])
    BY <2>1, <1>1 DEF Adopted, Placed
  <2> QED BY <2>1, <2>2, <2>3, <2>4, <2>5 DEF Adopted
<1>3. ASSUME NEW s \in ProcEntries \ {p}, ~Kid(P, p, s)
      PROVE  /\ Q[s].pid = P[s].pid /\ Q[s].pgrp = P[s].pgrp /\ Q[s].ppid = P[s].ppid
             /\ Q[s].stat = "none" <=> P[s].stat = "none"
             /\ Q[s].at = P[s].at /\ Q[s].peer = P[s].peer /\ Q[s].req = P[s].req
             /\ Q[s].stat = "SSLEEP" => P[s].stat = "SSLEEP"
             /\ Q[s].stat = "SZOMB" <=> P[s].stat = "SZOMB"
             /\ Q[s].stat = "SSTOP" <=> P[s].stat = "SSTOP"
             /\ P[s].stat = "SRUN" => Q[s].stat = "SRUN"
             /\ Deliverable(Q[s]) = Deliverable(P[s]) /\ (News(Q[s]) => News(P[s]))
             /\ AboutToAnswer(Q[s]) <=> AboutToAnswer(P[s])
             /\ Placed(Q[s])
  <2>1. LeftAlone(P[s], Q[s]) /\ Placed(P[s])
    BY <1>1, <1>3 DEF Exited
  <2>2. AboutToAnswer(Q[s]) <=> AboutToAnswer(P[s])
    BY <2>1 DEF LeftAlone, AboutToAnswer, Placed
  <2> QED BY <2>1, <2>2, LeftIsSame
<1>4. /\ Q[p].pid = P[p].pid /\ Q[p].pgrp = P[p].pgrp
      /\ Q[p].stat # "none" /\ P[p].stat # "none"
      /\ Q[p].ppid = IF Kid(P, p, p) THEN 1 ELSE P[p].ppid
  BY DEF Exited
<1>5. Placed(Q[p])
  BY <1>1, <1>4 DEF Exited, Placed
<1>6. \A s \in ProcEntries : /\ Q[s].pid = P[s].pid /\ Q[s].pgrp = P[s].pgrp
                             /\ Q[s].stat = "none" <=> P[s].stat = "none"
                             /\ Q[s].ppid = IF Kid(P, p, s) THEN 1 ELSE P[s].ppid
                             /\ Placed(Q[s])
  <2> TAKE s \in ProcEntries
  <2>1. CASE s = p
    BY <2>1, <1>4, <1>5
  <2>2. CASE s # p /\ Kid(P, p, s)
    BY <2>2, <1>2
  <2>3. CASE s # p /\ ~Kid(P, p, s)
    BY <2>3, <1>3
  <2> QED BY <2>1, <2>2, <2>3
<1>7. ASSUME NEW s \in ProcEntries \ {p}
      PROVE  /\ Q[s].at = P[s].at /\ Q[s].peer = P[s].peer /\ Q[s].req = P[s].req
             /\ Q[s].stat = "SSLEEP" => P[s].stat = "SSLEEP"
             /\ Q[s].stat = "SZOMB" <=> P[s].stat = "SZOMB"
             /\ Q[s].stat = "SSTOP" <=> P[s].stat = "SSTOP" /\ ~Kid(P, p, s)
             /\ P[s].stat = "SRUN" => Q[s].stat = "SRUN"
             /\ Deliverable(Q[s]) = Deliverable(P[s]) /\ (News(Q[s]) => News(P[s]))
             /\ ~Kid(P, p, s) => (AboutToAnswer(Q[s]) <=> AboutToAnswer(P[s]))
  <2>1. CASE Kid(P, p, s)
    BY <2>1, <1>2
  <2>2. CASE ~Kid(P, p, s)
    BY <2>2, <1>3
  <2> QED BY <2>1, <2>2
<1> QED BY <1>6, <1>7 DEF ExitKeeps

\* The table stays sound.
LEMMA ExitedStep ==
    ASSUME NEW P, NEW i, SoundNow(P, i), NEW Q, NEW p \in ProcEntries, Exited(P, Q, p)
    PROVE  SoundNow(Q, i)
<1>1. ExitKeeps(P, Q, p)
  BY ExitIsSame
<1>2. Init1 \in ProcEntries
  BY ProcsAssumption DEF Init1
<1>3. /\ \A s \in ProcEntries : Placed(P[s])
      /\ Quiet(P[Init1]) /\ NumbersNow(P) /\ i \in [lock : Nat, req : Asked]
      /\ Heard(P) /\ OneAsks(P, i) /\ OthersWait(P) /\ ParentsLive(P)
  BY DEF SoundNow, TableTypes
<1>4. p # Init1
  BY <1>3 DEF Exited, Quiet
<1>5. P[p].pid # 0 /\ P[Init1].pid = 1 /\ P[Init1].stat # "none" /\ P[Init1].ppid = 0
  BY <1>3 DEF Exited, Placed, Quiet
<1>6. \A s \in ProcEntries : P[s].pid = 1 => s = Init1
  BY <1>2, <1>3, <1>5 DEF NumbersNow, Placed
<1>7. \A q \in ProcEntries : P[q].pid = P[p].pid => q = p
  BY <1>3, <1>5 DEF NumbersNow, Placed
<1>8. \A s, q \in ProcEntries : Kid(P, p, s) /\ Kid(P, q, s) => q = p
  BY <1>7 DEF Kid
<1>9. \A s, q \in ProcEntries :
        Kid(Q, q, s) <=> IF Kid(P, p, s) THEN q = Init1 ELSE Kid(P, q, s)
  BY <1>1, <1>5, <1>6 DEF ExitKeeps, Kid
<1>10. TableTypes(Q, i)
  <2>1. Quiet(Q[Init1])
    <3>1. ~Kid(P, p, Init1)
      BY <1>5 DEF Kid
    <3>2. LeftAlone(P[Init1], Q[Init1])
      BY <3>1, <1>2, <1>4 DEF Exited
    <3> QED BY <3>2, <1>3, LeftIsSame
  <2> QED BY <2>1, <1>1, <1>3 DEF TableTypes, ExitKeeps, Exited
<1>11. ParentsLive(Q)
  <2> SUFFICES ASSUME NEW s \in ProcEntries \ {Init1}, Q[s].stat # "none"
               PROVE  \E q \in ProcEntries : Q[q].stat \notin {"none", "SZOMB"} /\ Kid(Q, q, s)
    BY DEF ParentsLive
  <2>1. CASE Kid(P, p, s)
    <3>1. Kid(Q, Init1, s)
      BY <2>1, <1>2, <1>9
    <3>2. P[Init1].stat \notin {"none", "SZOMB"}
      BY <1>3 DEF Quiet
    <3>3. Q[Init1].stat \notin {"none", "SZOMB"}
      BY <3>2, <1>1, <1>2, <1>4 DEF ExitKeeps
    <3> QED BY <3>1, <3>3, <1>2
  <2>2. CASE ~Kid(P, p, s)
    <3>1. PICK q \in ProcEntries : P[q].stat \notin {"none", "SZOMB"} /\ Kid(P, q, s)
      BY <1>1, <1>3 DEF ParentsLive, ExitKeeps
    <3>2. q # p /\ Kid(Q, q, s)
      BY <3>1, <2>2, <1>9
    <3>3. Q[q].stat \notin {"none", "SZOMB"}
      BY <3>1, <3>2, <1>1 DEF ExitKeeps
    <3> QED BY <3>2, <3>3
  <2> QED BY <2>1, <2>2
<1>12. NumbersNow(Q)
  BY <1>1, <1>3 DEF NumbersNow, ExitKeeps
<1>13. Heard(Q)
  <2> SUFFICES ASSUME NEW s \in ProcEntries, Q[s].stat = "SSLEEP"
               PROVE  /\ Q[s].at \in {"wait", "pause"} => Deliverable(Q[s]) = {}
                      /\ Q[s].at = "wait" => /\ \E q \in ProcEntries : Kid(Q, s, q)
                                             /\ \A q \in ProcEntries : Kid(Q, s, q) => ~News(Q[q])
    BY DEF Heard
  <2>1. s # p
    BY DEF Exited
  <2>2. /\ P[s].stat = "SSLEEP" /\ Q[s].at = P[s].at
        /\ Deliverable(Q[s]) = Deliverable(P[s])
    BY <2>1, <1>1 DEF ExitKeeps
  <2>3. ASSUME Q[s].at = "wait"
        PROVE  /\ \E q \in ProcEntries : Kid(Q, s, q)
               /\ \A q \in ProcEntries : Kid(Q, s, q) => ~News(Q[q])
    <3>1. s # Init1 \/ \A q \in ProcEntries : ~Kid(P, p, q)
      BY <2>3 DEF Exited
    <3>2. \A q \in ProcEntries : Kid(Q, s, q) <=> Kid(P, s, q)
      BY <3>1, <2>1, <1>8, <1>9
    <3>3. /\ \E q \in ProcEntries : Kid(P, s, q)
          /\ \A q \in ProcEntries : Kid(P, s, q) => ~News(P[q])
      BY <2>2, <2>3, <1>3 DEF Heard
    <3>4. ~Kid(P, s, p)
      BY <2>3, <1>1 DEF Kid, Exited, ExitKeeps
    <3>5. \A q \in ProcEntries \ {p} : News(Q[q]) => News(P[q])
      BY <1>1 DEF ExitKeeps
    <3> QED BY <3>2, <3>3, <3>4, <3>5
  <2> QED BY <2>2, <2>3, <1>3 DEF Heard
<1>14. \A s \in ProcEntries : Q[s].at = "asked" <=> P[s].at = "asked"
  <2>1. Q[p].at # "asked" /\ P[p].at # "asked"
    BY DEF Exited
  <2> QED BY <2>1, <1>1 DEF ExitKeeps
<1>15. OneAsks(Q, i)
  <2>1. ASSUME NEW s \in ProcEntries, Q[s].at = "asked"
        PROVE  /\ i.lock # 0
               /\ \A q \in ProcEntries : Q[q].at = "asked" => s = q
               /\ \E q \in ProcEntries :
                    /\ Kid(Q, s, q) /\ Q[q].pid = i.lock
                    /\ \/ i.req \in Requests /\ AboutToAnswer(Q[q])
                       \/ /\ i.req[1] \in {"none", "error"} /\ Q[s].stat = "SRUN"
                          /\ ~AboutToAnswer(Q[q])
    <3>1. s # p /\ P[s].at = "asked"
      BY <2>1, <1>14 DEF Exited
    <3>2. i.lock # 0 /\ \A q \in ProcEntries : Q[q].at = "asked" => s = q
      BY <3>1, <1>14, <1>3 DEF OneAsks
    <3>3. PICK q \in ProcEntries :
             /\ Kid(P, s, q) /\ P[q].pid = i.lock
             /\ \/ i.req \in Requests /\ AboutToAnswer(P[q])
                \/ /\ i.req[1] \in {"none", "error"} /\ P[s].stat = "SRUN"
                   /\ ~AboutToAnswer(P[q])
      BY <3>1, <1>3 DEF OneAsks
    <3>4. ~Kid(P, p, q)
      BY <3>1, <3>3, <1>8
    <3>5. Kid(Q, s, q) /\ Q[q].pid = i.lock
      BY <3>3, <3>4, <1>1, <1>9 DEF ExitKeeps
    <3>6. AboutToAnswer(Q[q]) <=> AboutToAnswer(P[q])
      <4>1. CASE q = p
        BY <4>1 DEF Exited, AboutToAnswer
      <4>2. CASE q # p
        BY <4>2, <3>4, <1>1 DEF ExitKeeps
      <4> QED BY <4>1, <4>2
    <3>7. P[s].stat = "SRUN" => Q[s].stat = "SRUN"
      BY <3>1, <1>1 DEF ExitKeeps
    <3> QED BY <3>2, <3>3, <3>5, <3>6, <3>7
  <2>2. i.lock # 0 => \E s \in ProcEntries : Q[s].at = "asked"
    BY <1>14, <1>3 DEF OneAsks
  <2> QED BY <2>1, <2>2 DEF OneAsks
<1>16. OthersWait(Q)
  <2> SUFFICES ASSUME NEW s \in ProcEntries, Q[s].at = "asks"
               PROVE  /\ Q[s].req \in Requests
                      /\ \E q \in ProcEntries : /\ Kid(Q, s, q) /\ Q[q].pid = Q[s].peer
                                                /\ Q[q].stat = "SSTOP"
                      /\ Q[s].stat = "SSLEEP" => \E q \in ProcEntries : Q[q].at = "asked"
    BY DEF OthersWait
  <2>1. s # p /\ P[s].at = "asks"
    <3>1. s # p
      BY DEF Exited
    <3> QED BY <3>1, <1>1 DEF ExitKeeps
  <2>2. PICK q \in ProcEntries : Kid(P, s, q) /\ P[q].pid = P[s].peer /\ P[q].stat = "SSTOP"
    BY <2>1, <1>3 DEF OthersWait
  <2>3. q # p /\ ~Kid(P, p, q)
    BY <2>1, <2>2, <1>8 DEF Exited
  <2>4. Kid(Q, s, q) /\ Q[q].pid = Q[s].peer /\ Q[q].stat = "SSTOP"
    BY <2>1, <2>2, <2>3, <1>1, <1>9 DEF ExitKeeps
  <2>5. Q[s].req \in Requests
    BY <2>1, <1>1, <1>3 DEF OthersWait, ExitKeeps
  <2>6. Q[s].stat = "SSLEEP" => P[s].stat = "SSLEEP"
    BY <2>1, <1>1 DEF ExitKeeps
  <2> QED BY <2>1, <2>4, <2>5, <2>6, <1>3, <1>14 DEF OthersWait
<1> QED BY <1>10, <1>11, <1>12, <1>13, <1>15, <1>16 DEF SoundNow

----------------------------------------------------------------------------
(* wait and fork *)

\* An entry where a zombie was is free; its parent has not asked.
LEMMA BuryStep ==
    ASSUME NEW P, NEW i, SoundNow(P, i), NEW p \in ProcEntries, NEW q \in ProcEntries,
           P[q].stat = "SZOMB", Kid(P, p, q), P[p].stat # "none", P[p].at # "asked"
    PROVE  SoundNow([P EXCEPT ![q] = NoProc], i)
<1>1. PICK Q : Q = [P EXCEPT ![q] = NoProc]
  OBVIOUS
<1>2. /\ P \in [ProcEntries -> Processes] /\ \A s \in ProcEntries : Placed(P[s])
      /\ Quiet(P[Init1]) /\ NumbersNow(P) /\ i \in [lock : Nat, req : Asked]
      /\ Heard(P) /\ OneAsks(P, i) /\ OthersWait(P) /\ ParentsLive(P)
  BY DEF SoundNow, TableTypes
<1>3. Q[q] = NoProc /\ \A s \in ProcEntries \ {q} : Q[s] = P[s]
  BY <1>1, <1>2
<1>4. NoProc \in Processes
  BY DEF NoProc, Processes, Stats, Places, Asked
<1>5. /\ NoProc.stat = "none" /\ NoProc.pid = 0 /\ NoProc.at = "none" /\ NoProc.ppid = 0
      /\ Placed(NoProc)
  BY DEF NoProc, Placed
<1>6. q # Init1
  BY <1>2 DEF Quiet
<1>7. Q \in [ProcEntries -> Processes]
  BY <1>1, <1>2, <1>4
<1>8. P[q].at = "none" /\ P[q].stat # "SSTOP"
  BY <1>2 DEF Placed
<1>9. \A s, r \in ProcEntries \ {q} : Kid(Q, s, r) <=> Kid(P, s, r)
  BY <1>3 DEF Kid
<1>10. \A s \in ProcEntries : ~Kid(Q, s, q)
  BY <1>3, <1>5 DEF Kid
<1>11. \A s \in ProcEntries : Kid(P, s, q) => s = p
  <2> TAKE s \in ProcEntries
  <2> HAVE Kid(P, s, q)
  <2>1. P[s].pid = P[p].pid /\ P[p].pid # 0
    BY <1>2 DEF Kid, Placed
  <2> QED BY <2>1, <1>2 DEF NumbersNow, Placed
<1>12. TableTypes(Q, i)
  <2>1. Init1 \in ProcEntries
    BY ProcsAssumption DEF Init1
  <2>2. Quiet(Q[Init1])
    BY <2>1, <1>2, <1>3, <1>6
  <2>3. \A s \in ProcEntries : Placed(Q[s])
    BY <1>2, <1>3, <1>5, Zenon
  <2> QED BY <2>2, <2>3, <1>2, <1>7 DEF TableTypes
<1>13. ParentsLive(Q)
  <2> SUFFICES ASSUME NEW s \in ProcEntries \ {Init1}, Q[s].stat # "none"
               PROVE  \E r \in ProcEntries : Q[r].stat \notin {"none", "SZOMB"} /\ Kid(Q, r, s)
    BY DEF ParentsLive
  <2>1. s # q
    BY <1>3, <1>5
  <2>2. PICK r \in ProcEntries : P[r].stat \notin {"none", "SZOMB"} /\ Kid(P, r, s)
    BY <2>1, <1>2, <1>3 DEF ParentsLive
  <2>3. r # q
    BY <2>2
  <2> QED BY <2>1, <2>2, <2>3, <1>3, <1>9
<1>14. NumbersNow(Q)
  <2>1. \A s \in ProcEntries : Q[s].stat # "none" => s # q /\ Q[s] = P[s]
    BY <1>3, <1>5
  <2> QED BY <2>1, <1>2 DEF NumbersNow
<1>15. Heard(Q)
  <2> SUFFICES ASSUME NEW s \in ProcEntries, Q[s].stat = "SSLEEP"
               PROVE  /\ Q[s].at \in {"wait", "pause"} => Deliverable(Q[s]) = {}
                      /\ Q[s].at = "wait" => /\ \E r \in ProcEntries : Kid(Q, s, r)
                                             /\ \A r \in ProcEntries : Kid(Q, s, r) => ~News(Q[r])
    BY DEF Heard
  <2>1. s # q /\ Q[s] = P[s]
    BY <1>3, <1>5
  <2>2. /\ P[s].at \in {"wait", "pause"} => Deliverable(P[s]) = {}
        /\ P[s].at = "wait" => /\ \E r \in ProcEntries : Kid(P, s, r)
                               /\ \A r \in ProcEntries : Kid(P, s, r) => ~News(P[r])
    BY <2>1, <1>2 DEF Heard
  <2>3. P[s].at = "wait" => ~Kid(P, s, q)
    BY <2>2 DEF News
  <2> QED BY <2>1, <2>2, <2>3, <1>3, <1>9, <1>10
<1>16. \A s \in ProcEntries : /\ Q[s].at = "asked" <=> P[s].at = "asked" /\ s # q
                              /\ Q[s].at = "asks" <=> P[s].at = "asks" /\ s # q
                              /\ P[s].at \in {"asked", "asks"} => s # q
  BY <1>3, <1>5, <1>8
<1>17. OneAsks(Q, i)
  <2>1. ASSUME NEW s \in ProcEntries, Q[s].at = "asked"
        PROVE  /\ i.lock # 0
               /\ \A r \in ProcEntries : Q[r].at = "asked" => s = r
               /\ \E r \in ProcEntries :
                    /\ Kid(Q, s, r) /\ Q[r].pid = i.lock
                    /\ \/ i.req \in Requests /\ AboutToAnswer(Q[r])
                       \/ /\ i.req[1] \in {"none", "error"} /\ Q[s].stat = "SRUN"
                          /\ ~AboutToAnswer(Q[r])
    <3>1. s # q /\ P[s].at = "asked" /\ Q[s] = P[s]
      BY <2>1, <1>3, <1>16
    <3>2. i.lock # 0 /\ \A r \in ProcEntries : Q[r].at = "asked" => s = r
      BY <3>1, <1>16, <1>2 DEF OneAsks
    <3>3. PICK r \in ProcEntries :
             /\ Kid(P, s, r) /\ P[r].pid = i.lock
             /\ \/ i.req \in Requests /\ AboutToAnswer(P[r])
                \/ /\ i.req[1] \in {"none", "error"} /\ P[s].stat = "SRUN"
                   /\ ~AboutToAnswer(P[r])
      BY <3>1, <1>2 DEF OneAsks
    <3>4. r # q
      BY <3>1, <3>3, <1>11
    <3>5. Q[r] = P[r] /\ Kid(Q, s, r)
      BY <3>1, <3>3, <3>4, <1>3, <1>9
    <3> QED BY <3>1, <3>2, <3>3, <3>5
  <2>2. i.lock # 0 => \E s \in ProcEntries : Q[s].at = "asked"
    BY <1>16, <1>2 DEF OneAsks
  <2> QED BY <2>1, <2>2 DEF OneAsks
<1>18. OthersWait(Q)
  <2> SUFFICES ASSUME NEW s \in ProcEntries, Q[s].at = "asks"
               PROVE  /\ Q[s].req \in Requests
                      /\ \E r \in ProcEntries : /\ Kid(Q, s, r) /\ Q[r].pid = Q[s].peer
                                                /\ Q[r].stat = "SSTOP"
                      /\ Q[s].stat = "SSLEEP" => \E r \in ProcEntries : Q[r].at = "asked"
    BY DEF OthersWait
  <2>1. s # q /\ P[s].at = "asks" /\ Q[s] = P[s]
    BY <1>3, <1>16
  <2>2. PICK r \in ProcEntries : Kid(P, s, r) /\ P[r].pid = P[s].peer /\ P[r].stat = "SSTOP"
    BY <2>1, <1>2 DEF OthersWait
  <2>3. Q[r] = P[r] /\ Kid(Q, s, r)
    BY <2>1, <2>2, <1>3, <1>8, <1>9
  <2> QED BY <2>1, <2>2, <2>3, <1>2, <1>16 DEF OthersWait
<1> QED BY <1>1, <1>12, <1>13, <1>14, <1>15, <1>17, <1>18 DEF SoundNow

\* A child with a number that nobody has, and no group.
Born(P, y, p, n) ==
    /\ y \in Processes /\ y.stat = "SRUN" /\ y.at = "user"
    /\ y.pid = n /\ y.ppid = P[p].pid /\ y.pgrp = P[p].pgrp
    /\ n # 0 /\ \A s \in ProcEntries : n # P[s].pid /\ n # P[s].pgrp

\* An entry for it keeps the table sound.
LEMMA ForkStep ==
    ASSUME NEW P, NEW i, SoundNow(P, i), NEW p \in ProcEntries, NEW q \in ProcEntries,
           P[p].stat = "SRUN", P[p].at = "user", P[q].stat = "none",
           NEW y, NEW n, Born(P, y, p, n)
    PROVE  SoundNow([P EXCEPT ![q] = y], i)
<1>1. PICK Q : Q = [P EXCEPT ![q] = y]
  OBVIOUS
<1>2. /\ P \in [ProcEntries -> Processes] /\ \A s \in ProcEntries : Placed(P[s])
      /\ Quiet(P[Init1]) /\ NumbersNow(P) /\ i \in [lock : Nat, req : Asked]
      /\ Heard(P) /\ OneAsks(P, i) /\ OthersWait(P) /\ ParentsLive(P)
  BY DEF SoundNow, TableTypes
<1>3. Q[q] = y /\ \A s \in ProcEntries \ {q} : Q[s] = P[s]
  BY <1>1, <1>2
<1>4. q # Init1 /\ q # p
  BY <1>2 DEF Quiet
<1>5. Q \in [ProcEntries -> Processes]
  BY <1>1, <1>2 DEF Born
<1>6. P[q].at = "none" /\ P[q].pid = 0
  BY <1>2 DEF Placed
<1>7. \A s, r \in ProcEntries \ {q} : Kid(Q, s, r) <=> Kid(P, s, r)
  BY <1>3 DEF Kid
<1>8. Init1 \in ProcEntries /\ P[Init1].ppid = 0
  BY <1>2, ProcsAssumption DEF Init1, Quiet
<1>9. \A r \in ProcEntries \ {q} : P[r].stat # "none" => P[r].ppid # n
  <2> TAKE r \in ProcEntries \ {q}
  <2> HAVE P[r].stat # "none"
  <2>1. CASE r = Init1
    BY <2>1, <1>8 DEF Born
  <2>2. CASE r # Init1
    <3>1. PICK s \in ProcEntries : Kid(P, s, r)
      BY <2>2, <1>2 DEF ParentsLive
    <3> QED BY <3>1 DEF Kid, Born
  <2> QED BY <2>1, <2>2
<1>10. \A r \in ProcEntries \ {q} : ~Kid(Q, q, r)
  BY <1>3, <1>9 DEF Kid, Born
<1>11. \A s \in ProcEntries : Kid(Q, s, q) => s = p
  <2> TAKE s \in ProcEntries
  <2> HAVE Kid(Q, s, q)
  <2>1. Q[s].pid = P[p].pid
    BY <1>3 DEF Kid, Born
  <2>2. s # q
    BY <2>1, <1>3 DEF Born
  <2>3. P[s].pid = P[p].pid /\ P[p].pid # 0
    BY <2>1, <2>2, <1>2, <1>3 DEF Placed
  <2> QED BY <2>3, <1>2 DEF NumbersNow, Placed
<1>12. TableTypes(Q, i)
  <2>1. Placed(y)
    BY DEF Born, Placed
  <2>2. Quiet(Q[Init1])
    BY <1>2, <1>3, <1>4, <1>8
  <2>3. \A s \in ProcEntries : Placed(Q[s])
    BY <2>1, <1>2, <1>3, Zenon
  <2> QED BY <2>2, <2>3, <1>2, <1>5 DEF TableTypes
<1>13. ParentsLive(Q)
  <2> SUFFICES ASSUME NEW s \in ProcEntries \ {Init1}, Q[s].stat # "none"
               PROVE  \E r \in ProcEntries : Q[r].stat \notin {"none", "SZOMB"} /\ Kid(Q, r, s)
    BY DEF ParentsLive
  <2>1. CASE s = q
    <3>1. Kid(Q, p, s)
      BY <2>1, <1>3, <1>4 DEF Born, Kid
    <3> QED BY <3>1, <1>3, <1>4
  <2>2. CASE s # q
    <3>1. PICK r \in ProcEntries : P[r].stat \notin {"none", "SZOMB"} /\ Kid(P, r, s)
      BY <2>2, <1>2, <1>3 DEF ParentsLive
    <3>2. r # q
      BY <3>1
    <3> QED BY <2>2, <3>1, <3>2, <1>3, <1>7
  <2> QED BY <2>1, <2>2
<1>14. NumbersNow(Q)
  <2> SUFFICES ASSUME NEW s \in ProcEntries, NEW r \in ProcEntries,
                      Q[s].stat # "none", Q[r].stat # "none"
               PROVE  /\ Q[s].pid = Q[r].pid => s = r
                      /\ byNumber \/ (Q[s].pid = Q[r].pgrp => Q[s].pgrp = Q[r].pgrp)
    BY DEF NumbersNow
  <2>1. CASE s # q /\ r # q
    BY <2>1, <1>2, <1>3 DEF NumbersNow
  <2>2. CASE s = q
    <3>1. Q[s].pid = n /\ Q[s].pgrp = P[p].pgrp
      BY <2>2, <1>3 DEF Born
    <3>2. CASE r = q
      BY <2>2, <3>2
    <3>3. CASE r # q
      BY <3>1, <3>3, <1>3 DEF Born
    <3> QED BY <3>2, <3>3
  <2>3. CASE s # q /\ r = q
    <3>1. Q[s] = P[s] /\ Q[r].pid = n /\ Q[r].pgrp = P[p].pgrp
      BY <2>3, <1>3 DEF Born
    <3>2. Q[s].pid # n
      BY <3>1 DEF Born
    <3>3. byNumber \/ (P[s].pid = P[p].pgrp => P[s].pgrp = P[p].pgrp)
      BY <3>1, <1>2 DEF NumbersNow
    <3> QED BY <3>1, <3>2, <3>3
  <2> QED BY <2>1, <2>2, <2>3
<1>15. Heard(Q)
  <2> SUFFICES ASSUME NEW s \in ProcEntries, Q[s].stat = "SSLEEP"
               PROVE  /\ Q[s].at \in {"wait", "pause"} => Deliverable(Q[s]) = {}
                      /\ Q[s].at = "wait" => /\ \E r \in ProcEntries : Kid(Q, s, r)
                                             /\ \A r \in ProcEntries : Kid(Q, s, r) => ~News(Q[r])
    BY DEF Heard
  <2>1. s # q /\ Q[s] = P[s]
    BY <1>3 DEF Born
  <2>2. s # p
    BY <2>1
  <2>3. /\ P[s].at \in {"wait", "pause"} => Deliverable(P[s]) = {}
        /\ P[s].at = "wait" => /\ \E r \in ProcEntries : Kid(P, s, r)
                               /\ \A r \in ProcEntries : Kid(P, s, r) => ~News(P[r])
    BY <2>1, <1>2 DEF Heard
  <2>4. ~Kid(P, s, q)
    BY DEF Kid
  <2> QED BY <2>1, <2>2, <2>3, <2>4, <1>3, <1>7, <1>11
<1>16. \A s \in ProcEntries : /\ Q[s].at \in {"asked", "asks"} => s # q /\ Q[s] = P[s]
                              /\ P[s].at \in {"asked", "asks"} => s # q /\ Q[s] = P[s]
  BY <1>3, <1>6 DEF Born
<1>17. OneAsks(Q, i)
  <2>1. ASSUME NEW s \in ProcEntries, Q[s].at = "asked"
        PROVE  /\ i.lock # 0
               /\ \A r \in ProcEntries : Q[r].at = "asked" => s = r
               /\ \E r \in ProcEntries :
                    /\ Kid(Q, s, r) /\ Q[r].pid = i.lock
                    /\ \/ i.req \in Requests /\ AboutToAnswer(Q[r])
                       \/ /\ i.req[1] \in {"none", "error"} /\ Q[s].stat = "SRUN"
                          /\ ~AboutToAnswer(Q[r])
    <3>1. s # q /\ P[s].at = "asked" /\ Q[s] = P[s]
      BY <2>1, <1>16
    <3>2. i.lock # 0 /\ \A r \in ProcEntries : Q[r].at = "asked" => s = r
      BY <3>1, <1>16, <1>2 DEF OneAsks
    <3>3. PICK r \in ProcEntries :
             /\ Kid(P, s, r) /\ P[r].pid = i.lock
             /\ \/ i.req \in Requests /\ AboutToAnswer(P[r])
                \/ /\ i.req[1] \in {"none", "error"} /\ P[s].stat = "SRUN"
                   /\ ~AboutToAnswer(P[r])
      BY <3>1, <1>2 DEF OneAsks
    <3>4. r # q
      BY <3>3 DEF Kid
    <3>5. Q[r] = P[r] /\ Kid(Q, s, r)
      BY <3>1, <3>3, <3>4, <1>3, <1>7
    <3> QED BY <3>1, <3>2, <3>3, <3>5
  <2>2. i.lock # 0 => \E s \in ProcEntries : Q[s].at = "asked"
    BY <1>16, <1>2 DEF OneAsks
  <2> QED BY <2>1, <2>2 DEF OneAsks
<1>18. OthersWait(Q)
  <2> SUFFICES ASSUME NEW s \in ProcEntries, Q[s].at = "asks"
               PROVE  /\ Q[s].req \in Requests
                      /\ \E r \in ProcEntries : /\ Kid(Q, s, r) /\ Q[r].pid = Q[s].peer
                                                /\ Q[r].stat = "SSTOP"
                      /\ Q[s].stat = "SSLEEP" => \E r \in ProcEntries : Q[r].at = "asked"
    BY DEF OthersWait
  <2>1. s # q /\ P[s].at = "asks" /\ Q[s] = P[s]
    BY <1>16
  <2>2. PICK r \in ProcEntries : Kid(P, s, r) /\ P[r].pid = P[s].peer /\ P[r].stat = "SSTOP"
    BY <2>1, <1>2 DEF OthersWait
  <2>3. Q[r] = P[r] /\ Kid(Q, s, r)
    BY <2>1, <2>2, <1>3, <1>7
  <2> QED BY <2>1, <2>2, <2>3, <1>2, <1>16 DEF OthersWait
<1> QED BY <1>1, <1>12, <1>13, <1>14, <1>15, <1>17, <1>18 DEF SoundNow

----------------------------------------------------------------------------
(* Signals *)

\* A process with another set of signals, which wakes it if it sleeps above PZERO.
Told(x, y) ==
    /\ y.pid = x.pid /\ y.ppid = x.ppid /\ y.pgrp = x.pgrp
    /\ y.at = x.at /\ y.peer = x.peer /\ y.req = x.req /\ y.swted = x.swted /\ y.low = x.low
    /\ \/ y.stat = x.stat /\ y.chan = x.chan /\ ~(x.stat = "SSLEEP" /\ x.low)
       \/ x.stat = "SSLEEP" /\ y.stat = "SRUN"

Signalled(P, Q, S) ==
    /\ Q \in [ProcEntries -> Processes] /\ Init1 \notin S
    /\ \A s \in ProcEntries : IF s \in S THEN Told(P[s], Q[s]) ELSE Q[s] = P[s]

\* The table stays sound: who slept above PZERO looks at the signal.
LEMMA SignalStep ==
    ASSUME NEW P, NEW i, SoundNow(P, i), NEW Q, NEW S, Signalled(P, Q, S)
    PROVE  SoundNow(Q, i)
<1>1. /\ P \in [ProcEntries -> Processes] /\ \A s \in ProcEntries : Placed(P[s])
      /\ Quiet(P[Init1]) /\ NumbersNow(P) /\ i \in [lock : Nat, req : Asked]
      /\ Heard(P) /\ OneAsks(P, i) /\ OthersWait(P) /\ ParentsLive(P)
  BY DEF SoundNow, TableTypes
<1>2. ASSUME NEW s \in ProcEntries
      PROVE  /\ Q[s].pid = P[s].pid /\ Q[s].ppid = P[s].ppid /\ Q[s].pgrp = P[s].pgrp
             /\ Q[s].at = P[s].at /\ Q[s].peer = P[s].peer /\ Q[s].req = P[s].req
             /\ Q[s].stat = "none" <=> P[s].stat = "none"
             /\ Q[s].stat = "SZOMB" <=> P[s].stat = "SZOMB"
             /\ Q[s].stat = "SSTOP" <=> P[s].stat = "SSTOP"
             /\ Q[s].stat = "SSLEEP" => P[s].stat = "SSLEEP"
             /\ P[s].stat = "SRUN" => Q[s].stat = "SRUN"
             /\ News(Q[s]) <=> News(P[s])
             /\ Q[s].stat = "SSLEEP" /\ P[s].low => Q[s] = P[s]
  <2>1. CASE s \in S
    <3>1. Told(P[s], Q[s])
      BY <2>1 DEF Signalled
    <3> QED BY <3>1 DEF Told, News
  <2>2. CASE s \notin S
    <3>1. Q[s] = P[s]
      BY <2>2 DEF Signalled
    <3> QED BY <3>1
  <2> QED BY <2>1, <2>2
<1>3. \A s, q \in ProcEntries : Kid(Q, q, s) <=> Kid(P, q, s)
  BY <1>2 DEF Kid
<1>4. TableTypes(Q, i)
  <2>1. Q[Init1] = P[Init1]
    BY ProcsAssumption DEF Signalled, Init1
  <2>2. ASSUME NEW s \in ProcEntries PROVE Placed(Q[s])
    <3>1. CASE s \in S
      <4>1. Told(P[s], Q[s]) /\ Placed(P[s])
        BY <3>1, <1>1 DEF Signalled
      <4> QED BY <4>1 DEF Told, Placed
    <3>2. CASE s \notin S
      BY <3>2, <1>1 DEF Signalled
    <3> QED BY <3>1, <3>2
  <2> QED BY <2>1, <2>2, <1>1 DEF TableTypes, Signalled
<1>5. ParentsLive(Q)
  <2> SUFFICES ASSUME NEW s \in ProcEntries \ {Init1}, Q[s].stat # "none"
               PROVE  \E r \in ProcEntries : Q[r].stat \notin {"none", "SZOMB"} /\ Kid(Q, r, s)
    BY DEF ParentsLive
  <2>1. PICK r \in ProcEntries : P[r].stat \notin {"none", "SZOMB"} /\ Kid(P, r, s)
    BY <1>1, <1>2 DEF ParentsLive
  <2> QED BY <2>1, <1>2, <1>3
<1>6. NumbersNow(Q)
  BY <1>1, <1>2 DEF NumbersNow
<1>7. Heard(Q)
  <2> SUFFICES ASSUME NEW s \in ProcEntries, Q[s].stat = "SSLEEP"
               PROVE  /\ Q[s].at \in {"wait", "pause"} => Deliverable(Q[s]) = {}
                      /\ Q[s].at = "wait" => /\ \E q \in ProcEntries : Kid(Q, s, q)
                                             /\ \A q \in ProcEntries : Kid(Q, s, q) => ~News(Q[q])
    BY DEF Heard
  <2>1. P[s].stat = "SSLEEP" /\ Q[s].at = P[s].at
    BY <1>2
  <2>2. /\ P[s].at \in {"wait", "pause"} => Deliverable(P[s]) = {}
        /\ P[s].at = "wait" => /\ \E q \in ProcEntries : Kid(P, s, q)
                               /\ \A q \in ProcEntries : Kid(P, s, q) => ~News(P[q])
    BY <2>1, <1>1 DEF Heard
  <2>3. P[s].at \in {"wait", "pause"} => P[s].low
    BY <2>1, <1>1 DEF Placed
  <2>4. Q[s].at \in {"wait", "pause"} => Deliverable(Q[s]) = {}
    BY <2>1, <2>2, <2>3, <1>2
  <2> QED BY <2>1, <2>2, <2>4, <1>2, <1>3
<1>8. OneAsks(Q, i)
  <2>1. ASSUME NEW s \in ProcEntries, Q[s].at = "asked"
        PROVE  /\ i.lock # 0
               /\ \A r \in ProcEntries : Q[r].at = "asked" => s = r
               /\ \E r \in ProcEntries :
                    /\ Kid(Q, s, r) /\ Q[r].pid = i.lock
                    /\ \/ i.req \in Requests /\ AboutToAnswer(Q[r])
                       \/ /\ i.req[1] \in {"none", "error"} /\ Q[s].stat = "SRUN"
                          /\ ~AboutToAnswer(Q[r])
    <3>1. P[s].at = "asked"
      BY <2>1, <1>2
    <3>2. i.lock # 0 /\ \A r \in ProcEntries : Q[r].at = "asked" => s = r
      BY <3>1, <1>1, <1>2 DEF OneAsks
    <3>3. PICK r \in ProcEntries :
             /\ Kid(P, s, r) /\ P[r].pid = i.lock
             /\ \/ i.req \in Requests /\ AboutToAnswer(P[r])
                \/ /\ i.req[1] \in {"none", "error"} /\ P[s].stat = "SRUN"
                   /\ ~AboutToAnswer(P[r])
      BY <3>1, <1>1 DEF OneAsks
    <3>4. AboutToAnswer(Q[r]) <=> AboutToAnswer(P[r])
      <4>1. P[r].at = "stop" => P[r].stat # "SSLEEP"
        BY <1>1 DEF Placed
      <4>2. P[r].at = "stop" => (Q[r].stat = "SRUN" <=> P[r].stat = "SRUN")
        BY <4>1 DEF Signalled, Told
      <4> QED BY <4>2, <1>2 DEF AboutToAnswer
    <3>5. Kid(Q, s, r) /\ Q[r].pid = i.lock /\ (P[s].stat = "SRUN" => Q[s].stat = "SRUN")
      BY <3>3, <1>2, <1>3
    <3> QED BY <3>2, <3>3, <3>4, <3>5
  <2>2. i.lock # 0 => \E s \in ProcEntries : Q[s].at = "asked"
    BY <1>2, <1>1 DEF OneAsks
  <2> QED BY <2>1, <2>2 DEF OneAsks
<1>9. OthersWait(Q)
  <2> SUFFICES ASSUME NEW s \in ProcEntries, Q[s].at = "asks"
               PROVE  /\ Q[s].req \in Requests
                      /\ \E r \in ProcEntries : /\ Kid(Q, s, r) /\ Q[r].pid = Q[s].peer
                                                /\ Q[r].stat = "SSTOP"
                      /\ Q[s].stat = "SSLEEP" => \E r \in ProcEntries : Q[r].at = "asked"
    BY DEF OthersWait
  <2>1. P[s].at = "asks"
    BY <1>2
  <2>2. PICK r \in ProcEntries : Kid(P, s, r) /\ P[r].pid = P[s].peer /\ P[r].stat = "SSTOP"
    BY <2>1, <1>1 DEF OthersWait
  <2>3. Kid(Q, s, r) /\ Q[r].pid = Q[s].peer /\ Q[r].stat = "SSTOP"
    BY <2>2, <1>2, <1>3
  <2>4. Q[s].req \in Requests
    BY <2>1, <1>1, <1>2 DEF OthersWait
  <2>5. Q[s].stat = "SSLEEP" => \E t \in ProcEntries : Q[t].at = "asked"
    BY <2>1, <1>1, <1>2 DEF OthersWait
  <2> QED BY <2>3, <2>4, <2>5
<1> QED BY <1>4, <1>5, <1>6, <1>7, <1>8, <1>9 DEF SoundNow

----------------------------------------------------------------------------
(* Requests of tracers *)

\* Nobody has asked: p asks its stopped child q, and sleeps.
AskedNow(P, Q, p, q) ==
    /\ Q \in [ProcEntries -> Processes]
    /\ P[p].stat = "SRUN" /\ P[q].stat = "SSTOP" /\ Kid(P, p, q) /\ p # Init1
    /\ \A s \in ProcEntries : Q[s].pid = P[s].pid /\ Q[s].ppid = P[s].ppid /\ Q[s].pgrp = P[s].pgrp
    /\ Q[p].stat = "SSLEEP" /\ Q[p].at = "asked" /\ ~Q[p].low /\ Q[p].chan = Ipc
    /\ Q[q].stat = "SRUN" /\ Q[q].at = "stop"
    /\ \A s \in ProcEntries \ {p, q} : Q[s] = P[s]

\* It is the one who asks, and q is about to answer.
LEMMA AskStep ==
    ASSUME NEW P, NEW i, SoundNow(P, i), i.lock = 0, NEW p \in ProcEntries,
           NEW q \in ProcEntries, NEW Q, AskedNow(P, Q, p, q), NEW r \in Requests,
           NEW j, j = [lock |-> P[q].pid, req |-> r]
    PROVE  SoundNow(Q, j)
<1>1. /\ P \in [ProcEntries -> Processes] /\ \A s \in ProcEntries : Placed(P[s])
      /\ Quiet(P[Init1]) /\ NumbersNow(P) /\ i \in [lock : Nat, req : Asked]
      /\ Heard(P) /\ OneAsks(P, i) /\ OthersWait(P) /\ ParentsLive(P)
  BY DEF SoundNow, TableTypes
<1>2. Init1 \in ProcEntries /\ p # Init1 /\ q # Init1 /\ p # q
  BY <1>1, ProcsAssumption DEF AskedNow, Quiet, Init1
<1>3. P[p].pid # 0 /\ P[q].pid # 0 /\ P[q].pid \in Nat /\ P[q].at = "stop"
  BY <1>1 DEF AskedNow, Placed, Processes
<1>4. \A s, t \in ProcEntries : Kid(Q, t, s) <=> Kid(P, t, s)
  <2> TAKE s, t \in ProcEntries
  <2>1. Q[s].stat = "none" <=> P[s].stat = "none"
    BY DEF AskedNow
  <2> QED BY <2>1 DEF Kid, AskedNow
<1>5. \A s \in ProcEntries : Kid(P, s, q) => s = p
  <2> TAKE s \in ProcEntries
  <2> HAVE Kid(P, s, q)
  <2>1. P[s].pid = P[p].pid /\ P[s].stat # "none" /\ P[p].stat # "none"
    BY <1>1, <1>3 DEF Kid, Placed, AskedNow
  <2> QED BY <2>1, <1>1 DEF NumbersNow
<1>6. j \in [lock : Nat, req : Asked] /\ j.lock = P[q].pid /\ j.req = r
  <2>1. Requests \subseteq Asked
    BY ProcsAssumption DEF Requests, Asked
  <2> QED BY <2>1, <1>3
<1>7. TableTypes(Q, j)
  <2>1. Quiet(Q[Init1])
    BY <1>1, <1>2 DEF AskedNow
  <2>2. Placed(Q[p]) /\ Placed(Q[q])
    BY <1>3 DEF AskedNow, Placed
  <2>3. \A s \in ProcEntries : Placed(Q[s])
    BY <2>2, <1>1 DEF AskedNow
  <2> QED BY <2>1, <2>3, <1>6 DEF TableTypes, AskedNow
<1>8. ParentsLive(Q)
  <2> SUFFICES ASSUME NEW s \in ProcEntries \ {Init1}, Q[s].stat # "none"
               PROVE  \E t \in ProcEntries : Q[t].stat \notin {"none", "SZOMB"} /\ Kid(Q, t, s)
    BY DEF ParentsLive
  <2>1. P[s].stat # "none"
    BY DEF AskedNow
  <2>2. PICK t \in ProcEntries : P[t].stat \notin {"none", "SZOMB"} /\ Kid(P, t, s)
    BY <2>1, <1>1 DEF ParentsLive
  <2>3. Q[t].stat \notin {"none", "SZOMB"}
    BY <2>2 DEF AskedNow
  <2> QED BY <2>2, <2>3, <1>4
<1>9. NumbersNow(Q)
  <2>1. \A s \in ProcEntries : Q[s].stat = "none" <=> P[s].stat = "none"
    BY DEF AskedNow
  <2> QED BY <2>1, <1>1 DEF NumbersNow, AskedNow
<1>10. Heard(Q)
  <2> SUFFICES ASSUME NEW s \in ProcEntries, Q[s].stat = "SSLEEP"
               PROVE  /\ Q[s].at \in {"wait", "pause"} => Deliverable(Q[s]) = {}
                      /\ Q[s].at = "wait" => /\ \E t \in ProcEntries : Kid(Q, s, t)
                                             /\ \A t \in ProcEntries : Kid(Q, s, t) => ~News(Q[t])
    BY DEF Heard
  <2>1. CASE s = p
    BY <2>1 DEF AskedNow
  <2>2. CASE s # p
    <3>1. s # q /\ Q[s] = P[s]
      BY <2>2 DEF AskedNow
    <3>2. /\ P[s].at \in {"wait", "pause"} => Deliverable(P[s]) = {}
          /\ P[s].at = "wait" => /\ \E t \in ProcEntries : Kid(P, s, t)
                                 /\ \A t \in ProcEntries : Kid(P, s, t) => ~News(P[t])
      BY <3>1, <1>1 DEF Heard
    <3>3. \A t \in ProcEntries : News(Q[t]) => News(P[t])
      <4>1. ~News(Q[p]) /\ ~News(Q[q])
        BY DEF AskedNow, News
      <4> QED BY <4>1 DEF AskedNow
    <3> QED BY <3>1, <3>2, <3>3, <1>4
  <2> QED BY <2>1, <2>2
<1>11. \A s \in ProcEntries : Q[s].at = "asked" => s = p
  BY <1>1 DEF AskedNow, OneAsks
<1>12. OneAsks(Q, j)
  <2>1. AboutToAnswer(Q[q]) /\ Kid(Q, p, q) /\ Q[q].pid = j.lock
    BY <1>4, <1>6 DEF AboutToAnswer, AskedNow
  <2>2. Q[p].at = "asked"
    BY DEF AskedNow
  <2> QED BY <2>1, <2>2, <1>3, <1>6, <1>11 DEF OneAsks
<1>13. OthersWait(Q)
  <2> SUFFICES ASSUME NEW s \in ProcEntries, Q[s].at = "asks"
               PROVE  /\ Q[s].req \in Requests
                      /\ \E t \in ProcEntries : /\ Kid(Q, s, t) /\ Q[t].pid = Q[s].peer
                                                /\ Q[t].stat = "SSTOP"
                      /\ Q[s].stat = "SSLEEP" => \E t \in ProcEntries : Q[t].at = "asked"
    BY DEF OthersWait
  <2>1. s # p /\ s # q /\ Q[s] = P[s]
    BY DEF AskedNow
  <2>2. PICK t \in ProcEntries : Kid(P, s, t) /\ P[t].pid = P[s].peer /\ P[t].stat = "SSTOP"
    BY <2>1, <1>1 DEF OthersWait
  <2>3. t # q /\ t # p
    BY <2>1, <2>2, <1>5 DEF AskedNow
  <2>4. Q[t] = P[t] /\ Kid(Q, s, t)
    BY <2>2, <2>3, <1>4 DEF AskedNow
  <2>5. Q[p].at = "asked"
    BY DEF AskedNow
  <2>6. Q[s].req \in Requests
    BY <2>1, <1>1 DEF OthersWait
  <2> QED BY <2>1, <2>2, <2>4, <2>5, <2>6
<1> QED BY <1>7, <1>8, <1>9, <1>10, <1>12, <1>13 DEF SoundNow

\* p has an answer: the lock is free, and who sleeps on ipc is woken.
LEMMA AnsweredStep ==
    ASSUME NEW P, NEW i, SoundNow(P, i), NEW p \in ProcEntries, NEW Q,
           Q \in [ProcEntries -> Processes], OwnChange(P, Q, p), OwnSleep(P, Q, p),
           P[p].at = "asked", Q[p].at = "user",
           \A s \in ProcEntries \ {p} : ~(Q[s].stat = "SSLEEP" /\ P[s].chan = Ipc)
    PROVE  SoundNow(Q, NoRequest)
<1>1. OneAsks(P, i) /\ OthersWait(P) /\ \A s \in ProcEntries : Placed(P[s])
  BY DEF SoundNow, TableTypes
<1>2. TableTypes(Q, i) /\ ParentsLive(Q) /\ NumbersNow(Q)
  BY OwnTable DEF OwnSleep
<1>3. Heard(Q)
  BY OwnHeard DEF OwnSleep
<1>4. NoRequest \in [lock : Nat, req : Asked] /\ NoRequest.lock = 0
  BY DEF NoRequest, Asked
<1>5. TableTypes(Q, NoRequest)
  BY <1>2, <1>4 DEF TableTypes
<1>6. /\ \A s, q \in ProcEntries : Kid(Q, q, s) <=> Kid(P, q, s)
      /\ \A s \in ProcEntries : Q[s].pid = P[s].pid
      /\ \A s \in ProcEntries \ {p} : /\ Q[s].at = P[s].at
                                      /\ Q[s].stat = "SSLEEP" => P[s].stat = "SSLEEP"
                                      /\ Q[s].stat = "SSTOP" <=> P[s].stat = "SSTOP"
  BY OwnIsSame
<1>7. \A s \in ProcEntries : Q[s].at # "asked"
  BY <1>1, <1>6 DEF OneAsks
<1>8. OneAsks(Q, NoRequest)
  BY <1>4, <1>7 DEF OneAsks
<1>9. OthersWait(Q)
  <2> SUFFICES ASSUME NEW s \in ProcEntries, Q[s].at = "asks"
               PROVE  /\ Q[s].req \in Requests
                      /\ \E t \in ProcEntries : /\ Kid(Q, s, t) /\ Q[t].pid = Q[s].peer
                                                /\ Q[t].stat = "SSTOP"
                      /\ Q[s].stat # "SSLEEP"
    BY DEF OthersWait
  <2>1. s # p /\ P[s].at = "asks"
    BY <1>6
  <2>2. PICK t \in ProcEntries : Kid(P, s, t) /\ P[t].pid = P[s].peer /\ P[t].stat = "SSTOP"
    BY <2>1, <1>1 DEF OthersWait
  <2>3. t # p
    BY <2>2 DEF OwnChange
  <2>4. Q[s].peer = P[s].peer /\ Q[s].req = P[s].req
    BY <2>1, LeftIsSame DEF OwnChange
  <2>5. Q[s].stat # "SSLEEP"
    BY <2>1, <1>1, <1>6 DEF Placed
  <2>6. Q[s].req \in Requests
    BY <2>1, <2>4, <1>1 DEF OthersWait
  <2> QED BY <2>2, <2>3, <2>4, <2>5, <2>6, <1>6
<1> QED BY <1>2, <1>3, <1>5, <1>8, <1>9 DEF SoundNow

\* p was woken by another one's wakeup, and sleeps again.
LEMMA AsleepStep ==
    ASSUME NEW P, NEW i, SoundNow(P, i), NEW p \in ProcEntries, NEW y \in Processes,
           P[p].stat = "SRUN", P[p].at = "asked", i.req[1] \notin {"none", "error"},
           SameOne(P[p], y), y.stat = "SSLEEP", y.at = "asked", ~y.low, y.chan = Ipc
    PROVE  SoundNow([P EXCEPT ![p] = y], i)
<1>1. PICK Q : Q = [P EXCEPT ![p] = y]
  OBVIOUS
<1>2. /\ OneAsks(P, i) /\ OthersWait(P) /\ \A s \in ProcEntries : Placed(P[s])
      /\ P \in [ProcEntries -> Processes] /\ Quiet(P[Init1])
  BY DEF SoundNow, TableTypes
<1>3. Q[p] = y /\ (\A s \in ProcEntries \ {p} : Q[s] = P[s]) /\ Q \in [ProcEntries -> Processes]
  BY <1>1, <1>2
<1>4. Placed(y) /\ p # Init1
  BY <1>2 DEF Placed, SameOne, Quiet
<1>5. OwnChange(P, Q, p)
  BY <1>3, <1>4 DEF OwnChange, SameOne, LeftAlone
<1>6. OwnSleep(P, Q, p)
  BY <1>3 DEF OwnSleep, News
<1>7. TableTypes(Q, i) /\ ParentsLive(Q) /\ NumbersNow(Q)
  BY <1>3, <1>5, <1>6, OwnTable DEF OwnSleep
<1>8. Heard(Q)
  BY <1>5, <1>6, OwnHeard DEF OwnSleep
<1>9. \A s, q \in ProcEntries : Kid(Q, q, s) <=> Kid(P, q, s)
  BY <1>5, OwnIsSame
<1>10. \A s \in ProcEntries : Q[s].at = P[s].at /\ Q[s].pid = P[s].pid
  BY <1>3 DEF SameOne
<1>11. OneAsks(Q, i)
  <2>1. ASSUME NEW s \in ProcEntries, Q[s].at = "asked"
        PROVE  /\ i.lock # 0
               /\ \A r \in ProcEntries : Q[r].at = "asked" => s = r
               /\ \E r \in ProcEntries :
                    /\ Kid(Q, s, r) /\ Q[r].pid = i.lock
                    /\ i.req \in Requests /\ AboutToAnswer(Q[r])
    <3>1. i.lock # 0 /\ \A r \in ProcEntries : Q[r].at = "asked" => s = r
      BY <2>1, <1>2, <1>10 DEF OneAsks
    <3>2. PICK r \in ProcEntries : /\ Kid(P, s, r) /\ P[r].pid = i.lock
                                   /\ i.req \in Requests /\ AboutToAnswer(P[r])
      BY <2>1, <1>2, <1>10 DEF OneAsks
    <3>3. r # p
      BY <3>2 DEF AboutToAnswer
    <3> QED BY <3>1, <3>2, <3>3, <1>3, <1>9
  <2>2. i.lock # 0 => \E s \in ProcEntries : Q[s].at = "asked"
    BY <1>10, <1>2 DEF OneAsks
  <2> QED BY <2>1, <2>2 DEF OneAsks
<1>12. OthersWait(Q)
  <2> SUFFICES ASSUME NEW s \in ProcEntries, Q[s].at = "asks"
               PROVE  /\ Q[s].req \in Requests
                      /\ \E t \in ProcEntries : /\ Kid(Q, s, t) /\ Q[t].pid = Q[s].peer
                                                /\ Q[t].stat = "SSTOP"
                      /\ Q[s].stat = "SSLEEP" => \E t \in ProcEntries : Q[t].at = "asked"
    BY DEF OthersWait
  <2>1. s # p /\ P[s].at = "asks" /\ Q[s] = P[s]
    BY <1>3, <1>10
  <2>2. PICK t \in ProcEntries : Kid(P, s, t) /\ P[t].pid = P[s].peer /\ P[t].stat = "SSTOP"
    BY <2>1, <1>2 DEF OthersWait
  <2>3. t # p
    BY <2>2
  <2>4. Q[p].at = "asked"
    BY <1>3
  <2>5. Q[s].req \in Requests
    BY <2>1, <1>2 DEF OthersWait
  <2> QED BY <2>1, <2>2, <2>3, <2>4, <2>5, <1>3, <1>9
<1> QED BY <1>1, <1>7, <1>8, <1>11, <1>12 DEF SoundNow

\* What is asked of a process that is about to answer.
LEMMA AskedToServe ==
    ASSUME NEW P, NEW i, SoundNow(P, i), NEW p \in ProcEntries,
           AboutToAnswer(P[p]), i.lock = P[p].pid
    PROVE  /\ i.req \in Requests
           /\ \E s \in ProcEntries :
                /\ P[s].at = "asked" /\ Kid(P, s, p) /\ s # p
                /\ \A t \in ProcEntries : P[t].at = "asked" => s = t
<1>1. OneAsks(P, i) /\ NumbersNow(P) /\ \A s \in ProcEntries : Placed(P[s])
  BY DEF SoundNow, TableTypes
<1>2. P[p].pid # 0
  BY <1>1 DEF Placed, AboutToAnswer
<1>3. PICK s \in ProcEntries : P[s].at = "asked"
  BY <1>1, <1>2 DEF OneAsks
<1>4. PICK q \in ProcEntries :
        /\ Kid(P, s, q) /\ P[q].pid = i.lock
        /\ \/ i.req \in Requests /\ AboutToAnswer(P[q])
           \/ /\ i.req[1] \in {"none", "error"} /\ P[s].stat = "SRUN"
              /\ ~AboutToAnswer(P[q])
  BY <1>1, <1>3 DEF OneAsks
<1>5. q = p
  BY <1>1, <1>4 DEF NumbersNow, Kid, AboutToAnswer
<1>6. \A t \in ProcEntries : P[t].at = "asked" => s = t
  BY <1>1, <1>3 DEF OneAsks
<1>7. s # p
  BY <1>3 DEF AboutToAnswer
<1> QED BY <1>3, <1>4, <1>5, <1>6, <1>7

\* It has done it: its tracer is about to run.
LEMMA ServedStep ==
    ASSUME NEW P, NEW i, SoundNow(P, i), NEW p \in ProcEntries, NEW Q,
           AboutToAnswer(P[p]), i.lock = P[p].pid,
           Q \in [ProcEntries -> Processes], OwnChange(P, Q, p), OwnSleep(P, Q, p),
           Q[p].at \notin {"asked", "asks"}, ~AboutToAnswer(Q[p]),
           \A s \in ProcEntries \ {p} : ~(Q[s].stat = "SSLEEP" /\ P[s].chan = Ipc),
           NEW j \in [lock : Nat, req : Asked], j.lock = i.lock, j.req[1] \in {"none", "error"}
    PROVE  SoundNow(Q, j)
<1>1. OneAsks(P, i) /\ OthersWait(P) /\ \A s \in ProcEntries : Placed(P[s])
  BY DEF SoundNow, TableTypes
<1>2. TableTypes(Q, i) /\ ParentsLive(Q) /\ NumbersNow(Q)
  BY OwnTable DEF OwnSleep
<1>3. Heard(Q)
  BY OwnHeard DEF OwnSleep
<1>4. TableTypes(Q, j)
  BY <1>2 DEF TableTypes
<1>5. /\ \A s, q \in ProcEntries : Kid(Q, q, s) <=> Kid(P, q, s)
      /\ \A s \in ProcEntries : Q[s].pid = P[s].pid /\ (Q[s].stat = "none" <=> P[s].stat = "none")
      /\ \A s \in ProcEntries \ {p} : /\ Q[s].at = P[s].at
                                      /\ Q[s].stat = "SSLEEP" => P[s].stat = "SSLEEP"
                                      /\ Q[s].stat = "SSTOP" <=> P[s].stat = "SSTOP"
  BY OwnIsSame
<1>6. PICK s \in ProcEntries : /\ P[s].at = "asked" /\ Kid(P, s, p) /\ s # p
                               /\ \A t \in ProcEntries : P[t].at = "asked" => s = t
  BY AskedToServe
<1>7. Q[s].stat = "SRUN"
  <2>1. Q[s].at = "asked" /\ Q[s].stat \in Stats /\ Placed(Q[s])
    BY <1>2, <1>5, <1>6 DEF TableTypes, Processes
  <2>2. Q[s].stat # "SSLEEP"
    BY <1>1, <1>5, <1>6 DEF Placed
  <2> QED BY <2>1, <2>2 DEF Stats, Placed
<1>8. \A t \in ProcEntries : Q[t].at = "asked" <=> t = s
  BY <1>5, <1>6
<1>9. OneAsks(Q, j)
  <2>1. i.lock # 0
    BY <1>1, <1>6 DEF OneAsks
  <2>2. Kid(Q, s, p) /\ Q[p].pid = j.lock
    BY <1>5, <1>6
  <2> QED BY <2>1, <2>2, <1>7, <1>8 DEF OneAsks
<1>10. OthersWait(Q)
  <2> SUFFICES ASSUME NEW r \in ProcEntries, Q[r].at = "asks"
               PROVE  /\ Q[r].req \in Requests
                      /\ \E t \in ProcEntries : /\ Kid(Q, r, t) /\ Q[t].pid = Q[r].peer
                                                /\ Q[t].stat = "SSTOP"
    BY <1>8 DEF OthersWait
  <2>1. r # p /\ P[r].at = "asks"
    BY <1>5
  <2>2. PICK t \in ProcEntries : Kid(P, r, t) /\ P[t].pid = P[r].peer /\ P[t].stat = "SSTOP"
    BY <2>1, <1>1 DEF OthersWait
  <2>3. t # p
    BY <2>2 DEF AboutToAnswer
  <2>4. Q[r].peer = P[r].peer /\ Q[r].req = P[r].req
    BY <2>1, LeftIsSame DEF OwnChange
  <2>5. Q[r].req \in Requests
    BY <2>1, <2>4, <1>1 DEF OthersWait
  <2> QED BY <2>2, <2>3, <2>4, <2>5, <1>5
<1> QED BY <1>2, <1>3, <1>4, <1>9, <1>10 DEF SoundNow

----------------------------------------------------------------------------
(* Process numbers *)

\* There are more numbers than processes and groups.
LEMMA NumberLeft ==
    ASSUME NEW P \in [ProcEntries -> Processes]
    PROVE  \E n \in 1..MaxPid - 1 : \A s \in ProcEntries : n # P[s].pid /\ n # P[s].pgrp
<1> DEFINE f == [s \in ProcEntries |-> P[s].pid]
           g == [s \in ProcEntries |-> P[s].pgrp]
           A == {f[s] : s \in ProcEntries}
           B == {g[s] : s \in ProcEntries}
<1>1. IsFiniteSet(ProcEntries) /\ Cardinality(ProcEntries) \in Nat \ {0}
  <2>1. IsFiniteSet(ProcEntries) /\ ProcEntries # {}
    BY ProcsAssumption
  <2> QED BY <2>1, FS_CardinalityType, FS_EmptySet
<1>2. IsFiniteSet(A) /\ Cardinality(A) <= Cardinality(ProcEntries)
  <2>1. f \in Surjection(ProcEntries, A)
    BY DEF Surjection
  <2> HIDE DEF f, A
  <2> QED BY <1>1, <2>1, FS_Surjection
<1>3. IsFiniteSet(B) /\ Cardinality(B) <= Cardinality(ProcEntries)
  <2>1. g \in Surjection(ProcEntries, B)
    BY DEF Surjection
  <2> HIDE DEF g, B
  <2> QED BY <1>1, <2>1, FS_Surjection
<1>4. /\ IsFiniteSet(A \cup B)
      /\ Cardinality(A \cup B) <= 2 * Cardinality(ProcEntries)
  <2> HIDE DEF A, B
  <2>1. /\ IsFiniteSet(A \cup B)
        /\ Cardinality(A \cup B) = Cardinality(A) + Cardinality(B) - Cardinality(A \cap B)
    BY <1>2, <1>3, FS_Union
  <2>2. IsFiniteSet(A \cap B)
    BY <1>2, FS_Intersection
  <2>3. /\ Cardinality(A) \in Nat /\ Cardinality(B) \in Nat /\ Cardinality(A \cap B) \in Nat
        /\ Cardinality(A \cup B) \in Nat
    BY <1>2, <1>3, <2>1, <2>2, FS_CardinalityType
  <2> QED BY <1>1, <1>2, <1>3, <2>1, <2>3
<1>5. Cardinality(1..MaxPid - 1) = MaxPid - 1
  <2>1. MaxPid - 1 \in Int /\ 1 \in Int /\ ~(1 > MaxPid - 1) /\ MaxPid \in Nat
    BY <1>1, ProcsAssumption
  <2>2. Cardinality(1..MaxPid - 1) = IF 1 > MaxPid - 1 THEN 0 ELSE (MaxPid - 1) - 1 + 1
    BY <2>1, FS_Interval
  <2> QED BY <2>1, <2>2
<1>6. ~(1..MaxPid - 1 \subseteq A \cup B)
  <2> HIDE DEF A, B
  <2> SUFFICES ASSUME 1..MaxPid - 1 \subseteq A \cup B PROVE FALSE
    OBVIOUS
  <2>1. Cardinality(1..MaxPid - 1) <= Cardinality(A \cup B)
    BY <1>4, FS_Subset
  <2>2. Cardinality(A \cup B) \in Nat /\ MaxPid \in Nat /\ MaxPid > 3 * Cardinality(ProcEntries)
    BY <1>4, FS_CardinalityType, ProcsAssumption
  <2> QED BY <1>1, <1>4, <1>5, <2>1, <2>2
<1>7. PICK n \in 1..MaxPid - 1 : n \notin A /\ n \notin B
  BY <1>6
<1>8. \A s \in ProcEntries : n # P[s].pid /\ n # P[s].pgrp
  BY <1>7
<1> QED BY <1>8

\* newproc finds one, going on from the number it gave last.
LEMMA NextPidIsNew ==
    ASSUME proc \in [ProcEntries -> Processes], mpid \in 1..MaxPid - 1
    PROVE  /\ NextPid \in 1..MaxPid - 1
           /\ \A s \in ProcEntries : NextPid # proc[s].pid /\ NextPid # proc[s].pgrp
<1> DEFINE M == MaxPid - 1
           after(k) == 1 + ((mpid + k - 1) % (MaxPid - 1))
           S == {k \in 1..MaxPid : after(k) \notin Numbers(0)}
<1>1. MaxPid \in Nat /\ M \in Nat \ {0} /\ mpid \in 1..M /\ mpid \in Nat
  <2>1. IsFiniteSet(ProcEntries) /\ ProcEntries # {} /\ MaxPid \in Nat
        /\ MaxPid > 3 * Cardinality(ProcEntries)
    BY ProcsAssumption
  <2>2. Cardinality(ProcEntries) \in Nat \ {0}
    BY <2>1, FS_CardinalityType, FS_EmptySet
  <2> QED BY <2>1, <2>2
<1>2. \A k \in 1..MaxPid : after(k) \in 1..M
  <2> TAKE k \in 1..MaxPid
  <2>1. mpid + (k - 1) \in Int
    BY <1>1
  <2>2. PICK q \in Int, r \in 0..M - 1 : (mpid + (k - 1)) % M = r
    <3> HIDE DEF M
    <3> QED BY <1>1, <2>1, Division
  <2>3. after(k) = 1 + r
    BY <2>2
  <2> QED BY <2>3, <1>1
<1>3. PICK n \in 1..M : \A s \in ProcEntries : n # proc[s].pid /\ n # proc[s].pgrp
  BY NumberLeft
<1>4. \A m \in 1..M : m \in Numbers(0) <=>
         \E s \in ProcEntries : m = proc[s].pid \/ m = proc[s].pgrp
  BY <1>1 DEF Numbers
<1>5. PICK k \in 1..MaxPid : after(k) = n
  <2>1. CASE n > mpid
    <3> DEFINE k == n - mpid
    <3>1. k \in 1..MaxPid /\ mpid + (k - 1) = 0 * M + (n - 1) /\ n - 1 \in 0..M - 1
      BY <1>1, <2>1
    <3>2. (mpid + (k - 1)) % M = n - 1
      <4> DEFINE a == mpid + (k - 1)
                 r == n - 1
      <4>1. a = 0 * M + r /\ r \in 0..M - 1
        BY <3>1
      <4> HIDE DEF a, r, M
      <4>2. a % M = r
        BY <4>1, <1>1, RestIs
      <4> QED BY <4>2 DEF a, r
    <3>3. after(k) = n
      BY <3>2, <1>1
    <3> QED BY <3>1, <3>3
  <2>2. CASE n <= mpid
    <3> DEFINE k == (n - mpid) + M
    <3>1. k \in 1..MaxPid /\ mpid + (k - 1) = 1 * M + (n - 1) /\ n - 1 \in 0..M - 1
      BY <1>1, <2>2
    <3>2. (mpid + (k - 1)) % M = n - 1
      <4> DEFINE a == mpid + (k - 1)
                 r == n - 1
      <4>1. a = 1 * M + r /\ r \in 0..M - 1
        BY <3>1
      <4> HIDE DEF a, r, M
      <4>2. a % M = r
        BY <4>1, <1>1, RestIs
      <4> QED BY <4>2 DEF a, r
    <3>3. after(k) = n
      BY <3>2, <1>1
    <3> QED BY <3>1, <3>3
  <2> QED BY <2>1, <2>2, <1>1
<1>6. S # {} /\ S \in SUBSET Nat
  BY <1>3, <1>4, <1>5
<1>7. Min(S) \in S
  <2> HIDE DEF S
  <2> QED BY <1>6, MinOfNumbers
<1>8. NextPid = after(Min(S))
  BY DEF NextPid
<1>9. NextPid \in 1..M /\ NextPid \notin Numbers(0)
  <2> DEFINE k1 == Min(S)
  <2>1. k1 \in 1..MaxPid /\ after(k1) \notin Numbers(0)
    BY <1>7
  <2>2. NextPid = after(k1)
    BY <1>8
  <2> HIDE DEF k1
  <2> QED BY <2>1, <2>2, <1>2
<1> QED BY <1>4, <1>9

----------------------------------------------------------------------------
(* The steps *)

\* The inductive invariant.
ProcsInv ==
    /\ SoundNow(proc, ipc) /\ mpid \in 1..MaxPid - 1
    /\ t_pgrp \in [Terminals -> Nat] /\ byNumber \in BOOLEAN

\* Steps that leave the terminals and the groups alone.
LEMMA SameGroupsKeep ==
    ASSUME ProcsInv, SoundNow(proc', ipc'), SameGroups, mpid' \in 1..MaxPid - 1
    PROVE  ProcsInv'
<1>1. t_pgrp' = t_pgrp /\ byNumber' = byNumber
  BY DEF SameGroups
<1>2. NumbersNow(proc)'
  BY <1>1, Zenon DEF SoundNow, NumbersNow
<1>3. SoundNow(proc, ipc)'
  BY <1>2 DEF SoundNow
<1> QED BY <1>1, <1>3 DEF ProcsInv

\* The children of a process.
LEMMA ChildrenAreKids ==
    ASSUME NEW p \in ProcEntries
    PROVE  \A q : q \in Children(p) <=> q \in ProcEntries /\ Kid(proc, p, q)
<1> QED BY DEF Children, Kid

\* What is known of an entry of the table.
LEMMA EntryFacts ==
    ASSUME SoundNow(proc, ipc), NEW p \in ProcEntries
    PROVE  /\ proc \in [ProcEntries -> Processes] /\ proc[p] \in Processes /\ Placed(proc[p])
           /\ p = Init1 => Quiet(proc[p])
<1> QED BY DEF SoundNow, TableTypes

\* A process that calls exit goes on by itself.
LEMMA RexitKeeps ==
    ASSUME SoundNow(proc, ipc), NEW p \in ProcEntries, rexit(p)
    PROVE  SoundNow(proc', ipc')
<1>1. proc' = [proc EXCEPT ![p] = Exiting(proc[p])] /\ ipc' = ipc
  BY DEF rexit
<1>2. p # Init1 /\ proc[p].stat = "SRUN" /\ proc[p].at = "user"
  BY DEF rexit, Enters
<1>3. OwnRecord(proc, p, Exiting(proc[p]))
  BY <1>2, EntryFacts, ExitingFields DEF OwnRecord, SameOne
<1> QED BY <1>1, <1>3, Replaced

\* So does one that changes its group: nothing else depends on it.
LEMMA Regrouped ==
    ASSUME SoundNow(proc, ipc), NEW p \in ProcEntries \ {Init1}, proc[p].stat = "SRUN",
           NEW g \in Nat, proc' = [proc EXCEPT ![p].pgrp = g], ipc' = ipc
    PROVE  /\ TableTypes(proc', ipc') /\ ParentsLive(proc') /\ Heard(proc')
           /\ OneAsks(proc', ipc') /\ OthersWait(proc')
           /\ proc' \in [ProcEntries -> Processes] /\ proc'[p].pgrp = g
           /\ \A s \in ProcEntries : proc'[s].stat = proc[s].stat /\ proc'[s].pid = proc[s].pid
           /\ \A s \in ProcEntries \ {p} : proc'[s] = proc[s]
<1>1. PICK Q : Q = proc'
  OBVIOUS
<1>2. PICK y : y = [proc[p] EXCEPT !.pgrp = g]
  OBVIOUS
<1>3. proc \in [ProcEntries -> Processes] /\ proc[p] \in Processes
  BY DEF SoundNow, TableTypes
<1>4. y \in Processes
  BY <1>2, <1>3, ZenonT(60) DEF Processes
<1>5. /\ y.pid = proc[p].pid /\ y.ppid = proc[p].ppid /\ y.pgrp = g /\ y.stat = proc[p].stat
      /\ y.at = proc[p].at /\ y.peer = proc[p].peer /\ y.req = proc[p].req
      /\ y.sig = proc[p].sig /\ y.act = proc[p].act /\ (y.traced <=> proc[p].traced)
      /\ (y.swted <=> proc[p].swted) /\ (y.low <=> proc[p].low) /\ y.chan = proc[p].chan
  BY <1>2, <1>3 DEF Processes
<1>6. Q = [proc EXCEPT ![p] = y]
  BY <1>1, <1>2
<1>7. /\ Q \in [ProcEntries -> Processes] /\ Q[p] = y
      /\ \A s \in ProcEntries \ {p} : Q[s] = proc[s]
  BY <1>3, <1>4, <1>6
<1>8. \A s \in ProcEntries :
        /\ Q[s].pid = proc[s].pid /\ Q[s].ppid = proc[s].ppid /\ Q[s].stat = proc[s].stat
        /\ Q[s].at = proc[s].at /\ Q[s].peer = proc[s].peer /\ Q[s].req = proc[s].req
        /\ Deliverable(Q[s]) = Deliverable(proc[s]) /\ Q[s].chan = proc[s].chan
        /\ (Q[s].swted <=> proc[s].swted) /\ (Q[s].low <=> proc[s].low)
  <2>1. Deliverable(y) = Deliverable(proc[p])
    <3>1. CASE proc[p].traced
      BY <3>1, <1>5 DEF Deliverable
    <3>2. CASE ~proc[p].traced
      BY <3>2, <1>5 DEF Deliverable
    <3> QED BY <3>1, <3>2
  <2> QED BY <2>1, <1>5, <1>7
<1>9. /\ \A s, q \in ProcEntries : Kid(Q, q, s) <=> Kid(proc, q, s)
      /\ \A s \in ProcEntries : /\ News(Q[s]) <=> News(proc[s])
                                /\ Placed(proc[s]) => Placed(Q[s])
                                /\ AboutToAnswer(Q[s]) <=> AboutToAnswer(proc[s])
  BY <1>8 DEF Kid, News, Placed, AboutToAnswer
<1>10. TableTypes(Q, ipc)
  BY <1>7, <1>9, ProcsAssumption DEF SoundNow, TableTypes, Init1
<1>11. ParentsLive(Q)
  BY <1>8, <1>9 DEF SoundNow, ParentsLive
<1>12. Heard(Q)
  BY <1>8, <1>9 DEF SoundNow, Heard
<1>13. OneAsks(Q, ipc)
  BY <1>8, <1>9 DEF SoundNow, OneAsks
<1>14. OthersWait(Q)
  BY <1>8, <1>9 DEF SoundNow, OthersWait
<1> QED BY <1>1, <1>5, <1>7, <1>8, <1>10, <1>11, <1>12, <1>13, <1>14

\* What it changes to is its own number, or the group of somebody in it, or byNumber says so:
\* it is in the group of that number then, if it was in the group of its own.
LEMMA GroupChosen ==
    ASSUME SoundNow(proc, ipc), NEW p \in ProcEntries \ {Init1}, proc[p].stat = "SRUN",
           NEW g \in Nat, proc' = [proc EXCEPT ![p].pgrp = g], ipc' = ipc,
           byNumber' \in BOOLEAN, byNumber => byNumber',
           \/ byNumber' \/ g = proc[p].pid
           \/ /\ proc[p].pgrp = 0
              /\ \E q \in ProcEntries : proc[q].stat # "none" /\ proc[q].pgrp = g
    PROVE  SoundNow(proc, ipc)'
<1>1. /\ TableTypes(proc', ipc') /\ ParentsLive(proc') /\ Heard(proc')
      /\ OneAsks(proc', ipc') /\ OthersWait(proc') /\ proc'[p].pgrp = g
      /\ \A s \in ProcEntries : proc'[s].stat = proc[s].stat /\ proc'[s].pid = proc[s].pid
      /\ \A s \in ProcEntries \ {p} : proc'[s] = proc[s]
  BY Regrouped
<1>2. NumbersNow(proc) /\ proc[p].pid # 0
  BY DEF SoundNow, TableTypes, Placed
<1>3. ASSUME NEW s \in ProcEntries, NEW q \in ProcEntries,
             proc[s].stat # "none", proc[q].stat # "none"
      PROVE  /\ proc[s].pid = proc[q].pid => s = q
             /\ byNumber' \/ (proc[s].pid = proc'[q].pgrp => proc'[s].pgrp = proc'[q].pgrp)
  <2>1. /\ proc[s].pid = proc[q].pid => s = q
        /\ byNumber' \/ (proc[s].pid = proc[q].pgrp => proc[s].pgrp = proc[q].pgrp)
    BY <1>2, <1>3 DEF NumbersNow
  <2>2. ASSUME ~byNumber', proc[s].pid = proc'[q].pgrp
        PROVE  proc'[s].pgrp = proc'[q].pgrp
    <3>1. CASE q # p /\ s # p
      BY <3>1, <2>1, <2>2, <1>1
    <3>2. CASE q = p /\ s = p
      BY <3>2
    <3>3. CASE q # p /\ s = p
      <4>1. proc[p].pid = proc[q].pgrp /\ proc[p].pgrp = proc[q].pgrp
        BY <3>3, <2>1, <2>2, <1>1
      <4>2. g = proc[p].pid
        BY <4>1, <2>2, <1>2
      <4> QED BY <4>1, <4>2, <3>3, <1>1
    <3>4. CASE q = p /\ s # p
      <4>1. proc[s].pid = g
        BY <3>4, <2>2, <1>1
      <4>2. CASE g = proc[p].pid
        BY <4>1, <4>2, <3>4, <1>2, <1>3 DEF NumbersNow
      <4>3. ASSUME NEW r \in ProcEntries, proc[r].stat # "none", proc[r].pgrp = g
            PROVE  proc[s].pgrp = g
        BY <4>1, <4>3, <1>2, <1>3, <2>2 DEF NumbersNow
      <4> QED BY <4>2, <4>3, <3>4, <2>2, <1>1
    <3> QED BY <3>1, <3>2, <3>3, <3>4
  <2> QED BY <2>1, <2>2
<1>4. NumbersNow(proc)'
  BY <1>1, <1>3 DEF NumbersNow
<1> QED BY <1>1, <1>4 DEF SoundNow

\* So it is for one that opens a terminal,
LEMMA TtyopenKeeps ==
    ASSUME ProcsInv, NEW p \in ProcEntries, NEW t \in Terminals, ttyopen(p, t)
    PROVE  ProcsInv'
<1>1. SoundNow(proc, ipc) /\ t_pgrp \in [Terminals -> Nat] /\ byNumber \in BOOLEAN
  BY DEF ProcsInv
<1>2. proc[p] \in Processes /\ proc[p].pid \in Nat
  BY <1>1 DEF SoundNow, TableTypes, Processes
<1>3. PICK g : g = IF t_pgrp[t] = 0 THEN proc[p].pid ELSE t_pgrp[t]
  OBVIOUS
<1>4. g \in Nat
  BY <1>1, <1>2, <1>3
<1>5. /\ proc' = [proc EXCEPT ![p].pgrp = g] /\ ipc' = ipc /\ mpid' = mpid
      /\ t_pgrp' = [t_pgrp EXCEPT ![t] = g]
      /\ byNumber' = (byNumber \/ (t_pgrp[t] # 0 /\ Group(g) = {}))
      /\ p # Init1 /\ proc[p].stat = "SRUN" /\ proc[p].pgrp = 0
  BY <1>3, Zenon DEF ttyopen, Joins, Enters
<1>6. \/ byNumber' \/ g = proc[p].pid
      \/ \E q \in ProcEntries : proc[q].stat # "none" /\ proc[q].pgrp = g
  BY <1>3, <1>5 DEF Group, Users1
<1>7. SoundNow(proc, ipc)'
  BY <1>1, <1>4, <1>5, <1>6, GroupChosen
<1>8. t_pgrp' \in [Terminals -> Nat] /\ byNumber' \in BOOLEAN
  BY <1>1, <1>4, <1>5
<1> QED BY <1>5, <1>7, <1>8 DEF ProcsInv

\* and for one that asks for a group.
LEMMA NpgrpKeeps ==
    ASSUME ProcsInv, NEW p \in ProcEntries, NEW n \in Groups, npgrp(p, n)
    PROVE  ProcsInv'
<1>1. SoundNow(proc, ipc) /\ t_pgrp \in [Terminals -> Nat] /\ byNumber \in BOOLEAN
  BY DEF ProcsInv
<1>2. proc[p] \in Processes /\ proc[p].pid \in Nat
  BY <1>1 DEF SoundNow, TableTypes, Processes
<1>3. PICK g : g = IF n = 0 THEN proc[p].pid ELSE n
  OBVIOUS
<1>4. g \in Nat
  BY <1>2, <1>3, ProcsAssumption
<1>5. /\ proc' = [proc EXCEPT ![p].pgrp = g] /\ ipc' = ipc /\ mpid' = mpid
      /\ t_pgrp' = t_pgrp /\ byNumber' = (byNumber \/ n \notin {0, proc[p].pid})
      /\ p # Init1 /\ proc[p].stat = "SRUN"
  BY <1>3, Zenon DEF npgrp, Joins, Enters
<1>6. byNumber' \/ g = proc[p].pid
  BY <1>3, <1>5
<1>7. SoundNow(proc, ipc)'
  BY <1>1, <1>4, <1>5, <1>6, GroupChosen
<1>8. byNumber' \in BOOLEAN
  BY <1>1, <1>5
<1> QED BY <1>1, <1>5, <1>7, <1>8 DEF ProcsInv

\* The table stays sound when a process wants to be traced,
LEMMA TraceMeKeeps ==
    ASSUME SoundNow(proc, ipc), NEW p \in ProcEntries, TraceMe(p)
    PROVE  SoundNow(proc', ipc')
<1> DEFINE y == [proc[p] EXCEPT !.traced = TRUE]
<1>1. proc' = [proc EXCEPT ![p] = y] /\ ipc' = ipc
  BY DEF TraceMe
<1>2. p # Init1 /\ proc[p].stat = "SRUN" /\ proc[p].at = "user"
  BY DEF TraceMe, Enters
<1>3. y \in Processes
  BY EntryFacts, ZenonT(60) DEF Processes
<1>4. /\ y.pid = proc[p].pid /\ y.ppid = proc[p].ppid /\ y.pgrp = proc[p].pgrp
      /\ y.stat = proc[p].stat /\ y.at = proc[p].at
  BY EntryFacts DEF Processes
<1> HIDE DEF y
<1>5. OwnRecord(proc, p, y)
  BY <1>2, <1>3, <1>4 DEF OwnRecord
<1> QED BY <1>1, <1>5, Replaced

\* one that chooses what a signal does,
LEMMA SsigKeeps ==
    ASSUME SoundNow(proc, ipc), NEW p \in ProcEntries, NEW n \in Signals,
           NEW a \in {"dfl", "ign", "fun"}, ssig(p, n, a)
    PROVE  SoundNow(proc', ipc')
<1> DEFINE f == [proc[p].act EXCEPT ![n] = a]
           g == proc[p].sig \ {n}
           y == [proc[p] EXCEPT !.act = f, !.sig = g]
<1>1. proc' = [proc EXCEPT ![p] = y] /\ ipc' = ipc
  <2>1. proc' = [proc EXCEPT ![p].act[n] = a, ![p].sig = @ \ {n}] /\ ipc' = ipc
    BY DEF ssig
  <2>2. proc \in [ProcEntries -> Processes]
    BY EntryFacts
  <2> QED BY <2>1, <2>2 DEF Processes
<1>2. p # Init1 /\ proc[p].stat = "SRUN" /\ proc[p].at = "user"
  BY DEF ssig, Enters
<1>3. f \in [Signals -> {"dfl", "ign", "fun"}] /\ g \subseteq Signals
  BY EntryFacts, ProcFields
<1> HIDE DEF f, g
<1>4. y \in Processes
  <2> DEFINE F == [Signals -> {"dfl", "ign", "fun"}]
  <2>1. f \in F /\ g \subseteq Signals /\ proc[p] \in Processes
    BY <1>3, EntryFacts
  <2>2. Processes =
          [stat : Stats, pid : Nat, ppid : Nat, pgrp : Nat, sig : SUBSET Signals,
           traced : BOOLEAN, swted : BOOLEAN, low : BOOLEAN,
           chan : {"none", "ipc", "u", "proc"} \X Nat, at : Places, peer : Nat,
           req : Asked, act : F]
    BY DEF Processes
  <2> HIDE DEF F
  <2> QED BY <2>1, <2>2
<1>5. /\ y.pid = proc[p].pid /\ y.ppid = proc[p].ppid /\ y.pgrp = proc[p].pgrp
      /\ y.stat = proc[p].stat /\ y.at = proc[p].at
  BY EntryFacts DEF Processes
<1> HIDE DEF y
<1>6. OwnRecord(proc, p, y)
  BY <1>2, <1>4, <1>5 DEF OwnRecord
<1> QED BY <1>1, <1>6, Replaced

\* one that pauses: it sleeps with no signal, or not at all,
LEMMA PauseKeeps ==
    ASSUME SoundNow(proc, ipc), NEW p \in ProcEntries, pause(p)
    PROVE  SoundNow(proc', ipc')
<1> DEFINE c == <<"u", 0>>
           x == [proc[p] EXCEPT !.at = "pause"]
           y == Slept(x, c)
<1>1. proc' = [proc EXCEPT ![p] = y] /\ ipc' = ipc
  BY DEF pause
<1>2. proc[p].stat = "SRUN" /\ proc[p].at \in {"user", "pause"}
  BY DEF pause, Enters
<1>3. p # Init1
  <2> SUFFICES ASSUME p = Init1 PROVE FALSE
    OBVIOUS
  <2>1. proc[p].at = "pause"
    BY DEF pause, Enters
  <2> QED BY <2>1, EntryFacts DEF Quiet
<1>4. x \in Processes
  <2>1. proc[p] \in Processes /\ "pause" \in Places
    BY EntryFacts DEF Places
  <2> QED BY <2>1 DEF Processes
<1>5. x.pid = proc[p].pid /\ x.ppid = proc[p].ppid /\ x.pgrp = proc[p].pgrp
  BY EntryFacts DEF Processes
<1>6. x.stat = proc[p].stat /\ x.at = "pause"
  BY EntryFacts DEF Processes
<1>7. c \in {"none", "ipc", "u", "proc"} \X Nat
  OBVIOUS
<1> HIDE DEF c, x
<1>8. SleepsOrGivesUp(x, y, c)
  BY <1>4, <1>7, SleptFields
<1> HIDE DEF y
<1>9. OwnRecord(proc, p, y)
  BY <1>2, <1>3, <1>5, <1>6, <1>8 DEF OwnRecord, SleepsOrGivesUp, SameOne
<1> QED BY <1>1, <1>9, Replaced

\* and one whose sleep a signal ends.
LEMMA GivesUpKeeps ==
    ASSUME SoundNow(proc, ipc), NEW p \in ProcEntries, GivesUp(p)
    PROVE  SoundNow(proc', ipc')
<1> DEFINE x == issig(proc[p])
           y == [x EXCEPT !.at = "out"]
<1>1. proc' = [proc EXCEPT ![p] = y] /\ ipc' = ipc
  BY DEF GivesUp
<1>2. proc[p].stat = "SRUN" /\ proc[p].at \in {"wait", "pause"} /\ Deliverable(proc[p]) # {}
  BY DEF GivesUp, Enters, Interrupted
<1>3. p # Init1
  BY <1>2, EntryFacts DEF Quiet, Deliverable
<1>4. x \in Processes /\ SameOne(proc[p], x) /\ x.stat = proc[p].stat
  BY EntryFacts, IssigFields
<1> HIDE DEF x
<1>5. y \in Processes
  BY <1>4 DEF Processes, Places
<1>6. y.pid = x.pid /\ y.ppid = x.ppid /\ y.pgrp = x.pgrp /\ y.stat = x.stat /\ y.at = "out"
  BY <1>4 DEF Processes
<1> HIDE DEF y
<1>7. OwnRecord(proc, p, y)
  BY <1>2, <1>3, <1>4, <1>5, <1>6 DEF OwnRecord, SameOne
<1> QED BY <1>1, <1>7, Replaced

\* On its way to user mode it stops, exits, or goes on.
LEMMA PsigKeeps ==
    ASSUME SoundNow(proc, ipc), NEW p \in ProcEntries, psig(p)
    PROVE  SoundNow(proc', ipc')
<1> DEFINE x == issig(proc[p])
<1>1. /\ proc' = IF x.sig = {} THEN [proc EXCEPT ![p] = [x EXCEPT !.at = "user"]]
                 ELSE IF x.traced THEN stop([proc EXCEPT ![p] = x], p)
                 ELSE [proc EXCEPT ![p] = Acts(x)]
      /\ ipc' = ipc
  BY DEF psig
<1>2. proc[p].stat = "SRUN" /\ proc[p].at \in {"out", "user"}
  BY DEF psig, Enters
<1>3. p # Init1
  <2>1. proc[p].at = "out" \/ proc[p].sig # {}
    BY DEF psig, Enters
  <2> QED BY <2>1, EntryFacts DEF Quiet
<1>4. /\ x \in Processes /\ SameOne(proc[p], x) /\ x.stat = proc[p].stat
      /\ x.at = proc[p].at
  BY EntryFacts, IssigFields
<1>5. proc \in [ProcEntries -> Processes]
  BY EntryFacts
<1> HIDE DEF x
<1>6. CASE x.sig = {}
  <2> DEFINE y == [x EXCEPT !.at = "user"]
  <2>1. y \in Processes
    BY <1>4 DEF Processes, Places
  <2>2. y.pid = x.pid /\ y.ppid = x.ppid /\ y.pgrp = x.pgrp /\ y.stat = x.stat /\ y.at = "user"
    BY <1>4 DEF Processes
  <2>3. proc' = [proc EXCEPT ![p] = y] /\ ipc' = ipc
    BY <1>1, <1>6
  <2> HIDE DEF y
  <2>4. OwnRecord(proc, p, y)
    BY <1>2, <1>3, <1>4, <2>1, <2>2 DEF OwnRecord, SameOne
  <2> QED BY <2>3, <2>4, Replaced
<1>7. CASE x.sig # {} /\ x.traced
  <2> DEFINE X == [proc EXCEPT ![p] = x]
  <2>1. proc' = stop(X, p) /\ ipc' = ipc
    BY <1>1, <1>7
  <2>2. /\ X \in [ProcEntries -> Processes] /\ X[p] = x
        /\ \A s \in ProcEntries \ {p} : X[s] = proc[s]
    BY <1>4, <1>5
  <2> HIDE DEF X
  <2>3. \A s \in ProcEntries \ {p} : LeftAlone(proc[s], X[s])
    BY <2>2 DEF LeftAlone
  <2>4. Stopped(proc, X, stop(X, p), p)
    BY <1>2, <1>3, <1>4, <2>2, <2>3, Stops
  <2>5. Stopped(proc, X, proc', p)
    BY <2>1, <2>4
  <2>6. OwnCalls(proc, proc', p, ipc)
    BY <1>2, <2>5 DEF Stopped, OwnCalls, AboutToAnswer
  <2> QED BY <2>1, <2>5, <2>6, OwnStep DEF Stopped
<1>8. CASE x.sig # {} /\ ~x.traced
  <2>1. proc' = [proc EXCEPT ![p] = Acts(x)] /\ ipc' = ipc
    BY <1>1, <1>8
  <2>2. OwnRecord(proc, p, Acts(x))
    BY <1>2, <1>3, <1>4, ActsFields DEF OwnRecord, SameOne
  <2> QED BY <2>1, <2>2, Replaced
<1> QED BY <1>6, <1>7, <1>8

\* wait returns: p goes on in user mode.
LEMMA WaitReturnsKeeps ==
    ASSUME NEW P, NEW i, SoundNow(P, i), NEW p \in ProcEntries,
           P[p].stat = "SRUN", P[p].at \in {"user", "wait"}
    PROVE  SoundNow(WaitReturns(P, p), i)
<1> DEFINE y == [P[p] EXCEPT !.at = "user"]
<1>1. P \in [ProcEntries -> Processes] /\ P[p] \in Processes /\ (p = Init1 => Quiet(P[p]))
  BY DEF SoundNow, TableTypes
<1>2. WaitReturns(P, p) = [P EXCEPT ![p] = y]
  BY <1>1 DEF WaitReturns
<1>3. y \in Processes
  BY <1>1 DEF Processes, Places
<1>4. y.pid = P[p].pid /\ y.ppid = P[p].ppid /\ y.pgrp = P[p].pgrp /\ y.stat = P[p].stat
  BY <1>1 DEF Processes
<1>5. y.at = "user" /\ y.sig = P[p].sig /\ y.traced = P[p].traced
  BY <1>1 DEF Processes
<1> HIDE DEF y
<1>6. p = Init1 => Quiet(y)
  BY <1>1, <1>4, <1>5 DEF Quiet
<1>7. OwnRecord(P, p, y)
  BY <1>3, <1>4, <1>5, <1>6 DEF OwnRecord
<1>8. SoundNow([P EXCEPT ![p] = y], i)
  BY <1>7, Replaced
<1> QED BY <1>2, <1>8, Zenon

\* A child is reported once.
LEMMA ReportKeeps ==
    ASSUME NEW P, NEW i, SoundNow(P, i), NEW p \in ProcEntries, NEW q \in ProcEntries,
           P[p].stat = "SRUN", P[p].at \in {"user", "wait"}, P[q].stat = "SSTOP"
    PROVE  SoundNow([P EXCEPT ![q].swted = TRUE], i)
<1> DEFINE y == [P[q] EXCEPT !.swted = TRUE]
<1>1. /\ P \in [ProcEntries -> Processes] /\ P[q] \in Processes
      /\ p = Init1 => Quiet(P[p])
      /\ Placed(P[p]) /\ p # q
  BY DEF SoundNow, TableTypes
<1>2. PICK Q : Q = [P EXCEPT ![q].swted = TRUE]
  OBVIOUS
<1>3. Q = [P EXCEPT ![q] = y]
  BY <1>1, <1>2
<1>4. y \in Processes
  BY <1>1 DEF Processes
<1>5. LeftAlone(P[q], y)
  BY <1>1 DEF LeftAlone, Processes
<1> HIDE DEF y
<1>6. /\ Q \in [ProcEntries -> Processes] /\ Q[q] = y
      /\ \A s \in ProcEntries \ {q} : Q[s] = P[s]
  BY <1>1, <1>3, <1>4
<1>7. OwnChange(P, Q, p)
  <2>1. \A s \in ProcEntries \ {q} : LeftAlone(P[s], Q[s])
    BY <1>6 DEF LeftAlone
  <2>2. Q[p] = P[p]
    BY <1>1, <1>6
  <2> QED BY <1>1, <1>5, <1>6, <2>1, <2>2 DEF OwnChange
<1>8. OwnSleep(P, Q, p)
  BY <1>1, <1>6 DEF OwnSleep, News
<1>9. OwnCalls(P, Q, p, i)
  BY <1>1, <1>6 DEF OwnCalls, AboutToAnswer
<1> QED BY <1>2, <1>6, <1>7, <1>8, <1>9, OwnStep

\* Every way out of wait, and the sleep, keep the table sound.
LEMMA WaitKeeps ==
    ASSUME SoundNow(proc, ipc), NEW p \in ProcEntries, wait(p)
    PROVE  SoundNow(proc', ipc')
<1>1. proc[p].stat = "SRUN" /\ proc[p].at \in {"user", "wait"} /\ ipc' = ipc
  BY DEF wait, Enters
<1>2. proc \in [ProcEntries -> Processes] /\ proc[p] \in Processes /\ Placed(proc[p])
  BY EntryFacts
<1>3. ASSUME NEW q \in Children(p), Buried(q),
             proc' = WaitReturns([proc EXCEPT ![q] = NoProc], p)
      PROVE  SoundNow(proc', ipc')
  <2>1. PICK P : P = [proc EXCEPT ![q] = NoProc]
    OBVIOUS
  <2>2. q \in ProcEntries /\ Kid(proc, p, q) /\ proc[q].stat = "SZOMB"
    BY <1>3, ChildrenAreKids DEF Buried
  <2>3. SoundNow(P, ipc)
    BY <1>1, <2>1, <2>2, BuryStep
  <2>4. p # q /\ P[p] = proc[p]
    BY <1>1, <1>2, <2>1, <2>2
  <2>5. SoundNow(WaitReturns(P, p), ipc)
    BY <1>1, <2>3, <2>4, WaitReturnsKeeps
  <2> QED BY <1>1, <1>3, <2>1, <2>5
<1>4. ASSUME NEW q \in Children(p), Reports(q),
             proc' = WaitReturns([proc EXCEPT ![q].swted = TRUE], p)
      PROVE  SoundNow(proc', ipc')
  <2>1. PICK P : P = [proc EXCEPT ![q].swted = TRUE]
    OBVIOUS
  <2>2. q \in ProcEntries /\ proc[q].stat = "SSTOP"
    BY <1>4, ChildrenAreKids DEF Reports
  <2>3. SoundNow(P, ipc)
    BY <1>1, <2>1, <2>2, ReportKeeps
  <2>4. p # q /\ P[p] = proc[p]
    BY <1>1, <1>2, <2>1, <2>2
  <2>5. SoundNow(WaitReturns(P, p), ipc)
    BY <1>1, <2>3, <2>4, WaitReturnsKeeps
  <2> QED BY <1>1, <1>4, <2>1, <2>5
<1>5. ASSUME \A q \in Children(p) : ~Buried(q) /\ ~Reports(q), Children(p) # {},
             proc' = [proc EXCEPT ![p] = Slept([@ EXCEPT !.at = "wait"], ChanOf(@.pid))]
      PROVE  SoundNow(proc', ipc')
  <2> DEFINE c == ChanOf(proc[p].pid)
             x == [proc[p] EXCEPT !.at = "wait"]
             y == Slept(x, c)
  <2>1. proc' = [proc EXCEPT ![p] = y]
    BY <1>2, <1>5
  <2>2. x \in Processes
    <3>1. "wait" \in Places
      BY DEF Places
    <3> QED BY <1>2, <3>1 DEF Processes
  <2>3. x.pid = proc[p].pid /\ x.ppid = proc[p].ppid /\ x.pgrp = proc[p].pgrp
    BY <1>2 DEF Processes
  <2>4. /\ x.stat = proc[p].stat /\ x.at = "wait" /\ x.sig = proc[p].sig
        /\ x.traced = proc[p].traced
    BY <1>2 DEF Processes
  <2>5. c \in {"none", "ipc", "u", "proc"} \X Nat /\ c = ChanOf(proc[p].pid)
    BY <1>2 DEF ChanOf, Processes
  <2> HIDE DEF c, x
  <2>6. SleepsOrGivesUp(x, y, c)
    BY <2>2, <2>5, SleptFields
  <2> HIDE DEF y
  <2>7. /\ \E q \in ProcEntries : Kid(proc, p, q)
        /\ \A q \in ProcEntries : Kid(proc, p, q) => ~News(proc[q])
    BY <1>5, ChildrenAreKids DEF Buried, Reports, News
  <2>8. p = Init1 => Quiet(y)
    <3> SUFFICES ASSUME p = Init1 PROVE Quiet(y)
      OBVIOUS
    <3>1. Quiet(proc[p])
      BY EntryFacts
    <3>2. Deliverable(x) = {}
      BY <2>4, <3>1 DEF Quiet, Deliverable
    <3> QED BY <2>3, <2>4, <2>6, <3>1, <3>2 DEF Quiet, SleepsOrGivesUp, SameOne
  <2>9. OwnRecord(proc, p, y)
    BY <1>1, <2>3, <2>4, <2>5, <2>6, <2>7, <2>8 DEF OwnRecord, SleepsOrGivesUp, SameOne
  <2> QED BY <1>1, <2>1, <2>9, Replaced
<1>6. ASSUME proc' = WaitReturns(proc, p)
      PROVE  SoundNow(proc', ipc')
  BY <1>1, <1>6, WaitReturnsKeeps
<1> QED BY <1>3, <1>4, <1>5, <1>6 DEF wait

\* A child whose parent is now process 1.
Reparented(x, y) ==
    /\ y.ppid = 1 /\ y.pid = x.pid /\ y.pgrp = x.pgrp /\ y.sig = x.sig
    /\ y.traced = x.traced /\ y.low = x.low /\ y.at = x.at /\ y.peer = x.peer
    /\ y.req = x.req /\ y.act = x.act /\ y.stat = x.stat /\ y.chan = x.chan

\* exit wakes process 1 for the children it is given, lets the stopped ones run, and wakes
\* the parent.
LEMMA ExitKeepsSound ==
    ASSUME SoundNow(proc, ipc), NEW p \in ProcEntries, exit(p)
    PROVE  SoundNow(proc', ipc')
<1>1. PICK O : O = [s \in ProcEntries |->
                      IF s \in Children(p) THEN [proc[s] EXCEPT !.ppid = 1] ELSE proc[s]]
  OBVIOUS
<1>2. PICK W : W = IF Children(p) = {} THEN O ELSE Wakeup(O, ChanOf(1))
  OBVIOUS
<1>3. PICK R : R = Awake(W, StoppedChildren(p))
  OBVIOUS
<1>4. PICK Z : Z = [R EXCEPT ![p].stat = "SZOMB", ![p].at = "none"]
  OBVIOUS
<1>5. proc' = Wakeup(Z, ChanOf(proc[p].ppid)) /\ ipc' = ipc
  BY <1>1, <1>2, <1>3, <1>4 DEF exit
<1>6. proc[p].stat = "SRUN" /\ proc[p].at = "exit"
  BY DEF exit, Enters
<1>7. /\ proc \in [ProcEntries -> Processes]
      /\ \A s \in ProcEntries : Placed(proc[s])
      /\ Init1 \in ProcEntries /\ Quiet(proc[Init1]) /\ p # Init1
  BY <1>6, ProcsAssumption DEF SoundNow, TableTypes, Init1, Quiet
<1>8. \A q : q \in Children(p) <=> q \in ProcEntries /\ Kid(proc, p, q)
  BY ChildrenAreKids
<1>9. ~Kid(proc, p, Init1)
  BY <1>6, <1>7 DEF Kid, Quiet, Placed
<1>10. /\ O \in [ProcEntries -> Processes]
       /\ \A s \in ProcEntries : IF Kid(proc, p, s) THEN Reparented(proc[s], O[s])
                                 ELSE O[s] = proc[s]
  <2>1. ASSUME NEW x \in Processes
        PROVE  [x EXCEPT !.ppid = 1] \in Processes /\ Reparented(x, [x EXCEPT !.ppid = 1])
    BY DEF Processes, Reparented
  <2>2. ASSUME NEW s \in ProcEntries
        PROVE  /\ O[s] \in Processes
               /\ IF Kid(proc, p, s) THEN Reparented(proc[s], O[s]) ELSE O[s] = proc[s]
    <3>1. proc[s] \in Processes
      BY <1>7
    <3>2. CASE Kid(proc, p, s)
      <4>1. O[s] = [proc[s] EXCEPT !.ppid = 1]
        BY <3>2, <1>1, <1>8
      <4> QED BY <3>1, <3>2, <4>1, <2>1, Zenon
    <3>3. CASE ~Kid(proc, p, s)
      BY <3>1, <3>3, <1>1, <1>8
    <3> QED BY <3>2, <3>3
  <2>3. O = [s \in ProcEntries |-> O[s]]
    BY <1>1
  <2>4. O \in [ProcEntries -> Processes]
    BY <2>2, <2>3
  <2> QED BY <2>2, <2>4
<1>11. /\ W \in [ProcEntries -> Processes]
       /\ \A s \in ProcEntries : /\ LeftAlone(O[s], W[s])
                                 /\ O[s].stat # "SSLEEP" => W[s] = O[s]
       /\ (\E s \in ProcEntries : Kid(proc, p, s)) =>
            ~(W[Init1].stat = "SSLEEP" /\ O[Init1].chan = ChanOf(1))
  <2>1. CASE Children(p) = {}
    BY <2>1, <1>2, <1>8, <1>10 DEF LeftAlone
  <2>2. CASE Children(p) # {}
    <3>1. WokenOn(O, W, ChanOf(1))
      BY <2>2, <1>2, <1>10, WakeupLeaves
    <3> QED BY <3>1, <1>7 DEF WokenOn
  <2> QED BY <2>1, <2>2
<1>12. Runs(W, R, StoppedChildren(p))
  BY <1>3, <1>11, Woken
<1>13. \A s \in ProcEntries :
         s \in StoppedChildren(p) <=> Kid(proc, p, s) /\ proc[s].stat = "SSTOP"
  BY <1>8 DEF StoppedChildren
<1>14. R[p] = O[p]
  <2>1. O[p].stat = "SRUN"
    BY <1>6, <1>10 DEF Reparented
  <2>2. W[p] = O[p]
    BY <2>1, <1>11
  <2>3. p \notin StoppedChildren(p)
    BY <1>6, <1>13
  <2> QED BY <2>2, <2>3, <1>12 DEF Runs
<1>15. /\ Z \in [ProcEntries -> Processes]
       /\ \A s \in ProcEntries \ {p} : Z[s] = R[s]
       /\ Z[p].stat = "SZOMB" /\ Z[p].at = "none"
       /\ Z[p].pid = O[p].pid /\ Z[p].pgrp = O[p].pgrp /\ Z[p].ppid = O[p].ppid
  <2> DEFINE z == [O[p] EXCEPT !.stat = "SZOMB", !.at = "none"]
  <2>1. R \in [ProcEntries -> Processes] /\ O[p] \in Processes
    BY <1>10, <1>12 DEF Runs
  <2>2. Z = [R EXCEPT ![p] = z]
    BY <2>1, <1>4, <1>14
  <2>3. "SZOMB" \in Stats /\ "none" \in Places
    BY DEF Stats, Places
  <2>4. z \in Processes
    BY <2>1, <2>3 DEF Processes
  <2>5. /\ z.stat = "SZOMB" /\ z.at = "none"
        /\ z.pid = O[p].pid /\ z.pgrp = O[p].pgrp /\ z.ppid = O[p].ppid
    BY <2>1 DEF Processes
  <2> HIDE DEF z
  <2> QED BY <2>1, <2>2, <2>4, <2>5
<1>16. WokenOn(Z, proc', ChanOf(proc[p].ppid))
  BY <1>5, <1>15, WakeupLeaves
<1>17. proc'[p] = Z[p]
  BY <1>15, <1>16 DEF WokenOn
<1>18. \A s \in ProcEntries \ {p} :
         IF Kid(proc, p, s) /\ proc[s].stat = "SSTOP"
         THEN Reparented(proc[s], O[s]) /\ MadeToRun(O[s], proc'[s])
         ELSE LeftAlone(O[s], W[s]) /\ LeftAlone(W[s], proc'[s]) /\ Z[s] = W[s]
  <2> TAKE s \in ProcEntries \ {p}
  <2>1. CASE Kid(proc, p, s) /\ proc[s].stat = "SSTOP"
    <3>1. Reparented(proc[s], O[s])
      BY <2>1, <1>10
    <3>2. W[s] = O[s]
      BY <2>1, <3>1, <1>11 DEF Reparented
    <3>3. MadeToRun(O[s], Z[s])
      BY <2>1, <3>2, <1>12, <1>13, <1>15 DEF Runs
    <3>4. proc'[s] = Z[s]
      BY <3>3, <1>16 DEF MadeToRun, WokenOn
    <3> QED BY <2>1, <3>1, <3>3, <3>4
  <2>2. CASE ~(Kid(proc, p, s) /\ proc[s].stat = "SSTOP")
    <3>1. Z[s] = W[s]
      BY <2>2, <1>12, <1>13, <1>15 DEF Runs
    <3>2. LeftAlone(O[s], W[s]) /\ LeftAlone(Z[s], proc'[s])
      BY <1>11, <1>16 DEF WokenOn
    <3> QED BY <2>2, <3>1, <3>2
  <2> QED BY <2>1, <2>2
<1>19. \A s \in ProcEntries \ {p} :
         IF Kid(proc, p, s) THEN Adopted(proc[s], proc'[s]) ELSE LeftAlone(proc[s], proc'[s])
  <2> TAKE s \in ProcEntries \ {p}
  <2>1. CASE Kid(proc, p, s) /\ proc[s].stat = "SSTOP"
    <3>1. Reparented(proc[s], O[s]) /\ MadeToRun(O[s], proc'[s])
      BY <2>1, <1>18
    <3>2. Adopted(proc[s], proc'[s])
      BY <2>1, <3>1 DEF Reparented, MadeToRun, Adopted
    <3> QED BY <2>1, <3>2
  <2>2. CASE Kid(proc, p, s) /\ proc[s].stat # "SSTOP"
    <3>1. Reparented(proc[s], O[s])
      BY <2>2, <1>10
    <3>2. LeftAlone(O[s], proc'[s])
      BY <2>2, <1>18, AloneTwice
    <3>3. Adopted(proc[s], proc'[s])
      BY <2>2, <3>1, <3>2 DEF Reparented, LeftAlone, Adopted
    <3> QED BY <2>2, <3>3
  <2>3. CASE ~Kid(proc, p, s)
    <3>1. O[s] = proc[s] /\ LeftAlone(O[s], proc'[s])
      BY <2>3, <1>10, <1>18, AloneTwice
    <3> QED BY <2>3, <3>1
  <2> QED BY <2>1, <2>2, <2>3
<1>20. ASSUME NEW s \in ProcEntries \ {p}, proc'[s].stat = "SSLEEP", proc'[s].at = "wait"
       PROVE  /\ W[s].stat = "SSLEEP" /\ Z[s] = W[s]
              /\ O[s].chan = ChanOf(proc[s].pid) /\ Z[s].chan = O[s].chan
              /\ proc'[s].pid = proc[s].pid
  <2>1. ~(Kid(proc, p, s) /\ proc[s].stat = "SSTOP")
    BY <1>18, <1>20 DEF MadeToRun
  <2>2. LeftAlone(O[s], W[s]) /\ LeftAlone(W[s], proc'[s]) /\ Z[s] = W[s]
    BY <2>1, <1>18
  <2>3. W[s].stat = "SSLEEP" /\ O[s].stat = "SSLEEP" /\ O[s].at = "wait" /\ Z[s].chan = O[s].chan
    BY <2>2, <1>20 DEF LeftAlone
  <2>4. /\ proc[s].stat = "SSLEEP" /\ proc[s].at = "wait" /\ O[s].chan = proc[s].chan
        /\ O[s].pid = proc[s].pid
    BY <2>3, <1>10 DEF Reparented
  <2>5. proc[s].chan = ChanOf(proc[s].pid)
    BY <2>4, <1>7 DEF Placed
  <2> QED BY <2>2, <2>3, <2>4, <2>5 DEF LeftAlone
<1>21. (\E s \in ProcEntries : Kid(proc, p, s)) =>
         ~(proc'[Init1].stat = "SSLEEP" /\ proc'[Init1].at = "wait")
  BY <1>7, <1>11, <1>20 DEF Quiet
<1>22. \A s \in ProcEntries :
         proc'[s].stat = "SSLEEP" /\ proc'[s].at = "wait" => proc'[s].pid # proc[p].ppid
  <2> SUFFICES ASSUME NEW s \in ProcEntries, proc'[s].stat = "SSLEEP", proc'[s].at = "wait",
                      proc'[s].pid = proc[p].ppid
               PROVE  FALSE
    OBVIOUS
  <2>1. s # p
    BY <1>15, <1>17
  <2> QED BY <2>1, <1>16, <1>20 DEF WokenOn
<1>23. /\ proc'[p].stat = "SZOMB" /\ proc'[p].at = "none"
       /\ proc'[p].pid = proc[p].pid /\ proc'[p].pgrp = proc[p].pgrp
       /\ proc'[p].ppid = IF Kid(proc, p, p) THEN 1 ELSE proc[p].ppid
  BY <1>10, <1>15, <1>17 DEF Reparented
<1>24. Exited(proc, proc', p)
  BY <1>6, <1>16, <1>19, <1>21, <1>22, <1>23 DEF Exited, WokenOn
<1> QED BY <1>5, <1>24, ExitedStep

\* fork gives the child a new number and the first free entry.
LEMMA ForkKeeps ==
    ASSUME SoundNow(proc, ipc), mpid \in 1..MaxPid - 1, NEW p \in ProcEntries, fork(p)
    PROVE  SoundNow(proc', ipc') /\ mpid' \in 1..MaxPid - 1
<1> DEFINE q == Min(Free)
           y == [Newborn(NextPid, proc[p].pid, proc[p].pgrp) EXCEPT !.act = proc[p].act]
<1>1. /\ proc' = [proc EXCEPT ![q] = y] /\ ipc' = ipc /\ mpid' = NextPid /\ Free # {}
      /\ proc[p].stat = "SRUN" /\ proc[p].at = "user"
  BY DEF fork, Enters
<1>2. proc \in [ProcEntries -> Processes] /\ proc[p] \in Processes
  BY EntryFacts
<1>3. q \in ProcEntries /\ proc[q].stat = "none"
  <2>1. Free \in SUBSET Nat /\ Free # {}
    BY <1>1, ProcsAssumption DEF Free
  <2>2. q \in Free
    BY <2>1, MinOfNumbers
  <2> QED BY <2>2 DEF Free
<1>4. /\ NextPid \in 1..MaxPid - 1
      /\ \A s \in ProcEntries : NextPid # proc[s].pid /\ NextPid # proc[s].pgrp
  BY <1>2, NextPidIsNew
<1>5. PICK n \in 1..MaxPid - 1 : n = NextPid
  BY <1>4
<1>6. Born(proc, y, p, n)
  <2> DEFINE F == [Signals -> {"dfl", "ign", "fun"}]
             f == proc[p].act
             a == proc[p].pid
             g == proc[p].pgrp
             w == Newborn(n, a, g)
  <2>1. f \in F /\ a \in Nat /\ g \in Nat /\ n \in Nat
    BY <1>2, ProcFields
  <2>2. /\ w \in Processes /\ w.stat = "SRUN" /\ w.at = "user"
        /\ w.pid = n /\ w.ppid = a /\ w.pgrp = g
    <3> HIDE DEF a, g
    <3>1. NoProc \in Processes
      BY DEF NoProc, Processes, Stats, Places, Asked
    <3>2. "SRUN" \in Stats /\ "user" \in Places
      BY DEF Stats, Places
    <3> QED BY <2>1, <3>1, <3>2 DEF Newborn, Processes
  <2>3. y = [w EXCEPT !.act = f]
    BY <1>5
  <2>4. Processes =
          [stat : Stats, pid : Nat, ppid : Nat, pgrp : Nat, sig : SUBSET Signals,
           traced : BOOLEAN, swted : BOOLEAN, low : BOOLEAN,
           chan : {"none", "ipc", "u", "proc"} \X Nat, at : Places, peer : Nat,
           req : Asked, act : F]
    BY DEF Processes
  <2>5. a = proc[p].pid /\ g = proc[p].pgrp
    OBVIOUS
  <2> HIDE DEF F, f, a, g, w, y
  <2>6. /\ y \in Processes /\ y.stat = "SRUN" /\ y.at = "user"
        /\ y.pid = n /\ y.ppid = a /\ y.pgrp = g
    BY <2>1, <2>2, <2>3, <2>4
  <2> QED BY <2>5, <2>6, <1>4, <1>5 DEF Born
<1> HIDE DEF q, y
<1>7. SoundNow([proc EXCEPT ![q] = y], ipc)
  BY <1>1, <1>3, <1>6, ForkStep
<1> QED BY <1>1, <1>4, <1>7

\* A signal is sent to others than process 1.
LEMMA SendsKeeps ==
    ASSUME SoundNow(proc, ipc), NEW S \in SUBSET Users1, NEW n \in Signals, Sends(S, n)
    PROVE  SoundNow(proc', ipc')
<1>1. PICK M : M = [s \in ProcEntries |->
                      IF s \in S THEN [proc[s] EXCEPT !.sig = @ \cup {n}] ELSE proc[s]]
  OBVIOUS
<1>2. proc' = Awake(M, Disturbed(proc, S)) /\ ipc' = ipc
  BY <1>1 DEF Sends, psignal
<1>3. proc \in [ProcEntries -> Processes] /\ Init1 \notin S
  BY DEF SoundNow, TableTypes, Users1
<1>4. ASSUME NEW x \in Processes
      PROVE  LET y == [x EXCEPT !.sig = @ \cup {n}]
             IN  /\ y \in Processes
                 /\ y.pid = x.pid /\ y.ppid = x.ppid /\ y.pgrp = x.pgrp
                 /\ y.at = x.at /\ y.peer = x.peer /\ y.req = x.req /\ y.swted = x.swted
                 /\ y.low = x.low /\ y.stat = x.stat /\ y.chan = x.chan
  <2> DEFINE g == x.sig \cup {n}
             y == [x EXCEPT !.sig = g]
  <2>1. g \in SUBSET Signals
    BY ProcFields
  <2> HIDE DEF g
  <2>2. y \in Processes
    BY <2>1 DEF Processes
  <2>3. /\ y.pid = x.pid /\ y.ppid = x.ppid /\ y.pgrp = x.pgrp
        /\ y.at = x.at /\ y.peer = x.peer /\ y.req = x.req
    BY DEF Processes
  <2>4. y.swted = x.swted /\ y.low = x.low /\ y.stat = x.stat /\ y.chan = x.chan
    BY DEF Processes
  <2>5. y = [x EXCEPT !.sig = @ \cup {n}]
    BY DEF g
  <2> HIDE DEF y
  <2> QED BY <2>2, <2>3, <2>4, <2>5, Zenon
<1>5. \A s \in ProcEntries :
        /\ M[s] \in Processes
        /\ s \notin S => M[s] = proc[s]
        /\ s \in S => /\ M[s].pid = proc[s].pid /\ M[s].ppid = proc[s].ppid
                      /\ M[s].pgrp = proc[s].pgrp /\ M[s].at = proc[s].at
                      /\ M[s].peer = proc[s].peer /\ M[s].req = proc[s].req
                      /\ M[s].swted = proc[s].swted /\ M[s].low = proc[s].low
                      /\ M[s].stat = proc[s].stat /\ M[s].chan = proc[s].chan
  <2> TAKE s \in ProcEntries
  <2>1. proc[s] \in Processes
    BY <1>3
  <2>2. CASE s \in S
    <3>1. M[s] = [proc[s] EXCEPT !.sig = @ \cup {n}]
      BY <2>2, <1>1
    <3> QED BY <2>1, <2>2, <3>1, <1>4, ZenonT(60)
  <2>3. CASE s \notin S
    BY <2>1, <2>3, <1>1
  <2> QED BY <2>2, <2>3
<1>6. M \in [ProcEntries -> Processes]
  <2>1. M = [s \in ProcEntries |-> M[s]]
    BY <1>1
  <2> QED BY <2>1, <1>5
<1>7. Runs(M, proc', Disturbed(proc, S))
  BY <1>2, <1>6, Woken
<1>8. Signalled(proc, proc', S)
  <2>1. ASSUME NEW s \in ProcEntries
        PROVE  IF s \in S THEN Told(proc[s], proc'[s]) ELSE proc'[s] = proc[s]
    <3>1. CASE s \in Disturbed(proc, S)
      <4>1. s \in S /\ proc[s].stat = "SSLEEP" /\ MadeToRun(M[s], proc'[s])
        BY <3>1, <1>7 DEF Disturbed, Runs
      <4>2. Told(proc[s], proc'[s])
        BY <4>1, <1>5 DEF Told, MadeToRun
      <4> QED BY <4>1, <4>2
    <3>2. CASE s \notin Disturbed(proc, S)
      <4>1. proc'[s] = M[s] /\ (s \in S => ~(proc[s].stat = "SSLEEP" /\ proc[s].low))
        BY <3>2, <1>7 DEF Disturbed, Runs
      <4> QED BY <4>1, <1>5 DEF Told
    <3> QED BY <3>1, <3>2
  <2> QED BY <2>1, <1>3, <1>7 DEF Signalled, Runs
<1> QED BY <1>2, <1>8, SignalStep

\* kill sends to one process or to a group,
LEMMA KillKeeps ==
    ASSUME SoundNow(proc, ipc), NEW p \in ProcEntries, NEW n \in Signals, kill(p, n)
    PROVE  SoundNow(proc', ipc') /\ mpid' = mpid
<1>1. PICK S \in SUBSET Users1 : Sends(S, n)
  BY DEF kill, Group
<1>2. SoundNow(proc', ipc')
  BY <1>1, SendsKeeps
<1>3. mpid' = mpid
  BY <1>1 DEF Sends
<1> QED BY <1>2, <1>3

\* and a terminal to a group.
LEMMA SignalKeeps ==
    ASSUME SoundNow(proc, ipc), NEW n \in Signals, signal(n)
    PROVE  SoundNow(proc', ipc') /\ mpid' = mpid
<1>1. PICK S \in SUBSET Users1 : Sends(S, n)
  BY DEF signal, Group
<1>2. SoundNow(proc', ipc')
  BY <1>1, SendsKeeps
<1>3. mpid' = mpid
  BY <1>1 DEF Sends
<1> QED BY <1>2, <1>3

\* A process that asks or waits to ask sleeps below PZERO.
Asker(x, y, where, n, r) ==
    /\ y \in Processes /\ SameOne(x, y) /\ y.stat = "SSLEEP" /\ y.at = where
    /\ ~y.low /\ y.chan = Ipc /\ y.peer = n /\ y.req = r

\* It stays who it is.
LEMMA AskerFields ==
    ASSUME NEW x \in Processes, NEW where \in {"asked", "asks"}, NEW n \in Nat, NEW r \in Asked
    PROVE  Asker(x, SleptHigh([x EXCEPT !.at = where, !.peer = n, !.req = r], Ipc), where, n, r)
<1> DEFINE w == [x EXCEPT !.at = where, !.peer = n, !.req = r]
           y == SleptHigh(w, Ipc)
<1>1. where \in Places /\ "SSLEEP" \in Stats
  BY DEF Places, Stats
<1>2. Ipc \in {"none", "ipc", "u", "proc"} \X Nat
  BY DEF Ipc
<1>3. w \in Processes
  BY <1>1 DEF Processes
<1>4. /\ w.pid = x.pid /\ w.ppid = x.ppid /\ w.pgrp = x.pgrp
      /\ w.at = where /\ w.peer = n /\ w.req = r
  BY DEF Processes
<1> HIDE DEF w
<1>5. y = [w EXCEPT !.stat = "SSLEEP", !.chan = Ipc, !.low = FALSE]
  BY DEF SleptHigh
<1>6. y \in Processes
  <2> DEFINE F == {"none", "ipc", "u", "proc"} \X Nat
             c == Ipc
  <2>1. c \in F
    BY <1>2
  <2>2. Processes =
          [stat : Stats, pid : Nat, ppid : Nat, pgrp : Nat, sig : SUBSET Signals,
           traced : BOOLEAN, swted : BOOLEAN, low : BOOLEAN,
           chan : F, at : Places, peer : Nat,
           req : Asked, act : [Signals -> {"dfl", "ign", "fun"}]]
    BY DEF Processes
  <2>3. y = [w EXCEPT !.stat = "SSLEEP", !.chan = c, !.low = FALSE]
    BY <1>5
  <2> HIDE DEF F, c, y
  <2> QED BY <1>1, <1>3, <2>1, <2>2, <2>3
<1>7. /\ y.pid = w.pid /\ y.ppid = w.ppid /\ y.pgrp = w.pgrp
      /\ y.at = w.at /\ y.peer = w.peer /\ y.req = w.req
  BY <1>3, <1>5 DEF Processes
<1>8. y.stat = "SSLEEP" /\ y.chan = Ipc /\ ~y.low
  BY <1>3, <1>5 DEF Processes
<1>9. Asker(x, y, where, n, r)
  <2> HIDE DEF y
  <2> QED BY <1>4, <1>6, <1>7, <1>8 DEF SameOne, Asker
<1> QED BY <1>9, Zenon DEF w

\* A tracer that finds the lock free lets the child go on.
LEMMA AsksKeeps ==
    ASSUME SoundNow(proc, ipc), ipc.lock = 0, NEW p \in ProcEntries, NEW q \in ProcEntries,
           p # Init1, proc[p].stat = "SRUN", proc[q].stat = "SSTOP", Kid(proc, p, q),
           NEW r \in Requests, Asks(p, q, r)
    PROVE  SoundNow(proc', ipc')
<1> DEFINE x == SleptHigh([proc[p] EXCEPT !.at = "asked", !.peer = 0, !.req = NoRequest.req], Ipc)
           y == [proc[q] EXCEPT !.swted = FALSE]
<1>1. PICK X : X = [proc EXCEPT ![q].swted = FALSE, ![p] = SleptHigh(
                        [@ EXCEPT !.at = "asked", !.peer = 0, !.req = NoRequest.req], Ipc)]
  OBVIOUS
<1>2. proc' = Awake(X, {q}) /\ ipc' = [lock |-> proc[q].pid, req |-> r]
  BY <1>1 DEF Asks
<1>3. p # q /\ proc \in [ProcEntries -> Processes]
  BY EntryFacts
<1>4. /\ x \in Processes /\ SameOne(proc[p], x) /\ x.stat = "SSLEEP" /\ x.at = "asked"
      /\ ~x.low /\ x.chan = Ipc
  <2>1. NoRequest.req \in Asked
    BY DEF NoRequest, Asked
  <2>2. proc[p] \in Processes
    BY <1>3
  <2>3. Asker(proc[p], x, "asked", 0, NoRequest.req)
    <3>1. "asked" \in {"asked", "asks"} /\ 0 \in Nat
      OBVIOUS
    <3> QED BY <2>1, <2>2, <3>1, AskerFields, Zenon
  <2> HIDE DEF x
  <2> QED BY <2>3 DEF Asker
<1>5. /\ y \in Processes /\ y.stat = "SSTOP" /\ y.at = proc[q].at
      /\ SameOne(proc[q], y)
  <2>1. proc[q] \in Processes
    BY <1>3
  <2> QED BY <2>1 DEF Processes, SameOne
<1>6. X = [[proc EXCEPT ![q] = y] EXCEPT ![p] = x]
  BY <1>1, <1>3
<1> HIDE DEF x, y
<1>7. /\ X \in [ProcEntries -> Processes] /\ X[p] = x /\ X[q] = y
      /\ \A s \in ProcEntries \ {p, q} : X[s] = proc[s]
  BY <1>3, <1>4, <1>5, <1>6
<1>8. Runs(X, proc', {q})
  BY <1>2, <1>7, Woken
<1>9. /\ proc' \in [ProcEntries -> Processes] /\ MadeToRun(y, proc'[q]) /\ proc'[p] = x
      /\ \A s \in ProcEntries \ {p, q} : proc'[s] = proc[s]
  BY <1>3, <1>7, <1>8 DEF Runs
<1>10. proc'[q].stat = "SRUN" /\ proc'[q].at = "stop"
  <2>1. proc[q].at = "stop"
    BY EntryFacts DEF Placed
  <2> QED BY <2>1, <1>5, <1>9 DEF MadeToRun
<1>11. \A s \in ProcEntries : /\ proc'[s].pid = proc[s].pid /\ proc'[s].ppid = proc[s].ppid
                              /\ proc'[s].pgrp = proc[s].pgrp
  BY <1>4, <1>5, <1>9 DEF SameOne, MadeToRun
<1>12. AskedNow(proc, proc', p, q)
  BY <1>4, <1>9, <1>10, <1>11 DEF AskedNow
<1> QED BY <1>2, <1>12, AskStep

\* One that does not sleeps until it may be free.
LEMMA AskKeeps ==
    ASSUME SoundNow(proc, ipc), NEW p \in ProcEntries, NEW q \in ProcEntries,
           p # Init1, proc[p].stat = "SRUN", proc[p].at \in {"user", "asks"},
           proc[q].stat = "SSTOP", Kid(proc, p, q), NEW r \in Requests, Ask(p, q, r)
    PROVE  SoundNow(proc', ipc')
<1>1. CASE ipc.lock = 0
  BY <1>1, AsksKeeps DEF Ask
<1>2. CASE ipc.lock # 0
  <2> DEFINE y == SleptHigh([proc[p] EXCEPT !.at = "asks", !.peer = proc[q].pid, !.req = r], Ipc)
  <2>1. proc' = [proc EXCEPT ![p] = y] /\ ipc' = ipc
    BY <1>2 DEF Ask
  <2>2. proc \in [ProcEntries -> Processes] /\ proc[p] \in Processes /\ Placed(proc[p])
    BY EntryFacts
  <2>3. /\ y \in Processes /\ SameOne(proc[p], y) /\ y.stat = "SSLEEP" /\ y.at = "asks"
        /\ ~y.low /\ y.chan = Ipc /\ y.peer = proc[q].pid /\ y.req = r
    <3>1. proc[q].pid \in Nat
      BY EntryFacts, ProcFields
    <3>2. r \in Asked
      BY ProcsAssumption DEF Requests, Asked
    <3>3. Asker(proc[p], y, "asks", proc[q].pid, r)
      BY <2>2, <3>1, <3>2, AskerFields
    <3> HIDE DEF y
    <3> QED BY <3>3 DEF Asker
  <2> HIDE DEF y
  <2>4. /\ proc' \in [ProcEntries -> Processes] /\ proc'[p] = y
        /\ \A s \in ProcEntries \ {p} : proc'[s] = proc[s]
    BY <2>1, <2>2, <2>3
  <2>5. OwnChange(proc, proc', p)
    <3>1. \A s \in ProcEntries \ {p} : LeftAlone(proc[s], proc'[s])
      BY <2>4 DEF LeftAlone
    <3>2. Placed(y)
      BY <2>2, <2>3 DEF Placed, SameOne
    <3> QED BY <2>3, <2>4, <3>1, <3>2 DEF OwnChange, SameOne
  <2>6. OwnSleep(proc, proc', p)
    BY <2>3, <2>4 DEF OwnSleep, News
  <2>7. OwnCalls(proc, proc', p, ipc)
    BY <1>2, <2>3, <2>4 DEF OwnCalls, AboutToAnswer, WaitsToAsk
  <2>8. SoundNow(proc', ipc)
    BY <2>4, <2>5, <2>6, <2>7, OwnStep
  <2> QED BY <2>1, <2>8
<1> QED BY <1>1, <1>2

\* ptrace asks a stopped child,
LEMMA PtraceKeeps ==
    ASSUME SoundNow(proc, ipc), NEW p \in ProcEntries, NEW r \in Requests, ptrace(p, r)
    PROVE  SoundNow(proc', ipc')
<1>1. PICK q \in Children(p) : proc[q].stat = "SSTOP" /\ Ask(p, q, r)
  BY DEF ptrace
<1>2. q \in ProcEntries /\ Kid(proc, p, q)
  BY ChildrenAreKids
<1>3. proc[p].stat = "SRUN" /\ proc[p].at = "user" /\ p # Init1
  BY DEF ptrace, Enters
<1> QED BY <1>1, <1>2, <1>3, AskKeeps

\* and after such a sleep the child is still there, and stopped.
LEMMA AsksAgainKeeps ==
    ASSUME SoundNow(proc, ipc), NEW p \in ProcEntries, AsksAgain(p)
    PROVE  SoundNow(proc', ipc')
<1>1. proc[p].stat = "SRUN" /\ proc[p].at = "asks"
  BY DEF AsksAgain, Enters
<1>2. PICK q \in ProcEntries : proc[q].pid = proc[p].peer /\ Ask(p, q, proc[p].req)
  BY DEF AsksAgain
<1>3. /\ OthersWait(proc) /\ NumbersNow(proc) /\ \A s \in ProcEntries : Placed(proc[s])
      /\ p = Init1 => Quiet(proc[p])
  BY DEF SoundNow, TableTypes
<1>4. PICK t \in ProcEntries : /\ Kid(proc, p, t) /\ proc[t].pid = proc[p].peer
                               /\ proc[t].stat = "SSTOP"
  BY <1>1, <1>3 DEF OthersWait
<1>5. t = q
  <2>1. proc[t].pid # 0
    BY <1>3, <1>4 DEF Placed
  <2>2. proc[q].stat # "none"
    BY <2>1, <1>2, <1>3, <1>4 DEF Placed
  <2> QED BY <2>2, <1>2, <1>3, <1>4 DEF NumbersNow
<1>6. PICK r \in Requests : r = proc[p].req
  BY <1>1, <1>3 DEF OthersWait
<1>7. p # Init1
  BY <1>1, <1>3 DEF Quiet
<1> QED BY <1>1, <1>2, <1>4, <1>5, <1>6, <1>7, AskKeeps

\* The tracer takes the answer and frees the lock, or sleeps again.
LEMMA AnsweredKeeps ==
    ASSUME SoundNow(proc, ipc), NEW p \in ProcEntries, Answered(p)
    PROVE  SoundNow(proc', ipc')
<1>1. proc[p].stat = "SRUN" /\ proc[p].at = "asked"
  BY DEF Answered, Enters
<1>2. /\ proc \in [ProcEntries -> Processes] /\ proc[p] \in Processes /\ Placed(proc[p])
      /\ p # Init1
  BY <1>1, EntryFacts DEF Quiet
<1>3. CASE ipc.req[1] \in {"none", "error"}
  <2> DEFINE y == [proc[p] EXCEPT !.at = "user"]
  <2>1. PICK X : X = [proc EXCEPT ![p].at = "user"]
    OBVIOUS
  <2>2. proc' = Wakeup(X, Ipc) /\ ipc' = NoRequest
    BY <1>3, <2>1 DEF Answered
  <2>3. y \in Processes
    <3>1. "user" \in Places
      BY DEF Places
    <3> QED BY <3>1, <1>2 DEF Processes
  <2>4. y.stat = "SRUN" /\ y.at = "user" /\ SameOne(proc[p], y)
    BY <1>1, <1>2 DEF Processes, SameOne
  <2>5. X = [proc EXCEPT ![p] = y]
    BY <1>2, <2>1
  <2> HIDE DEF y
  <2>6. /\ X \in [ProcEntries -> Processes] /\ X[p] = y
        /\ \A s \in ProcEntries \ {p} : X[s] = proc[s]
    BY <1>2, <2>3, <2>5
  <2>7. WokenOn(X, proc', Ipc)
    BY <2>2, <2>6, WakeupLeaves
  <2>8. /\ proc' \in [ProcEntries -> Processes] /\ proc'[p] = y
        /\ \A s \in ProcEntries \ {p} : /\ LeftAlone(proc[s], proc'[s])
                                        /\ ~(proc'[s].stat = "SSLEEP" /\ proc[s].chan = Ipc)
    BY <2>4, <2>6, <2>7 DEF WokenOn
  <2>9. OwnChange(proc, proc', p)
    BY <1>1, <1>2, <2>4, <2>8 DEF OwnChange, SameOne, Placed
  <2>10. OwnSleep(proc, proc', p)
    BY <2>4, <2>8 DEF OwnSleep, News
  <2>11. SoundNow(proc', NoRequest)
    BY <1>1, <2>4, <2>8, <2>9, <2>10, AnsweredStep
  <2> QED BY <2>2, <2>11
<1>4. CASE ipc.req[1] \notin {"none", "error"}
  <2> DEFINE y == SleptHigh(proc[p], Ipc)
  <2>1. proc' = [proc EXCEPT ![p] = y] /\ ipc' = ipc
    BY <1>4 DEF Answered
  <2>2. y = [proc[p] EXCEPT !.stat = "SSLEEP", !.chan = Ipc, !.low = FALSE]
    BY DEF SleptHigh
  <2>3. y \in Processes
    <3>1. "SSLEEP" \in Stats /\ Ipc \in {"none", "ipc", "u", "proc"} \X Nat
      BY DEF Stats, Ipc
    <3>2. PICK c \in {"none", "ipc", "u", "proc"} \X Nat : c = Ipc
      BY <3>1
    <3>3. [proc[p] EXCEPT !.stat = "SSLEEP", !.chan = c, !.low = FALSE] \in Processes
      BY <1>2, <3>1 DEF Processes
    <3> QED BY <2>2, <3>2, <3>3
  <2>4. y.pid = proc[p].pid /\ y.ppid = proc[p].ppid /\ y.pgrp = proc[p].pgrp /\ y.at = proc[p].at
    BY <1>2, <2>2 DEF Processes
  <2>5. y.stat = "SSLEEP" /\ ~y.low /\ y.chan = Ipc
    BY <1>2, <2>2 DEF Processes
  <2> HIDE DEF y
  <2>6. SoundNow([proc EXCEPT ![p] = y], ipc)
    BY <1>1, <1>4, <2>3, <2>4, <2>5, AsleepStep DEF SameOne
  <2> QED BY <2>1, <2>6
<1> QED BY <1>3, <1>4

\* The traced process does what it is asked when the request is its own, or stops again.
LEMMA ContinuesKeeps ==
    ASSUME SoundNow(proc, ipc), NEW p \in ProcEntries, Continues(p)
    PROVE  SoundNow(proc', ipc')
<1>1. proc[p].stat = "SRUN" /\ proc[p].at = "stop" /\ AboutToAnswer(proc[p])
  BY DEF Continues, Enters, AboutToAnswer
<1>2. /\ proc \in [ProcEntries -> Processes] /\ proc[p] \in Processes /\ p # Init1
  BY <1>1, EntryFacts DEF Quiet
<1>3. CASE ipc.lock = proc[p].pid
  <2>1. PICK X : X = Wakeup(proc, Ipc)
    OBVIOUS
  <2>2. /\ proc' = Served(p, X)
        /\ ipc' = [ipc EXCEPT !.req = <<IF ipc.req[1] = "bad" THEN "error" ELSE "none", 0>>]
    BY <1>3, <2>1 DEF Continues
  <2>3. ipc.req \in Requests
    BY <1>1, <1>3, AskedToServe
  <2>4. WokenOn(proc, X, Ipc)
    BY <1>2, <2>1, WakeupLeaves
  <2>5. X \in [ProcEntries -> Processes] /\ X[p] = proc[p]
    BY <1>1, <2>4 DEF WokenOn
  <2>6. /\ SameOne(proc[p], X[p])
        /\ \A s \in ProcEntries \ {p} : LeftAlone(proc[s], X[s])
    BY <2>4, <2>5 DEF WokenOn, SameOne
  <2>7. Stopped(proc, X, proc', p)
    <3>1. CASE ipc.req[1] = "kill"
      <4>1. proc' = [X EXCEPT ![p] = Exiting(X[p])]
        BY <3>1, <2>2 DEF Served
      <4>2. /\ Exiting(X[p]) \in Processes /\ SameOne(X[p], Exiting(X[p]))
            /\ Exiting(X[p]).stat = "SRUN" /\ Exiting(X[p]).at = "exit"
        BY <1>2, <2>5, ExitingFields
      <4>3. Stopped(proc, X, [X EXCEPT ![p] = Exiting(X[p])], p)
        BY <1>1, <1>2, <2>5, <2>6, <4>2, Resumes
      <4> QED BY <4>1, <4>3
    <3>2. CASE ipc.req[1] \in {"read", "bad"}
      <4>1. proc' = stop(X, p)
        BY <3>2, <2>2, Zenon DEF Served
      <4>2. Stopped(proc, X, stop(X, p), p)
        BY <1>1, <1>2, <2>5, <2>6, Stops
      <4> QED BY <4>1, <4>2
    <3>3. CASE ipc.req[1] = "go"
      <4> DEFINE g == {ipc.req[2]} \ {0}
                 x == [X[p] EXCEPT !.sig = g]
      <4>1. proc' = [X EXCEPT ![p] = Acts(x)]
        BY <3>3, <2>2 DEF Served
      <4>2. g \subseteq Signals
        BY <2>3, <3>3 DEF Requests
      <4> HIDE DEF g
      <4>3. x \in Processes /\ SameOne(X[p], x)
        BY <1>2, <2>5, <4>2 DEF Processes, SameOne
      <4> HIDE DEF x
      <4>4. /\ Acts(x) \in Processes /\ SameOne(X[p], Acts(x))
            /\ Acts(x).stat = "SRUN" /\ Acts(x).at \in {"user", "exit"}
        BY <4>3, ActsFields DEF SameOne
      <4>5. Stopped(proc, X, [X EXCEPT ![p] = Acts(x)], p)
        BY <1>1, <1>2, <2>5, <2>6, <4>4, Resumes
      <4> QED BY <4>1, <4>5
    <3> QED BY <2>3, <3>1, <3>2, <3>3 DEF Requests
  <2>8. \A s \in ProcEntries \ {p} : ~(proc'[s].stat = "SSLEEP" /\ proc[s].chan = Ipc)
    <3> TAKE s \in ProcEntries \ {p}
    <3>1. LeftAlone(X[s], proc'[s])
      BY <2>7 DEF Stopped
    <3> QED BY <3>1, <2>4 DEF LeftAlone, WokenOn
  <2>9. ipc \in [lock : Nat, req : Asked]
    BY DEF SoundNow, TableTypes
  <2>10. /\ ipc' \in [lock : Nat, req : Asked] /\ ipc'.lock = ipc.lock
         /\ ipc'.req[1] \in {"none", "error"}
    BY <2>2, <2>9 DEF Asked
  <2>11. proc'[p].at \notin {"asked", "asks"} /\ ~AboutToAnswer(proc'[p])
    BY <2>7 DEF Stopped, AboutToAnswer
  <2>12. PICK j \in [lock : Nat, req : Asked] : j = ipc'
    BY <2>10
  <2>13. SoundNow(proc', j)
    BY <1>1, <1>3, <2>7, <2>8, <2>10, <2>11, <2>12, ServedStep DEF Stopped
  <2> QED BY <2>12, <2>13
<1>4. CASE ipc.lock # proc[p].pid
  <2>1. proc' = stop(proc, p) /\ ipc' = ipc
    BY <1>4 DEF Continues
  <2>2. SameOne(proc[p], proc[p]) /\ \A s \in ProcEntries \ {p} : LeftAlone(proc[s], proc[s])
    BY DEF SameOne, LeftAlone
  <2>3. Stopped(proc, proc, stop(proc, p), p)
    BY <1>1, <1>2, <2>2, Stops
  <2>4. Stopped(proc, proc, proc', p)
    BY <2>1, <2>3
  <2>5. OwnCalls(proc, proc', p, ipc)
    BY <1>1, <1>4, <2>4 DEF Stopped, OwnCalls, AboutToAnswer
  <2>6. SoundNow(proc', ipc)
    BY <2>4, <2>5, OwnStep DEF Stopped
  <2> QED BY <2>1, <2>6
<1> QED BY <1>3, <1>4

----------------------------------------------------------------------------
(* The theorems *)

\* Process 1 alone, as main leaves the table, is a table to start with.
LEMMA BootIsSound ==
    ASSUME NEW P, P = [s \in ProcEntries |-> IF s = Init1 THEN Newborn(1, 0, 0) ELSE NoProc]
    PROVE  TableSound(P, NoRequest)
<1> DEFINE x == Newborn(1, 0, 0)
<1>1. NoProc \in Processes
  BY DEF NoProc, Processes, Stats, Places, Asked
<1>2. /\ x \in Processes /\ x.stat = "SRUN" /\ x.at = "user" /\ x.pid = 1 /\ x.ppid = 0
      /\ x.pgrp = 0 /\ x.sig = {} /\ ~x.traced
  <2>1. x = [NoProc EXCEPT !.stat = "SRUN", !.pid = 1, !.ppid = 0, !.pgrp = 0, !.at = "user"]
    BY DEF Newborn
  <2>2. NoProc.sig = {} /\ ~NoProc.traced
    BY DEF NoProc
  <2>3. "SRUN" \in Stats /\ "user" \in Places
    BY DEF Stats, Places
  <2>4. x \in Processes
    <3>1. 0 \in Nat /\ 1 \in Nat
      OBVIOUS
    <3> HIDE DEF x
    <3> QED BY <1>1, <2>1, <2>3, <3>1 DEF Processes
  <2>5. x.stat = "SRUN" /\ x.at = "user" /\ x.pid = 1 /\ x.ppid = 0 /\ x.pgrp = 0
    BY <1>1, <2>1 DEF Processes
  <2>6. x.sig = {} /\ ~x.traced
    BY <1>1, <2>1, <2>2 DEF Processes
  <2> QED BY <2>4, <2>5, <2>6
<1>3. NoProc.stat = "none" /\ NoProc.pid = 0 /\ NoProc.at = "none"
  BY DEF NoProc
<1> HIDE DEF x
<1>4. Init1 \in ProcEntries
  BY ProcsAssumption DEF Init1
<1>5. /\ P \in [ProcEntries -> Processes] /\ P[Init1] = x
      /\ \A s \in ProcEntries \ {Init1} : P[s] = NoProc
  BY <1>1, <1>2, <1>4 DEF x
<1>6. NoRequest \in [lock : Nat, req : Asked] /\ NoRequest.lock = 0
  BY DEF NoRequest, Asked
<1>7. TableTypes(P, NoRequest)
  <2>1. Quiet(P[Init1])
    BY <1>2, <1>5 DEF Quiet
  <2>2. Placed(x) /\ Placed(NoProc)
    BY <1>2, <1>3 DEF Placed
  <2> QED BY <2>1, <2>2, <1>5, <1>6 DEF TableTypes
<1>8. \A s \in ProcEntries : P[s].stat # "none" => s = Init1 /\ P[s] = x
  BY <1>3, <1>5
<1>9. ParentsLive(P) /\ NumbersName(P) /\ Heard(P)
  BY <1>2, <1>8 DEF ParentsLive, NumbersName, Heard
<1>10. \A s \in ProcEntries : P[s].at \notin {"asked", "asks"}
  BY <1>2, <1>3, <1>5
<1>11. OneAsks(P, NoRequest) /\ OthersWait(P)
  BY <1>6, <1>10 DEF OneAsks, OthersWait
<1> QED BY <1>7, <1>9, <1>11 DEF TableSound

\* What follows of who sleeps.
LEMMA SoundIsHeard ==
    ASSUME SoundNow(proc, ipc)
    PROVE  NothingSleptThrough
<1>1. Heard(proc) /\ OneAsks(proc, ipc) /\ OthersWait(proc)
  BY DEF SoundNow
<1> SUFFICES ASSUME NEW p \in ProcEntries, proc[p].stat = "SSLEEP"
             PROVE
        CASE proc[p].at = "wait" ->
               /\ Deliverable(proc[p]) = {} /\ Children(p) # {}
               /\ \A q \in Children(p) : ~Buried(q) /\ ~Reports(q)
          [] proc[p].at = "pause" -> Deliverable(proc[p]) = {}
          [] proc[p].at = "asked" ->
               /\ ipc.req \in Requests
               /\ \E q \in Children(p) : proc[q].pid = ipc.lock /\ Enters(q, "stop")
          [] proc[p].at = "asks" -> \E q \in ProcEntries : proc[q].at = "asked"
  BY DEF NothingSleptThrough
<1>2. proc[p].at \in {"wait", "pause", "asked", "asks"}
  BY EntryFacts DEF Placed
<1>3. CASE proc[p].at = "wait"
  <2>1. /\ Deliverable(proc[p]) = {}
        /\ \E q \in ProcEntries : Kid(proc, p, q)
        /\ \A q \in ProcEntries : Kid(proc, p, q) => ~News(proc[q])
    BY <1>1, <1>3 DEF Heard
  <2>2. Children(p) # {} /\ \A q \in Children(p) : ~Buried(q) /\ ~Reports(q)
    BY <2>1, ChildrenAreKids DEF Buried, Reports, News
  <2> QED BY <2>1, <2>2, <1>3
<1>4. CASE proc[p].at = "pause"
  BY <1>1, <1>4 DEF Heard
<1>5. CASE proc[p].at = "asked"
  <2>1. PICK q \in ProcEntries : /\ Kid(proc, p, q) /\ proc[q].pid = ipc.lock
                                 /\ ipc.req \in Requests /\ AboutToAnswer(proc[q])
    BY <1>1, <1>5 DEF OneAsks
  <2>2. q \in Children(p) /\ Enters(q, "stop")
    BY <2>1, ChildrenAreKids DEF AboutToAnswer, Enters
  <2> QED BY <2>1, <2>2, <1>5
<1>6. CASE proc[p].at = "asks"
  BY <1>1, <1>6 DEF OthersWait
<1> QED BY <1>2, <1>3, <1>4, <1>5, <1>6

\* What follows of families.
LEMMA SoundIsFamilies ==
    ASSUME SoundNow(proc, ipc)
    PROVE  FamiliesOK
<1>1. ParentsLive(proc) /\ NumbersNow(proc)
  BY DEF SoundNow
<1>2. NumbersAreUnique
  BY <1>1 DEF NumbersNow, NumbersAreUnique
<1>3. StoppedAreTraced
  <2> SUFFICES ASSUME NEW p \in ProcEntries, proc[p].stat = "SSTOP"
               PROVE  \E q \in Users1 : /\ proc[q].pid = proc[p].ppid
                                        /\ proc[q].stat \notin {"none", "SZOMB"}
    BY DEF StoppedAreTraced
  <2>1. Init1 \in ProcEntries /\ Quiet(proc[Init1])
    BY ProcsAssumption DEF SoundNow, TableTypes, Init1
  <2>2. p # Init1 /\ proc[p].ppid # 1
    BY <2>1, EntryFacts DEF Quiet, Placed
  <2>3. PICK q \in ProcEntries : proc[q].stat \notin {"none", "SZOMB"} /\ Kid(proc, q, p)
    BY <2>2, <1>1 DEF ParentsLive
  <2>4. q # Init1
    BY <2>1, <2>2, <2>3 DEF Kid, Quiet
  <2> QED BY <2>3, <2>4 DEF Users1, Kid
<1> QED BY <1>2, <1>3 DEF FamiliesOK

\* After every step of a process the table is sound, and the last number given is one.
LEMMA KernelKeeps ==
    ASSUME ProcsInv, NEW p \in ProcEntries, Kernel(p)
    PROVE  ProcsInv'
<1>1. SoundNow(proc', ipc')
  <2>1. CASE wait(p)
    BY <2>1, WaitKeeps DEF ProcsInv
  <2>2. CASE pause(p)
    BY <2>2, PauseKeeps DEF ProcsInv
  <2>3. CASE exit(p)
    BY <2>3, ExitKeepsSound DEF ProcsInv
  <2>4. CASE GivesUp(p)
    BY <2>4, GivesUpKeeps DEF ProcsInv
  <2>5. CASE psig(p)
    BY <2>5, PsigKeeps DEF ProcsInv
  <2>6. CASE AsksAgain(p)
    BY <2>6, AsksAgainKeeps DEF ProcsInv
  <2>7. CASE Answered(p)
    BY <2>7, AnsweredKeeps DEF ProcsInv
  <2>8. CASE Continues(p)
    BY <2>8, ContinuesKeeps DEF ProcsInv
  <2> QED BY <2>1, <2>2, <2>3, <2>4, <2>5, <2>6, <2>7, <2>8 DEF Kernel
<1>2. mpid' = mpid /\ SameGroups
  BY Zenon DEF Kernel, wait, pause, exit, GivesUp, psig, AsksAgain, Answered, Continues,
               Unbounded
<1>3. mpid' \in 1..MaxPid - 1
  BY <1>2 DEF ProcsInv
<1> QED BY <1>1, <1>2, <1>3, SameGroupsKeep

\* So is it after every system call and what else happens in user mode.
LEMMA CallsKeep ==
    ASSUME ProcsInv, NEW p \in ProcEntries, Calls(p)
    PROVE  ProcsInv'
<1>1. SoundNow(proc, ipc) /\ mpid \in 1..MaxPid - 1
  BY DEF ProcsInv
<1>2. CASE wait(p) \/ pause(p) \/ rexit(p) \/ TraceMe(p)
  <2>1. SoundNow(proc', ipc')
    BY <1>1, <1>2, WaitKeeps, PauseKeeps, RexitKeeps, TraceMeKeeps
  <2>2. mpid' = mpid /\ SameGroups
    BY <1>2, Zenon DEF wait, pause, rexit, TraceMe, Unbounded
  <2>3. mpid' \in 1..MaxPid - 1
    BY <1>1, <2>2
  <2> QED BY <2>1, <2>2, <2>3, SameGroupsKeep
<1>3. CASE fork(p)
  <2>1. SoundNow(proc', ipc') /\ mpid' \in 1..MaxPid - 1
    BY <1>1, <1>3, ForkKeeps
  <2>2. SameGroups
    BY <1>3, Zenon DEF fork
  <2> QED BY <2>1, <2>2, SameGroupsKeep
<1>4. ASSUME NEW n \in Signals, kill(p, n)
      PROVE  ProcsInv'
  <2>1. SoundNow(proc', ipc') /\ mpid' = mpid
    BY <1>1, <1>4, KillKeeps
  <2>2. SameGroups
    BY <1>4, Zenon DEF kill, Sends
  <2> QED BY <1>1, <2>1, <2>2, SameGroupsKeep
<1>5. ASSUME NEW n \in Signals, NEW a \in {"dfl", "ign", "fun"}, ssig(p, n, a)
      PROVE  ProcsInv'
  <2>1. SoundNow(proc', ipc')
    BY <1>1, <1>5, SsigKeeps
  <2>2. mpid' = mpid /\ SameGroups
    BY <1>5, Zenon DEF ssig
  <2>3. mpid' \in 1..MaxPid - 1
    BY <1>1, <2>2
  <2> QED BY <2>1, <2>2, <2>3, SameGroupsKeep
<1>6. ASSUME NEW r \in Requests, ptrace(p, r)
      PROVE  ProcsInv'
  <2>1. SoundNow(proc', ipc')
    BY <1>1, <1>6, PtraceKeeps
  <2>2. mpid' = mpid /\ SameGroups
    BY <1>6, Zenon DEF ptrace
  <2>3. mpid' \in 1..MaxPid - 1
    BY <1>1, <2>2
  <2> QED BY <2>1, <2>2, <2>3, SameGroupsKeep
<1>7. ASSUME NEW t \in Terminals, ttyopen(p, t)
      PROVE  ProcsInv'
  BY <1>7, TtyopenKeeps
<1>8. ASSUME NEW g \in Groups, npgrp(p, g)
      PROVE  ProcsInv'
  BY <1>8, NpgrpKeeps
<1> QED BY <1>2, <1>3, <1>4, <1>5, <1>6, <1>7, <1>8, Zenon DEF Calls

\* So is it after a signal from a terminal, and after the last close of one.
LEMMA TerminalsKeep ==
    ASSUME ProcsInv,
           \/ \E n \in Signals : signal(n)
           \/ \E t \in Terminals : ttyclose(t)
    PROVE  ProcsInv'
<1>1. ASSUME NEW n \in Signals, signal(n)
      PROVE  ProcsInv'
  <2>1. SoundNow(proc', ipc') /\ mpid' = mpid
    BY <1>1, SignalKeeps DEF ProcsInv
  <2>2. SameGroups
    BY <1>1, Zenon DEF signal, Sends
  <2>3. mpid' \in 1..MaxPid - 1
    BY <2>1 DEF ProcsInv
  <2> QED BY <2>1, <2>2, <2>3, SameGroupsKeep
<1>2. ASSUME NEW t \in Terminals, ttyclose(t)
      PROVE  ProcsInv'
  <2>1. /\ proc' = proc /\ ipc' = ipc /\ mpid' = mpid /\ byNumber' = byNumber
        /\ t_pgrp' = [t_pgrp EXCEPT ![t] = 0]
    BY <1>2 DEF ttyclose
  <2>2. t_pgrp' \in [Terminals -> Nat]
    BY <2>1 DEF ProcsInv
  <2>3. SoundNow(proc, ipc)'
    BY <2>1 DEF ProcsInv, SoundNow, NumbersNow
  <2> QED BY <2>1, <2>2, <2>3 DEF ProcsInv
<1> QED BY <1>1, <1>2

\* The invariant of the process table.
THEOREM ProcsInvariant == ProcsSpec => []ProcsInv
<1>1. ProcsInit => ProcsInv
  <2> SUFFICES ASSUME ProcsInit PROVE ProcsInv
    OBVIOUS
  <2>1. PICK start \in Starts :
          proc = start.table /\ ipc = start.ipc /\ t_pgrp = start.t_pgrp
    BY DEF ProcsInit
  <2>2. TableSound(proc, ipc) /\ t_pgrp \in [Terminals -> Nat]
    BY <2>1, StartsAssumption
  <2>3. MaxPid - 1 \in 1..MaxPid - 1
    <3>1. Cardinality(ProcEntries) \in Nat \ {0}
      <4>1. IsFiniteSet(ProcEntries) /\ ProcEntries # {}
        BY ProcsAssumption
      <4> QED BY <4>1, FS_CardinalityType, FS_EmptySet
    <3>2. MaxPid \in Nat /\ MaxPid > 3 * Cardinality(ProcEntries)
      BY ProcsAssumption
    <3> QED BY <3>1, <3>2
  <2>4. mpid = MaxPid - 1 /\ byNumber = FALSE
    BY DEF ProcsInit
  <2>5. SoundNow(proc, ipc)
    BY <2>2 DEF TableSound, SoundNow, NumbersName, NumbersNow
  <2> QED BY <2>2, <2>3, <2>4, <2>5 DEF ProcsInv
<1>2. ProcsInv /\ [ProcsNext]_procsVars => ProcsInv'
  <2> SUFFICES ASSUME ProcsInv, [ProcsNext]_procsVars PROVE ProcsInv'
    OBVIOUS
  <2>1. ASSUME NEW p \in ProcEntries, Kernel(p) PROVE ProcsInv'
    BY <2>1, KernelKeeps
  <2>2. ASSUME NEW p \in ProcEntries, Calls(p) PROVE ProcsInv'
    BY <2>2, CallsKeep
  <2>3. CASE \/ \E n \in Signals : signal(n)
             \/ \E t \in Terminals : ttyclose(t)
    BY <2>3, TerminalsKeep
  <2>4. CASE UNCHANGED procsVars
    <3>1. /\ proc' = proc /\ ipc' = ipc /\ mpid' = mpid /\ byNumber' = byNumber
          /\ t_pgrp' = t_pgrp
      BY <2>4 DEF procsVars
    <3>2. SoundNow(proc, ipc)'
      BY <3>1 DEF ProcsInv, SoundNow, NumbersNow
    <3> QED BY <3>1, <3>2 DEF ProcsInv
  <2> QED BY <2>1, <2>2, <2>3, <2>4 DEF ProcsNext
<1> QED BY <1>1, <1>2, PTL DEF ProcsSpec

\* Nobody sleeps through what he waits for: neither a child's end or stop, nor a signal, nor
\* the answer to a tracer's request (slp.c:26-70, sys1.c:404-446, sig.c:263-350).
THEOREM SleepTheorem == ProcsSpec => []NothingSleptThrough
<1>1. ProcsInv => NothingSleptThrough
  BY SoundIsHeard DEF ProcsInv
<1> QED BY <1>1, ProcsInvariant, PTL

\* A number names one process, and a stopped process has a tracer that lives
\* (slp.c:504-515, sys1.c:381-386).
THEOREM FamiliesTheorem == ProcsSpec => []FamiliesOK
<1>1. ProcsInv => FamiliesOK
  BY SoundIsFamilies DEF ProcsInv
<1> QED BY <1>1, ProcsInvariant, PTL
=============================================================================
