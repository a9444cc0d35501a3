---------------------------- MODULE Mount_proofs ----------------------------
(***************************************************************************)
(* Proofs about the mount table and the table of shared texts, for any     *)
(* devices, directories, programs, processes and sizes of the tables.      *)
(***************************************************************************)
EXTENDS Mount, Text, SeqLemmas, FiniteSetTheorems, TLAPS

----------------------------------------------------------------------------
(* The mount table *)

DevIds == Devs \cup {RootDev}

Names == DevIds \X (Dirs \cup {RootIno, "none"})

InodeRecords == [name : Names, count : Nat, lock : BOOLEAN, mount : BOOLEAN]

CallStates ==
    [call : {"none", "open", "mount", "umount", "sync"},
     pc : {"user", "iget", "asleep", "bread", "got", "has", "opens", "geteblk", "iput",
           "update", "super", "bwrite", "inodes", "iupdat", "check", "plock", "waits"},
     dev : DevIds, want : Names, ip : 0..NINODE, i : Nat]

MountTypes ==
    /\ inodes \in [1..NINODE -> InodeRecords]
    /\ mounts \in [1..NMOUNT -> Entry]
    /\ updlock \in BOOLEAN
    /\ at \in [Mounters -> CallStates]
    /\ mountCalls \in Nat

\* Where each call can be.
PcFits(c) ==
    /\ c.call = "none" => c.pc = "user"
    /\ c.call = "open" => c.pc \in {"iget", "asleep", "bread", "got", "has", "iput"}
    /\ c.call = "mount" =>
         c.pc \in {"iget", "asleep", "bread", "got", "opens", "geteblk", "iput"}
    /\ c.call = "umount" =>
         c.pc \in {"update", "super", "bwrite", "inodes", "iupdat", "check", "plock",
                   "waits", "iput"}
    /\ c.call = "sync" => c.pc \in {"update", "super", "bwrite", "inodes", "iupdat"}

\* The references: of a call to an inode, and of an entry of the table to its directory,
\* which umount's iput gives up.
Holds(c, s) ==
    \/ c.pc \in {"bread", "got", "opens", "geteblk", "has"} /\ c.ip = s
    \/ c.pc = "iput" /\ c.call # "umount" /\ c.ip = s
    \/ c.pc = "iupdat" /\ c.i = s

Kept(e, s) == e.bufp /\ e.inodp = s

HeldBy(A, s) == {p \in Mounters : Holds(A[p], s)}

KeptBy(M, s) == {m \in 2..NMOUNT : Kept(M[m], s)}

Refs(A, M, s) ==
    Cardinality(HeldBy(A, s)) + Cardinality(KeptBy(M, s)) + (IF s = 1 THEN 1 ELSE 0)

Counted(A, I, M) == \A s \in 1..NINODE : I[s].count = Refs(A, M, s)

\* A call that has an inode locked.
Locking(c) == c.pc \in {"bread", "got", "opens", "geteblk", "iput", "iupdat"}

LockOf(c) == IF c.pc = "iupdat" THEN c.i ELSE c.ip

LocksApart(A) ==
    \A p, q \in Mounters :
        p # q /\ Locking(A[p]) /\ Locking(A[q]) => LockOf(A[p]) # LockOf(A[q])

\* Two calls that have not clashed: of two that mount, each has an entry and a device of its
\* own, two that umount give up different entries, and nothing gets mounted on the device that
\* another call umounts.
Beside(c, d) ==
    /\ Mounting(c) /\ Mounting(d) => c.i # d.i /\ c.dev # d.dev
    /\ Umounting(c) /\ Umounting(d) => c.i # d.i
    /\ Walking(c) /\ Umounting(d) => c.want[1] # d.dev
    /\ Walking(d) /\ Umounting(c) => d.want[1] # c.dev

CallsApart(A) == \A p, q \in Mounters : p # q => Beside(A[p], A[q])

IsMounted(M, d) == \E m \in 1..NMOUNT : M[m].bufp /\ M[m].dev = d

\* The entries of the table: the first is the root's, of those that name a directory the
\* first is the one in use, and no two have one device.
TableOK(I, M) ==
    /\ M[1] = [bufp |-> TRUE, dev |-> RootDev, inodp |-> 0]
    /\ \A m \in 2..NMOUNT : M[m].bufp =>
         /\ M[m].inodp # 0 /\ M[m].dev \in Devs
         /\ IsMounted(M, I[M[m].inodp].name[1])
         /\ \A j \in 1..NMOUNT : j < m => M[j].inodp # M[m].inodp
    /\ \A s \in 1..NINODE : I[s].mount => KeptBy(M, s) # {}
    /\ \A m, n \in 1..NMOUNT : M[m].bufp /\ M[n].bufp /\ m # n => M[m].dev # M[n].dev

\* mount has its directory for itself, and an entry that is free and that no earlier one that
\* names the directory will hide, for a device that is not mounted.
MountingOK(c, I, M) ==
    /\ c.pc # "iput" => IsMounted(M, c.want[1])
    /\ c.pc \in {"bread", "got", "opens", "geteblk"} => I[c.ip].name = c.want /\ ~I[c.ip].mount
    /\ c.pc \in {"opens", "geteblk"} =>
         /\ c.i \in 2..NMOUNT /\ ~M[c.i].bufp /\ ~IsMounted(M, c.dev)
         /\ \A j \in 1..NMOUNT : j < c.i => M[j].inodp # c.ip
    /\ c.pc = "geteblk" => M[c.i].inodp = c.ip /\ M[c.i].dev = c.dev

\* After its checks umount has an entry to which no walk leads, and on whose device no other
\* is mounted.
UmountingOK(c, I, M) ==
    c.pc \in {"plock", "waits", "iput"} =>
        /\ c.i \in 2..NMOUNT /\ M[c.i].bufp /\ M[c.i].dev = c.dev
        /\ ~I[M[c.i].inodp].mount
        /\ \A m \in 2..NMOUNT : M[m].bufp => I[M[m].inodp].name[1] # c.dev
        /\ c.pc = "iput" => c.ip = M[c.i].inodp

CallOK(c, I, M) ==
    /\ PcFits(c)
    /\ Locking(c) => LockOf(c) \in 1..NINODE /\ I[LockOf(c)].lock
    /\ c.pc = "has" => c.ip \in 1..NINODE
    /\ c.pc \in {"super", "bwrite", "inodes"} => c.i # 0
    /\ c.pc \in {"bread", "opens", "geteblk", "iput"} => I[c.ip].count = 1
    /\ c.call \in {"mount", "umount"} => c.dev \in Devs
    /\ c.call \in {"open", "mount"} => c.want[2] # "none"
    /\ c.call = "mount" => MountingOK(c, I, M)
    /\ c.call = "umount" => UmountingOK(c, I, M)

MountInv ==
    /\ MountTypes
    /\ Counted(at, inodes, mounts)
    /\ TableOK(inodes, mounts)
    /\ \A p \in Mounters : CallOK(at[p], inodes, mounts)
    /\ LocksApart(at)
    /\ CallsApart(at)

----------------------------------------------------------------------------
(* The references *)

Unit(x, S) == IF x \in S THEN 1 ELSE 0

OneHeld(c, s) == IF Holds(c, s) THEN 1 ELSE 0

OneKept(e, s) == IF Kept(e, s) THEN 1 ELSE 0

\* What one more and one less element do to the number of the elements of a finite set.
LEMMA CardAfter ==
    ASSUME NEW S, IsFiniteSet(S), NEW T, NEW x, T \ {x} = S \ {x}
    PROVE  /\ IsFiniteSet(T) /\ Cardinality(S) \in Nat /\ Cardinality(T) \in Nat
           /\ Cardinality(T) = (Cardinality(S) + Unit(x, T)) - Unit(x, S)
<1>1. Cardinality(S) \in Nat
  BY FS_CardinalityType
<1>2. CASE (x \in S) = (x \in T)
  <2>1. S = T
    BY <1>2
  <2> QED BY <2>1, <1>1 DEF Unit
<1>3. CASE x \in T /\ x \notin S
  <2>1. T = S \cup {x}
    BY <1>3
  <2>2. IsFiniteSet(T) /\ Cardinality(T) = Cardinality(S) + 1
    BY <2>1, <1>3, FS_AddElement
  <2> QED BY <2>2, <1>1, <1>3 DEF Unit
<1>4. CASE x \notin T /\ x \in S
  <2>1. T = S \ {x}
    BY <1>4
  <2>2. IsFiniteSet(T) /\ Cardinality(T) = Cardinality(S) - 1
    BY <2>1, <1>4, FS_RemoveElement
  <2>3. Cardinality(T) \in Nat
    BY <2>2, FS_CardinalityType
  <2> QED BY <2>2, <2>3, <1>1, <1>4 DEF Unit
<1> QED BY <1>2, <1>3, <1>4

\* The processes and the entries that have a reference are finitely many.
LEMMA RefsFinite ==
    ASSUME NEW A, NEW M, NEW s
    PROVE  /\ IsFiniteSet(HeldBy(A, s)) /\ IsFiniteSet(KeptBy(M, s))
           /\ Cardinality(HeldBy(A, s)) \in Nat /\ Cardinality(KeptBy(M, s)) \in Nat
           /\ Refs(A, M, s) \in Nat
<1>1. IsFiniteSet(HeldBy(A, s))
  <2>1. HeldBy(A, s) \subseteq Mounters
    BY DEF HeldBy
  <2>2. IsFiniteSet(Mounters)
    BY MountAssumption
  <2> QED BY <2>1, <2>2, FS_Subset
<1>2. IsFiniteSet(KeptBy(M, s))
  <2>1. KeptBy(M, s) \subseteq 2..NMOUNT
    BY DEF KeptBy
  <2>2. IsFiniteSet(2..NMOUNT)
    BY MountAssumption, FS_Interval
  <2> QED BY <2>1, <2>2, FS_Subset
<1>3. Cardinality(HeldBy(A, s)) \in Nat /\ Cardinality(KeptBy(M, s)) \in Nat
  BY <1>1, <1>2, FS_CardinalityType
<1> QED BY <1>1, <1>2, <1>3 DEF Refs

\* These are numbers, the same if the one is held and the other is.
LEMMA OneIsNumber ==
    /\ \A c, s : OneHeld(c, s) \in {0, 1}
    /\ \A e, s : OneKept(e, s) \in {0, 1}
    /\ \A c, d, s : (Holds(c, s) <=> Holds(d, s)) => OneHeld(c, s) = OneHeld(d, s)
BY DEF OneHeld, OneKept

\* The references after a process has gone on to c.
LEMMA HeldAfter ==
    ASSUME NEW A \in [Mounters -> CallStates], NEW p \in Mounters, NEW c \in CallStates,
           NEW B, B[p] = c, \A q \in Mounters : q # p => B[q] = A[q], NEW M, NEW s
    PROVE  Refs(B, M, s)
             = (Refs(A, M, s) + OneHeld(c, s)) - OneHeld(A[p], s)
<1> DEFINE S == HeldBy(A, s)
           T == HeldBy(B, s)
<1>1. B[p] = c /\ \A q \in Mounters : q # p => B[q] = A[q]
  OBVIOUS
<1>2. T \ {p} = S \ {p} /\ (p \in T <=> Holds(c, s)) /\ (p \in S <=> Holds(A[p], s))
  <2>1. p \in T <=> Holds(c, s)
    BY <1>1 DEF HeldBy
  <2>2. p \in S <=> Holds(A[p], s)
    BY DEF HeldBy
  <2>3. T \ {p} = S \ {p}
    BY <1>1 DEF HeldBy
  <2> QED BY <2>1, <2>2, <2>3
<1>3. IsFiniteSet(S) /\ Cardinality(KeptBy(M, s)) \in Nat
  BY RefsFinite
<1> HIDE DEF S, T
<1>4. /\ Cardinality(S) \in Nat /\ Cardinality(T) \in Nat
      /\ Cardinality(T) = (Cardinality(S) + Unit(p, T)) - Unit(p, S)
  BY <1>2, <1>3, CardAfter
<1>5. Unit(p, T) = OneHeld(c, s) /\ Unit(p, S) = OneHeld(A[p], s)
  BY <1>2 DEF Unit, OneHeld
<1>6. OneHeld(c, s) \in Int /\ OneHeld(A[p], s) \in Int
  BY DEF OneHeld
<1>7. /\ Refs(B, M, s) = Cardinality(T) + Cardinality(KeptBy(M, s)) + (IF s = 1 THEN 1 ELSE 0)
      /\ Refs(A, M, s) = Cardinality(S) + Cardinality(KeptBy(M, s)) + (IF s = 1 THEN 1 ELSE 0)
  BY Zenon DEF Refs, S, T
<1> QED BY <1>3, <1>4, <1>5, <1>6, <1>7

\* N is the table M in which entry m has become e.
EntryMade(M, N, m, e) == N[m] = e /\ \A j \in 2..NMOUNT : j # m => N[j] = M[j]

\* The references after an entry has become e.
LEMMA KeptAfter ==
    ASSUME NEW A, NEW M, NEW N, NEW m \in 2..NMOUNT, NEW e, EntryMade(M, N, m, e), NEW s
    PROVE  Refs(A, N, s)
             = (Refs(A, M, s) + OneKept(e, s)) - OneKept(M[m], s)
<1> DEFINE S == KeptBy(M, s)
           T == KeptBy(N, s)
<1>1. N[m] = e /\ \A j \in 2..NMOUNT : j # m => N[j] = M[j]
  BY DEF EntryMade
<1>2. T \ {m} = S \ {m} /\ (m \in T <=> Kept(e, s)) /\ (m \in S <=> Kept(M[m], s))
  <2>1. m \in T <=> Kept(e, s)
    BY <1>1 DEF KeptBy
  <2>2. m \in S <=> Kept(M[m], s)
    BY DEF KeptBy
  <2>3. T \ {m} = S \ {m}
    BY <1>1 DEF KeptBy
  <2> QED BY <2>1, <2>2, <2>3
<1>3. IsFiniteSet(S) /\ Cardinality(HeldBy(A, s)) \in Nat
  BY RefsFinite
<1> HIDE DEF S, T
<1>4. /\ Cardinality(S) \in Nat /\ Cardinality(T) \in Nat
      /\ Cardinality(T) = (Cardinality(S) + Unit(m, T)) - Unit(m, S)
  BY <1>2, <1>3, CardAfter
<1>5. Unit(m, T) = OneKept(e, s) /\ Unit(m, S) = OneKept(M[m], s)
  BY <1>2 DEF Unit, OneKept
<1>6. OneKept(e, s) \in Int /\ OneKept(M[m], s) \in Int
  BY DEF OneKept
<1>7. /\ Refs(A, N, s) = Cardinality(HeldBy(A, s)) + Cardinality(T) + (IF s = 1 THEN 1 ELSE 0)
      /\ Refs(A, M, s) = Cardinality(HeldBy(A, s)) + Cardinality(S) + (IF s = 1 THEN 1 ELSE 0)
  BY Zenon DEF Refs, S, T
<1> QED BY <1>3, <1>4, <1>5, <1>6, <1>7

\* An inode with no reference is nobody's, and one with a single reference is that of one call
\* or of one entry.
LEMMA FewRefs ==
    ASSUME NEW A, NEW M, NEW s, Refs(A, M, s) \in {0, 1}
    PROVE  /\ Refs(A, M, s) = 0 => HeldBy(A, s) = {} /\ KeptBy(M, s) = {} /\ s # 1
           /\ \A p \in HeldBy(A, s) : HeldBy(A, s) = {p} /\ KeptBy(M, s) = {} /\ s # 1
           /\ \A m \in KeptBy(M, s) : KeptBy(M, s) = {m} /\ HeldBy(A, s) = {} /\ s # 1
<1> DEFINE S == HeldBy(A, s)
           T == KeptBy(M, s)
<1>1. IsFiniteSet(S) /\ IsFiniteSet(T) /\ Cardinality(S) \in Nat /\ Cardinality(T) \in Nat
  BY RefsFinite
<1>2. Cardinality(S) + Cardinality(T) + (IF s = 1 THEN 1 ELSE 0) \in {0, 1}
  BY Zenon DEF Refs
<1>3. Refs(A, M, s) = Cardinality(S) + Cardinality(T) + (IF s = 1 THEN 1 ELSE 0)
  BY Zenon DEF Refs
<1> HIDE DEF S, T
<1>4. Refs(A, M, s) = 0 => Cardinality(S) = 0 /\ Cardinality(T) = 0 /\ s # 1
  BY <1>1, <1>3
<1>5. Cardinality(S) = 0 => S = {}
  BY <1>1, FS_EmptySet
<1>6. Cardinality(T) = 0 => T = {}
  BY <1>1, FS_EmptySet
<1>7. ASSUME NEW x, NEW X, IsFiniteSet(X), x \in X, Cardinality(X) <= 1 PROVE X = {x}
  <2>1. IsFiniteSet(X \ {x}) /\ Cardinality(X \ {x}) = Cardinality(X) - 1
    BY <1>7, FS_RemoveElement
  <2>2. Cardinality(X) \in Nat /\ Cardinality(X \ {x}) \in Nat
    BY <1>7, <2>1, FS_CardinalityType
  <2>3. Cardinality(X \ {x}) = 0
    BY <1>7, <2>1, <2>2
  <2>4. X \ {x} = {}
    BY <2>1, <2>3, FS_EmptySet
  <2> QED BY <2>4, <1>7
<1>8. ASSUME NEW p \in S PROVE S = {p} /\ T = {} /\ s # 1
  <2>1. Cardinality(S) # 0
    BY <1>5
  <2>2. Cardinality(S) <= 1 /\ Cardinality(T) = 0 /\ s # 1
    BY <2>1, <1>1, <1>2
  <2> QED BY <2>2, <1>1, <1>6, <1>7
<1>9. ASSUME NEW m \in T PROVE T = {m} /\ S = {} /\ s # 1
  <2>1. Cardinality(T) # 0
    BY <1>6
  <2>2. Cardinality(T) <= 1 /\ Cardinality(S) = 0 /\ s # 1
    BY <2>1, <1>1, <1>2
  <2> QED BY <2>2, <1>1, <1>5, <1>7
<1> QED BY <1>4, <1>5, <1>6, <1>8, <1>9 DEF S, T

----------------------------------------------------------------------------
(* What a step of one process leaves as it was *)

SameLocked(I, J, s) ==
    /\ J[s].name = I[s].name /\ J[s].count = I[s].count /\ J[s].lock = I[s].lock
    /\ J[s].mount => I[s].mount

\* No inode gets mounted on, and the directories of the table keep their names.
SameTable(I, J, M, N) ==
    /\ N = M
    /\ \A s \in 1..NINODE : /\ J[s].mount => I[s].mount
                            /\ KeptBy(M, s) # {} => J[s].name = I[s].name

\* The directory of an entry in use.
LEMMA DirectoryOf ==
    ASSUME NEW I, NEW M \in [1..NMOUNT -> Entry], TableOK(I, M), NEW m \in 2..NMOUNT, M[m].bufp
    PROVE  M[m].inodp \in 1..NINODE /\ m \in KeptBy(M, M[m].inodp) /\ m \in 1..NMOUNT
<1>1. m \in 1..NMOUNT /\ M[m] \in Entry
  BY MountAssumption
<1>2. M[m].inodp \in 0..NINODE
  BY <1>1 DEF Entry
<1>3. M[m].inodp # 0
  BY DEF TableOK
<1> QED BY <1>1, <1>2, <1>3 DEF KeptBy, Kept

\* What a step of another process may do to the table as far as c is concerned.
TableFor(c, I, J, M, N) ==
    /\ c.call = "mount" /\ c.pc # "iput" => IsMounted(N, c.want[1])
    /\ Mounting(c) =>
         /\ N[c.i] = M[c.i] /\ ~IsMounted(N, c.dev)
         /\ \A j \in 1..NMOUNT : j < c.i => N[j].inodp # c.ip
    /\ Umounting(c) =>
         /\ N[c.i] = M[c.i] /\ ~J[M[c.i].inodp].mount
         /\ \A m \in 2..NMOUNT : N[m].bufp => J[N[m].inodp].name[1] # c.dev

\* A table that stays as it is does for every call.
LEMMA SameTableSuffices ==
    ASSUME NEW I \in [1..NINODE -> InodeRecords], NEW J \in [1..NINODE -> InodeRecords],
           NEW M \in [1..NMOUNT -> Entry], NEW N \in [1..NMOUNT -> Entry],
           NEW c \in CallStates, CallOK(c, I, M), TableOK(I, M), SameTable(I, J, M, N)
    PROVE  TableFor(c, I, J, M, N)
<1>1. N = M
  BY DEF SameTable
<1>2. c.call = "mount" /\ c.pc # "iput" => IsMounted(N, c.want[1])
  BY <1>1 DEF CallOK, MountingOK
<1>3. Mounting(c) =>
        /\ N[c.i] = M[c.i] /\ ~IsMounted(N, c.dev)
        /\ \A j \in 1..NMOUNT : j < c.i => N[j].inodp # c.ip
  BY <1>1 DEF CallOK, MountingOK, Mounting
<1>4. ASSUME Umounting(c)
      PROVE  /\ N[c.i] = M[c.i] /\ ~J[M[c.i].inodp].mount
             /\ \A m \in 2..NMOUNT : N[m].bufp => J[N[m].inodp].name[1] # c.dev
  <2>1. UmountingOK(c, I, M) /\ c.pc \in {"plock", "waits", "iput"}
    BY <1>4 DEF CallOK, Umounting
  <2>2. c.i \in 2..NMOUNT /\ M[c.i].bufp
    BY <2>1 DEF UmountingOK
  <2>3. ~J[M[c.i].inodp].mount
    <3>1. M[c.i].inodp \in 1..NINODE
      BY <2>2, DirectoryOf
    <3> QED BY <3>1, <2>1 DEF SameTable, UmountingOK
  <2>4. ASSUME NEW m \in 2..NMOUNT, M[m].bufp PROVE J[M[m].inodp].name[1] # c.dev
    <3>1. M[m].inodp \in 1..NINODE /\ KeptBy(M, M[m].inodp) # {}
      BY <2>4, DirectoryOf
    <3> QED BY <3>1, <2>1, <2>4 DEF SameTable, UmountingOK
  <2> QED BY <1>1, <2>3, <2>4
<1> QED BY <1>2, <1>3, <1>4 DEF TableFor

\* A call that does not move stays as it should be while others change what is not its own.
LEMMA OthersStay ==
    ASSUME NEW I \in [1..NINODE -> InodeRecords], NEW J \in [1..NINODE -> InodeRecords],
           NEW M \in [1..NMOUNT -> Entry], NEW N \in [1..NMOUNT -> Entry],
           NEW c \in CallStates, CallOK(c, I, M), TableOK(I, M),
           Locking(c) => SameLocked(I, J, LockOf(c)),
           TableFor(c, I, J, M, N)
    PROVE  CallOK(c, J, N)
<1>1. Locking(c) => LockOf(c) \in 1..NINODE /\ J[LockOf(c)].lock
  BY DEF CallOK, SameLocked
<1>2. c.pc \in {"bread", "opens", "geteblk", "iput"} => J[c.ip].count = 1
  <2>1. c.pc \in {"bread", "opens", "geteblk", "iput"} => Locking(c) /\ LockOf(c) = c.ip
    BY DEF Locking, LockOf
  <2> QED BY <2>1 DEF CallOK, SameLocked
<1>3. c.call = "mount" => MountingOK(c, J, N)
  <2> SUFFICES ASSUME c.call = "mount" PROVE MountingOK(c, J, N)
    OBVIOUS
  <2>1. MountingOK(c, I, M) /\ (c.pc \in {"opens", "geteblk"} => Mounting(c))
    BY DEF CallOK, Mounting
  <2>2. c.pc \in {"bread", "got", "opens", "geteblk"} =>
            J[c.ip].name = I[c.ip].name /\ (J[c.ip].mount => I[c.ip].mount)
    <3>1. c.pc \in {"bread", "got", "opens", "geteblk"} => Locking(c) /\ LockOf(c) = c.ip
      BY DEF Locking, LockOf
    <3> QED BY <3>1 DEF SameLocked
  <2>3. c.pc # "iput" => IsMounted(N, c.want[1])
    BY DEF TableFor
  <2>4. c.pc \in {"opens", "geteblk"} =>
          /\ N[c.i] = M[c.i] /\ ~IsMounted(N, c.dev)
          /\ \A j \in 1..NMOUNT : j < c.i => N[j].inodp # c.ip
    BY <2>1 DEF TableFor
  <2> QED BY <2>1, <2>2, <2>3, <2>4 DEF MountingOK
<1>4. c.call = "umount" => UmountingOK(c, J, N)
  <2> SUFFICES ASSUME c.call = "umount", c.pc \in {"plock", "waits", "iput"}
               PROVE UmountingOK(c, J, N)
    BY DEF UmountingOK
  <2>1. UmountingOK(c, I, M) /\ Umounting(c)
    BY DEF CallOK, Umounting
  <2>2. /\ N[c.i] = M[c.i] /\ ~J[M[c.i].inodp].mount
        /\ \A m \in 2..NMOUNT : N[m].bufp => J[N[m].inodp].name[1] # c.dev
    BY <2>1 DEF TableFor
  <2> QED BY <2>1, <2>2 DEF UmountingOK
<1> QED BY <1>1, <1>2, <1>3, <1>4 DEF CallOK

\* The call of p goes on to c without a clash.
Steers(p, c) == \A q \in Mounters : q # p => Beside(c, at[q])

\* c has chosen no entry, device or directory that d has not.
Tamer(c, d) ==
    /\ Mounting(c) => Mounting(d) /\ c.i = d.i /\ c.dev = d.dev
    /\ Umounting(c) => Umounting(d) /\ c.i = d.i /\ c.dev = d.dev
    /\ Walking(c) => Walking(d) /\ c.want = d.want

\* A call that goes on without choosing anything clashes with none.
LEMMA TamerSteers ==
    ASSUME MountInv, NEW p \in Mounters, NEW c, Tamer(c, at[p])
    PROVE  Steers(p, c)
  BY Zenon DEF Steers, Tamer, Beside, MountInv, CallsApart

\* A step in which one process goes on to c keeps the invariant if it keeps the counts and
\* the table, c is right, and what the others hold is as it was.
LEMMA StepKeeps ==
    ASSUME MountInv, NEW p \in Mounters, NEW c \in CallStates,
           c.call \in {at[p].call, "none"}, at' = [at EXCEPT ![p] = c],
           inodes' \in [1..NINODE -> InodeRecords], mounts' \in [1..NMOUNT -> Entry],
           updlock' \in BOOLEAN, mountCalls' \in Nat,
           Counted(at', inodes', mounts'), TableOK(inodes', mounts'),
           CallOK(c, inodes', mounts'),
           \A q \in Mounters : q # p /\ Locking(at[q]) =>
               /\ Locking(c) => LockOf(c) # LockOf(at[q])
               /\ SameLocked(inodes, inodes', LockOf(at[q])),
           Steers(p, c),
           \A q \in Mounters : q # p => TableFor(at[q], inodes, inodes', mounts, mounts')
    PROVE  MountInv'
<1> DEFINE I == inodes
           M == mounts
<1>1. /\ at \in [Mounters -> CallStates] /\ I \in [1..NINODE -> InodeRecords]
      /\ M \in [1..NMOUNT -> Entry] /\ TableOK(I, M)
      /\ \A q \in Mounters : CallOK(at[q], I, M)
  BY DEF MountInv, MountTypes
<1>2. at'[p] = c /\ \A q \in Mounters : q # p => at'[q] = at[q]
  BY <1>1
<1>3. MountTypes'
  BY <1>1 DEF MountTypes
<1>4. ASSUME NEW q \in Mounters PROVE CallOK(at'[q], inodes', mounts')
  <2>1. CASE q = p
    BY <2>1, <1>2
  <2>2. CASE q # p
    <3>1. at'[q] = at[q] /\ at[q] \in CallStates
      BY <1>1, <1>2, <2>2
    <3>2. Locking(at[q]) => SameLocked(I, inodes', LockOf(at[q]))
      BY <2>2
    <3>3. TableFor(at[q], I, inodes', M, mounts')
      BY <2>2
    <3>4. CallOK(at[q], inodes', mounts')
      <4>1. CallOK(at[q], I, M) /\ TableOK(I, M)
        BY <1>1
      <4> HIDE DEF I, M
      <4> QED BY <4>1, <3>1, <3>2, <3>3, <1>1, OthersStay
    <3> QED BY <3>1, <3>4
  <2> QED BY <2>1, <2>2
<1>5. LocksApart(at')
  <2> SUFFICES ASSUME NEW q \in Mounters, NEW r \in Mounters, q # r, Locking(at'[q]),
                      Locking(at'[r])
               PROVE  LockOf(at'[q]) # LockOf(at'[r])
    BY DEF LocksApart
  <2>1. CASE q # p /\ r # p
    BY <2>1, <1>2 DEF MountInv, LocksApart
  <2>2. CASE q = p
    BY <2>2, <1>2
  <2>3. CASE r = p
    BY <2>3, <1>2
  <2> QED BY <2>1, <2>2, <2>3
<1>6. CallsApart(at')
  <2> SUFFICES ASSUME NEW q \in Mounters, NEW r \in Mounters, q # r
               PROVE  Beside(at'[q], at'[r])
    BY DEF CallsApart
  <2>1. CASE q # p /\ r # p
    BY <2>1, <1>2 DEF MountInv, CallsApart
  <2>2. CASE q = p
    <3>1. at'[q] = c /\ at'[r] = at[r] /\ Beside(c, at[r])
      BY <2>2, <1>2 DEF Steers
    <3> QED BY <3>1
  <2>3. CASE r = p
    <3>1. at'[r] = c /\ at'[q] = at[q] /\ Beside(c, at[q])
      BY <2>3, <1>2 DEF Steers
    <3> QED BY <3>1 DEF Beside
  <2> QED BY <2>1, <2>2, <2>3
<1> QED BY <1>3, <1>4, <1>5, <1>6 DEF MountInv

\* A step that leaves the table as it is.
LEMMA SameTableForAll ==
    ASSUME MountInv, SameTable(inodes, inodes', mounts, mounts'),
           inodes' \in [1..NINODE -> InodeRecords], mounts' \in [1..NMOUNT -> Entry]
    PROVE  \A q \in Mounters : TableFor(at[q], inodes, inodes', mounts, mounts')
<1>1. /\ inodes \in [1..NINODE -> InodeRecords] /\ mounts \in [1..NMOUNT -> Entry]
      /\ TableOK(inodes, mounts)
      /\ \A q \in Mounters : at[q] \in CallStates /\ CallOK(at[q], inodes, mounts)
  BY DEF MountInv, MountTypes
<1> QED BY <1>1, SameTableSuffices

\* A step in which a process goes on without taking or giving up anything.
LEMMA OnlyMoves ==
    ASSUME MountInv, NEW p \in Mounters, NEW c \in CallStates,
           c.call \in {at[p].call, "none"}, at' = [at EXCEPT ![p] = c],
           inodes' = inodes, mounts' = mounts, updlock' \in BOOLEAN, mountCalls' = mountCalls,
           Locking(c) => Locking(at[p]) /\ LockOf(c) = LockOf(at[p]),
           \A s \in 1..NINODE : Holds(c, s) <=> Holds(at[p], s),
           CallOK(c, inodes, mounts), Steers(p, c)
    PROVE  MountInv'
<1>1. /\ MountTypes /\ TableOK(inodes, mounts) /\ Counted(at, inodes, mounts)
      /\ LocksApart(at)
  BY DEF MountInv
<1>2. Counted(at', inodes', mounts')
  <2>1. PICK B : B = at'
    OBVIOUS
  <2>2. /\ at \in [Mounters -> CallStates]
        /\ B[p] = c /\ \A q \in Mounters : q # p => B[q] = at[q]
    BY <1>1, <2>1 DEF MountTypes
  <2>3. ASSUME NEW s \in 1..NINODE PROVE inodes[s].count = Refs(B, mounts, s)
    <3>1. Refs(B, mounts, s) = (Refs(at, mounts, s) + OneHeld(c, s)) - OneHeld(at[p], s)
      BY <2>2, HeldAfter
    <3>2. OneHeld(c, s) = OneHeld(at[p], s) /\ OneHeld(c, s) \in {0, 1}
      <4>1. Holds(c, s) <=> Holds(at[p], s)
        OBVIOUS
      <4>2. OneHeld(c, s) = OneHeld(at[p], s)
        BY <4>1, Zenon DEF OneHeld
      <4>3. OneHeld(c, s) \in {0, 1}
        BY OneIsNumber, Zenon
      <4> QED BY <4>2, <4>3, Zenon
    <3>3. Refs(at, mounts, s) \in Nat
      BY RefsFinite
    <3>4. inodes[s].count = Refs(at, mounts, s)
      BY <1>1 DEF Counted
    <3> QED BY <3>1, <3>2, <3>3, <3>4
  <2>4. Counted(B, inodes, mounts)
    BY <2>3 DEF Counted
  <2> QED BY <2>1, <2>4
<1>3. \A q \in Mounters : q # p /\ Locking(at[q]) =>
          /\ Locking(c) => LockOf(c) # LockOf(at[q])
          /\ SameLocked(inodes, inodes', LockOf(at[q]))
  BY <1>1 DEF LocksApart, SameLocked
<1>4. /\ inodes' \in [1..NINODE -> InodeRecords] /\ mounts' \in [1..NMOUNT -> Entry]
      /\ mountCalls' \in Nat
  BY <1>1 DEF MountTypes
<1>5. \A q \in Mounters : q # p => TableFor(at[q], inodes, inodes', mounts, mounts')
  <2>1. SameTable(inodes, inodes', mounts, mounts')
    BY DEF SameTable
  <2> QED BY <1>1, <1>4, <2>1, SameTableForAll
<1>6. TableOK(inodes', mounts') /\ CallOK(c, inodes', mounts')
  BY <1>1
<1> QED BY <1>2, <1>3, <1>5, <1>4, <1>6, StepKeeps

\* Changes(p, c, s, x): a step in which p goes on to c and inode s becomes x.
Changes(p, c, s, x) ==
    /\ at' = [at EXCEPT ![p] = c] /\ inodes' = [inodes EXCEPT ![s] = x]
    /\ mountCalls' = mountCalls

\* What such a step does to the locks of the others.
LEMMA LocksAfter ==
    ASSUME MountInv, NEW p \in Mounters, NEW c \in CallStates, NEW s \in 1..NINODE,
           NEW x \in InodeRecords, Changes(p, c, s, x),
           \/ /\ Locking(c) => LockOf(c) = s
              /\ \A q \in Mounters : q # p /\ Locking(at[q]) => LockOf(at[q]) # s
           \/ /\ ~Locking(c)
              /\ x = [inodes[s] EXCEPT !.mount = FALSE]
    PROVE  \A q \in Mounters : q # p /\ Locking(at[q]) =>
               /\ Locking(c) => LockOf(c) # LockOf(at[q])
               /\ SameLocked(inodes, inodes', LockOf(at[q]))
<1> SUFFICES ASSUME NEW q \in Mounters, q # p, Locking(at[q])
             PROVE  /\ Locking(c) => LockOf(c) # LockOf(at[q])
                    /\ SameLocked(inodes, inodes', LockOf(at[q]))
  OBVIOUS
<1>1. inodes \in [1..NINODE -> InodeRecords] /\ LockOf(at[q]) \in 1..NINODE
  BY DEF MountInv, MountTypes, CallOK
<1>2. inodes'[s] = x /\ \A t \in 1..NINODE : t # s => inodes'[t] = inodes[t]
  BY <1>1 DEF Changes
<1>3. CASE LockOf(at[q]) # s
  BY <1>1, <1>2, <1>3 DEF SameLocked
<1>4. CASE LockOf(at[q]) = s
  <2>1. ~Locking(c) /\ x = [inodes[s] EXCEPT !.mount = FALSE]
    BY <1>4
  <2>2. inodes[s] \in InodeRecords
    BY <1>1
  <2>3. x.name = inodes[s].name /\ x.count = inodes[s].count /\ x.lock = inodes[s].lock /\ ~x.mount
    BY <2>1, <2>2 DEF InodeRecords
  <2> QED BY <2>1, <2>3, <1>2, <1>4 DEF SameLocked
<1> QED BY <1>3, <1>4

\* A step that changes one inode, which no other call has locked or whose lock, count and
\* name it leaves, by as much as its own references change.
LEMMA InodeChanges ==
    ASSUME MountInv, NEW p \in Mounters, NEW c \in CallStates,
           c.call \in {at[p].call, "none"}, NEW s \in 1..NINODE, NEW x \in InodeRecords,
           Changes(p, c, s, x), mounts' = mounts, updlock' \in BOOLEAN,
           \/ /\ Locking(c) => LockOf(c) = s
              /\ \A q \in Mounters : q # p /\ Locking(at[q]) => LockOf(at[q]) # s
           \/ /\ ~Locking(c)
              /\ x = [inodes[s] EXCEPT !.mount = FALSE],
           x.count = (inodes[s].count + OneHeld(c, s)) - OneHeld(at[p], s),
           \A t \in 1..NINODE : t # s => (Holds(c, t) <=> Holds(at[p], t)),
           x.mount => inodes[s].mount,
           KeptBy(mounts, s) # {} => x.name = inodes[s].name,
           CallOK(c, inodes', mounts), Steers(p, c)
    PROVE  MountInv'
<1>1. /\ MountTypes /\ TableOK(inodes, mounts) /\ Counted(at, inodes, mounts)
      /\ at' = [at EXCEPT ![p] = c] /\ mountCalls' = mountCalls
  BY DEF MountInv, Changes
<1>2. inodes'[s] = x /\ \A t \in 1..NINODE : t # s => inodes'[t] = inodes[t]
  BY <1>1 DEF Changes, MountTypes
<1>3. /\ inodes' \in [1..NINODE -> InodeRecords] /\ mounts' \in [1..NMOUNT -> Entry]
      /\ mountCalls' \in Nat
  BY <1>1 DEF MountTypes, Changes
<1>4. Counted(at', inodes', mounts')
  <2>1. PICK B : B = at'
    OBVIOUS
  <2>2. PICK J : J = inodes'
    OBVIOUS
  <2>3. /\ at \in [Mounters -> CallStates]
        /\ B[p] = c /\ \A q \in Mounters : q # p => B[q] = at[q]
    BY <1>1, <2>1 DEF MountTypes
  <2>4. J[s] = x /\ \A t \in 1..NINODE : t # s => J[t] = inodes[t]
    BY <1>2, <2>2
  <2>5. ASSUME NEW t \in 1..NINODE PROVE J[t].count = Refs(B, mounts, t)
    <3>1. Refs(B, mounts, t) = (Refs(at, mounts, t) + OneHeld(c, t)) - OneHeld(at[p], t)
      BY <2>3, HeldAfter
    <3>2. OneHeld(c, t) \in {0, 1} /\ OneHeld(at[p], t) \in {0, 1}
      BY OneIsNumber, Zenon
    <3>3. Refs(at, mounts, t) \in Nat
      BY RefsFinite
    <3>4. inodes[t].count = Refs(at, mounts, t)
      BY <1>1 DEF Counted
    <3>5. CASE t = s
      BY <3>1, <3>4, <3>5, <2>4
    <3>6. CASE t # s
      <4>1. Holds(c, t) <=> Holds(at[p], t)
        BY <3>6
      <4>2. OneHeld(c, t) = OneHeld(at[p], t)
        BY <4>1, OneIsNumber
      <4> QED BY <4>2, <3>1, <3>2, <3>3, <3>4, <3>6, <2>4
    <3> QED BY <3>5, <3>6
  <2>6. Counted(B, J, mounts)
    BY <2>5 DEF Counted
  <2> QED BY <2>1, <2>2, <2>6
<1>5. SameTable(inodes, inodes', mounts, mounts')
  BY <1>2 DEF SameTable
<1>6. TableOK(inodes', mounts')
  <2>1. ASSUME NEW m \in 2..NMOUNT, mounts[m].bufp
        PROVE  IsMounted(mounts, inodes'[mounts[m].inodp].name[1])
    <3>1. mounts[m].inodp \in 1..NINODE /\ KeptBy(mounts, mounts[m].inodp) # {}
      BY <1>1, <2>1, DirectoryOf DEF MountTypes
    <3>2. inodes'[mounts[m].inodp].name = inodes[mounts[m].inodp].name
      BY <3>1, <1>5 DEF SameTable
    <3> QED BY <3>2, <2>1, <1>1 DEF TableOK
  <2>2. ASSUME NEW t \in 1..NINODE, inodes'[t].mount PROVE KeptBy(mounts, t) # {}
    <3>1. inodes[t].mount
      BY <2>2, <1>5 DEF SameTable
    <3> QED BY <3>1, <1>1 DEF TableOK
  <2> QED BY <1>1, <2>1, <2>2 DEF TableOK
<1>7. \A q \in Mounters : q # p /\ Locking(at[q]) =>
          /\ Locking(c) => LockOf(c) # LockOf(at[q])
          /\ SameLocked(inodes, inodes', LockOf(at[q]))
  BY LocksAfter
<1>8. \A q \in Mounters : q # p => TableFor(at[q], inodes, inodes', mounts, mounts')
  BY <1>3, <1>5, SameTableForAll
<1>9. CallOK(c, inodes', mounts')
  OBVIOUS
<1> QED BY <1>1, <1>3, <1>4, <1>6, <1>7, <1>9, <1>8, StepKeeps

----------------------------------------------------------------------------
(* The fields of a call and of an inode after a step *)

\* c is d gone on to pc, with the name, the inode and the index given.
Gone(c, d, pc, want, ip, i) ==
    /\ c \in CallStates
    /\ c.call = d.call /\ c.dev = d.dev
    /\ c.pc = pc /\ c.want = want /\ c.ip = ip /\ c.i = i

\* A process that is not in a call has and locks nothing.
LEMMA UserState ==
    /\ AtUser \in CallStates /\ ~Locking(AtUser) /\ AtUser.call = "none"
    /\ \A s : ~Holds(AtUser, s) /\ OneHeld(AtUser, s) = 0
    /\ \A I, M : CallOK(AtUser, I, M)
    /\ \A d : Tamer(AtUser, d)
<1>1. Unnamed \in Names
  BY DEF Unnamed, Names, DevIds
<1>2. AtUser \in CallStates
  BY <1>1, MountAssumption DEF AtUser, CallStates, DevIds
<1>3. AtUser.call = "none" /\ AtUser.pc = "user"
  BY DEF AtUser
<1>4. ~Locking(AtUser) /\ \A s : ~Holds(AtUser, s)
  BY <1>3 DEF Locking, Holds
<1>5. \A I, M : CallOK(AtUser, I, M)
  BY <1>3, <1>4 DEF CallOK, PcFits
<1>6. \A d : Tamer(AtUser, d)
  BY <1>3 DEF Tamer, Mounting, Umounting, Walking
<1> QED BY <1>2, <1>3, <1>4, <1>5, <1>6 DEF OneHeld

\* A call that returns clashes with none.
LEMMA UserSteers ==
    ASSUME MountInv, NEW p \in Mounters
    PROVE  Steers(p, AtUser)
  BY UserState, TamerSteers

\* The inode of no name.
LEMMA FreeFields ==
    /\ FreeInode \in InodeRecords /\ FreeInode.name = Unnamed /\ FreeInode.count = 0
    /\ ~FreeInode.lock /\ ~FreeInode.mount
<1>1. Unnamed \in Names
  BY DEF Unnamed, Names, DevIds
<1> QED BY <1>1 DEF FreeInode, InodeRecords

\* What is known of a process and its call.
LEMMA CallFacts ==
    ASSUME MountInv, NEW p \in Mounters
    PROVE  /\ at \in [Mounters -> CallStates] /\ at[p] \in CallStates
           /\ inodes \in [1..NINODE -> InodeRecords] /\ mounts \in [1..NMOUNT -> Entry]
           /\ updlock \in BOOLEAN /\ CallOK(at[p], inodes, mounts) /\ PcFits(at[p])
           /\ TableOK(inodes, mounts)
           /\ Locking(at[p]) => LockOf(at[p]) \in 1..NINODE /\ inodes[LockOf(at[p])].lock
  BY DEF MountInv, MountTypes, CallOK

\* An inode that is not locked, or that the process itself has locked, no other has.
LEMMA OthersLocks ==
    ASSUME MountInv, NEW p \in Mounters, NEW s \in 1..NINODE,
           ~inodes[s].lock \/ (Locking(at[p]) /\ LockOf(at[p]) = s)
    PROVE  \A q \in Mounters : q # p /\ Locking(at[q]) => LockOf(at[q]) # s
<1> SUFFICES ASSUME NEW q \in Mounters, q # p, Locking(at[q]) PROVE LockOf(at[q]) # s
  OBVIOUS
<1>1. CASE ~inodes[s].lock
  BY <1>1 DEF MountInv, CallOK
<1>2. CASE Locking(at[p]) /\ LockOf(at[p]) = s
  BY <1>2 DEF MountInv, LocksApart
<1> QED BY <1>1, <1>2

\* A walk that comes to a directory that is mounted on goes on in a device that is mounted.
LEMMA LeadsTo ==
    ASSUME MountInv, NEW s \in 1..NINODE, inodes[s].mount
    PROVE  /\ LedTo(s) # {} /\ Min(LedTo(s)) \in 1..NMOUNT /\ mounts[Min(LedTo(s))].bufp
           /\ mounts[Min(LedTo(s))].inodp = s
<1>1. TableOK(inodes, mounts) /\ mounts \in [1..NMOUNT -> Entry]
  BY DEF MountInv, MountTypes
<1>2. PICK m \in 2..NMOUNT : mounts[m].bufp /\ mounts[m].inodp = s
  BY <1>1 DEF TableOK, KeptBy, Kept
<1>3. m \in 1..NMOUNT /\ \A j \in 1..NMOUNT : j < m => mounts[j].inodp # s
  BY <1>1, <1>2, MountAssumption DEF TableOK
<1> DEFINE L == LedTo(s)
<1>4. m \in L /\ L \in SUBSET Nat /\ L \subseteq 1..NMOUNT
  BY <1>2, <1>3, MountAssumption DEF LedTo
<1> HIDE DEF L
<1>5. Min(L) \in L /\ \A y \in L : Min(L) <= y
  BY <1>4, MinOfNumbers
<1>6. PICK n : n = Min(L)
  OBVIOUS
<1>7. n \in L /\ n <= m /\ n \in 1..NMOUNT
  BY <1>4, <1>5, <1>6
<1>8. mounts[n].inodp = s
  BY <1>7 DEF L, LedTo
<1>9. n = m
  <2>1. ~(n < m)
    BY <1>3, <1>7, <1>8
  <2> QED BY <2>1, <1>7, <1>3, MountAssumption
<1> QED BY <1>2, <1>3, <1>4, <1>6, <1>9 DEF L

----------------------------------------------------------------------------
(* Steps that take and give up nothing *)

\* iget that follows a directory that is mounted on.
LEMMA FollowsKeeps ==
    ASSUME MountInv, NEW p \in Mounters, IgetFollows(p)
    PROVE  MountInv'
<1>1. PICK s \in Found(at[p].want) :
        /\ inodes[s].mount
        /\ at' = [at EXCEPT ![p].want = <<mounts[Min(LedTo(s))].dev, RootIno>>]
  BY DEF IgetFollows, Inode
<1>2. at[p].pc = "iget" /\ UNCHANGED <<inodes, mounts, updlock, mountCalls>>
  BY DEF IgetFollows
<1>3. s \in 1..NINODE
  BY DEF Found
<1>4. PICK m : m = Min(LedTo(s))
  OBVIOUS
<1>5. m \in 1..NMOUNT /\ mounts[m].bufp /\ mounts[m] \in Entry /\ mounts[m].inodp = s
  BY <1>1, <1>3, <1>4, LeadsTo, CallFacts
<1> DEFINE n == <<mounts[m].dev, RootIno>>
<1>6. n \in Names /\ n[1] = mounts[m].dev /\ n[2] = "root"
  BY <1>5 DEF Names, DevIds, Entry, RootIno
<1>7. at' = [at EXCEPT ![p].want = n]
  BY <1>1, <1>4
<1> HIDE DEF n
<1> DEFINE c == [at[p] EXCEPT !.want = n]
<1>8. Gone(c, at[p], at[p].pc, n, at[p].ip, at[p].i) /\ at' = [at EXCEPT ![p] = c]
  BY <1>6, <1>7, CallFacts DEF Gone, CallStates
<1> HIDE DEF c
<1>9. IsMounted(mounts, n[1])
  BY <1>5, <1>6 DEF IsMounted
<1>10. CallOK(c, inodes, mounts)
  <2>1. CallOK(at[p], inodes, mounts)
    BY CallFacts
  <2> QED BY <2>1, <1>2, <1>6, <1>8, <1>9
          DEF CallOK, Gone, PcFits, MountingOK, UmountingOK, Locking, LockOf
<1>11. ~Locking(c) /\ \A t : Holds(c, t) <=> Holds(at[p], t)
  BY <1>2, <1>8 DEF Locking, Holds, Gone
<1>12. /\ c \in CallStates /\ c.call = at[p].call /\ updlock' \in BOOLEAN
  BY <1>2, <1>8, CallFacts DEF Gone
<1>13. Steers(p, c)
  <2> SUFFICES ASSUME NEW q \in Mounters, q # p PROVE Beside(c, at[q])
    BY DEF Steers
  <2>1. ~Mounting(c) /\ ~Umounting(c) /\ c.want = n
    BY <1>2, <1>8 DEF Mounting, Umounting, Gone
  <2>2. ASSUME Umounting(at[q]) PROVE n[1] # at[q].dev
    <3>1. UmountingOK(at[q], inodes, mounts) /\ at[q].pc \in {"plock", "waits", "iput"}
      BY <2>2, CallFacts DEF CallOK, Umounting
    <3>2. /\ at[q].i \in 1..NMOUNT /\ mounts[at[q].i].bufp /\ mounts[at[q].i].dev = at[q].dev
          /\ ~inodes[mounts[at[q].i].inodp].mount
      BY <3>1, MountAssumption DEF UmountingOK
    <3>3. at[q].i # m
      BY <3>2, <1>1, <1>5
    <3>4. mounts[at[q].i].dev # mounts[m].dev
      BY <3>2, <3>3, <1>5, CallFacts DEF TableOK
    <3> QED BY <3>2, <3>4, <1>6
  <2> QED BY <2>1, <2>2 DEF Beside
<1> QED BY <1>2, <1>8, <1>10, <1>11, <1>12, <1>13, OnlyMoves

\* Going to sleep for a lock or in bwrite, waking, and the choice of an entry.
Resting(pc) == pc \in {"iget", "asleep", "update", "super", "bwrite", "inodes", "check",
                       "plock", "waits"}

\* A step between two places at which nothing is held.
LEMMA RestingMoves ==
    ASSUME MountInv, NEW p \in Mounters, NEW c, Resting(at[p].pc), Resting(c.pc),
           NEW i, Gone(c, at[p], c.pc, at[p].want, at[p].ip, i), at' = [at EXCEPT ![p] = c],
           c.pc \in {"plock", "waits"} => at[p].pc \in {"plock", "waits"} /\ i = at[p].i,
           PcFits(c), c.pc \in {"super", "bwrite", "inodes"} => i # 0,
           UNCHANGED <<inodes, mounts, mountCalls>>, updlock' \in BOOLEAN
    PROVE  MountInv'
<1>1. CallOK(at[p], inodes, mounts)
  BY CallFacts
<1>2. CallOK(c, inodes, mounts)
  <2>1. ~Locking(c)
    BY DEF Resting, Locking
  <2>2. c.call = "umount" => UmountingOK(c, inodes, mounts)
    BY <1>1 DEF CallOK, UmountingOK, Gone, Resting
  <2>3. c.call = "mount" => MountingOK(c, inodes, mounts)
    BY <1>1 DEF CallOK, MountingOK, Gone, Resting, PcFits
  <2> QED BY <1>1, <2>1, <2>2, <2>3 DEF CallOK, Gone, Resting
<1>3. ~Locking(c) /\ \A t : Holds(c, t) <=> Holds(at[p], t)
  BY DEF Locking, Holds, Gone, Resting
<1>4. c \in CallStates /\ c.call = at[p].call
  BY DEF Gone
<1>5. Steers(p, c)
  <2>1. Tamer(c, at[p])
    BY CallFacts DEF Tamer, Gone, Mounting, Umounting, Walking, Resting, PcFits
  <2> QED BY <2>1, TamerSteers
<1> QED BY <1>2, <1>3, <1>4, <1>5, OnlyMoves

\* A call that returns at a place where it holds nothing.
LEMMA RestingEnds ==
    ASSUME MountInv, NEW p \in Mounters, Resting(at[p].pc), Ends(p),
           UNCHANGED <<inodes, mounts, mountCalls>>, updlock' \in BOOLEAN
    PROVE  MountInv'
<1>1. at' = [at EXCEPT ![p] = AtUser]
  BY DEF Ends
<1>2. \A t : ~Holds(at[p], t)
  BY DEF Holds, Resting
<1> QED BY <1>1, <1>2, UserState, UserSteers, OnlyMoves

\* iget that finds its inode locked goes to sleep, and looks again when it is not.
LEMMA IgetRestsKeeps ==
    ASSUME MountInv, NEW p \in Mounters, IgetSleeps(p) \/ IgetWakes(p)
    PROVE  MountInv'
<1>1. PICK pc \in {"asleep", "iget"} :
        at' = [at EXCEPT ![p].pc = pc] /\ at[p].pc \in {"asleep", "iget"}
  BY DEF IgetSleeps, IgetWakes, Go
<1> DEFINE c == [at[p] EXCEPT !.pc = pc]
<1>2. /\ Gone(c, at[p], pc, at[p].want, at[p].ip, at[p].i)
      /\ at' = [at EXCEPT ![p] = c] /\ c.pc = pc /\ c.call = at[p].call
  BY <1>1, CallFacts DEF Gone, CallStates
<1> HIDE DEF c
<1>3. PcFits(c)
  BY <1>1, <1>2, CallFacts DEF PcFits
<1>4. Resting(at[p].pc) /\ Resting(c.pc) /\ c.pc \notin {"plock", "waits", "super", "bwrite", "inodes"}
  BY <1>1, <1>2 DEF Resting
<1>5. UNCHANGED <<inodes, mounts, mountCalls>> /\ updlock' \in BOOLEAN
  BY CallFacts DEF IgetSleeps, IgetWakes
<1> QED BY <1>2, <1>3, <1>4, <1>5, RestingMoves

\* plock sleeps and wakes.
LEMMA PlockSleepsKeeps ==
    ASSUME MountInv, NEW p \in Mounters, PlockSleeps(p)
    PROVE  MountInv'
<1>1. PICK pc \in {"plock", "waits"} :
        at' = [at EXCEPT ![p].pc = pc] /\ at[p].pc \in {"plock", "waits"}
  BY DEF PlockSleeps, Go
<1> DEFINE c == [at[p] EXCEPT !.pc = pc]
<1>2. /\ Gone(c, at[p], pc, at[p].want, at[p].ip, at[p].i)
      /\ at' = [at EXCEPT ![p] = c] /\ c.pc = pc /\ c.call = at[p].call
  BY <1>1, CallFacts DEF Gone, CallStates
<1> HIDE DEF c
<1>3. PcFits(c)
  BY <1>1, <1>2, CallFacts DEF PcFits
<1>4. Resting(at[p].pc) /\ Resting(c.pc) /\ c.pc \notin {"super", "bwrite", "inodes"}
  BY <1>1, <1>2 DEF Resting
<1>5. UNCHANGED <<inodes, mounts, mountCalls>> /\ updlock' \in BOOLEAN
  BY CallFacts DEF PlockSleeps
<1> QED BY <1>1, <1>2, <1>3, <1>4, <1>5, RestingMoves

\* update, from its beginning to the inodes.
LEMMA UpdateKeeps ==
    ASSUME MountInv, NEW p \in Mounters, UpdateBegins(p) \/ SupersWritten(p)
    PROVE  MountInv'
<1>1. UNCHANGED <<inodes, mounts, mountCalls>> /\ updlock' \in BOOLEAN
  BY CallFacts DEF UpdateBegins, SupersWritten
<1>2. at[p].pc \in {"update", "super", "bwrite"} /\ at[p].call \in {"umount", "sync"}
  BY CallFacts DEF UpdateBegins, SupersWritten, PcFits, CallStates
<1>3. Resting(at[p].pc)
  BY <1>2 DEF Resting
<1>4. CASE Ends(p)
  BY <1>1, <1>3, <1>4, RestingEnds
<1>5. CASE UpdateBegins(p) /\ at' = [at EXCEPT ![p].pc = "super", ![p].i = 1]
  <2> DEFINE c == [at[p] EXCEPT !.pc = "super", !.i = 1]
  <2>1. /\ Gone(c, at[p], "super", at[p].want, at[p].ip, 1)
        /\ at' = [at EXCEPT ![p] = c] /\ c.pc = "super" /\ c.call = at[p].call
    BY <1>5, CallFacts DEF Gone, CallStates
  <2> HIDE DEF c
  <2>2. PcFits(c) /\ Resting(c.pc)
    BY <1>2, <2>1 DEF PcFits, Resting
  <2>3. c.pc \notin {"plock", "waits"} /\ c.i = 1 /\ c.i # 0
    BY <2>1 DEF Gone
  <2>4. Gone(c, at[p], c.pc, at[p].want, at[p].ip, c.i)
    BY <2>1, <2>3
  <2> QED BY <1>1, <1>3, <2>1, <2>2, <2>3, <2>4, RestingMoves
<1>6. CASE UpdateBegins(p) /\ at[p].call = "umount" /\ Go(p, "check")
  <2> DEFINE c == [at[p] EXCEPT !.pc = "check"]
  <2>1. /\ Gone(c, at[p], "check", at[p].want, at[p].ip, at[p].i)
        /\ at' = [at EXCEPT ![p] = c] /\ c.pc = "check" /\ c.call = at[p].call
    BY <1>6, CallFacts DEF Gone, CallStates, Go
  <2> HIDE DEF c
  <2>2. PcFits(c) /\ Resting(c.pc)
    BY <1>6, <2>1 DEF PcFits, Resting
  <2> QED BY <1>1, <1>3, <2>1, <2>2, RestingMoves
<1>7. ASSUME SupersWritten(p), NEW pc \in {"bwrite", "inodes"}, Go(p, pc) PROVE MountInv'
  <2> DEFINE c == [at[p] EXCEPT !.pc = pc]
  <2>1. /\ Gone(c, at[p], pc, at[p].want, at[p].ip, at[p].i)
        /\ at' = [at EXCEPT ![p] = c] /\ c.pc = pc /\ c.call = at[p].call
    BY <1>7, CallFacts DEF Gone, CallStates, Go
  <2> HIDE DEF c
  <2>2. PcFits(c) /\ Resting(c.pc) /\ c.pc \notin {"plock", "waits"}
    BY <1>2, <1>7, <2>1 DEF PcFits, Resting
  <2>3. at[p].i # 0
    <3>1. at[p].pc \in {"super", "bwrite"}
      BY <1>7 DEF SupersWritten
    <3> QED BY <3>1, CallFacts DEF CallOK
  <2> QED BY <1>1, <1>3, <1>7, <2>1, <2>2, <2>3, RestingMoves
<1>8. \/ UpdateBegins(p) /\ at' = [at EXCEPT ![p].pc = "super", ![p].i = 1]
      \/ UpdateBegins(p) /\ at[p].call = "umount" /\ Go(p, "check")
      \/ Ends(p)
      \/ SupersWritten(p) /\ (Go(p, "bwrite") \/ Go(p, "inodes"))
  BY Zenon DEF UpdateBegins, SupersWritten
<1> QED BY <1>4, <1>5, <1>6, <1>7, <1>8

----------------------------------------------------------------------------
(* Steps that change one inode *)

\* x is the record of an inode with these fields.
Made(x, name, count, lock, mount) ==
    /\ x \in InodeRecords
    /\ x.name = name /\ x.count = count /\ (x.lock <=> lock) /\ (x.mount <=> mount)

\* iget that finds its inode in core.
LEMMA FindsKeeps ==
    ASSUME MountInv, NEW p \in Mounters, IgetFinds(p)
    PROVE  MountInv'
<1>1. PICK s \in Found(at[p].want) :
        /\ ~inodes[s].lock /\ ~inodes[s].mount
        /\ inodes' = [inodes EXCEPT ![s].count = @ + 1, ![s].lock = TRUE]
        /\ at' = [at EXCEPT ![p].pc = "got", ![p].ip = s]
  BY DEF IgetFinds, Inode
<1>2. at[p].pc = "iget" /\ UNCHANGED <<mounts, updlock, mountCalls>>
  BY DEF IgetFinds
<1>3. s \in 1..NINODE /\ inodes[s] \in InodeRecords /\ inodes[s].name = at[p].want
  BY <1>1, CallFacts DEF Found, Inode
<1> DEFINE c == [at[p] EXCEPT !.pc = "got", !.ip = s]
           x == [inodes[s] EXCEPT !.count = @ + 1, !.lock = TRUE]
<1>4. Gone(c, at[p], "got", at[p].want, s, at[p].i)
  <2>1. s \in 0..NINODE /\ at[p] \in CallStates
    BY <1>3, CallFacts
  <2> QED BY <2>1 DEF Gone, CallStates
<1>5. Made(x, at[p].want, inodes[s].count + 1, TRUE, FALSE)
  <2> DEFINE n == inodes[s].count + 1
  <2>1. n \in Nat /\ x = [inodes[s] EXCEPT !.count = n, !.lock = TRUE]
    BY <1>3 DEF InodeRecords
  <2>2. x \in InodeRecords
    <3> HIDE DEF n, x
    <3> QED BY <1>3, <2>1 DEF InodeRecords
  <2>3. x.name = inodes[s].name /\ x.count = inodes[s].count + 1 /\ x.lock /\ ~x.mount
    BY <1>1, <1>3 DEF InodeRecords
  <2> QED BY <1>3, <2>2, <2>3 DEF Made
<1>6. Changes(p, c, s, x)
  BY <1>1, <1>2, <1>3, CallFacts DEF Changes
<1> HIDE DEF c, x
<1>7. inodes'[s] = x
  BY <1>3, <1>6, CallFacts DEF Changes
<1>8. /\ \A t : ~Holds(at[p], t) /\ (Holds(c, t) <=> t = s)
      /\ Locking(c) /\ LockOf(c) = s
  BY <1>2, <1>4 DEF Holds, Gone, Locking, LockOf
<1>9. CallOK(c, inodes', mounts)
  <2>1. c.call = "mount" => MountingOK(c, inodes', mounts)
    <3> SUFFICES ASSUME c.call = "mount" PROVE MountingOK(c, inodes', mounts)
      OBVIOUS
    <3>1. MountingOK(at[p], inodes, mounts)
      BY <1>4, CallFacts DEF CallOK, Gone
    <3>2. IsMounted(mounts, c.want[1]) /\ c.pc = "got" /\ c.ip = s
      BY <3>1, <1>2, <1>4 DEF MountingOK, Gone
    <3>3. inodes'[c.ip].name = c.want /\ ~inodes'[c.ip].mount
      BY <3>2, <1>4, <1>5, <1>7 DEF Gone, Made
    <3> QED BY <3>2, <3>3 DEF MountingOK
  <2>2. PcFits(c) /\ c.call # "umount"
    BY <1>2, <1>4, CallFacts DEF PcFits, Gone
  <2>3. inodes'[s].lock
    BY <1>5, <1>7 DEF Made
  <2> QED BY <1>2, <1>3, <1>4, <1>8, <2>1, <2>2, <2>3, CallFacts DEF CallOK, Gone
<1>10. x.count = (inodes[s].count + OneHeld(c, s)) - OneHeld(at[p], s)
  BY <1>3, <1>5, <1>8 DEF OneHeld, Made, InodeRecords
<1>11. /\ c \in CallStates /\ c.call = at[p].call /\ x \in InodeRecords
       /\ ~x.mount /\ x.name = inodes[s].name
  BY <1>3, <1>4, <1>5 DEF Gone, Made
<1>12. \A q \in Mounters : q # p /\ Locking(at[q]) => LockOf(at[q]) # s
  BY <1>1, <1>3, OthersLocks
<1>13. mounts' = mounts /\ updlock' \in BOOLEAN
  BY <1>2, CallFacts
<1>14. Steers(p, c)
  <2>1. Tamer(c, at[p])
    BY <1>2, <1>4 DEF Tamer, Gone, Mounting, Umounting, Walking
  <2> QED BY <2>1, TamerSteers
<1> QED BY <1>3, <1>6, <1>8, <1>9, <1>10, <1>11, <1>12, <1>13, <1>14, InodeChanges

\* What refers to an inode with no count, or a count of 1.
LEMMA CountFacts ==
    ASSUME MountInv, NEW s \in 1..NINODE, inodes[s].count \in {0, 1}
    PROVE  /\ inodes[s].count = Refs(at, mounts, s)
           /\ inodes[s].count = 0 => HeldBy(at, s) = {} /\ KeptBy(mounts, s) = {} /\ s # 1
           /\ \A p \in HeldBy(at, s) :
                  HeldBy(at, s) = {p} /\ KeptBy(mounts, s) = {} /\ s # 1
           /\ \A m \in KeptBy(mounts, s) :
                  KeptBy(mounts, s) = {m} /\ HeldBy(at, s) = {} /\ s # 1
<1>1. inodes[s].count = Refs(at, mounts, s)
  BY DEF MountInv, Counted
<1> QED BY <1>1, FewRefs

\* What a call has locked it has a reference to, or the entry that umount gives up has.
LEMMA LockedIsHeld ==
    ASSUME MountInv, NEW q \in Mounters, Locking(at[q])
    PROVE  inodes[LockOf(at[q])].count # 0
<1>1. CASE at[q].pc = "iput"
  <2>1. CallOK(at[q], inodes, mounts) /\ LockOf(at[q]) = at[q].ip
    BY <1>1, CallFacts DEF LockOf
  <2>2. inodes[at[q].ip].count = 1
    BY <2>1, <1>1 DEF CallOK
  <2> QED BY <2>1, <2>2
<1>2. CASE at[q].pc # "iput"
  <2>1. Holds(at[q], LockOf(at[q]))
    BY <1>2 DEF Holds, Locking, LockOf
  <2>2. q \in HeldBy(at, LockOf(at[q])) /\ LockOf(at[q]) \in 1..NINODE
    BY <2>1, CallFacts DEF HeldBy
  <2> QED BY <2>2, CountFacts
<1> QED BY <1>1, <1>2

\* iget that takes a free entry, or finds none.
LEMMA ReadsKeeps ==
    ASSUME MountInv, NEW p \in Mounters, IgetReads(p)
    PROVE  MountInv'
<1>1. at[p].pc = "iget" /\ UNCHANGED <<mounts, updlock, mountCalls>>
  BY DEF IgetReads
<1>2. CASE Ends(p) /\ inodes' = inodes
  <2>1. Resting(at[p].pc)
    BY <1>1 DEF Resting
  <2> QED BY <1>1, <1>2, <2>1, CallFacts, RestingEnds
<1> DEFINE free == {s \in 1..NINODE : inodes[s].count = 0}
<1>3. CASE /\ free # {}
           /\ inodes' = [inodes EXCEPT ![Min(free)] =
                            [FreeInode EXCEPT !.name = at[p].want, !.count = 1, !.lock = TRUE]]
           /\ at' = [at EXCEPT ![p].pc = "bread", ![p].ip = Min(free)]
  <2>1. free \in SUBSET Nat /\ free \subseteq 1..NINODE
    BY MountAssumption
  <2>2. Min(free) \in free
    <3> HIDE DEF free
    <3> QED BY <1>3, <2>1, MinOfNumbers
  <2>3. PICK s : s = Min(free)
    OBVIOUS
  <2>4. s \in 1..NINODE /\ inodes[s].count = 0
    BY <2>2, <2>3
  <2> DEFINE c == [at[p] EXCEPT !.pc = "bread", !.ip = s]
             x == [FreeInode EXCEPT !.name = at[p].want, !.count = 1, !.lock = TRUE]
  <2>5. inodes' = [inodes EXCEPT ![s] = x] /\ at' = [at EXCEPT ![p].pc = "bread", ![p].ip = s]
    BY <1>3, <2>3
  <2> HIDE DEF free
  <2>6. Gone(c, at[p], "bread", at[p].want, s, at[p].i)
    <3>1. s \in 0..NINODE /\ at[p] \in CallStates
      BY <2>4, CallFacts
    <3> QED BY <3>1 DEF Gone, CallStates
  <2>7. Made(x, at[p].want, 1, TRUE, FALSE)
    <3>1. at[p].want \in Names
      BY CallFacts DEF CallStates
    <3> QED BY <3>1, FreeFields DEF Made, InodeRecords
  <2>8. Changes(p, c, s, x)
    <3>1. at' = [at EXCEPT ![p] = c]
      BY <2>5, CallFacts
    <3> HIDE DEF c, x
    <3> QED BY <1>1, <2>5, <3>1 DEF Changes
  <2> HIDE DEF c, x
  <2>9. inodes'[s] = x
    BY <2>4, <2>8, CallFacts DEF Changes
  <2>10. /\ \A t : ~Holds(at[p], t) /\ (Holds(c, t) <=> t = s)
         /\ Locking(c) /\ LockOf(c) = s
    BY <1>1, <2>6 DEF Holds, Gone, Locking, LockOf
  <2>11. CallOK(c, inodes', mounts)
    <3>1. c.call = "mount" => MountingOK(c, inodes', mounts)
      <4> SUFFICES ASSUME c.call = "mount" PROVE MountingOK(c, inodes', mounts)
        OBVIOUS
      <4>1. MountingOK(at[p], inodes, mounts)
        BY <2>6, CallFacts DEF CallOK, Gone
      <4>2. IsMounted(mounts, c.want[1]) /\ c.pc = "bread" /\ c.ip = s
        BY <4>1, <1>1, <2>6 DEF MountingOK, Gone
      <4>3. inodes'[c.ip].name = c.want /\ ~inodes'[c.ip].mount
        BY <4>2, <2>6, <2>7, <2>9 DEF Gone, Made
      <4> QED BY <4>2, <4>3 DEF MountingOK
    <3>2. PcFits(c) /\ c.call # "umount"
      BY <1>1, <2>6, CallFacts DEF PcFits, Gone
    <3>3. inodes'[s].lock /\ inodes'[s].count = 1
      BY <2>7, <2>9 DEF Made
    <3> QED BY <1>1, <2>4, <2>6, <2>10, <3>1, <3>2, <3>3, CallFacts DEF CallOK, Gone
  <2>12. x.count = (inodes[s].count + OneHeld(c, s)) - OneHeld(at[p], s)
    BY <2>4, <2>7, <2>10 DEF OneHeld, Made
  <2>13. KeptBy(mounts, s) = {}
    BY <2>4, CountFacts
  <2>14. /\ c \in CallStates /\ c.call = at[p].call /\ x \in InodeRecords /\ ~x.mount
    BY <2>6, <2>7 DEF Gone, Made
  <2>15. \A q \in Mounters : q # p /\ Locking(at[q]) => LockOf(at[q]) # s
    BY <2>4, LockedIsHeld
  <2>16. Steers(p, c)
    <3>1. Tamer(c, at[p])
      BY <1>1, <2>6 DEF Tamer, Gone, Mounting, Umounting, Walking
    <3> QED BY <3>1, TamerSteers
  <2> QED BY <1>1, <2>4, <2>8, <2>10, <2>11, <2>12, <2>13, <2>14, <2>15, <2>16, CallFacts,
             InodeChanges
<1> QED BY <1>2, <1>3, Zenon DEF IgetReads, Inode

\* A call that is alone with an inode, which it has locked, and gives it up.
LEMMA FreesKeeps ==
    ASSUME MountInv, NEW p \in Mounters, at[p].pc \in {"bread", "iput"}, at[p].call # "umount",
           inodes' = [inodes EXCEPT ![at[p].ip] = FreeInode], Ends(p),
           mounts' = mounts, UNCHANGED <<updlock, mountCalls>>
    PROVE  MountInv'
<1> DEFINE s == at[p].ip
<1>1. /\ Locking(at[p]) /\ LockOf(at[p]) = s /\ s \in 1..NINODE
      /\ \A t : Holds(at[p], t) <=> t = s
  <2>1. Locking(at[p]) /\ LockOf(at[p]) = s /\ \A t : Holds(at[p], t) <=> t = s
    BY DEF Locking, LockOf, Holds
  <2> QED BY <2>1, CallFacts
<1>2. Changes(p, AtUser, s, FreeInode)
  BY DEF Changes, Ends
<1>3. inodes[s].count = 1
  BY CallFacts DEF CallOK
<1> HIDE DEF s
<1>4. KeptBy(mounts, s) = {}
  <2>1. p \in HeldBy(at, s)
    BY <1>1 DEF HeldBy
  <2> QED BY <2>1, <1>1, <1>3, CountFacts
<1>5. \A q \in Mounters : q # p /\ Locking(at[q]) => LockOf(at[q]) # s
  BY <1>1, OthersLocks
<1>6. FreeInode.count = (inodes[s].count + OneHeld(AtUser, s)) - OneHeld(at[p], s)
  <2>1. OneHeld(at[p], s) = 1 /\ OneHeld(AtUser, s) = 0
    BY <1>1, UserState DEF OneHeld
  <2> QED BY <2>1, <1>3, FreeFields
<1>7. \A t \in 1..NINODE : t # s => (Holds(AtUser, t) <=> Holds(at[p], t))
  BY <1>1, UserState
<1> QED BY <1>1, <1>2, <1>4, <1>5, <1>6, <1>7, UserState, UserSteers, FreeFields, CallFacts,
          InodeChanges

\* iget after its read.
LEMMA HasReadKeeps ==
    ASSUME MountInv, NEW p \in Mounters, IgetHasRead(p)
    PROVE  MountInv'
<1>1. at[p].pc = "bread" /\ UNCHANGED <<mounts, updlock, mountCalls>>
  BY DEF IgetHasRead
<1>2. CASE Ends(p) /\ inodes' = [inodes EXCEPT ![at[p].ip] = FreeInode]
  <2>1. at[p].call # "umount"
    BY <1>1, CallFacts DEF PcFits
  <2> QED BY <1>1, <1>2, <2>1, FreesKeeps
<1>3. CASE Go(p, "got") /\ UNCHANGED inodes
  <2> DEFINE c == [at[p] EXCEPT !.pc = "got"]
  <2>1. /\ Gone(c, at[p], "got", at[p].want, at[p].ip, at[p].i)
        /\ at' = [at EXCEPT ![p] = c]
    BY <1>3, CallFacts DEF Gone, CallStates, Go
  <2> HIDE DEF c
  <2>2. /\ Locking(c) /\ Locking(at[p]) /\ LockOf(c) = LockOf(at[p]) /\ LockOf(c) = c.ip
        /\ \A t : Holds(c, t) <=> Holds(at[p], t)
    BY <1>1, <2>1 DEF Locking, LockOf, Holds, Gone
  <2>3. CallOK(c, inodes, mounts)
    <3>1. PcFits(c) /\ c.call # "umount"
      BY <1>1, <2>1, CallFacts DEF PcFits, Gone
    <3>2. /\ c.call = at[p].call /\ c.dev = at[p].dev /\ c.want = at[p].want
          /\ c.ip = at[p].ip /\ c.pc = "got"
      BY <2>1 DEF Gone
    <3>3. CallOK(at[p], inodes, mounts) /\ inodes[LockOf(at[p])].lock /\ LockOf(at[p]) \in 1..NINODE
      BY <2>2, CallFacts
    <3>4. c.call = "mount" => MountingOK(c, inodes, mounts)
      BY <1>1, <3>2, <3>3 DEF CallOK, MountingOK
    <3> QED BY <2>2, <3>1, <3>2, <3>3, <3>4 DEF CallOK
  <2>4. c \in CallStates /\ c.call = at[p].call
    BY <2>1 DEF Gone
  <2>5. Steers(p, c)
    <3>1. Tamer(c, at[p])
      BY <1>1, <2>1 DEF Tamer, Gone, Mounting, Umounting, Walking
    <3> QED BY <3>1, TamerSteers
  <2> QED BY <1>1, <1>3, <2>1, <2>2, <2>3, <2>4, <2>5, CallFacts, OnlyMoves
<1> QED BY <1>2, <1>3, Zenon DEF IgetHasRead

\* open that unlocks its inode and keeps it.
LEMMA OpenEndsKeeps ==
    ASSUME MountInv, NEW p \in Mounters, OpenEnds(p)
    PROVE  MountInv'
<1> DEFINE s == at[p].ip
           c == [at[p] EXCEPT !.pc = "has"]
           x == [inodes[s] EXCEPT !.lock = FALSE]
<1>1. /\ at[p].pc = "got" /\ at[p].call = "open" /\ UNCHANGED <<mounts, updlock, mountCalls>>
      /\ at' = [at EXCEPT ![p].pc = "has"] /\ inodes' = [inodes EXCEPT ![s].lock = FALSE]
  BY DEF OpenEnds, Go
<1>2. Locking(at[p]) /\ LockOf(at[p]) = s /\ s \in 1..NINODE
  <2>1. Locking(at[p]) /\ LockOf(at[p]) = s
    BY <1>1 DEF Locking, LockOf
  <2> QED BY <2>1, CallFacts
<1>3. Gone(c, at[p], "has", at[p].want, s, at[p].i)
  BY CallFacts DEF Gone, CallStates
<1>4. inodes[s] \in InodeRecords
  BY <1>2, CallFacts
<1>5. x \in InodeRecords /\ x.count = inodes[s].count /\ x.name = inodes[s].name
      /\ (x.mount <=> inodes[s].mount)
  BY <1>4 DEF InodeRecords
<1>6. Changes(p, c, s, x)
  BY <1>1, <1>2, CallFacts DEF Changes
<1> HIDE DEF c, x, s
<1>7. /\ \A t : Holds(c, t) <=> Holds(at[p], t)
      /\ ~Locking(c)
  BY <1>1, <1>3 DEF Holds, Gone, Locking, s
<1>8. CallOK(c, inodes', mounts)
  <2>1. c.pc = "has" /\ c.call = "open" /\ c.ip = s /\ c.want = at[p].want
    BY <1>1, <1>3 DEF Gone
  <2> QED BY <1>1, <1>2, <1>7, <2>1, CallFacts DEF CallOK, PcFits
<1>9. x.count = (inodes[s].count + OneHeld(c, s)) - OneHeld(at[p], s)
  <2>1. OneHeld(c, s) = OneHeld(at[p], s) /\ OneHeld(c, s) \in {0, 1}
    BY <1>7, OneIsNumber
  <2>2. inodes[s].count \in Nat
    BY <1>4 DEF InodeRecords
  <2> QED BY <2>1, <2>2, <1>5
<1>10. \A q \in Mounters : q # p /\ Locking(at[q]) => LockOf(at[q]) # s
  BY <1>2, OthersLocks
<1>11. c \in CallStates /\ c.call = at[p].call
  BY <1>3 DEF Gone
<1>12. Steers(p, c)
  <2>1. Tamer(c, at[p])
    BY <1>1, <1>3 DEF Tamer, Gone, Mounting, Umounting, Walking
  <2> QED BY <2>1, TamerSteers
<1> QED BY <1>1, <1>2, <1>5, <1>6, <1>7, <1>8, <1>9, <1>10, <1>11, <1>12, CallFacts,
          InodeChanges

\* iput by a call that has a reference to the inode.
LEMMA IputsKeeps ==
    ASSUME MountInv, NEW p \in Mounters, at[p].pc \in {"got", "opens", "has"},
           at[p].call \in {"open", "mount"}, Iputs(p, at[p].ip),
           at[p].pc = "has" => ~inodes[at[p].ip].lock,
           UNCHANGED <<mounts, updlock, mountCalls>>
    PROVE  MountInv'
<1> DEFINE s == at[p].ip
<1>1. s \in 1..NINODE /\ \A t : Holds(at[p], t) <=> t = s
  <2>1. at[p].pc # "has" => Locking(at[p]) /\ LockOf(at[p]) = s
    BY DEF Locking, LockOf
  <2>2. s \in 1..NINODE
    BY <2>1, CallFacts DEF CallOK
  <2> QED BY <2>2 DEF Holds
<1>2. \A q \in Mounters : q # p /\ Locking(at[q]) => LockOf(at[q]) # s
  <2>1. ~inodes[s].lock \/ (Locking(at[p]) /\ LockOf(at[p]) = s)
    BY DEF Locking, LockOf
  <2> HIDE DEF s
  <2> QED BY <2>1, <1>1, OthersLocks
<1>3. OneHeld(at[p], s) = 1
  BY <1>1 DEF OneHeld
<1>4. inodes[s] \in InodeRecords /\ inodes[s].count \in Nat
  <2>1. inodes[s] \in InodeRecords
    BY <1>1, CallFacts
  <2> QED BY <2>1 DEF InodeRecords
<1>5. inodes[s].count # 0
  <2>1. p \in HeldBy(at, s)
    BY <1>1 DEF HeldBy
  <2> QED BY <2>1, <1>1, CountFacts
<1>6. CASE inodes[s].count = 1
  <2> DEFINE c == [at[p] EXCEPT !.pc = "iput", !.ip = s]
             x == [inodes[s] EXCEPT !.lock = TRUE]
  <2>1. inodes' = [inodes EXCEPT ![s].lock = TRUE] /\ at' = [at EXCEPT ![p].pc = "iput", ![p].ip = s]
    BY <1>6 DEF Iputs, Inode
  <2>2. Gone(c, at[p], "iput", at[p].want, s, at[p].i)
    <3>1. s \in 0..NINODE /\ at[p] \in CallStates
      BY CallFacts DEF CallStates
    <3> HIDE DEF s
    <3> QED BY <3>1 DEF Gone, CallStates
  <2>3. /\ x \in InodeRecords /\ x.count = 1 /\ x.name = inodes[s].name
        /\ (x.mount <=> inodes[s].mount) /\ x.lock
    BY <1>4, <1>6 DEF InodeRecords
  <2>4. Changes(p, c, s, x)
    <3>1. at' = [at EXCEPT ![p] = c]
      BY <2>1, CallFacts
    <3>2. inodes' = [inodes EXCEPT ![s] = x]
      BY <2>1, CallFacts
    <3> HIDE DEF c, x, s
    <3> QED BY <3>1, <3>2 DEF Changes
  <2> HIDE DEF c, x, s
  <2>5. inodes'[s] = x
    BY <1>1, <2>4, CallFacts DEF Changes
  <2>6. /\ \A t : Holds(c, t) <=> t = s
        /\ Locking(c) /\ LockOf(c) = s
    BY <2>2 DEF Holds, Gone, Locking, LockOf
  <2>7. CallOK(c, inodes', mounts)
    <3>1. c.call = "mount" => MountingOK(c, inodes', mounts)
      BY <2>2 DEF MountingOK, Gone
    <3>2. PcFits(c) /\ c.call # "umount"
      BY <2>2 DEF PcFits, Gone
    <3> QED BY <1>1, <2>2, <2>3, <2>5, <2>6, <3>1, <3>2, CallFacts DEF CallOK, Gone
  <2>8. x.count = (inodes[s].count + OneHeld(c, s)) - OneHeld(at[p], s)
    <3>1. OneHeld(c, s) = 1
      BY <2>6 DEF OneHeld
    <3> QED BY <3>1, <1>3, <1>6, <2>3
  <2>9. c \in CallStates /\ c.call = at[p].call
    BY <2>2 DEF Gone
  <2>10. Steers(p, c)
    <3>1. Tamer(c, at[p])
      BY <2>2 DEF Tamer, Gone, Mounting, Umounting, Walking
    <3> QED BY <3>1, TamerSteers
  <2> QED BY <1>1, <1>2, <2>3, <2>4, <2>6, <2>7, <2>8, <2>9, <2>10, CallFacts, InodeChanges
<1>7. CASE inodes[s].count # 1
  <2> DEFINE n == inodes[s].count - 1
             x == [inodes[s] EXCEPT !.count = n, !.lock = FALSE]
  <2>1. inodes' = [inodes EXCEPT ![s].count = @ - 1, ![s].lock = FALSE] /\ Ends(p)
    BY <1>7 DEF Iputs, Inode
  <2>2. n \in Nat
    BY <1>4, <1>5
  <2>3. Changes(p, AtUser, s, x)
    <3>1. inodes' = [inodes EXCEPT ![s] = x]
      BY <2>1, <1>1, CallFacts
    <3> HIDE DEF x, s
    <3> QED BY <2>1, <3>1 DEF Changes, Ends
  <2>4. /\ x \in InodeRecords /\ x.count = n /\ x.name = inodes[s].name
        /\ (x.mount <=> inodes[s].mount)
    <3> HIDE DEF n
    <3> QED BY <1>4, <2>2 DEF InodeRecords
  <2> HIDE DEF s, x
  <2>5. x.count = (inodes[s].count + OneHeld(AtUser, s)) - OneHeld(at[p], s)
    BY <2>4, <1>3, <1>4, UserState
  <2>6. \A t \in 1..NINODE : t # s => (Holds(AtUser, t) <=> Holds(at[p], t))
    BY <1>1, UserState
  <2> QED BY <1>1, <1>2, <2>3, <2>4, <2>5, <2>6, UserState, UserSteers, CallFacts,
             InodeChanges
<1> QED BY <1>6, <1>7

\* A file is closed.
LEMMA ClosesKeeps ==
    ASSUME MountInv, NEW p \in Mounters, Closes(p)
    PROVE  MountInv'
<1>1. at[p].pc = "has" /\ ~inodes[at[p].ip].lock /\ Iputs(p, at[p].ip)
      /\ UNCHANGED <<mounts, updlock, mountCalls>>
  BY DEF Closes, Inode
<1>2. at[p].call = "open"
  BY <1>1, CallFacts DEF PcFits, CallStates
<1> QED BY <1>1, <1>2, IputsKeeps

\* An inode that update comes to is in use and not locked.
LEMMA ToUpdateIs ==
    ASSUME NEW k \in Nat, k # 0, NEW s \in ToUpdate(k)
    PROVE  s \in 1..NINODE /\ s \in Nat /\ ~inodes[s].lock
  BY MountAssumption DEF ToUpdate, Inode

\* update that locks the next inode, or has come to the end.
LEMMA InodeNextKeeps ==
    ASSUME MountInv, NEW p \in Mounters, InodeNext(p)
    PROVE  MountInv'
<1>1. at[p].pc = "inodes" /\ UNCHANGED <<mounts, mountCalls>>
  BY DEF InodeNext
<1>2. at[p].call \in {"umount", "sync"} /\ at[p].i \in Nat /\ at[p].i # 0
  BY <1>1, CallFacts DEF PcFits, CallStates, CallOK
<1>3. CASE inodes' = inodes /\ updlock' = FALSE
  <2>1. Resting(at[p].pc) /\ updlock' \in BOOLEAN
    BY <1>1, <1>3 DEF Resting
  <2>2. CASE Ends(p)
    BY <1>1, <1>3, <2>1, <2>2, RestingEnds
  <2>3. CASE at[p].call = "umount" /\ Go(p, "check")
    <3> DEFINE c == [at[p] EXCEPT !.pc = "check"]
    <3>1. /\ Gone(c, at[p], "check", at[p].want, at[p].ip, at[p].i)
          /\ at' = [at EXCEPT ![p] = c] /\ c.pc = "check" /\ c.call = "umount"
      BY <2>3, CallFacts DEF Gone, CallStates, Go
    <3> HIDE DEF c
    <3>2. PcFits(c) /\ Resting(c.pc)
      BY <3>1 DEF PcFits, Resting
    <3> QED BY <1>1, <1>3, <2>1, <3>1, <3>2, RestingMoves
  <2>4. \/ Ends(p)
        \/ at[p].call = "umount" /\ Go(p, "check")
        \/ \E s \in ToUpdate(at[p].i) : inodes' = [inodes EXCEPT ![s].lock = TRUE, ![s].count = @ + 1]
    BY Zenon DEF InodeNext
  <2>5. ASSUME NEW s \in ToUpdate(at[p].i),
               inodes' = [inodes EXCEPT ![s].lock = TRUE, ![s].count = @ + 1]
        PROVE  FALSE
    <3>1. s \in 1..NINODE /\ ~inodes[s].lock /\ inodes[s] \in InodeRecords
      BY <1>2, ToUpdateIs, CallFacts
    <3>2. inodes'[s].lock
      BY <2>5, <3>1, CallFacts DEF InodeRecords
    <3> QED BY <1>3, <3>1, <3>2
  <2> QED BY <2>2, <2>3, <2>4, <2>5
<1>4. ASSUME NEW s \in ToUpdate(at[p].i),
             inodes' = [inodes EXCEPT ![s].lock = TRUE, ![s].count = @ + 1],
             at' = [at EXCEPT ![p].pc = "iupdat", ![p].i = s],
             updlock' = updlock
      PROVE  MountInv'
  <2>1. s \in 1..NINODE /\ s \in Nat /\ ~inodes[s].lock /\ inodes[s] \in InodeRecords
    BY <1>2, ToUpdateIs, CallFacts
  <2> DEFINE c == [at[p] EXCEPT !.pc = "iupdat", !.i = s]
             n == inodes[s].count + 1
             x == [inodes[s] EXCEPT !.lock = TRUE, !.count = n]
  <2>2. Gone(c, at[p], "iupdat", at[p].want, at[p].ip, s)
    BY <2>1, CallFacts DEF Gone, CallStates
  <2>3. n \in Nat /\ inodes[s].count \in Nat
    BY <2>1 DEF InodeRecords
  <2>4. Changes(p, c, s, x)
    <3>1. at' = [at EXCEPT ![p] = c]
      BY <1>4, CallFacts
    <3>2. inodes' = [inodes EXCEPT ![s] = x]
      BY <1>4, <2>1, CallFacts
    <3> HIDE DEF c, x
    <3> QED BY <1>1, <3>1, <3>2 DEF Changes
  <2>5. /\ x \in InodeRecords /\ x.count = n /\ x.name = inodes[s].name
        /\ (x.mount <=> inodes[s].mount) /\ x.lock
    <3> HIDE DEF n
    <3> QED BY <2>1, <2>3 DEF InodeRecords
  <2> HIDE DEF c, x
  <2>6. inodes'[s] = x
    BY <2>1, <2>4, CallFacts DEF Changes
  <2>7. /\ \A t : ~Holds(at[p], t) /\ (Holds(c, t) <=> t = s)
        /\ Locking(c) /\ LockOf(c) = s
    BY <1>1, <2>2 DEF Holds, Gone, Locking, LockOf
  <2>8. CallOK(c, inodes', mounts)
    <3>1. PcFits(c) /\ c.call # "mount" /\ c.pc = "iupdat" /\ c.call = at[p].call /\ c.dev = at[p].dev
      BY <1>2, <2>2 DEF PcFits, Gone
    <3>2. UmountingOK(c, inodes', mounts)
      BY <3>1 DEF UmountingOK
    <3> QED BY <1>2, <2>1, <2>5, <2>6, <2>7, <3>1, <3>2, CallFacts DEF CallOK
  <2>9. x.count = (inodes[s].count + OneHeld(c, s)) - OneHeld(at[p], s)
    <3>1. OneHeld(c, s) = 1 /\ OneHeld(at[p], s) = 0
      BY <2>7 DEF OneHeld
    <3> QED BY <3>1, <2>3, <2>5
  <2>10. \A q \in Mounters : q # p /\ Locking(at[q]) => LockOf(at[q]) # s
    BY <2>1, OthersLocks
  <2>11. c \in CallStates /\ c.call = at[p].call /\ updlock' \in BOOLEAN
    BY <1>4, <2>2, CallFacts DEF Gone
  <2>12. Steers(p, c)
    <3>1. Tamer(c, at[p])
      BY <1>2, <2>2 DEF Tamer, Gone, Mounting, Umounting, Walking
    <3> QED BY <3>1, TamerSteers
  <2> QED BY <1>1, <2>1, <2>4, <2>5, <2>7, <2>8, <2>9, <2>10, <2>11, <2>12, InodeChanges
<1> QED BY <1>3, <1>4, Zenon DEF InodeNext

\* update that has written an inode.
LEMMA IupdatedKeeps ==
    ASSUME MountInv, NEW p \in Mounters, Iupdated(p)
    PROVE  MountInv'
<1> DEFINE s == at[p].i
           k == s + 1
           c == [at[p] EXCEPT !.pc = "inodes", !.i = k]
           n == inodes[s].count - 1
           x == [inodes[s] EXCEPT !.lock = FALSE, !.count = n]
<1>1. /\ at[p].pc = "iupdat" /\ UNCHANGED <<mounts, updlock, mountCalls>>
      /\ inodes' = [inodes EXCEPT ![s].lock = FALSE, ![s].count = @ - 1]
      /\ at' = [at EXCEPT ![p].pc = "inodes", ![p].i = @ + 1]
  BY DEF Iupdated
<1>2. at[p].call \in {"umount", "sync"}
  BY <1>1, CallFacts DEF PcFits, CallStates
<1>3. /\ Locking(at[p]) /\ LockOf(at[p]) = s /\ s \in 1..NINODE /\ s \in Nat
      /\ \A t : Holds(at[p], t) <=> t = s
  <2>1. Locking(at[p]) /\ LockOf(at[p]) = s /\ \A t : Holds(at[p], t) <=> t = s
    BY <1>1 DEF Locking, LockOf, Holds
  <2>2. s \in 1..NINODE
    BY <2>1, CallFacts
  <2> QED BY <2>1, <2>2
<1>4. inodes[s] \in InodeRecords /\ inodes[s].count \in Nat
  <2>1. inodes[s] \in InodeRecords
    BY <1>3, CallFacts
  <2> QED BY <2>1 DEF InodeRecords
<1>5. inodes[s].count # 0 /\ n \in Nat
  <2>1. p \in HeldBy(at, s)
    BY <1>3 DEF HeldBy
  <2>2. inodes[s].count # 0
    BY <2>1, <1>3, CountFacts
  <2> QED BY <2>2, <1>4
<1>6. Gone(c, at[p], "inodes", at[p].want, at[p].ip, k)
  <2>1. k \in Nat
    BY <1>3
  <2> HIDE DEF k
  <2> QED BY <2>1, CallFacts DEF Gone, CallStates
<1>7. Changes(p, c, s, x)
  <2>1. at' = [at EXCEPT ![p] = c]
    BY <1>1, CallFacts
  <2>2. inodes' = [inodes EXCEPT ![s] = x]
    BY <1>1, <1>3, CallFacts
  <2> HIDE DEF c, x, s
  <2> QED BY <1>1, <2>1, <2>2 DEF Changes
<1>8. /\ x \in InodeRecords /\ x.count = n /\ x.name = inodes[s].name
      /\ (x.mount <=> inodes[s].mount)
  <2> HIDE DEF n
  <2> QED BY <1>4, <1>5 DEF InodeRecords
<1>9. k # 0
  BY <1>3
<1> HIDE DEF c, x, s, k
<1>10. (\A t : ~Holds(c, t)) /\ ~Locking(c)
  BY <1>6 DEF Holds, Gone, Locking
<1>11. CallOK(c, inodes', mounts)
  <2>1. PcFits(c) /\ c.call # "mount" /\ c.pc = "inodes" /\ c.call = at[p].call
        /\ c.dev = at[p].dev /\ c.i # 0
    BY <1>2, <1>6, <1>9 DEF PcFits, Gone
  <2>2. UmountingOK(c, inodes', mounts)
    BY <2>1 DEF UmountingOK
  <2> QED BY <1>2, <1>10, <2>1, <2>2, CallFacts DEF CallOK
<1>12. x.count = (inodes[s].count + OneHeld(c, s)) - OneHeld(at[p], s)
  <2>1. OneHeld(c, s) = 0 /\ OneHeld(at[p], s) = 1
    BY <1>3, <1>10 DEF OneHeld
  <2> QED BY <2>1, <1>4, <1>8
<1>13. \A q \in Mounters : q # p /\ Locking(at[q]) => LockOf(at[q]) # s
  BY <1>3, OthersLocks
<1>14. /\ c \in CallStates /\ c.call = at[p].call /\ updlock' \in BOOLEAN
       /\ \A t \in 1..NINODE : t # s => (Holds(c, t) <=> Holds(at[p], t))
  BY <1>1, <1>3, <1>6, <1>10, CallFacts DEF Gone
<1>15. Steers(p, c)
  <2>1. Tamer(c, at[p])
    BY <1>2, <1>6 DEF Tamer, Gone, Mounting, Umounting, Walking
  <2> QED BY <2>1, TamerSteers
<1> QED BY <1>1, <1>3, <1>7, <1>8, <1>10, <1>11, <1>12, <1>13, <1>14, <1>15, InodeChanges

----------------------------------------------------------------------------
(* mount and umount *)

\* The entry that smount chooses: the first that is free, which is not the root's.
LEMMA VacantEntry ==
    ASSUME MountInv, Vacant # {}
    PROVE  /\ Min(Vacant) \in 2..NMOUNT /\ ~mounts[Min(Vacant)].bufp
           /\ \A j \in 1..NMOUNT : j < Min(Vacant) => mounts[j].bufp
<1> DEFINE V == Vacant
<1>1. V \in SUBSET Nat /\ V \subseteq 1..NMOUNT /\ 1 \notin V
  <2>1. mounts[1].bufp
    BY DEF MountInv, TableOK
  <2> QED BY <2>1, MountAssumption DEF Vacant
<1> HIDE DEF V
<1>2. Min(V) \in V /\ \A y \in V : Min(V) <= y
  <2>1. V # {}
    BY DEF V
  <2> QED BY <2>1, <1>1, MinOfNumbers
<1>3. PICK m : m = Min(V)
  OBVIOUS
<1>4. m \in V /\ m \in 1..NMOUNT /\ m # 1 /\ \A y \in V : m <= y
  BY <1>1, <1>2, <1>3
<1>5. m \in 2..NMOUNT
  BY <1>4
<1>6. ~mounts[m].bufp
  BY <1>4 DEF V, Vacant
<1>7. ASSUME NEW j \in 1..NMOUNT, j < m PROVE mounts[j].bufp
  <2>1. j \notin V
    BY <1>4, <1>7
  <2> QED BY <2>1 DEF V, Vacant
<1> QED BY <1>3, <1>5, <1>6, <1>7 DEF V

\* The checks of smount.
LEMMA MountChecksKeeps ==
    ASSUME MountInv, NEW p \in Mounters, MountChecks(p), ~clashed'
    PROVE  MountInv'
<1>1. at[p].pc = "got" /\ at[p].call = "mount" /\ UNCHANGED <<mounts, updlock, mountCalls>>
  BY DEF MountChecks
<1>2. CASE Iputs(p, at[p].ip)
  BY <1>1, <1>2, IputsKeeps
<1>3. CASE /\ Mountable(p)
           /\ at' = [at EXCEPT ![p].pc = "opens", ![p].i = Min(Vacant)]
           /\ inodes' = inodes /\ clashed' = (clashed \/ TakenTwice(p, Min(Vacant)))
  <2>1. PICK m : m = Min(Vacant)
    OBVIOUS
  <2>2. /\ m \in 2..NMOUNT /\ m \in Nat /\ ~mounts[m].bufp
        /\ \A j \in 1..NMOUNT : j < m => mounts[j].bufp
    <3>1. Vacant # {}
      BY <1>3 DEF Mountable
    <3>2. m \in 2..NMOUNT
      BY <2>1, <3>1, VacantEntry
    <3> QED BY <2>1, <3>1, <3>2, VacantEntry
  <2> DEFINE c == [at[p] EXCEPT !.pc = "opens", !.i = m]
  <2>3. /\ Gone(c, at[p], "opens", at[p].want, at[p].ip, m)
        /\ at' = [at EXCEPT ![p] = c]
    <3>1. Gone(c, at[p], "opens", at[p].want, at[p].ip, m)
      BY <2>2, CallFacts DEF Gone, CallStates
    <3>2. at' = [at EXCEPT ![p] = c]
      BY <1>3, <2>1, CallFacts
    <3> QED BY <3>1, <3>2
  <2> HIDE DEF c
  <2>4. /\ Locking(c) /\ Locking(at[p]) /\ LockOf(c) = LockOf(at[p]) /\ LockOf(c) = c.ip
        /\ \A t : Holds(c, t) <=> Holds(at[p], t)
    BY <1>1, <2>3 DEF Locking, LockOf, Holds, Gone
  <2>5. KeptBy(mounts, c.ip) = {} /\ c.ip \in 1..NINODE
    <3>1. c.ip \in 1..NINODE /\ Holds(at[p], c.ip) /\ c.ip = at[p].ip
      BY <1>1, <2>3, <2>4, CallFacts DEF Gone, Holds
    <3>2. p \in HeldBy(at, c.ip) /\ inodes[c.ip].count = 1
      BY <1>3, <3>1 DEF HeldBy, Mountable, Inode
    <3> QED BY <3>1, <3>2, CountFacts
  <2>6. CallOK(c, inodes, mounts)
    <3>1. PcFits(c) /\ c.call = "mount" /\ c.pc = "opens" /\ c.ip = at[p].ip /\ c.i = m
          /\ c.want = at[p].want
      BY <1>1, <2>3 DEF PcFits, Gone
    <3>2. MountingOK(c, inodes, mounts)
      <4>1. MountingOK(at[p], inodes, mounts) /\ c.dev = at[p].dev
        BY <1>1, <2>3, CallFacts DEF CallOK, Gone
      <4>2. ~IsMounted(mounts, c.dev)
        BY <1>3, <4>1 DEF Mountable, Mounted, IsMounted
      <4>3. ASSUME NEW j \in 1..NMOUNT, j < m PROVE mounts[j].inodp # c.ip
        <5>1. mounts[j].bufp
          BY <2>2, <4>3
        <5>2. CASE j = 1
          BY <5>2, <2>5, CallFacts DEF TableOK
        <5>3. CASE j # 1
          BY <5>1, <5>3, <2>5 DEF KeptBy, Kept
        <5> QED BY <5>2, <5>3
      <4> QED BY <1>1, <2>2, <3>1, <4>1, <4>2, <4>3 DEF MountingOK
    <3>3. inodes[c.ip].count = 1
      BY <1>3, <3>1 DEF Mountable, Inode
    <3> QED BY <1>1, <2>3, <2>4, <3>1, <3>2, <3>3, CallFacts DEF CallOK, Gone
  <2>7. c \in CallStates /\ c.call = at[p].call
    BY <2>3 DEF Gone
  <2>8. Steers(p, c)
    <3> SUFFICES ASSUME NEW q \in Mounters, q # p PROVE Beside(c, at[q])
      BY DEF Steers
    <3>1. c.i = m /\ c.dev = at[p].dev /\ c.want = at[p].want /\ ~Umounting(c)
      BY <2>3 DEF Gone, Umounting
    <3>2. Mounting(at[q]) => c.i # at[q].i /\ c.dev # at[q].dev
      BY <1>3, <2>1, <3>1 DEF TakenTwice
    <3>3. Walking(at[p]) /\ Beside(at[p], at[q])
      BY <1>1 DEF Walking, MountInv, CallsApart
    <3>4. Umounting(at[q]) => c.want[1] # at[q].dev
      BY <3>1, <3>3 DEF Beside
    <3> QED BY <3>1, <3>2, <3>4 DEF Beside
  <2> QED BY <1>1, <1>3, <2>3, <2>4, <2>6, <2>7, <2>8, CallFacts, OnlyMoves
<1> QED BY <1>2, <1>3, Zenon DEF MountChecks

\* A step in which p goes on to c, inode s becomes x and entry m becomes e, and in which the
\* count of s changes by as much as its references, and nobody else's references change.
EntryStep(p, c, s, x, m, e) ==
    /\ Changes(p, c, s, x) /\ updlock' = updlock /\ mounts' = [mounts EXCEPT ![m] = e]
    /\ Locking(c) => LockOf(c) = s
    /\ \A q \in Mounters : q # p /\ Locking(at[q]) => LockOf(at[q]) # s
    /\ x.count = (((inodes[s].count + OneHeld(c, s)) - OneHeld(at[p], s)) + OneKept(e, s))
                 - OneKept(mounts[m], s)
    /\ \A t \in 1..NINODE : t # s => /\ Holds(c, t) <=> Holds(at[p], t)
                                     /\ ~Kept(e, t) /\ ~Kept(mounts[m], t)

\* A step of mount or umount that changes an entry of the table, and an inode.
LEMMA EntryChanges ==
    ASSUME MountInv, NEW p \in Mounters, at[p].call \in {"mount", "umount"},
           NEW c \in CallStates, c.call \in {at[p].call, "none"},
           NEW s \in 1..NINODE, NEW x \in InodeRecords, NEW m \in 2..NMOUNT, NEW e \in Entry,
           EntryStep(p, c, s, x, m, e),
           TableOK(inodes', mounts'), CallOK(c, inodes', mounts'), Steers(p, c),
           \A q \in Mounters : q # p => TableFor(at[q], inodes, inodes', mounts, mounts')
    PROVE  MountInv'
<1>0. /\ Changes(p, c, s, x) /\ updlock' = updlock /\ mounts' = [mounts EXCEPT ![m] = e]
      /\ Locking(c) => LockOf(c) = s
      /\ \A q \in Mounters : q # p /\ Locking(at[q]) => LockOf(at[q]) # s
  BY DEF EntryStep
<1>1. /\ MountTypes /\ TableOK(inodes, mounts) /\ Counted(at, inodes, mounts)
      /\ at' = [at EXCEPT ![p] = c] /\ mountCalls' = mountCalls
  BY <1>0 DEF MountInv, Changes
<1>2. inodes'[s] = x /\ \A t \in 1..NINODE : t # s => inodes'[t] = inodes[t]
  BY <1>0, <1>1 DEF Changes, MountTypes
<1>3. /\ inodes' \in [1..NINODE -> InodeRecords] /\ mounts' \in [1..NMOUNT -> Entry]
      /\ mountCalls' \in Nat /\ updlock' \in BOOLEAN
  BY <1>0, <1>1 DEF MountTypes, Changes
<1>4. Counted(at', inodes', mounts')
  <2>1. PICK B : B = at'
    OBVIOUS
  <2>2. PICK J : J = inodes'
    OBVIOUS
  <2>3. PICK N : N = mounts'
    OBVIOUS
  <2>4. /\ at \in [Mounters -> CallStates] /\ mounts \in [1..NMOUNT -> Entry]
        /\ B[p] = c /\ \A q \in Mounters : q # p => B[q] = at[q]
    BY <1>1, <2>1 DEF MountTypes
  <2>5. J[s] = x /\ \A t \in 1..NINODE : t # s => J[t] = inodes[t]
    BY <1>2, <2>2
  <2>6. EntryMade(mounts, N, m, e)
    BY <1>0, <2>3, <2>4, MountAssumption DEF EntryMade
  <2>7. ASSUME NEW t \in 1..NINODE PROVE J[t].count = Refs(B, N, t)
    <3>1. Refs(B, mounts, t) = (Refs(at, mounts, t) + OneHeld(c, t)) - OneHeld(at[p], t)
      BY <2>4, HeldAfter
    <3>2. Refs(B, N, t) = (Refs(B, mounts, t) + OneKept(e, t)) - OneKept(mounts[m], t)
      BY <2>6, KeptAfter
    <3>3. /\ OneHeld(c, t) \in {0, 1} /\ OneHeld(at[p], t) \in {0, 1}
          /\ OneKept(e, t) \in {0, 1} /\ OneKept(mounts[m], t) \in {0, 1}
      BY OneIsNumber
    <3>4. Refs(at, mounts, t) \in Nat
      BY RefsFinite
    <3>5. inodes[t].count = Refs(at, mounts, t)
      BY <1>1 DEF Counted
    <3>6. CASE t = s
      BY <3>1, <3>2, <3>5, <3>6, <2>5 DEF EntryStep
    <3>7. CASE t # s
      <4>1. (Holds(c, t) <=> Holds(at[p], t)) /\ ~Kept(e, t) /\ ~Kept(mounts[m], t)
        BY <3>7 DEF EntryStep
      <4>2. OneHeld(c, t) = OneHeld(at[p], t)
        BY <4>1, OneIsNumber
      <4>3. OneKept(e, t) = 0 /\ OneKept(mounts[m], t) = 0
        BY <4>1 DEF OneKept
      <4> QED BY <4>2, <4>3, <3>1, <3>2, <3>3, <3>4, <3>5, <3>7, <2>5
    <3> QED BY <3>6, <3>7
  <2>8. Counted(B, J, N)
    BY <2>7 DEF Counted
  <2> QED BY <2>1, <2>2, <2>3, <2>8
<1>5. \A q \in Mounters : q # p /\ Locking(at[q]) =>
          /\ Locking(c) => LockOf(c) # LockOf(at[q])
          /\ SameLocked(inodes, inodes', LockOf(at[q]))
  BY <1>0, LocksAfter
<1> QED BY <1>0, <1>1, <1>3, <1>4, <1>5, StepKeeps

\* N and J are the table M and the inodes I after smount has named inode s in entry m, which is
\* free, and which no earlier one that names s hides.
TableGains(I, J, M, N, m, s) ==
    /\ ~M[m].bufp /\ KeptBy(M, s) = {}
    /\ N[m].inodp = s /\ N[m].dev \in Devs
    /\ \A j \in 1..NMOUNT : j # m => N[j] = M[j]
    /\ \A j \in 1..NMOUNT : j < m => M[j].inodp # s
    /\ N[m].bufp => ~IsMounted(M, N[m].dev)
    /\ IsMounted(M, J[s].name[1])
    /\ \A t \in 1..NINODE : t # s => J[t] = I[t]
    /\ J[s].mount => N[m].bufp

\* smount's entry, named but not in use, or in use: the table is as it should be if nobody
\* else has the directory, and the device is not mounted.
LEMMA TableWith ==
    ASSUME NEW I \in [1..NINODE -> InodeRecords], NEW J \in [1..NINODE -> InodeRecords],
           NEW M \in [1..NMOUNT -> Entry], NEW N \in [1..NMOUNT -> Entry], TableOK(I, M),
           NEW m \in 2..NMOUNT, NEW s \in 1..NINODE, TableGains(I, J, M, N, m, s)
    PROVE  TableOK(J, N)
<1>0. /\ ~M[m].bufp /\ KeptBy(M, s) = {}
      /\ N[m].inodp = s /\ N[m].dev \in Devs
      /\ \A j \in 1..NMOUNT : j # m => N[j] = M[j]
      /\ \A j \in 1..NMOUNT : j < m => M[j].inodp # s
      /\ N[m].bufp => ~IsMounted(M, N[m].dev)
      /\ IsMounted(M, J[s].name[1])
      /\ \A t \in 1..NINODE : t # s => J[t] = I[t]
      /\ J[s].mount => N[m].bufp
  BY DEF TableGains
<1> USE <1>0
<1>1. 1 \in 1..NMOUNT /\ 1 # m /\ m \in 1..NMOUNT
  BY MountAssumption
<1>2. N[1] = [bufp |-> TRUE, dev |-> RootDev, inodp |-> 0] /\ M[1] = N[1]
  BY <1>1 DEF TableOK
<1>3. ASSUME NEW d, IsMounted(M, d) PROVE IsMounted(N, d)
  BY <1>3 DEF IsMounted
<1>4. ASSUME NEW j \in 2..NMOUNT, M[j].bufp PROVE M[j].inodp # s /\ j # m
  BY <1>4 DEF KeptBy, Kept
<1>5. ASSUME NEW n \in 2..NMOUNT, N[n].bufp
      PROVE  /\ N[n].inodp # 0 /\ N[n].dev \in Devs
             /\ IsMounted(N, J[N[n].inodp].name[1])
             /\ \A j \in 1..NMOUNT : j < n => N[j].inodp # N[n].inodp
  <2>1. CASE n = m
    <3>1. ASSUME NEW j \in 1..NMOUNT, j < n PROVE N[j].inodp # s
      <4>1. j # m /\ N[j] = M[j]
        BY <3>1, <2>1
      <4> QED BY <4>1, <3>1, <2>1
    <3>2. IsMounted(N, J[s].name[1])
      BY <1>3
    <3> QED BY <2>1, <3>1, <3>2
  <2>2. CASE n # m
    <3>1. n \in 1..NMOUNT /\ N[n] = M[n] /\ M[n].bufp
      BY <2>2, <1>5
    <3>2. M[n].inodp \in 1..NINODE /\ M[n].inodp # s
      BY <3>1, <1>4, DirectoryOf
    <3>3. J[M[n].inodp] = I[M[n].inodp]
      BY <3>2
    <3>4. /\ M[n].inodp # 0 /\ M[n].dev \in Devs
          /\ IsMounted(M, I[M[n].inodp].name[1])
          /\ \A j \in 1..NMOUNT : j < n => M[j].inodp # M[n].inodp
      BY <3>1 DEF TableOK
    <3>5. ASSUME NEW j \in 1..NMOUNT, j < n PROVE N[j].inodp # M[n].inodp
      BY <3>2, <3>4, <3>5
    <3> QED BY <3>1, <3>3, <3>4, <3>5, <1>3
  <2> QED BY <2>1, <2>2
<1>6. ASSUME NEW t \in 1..NINODE, J[t].mount PROVE KeptBy(N, t) # {}
  <2>1. CASE t = s
    BY <1>6, <2>1 DEF KeptBy, Kept
  <2>2. CASE t # s
    <3>1. KeptBy(M, t) # {}
      BY <1>6, <2>2 DEF TableOK
    <3>2. PICK n \in 2..NMOUNT : M[n].bufp /\ M[n].inodp = t
      BY <3>1 DEF KeptBy, Kept
    <3>3. N[n] = M[n]
      BY <3>2, <1>4
    <3> QED BY <3>2, <3>3 DEF KeptBy, Kept
  <2> QED BY <2>1, <2>2
<1>7. ASSUME NEW j \in 1..NMOUNT, NEW n \in 1..NMOUNT, N[j].bufp, N[n].bufp, j # n
      PROVE  N[j].dev # N[n].dev
  <2>1. CASE j # m /\ n # m
    BY <2>1, <1>7 DEF TableOK
  <2>2. CASE j = m
    BY <2>2, <1>7 DEF IsMounted
  <2>3. CASE n = m
    BY <2>3, <1>7 DEF IsMounted
  <2> QED BY <2>1, <2>2, <2>3
<1> QED BY <1>2, <1>5, <1>6, <1>7 DEF TableOK

\* N and J are the table M and the inodes I after entry m has been given up, to which no walk
\* leads, and on whose device nothing is mounted.
TableLoses(I, J, M, N, m) ==
    /\ M[m].bufp /\ ~N[m].bufp /\ N[m].inodp = M[m].inodp
    /\ \A j \in 1..NMOUNT : j # m => N[j] = M[j]
    /\ ~I[M[m].inodp].mount
    /\ \A t \in 1..NINODE : J[t].mount => I[t].mount
    /\ \A n \in 2..NMOUNT : n # m /\ M[n].bufp =>
         /\ J[M[n].inodp].name = I[M[n].inodp].name
         /\ I[M[n].inodp].name[1] # M[m].dev

\* The table without the entry of a device on which nothing is mounted, and to which no
\* walk leads.
LEMMA TableWithout ==
    ASSUME NEW I \in [1..NINODE -> InodeRecords], NEW J \in [1..NINODE -> InodeRecords],
           NEW M \in [1..NMOUNT -> Entry], NEW N \in [1..NMOUNT -> Entry], TableOK(I, M),
           NEW m \in 2..NMOUNT, TableLoses(I, J, M, N, m)
    PROVE  TableOK(J, N)
<1>0. /\ M[m].bufp /\ ~N[m].bufp /\ N[m].inodp = M[m].inodp
      /\ \A j \in 1..NMOUNT : j # m => N[j] = M[j]
      /\ ~I[M[m].inodp].mount
      /\ \A t \in 1..NINODE : J[t].mount => I[t].mount
      /\ \A n \in 2..NMOUNT : n # m /\ M[n].bufp =>
           /\ J[M[n].inodp].name = I[M[n].inodp].name
           /\ I[M[n].inodp].name[1] # M[m].dev
  BY DEF TableLoses
<1> USE <1>0
<1>1. 1 \in 1..NMOUNT /\ 1 # m /\ m \in 1..NMOUNT
  BY MountAssumption
<1>2. N[1] = [bufp |-> TRUE, dev |-> RootDev, inodp |-> 0]
  BY <1>1 DEF TableOK
<1>3. ASSUME NEW d, IsMounted(M, d), d # M[m].dev PROVE IsMounted(N, d)
  BY <1>3 DEF IsMounted
<1>4. \A j \in 1..NMOUNT : N[j].inodp = M[j].inodp
  OBVIOUS
<1>5. ASSUME NEW n \in 2..NMOUNT, N[n].bufp
      PROVE  /\ N[n].inodp # 0 /\ N[n].dev \in Devs
             /\ IsMounted(N, J[N[n].inodp].name[1])
             /\ \A j \in 1..NMOUNT : j < n => N[j].inodp # N[n].inodp
  <2>1. n # m /\ n \in 1..NMOUNT /\ N[n] = M[n] /\ M[n].bufp
    BY <1>5
  <2>2. /\ M[n].inodp # 0 /\ M[n].dev \in Devs
        /\ IsMounted(M, I[M[n].inodp].name[1])
        /\ \A j \in 1..NMOUNT : j < n => M[j].inodp # M[n].inodp
    BY <2>1 DEF TableOK
  <2>3. IsMounted(N, J[M[n].inodp].name[1])
    BY <2>1, <2>2, <1>3
  <2> QED BY <2>1, <2>2, <2>3, <1>4
<1>6. ASSUME NEW t \in 1..NINODE, J[t].mount PROVE KeptBy(N, t) # {}
  <2>1. KeptBy(M, t) # {}
    BY <1>6 DEF TableOK
  <2>2. PICK n \in 2..NMOUNT : M[n].bufp /\ M[n].inodp = t
    BY <2>1 DEF KeptBy, Kept
  <2>3. n # m
    BY <2>2, <1>6
  <2>4. N[n] = M[n]
    BY <2>3
  <2> QED BY <2>2, <2>4 DEF KeptBy, Kept
<1>7. ASSUME NEW j \in 1..NMOUNT, NEW n \in 1..NMOUNT, N[j].bufp, N[n].bufp, j # n
      PROVE  N[j].dev # N[n].dev
  <2>1. M[j] = N[j] /\ M[n] = N[n]
    BY <1>7
  <2> QED BY <2>1, <1>7 DEF TableOK
<1> QED BY <1>2, <1>5, <1>6, <1>7 DEF TableOK

\* A call that has an inode locked with a count of 1 is alone with it.
LEMMA AloneWith ==
    ASSUME MountInv, NEW p \in Mounters, at[p].pc \in {"opens", "geteblk"}
    PROVE  /\ at[p].ip \in 1..NINODE /\ inodes[at[p].ip].count = 1
           /\ KeptBy(mounts, at[p].ip) = {}
           /\ at[p].call = "mount" /\ MountingOK(at[p], inodes, mounts)
           /\ \A t : Holds(at[p], t) <=> t = at[p].ip
           /\ \A q \in Mounters : q # p /\ Locking(at[q]) => LockOf(at[q]) # at[p].ip
<1>1. Locking(at[p]) /\ LockOf(at[p]) = at[p].ip /\ \A t : Holds(at[p], t) <=> t = at[p].ip
  BY DEF Locking, LockOf, Holds
<1>2. at[p].ip \in 1..NINODE /\ inodes[at[p].ip].count = 1
  BY <1>1, CallFacts DEF CallOK
<1>3. p \in HeldBy(at, at[p].ip)
  BY <1>1 DEF HeldBy
<1>4. KeptBy(mounts, at[p].ip) = {}
  BY <1>2, <1>3, CountFacts
<1>5. at[p].call = "mount"
  BY CallFacts DEF PcFits, CallStates
<1>6. MountingOK(at[p], inodes, mounts)
  BY <1>5, CallFacts DEF CallOK
<1> QED BY <1>1, <1>2, <1>4, <1>5, <1>6, OthersLocks

\* smount that has opened the device and read its superblock, or failed to.
LEMMA MountReadsKeeps ==
    ASSUME MountInv, NEW p \in Mounters, MountReads(p)
    PROVE  MountInv'
<1> DEFINE s == at[p].ip
           m == at[p].i
           e == [mounts[m] EXCEPT !.inodp = s, !.dev = at[p].dev]
           c == [at[p] EXCEPT !.pc = "geteblk"]
<1>1. at[p].pc = "opens" /\ UNCHANGED <<updlock, mountCalls>>
  BY DEF MountReads
<1>2. /\ s \in 1..NINODE /\ inodes[s].count = 1 /\ KeptBy(mounts, s) = {}
      /\ at[p].call = "mount" /\ MountingOK(at[p], inodes, mounts)
      /\ \A t : Holds(at[p], t) <=> t = s
      /\ \A q \in Mounters : q # p /\ Locking(at[q]) => LockOf(at[q]) # s
  BY <1>1, AloneWith
<1>3. CASE Iputs(p, at[p].ip) /\ mounts' = mounts
  BY <1>1, <1>2, <1>3, IputsKeeps
<1>4. CASE /\ mounts' = [mounts EXCEPT ![m].inodp = s, ![m].dev = at[p].dev]
           /\ Go(p, "geteblk") /\ inodes' = inodes
  <2>1. /\ m \in 2..NMOUNT /\ m \in 1..NMOUNT /\ ~mounts[m].bufp
        /\ \A j \in 1..NMOUNT : j < m => mounts[j].inodp # s
        /\ ~IsMounted(mounts, at[p].dev) /\ Mounting(at[p])
    BY <1>1, <1>2, MountAssumption DEF MountingOK, Mounting
  <2>2. mounts[m] \in Entry /\ at[p].dev \in Devs /\ s \in 0..NINODE
    <3>1. mounts[m] \in Entry
      BY <2>1, CallFacts
    <3>2. at[p].dev \in Devs
      BY <1>2, CallFacts DEF CallOK
    <3> QED BY <1>2, <3>1, <3>2
  <2>3. e \in Entry /\ ~e.bufp /\ e.inodp = s /\ e.dev = at[p].dev
    <3> HIDE DEF s, m
    <3> QED BY <2>1, <2>2 DEF Entry
  <2>4. mounts' = [mounts EXCEPT ![m] = e]
    BY <1>4, <2>1, CallFacts
  <2>5. Gone(c, at[p], "geteblk", at[p].want, s, m) /\ at' = [at EXCEPT ![p] = c]
    BY <1>4, CallFacts DEF Gone, CallStates, Go
  <2>6. Changes(p, c, s, inodes[s]) /\ inodes[s] \in InodeRecords
    <3>1. inodes' = [inodes EXCEPT ![s] = inodes[s]]
      BY <1>4, CallFacts
    <3>2. inodes[s] \in InodeRecords
      BY <1>2, CallFacts
    <3> HIDE DEF c, s
    <3> QED BY <1>1, <2>5, <3>1, <3>2 DEF Changes
  <2> HIDE DEF c, e, s, m
  <2>7. /\ mounts' \in [1..NMOUNT -> Entry] /\ mounts'[m] = e
        /\ \A j \in 1..NMOUNT : j # m => mounts'[j] = mounts[j]
    BY <2>1, <2>3, <2>4, CallFacts
  <2>8. IsMounted(mounts, at[p].want[1]) /\ inodes[s].name = at[p].want /\ ~inodes[s].mount
    BY <1>1, <1>2 DEF MountingOK, s
  <2>9. TableOK(inodes', mounts')
    <3>1. PICK N : N = mounts'
      OBVIOUS
    <3>2. TableGains(inodes, inodes, mounts, N, m, s)
      BY <1>2, <2>1, <2>2, <2>3, <2>7, <2>8, <3>1 DEF TableGains
    <3>3. N \in [1..NMOUNT -> Entry]
      BY <2>7, <3>1
    <3>4. TableOK(inodes, N)
      BY <1>2, <2>1, <3>2, <3>3, CallFacts, TableWith
    <3> QED BY <3>1, <3>4, <1>4
  <2>10. /\ \A t : Holds(c, t) <=> t = s
         /\ Locking(c) /\ LockOf(c) = s
    BY <2>5 DEF Holds, Gone, Locking, LockOf
  <2>11. CallOK(c, inodes', mounts')
    <3>1. /\ PcFits(c) /\ c.call = "mount" /\ c.pc = "geteblk" /\ c.ip = s /\ c.i = m
          /\ c.want = at[p].want /\ c.dev = at[p].dev
      BY <1>2, <2>5 DEF PcFits, Gone
    <3>2. IsMounted(mounts', c.want[1])
      BY <2>1, <2>7, <2>8, <3>1 DEF IsMounted
    <3>3. /\ \A j \in 1..NMOUNT : j < m => mounts'[j].inodp # s
          /\ ~IsMounted(mounts', at[p].dev)
      BY <2>1, <2>3, <2>7 DEF IsMounted
    <3>4. MountingOK(c, inodes', mounts')
      BY <1>4, <2>1, <2>3, <2>7, <2>8, <3>1, <3>2, <3>3 DEF MountingOK
    <3>5. inodes[s].lock
      <4>1. Locking(at[p]) /\ LockOf(at[p]) = s
        BY <1>1 DEF Locking, LockOf, s
      <4> QED BY <4>1, CallFacts
    <3>6. c.want[2] # "none"
      BY <1>2, <3>1, CallFacts DEF CallOK
    <3> QED BY <1>2, <1>4, <2>2, <2>10, <3>1, <3>4, <3>5, <3>6 DEF CallOK
  <2>12. /\ ~Kept(e, s) /\ ~Kept(mounts[m], s)
         /\ \A t \in 1..NINODE : ~Kept(e, t) /\ ~Kept(mounts[m], t)
    BY <2>1, <2>3 DEF Kept
  <2>13. inodes[s].count = (((inodes[s].count + OneHeld(c, s)) - OneHeld(at[p], s))
                               + OneKept(e, s)) - OneKept(mounts[m], s)
    <3>1. OneHeld(c, s) = 1 /\ OneHeld(at[p], s) = 1
      BY <1>2, <2>10 DEF OneHeld
    <3>2. OneKept(e, s) = 0 /\ OneKept(mounts[m], s) = 0
      BY <2>12 DEF OneKept
    <3> QED BY <3>1, <3>2, <1>2
  <2>14. c \in CallStates /\ c.call = at[p].call
    BY <2>5 DEF Gone
  <2>15. \A t \in 1..NINODE : t # s => /\ Holds(c, t) <=> Holds(at[p], t)
                                       /\ ~Kept(e, t) /\ ~Kept(mounts[m], t)
    BY <1>2, <2>10, <2>12
  <2>16. EntryStep(p, c, s, inodes[s], m, e)
    BY <1>1, <1>2, <2>4, <2>6, <2>10, <2>13, <2>15 DEF EntryStep
  <2>17. Steers(p, c)
    <3>1. Tamer(c, at[p])
      BY <1>1, <2>5 DEF Tamer, Gone, Mounting, Umounting, Walking, m
    <3> QED BY <3>1, TamerSteers
  <2>18. ASSUME NEW q \in Mounters, q # p
         PROVE  TableFor(at[q], inodes, inodes', mounts, mounts')
    <3>1. CallOK(at[q], inodes, mounts) /\ Beside(at[p], at[q])
      BY <2>18, CallFacts DEF MountInv, CallsApart
    <3>2. \A d : IsMounted(mounts', d) <=> IsMounted(mounts, d)
      BY <2>1, <2>3, <2>7 DEF IsMounted
    <3>3. at[q].call = "mount" /\ at[q].pc # "iput" => IsMounted(mounts', at[q].want[1])
      BY <3>1, <3>2 DEF CallOK, MountingOK
    <3>4. ASSUME Mounting(at[q])
          PROVE  /\ mounts'[at[q].i] = mounts[at[q].i] /\ ~IsMounted(mounts', at[q].dev)
                 /\ \A j \in 1..NMOUNT : j < at[q].i => mounts'[j].inodp # at[q].ip
      <4>1. MountingOK(at[q], inodes, mounts) /\ at[q].pc \in {"opens", "geteblk"}
        BY <3>1, <3>4 DEF CallOK, Mounting
      <4>2. at[q].i \in 1..NMOUNT /\ at[q].i # m
        BY <2>1, <3>1, <3>4, <4>1, MountAssumption DEF Beside, MountingOK, m
      <4>3. at[q].ip # s
        BY <1>2, <2>18, <4>1 DEF Locking, LockOf, s
      <4>4. \A j \in 1..NMOUNT : j < at[q].i => mounts'[j].inodp # at[q].ip
        BY <4>1, <4>3, <2>3, <2>7 DEF MountingOK
      <4> QED BY <4>1, <4>2, <4>4, <3>2, <2>7 DEF MountingOK
    <3>5. ASSUME Umounting(at[q])
          PROVE  /\ mounts'[at[q].i] = mounts[at[q].i]
                 /\ ~inodes'[mounts[at[q].i].inodp].mount
                 /\ \A n \in 2..NMOUNT :
                        mounts'[n].bufp => inodes'[mounts'[n].inodp].name[1] # at[q].dev
      <4>1. UmountingOK(at[q], inodes, mounts) /\ at[q].pc \in {"plock", "waits", "iput"}
        BY <3>1, <3>5 DEF CallOK, Umounting
      <4>2. at[q].i \in 1..NMOUNT /\ at[q].i # m
        BY <2>1, <4>1, MountAssumption DEF UmountingOK
      <4>3. \A n \in 2..NMOUNT : mounts'[n].bufp => n # m /\ n \in 1..NMOUNT
        BY <2>3, <2>7, MountAssumption
      <4> QED BY <4>1, <4>2, <4>3, <2>7, <1>4 DEF UmountingOK
    <3> QED BY <3>3, <3>4, <3>5 DEF TableFor
  <2> QED BY <1>2, <2>1, <2>3, <2>6, <2>9, <2>11, <2>14, <2>16, <2>17, <2>18, EntryChanges
<1> QED BY <1>3, <1>4, Zenon DEF MountReads

\* smount at its end.
LEMMA MountsKeeps ==
    ASSUME MountInv, NEW p \in Mounters, Mounts(p)
    PROVE  MountInv'
<1> DEFINE s == at[p].ip
           m == at[p].i
           e == [mounts[m] EXCEPT !.bufp = TRUE]
           x == [inodes[s] EXCEPT !.mount = TRUE, !.lock = FALSE]
<1>1. /\ at[p].pc = "geteblk" /\ UNCHANGED <<updlock, mountCalls>> /\ Ends(p)
      /\ mounts' = [mounts EXCEPT ![m].bufp = TRUE]
      /\ inodes' = [inodes EXCEPT ![s].mount = TRUE, ![s].lock = FALSE]
  BY DEF Mounts
<1>2. /\ s \in 1..NINODE /\ inodes[s].count = 1 /\ KeptBy(mounts, s) = {}
      /\ at[p].call = "mount" /\ MountingOK(at[p], inodes, mounts)
      /\ \A t : Holds(at[p], t) <=> t = s
      /\ \A q \in Mounters : q # p /\ Locking(at[q]) => LockOf(at[q]) # s
  BY <1>1, AloneWith
<1>3. /\ m \in 2..NMOUNT /\ m \in 1..NMOUNT /\ ~mounts[m].bufp
      /\ \A j \in 1..NMOUNT : j < m => mounts[j].inodp # s
      /\ mounts[m].inodp = s /\ mounts[m].dev \in Devs /\ mounts[m].dev = at[p].dev
      /\ ~IsMounted(mounts, mounts[m].dev) /\ Mounting(at[p]) /\ Walking(at[p])
      /\ IsMounted(mounts, at[p].want[1]) /\ inodes[s].name = at[p].want
  BY <1>1, <1>2, MountAssumption, CallFacts DEF MountingOK, CallOK, Mounting, Walking
<1>4. mounts[m] \in Entry /\ inodes[s] \in InodeRecords
  BY <1>2, <1>3, CallFacts
<1>5. e \in Entry /\ e.bufp /\ e.inodp = s /\ e.dev = mounts[m].dev
  <2> HIDE DEF s, m
  <2> QED BY <1>3, <1>4 DEF Entry
<1>6. x \in InodeRecords /\ x.count = 1 /\ x.name = inodes[s].name /\ x.mount
  <2> HIDE DEF s
  <2> QED BY <1>2, <1>4 DEF InodeRecords
<1>7. mounts' = [mounts EXCEPT ![m] = e]
  BY <1>1, <1>3, CallFacts
<1>8. Changes(p, AtUser, s, x)
  <2>1. inodes' = [inodes EXCEPT ![s] = x]
    BY <1>1, <1>2, CallFacts
  <2> HIDE DEF x, s
  <2> QED BY <1>1, <2>1 DEF Changes, Ends
<1> HIDE DEF e, x, s, m
<1>9. /\ mounts' \in [1..NMOUNT -> Entry] /\ mounts'[m] = e
      /\ \A j \in 1..NMOUNT : j # m => mounts'[j] = mounts[j]
  BY <1>3, <1>5, <1>7, CallFacts
<1>10. /\ inodes' \in [1..NINODE -> InodeRecords] /\ inodes'[s] = x
       /\ \A t \in 1..NINODE : t # s => inodes'[t] = inodes[t]
  BY <1>2, <1>6, <1>8, CallFacts DEF Changes
<1>11. TableOK(inodes', mounts')
  <2>1. IsMounted(mounts, inodes'[s].name[1])
    BY <1>3, <1>6, <1>10
  <2>2. mounts'[m].inodp = s /\ mounts'[m].dev \in Devs /\ mounts'[m].bufp
    BY <1>3, <1>5, <1>9
  <2>3. PICK J : J = inodes'
    OBVIOUS
  <2>4. PICK N : N = mounts'
    OBVIOUS
  <2>5. TableGains(inodes, J, mounts, N, m, s)
    BY <1>2, <1>3, <1>5, <1>9, <1>10, <2>1, <2>2, <2>3, <2>4 DEF TableGains
  <2>6. J \in [1..NINODE -> InodeRecords] /\ N \in [1..NMOUNT -> Entry]
    BY <1>9, <1>10, <2>3, <2>4
  <2>7. TableOK(J, N)
    BY <1>2, <1>3, <2>5, <2>6, CallFacts, TableWith
  <2> QED BY <2>3, <2>4, <2>7
<1>12. x.count = (((inodes[s].count + OneHeld(AtUser, s)) - OneHeld(at[p], s))
                     + OneKept(e, s)) - OneKept(mounts[m], s)
  <2>1. OneHeld(AtUser, s) = 0 /\ OneHeld(at[p], s) = 1
    BY <1>2, UserState DEF OneHeld
  <2>2. OneKept(e, s) = 1 /\ OneKept(mounts[m], s) = 0
    BY <1>3, <1>5 DEF OneKept, Kept
  <2> QED BY <2>1, <2>2, <1>2, <1>6
<1>13. \A t \in 1..NINODE : t # s => /\ Holds(AtUser, t) <=> Holds(at[p], t)
                                     /\ ~Kept(e, t) /\ ~Kept(mounts[m], t)
  BY <1>2, <1>3, <1>5, UserState DEF Kept
<1>14. CallOK(AtUser, inodes', mounts') /\ AtUser \in CallStates /\ ~Locking(AtUser)
       /\ AtUser.call = "none"
  BY UserState
<1>15. EntryStep(p, AtUser, s, x, m, e)
  BY <1>1, <1>2, <1>7, <1>8, <1>12, <1>13, <1>14 DEF EntryStep
<1>16. ASSUME NEW q \in Mounters, q # p
       PROVE  TableFor(at[q], inodes, inodes', mounts, mounts')
  <2>1. CallOK(at[q], inodes, mounts) /\ Beside(at[p], at[q])
    BY <1>16, CallFacts DEF MountInv, CallsApart
  <2>2. \A d : IsMounted(mounts, d) => IsMounted(mounts', d)
    BY <1>3, <1>9 DEF IsMounted
  <2>3. at[q].call = "mount" /\ at[q].pc # "iput" => IsMounted(mounts', at[q].want[1])
    BY <2>1, <2>2 DEF CallOK, MountingOK
  <2>4. ASSUME Mounting(at[q])
        PROVE  /\ mounts'[at[q].i] = mounts[at[q].i] /\ ~IsMounted(mounts', at[q].dev)
               /\ \A j \in 1..NMOUNT : j < at[q].i => mounts'[j].inodp # at[q].ip
    <3>1. MountingOK(at[q], inodes, mounts) /\ at[q].pc \in {"opens", "geteblk"}
      BY <2>1, <2>4 DEF CallOK, Mounting
    <3>2. at[q].i \in 1..NMOUNT /\ at[q].i # m /\ at[q].dev # mounts[m].dev
      BY <1>3, <2>1, <2>4, <3>1, MountAssumption DEF Beside, MountingOK, m
    <3>3. ~IsMounted(mounts', at[q].dev)
      BY <1>5, <1>9, <3>1, <3>2 DEF IsMounted, MountingOK
    <3>4. \A j \in 1..NMOUNT : j < at[q].i => mounts'[j].inodp # at[q].ip
      BY <1>3, <1>5, <1>9, <3>1 DEF MountingOK
    <3> QED BY <1>9, <3>2, <3>3, <3>4
  <2>5. ASSUME Umounting(at[q])
        PROVE  /\ mounts'[at[q].i] = mounts[at[q].i]
               /\ ~inodes'[mounts[at[q].i].inodp].mount
               /\ \A n \in 2..NMOUNT :
                      mounts'[n].bufp => inodes'[mounts'[n].inodp].name[1] # at[q].dev
    <3>1. UmountingOK(at[q], inodes, mounts) /\ at[q].pc \in {"plock", "waits", "iput"}
      BY <2>1, <2>5 DEF CallOK, Umounting
    <3>2. at[q].i \in 2..NMOUNT /\ mounts[at[q].i].bufp
      BY <3>1 DEF UmountingOK
    <3>3. at[q].i \in 1..NMOUNT /\ at[q].i # m /\ mounts'[at[q].i] = mounts[at[q].i]
      BY <1>3, <1>9, <3>2, MountAssumption
    <3>4. mounts[at[q].i].inodp \in 1..NINODE /\ mounts[at[q].i].inodp # s
      <4>1. mounts[at[q].i].inodp \in 1..NINODE
        BY <3>2, CallFacts, DirectoryOf
      <4> QED BY <4>1, <3>2, <1>2 DEF KeptBy, Kept
    <3>5. ~inodes'[mounts[at[q].i].inodp].mount
      BY <1>10, <3>1, <3>4 DEF UmountingOK
    <3>6. ASSUME NEW n \in 2..NMOUNT, mounts'[n].bufp
          PROVE  inodes'[mounts'[n].inodp].name[1] # at[q].dev
      <4>1. CASE n = m
        <5>1. inodes'[mounts'[n].inodp].name = at[p].want
          BY <1>3, <1>5, <1>6, <1>9, <1>10, <4>1
        <5> QED BY <5>1, <1>3, <2>1, <2>5 DEF Beside
      <4>2. CASE n # m
        <5>1. mounts'[n] = mounts[n] /\ mounts[n].bufp
          BY <1>9, <3>6, <4>2, MountAssumption
        <5>2. mounts[n].inodp \in 1..NINODE
          BY <5>1, CallFacts, DirectoryOf
        <5>3. inodes'[mounts[n].inodp].name = inodes[mounts[n].inodp].name
          BY <5>2, <1>6, <1>10
        <5> QED BY <5>1, <5>3, <3>1 DEF UmountingOK
      <4> QED BY <4>1, <4>2
    <3> QED BY <3>3, <3>5, <3>6
  <2> QED BY <2>3, <2>4, <2>5 DEF TableFor
<1> QED BY <1>2, <1>3, <1>5, <1>6, <1>11, <1>14, <1>15, <1>16, UserSteers, EntryChanges

\* The entry that sumount chooses for a device in which no inode is in core.
LEMMA MountedEntry ==
    ASSUME MountInv, NEW d \in Devs, NEW m \in Mounted(d), ~InUse(d)
    PROVE  /\ m \in 2..NMOUNT /\ m \in 1..NMOUNT /\ mounts[m].bufp /\ mounts[m].dev = d
           /\ mounts[m].inodp \in 1..NINODE
           /\ \A n \in 2..NMOUNT : mounts[n].bufp => inodes[mounts[n].inodp].name[1] # d
<1>1. m \in 1..NMOUNT /\ mounts[m].bufp /\ mounts[m].dev = d
  BY DEF Mounted
<1>2. TableOK(inodes, mounts) /\ mounts \in [1..NMOUNT -> Entry]
  BY DEF MountInv, MountTypes
<1>3. m # 1
  <2>1. mounts[1].dev = RootDev
    BY <1>2 DEF TableOK
  <2> QED BY <2>1, <1>1, MountAssumption
<1>4. m \in 2..NMOUNT
  BY <1>1, <1>3, MountAssumption
<1>5. \A t \in 1..NINODE : inodes[t].name[1] # d
  BY DEF InUse, Inode
<1>6. ASSUME NEW n \in 2..NMOUNT, mounts[n].bufp PROVE mounts[n].inodp \in 1..NINODE
  BY <1>2, <1>6, DirectoryOf
<1> QED BY <1>1, <1>4, <1>5, <1>6

\* The checks of sumount.
LEMMA UmountChecksKeeps ==
    ASSUME MountInv, NEW p \in Mounters, UmountChecks(p), ~clashed'
    PROVE  MountInv'
<1> DEFINE d == at[p].dev
<1>1. at[p].pc = "check" /\ UNCHANGED <<mounts, updlock, mountCalls>>
  BY DEF UmountChecks
<1>2. at[p].call = "umount" /\ d \in Devs
  BY <1>1, CallFacts DEF PcFits, CallStates, CallOK
<1>3. CASE Ends(p) /\ inodes' = inodes
  <2>1. Resting(at[p].pc)
    BY <1>1 DEF Resting
  <2> QED BY <1>1, <1>3, <2>1, CallFacts, RestingEnds
<1>4. ASSUME NEW m \in Mounted(d), ~InUse(d),
             inodes' = [inodes EXCEPT ![mounts[m].inodp].mount = FALSE],
             at' = [at EXCEPT ![p].pc = "plock", ![p].i = m],
             clashed' = (clashed \/ LeftTwice(p, m))
      PROVE  MountInv'
  <2> DEFINE s == mounts[m].inodp
             c == [at[p] EXCEPT !.pc = "plock", !.i = m]
             x == [inodes[s] EXCEPT !.mount = FALSE]
  <2>1. /\ m \in 2..NMOUNT /\ m \in 1..NMOUNT /\ mounts[m].bufp /\ mounts[m].dev = d
        /\ s \in 1..NINODE
        /\ \A n \in 2..NMOUNT : mounts[n].bufp => inodes[mounts[n].inodp].name[1] # d
    <3> HIDE DEF d
    <3> QED BY <1>2, <1>4, MountedEntry
  <2>2. inodes[s] \in InodeRecords
    BY <2>1, CallFacts
  <2>3. x \in InodeRecords /\ x.count = inodes[s].count /\ x.name = inodes[s].name /\ ~x.mount
    BY <2>2 DEF InodeRecords
  <2>4. Gone(c, at[p], "plock", at[p].want, at[p].ip, m)
    <3>1. m \in Nat
      BY <2>1, MountAssumption
    <3> QED BY <3>1, CallFacts DEF Gone, CallStates
  <2>5. Changes(p, c, s, x)
    <3>1. at' = [at EXCEPT ![p] = c]
      BY <1>4, CallFacts
    <3>2. inodes' = [inodes EXCEPT ![s] = x]
      BY <1>4, <2>1, CallFacts
    <3> HIDE DEF c, x, s
    <3> QED BY <1>1, <3>1, <3>2 DEF Changes
  <2>6. x = [inodes[s] EXCEPT !.mount = FALSE]
    OBVIOUS
  <2>7. s = mounts[m].inodp
    OBVIOUS
  <2> HIDE DEF c, x, s
  <2>8. inodes'[s] = x /\ \A t \in 1..NINODE : t # s => inodes'[t] = inodes[t]
    BY <2>1, <2>5, CallFacts DEF Changes
  <2>9. /\ \A t : Holds(c, t) <=> Holds(at[p], t)
        /\ ~Locking(c)
    BY <1>1, <2>4 DEF Holds, Gone, Locking
  <2>10. CallOK(c, inodes', mounts)
    <3>1. PcFits(c) /\ c.call = "umount" /\ c.pc = "plock" /\ c.i = m /\ c.dev = d
      BY <1>2, <2>4 DEF PcFits, Gone
    <3>2. ASSUME NEW n \in 2..NMOUNT, mounts[n].bufp
          PROVE  inodes'[mounts[n].inodp].name[1] # d
      <4>1. mounts[n].inodp \in 1..NINODE
        BY <3>2, CallFacts, DirectoryOf
      <4>2. inodes'[mounts[n].inodp].name = inodes[mounts[n].inodp].name
        BY <4>1, <2>3, <2>8
      <4> QED BY <4>2, <3>2, <2>1
    <3>3. ~inodes'[mounts[m].inodp].mount
      BY <2>3, <2>7, <2>8
    <3>4. UmountingOK(c, inodes', mounts)
      <4> HIDE DEF d
      <4> QED BY <2>1, <3>1, <3>2, <3>3 DEF UmountingOK
    <3> QED BY <1>2, <2>9, <3>1, <3>4 DEF CallOK
  <2>11. x.count = (inodes[s].count + OneHeld(c, s)) - OneHeld(at[p], s)
    <3>1. OneHeld(c, s) = OneHeld(at[p], s) /\ OneHeld(c, s) \in {0, 1}
      BY <2>9, OneIsNumber
    <3>2. inodes[s].count \in Nat
      BY <2>2 DEF InodeRecords
    <3> QED BY <3>1, <3>2, <2>3
  <2>12. c \in CallStates /\ c.call = at[p].call
    BY <2>4 DEF Gone
  <2>13. mounts' = mounts /\ updlock' \in BOOLEAN
    BY <1>1, CallFacts
  <2>14. Steers(p, c)
    <3> SUFFICES ASSUME NEW q \in Mounters, q # p PROVE Beside(c, at[q])
      BY DEF Steers
    <3>1. c.i = m /\ c.dev = at[p].dev /\ ~Mounting(c) /\ ~Walking(c)
      BY <2>4 DEF Gone, Mounting, Walking
    <3>2. ~LeftTwice(p, m)
      BY <1>4
    <3>3. Umounting(at[q]) => c.i # at[q].i
      BY <3>1, <3>2 DEF LeftTwice
    <3>4. Walking(at[q]) => at[q].want[1] # c.dev
      BY <3>1, <3>2 DEF LeftTwice
    <3> QED BY <3>1, <3>3, <3>4 DEF Beside
  <2> QED BY <2>1, <2>3, <2>5, <2>6, <2>9, <2>10, <2>11, <2>12, <2>13, <2>14, InodeChanges
<1> QED BY <1>3, <1>4, Zenon DEF UmountChecks

\* The end of sumount, for a directory s that becomes x, and the entry m.
UmountEnds(p, s, x, m) ==
    /\ at[p].call = "umount" /\ at[p].pc \in {"plock", "iput"} /\ Ends(p)
    /\ m = at[p].i /\ s = mounts[m].inodp
    /\ inodes' = [inodes EXCEPT ![s] = x] /\ ~x.mount /\ x.count = inodes[s].count - 1
    /\ inodes[s].count # 1 => x.name = inodes[s].name
    /\ mounts' = [mounts EXCEPT ![m].bufp = FALSE]
    /\ UNCHANGED <<updlock, mountCalls>>
    /\ at[p].pc = "iput" \/ ~inodes[s].lock

\* sumount that gives its entry up: on the device nothing is mounted.
LEMMA GivesUp ==
    ASSUME MountInv, NEW p \in Mounters, NEW s \in 1..NINODE, NEW x \in InodeRecords, NEW m,
           UmountEnds(p, s, x, m)
    PROVE  MountInv'
<1> DEFINE e == [mounts[m] EXCEPT !.bufp = FALSE]
<1>0. /\ at[p].call = "umount" /\ at[p].pc \in {"plock", "iput"}
      /\ m = at[p].i /\ mounts[m].inodp = s /\ ~x.mount /\ updlock' = updlock
  BY DEF UmountEnds
<1>1. /\ m \in 2..NMOUNT /\ m \in 1..NMOUNT /\ mounts[m].bufp /\ mounts[m].dev = at[p].dev
      /\ ~inodes[s].mount
      /\ \A n \in 2..NMOUNT : mounts[n].bufp => inodes[mounts[n].inodp].name[1] # at[p].dev
      /\ at[p].pc = "iput" => at[p].ip = s
  <2>1. UmountingOK(at[p], inodes, mounts)
    BY <1>0, CallFacts DEF CallOK
  <2> QED BY <1>0, <2>1, MountAssumption DEF UmountingOK
<1>2. \A t : ~Holds(at[p], t)
  BY <1>0 DEF Holds
<1>3. \A q \in Mounters : q # p /\ Locking(at[q]) => LockOf(at[q]) # s
  <2>1. CASE ~inodes[s].lock
    BY <2>1, OthersLocks
  <2>2. CASE at[p].pc = "iput"
    <3>1. Locking(at[p]) /\ LockOf(at[p]) = s
      BY <1>1, <2>2 DEF Locking, LockOf
    <3> QED BY <3>1, OthersLocks
  <2> QED BY <2>1, <2>2 DEF UmountEnds
<1>4. mounts[m] \in Entry /\ inodes[s] \in InodeRecords
  BY <1>1, CallFacts
<1>5. e \in Entry /\ ~e.bufp /\ e.inodp = s
  BY <1>0, <1>4 DEF Entry
<1>6. mounts' = [mounts EXCEPT ![m] = e]
  BY <1>1, CallFacts DEF UmountEnds
<1>7. mounts[m].inodp = s
  BY <1>0
<1>8. Changes(p, AtUser, s, x)
  BY DEF Changes, Ends, UmountEnds
<1> HIDE DEF e
<1>9. /\ mounts' \in [1..NMOUNT -> Entry] /\ mounts'[m] = e
      /\ \A j \in 1..NMOUNT : j # m => mounts'[j] = mounts[j]
  BY <1>1, <1>5, <1>6, CallFacts
<1>10. /\ inodes' \in [1..NINODE -> InodeRecords] /\ inodes'[s] = x
       /\ \A t \in 1..NINODE : t # s => inodes'[t] = inodes[t]
  BY <1>8, CallFacts DEF Changes
<1>11. KeptBy(mounts, s) # {} /\ m \in KeptBy(mounts, s)
  BY <1>1, <1>7 DEF KeptBy, Kept
<1>12. ASSUME NEW n \in 2..NMOUNT, n # m, mounts[n].bufp
       PROVE  inodes'[mounts[n].inodp].name = inodes[mounts[n].inodp].name
  <2>1. mounts[n].inodp \in 1..NINODE
    BY <1>12, CallFacts, DirectoryOf
  <2>2. CASE mounts[n].inodp # s
    BY <2>1, <2>2, <1>10
  <2>3. CASE mounts[n].inodp = s /\ inodes[s].count # 1
    BY <2>3, <1>10 DEF UmountEnds
  <2>4. CASE mounts[n].inodp = s /\ inodes[s].count = 1
    <3>1. n \in KeptBy(mounts, s)
      BY <2>4, <1>12 DEF KeptBy, Kept
    <3>2. KeptBy(mounts, s) = {m}
      BY <2>4, <1>11, CountFacts
    <3> QED BY <3>1, <3>2, <1>12
  <2> QED BY <2>2, <2>3, <2>4
<1>13. TableOK(inodes', mounts')
  <2>1. PICK J : J = inodes'
    OBVIOUS
  <2>2. PICK N : N = mounts'
    OBVIOUS
  <2>3. \A t \in 1..NINODE : J[t].mount => inodes[t].mount
    BY <1>0, <2>1, <1>10
  <2>4. TableLoses(inodes, J, mounts, N, m)
    BY <1>0, <1>1, <1>5, <1>7, <1>9, <1>12, <2>1, <2>2, <2>3 DEF TableLoses
  <2>5. J \in [1..NINODE -> InodeRecords] /\ N \in [1..NMOUNT -> Entry]
    BY <1>9, <1>10, <2>1, <2>2
  <2>6. TableOK(J, N)
    BY <1>1, <2>4, <2>5, CallFacts, TableWithout
  <2> QED BY <2>1, <2>2, <2>6
<1>14. x.count = (((inodes[s].count + OneHeld(AtUser, s)) - OneHeld(at[p], s))
                     + OneKept(e, s)) - OneKept(mounts[m], s)
  <2>1. OneHeld(AtUser, s) = 0 /\ OneHeld(at[p], s) = 0
    BY <1>2, UserState DEF OneHeld
  <2>2. OneKept(e, s) = 0 /\ OneKept(mounts[m], s) = 1
    BY <1>1, <1>5, <1>7 DEF OneKept, Kept
  <2>3. inodes[s].count \in Nat
    BY <1>4 DEF InodeRecords
  <2> QED BY <2>1, <2>2, <2>3 DEF UmountEnds
<1>15. \A t \in 1..NINODE : t # s => /\ Holds(AtUser, t) <=> Holds(at[p], t)
                                     /\ ~Kept(e, t) /\ ~Kept(mounts[m], t)
  BY <1>2, <1>5, <1>7, UserState DEF Kept
<1>16. EntryStep(p, AtUser, s, x, m, e)
  BY <1>0, <1>3, <1>6, <1>8, <1>14, <1>15, UserState DEF EntryStep
<1>17. ASSUME NEW q \in Mounters, q # p
       PROVE  TableFor(at[q], inodes, inodes', mounts, mounts')
  <2>1. CallOK(at[q], inodes, mounts) /\ Beside(at[p], at[q]) /\ Umounting(at[p])
    BY <1>0, <1>17, CallFacts DEF MountInv, CallsApart, Umounting
  <2>2. \A d : IsMounted(mounts', d) => IsMounted(mounts, d)
    BY <1>5, <1>9 DEF IsMounted
  <2>3. ASSUME at[q].call = "mount", at[q].pc # "iput" PROVE IsMounted(mounts', at[q].want[1])
    <3>1. IsMounted(mounts, at[q].want[1]) /\ at[q] \in CallStates /\ PcFits(at[q])
      BY <2>1, <2>3, CallFacts DEF CallOK, MountingOK
    <3>2. Walking(at[q])
      BY <2>3, <3>1 DEF Walking, PcFits
    <3>3. at[q].want[1] # mounts[m].dev
      BY <1>1, <2>1, <3>2 DEF Beside
    <3> QED BY <1>9, <3>1, <3>3 DEF IsMounted
  <2>4. ASSUME Mounting(at[q])
        PROVE  /\ mounts'[at[q].i] = mounts[at[q].i] /\ ~IsMounted(mounts', at[q].dev)
               /\ \A j \in 1..NMOUNT : j < at[q].i => mounts'[j].inodp # at[q].ip
    <3>1. MountingOK(at[q], inodes, mounts) /\ at[q].pc \in {"opens", "geteblk"}
      BY <2>1, <2>4 DEF CallOK, Mounting
    <3>2. at[q].i \in 1..NMOUNT /\ at[q].i # m
      BY <1>1, <3>1, MountAssumption DEF MountingOK
    <3>3. \A j \in 1..NMOUNT : mounts'[j].inodp = mounts[j].inodp
      BY <1>5, <1>7, <1>9
    <3> QED BY <1>9, <2>2, <3>1, <3>2, <3>3 DEF MountingOK
  <2>5. ASSUME Umounting(at[q])
        PROVE  /\ mounts'[at[q].i] = mounts[at[q].i]
               /\ ~inodes'[mounts[at[q].i].inodp].mount
               /\ \A n \in 2..NMOUNT :
                      mounts'[n].bufp => inodes'[mounts'[n].inodp].name[1] # at[q].dev
    <3>1. UmountingOK(at[q], inodes, mounts) /\ at[q].pc \in {"plock", "waits", "iput"}
      BY <2>1, <2>5 DEF CallOK, Umounting
    <3>2. at[q].i \in 2..NMOUNT /\ mounts[at[q].i].bufp /\ at[q].i # m
      BY <1>0, <2>1, <2>5, <3>1 DEF UmountingOK, Beside
    <3>3. at[q].i \in 1..NMOUNT /\ mounts'[at[q].i] = mounts[at[q].i]
      BY <1>9, <3>2, MountAssumption
    <3>4. mounts[at[q].i].inodp \in 1..NINODE
      BY <3>2, CallFacts, DirectoryOf
    <3>5. ~inodes'[mounts[at[q].i].inodp].mount
      <4>1. CASE mounts[at[q].i].inodp = s
        BY <1>0, <1>10, <4>1
      <4>2. CASE mounts[at[q].i].inodp # s
        BY <1>10, <3>1, <3>4, <4>2 DEF UmountingOK
      <4> QED BY <4>1, <4>2
    <3>6. ASSUME NEW n \in 2..NMOUNT, mounts'[n].bufp
          PROVE  inodes'[mounts'[n].inodp].name[1] # at[q].dev
      <4>1. n # m /\ mounts'[n] = mounts[n] /\ mounts[n].bufp
        BY <1>5, <1>9, <3>6, MountAssumption
      <4>2. inodes'[mounts[n].inodp].name = inodes[mounts[n].inodp].name
        BY <1>12, <4>1
      <4> QED BY <4>1, <4>2, <3>1 DEF UmountingOK
    <3> QED BY <3>3, <3>5, <3>6
  <2> QED BY <2>3, <2>4, <2>5 DEF TableFor
<1> QED BY <1>0, <1>1, <1>5, <1>13, <1>16, <1>17, UserState, UserSteers, EntryChanges

\* What an umount that has made its checks knows of its directory.
LEMMA UmountFacts ==
    ASSUME MountInv, NEW p \in Mounters, at[p].call = "umount",
           at[p].pc \in {"plock", "waits", "iput"}
    PROVE  /\ at[p].i \in 2..NMOUNT /\ mounts[at[p].i].bufp
           /\ mounts[at[p].i].inodp \in 1..NINODE
           /\ ~inodes[mounts[at[p].i].inodp].mount
           /\ at[p].i \in KeptBy(mounts, mounts[at[p].i].inodp)
           /\ at[p].pc = "iput" => at[p].ip = mounts[at[p].i].inodp
           /\ \A m \in 2..NMOUNT : mounts[m].bufp => inodes[mounts[m].inodp].name[1] # at[p].dev
<1>1. UmountingOK(at[p], inodes, mounts)
  BY CallFacts DEF CallOK
<1>2. at[p].i \in 2..NMOUNT /\ mounts[at[p].i].bufp
  BY <1>1 DEF UmountingOK
<1>3. mounts[at[p].i].inodp \in 1..NINODE /\ at[p].i \in KeptBy(mounts, mounts[at[p].i].inodp)
  BY <1>2, CallFacts, DirectoryOf
<1> QED BY <1>1, <1>2, <1>3 DEF UmountingOK

\* sumount after its checks.
LEMMA UmountsKeeps ==
    ASSUME MountInv, NEW p \in Mounters, Umounts(p)
    PROVE  MountInv'
<1> DEFINE m == at[p].i
           s == mounts[m].inodp
<1>1. /\ at[p].pc = "plock" /\ ~inodes[s].lock /\ Iputs(p, s)
      /\ mounts' = IF inodes[s].count = 1 THEN mounts ELSE [mounts EXCEPT ![m].bufp = FALSE]
      /\ UNCHANGED <<updlock, mountCalls>>
  BY DEF Umounts, Inode
<1>2. at[p].call = "umount"
  BY <1>1, CallFacts DEF PcFits, CallStates
<1>3. /\ m \in 2..NMOUNT /\ mounts[m].bufp /\ s \in 1..NINODE /\ ~inodes[s].mount
      /\ m \in KeptBy(mounts, s)
      /\ \A n \in 2..NMOUNT : mounts[n].bufp => inodes[mounts[n].inodp].name[1] # at[p].dev
  BY <1>1, <1>2, UmountFacts
<1>4. inodes[s] \in InodeRecords /\ inodes[s].count \in Nat
  <2>1. inodes[s] \in InodeRecords
    BY <1>3, CallFacts
  <2> QED BY <2>1 DEF InodeRecords
<1>5. inodes[s].count # 0
  <2> HIDE DEF m, s
  <2>1. KeptBy(mounts, s) # {}
    BY <1>3
  <2> QED BY <2>1, <1>3, CountFacts
<1>6. m = at[p].i /\ s = mounts[m].inodp
  OBVIOUS
<1> HIDE DEF m, s
<1>7. CASE inodes[s].count # 1
  <2> DEFINE n == inodes[s].count - 1
             x == [inodes[s] EXCEPT !.count = n, !.lock = FALSE]
  <2>1. /\ inodes' = [inodes EXCEPT ![s].count = @ - 1, ![s].lock = FALSE] /\ Ends(p)
        /\ mounts' = [mounts EXCEPT ![m].bufp = FALSE]
    BY <1>1, <1>7 DEF Iputs, Inode
  <2>2. n \in Nat
    BY <1>4, <1>5
  <2>3. inodes' = [inodes EXCEPT ![s] = x]
    BY <2>1, <1>3, CallFacts
  <2>4. x \in InodeRecords /\ x.count = n /\ x.name = inodes[s].name /\ ~x.mount
    <3> HIDE DEF n
    <3> QED BY <1>3, <1>4, <2>2 DEF InodeRecords
  <2> HIDE DEF x
  <2>5. UmountEnds(p, s, x, m)
    BY <1>1, <1>2, <1>6, <2>1, <2>3, <2>4 DEF UmountEnds
  <2> QED BY <1>3, <2>4, <2>5, GivesUp
<1>8. CASE inodes[s].count = 1
  <2> DEFINE c == [at[p] EXCEPT !.pc = "iput", !.ip = s]
             x == [inodes[s] EXCEPT !.lock = TRUE]
  <2>1. /\ inodes' = [inodes EXCEPT ![s].lock = TRUE]
        /\ at' = [at EXCEPT ![p].pc = "iput", ![p].ip = s]
        /\ mounts' = mounts
    BY <1>1, <1>8 DEF Iputs, Inode
  <2>2. Gone(c, at[p], "iput", at[p].want, s, at[p].i)
    <3>1. s \in 0..NINODE /\ at[p] \in CallStates
      BY <1>3, CallFacts
    <3> QED BY <3>1 DEF Gone, CallStates
  <2>3. /\ x \in InodeRecords /\ x.count = 1 /\ x.name = inodes[s].name
        /\ ~x.mount /\ x.lock
    BY <1>3, <1>4, <1>8 DEF InodeRecords
  <2>4. Changes(p, c, s, x)
    <3>1. at' = [at EXCEPT ![p] = c]
      BY <2>1, CallFacts
    <3>2. inodes' = [inodes EXCEPT ![s] = x]
      BY <2>1, <1>3, CallFacts
    <3> HIDE DEF c, x
    <3> QED BY <1>1, <3>1, <3>2 DEF Changes
  <2> HIDE DEF c, x
  <2>5. inodes'[s] = x /\ \A t \in 1..NINODE : t # s => inodes'[t] = inodes[t]
    BY <1>3, <2>4, CallFacts DEF Changes
  <2>6. (\A t : ~Holds(at[p], t)) /\ \A t : ~Holds(c, t)
    BY <1>1, <1>2, <2>2 DEF Holds, Gone
  <2>7. Locking(c) /\ LockOf(c) = s
    BY <2>2 DEF Gone, Locking, LockOf
  <2>8. CallOK(c, inodes', mounts)
    <3>1. PcFits(c) /\ c.call = "umount" /\ c.pc = "iput" /\ c.i = at[p].i /\ c.dev = at[p].dev
          /\ c.ip = s
      BY <1>2, <2>2 DEF PcFits, Gone
    <3>2. ASSUME NEW n \in 2..NMOUNT, mounts[n].bufp
          PROVE  inodes'[mounts[n].inodp].name[1] # at[p].dev
      <4>1. mounts[n].inodp \in 1..NINODE
        BY <3>2, CallFacts, DirectoryOf
      <4>2. inodes'[mounts[n].inodp].name = inodes[mounts[n].inodp].name
        BY <4>1, <2>3, <2>5
      <4> QED BY <4>2, <3>2, <1>3
    <3>3. ~inodes'[s].mount /\ inodes'[s].lock /\ inodes'[s].count = 1
      BY <2>3, <2>5
    <3>4. UmountingOK(c, inodes', mounts)
      <4>1. UmountingOK(at[p], inodes, mounts)
        BY <1>2, CallFacts DEF CallOK
      <4> QED BY <1>1, <1>6, <3>1, <3>2, <3>3, <4>1 DEF UmountingOK
    <3>5. at[p].dev \in Devs
      BY <1>2, CallFacts DEF CallOK
    <3> QED BY <1>3, <2>7, <3>1, <3>3, <3>4, <3>5 DEF CallOK
  <2>9. x.count = (inodes[s].count + OneHeld(c, s)) - OneHeld(at[p], s)
    <3>1. OneHeld(c, s) = 0 /\ OneHeld(at[p], s) = 0
      BY <2>6 DEF OneHeld
    <3> QED BY <3>1, <1>8, <2>3
  <2>10. \A q \in Mounters : q # p /\ Locking(at[q]) => LockOf(at[q]) # s
    BY <1>1, <1>3, OthersLocks
  <2>11. c \in CallStates /\ c.call = at[p].call /\ updlock' \in BOOLEAN
    BY <1>1, <2>2, CallFacts DEF Gone
  <2>12. Steers(p, c)
    <3>1. Tamer(c, at[p])
      BY <1>1, <1>2, <2>2 DEF Tamer, Gone, Mounting, Umounting, Walking
    <3> QED BY <3>1, TamerSteers
  <2> QED BY <1>3, <2>1, <2>3, <2>4, <2>6, <2>7, <2>8, <2>9, <2>10, <2>11, <2>12, InodeChanges
<1> QED BY <1>7, <1>8

\* The end of iput, for a call that held the inode or for sumount.
LEMMA IputEndsKeeps ==
    ASSUME MountInv, NEW p \in Mounters, IputEnds(p)
    PROVE  MountInv'
<1>1. /\ at[p].pc = "iput" /\ inodes' = [inodes EXCEPT ![at[p].ip] = FreeInode] /\ Ends(p)
      /\ UNCHANGED <<updlock, mountCalls>>
      /\ mounts' = IF at[p].call = "umount" THEN [mounts EXCEPT ![at[p].i].bufp = FALSE]
                   ELSE mounts
  BY DEF IputEnds
<1>2. CASE at[p].call # "umount"
  BY <1>1, <1>2, FreesKeeps
<1>3. CASE at[p].call = "umount"
  <2>1. /\ at[p].ip = mounts[at[p].i].inodp /\ at[p].ip \in 1..NINODE
    BY <1>1, <1>3, UmountFacts
  <2>2. inodes[at[p].ip].count = 1
    BY <1>1, CallFacts DEF CallOK
  <2>3. mounts' = [mounts EXCEPT ![at[p].i].bufp = FALSE]
    BY <1>1, <1>3
  <2>4. FreeInode.count = inodes[at[p].ip].count - 1
    BY <2>2, FreeFields
  <2>5. UmountEnds(p, at[p].ip, FreeInode, at[p].i)
    BY <1>1, <1>3, <2>1, <2>2, <2>3, <2>4, FreeFields DEF UmountEnds
  <2> QED BY <2>1, <2>5, FreeFields, GivesUp
<1> QED BY <1>2, <1>3

----------------------------------------------------------------------------
(* The invariant *)

\* The start of a call.
LEMMA StartsKeeps ==
    ASSUME MountInv, NEW p \in Mounters, NEW c, StartsCall(p, c), c \in CallStates,
           c.call # "none", PcFits(c), c.pc \in {"iget", "update"},
           c.call \in {"mount", "umount"} => c.dev \in Devs,
           c.call \in {"open", "mount"} => c.want[2] # "none" /\ c.want[1] = RootDev
    PROVE  MountInv'
<1>1. /\ at[p].pc = "user" /\ at' = [at EXCEPT ![p] = c] /\ mountCalls' = mountCalls + 1
      /\ UNCHANGED <<inodes, mounts, updlock>>
  BY DEF StartsCall
<1>2. MountTypes /\ Counted(at, inodes, mounts) /\ TableOK(inodes, mounts) /\ LocksApart(at)
  BY DEF MountInv
<1>3. at'[p] = c /\ \A q \in Mounters : q # p => at'[q] = at[q]
  BY <1>1, <1>2 DEF MountTypes
<1>4. /\ ~Locking(c) /\ ~Locking(at[p])
      /\ \A s : ~Holds(c, s) /\ ~Holds(at[p], s)
  BY <1>1 DEF Locking, Holds
<1>5. CallOK(c, inodes, mounts)
  <2>1. IsMounted(mounts, RootDev)
    <3>1. 1 \in 1..NMOUNT /\ mounts[1].bufp /\ mounts[1].dev = RootDev
      BY <1>2, MountAssumption DEF TableOK
    <3> QED BY <3>1 DEF IsMounted
  <2>2. c.call = "mount" => MountingOK(c, inodes, mounts)
    BY <2>1 DEF MountingOK
  <2>3. UmountingOK(c, inodes, mounts)
    BY DEF UmountingOK
  <2> QED BY <1>4, <2>2, <2>3 DEF CallOK
<1>6. MountTypes'
  BY <1>1, <1>2 DEF MountTypes
<1>7. Counted(at', inodes', mounts')
  <2>1. PICK B : B = at'
    OBVIOUS
  <2>2. /\ at \in [Mounters -> CallStates]
        /\ B[p] = c /\ \A q \in Mounters : q # p => B[q] = at[q]
    BY <1>2, <1>3, <2>1 DEF MountTypes
  <2>3. ASSUME NEW s \in 1..NINODE PROVE inodes[s].count = Refs(B, mounts, s)
    <3>1. Refs(B, mounts, s) = (Refs(at, mounts, s) + OneHeld(c, s)) - OneHeld(at[p], s)
      BY <2>2, HeldAfter
    <3>2. OneHeld(c, s) = 0 /\ OneHeld(at[p], s) = 0
      BY <1>4 DEF OneHeld
    <3>3. Refs(at, mounts, s) \in Nat
      BY RefsFinite
    <3>4. inodes[s].count = Refs(at, mounts, s)
      BY <1>2 DEF Counted
    <3> QED BY <3>1, <3>2, <3>3, <3>4
  <2>4. Counted(B, inodes, mounts)
    BY <2>3 DEF Counted
  <2> QED BY <1>1, <2>1, <2>4
<1>8. ASSUME NEW q \in Mounters PROVE CallOK(at'[q], inodes', mounts')
  <2>1. CallOK(at[q], inodes, mounts)
    BY CallFacts
  <2> QED BY <1>1, <1>3, <1>5, <2>1
<1>9. LocksApart(at')
  BY <1>2, <1>3, <1>4 DEF LocksApart
<1>10. CallsApart(at')
  <2>1. ~Mounting(c) /\ ~Umounting(c) /\ (Walking(c) => c.want[1] = RootDev)
    BY DEF Mounting, Umounting, Walking
  <2>2. ASSUME NEW q \in Mounters, q # p PROVE Beside(c, at[q]) /\ Beside(at[q], c)
    <3>1. Umounting(at[q]) => at[q].dev # RootDev
      BY CallFacts, MountAssumption DEF CallOK, Umounting
    <3> QED BY <2>1, <3>1 DEF Beside
  <2>3. ASSUME NEW q \in Mounters, NEW r \in Mounters, q # r PROVE Beside(at'[q], at'[r])
    <3>1. CASE q # p /\ r # p
      BY <3>1, <2>3, <1>3 DEF MountInv, CallsApart
    <3>2. CASE q = p
      BY <3>2, <2>2, <2>3, <1>3
    <3>3. CASE r = p
      BY <3>3, <2>2, <2>3, <1>3
    <3> QED BY <3>1, <3>2, <3>3
  <2> QED BY <2>3 DEF CallsApart
<1> QED BY <1>1, <1>2, <1>6, <1>7, <1>8, <1>9, <1>10 DEF MountInv

\* The calls.
LEMMA CallsKeep ==
    ASSUME MountInv, NEW p \in Mounters,
           \/ CallSync(p)
           \/ \E d \in Devs : CallUmount(p, d)
           \/ \E dir \in Dirs : CallOpen(p, dir)
           \/ \E d \in Devs, dir \in Dirs : CallMount(p, d, dir)
    PROVE  MountInv'
<1>1. ASSUME NEW call \in {"open", "mount", "umount", "sync"}, NEW d \in DevIds,
             NEW pc \in {"iget", "update"}
      PROVE  LET c == [AtUser EXCEPT !.call = call, !.pc = pc, !.dev = d]
             IN  /\ c \in CallStates /\ c.call = call /\ c.pc = pc /\ c.dev = d
  BY UserState DEF CallStates
<1>2. ASSUME NEW dir \in Dirs
      PROVE  /\ <<RootDev, dir>> \in Names /\ <<RootDev, dir>>[1] = RootDev
             /\ <<RootDev, dir>>[2] # "none"
  BY MountAssumption DEF Names, DevIds
<1>3. AtUser.dev = RootDev /\ RootDev \in DevIds /\ Devs \subseteq DevIds
  BY DEF AtUser, DevIds
<1>4. CASE CallSync(p)
  <2> DEFINE c == [AtUser EXCEPT !.call = "sync", !.pc = "update"]
  <2>1. StartsCall(p, c)
    BY <1>4 DEF CallSync
  <2>2. c \in CallStates /\ c.call = "sync" /\ c.pc = "update"
    BY UserState DEF CallStates
  <2> HIDE DEF c
  <2>3. PcFits(c)
    BY <2>2 DEF PcFits
  <2> QED BY <2>1, <2>2, <2>3, StartsKeeps
<1>5. ASSUME NEW d \in Devs, CallUmount(p, d) PROVE MountInv'
  <2> DEFINE c == [AtUser EXCEPT !.call = "umount", !.pc = "update", !.dev = d]
  <2>1. StartsCall(p, c)
    BY <1>5 DEF CallUmount
  <2>2. c \in CallStates /\ c.call = "umount" /\ c.pc = "update" /\ c.dev = d
    BY <1>3, UserState DEF CallStates
  <2> HIDE DEF c
  <2>3. PcFits(c)
    BY <2>2 DEF PcFits
  <2> QED BY <2>1, <2>2, <2>3, StartsKeeps
<1>6. ASSUME NEW dir \in Dirs, CallOpen(p, dir) PROVE MountInv'
  <2> DEFINE w == <<RootDev, dir>>
             c == [AtUser EXCEPT !.call = "open", !.pc = "iget", !.want = w]
  <2>1. StartsCall(p, c) /\ w \in Names /\ w[1] = RootDev /\ w[2] # "none"
    BY <1>2, <1>6 DEF CallOpen
  <2> HIDE DEF w
  <2>2. c \in CallStates /\ c.call = "open" /\ c.pc = "iget" /\ c.want = w
    BY <2>1, UserState DEF CallStates
  <2> HIDE DEF c
  <2>3. PcFits(c)
    BY <2>2 DEF PcFits
  <2> QED BY <2>1, <2>2, <2>3, StartsKeeps
<1>7. ASSUME NEW d \in Devs, NEW dir \in Dirs, CallMount(p, d, dir) PROVE MountInv'
  <2> DEFINE w == <<RootDev, dir>>
             c == [AtUser EXCEPT !.call = "mount", !.pc = "iget", !.dev = d, !.want = w]
  <2>1. StartsCall(p, c) /\ w \in Names /\ w[1] = RootDev /\ w[2] # "none"
    BY <1>2, <1>7 DEF CallMount
  <2> HIDE DEF w
  <2>2. c \in CallStates /\ c.call = "mount" /\ c.pc = "iget" /\ c.want = w /\ c.dev = d
    BY <1>3, <2>1, UserState DEF CallStates
  <2> HIDE DEF c
  <2>3. PcFits(c)
    BY <2>2 DEF PcFits
  <2> QED BY <2>1, <2>2, <2>3, StartsKeeps
<1> QED BY <1>4, <1>5, <1>6, <1>7

\* Initially the root device is mounted and only its root directory is in core.
LEMMA MountInitially ==
    ASSUME MountInit
    PROVE  MountInv
<1> DEFINE root == [FreeInode EXCEPT !.name = <<RootDev, RootIno>>, !.count = 1]
<1>1. /\ root \in InodeRecords /\ root.count = 1 /\ ~root.mount
  <2>1. <<RootDev, RootIno>> \in Names
    BY DEF Names, DevIds, RootIno
  <2> QED BY <2>1, FreeFields DEF InodeRecords
<1>2. /\ inodes = [s \in 1..NINODE |-> IF s = 1 THEN root ELSE FreeInode]
      /\ mounts = [m \in 1..NMOUNT |-> [bufp |-> m = 1, dev |-> RootDev, inodp |-> 0]]
      /\ updlock = FALSE /\ at = [p \in Mounters |-> AtUser] /\ mountCalls = 0
  BY DEF MountInit
<1> HIDE DEF root
<1>3. inodes \in [1..NINODE -> InodeRecords]
  BY <1>1, <1>2, FreeFields
<1>4. \A s \in 1..NINODE : ~inodes[s].mount /\ inodes[s].count = IF s = 1 THEN 1 ELSE 0
  BY <1>1, <1>2, FreeFields
<1>5. mounts \in [1..NMOUNT -> Entry]
  <2>1. ASSUME NEW m \in 1..NMOUNT PROVE [bufp |-> m = 1, dev |-> RootDev, inodp |-> 0] \in Entry
    <3>1. 0 \in 0..NINODE /\ (m = 1) \in BOOLEAN
      BY MountAssumption
    <3> QED BY <3>1 DEF Entry
  <2> QED BY <1>2, <2>1
<1>6. \A m \in 2..NMOUNT : ~mounts[m].bufp
  <2> SUFFICES ASSUME NEW m \in 2..NMOUNT PROVE ~mounts[m].bufp
    OBVIOUS
  <2>1. m \in 1..NMOUNT /\ m # 1
    BY MountAssumption
  <2> QED BY <1>2, <2>1
<1>7. mounts[1] = [bufp |-> TRUE, dev |-> RootDev, inodp |-> 0]
  <2>1. 1 \in 1..NMOUNT
    BY MountAssumption
  <2>2. mounts[1] = [bufp |-> 1 = 1, dev |-> RootDev, inodp |-> 0]
    BY <1>2, <2>1
  <2> QED BY <2>2
<1>8. \A p \in Mounters : at[p] = AtUser
  BY <1>2
<1>9. MountTypes
  BY <1>2, <1>3, <1>5, UserState DEF MountTypes
<1>10. Counted(at, inodes, mounts)
  <2> SUFFICES ASSUME NEW s \in 1..NINODE PROVE inodes[s].count = Refs(at, mounts, s)
    BY DEF Counted
  <2>1. HeldBy(at, s) = {}
    BY <1>8, UserState DEF HeldBy
  <2>2. KeptBy(mounts, s) = {}
    BY <1>6 DEF KeptBy, Kept
  <2>3. Cardinality({}) = 0
    BY FS_EmptySet
  <2>4. Refs(at, mounts, s) = 0 + 0 + (IF s = 1 THEN 1 ELSE 0)
    BY <2>1, <2>2, <2>3 DEF Refs
  <2> QED BY <2>4, <1>4
<1>11. TableOK(inodes, mounts)
  <2>1. \A m, n \in 1..NMOUNT : mounts[m].bufp /\ mounts[n].bufp => m = n
    BY <1>2
  <2> QED BY <2>1, <1>4, <1>6, <1>7 DEF TableOK
<1>12. \A p \in Mounters : CallOK(at[p], inodes, mounts)
  BY <1>8, UserState
<1>13. LocksApart(at)
  BY <1>8, UserState DEF LocksApart
<1>14. CallsApart(at)
  <2>1. ~Mounting(AtUser) /\ ~Umounting(AtUser) /\ ~Walking(AtUser)
    BY DEF AtUser, Mounting, Umounting, Walking
  <2> QED BY <1>8, <2>1 DEF CallsApart, Beside
<1> QED BY <1>9, <1>10, <1>11, <1>12, <1>13, <1>14 DEF MountInv

\* What has clashed stays so.
LEMMA ClashStays ==
    ASSUME clashed, [MountNext]_mountVars
    PROVE  clashed'
<1>1. CASE UNCHANGED mountVars
  BY <1>1 DEF mountVars
<1>2. ASSUME NEW p \in Mounters, Walks(p) PROVE clashed'
  BY <1>2 DEF Walks, IgetFollows, IgetSleeps, IgetWakes, IgetFinds, IgetReads, IgetHasRead,
              IputEnds, OpenEnds, Closes
<1>3. ASSUME NEW p \in Mounters, Updates(p) PROVE clashed'
  BY <1>3 DEF Updates, UpdateBegins, SupersWritten, InodeNext, Iupdated
<1>4. ASSUME NEW p \in Mounters, MountReads(p) \/ Mounts(p) \/ PlockSleeps(p) \/ Umounts(p)
      PROVE  clashed'
  BY <1>4 DEF MountReads, Mounts, PlockSleeps, Umounts
<1>5. ASSUME NEW p \in Mounters, MountChecks(p) \/ UmountChecks(p) PROVE clashed'
  BY <1>5 DEF MountChecks, UmountChecks
<1>6. ASSUME NEW p \in Mounters, NEW c, StartsCall(p, c) PROVE clashed'
  BY <1>6 DEF StartsCall
<1>7. CASE MountNext
  <2>1. PICK p \in Mounters :
          \/ Walks(p) \/ Updates(p) \/ MountChecks(p) \/ MountReads(p) \/ Mounts(p)
          \/ UmountChecks(p) \/ PlockSleeps(p) \/ Umounts(p) \/ CallSync(p)
          \/ \E d \in Devs : CallUmount(p, d)
          \/ \E dir \in Dirs : CallOpen(p, dir)
          \/ \E d \in Devs, dir \in Dirs : CallMount(p, d, dir)
    BY <1>7 DEF MountNext
  <2>2. ASSUME \/ CallSync(p)
               \/ \E d \in Devs : CallUmount(p, d)
               \/ \E dir \in Dirs : CallOpen(p, dir)
               \/ \E d \in Devs, dir \in Dirs : CallMount(p, d, dir)
        PROVE  \E c : StartsCall(p, c)
    BY <2>2, Zenon DEF CallSync, CallUmount, CallOpen, CallMount
  <2> QED BY <2>1, <2>2, <1>2, <1>3, <1>4, <1>5, <1>6
<1> QED BY <1>1, <1>7

\* Every step keeps the invariant, but for one by which two calls clash.
LEMMA MountStep ==
    ASSUME MountInv, ~clashed', [MountNext]_mountVars
    PROVE  MountInv'
<1>1. CASE UNCHANGED mountVars
  <2>1. /\ inodes' = inodes /\ mounts' = mounts /\ updlock' = updlock /\ at' = at
        /\ mountCalls' = mountCalls
    BY <1>1 DEF mountVars
  <2> QED BY <2>1 DEF MountInv, MountTypes
<1>2. ASSUME NEW p \in Mounters, Walks(p) PROVE MountInv'
  BY <1>2, FollowsKeeps, IgetRestsKeeps, FindsKeeps, ReadsKeeps, HasReadKeeps, IputEndsKeeps,
     OpenEndsKeeps, ClosesKeeps DEF Walks
<1>3. ASSUME NEW p \in Mounters, Updates(p) PROVE MountInv'
  BY <1>3, UpdateKeeps, InodeNextKeeps, IupdatedKeeps DEF Updates
<1>4. ASSUME NEW p \in Mounters,
             \/ MountChecks(p) \/ MountReads(p) \/ Mounts(p)
             \/ UmountChecks(p) \/ PlockSleeps(p) \/ Umounts(p)
      PROVE  MountInv'
  BY <1>4, MountChecksKeeps, MountReadsKeeps, MountsKeeps, UmountChecksKeeps,
     PlockSleepsKeeps, UmountsKeeps
<1>5. CASE MountNext
  <2>1. PICK p \in Mounters :
          \/ Walks(p) \/ Updates(p) \/ MountChecks(p) \/ MountReads(p) \/ Mounts(p)
          \/ UmountChecks(p) \/ PlockSleeps(p) \/ Umounts(p) \/ CallSync(p)
          \/ \E d \in Devs : CallUmount(p, d)
          \/ \E dir \in Dirs : CallOpen(p, dir)
          \/ \E d \in Devs, dir \in Dirs : CallMount(p, d, dir)
    BY <1>5 DEF MountNext
  <2>2. CASE \/ CallSync(p)
             \/ \E d \in Devs : CallUmount(p, d)
             \/ \E dir \in Dirs : CallOpen(p, dir)
             \/ \E d \in Devs, dir \in Dirs : CallMount(p, d, dir)
    BY <2>2, CallsKeep
  <2> QED BY <2>1, <2>2, <1>2, <1>3, <1>4
<1> QED BY <1>1, <1>5

\* Until two calls clash, an inode counts the calls and the entries that refer to it, no two
\* calls have one inode locked, of the entries of the table that name a directory the first is
\* in use, no two are of one device, mount has a directory and an entry for itself, and while
\* umount sleeps nothing is mounted on its device.
THEOREM MountInvariant == MountSpec => [](clashed \/ MountInv)
<1>1. MountInit => MountInv
  BY MountInitially
<1>2. (clashed \/ MountInv) /\ [MountNext]_mountVars => (clashed \/ MountInv)'
  BY ClashStays, MountStep
<1> QED BY <1>1, <1>2, PTL DEF MountSpec

\* iget and update find what they look for in the mount table: until two calls clash an inode
\* that is mounted on has an entry, the first that names it is in use, an entry in use keeps
\* its directory in core, of a device that is mounted itself, and no device has two entries.
THEOREM MountTheorem == MountSpec => []MountsAreFound
<1>1. clashed \/ MountInv => MountsAreFound
  <2> SUFFICES ASSUME MountInv PROVE MountsAreFound
    BY DEF MountsAreFound
  <2>1. ASSUME NEW s \in 1..NINODE, Inode(s).mount
        PROVE  LedTo(s) # {} /\ mounts[Min(LedTo(s))].bufp
    BY <2>1, LeadsTo DEF Inode
  <2>2. ASSUME NEW m \in 2..NMOUNT, mounts[m].bufp
        PROVE  Inode(mounts[m].inodp).count > 0 /\ Mounted(Inode(mounts[m].inodp).name[1]) # {}
    <3>1. TableOK(inodes, mounts) /\ mounts \in [1..NMOUNT -> Entry]
      BY DEF MountInv, MountTypes
    <3> DEFINE s == mounts[m].inodp
    <3>2. s \in 1..NINODE /\ m \in KeptBy(mounts, s)
      BY <2>2, <3>1, DirectoryOf
    <3>3. inodes[s].count \in Nat
      <4>1. inodes[s] \in InodeRecords
        BY <3>2 DEF MountInv, MountTypes
      <4> QED BY <4>1 DEF InodeRecords
    <3>4. inodes[s].count # 0
      <4> HIDE DEF s
      <4> QED BY <3>2, CountFacts
    <3>5. IsMounted(mounts, inodes[s].name[1])
      BY <2>2, <3>1 DEF TableOK
    <3>6. Mounted(inodes[s].name[1]) # {}
      BY <3>5 DEF IsMounted, Mounted
    <3> QED BY <3>3, <3>4, <3>6 DEF Inode
  <2>3. ASSUME NEW d \in Devs, NEW m \in Mounted(d), NEW n \in Mounted(d) PROVE m = n
    BY DEF Mounted, MountInv, TableOK
  <2> QED BY <2>1, <2>2, <2>3, Zenon DEF MountsAreFound
<1> QED BY <1>1, MountInvariant, PTL

----------------------------------------------------------------------------
(* The table of shared texts *)

SlotFlags == {"XLOCK", "XWANT", "XLOAD", "XWRIT"}

\* Where a process that has a text reads it, from the file or from the swap area.
LoadPlaces == {"readi", "loadswap", "loadback"}
SharePlaces == {"read", "xswap", "back"}

UserPlaces ==
    {"idle", "gone", "search", "attach", "free", "freewrite", "mapwait", "selftext", "selfimage"}
        \cup SharePlaces \cup LoadPlaces

Proc0Places == {"idle", "swapin", "textin", "image", "swapout", "textout", "imageout"}

SlotRecs ==
    [iptr : Programs \cup {Nil}, count : Int, ccount : Int, flag : SUBSET SlotFlags,
     caddr : Users \cup {Nil}]

DeedRecs ==
    [at : UserPlaces \cup Proc0Places \cup {"untext"}, slot : Slots \cup {Nil},
     prog : Programs \cup {Nil}, proc : Users \cup {Nil}]

TextTypes ==
    /\ text \in [Slots -> SlotRecs] /\ doing \in [Doers -> DeedRecs]
    /\ textp \in [Users -> Slots \cup {Nil}] /\ pflag \in [Users -> SUBSET {"SLOAD", "SLOCK"}]
    /\ held \subseteq Programs /\ itext \subseteq Programs /\ irefs \in [Programs -> Int]
    /\ asleep \subseteq Doers

\* What process p, at d, has.
UserOK(p, d) ==
    /\ d.at \in UserPlaces
    /\ d.at \in {"free"} \cup SharePlaces \cup LoadPlaces => textp[p] = d.slot /\ d.slot \in Slots
    /\ d.at \in {"search", "gone", "attach", "freewrite"} => textp[p] = Nil
    /\ d.at \in {"search", "attach"} \cup SharePlaces \cup LoadPlaces => d.prog \in Programs
    /\ d.at \in {"attach", "freewrite"} => d.slot \in Slots
    /\ d.at \in {"idle", "gone"} => d.prog = Nil
    /\ d.at \in {"read", "xswap", "loadswap", "selftext", "selfimage"} => "SLOAD" \in pflag[p]
    /\ d.at \in {"xswap", "loadswap", "selftext", "selfimage"} => "SLOCK" \in pflag[p]
    /\ d.at \in {"mapwait", "selftext", "selfimage"} => textp[p] = d.slot
    /\ d.at = "selftext" => d.slot \in Slots

\* What process 0, at d, works on: a process that does not run.
Proc0OK(d) ==
    /\ d.at \in Proc0Places
    /\ d.at # "idle" =>
          d.proc \in Users /\ "SLOAD" \notin pflag[d.proc] /\ doing[d.proc].at # "gone"
    /\ d.at \in {"swapin", "textin", "swapout", "textout"} =>
          d.slot = textp[d.proc] /\ d.slot \in Slots

RemoverOK(d) ==
    /\ d.at \in {"idle", "untext"}
    /\ d.at = "idle" => d.prog = Nil
    /\ d.at = "untext" => d.slot \in Slots /\ d.prog \in Programs

\* Whoever can do something: where it is fits what it has.
DoersOK ==
    /\ \A p \in Users : UserOK(p, doing[p])
    /\ Proc0OK(doing[Proc0]) /\ RemoverOK(doing[Unlinker]) /\ RemoverOK(doing[Unmounter])

\* A program whose inode somebody keeps locked is that of nobody else.
Lockers == Users \cup {Unlinker}

ProgramsOK ==
    /\ \A a \in Lockers : doing[a].prog # Nil => doing[a].prog \in held
    /\ \A a, b \in Lockers : doing[a].prog # Nil /\ doing[a].prog = doing[b].prog => a = b

\* A slot that is locked has one who holds it.
LocksOK ==
    /\ \A a \in Doers, s \in Slots : HoldsSlot(a, s) => "XLOCK" \in text[s].flag
    /\ \A a, b \in Doers, s \in Slots : HoldsSlot(a, s) /\ HoldsSlot(b, s) => a = b
    /\ \A s \in Slots : "XLOCK" \in text[s].flag => \E a \in Doers : HoldsSlot(a, s)

WaitersOK ==
    \A a \in asleep : doing[a].slot \in Slots /\ {"XLOCK", "XWANT"} \subseteq TextSlot(a).flag

\* A text that is read from the swap area is found by the process it is read for.
Owner(a) == IF a = Proc0 THEN Mine ELSE a

Reads(a, s) == doing[a].at \in {"read", "textin"} /\ doing[a].slot = s

ReadersOK == \A a \in Doers, s \in Slots : Reads(a, s) => text[s].caddr = Owner(a)

UsersOf(s) == {p \in Users : textp[p] = s}

\* What slot s, with the contents x, is.
SlotIs(s, x) ==
    /\ x.iptr = Nil => "XLOCK" \notin x.flag /\ UsersOf(s) = {}
    /\ "XLOCK" \in x.flag => x.ccount = 0
    /\ x.iptr # Nil =>
        /\ x.count = Cardinality(UsersOf(s)) /\ x.ccount = Cardinality(InCore(s))
        /\ x.ccount > 0 /\ x.caddr # Nil => x.caddr \in InCore(s)
        /\ "XLOAD" \in x.flag =>
            /\ UsersOf(s) # {}
            /\ \A p \in UsersOf(s) : doing[p].at \in LoadPlaces /\ doing[p].prog = x.iptr

SlotsOK == \A s \in Slots : SlotIs(s, text[s])

\* A program has one text, which has one reference to its inode.
InodesOK ==
    \A f \in Programs :
        \/ f \notin itext /\ irefs[f] = 0 /\ \A s \in Slots : text[s].iptr # f
        \/ f \in itext /\ irefs[f] = 1 /\ \E s \in Slots : \A z \in Slots : text[z].iptr = f <=> z = s

TextInv ==
    Steady => /\ TextTypes /\ DoersOK /\ ProgramsOK /\ LocksOK /\ WaitersOK /\ ReadersOK
              /\ SlotsOK /\ InodesOK

\* Process 0, who unlinks and who unmounts are no processes, and three.
LEMMA ThreeDoers ==
    /\ Proc0 \notin Users /\ Unlinker \notin Users /\ Unmounter \notin Users /\ Nil \notin Users
    /\ Proc0 # Unlinker /\ Proc0 # Unmounter /\ Unlinker # Unmounter
    /\ Nil \notin Slots /\ Nil \notin Programs
<1>1. \A a, b, c : IsFiniteSet({a, b, c}) /\ Cardinality({a, b, c}) <= 3
  <2> TAKE a, b, c
  <2>1. IsFiniteSet({a}) /\ Cardinality({a}) = 1
    BY FS_Singleton
  <2>2. /\ IsFiniteSet({a} \cup {b})
        /\ Cardinality({a} \cup {b}) = IF b \in {a} THEN 1 ELSE 2
    BY <2>1, FS_AddElement
  <2>3. /\ IsFiniteSet(({a} \cup {b}) \cup {c})
        /\ Cardinality(({a} \cup {b}) \cup {c}) =
             IF c \in {a} \cup {b} THEN Cardinality({a} \cup {b}) ELSE Cardinality({a} \cup {b}) + 1
    BY <2>2, FS_AddElement
  <2>4. ({a} \cup {b}) \cup {c} = {a, b, c}
    OBVIOUS
  <2> QED BY <2>2, <2>3, <2>4
<1>2. Proc0 # Unlinker
  <2> SUFFICES ASSUME Proc0 = Unlinker PROVE FALSE
    OBVIOUS
  <2>1. {Proc0, Unlinker, Unmounter, Nil} = {Proc0, Unmounter, Nil}
    OBVIOUS
  <2>2. Cardinality({Proc0, Unmounter, Nil}) <= 3
    BY <1>1
  <2> QED BY <2>1, <2>2, TextAssumption
<1>3. Proc0 # Unmounter
  <2> SUFFICES ASSUME Proc0 = Unmounter PROVE FALSE
    OBVIOUS
  <2>1. {Proc0, Unlinker, Unmounter, Nil} = {Proc0, Unlinker, Nil}
    OBVIOUS
  <2>2. Cardinality({Proc0, Unlinker, Nil}) <= 3
    BY <1>1
  <2> QED BY <2>1, <2>2, TextAssumption
<1>4. Unlinker # Unmounter
  <2> SUFFICES ASSUME Unlinker = Unmounter PROVE FALSE
    OBVIOUS
  <2>1. {Proc0, Unlinker, Unmounter, Nil} = {Proc0, Unlinker, Nil}
    OBVIOUS
  <2>2. Cardinality({Proc0, Unlinker, Nil}) <= 3
    BY <1>1
  <2> QED BY <2>1, <2>2, TextAssumption
<1> QED BY <1>2, <1>3, <1>4, TextAssumption

\* The number of elements, when one comes or goes.
LEMMA OneElement ==
    ASSUME NEW U, IsFiniteSet(U), NEW p, NEW A \in SUBSET U, NEW B \in SUBSET U, p \in U,
           A \ {p} = B \ {p}
    PROVE  /\ Cardinality(A) \in Nat /\ Cardinality(B) \in Nat
           /\ (p \in A <=> p \in B) => A = B
           /\ p \notin A /\ p \in B => Cardinality(B) = Cardinality(A) + 1
           /\ p \in A /\ p \notin B => Cardinality(B) = Cardinality(A) - 1
<1>1. IsFiniteSet(A) /\ IsFiniteSet(B)
  BY FS_Subset
<1>2. Cardinality(A) \in Nat /\ Cardinality(B) \in Nat
  BY <1>1, FS_CardinalityType
<1>3. ASSUME p \notin A, p \in B PROVE Cardinality(B) = Cardinality(A) + 1
  <2>1. B = A \cup {p}
    BY <1>3
  <2>2. Cardinality(A \cup {p}) = Cardinality(A) + 1
    BY <1>1, <1>3, FS_AddElement
  <2> QED BY <2>1, <2>2
<1>4. ASSUME p \in A, p \notin B PROVE Cardinality(B) = Cardinality(A) - 1
  <2>1. B = A \ {p}
    BY <1>4
  <2>2. Cardinality(A \ {p}) = Cardinality(A) - 1
    BY <1>1, <1>4, FS_RemoveElement
  <2> QED BY <2>1, <2>2
<1> QED BY <1>2, <1>3, <1>4

\* The numbers of users are numbers, and 0 when there are none.
LEMMA UsersCount ==
    ASSUME NEW s
    PROVE  /\ UsersOf(s) \in SUBSET Users /\ InCore(s) \in SUBSET UsersOf(s)
           /\ IsFiniteSet(UsersOf(s)) /\ IsFiniteSet(InCore(s))
           /\ Cardinality(UsersOf(s)) \in Nat /\ Cardinality(InCore(s)) \in Nat
           /\ Cardinality(UsersOf(s)) = 0 <=> UsersOf(s) = {}
           /\ Cardinality(InCore(s)) = 0 <=> InCore(s) = {}
<1>1. UsersOf(s) \in SUBSET Users /\ InCore(s) \in SUBSET UsersOf(s)
  BY DEF UsersOf, InCore
<1>2. IsFiniteSet(UsersOf(s)) /\ IsFiniteSet(InCore(s))
  BY <1>1, FS_Subset, TextAssumption
<1> QED BY <1>1, <1>2, FS_CardinalityType, FS_EmptySet

\* The invariant says what the property does.
LEMMA TextInvImplies == TextInv => TextOK
<1> SUFFICES ASSUME TextInv, Steady PROVE TextOK
  BY DEF TextOK, TextsCounted, FoundByAUser, WaitersAreWoken, TextsAreRead
<1>1. TextTypes /\ DoersOK /\ LocksOK /\ WaitersOK /\ SlotsOK /\ InodesOK
  BY DEF TextInv
<1>2. TextsCounted
  <2>1. \A s \in Slots : text[s].iptr # Nil =>
            /\ text[s].count = Cardinality({p \in Users : textp[p] = s})
            /\ text[s].ccount = Cardinality(InCore(s))
    BY <1>1 DEF SlotsOK, SlotIs, UsersOf
  <2>2. ASSUME NEW f \in Programs
        PROVE  LET texts == {s \in Slots : text[s].iptr = f} IN
               /\ irefs[f] = Cardinality(texts) /\ irefs[f] \in {0, 1}
               /\ f \in itext <=> texts # {}
    <3> DEFINE texts == {s \in Slots : text[s].iptr = f}
    <3>1. CASE f \notin itext /\ irefs[f] = 0 /\ \A s \in Slots : text[s].iptr # f
      <4>1. texts = {}
        BY <3>1
      <4> QED BY <3>1, <4>1, FS_EmptySet
    <3>2. CASE f \in itext /\ irefs[f] = 1 /\ \E s \in Slots : \A z \in Slots : text[z].iptr = f <=> z = s
      <4>1. PICK s \in Slots : \A z \in Slots : text[z].iptr = f <=> z = s
        BY <3>2
      <4>2. texts = {s}
        BY <4>1
      <4>3. Cardinality({s}) = 1
        BY FS_Singleton
      <4> QED BY <3>2, <4>2, <4>3
    <3> QED BY <1>1, <3>1, <3>2 DEF InodesOK
  <2> QED BY <2>1, <2>2 DEF TextsCounted
<1>3. FoundByAUser
  BY <1>1 DEF FoundByAUser, SlotsOK, SlotIs
<1>4. WaitersAreWoken
  BY <1>1 DEF WaitersAreWoken, WaitersOK, LocksOK, TextSlot
<1>5. TextsAreRead
  <2> SUFFICES ASSUME NEW p \in Users, textp[p] # Nil, doing[p].at = "idle",
                      "XLOAD" \in text[textp[p]].flag
               PROVE  FALSE
    BY DEF TextsAreRead
  <2>1. PICK s \in Slots : s = textp[p]
    BY <1>1 DEF TextTypes
  <2>2. p \in UsersOf(s)
    BY <2>1 DEF UsersOf
  <2>3. SlotIs(s, text[s])
    BY <1>1 DEF SlotsOK
  <2>4. doing[p].at \in LoadPlaces
    BY <2>1, <2>2, <2>3 DEF SlotIs
  <2> QED BY <2>4 DEF LoadPlaces
<1> QED BY <1>2, <1>3, <1>4, <1>5 DEF TextOK

\* It holds at first.
LEMMA TextInitOK == TextInit => TextInv
<1> SUFFICES ASSUME TextInit PROVE TextInv
  OBVIOUS
<1>1. TextTypes
  BY DEF TextInit, TextTypes, SlotRecs, DeedRecs, Idle, UserPlaces, SlotFlags
<1>2. \A a \in Doers : doing[a].at = "idle" /\ doing[a].prog = Nil
  BY DEF TextInit, Idle
<1>3. DoersOK
  <2>1. \A p \in Users : p \in Doers /\ Proc0 \in Doers /\ Unlinker \in Doers /\ Unmounter \in Doers
    BY DEF Doers
  <2>2. Proc0 \in Doers /\ Unlinker \in Doers /\ Unmounter \in Doers
    BY DEF Doers
  <2> QED BY <1>2, <2>1, <2>2 DEF DoersOK, UserOK, Proc0OK, RemoverOK, UserPlaces, Proc0Places,
          SharePlaces, LoadPlaces
<1>4. ProgramsOK
  BY <1>2 DEF ProgramsOK, Lockers, Doers
<1>5. \A s \in Slots : /\ text[s].iptr = Nil /\ text[s].flag = {} /\ UsersOf(s) = {}
  BY ThreeDoers DEF TextInit, UsersOf
<1>6. LocksOK
  BY <1>2, <1>5 DEF LocksOK, HoldsSlot, Holding
<1>7. WaitersOK /\ ReadersOK
  BY <1>2 DEF TextInit, WaitersOK, ReadersOK, Reads
<1>8. SlotsOK
  BY <1>5 DEF SlotsOK, SlotIs
<1>9. InodesOK
  BY <1>5, ThreeDoers DEF TextInit, InodesOK
<1> QED BY <1>1, <1>3, <1>4, <1>6, <1>7, <1>8, <1>9 DEF TextInv

----------------------------------------------------------------------------
(* What a step leaves as it was *)

\* A step of a, on process p and slot s.
Frame(a, p, s) ==
    /\ \A z \in Slots : z # s => text'[z] = text[z]
    /\ \A b \in Doers : b # a => doing'[b] = doing[b]
    /\ \A q \in Users : q # p => textp'[q] = textp[q] /\ pflag'[q] = pflag[q]
    /\ a \in Doers /\ (a = p \/ a \notin Users)

\* The frames of the text of process p, if it has one, are in core.
Inside(p) ==
    \/ "SLOAD" \in pflag[p] /\ doing[p].at \notin {"read", "xswap", "loadswap", "selftext", "selfimage"}
    \/ Mine = p /\ doing[Proc0].at \in {"image", "swapout"}

\* Who is in core with a text.
LEMMA InCoreIs == \A s : InCore(s) = {p \in UsersOf(s) : Inside(p)}
BY DEF InCore, UsersOf, Inside

\* The lock is neither taken nor given up, taken, or given up.
LockKept(a, s) ==
    /\ doing[a].at \notin Holding /\ doing'[a].at \notin Holding
    /\ s \in Slots => ("XLOCK" \in text'[s].flag <=> "XLOCK" \in text[s].flag)

LockTaken(a, s) ==
    /\ doing[a].at \notin Holding /\ doing'[a].at \in Holding
    /\ s \in Slots /\ doing'[a].slot = s
    /\ "XLOCK" \notin text[s].flag /\ "XLOCK" \in text'[s].flag

LockGiven(a, s) ==
    /\ doing[a].at \in Holding /\ doing'[a].at \notin Holding
    /\ s \in Slots /\ doing[a].slot = s
    /\ "XLOCK" \notin text'[s].flag

\* So whoever holds a lock has it.
LEMMA LocksKeep ==
    ASSUME LocksOK, NEW a, NEW p, NEW s, Frame(a, p, s),
           LockKept(a, s) \/ LockTaken(a, s) \/ LockGiven(a, s)
    PROVE  LocksOK'
<1>1. \A z \in Slots : z # s => text'[z] = text[z]
  BY DEF Frame
<1>2. \A b \in Doers : b # a => (\A z : HoldsSlot(b, z)' <=> HoldsSlot(b, z))
  BY DEF Frame, HoldsSlot
<1>3. a \in Doers
  BY DEF Frame
<1>4. CASE LockKept(a, s)
  <2>1. \A z : ~HoldsSlot(a, z) /\ ~HoldsSlot(a, z)'
    BY <1>4 DEF LockKept, HoldsSlot
  <2>2. \A z \in Slots : "XLOCK" \in text'[z].flag <=> "XLOCK" \in text[z].flag
    BY <1>1, <1>4 DEF LockKept
  <2> QED BY <1>2, <2>1, <2>2 DEF LocksOK
<1>5. CASE LockTaken(a, s)
  <2>1. \A z : ~HoldsSlot(a, z) /\ (HoldsSlot(a, z)' <=> z = s)
    BY <1>5 DEF LockTaken, HoldsSlot
  <2>2. s \in Slots /\ "XLOCK" \notin text[s].flag /\ "XLOCK" \in text'[s].flag
    BY <1>5 DEF LockTaken
  <2>3. \A b \in Doers : ~HoldsSlot(b, s)
    BY <2>2 DEF LocksOK
  <2> QED BY <1>1, <1>2, <1>3, <2>1, <2>2, <2>3 DEF LocksOK
<1>6. CASE LockGiven(a, s)
  <2>1. \A z : (HoldsSlot(a, z) <=> z = s) /\ ~HoldsSlot(a, z)'
    BY <1>6 DEF LockGiven, HoldsSlot
  <2>2. s \in Slots /\ "XLOCK" \notin text'[s].flag
    BY <1>6 DEF LockGiven
  <2>3. \A b \in Doers : HoldsSlot(b, s) => b = a
    BY <1>3, <2>1, <2>2 DEF LocksOK
  <2> QED BY <1>1, <1>2, <1>3, <2>1, <2>2, <2>3 DEF LocksOK
<1> QED BY <1>4, <1>5, <1>6

\* Who waits for slot s is woken, waits on, or comes to wait.
AllWoken(s) == Wakes(s)

WaitOn(s) ==
    /\ UNCHANGED asleep
    /\ s \in Slots /\ "XLOCK" \in text[s].flag =>
          text[s].flag \cap {"XLOCK", "XWANT"} \subseteq text'[s].flag

ComesToWait(a, s) ==
    /\ asleep' = asleep \cup {a}
    /\ s \in Slots /\ doing'[a].slot = s
    /\ {"XLOCK", "XWANT"} \subseteq text'[s].flag

\* So whoever waits has asked for it.
LEMMA WaitersKeep ==
    ASSUME WaitersOK, NEW a, NEW p, NEW s, Frame(a, p, s), a \notin asleep, asleep \subseteq Doers,
           AllWoken(s) \/ WaitOn(s) \/ ComesToWait(a, s)
    PROVE  WaitersOK'
<1>1. \A z \in Slots : z # s => text'[z] = text[z]
  BY DEF Frame
<1>2. \A b \in asleep : doing'[b] = doing[b] /\ doing[b].slot \in Slots
                        /\ {"XLOCK", "XWANT"} \subseteq text[doing[b].slot].flag
  BY DEF Frame, WaitersOK, TextSlot
<1> SUFFICES ASSUME NEW b \in asleep'
             PROVE  doing'[b].slot \in Slots /\ {"XLOCK", "XWANT"} \subseteq text'[doing'[b].slot].flag
  BY DEF WaitersOK, TextSlot
<1>3. CASE AllWoken(s)
  <2>1. b \in asleep
    BY <1>3 DEF AllWoken, Wakes
  <2>2. b \in Doers
    BY <2>1
  <2>3. doing[b].slot # s
    BY <1>3, <2>2 DEF AllWoken, Wakes
  <2> QED BY <1>1, <1>2, <2>1, <2>3
<1>4. CASE WaitOn(s)
  <2>1. b \in asleep
    BY <1>4 DEF WaitOn
  <2>2. CASE doing[b].slot # s
    BY <1>1, <1>2, <2>1, <2>2
  <2>3. CASE doing[b].slot = s
    BY <1>2, <1>4, <2>1, <2>3 DEF WaitOn
  <2> QED BY <2>2, <2>3
<1>5. CASE ComesToWait(a, s)
  <2>1. CASE b = a
    BY <1>5, <2>1 DEF ComesToWait
  <2>2. CASE b # a
    BY <1>1, <1>2, <1>5, <2>2 DEF ComesToWait
  <2> QED BY <2>1, <2>2
<1> QED BY <1>3, <1>4, <1>5

\* Only who has locked a slot, or finds it not locked, lets its text be found by another.
FoundSo(a, s) ==
    /\ s \in Slots /\ "XLOCK" \in text[s].flag => text'[s].caddr = text[s].caddr \/ HoldsSlot(a, s)
    /\ doing'[a].at \in {"read", "textin"} =>
          s \in Slots /\ doing'[a].slot = s /\ text'[s].caddr = Owner(a)'

\* So a text that is read is found by the process it is read for.
LEMMA ReadersKeep ==
    ASSUME LocksOK, ReadersOK, NEW a, NEW p, NEW s, Frame(a, p, s), FoundSo(a, s)
    PROVE  ReadersOK'
<1> SUFFICES ASSUME NEW b \in Doers, NEW z \in Slots, Reads(b, z)' PROVE text'[z].caddr = Owner(b)'
  BY DEF ReadersOK
<1>1. CASE b = a
  BY <1>1 DEF Reads, FoundSo
<1>2. CASE b # a
  <2>1. doing'[b] = doing[b] /\ Reads(b, z) /\ HoldsSlot(b, z) /\ a \in Doers
    BY <1>2 DEF Frame, Reads, HoldsSlot, Holding
  <2>2. text[z].caddr = Owner(b) /\ Owner(b)' = Owner(b) /\ "XLOCK" \in text[z].flag
    BY <2>1 DEF ReadersOK, Owner, Mine, LocksOK
  <2>3. ~HoldsSlot(a, z)
    BY <1>2, <2>1 DEF LocksOK
  <2>4. text'[z].caddr = text[z].caddr
    BY <2>2, <2>3 DEF Frame, FoundSo
  <2> QED BY <2>2, <2>4
<1> QED BY <1>1, <1>2

\* An inode is kept locked, or let go, or locked.
ProgramKept(a) == held' = held /\ (a \in Lockers => doing'[a].prog \in {doing[a].prog, Nil})

ProgramGone(a) == a \in Lockers /\ held' = held \ {doing[a].prog} /\ doing'[a].prog = Nil

ProgramLocked(a, f) ==
    a \in Lockers /\ f \notin held /\ held' = held \cup {f} /\ doing'[a].prog = f

\* So an inode that somebody keeps locked is that of nobody else.
LEMMA ProgramsKeep ==
    ASSUME ProgramsOK, NEW a, NEW p, NEW s, NEW f, Frame(a, p, s),
           ProgramKept(a) \/ ProgramGone(a) \/ ProgramLocked(a, f)
    PROVE  ProgramsOK'
<1>1. \A b \in Lockers : b \in Doers
  BY DEF Lockers, Doers
<1>2. \A b \in Lockers : b # a => doing'[b] = doing[b]
  BY <1>1 DEF Frame
<1>3. CASE ProgramKept(a)
  <2>1. \A b \in Lockers : doing'[b].prog \in {doing[b].prog, Nil}
    BY <1>2, <1>3 DEF ProgramKept
  <2> QED BY <1>3, <2>1 DEF ProgramsOK, ProgramKept, Lockers
<1>4. CASE ProgramGone(a)
  <2>1. \A b \in Lockers : b # a /\ doing[b].prog # Nil => doing[b].prog # doing[a].prog
    BY <1>4 DEF ProgramsOK, ProgramGone
  <2> QED BY <1>2, <1>4, <2>1 DEF ProgramsOK, ProgramGone, Lockers
<1>5. CASE ProgramLocked(a, f)
  <2>1. \A b \in Lockers : doing[b].prog # Nil => doing[b].prog # f
    BY <1>5 DEF ProgramsOK, ProgramLocked
  <2> QED BY <1>2, <1>5, <2>1 DEF ProgramsOK, ProgramLocked, Lockers
<1> QED BY <1>3, <1>4, <1>5

\* Where everybody is, when one has gone somewhere.
LEMMA DoersKeep ==
    ASSUME DoersOK, NEW a, NEW p, NEW s, Frame(a, p, s),
           p \in Users => UserOK(p, doing[p])',
           IF a = Proc0 THEN Proc0OK(doing[Proc0])' ELSE doing[Proc0].at = "idle" \/ Mine # p,
           a \in {Unlinker, Unmounter} => RemoverOK(doing[a])'
    PROVE  DoersOK'
<1>1. ASSUME NEW q \in Users PROVE UserOK(q, doing[q])'
  <2>1. CASE q = p
    BY <2>1
  <2>2. CASE q # p
    <3>1. q # a /\ q \in Doers
      BY <2>2 DEF Frame, Doers
    <3>2. doing'[q] = doing[q] /\ textp'[q] = textp[q] /\ pflag'[q] = pflag[q]
      BY <2>2, <3>1 DEF Frame
    <3>3. UserOK(q, doing[q])
      BY DEF DoersOK
    <3> QED BY <3>2, <3>3 DEF UserOK
  <2> QED BY <2>1, <2>2
<1>2. Proc0OK(doing[Proc0])'
  <2>1. CASE a = Proc0
    BY <2>1
  <2>2. CASE a # Proc0
    <3>1. doing'[Proc0] = doing[Proc0]
      BY <2>2 DEF Frame, Doers
    <3>2. Proc0OK(doing[Proc0])
      BY DEF DoersOK
    <3>3. CASE doing[Proc0].at = "idle"
      BY <3>1, <3>2, <3>3 DEF Proc0OK
    <3>4. CASE doing[Proc0].at # "idle"
      <4>1. PICK q \in Users : q = Mine
        BY <3>2, <3>4 DEF Proc0OK, Mine
      <4>2. q # p /\ q # a /\ q \in Doers
        BY <2>2, <3>4, <4>1 DEF Frame, Doers
      <4>3. doing'[q] = doing[q] /\ textp'[q] = textp[q] /\ pflag'[q] = pflag[q]
        BY <4>2 DEF Frame
      <4> QED BY <3>1, <3>2, <4>1, <4>3 DEF Proc0OK, Mine
    <3> QED BY <3>3, <3>4
  <2> QED BY <2>1, <2>2
<1>3. RemoverOK(doing[Unlinker])' /\ RemoverOK(doing[Unmounter])'
  BY DEF Frame, Doers, DoersOK, RemoverOK
<1> QED BY <1>1, <1>2, <1>3 DEF DoersOK

\* The frames of no other text come or go.
InsidesKept(p) == \A q \in Users : q # p => (Inside(q)' <=> Inside(q))

\* A step of a for process p leaves the others inside or out.
LEMMA OthersInside ==
    ASSUME NEW a, NEW p, NEW s, Frame(a, p, s),
           a = Proc0 => /\ doing[Proc0].at = "idle" \/ Mine = p
                        /\ doing'[Proc0].at \in {"image", "swapout"} => Mine' = p
    PROVE  InsidesKept(p)
<1> SUFFICES ASSUME NEW q \in Users, q # p PROVE Inside(q)' <=> Inside(q)
  BY DEF InsidesKept
<1>1. q # a /\ q \in Doers
  BY DEF Frame, Doers
<1>2. doing'[q] = doing[q] /\ pflag'[q] = pflag[q]
  BY <1>1 DEF Frame
<1>3. CASE a = Proc0
  BY <1>2, <1>3 DEF Inside, Mine
<1>4. CASE a # Proc0
  <2>1. doing'[Proc0] = doing[Proc0]
    BY <1>4 DEF Frame, Doers
  <2> QED BY <1>2, <2>1 DEF Inside, Mine
<1> QED BY <1>3, <1>4

\* The users of a slot, and those in core, are the same but for p.
LEMMA UsersMove ==
    ASSUME NEW a, NEW p, NEW s, Frame(a, p, s), InsidesKept(p), NEW z
    PROVE  /\ UsersOf(z)' \ {p} = UsersOf(z) \ {p} /\ InCore(z)' \ {p} = InCore(z) \ {p}
           /\ p \in UsersOf(z) <=> p \in Users /\ textp[p] = z
           /\ p \in UsersOf(z)' <=> p \in Users /\ textp'[p] = z
           /\ p \in InCore(z) <=> p \in Users /\ textp[p] = z /\ Inside(p)
           /\ p \in InCore(z)' <=> p \in Users /\ textp'[p] = z /\ Inside(p)'
<1>1. \A q \in Users : q # p => textp'[q] = textp[q]
  BY DEF Frame
<1>2. InCore(z) = {q \in UsersOf(z) : Inside(q)}
  BY InCoreIs
<1>3. InCore(z)' = {q \in UsersOf(z)' : Inside(q)'}
  BY DEF InCore, UsersOf, Inside
<1>4. UsersOf(z)' = {q \in Users : textp'[q] = z} /\ UsersOf(z) = {q \in Users : textp[q] = z}
  BY DEF UsersOf
<1> QED BY <1>1, <1>2, <1>3, <1>4 DEF InsidesKept

\* How many they are.
LEMMA UsersCounted ==
    ASSUME NEW p \in Users, NEW z,
           UsersOf(z)' \ {p} = UsersOf(z) \ {p}, InCore(z)' \ {p} = InCore(z) \ {p}
    PROVE  /\ (p \in UsersOf(z)' <=> p \in UsersOf(z)) => UsersOf(z)' = UsersOf(z)
           /\ (p \in InCore(z)' <=> p \in InCore(z)) => InCore(z)' = InCore(z)
           /\ p \notin UsersOf(z) /\ p \in UsersOf(z)' =>
                Cardinality(UsersOf(z)') = Cardinality(UsersOf(z)) + 1
           /\ p \in UsersOf(z) /\ p \notin UsersOf(z)' =>
                Cardinality(UsersOf(z)') = Cardinality(UsersOf(z)) - 1
           /\ p \notin InCore(z) /\ p \in InCore(z)' =>
                Cardinality(InCore(z)') = Cardinality(InCore(z)) + 1
           /\ p \in InCore(z) /\ p \notin InCore(z)' =>
                Cardinality(InCore(z)') = Cardinality(InCore(z)) - 1
<1>1. PICK A, B, C, D : A = UsersOf(z) /\ B = UsersOf(z)' /\ C = InCore(z) /\ D = InCore(z)'
  OBVIOUS
<1>2. A \in SUBSET Users /\ B \in SUBSET Users /\ C \in SUBSET Users /\ D \in SUBSET Users
  BY <1>1 DEF UsersOf, InCore
<1>3. A \ {p} = B \ {p} /\ C \ {p} = D \ {p}
  BY <1>1
<1>4. IsFiniteSet(Users)
  BY TextAssumption
<1>5. /\ (p \in A <=> p \in B) => A = B
      /\ p \notin A /\ p \in B => Cardinality(B) = Cardinality(A) + 1
      /\ p \in A /\ p \notin B => Cardinality(B) = Cardinality(A) - 1
  BY <1>2, <1>3, <1>4, OneElement
<1>6. /\ (p \in C <=> p \in D) => C = D
      /\ p \notin C /\ p \in D => Cardinality(D) = Cardinality(C) + 1
      /\ p \in C /\ p \notin D => Cardinality(D) = Cardinality(C) - 1
  BY <1>2, <1>3, <1>4, OneElement
<1> QED BY <1>1, <1>5, <1>6

\* A slot whose users, and those in core, are the same.
SlotStays(s) ==
    /\ UsersOf(s)' = UsersOf(s) /\ InCore(s)' = InCore(s)
    /\ text'[s].iptr = text[s].iptr /\ text'[s].count = text[s].count
    /\ text'[s].ccount = text[s].ccount
    /\ text[s].ccount > 0 => text'[s].caddr \in {text[s].caddr, Nil}
    /\ "XLOAD" \in text'[s].flag => "XLOAD" \in text[s].flag
    /\ "XLOCK" \in text'[s].flag =>
          "XLOCK" \in text[s].flag \/ (text[s].ccount = 0 /\ text[s].iptr # Nil)
    /\ \A q \in UsersOf(s) : "XLOAD" \in text'[s].flag /\ doing[q].at \in LoadPlaces =>
          doing'[q].at \in LoadPlaces /\ doing'[q].prog = doing[q].prog

\* Such a slot is what it was.
LEMMA SlotStaysSo ==
    ASSUME NEW s \in Slots, SlotIs(s, text[s]), SlotStays(s)
    PROVE  SlotIs(s, text[s])'
BY DEF SlotIs, SlotStays

\* The slots, when one has changed.
LEMMA SlotsKeep ==
    ASSUME SlotsOK, TextTypes, NEW a, NEW p \in Users \cup {Nil}, NEW s \in Slots \cup {Nil},
           Frame(a, p, s), InsidesKept(p),
           p \in Users => {textp[p], textp'[p]} \subseteq {s, Nil},
           s \in Slots => SlotIs(s, text[s])'
    PROVE  SlotsOK'
<1> SUFFICES ASSUME NEW z \in Slots PROVE SlotIs(z, text[z])'
  BY DEF SlotsOK
<1>1. CASE z = s
  BY <1>1
<1>2. CASE z # s
  <2>1. SlotIs(z, text[z]) /\ text'[z] = text[z]
    BY <1>2 DEF SlotsOK, Frame
  <2>2. z # Nil
    BY ThreeDoers
  <2>3. p \notin UsersOf(z) /\ p \notin UsersOf(z)'
    BY <1>2, <2>2 DEF UsersOf
  <2>4. UsersOf(z)' \ {p} = UsersOf(z) \ {p} /\ InCore(z)' \ {p} = InCore(z) \ {p}
    BY UsersMove
  <2>5. UsersOf(z)' = UsersOf(z)
    BY <2>3, <2>4
  <2>6. InCore(z)' \subseteq UsersOf(z)' /\ InCore(z) \subseteq UsersOf(z)
    BY DEF InCore, UsersOf
  <2>7. InCore(z)' = InCore(z)
    BY <2>3, <2>4, <2>6
  <2>8. \A q \in UsersOf(z) : doing'[q] = doing[q]
    <3> SUFFICES ASSUME NEW q \in UsersOf(z) PROVE doing'[q] = doing[q]
      OBVIOUS
    <3>1. q \in Users /\ q # p
      BY <2>3 DEF UsersOf
    <3>2. q # a /\ q \in Doers
      BY <3>1 DEF Frame, Doers
    <3> QED BY <3>2 DEF Frame
  <2> QED BY <2>1, <2>5, <2>7, <2>8 DEF SlotIs
<1> QED BY <1>1, <1>2

\* The inodes, when no slot has got another.
LEMMA InodesKeep ==
    ASSUME InodesOK, itext' = itext, irefs' = irefs, \A z \in Slots : text'[z].iptr = text[z].iptr
    PROVE  InodesOK'
BY DEF InodesOK

\* A step as a whole: of locks and who waits for them, of where everybody is, and of the slot.
Mutual(a, s, f) ==
    /\ a \notin asleep
    /\ LockKept(a, s) \/ LockTaken(a, s) \/ LockGiven(a, s)
    /\ AllWoken(s) \/ WaitOn(s) \/ ComesToWait(a, s)
    /\ ProgramKept(a) \/ ProgramGone(a) \/ ProgramLocked(a, f)
    /\ FoundSo(a, s)

Places(a, p) ==
    /\ p \in Users => UserOK(p, doing[p])'
    /\ IF a = Proc0 THEN Proc0OK(doing[Proc0])' ELSE doing[Proc0].at = "idle" \/ Mine # p
    /\ a \in {Unlinker, Unmounter} => RemoverOK(doing[a])'
    /\ a = Proc0 => /\ doing[Proc0].at = "idle" \/ Mine = p
                    /\ doing'[Proc0].at \in {"image", "swapout"} => Mine' = p

SlotKept(p, s) ==
    /\ p \in Users => {textp[p], textp'[p]} \subseteq {s, Nil}
    /\ s \in Slots => SlotIs(s, text[s])'

\* A step that keeps each of these keeps the invariant.
LEMMA TextStepKeeps ==
    ASSUME TextInv, Steady, NEW a, NEW p \in Users \cup {Nil}, NEW s \in Slots \cup {Nil}, NEW f,
           Frame(a, p, s), TextTypes', Mutual(a, s, f), Places(a, p), SlotKept(p, s), InodesOK'
    PROVE  TextInv'
<1>1. /\ TextTypes /\ DoersOK /\ ProgramsOK /\ LocksOK /\ WaitersOK /\ ReadersOK /\ SlotsOK
      /\ asleep \subseteq Doers
  BY DEF TextInv, TextTypes
<1>2. LocksOK'
  BY <1>1, LocksKeep DEF Mutual
<1>3. WaitersOK'
  BY <1>1, WaitersKeep DEF Mutual
<1>4. ProgramsOK'
  BY <1>1, ProgramsKeep DEF Mutual
<1>5. DoersOK'
  BY <1>1, DoersKeep DEF Places
<1>6. InsidesKept(p)
  BY OthersInside DEF Places
<1>7. SlotsOK'
  BY <1>1, <1>6, SlotsKeep DEF SlotKept
<1>8. ReadersOK'
  BY <1>1, ReadersKeep DEF Mutual
<1> QED BY <1>2, <1>3, <1>4, <1>5, <1>7, <1>8 DEF TextInv

\* A process that runs is in core, and process 0 has nothing to do with it.
LEMMA UserRuns ==
    ASSUME TextInv, Steady, NEW p \in Users, Runs(p)
    PROVE  /\ p \notin asleep /\ "SLOAD" \in pflag[p] /\ p \in Doers /\ p # Proc0
           /\ doing[Proc0].at = "idle" \/ Mine # p
           /\ p \notin {Unlinker, Unmounter} /\ p \in Lockers
           /\ UserOK(p, doing[p]) /\ doing[p] \in DeedRecs /\ textp[p] \in Slots \cup {Nil}
           /\ Inside(p) <=> doing[p].at \notin {"read", "xswap", "loadswap", "selftext", "selfimage"}
<1>1. p \notin asleep /\ "SLOAD" \in pflag[p]
  BY DEF Runs
<1>2. p \in Doers /\ p # Proc0 /\ p \notin {Unlinker, Unmounter} /\ p \in Lockers
  BY ThreeDoers DEF Doers, Lockers
<1>3. DoersOK /\ TextTypes
  BY DEF TextInv
<1>4. Proc0OK(doing[Proc0]) /\ UserOK(p, doing[p])
  BY <1>3 DEF DoersOK
<1>5. doing[Proc0].at = "idle" \/ Mine # p
  BY <1>1, <1>4 DEF Proc0OK, Mine
<1>6. doing[p] \in DeedRecs /\ textp[p] \in Slots \cup {Nil}
  BY <1>2, <1>3 DEF TextTypes
<1>7. Inside(p) <=> doing[p].at \notin {"read", "xswap", "loadswap", "selftext", "selfimage"}
  BY <1>1, <1>5 DEF Inside
<1> QED BY <1>1, <1>2, <1>4, <1>5, <1>6, <1>7

\* Who does something else is inside or not by its own flags.
LEMMA UserInside ==
    ASSUME TextInv, Steady, NEW p \in Users, Runs(p), NEW s, Frame(p, p, s)
    PROVE  /\ InsidesKept(p)
           /\ Inside(p)' <=>
                "SLOAD" \in pflag'[p] /\ doing'[p].at \notin {"read", "xswap", "loadswap", "selftext", "selfimage"}
<1>1. p # Proc0 /\ (doing[Proc0].at = "idle" \/ Mine # p)
  BY UserRuns
<1>2. doing'[Proc0] = doing[Proc0]
  BY <1>1 DEF Frame, Doers
<1>3. InsidesKept(p)
  BY <1>1, OthersInside
<1> QED BY <1>1, <1>2, <1>3 DEF Inside, Mine

\* So does a step of a process that runs.
LEMMA UserStepKeeps ==
    ASSUME TextInv, Steady, NEW p \in Users, Runs(p), NEW s \in Slots \cup {Nil}, NEW f,
           Frame(p, p, s), TextTypes', Mutual(p, s, f), UserOK(p, doing[p])', SlotKept(p, s),
           InodesOK'
    PROVE  TextInv'
<1>1. Places(p, p)
  BY UserRuns DEF Places
<1> QED BY <1>1, TextStepKeeps

\* The same processes use the slots, and are in core.
LEMMA SetsStay ==
    ASSUME NEW a, NEW p, NEW s, Frame(a, p, s), InsidesKept(p),
           p \in Users => textp'[p] = textp[p], p \in Users => (Inside(p)' <=> Inside(p)), NEW z
    PROVE  UsersOf(z)' = UsersOf(z) /\ InCore(z)' = InCore(z)
<1>1. UsersOf(z)' \ {p} = UsersOf(z) \ {p} /\ InCore(z)' \ {p} = InCore(z) \ {p}
  BY UsersMove
<1>2. (p \in UsersOf(z)' <=> p \in UsersOf(z)) /\ (p \in InCore(z)' <=> p \in InCore(z))
  BY UsersMove
<1> QED BY <1>1, <1>2

----------------------------------------------------------------------------
(* Slots and records *)

\* A slot locked and unlocked.
LEMMA SlotRecord ==
    ASSUME NEW x \in SlotRecs
    PROVE  /\ Locked(x) \in SlotRecs /\ Unlocked(x) \in SlotRecs /\ Cleared(x) \in SlotRecs
           /\ Locked(x) = [x EXCEPT !.flag = x.flag \cup {"XLOCK"}]
           /\ Unlocked(x) = [x EXCEPT !.flag = x.flag \ {"XLOCK", "XWANT"}]
           /\ Cleared(x) = [x EXCEPT !.flag = x.flag \ {"XLOCK"}]
BY DEF SlotRecs, SlotFlags, Locked, Unlocked, Cleared

\* What xccdec makes of a slot: its text is to be written, or one less is in core.
ToWrite(y) == [Locked(y) EXCEPT !.ccount = 0, !.flag = @ \ {"XWRIT"}]

\* The slot of a text that is to be written.
LEMMA WriteRecord ==
    ASSUME NEW y \in SlotRecs, NEW x, x = ToWrite(y)
    PROVE  /\ x \in SlotRecs /\ x.iptr = y.iptr /\ x.count = y.count /\ x.ccount = 0
           /\ x.caddr = y.caddr /\ "XLOCK" \in x.flag
           /\ ("XLOAD" \in x.flag <=> "XLOAD" \in y.flag)
<1>1. PICK z \in SlotRecs : z = Locked(y) /\ z = [y EXCEPT !.flag = y.flag \cup {"XLOCK"}]
  BY SlotRecord
<1>2. PICK n, g : n = 0 /\ g = z.flag \ {"XWRIT"}
  OBVIOUS
<1>3. n \in Int /\ g \in SUBSET SlotFlags
  BY <1>2 DEF SlotRecs
<1>4. z.flag = y.flag \cup {"XLOCK"} /\ z.iptr = y.iptr /\ z.count = y.count /\ z.caddr = y.caddr
  BY <1>1 DEF SlotRecs
<1>5. "XLOCK" \in g /\ ("XLOAD" \in g <=> "XLOAD" \in y.flag)
  BY <1>2, <1>4
<1>6. x = [z EXCEPT !.ccount = n, !.flag = g]
  BY <1>1, <1>2 DEF ToWrite
<1>7. /\ x \in SlotRecs /\ x.iptr = z.iptr /\ x.count = z.count /\ x.ccount = n
      /\ x.caddr = z.caddr /\ x.flag = g
  BY <1>3, <1>6 DEF SlotRecs
<1> QED BY <1>2, <1>4, <1>5, <1>7

\* The slot of a text that process p has left.
LEMMA LeftRecord ==
    ASSUME NEW y \in SlotRecs, NEW p \in Users, NEW x, x = Unlocked(LeftBy(y, p))
    PROVE  /\ x \in SlotRecs /\ x.iptr = y.iptr /\ x.count = y.count
           /\ x.ccount = y.ccount - 1 /\ x.caddr \in {y.caddr, Nil} /\ x.caddr # p
           /\ "XLOCK" \notin x.flag /\ ("XLOAD" \in x.flag <=> "XLOAD" \in y.flag)
<1>1. PICK n, c : n = y.ccount - 1 /\ c = IF y.caddr = p THEN Nil ELSE y.caddr
  OBVIOUS
<1>2. n \in Int /\ c \in Users \cup {Nil} /\ c \in {y.caddr, Nil} /\ c # p
  BY <1>1, ThreeDoers DEF SlotRecs
<1>3. PICK z : z = LeftBy(y, p) /\ z = [y EXCEPT !.ccount = n, !.caddr = c]
  BY <1>1 DEF LeftBy
<1>4. /\ z \in SlotRecs /\ z.iptr = y.iptr /\ z.count = y.count /\ z.ccount = n
      /\ z.caddr = c /\ z.flag = y.flag
  BY <1>2, <1>3 DEF SlotRecs
<1>5. x \in SlotRecs /\ x = [z EXCEPT !.flag = z.flag \ {"XLOCK", "XWANT"}]
  BY <1>3, <1>4, SlotRecord
<1>6. /\ x.iptr = z.iptr /\ x.count = z.count /\ x.ccount = z.ccount /\ x.caddr = z.caddr
      /\ x.flag = z.flag \ {"XLOCK", "XWANT"}
  BY <1>4, <1>5 DEF SlotRecs
<1> QED BY <1>1, <1>2, <1>4, <1>5, <1>6

\* What of a slot stays when it is unlocked.
LEMMA UnlockRecord ==
    ASSUME NEW y \in SlotRecs, NEW x, x = Unlocked(y)
    PROVE  /\ x \in SlotRecs /\ x.iptr = y.iptr /\ x.count = y.count /\ x.ccount = y.ccount
           /\ x.caddr = y.caddr /\ "XLOCK" \notin x.flag
           /\ ("XLOAD" \in x.flag <=> "XLOAD" \in y.flag)
<1>1. x \in SlotRecs /\ x = [y EXCEPT !.flag = y.flag \ {"XLOCK", "XWANT"}]
  BY SlotRecord
<1>2. /\ x.iptr = y.iptr /\ x.count = y.count /\ x.ccount = y.ccount /\ x.caddr = y.caddr
      /\ x.flag = y.flag \ {"XLOCK", "XWANT"}
  BY <1>1 DEF SlotRecs
<1> QED BY <1>1, <1>2

\* What of a slot stays when it is locked.
LEMMA LockRecord ==
    ASSUME NEW y \in SlotRecs, NEW x, x = Locked(y)
    PROVE  /\ x \in SlotRecs /\ x.iptr = y.iptr /\ x.count = y.count /\ x.ccount = y.ccount
           /\ x.caddr = y.caddr /\ "XLOCK" \in x.flag
           /\ ("XLOAD" \in x.flag <=> "XLOAD" \in y.flag)
<1>1. x \in SlotRecs /\ x = [y EXCEPT !.flag = y.flag \cup {"XLOCK"}]
  BY SlotRecord
<1>2. /\ x.iptr = y.iptr /\ x.count = y.count /\ x.ccount = y.ccount /\ x.caddr = y.caddr
      /\ x.flag = y.flag \cup {"XLOCK"}
  BY <1>1 DEF SlotRecs
<1> QED BY <1>1, <1>2

\* The process a text is found by, and how many have it in core.
CoreOf(y, n, c) == [y EXCEPT !.ccount = n, !.caddr = c]

\* The rest of the slot stays.
LEMMA CoreRecord ==
    ASSUME NEW y \in SlotRecs, NEW n \in Int, NEW c \in Users \cup {Nil}, NEW x,
           x = CoreOf(y, n, c)
    PROVE  /\ x \in SlotRecs /\ x.iptr = y.iptr /\ x.count = y.count /\ x.ccount = n
           /\ x.caddr = c /\ x.flag = y.flag
BY DEF SlotRecs, CoreOf

\* A slot with one more in core.
LEMMA EnteredRecord ==
    ASSUME NEW y \in SlotRecs, NEW x, x = TextEntered(y)
    PROVE  /\ x \in SlotRecs /\ x.iptr = y.iptr /\ x.count = y.count /\ x.ccount = y.ccount + 1
           /\ x.caddr = y.caddr /\ x.flag = y.flag
BY DEF SlotRecs, TextEntered

\* A slot found by process p.
LEMMA FoundRecord ==
    ASSUME NEW y \in SlotRecs, NEW p \in Users, NEW x, x = FoundBy(y, p)
    PROVE  /\ x \in SlotRecs /\ x.iptr = y.iptr /\ x.count = y.count /\ x.ccount = y.ccount
           /\ x.caddr = p /\ x.flag = y.flag
BY DEF SlotRecs, FoundBy

\* What is set alone or together.
LEMMA SameCore ==
    ASSUME NEW y \in SlotRecs, NEW n, NEW c
    PROVE  /\ [y EXCEPT !.ccount = n] = CoreOf(y, n, y.caddr)
           /\ [y EXCEPT !.caddr = c] = CoreOf(y, y.ccount, c)
           /\ [y EXCEPT !.caddr = c, !.ccount = n] = CoreOf(y, n, c)
           /\ [y EXCEPT !.ccount = n, !.caddr = c] = CoreOf(y, n, c)
BY DEF SlotRecs, CoreOf

\* What a step of a makes of a slot, of a, of a process's text and of its flags.
Moves(a, p, s, x, d, t, g) ==
    /\ text' = [text EXCEPT ![s] = x] /\ doing' = [doing EXCEPT ![a] = d]
    /\ textp' = [textp EXCEPT ![p] = t] /\ pflag' = [pflag EXCEPT ![p] = g]
    /\ held' \subseteq Programs /\ itext' \subseteq Programs /\ irefs' \in [Programs -> Int]
    /\ asleep' \subseteq Doers

\* Such a step changes nothing else.
LEMMA MovesSo ==
    ASSUME TextTypes, NEW a \in Doers, NEW p \in Users \cup {Nil}, a = p \/ a \notin Users,
           NEW s \in Slots \cup {Nil}, NEW x, s \in Slots => x \in SlotRecs, NEW d \in DeedRecs,
           NEW t, NEW g, p \in Users => t \in Slots \cup {Nil} /\ g \in SUBSET {"SLOAD", "SLOCK"},
           Moves(a, p, s, x, d, t, g)
    PROVE  /\ Frame(a, p, s) /\ TextTypes' /\ doing'[a] = d
           /\ s \in Slots => text'[s] = x
           /\ p \in Users => textp'[p] = t /\ pflag'[p] = g
<1>1. /\ text \in [Slots -> SlotRecs] /\ doing \in [Doers -> DeedRecs]
      /\ textp \in [Users -> Slots \cup {Nil}] /\ pflag \in [Users -> SUBSET {"SLOAD", "SLOCK"}]
  BY DEF TextTypes
<1>2. /\ text' \in [Slots -> SlotRecs] /\ (s \in Slots => text'[s] = x)
      /\ \A z \in Slots : z # s => text'[z] = text[z]
  BY <1>1 DEF Moves
<1>3. /\ doing' \in [Doers -> DeedRecs] /\ doing'[a] = d
      /\ \A b \in Doers : b # a => doing'[b] = doing[b]
  BY <1>1 DEF Moves
<1>4. /\ textp' \in [Users -> Slots \cup {Nil}] /\ (p \in Users => textp'[p] = t)
      /\ \A q \in Users : q # p => textp'[q] = textp[q]
  BY <1>1 DEF Moves
<1>5. /\ pflag' \in [Users -> SUBSET {"SLOAD", "SLOCK"}] /\ (p \in Users => pflag'[p] = g)
      /\ \A q \in Users : q # p => pflag'[q] = pflag[q]
  BY <1>1 DEF Moves
<1>6. TextTypes'
  BY <1>2, <1>3, <1>4, <1>5 DEF TextTypes, Moves
<1> QED BY <1>2, <1>3, <1>4, <1>5, <1>6 DEF Frame

\* Nothing changes by being set to what it is.
LEMMA SetToItself ==
    ASSUME TextTypes, NEW s, NEW p
    PROVE  /\ text = [text EXCEPT ![s] = text[s]] /\ textp = [textp EXCEPT ![p] = textp[p]]
           /\ pflag = [pflag EXCEPT ![p] = pflag[p]] /\ doing = [doing EXCEPT ![p] = doing[p]]
BY DEF TextTypes

\* Where a doer is now.
MovedTo(e, l) == [e EXCEPT !.at = l]

MovedOn(e, l, s) == [e EXCEPT !.at = l, !.slot = s]

\* What a doer has when it goes on.
LEMMA DeedRecord ==
    ASSUME NEW e \in DeedRecs, NEW l \in UserPlaces \cup Proc0Places \cup {"untext"},
           NEW s \in Slots \cup {Nil}, NEW d, d = MovedTo(e, l) \/ d = MovedOn(e, l, s)
    PROVE  /\ d \in DeedRecs /\ d.at = l /\ d.prog = e.prog /\ d.proc = e.proc
           /\ d = MovedTo(e, l) => d.slot = e.slot
           /\ d = MovedOn(e, l, s) => d.slot = s
<1>1. CASE d = MovedTo(e, l)
  <2>1. /\ d \in DeedRecs /\ d.at = l /\ d.prog = e.prog /\ d.proc = e.proc /\ d.slot = e.slot
    BY <1>1 DEF DeedRecs, MovedTo
  <2>2. d = MovedOn(e, l, s) => d.slot = s
    BY DEF DeedRecs, MovedOn
  <2> QED BY <2>1, <2>2
<1>2. CASE d = MovedOn(e, l, s)
  <2>1. /\ d \in DeedRecs /\ d.at = l /\ d.prog = e.prog /\ d.proc = e.proc /\ d.slot = s
    BY <1>2 DEF DeedRecs, MovedOn
  <2>2. d = MovedTo(e, l) => d.slot = e.slot
    BY DEF DeedRecs, MovedTo
  <2> QED BY <2>1, <2>2
<1> QED BY <1>1, <1>2

\* What a doer has when it goes somewhere with the same slot.
LEMMA MovedRecord ==
    ASSUME NEW e \in DeedRecs, NEW l \in UserPlaces \cup Proc0Places, NEW d, d = MovedTo(e, l)
    PROVE  /\ d \in DeedRecs /\ d.at = l /\ d.prog = e.prog /\ d.proc = e.proc /\ d.slot = e.slot
BY DEF DeedRecs, MovedTo

\* What Goes and GoesOn say.
LEMMA GoesIs ==
    ASSUME TextTypes, NEW a \in Doers, NEW l, NEW s
    PROVE  /\ Goes(a, l) <=> doing' = [doing EXCEPT ![a] = MovedTo(doing[a], l)]
           /\ GoesOn(a, l, s) <=> doing' = [doing EXCEPT ![a] = MovedOn(doing[a], l, s)]
BY DEF Goes, GoesOn, MovedTo, MovedOn, TextTypes, DeedRecs

\* A slot that somebody uses is that of a program, and has as many users as it says.
LEMMA SlotCounts ==
    ASSUME TextInv, Steady, NEW a, NEW p \in Users, NEW s \in Slots, Frame(a, p, s),
           InsidesKept(p), text[s].iptr # Nil
    PROVE  /\ text[s].count \in Nat /\ text[s].ccount \in Nat
           /\ text[s].count = Cardinality(UsersOf(s)) /\ text[s].ccount = Cardinality(InCore(s))
           /\ (p \in UsersOf(s)' <=> p \in UsersOf(s)) =>
                UsersOf(s)' = UsersOf(s) /\ text[s].count = Cardinality(UsersOf(s)')
           /\ (p \in InCore(s)' <=> p \in InCore(s)) =>
                InCore(s)' = InCore(s) /\ text[s].ccount = Cardinality(InCore(s)')
           /\ p \notin UsersOf(s) /\ p \in UsersOf(s)' =>
                text[s].count + 1 = Cardinality(UsersOf(s)')
           /\ p \in UsersOf(s) /\ p \notin UsersOf(s)' =>
                text[s].count - 1 = Cardinality(UsersOf(s)') /\ text[s].count > 0
           /\ p \notin InCore(s) /\ p \in InCore(s)' =>
                text[s].ccount + 1 = Cardinality(InCore(s)')
           /\ p \in InCore(s) /\ p \notin InCore(s)' =>
                text[s].ccount - 1 = Cardinality(InCore(s)') /\ text[s].ccount > 0
           /\ InCore(s)' \ {p} = InCore(s) \ {p} /\ UsersOf(s)' \ {p} = UsersOf(s) \ {p}
<1>1. SlotIs(s, text[s])
  BY DEF TextInv, SlotsOK
<1>2. text[s].count = Cardinality(UsersOf(s)) /\ text[s].ccount = Cardinality(InCore(s))
  BY <1>1 DEF SlotIs
<1>3. InCore(s)' \ {p} = InCore(s) \ {p} /\ UsersOf(s)' \ {p} = UsersOf(s) \ {p}
  BY UsersMove
<1>4. /\ Cardinality(UsersOf(s)) \in Nat /\ Cardinality(InCore(s)) \in Nat
      /\ Cardinality(UsersOf(s)) = 0 <=> UsersOf(s) = {}
      /\ Cardinality(InCore(s)) = 0 <=> InCore(s) = {}
  BY UsersCount
<1>5. /\ (p \in UsersOf(s)' <=> p \in UsersOf(s)) => UsersOf(s)' = UsersOf(s)
      /\ (p \in InCore(s)' <=> p \in InCore(s)) => InCore(s)' = InCore(s)
      /\ p \notin UsersOf(s) /\ p \in UsersOf(s)' =>
           Cardinality(UsersOf(s)') = Cardinality(UsersOf(s)) + 1
      /\ p \in UsersOf(s) /\ p \notin UsersOf(s)' =>
           Cardinality(UsersOf(s)') = Cardinality(UsersOf(s)) - 1
      /\ p \notin InCore(s) /\ p \in InCore(s)' =>
           Cardinality(InCore(s)') = Cardinality(InCore(s)) + 1
      /\ p \in InCore(s) /\ p \notin InCore(s)' =>
           Cardinality(InCore(s)') = Cardinality(InCore(s)) - 1
  BY <1>3, UsersCounted
<1> QED BY <1>2, <1>3, <1>4, <1>5

\* Whoever uses a slot: it has a program, and when it is in core nobody has locked the slot.
LEMMA UsedSlot ==
    ASSUME TextInv, Steady, NEW p \in Users, NEW s \in Slots, textp[p] = s
    PROVE  /\ text[s].iptr \in Programs /\ p \in UsersOf(s) /\ text[s].count # 0
           /\ Inside(p) => /\ p \in InCore(s) /\ text[s].ccount # 0
                           /\ "XLOCK" \notin text[s].flag
           /\ "XLOAD" \in text[s].flag =>
                doing[p].at \in LoadPlaces /\ doing[p].prog = text[s].iptr
<1>1. SlotIs(s, text[s]) /\ text[s] \in SlotRecs
  BY DEF TextInv, SlotsOK, TextTypes
<1>2. p \in UsersOf(s)
  BY DEF UsersOf
<1>3. text[s].iptr # Nil
  BY <1>1, <1>2 DEF SlotIs
<1>4. text[s].iptr \in Programs
  BY <1>1, <1>3 DEF SlotRecs
<1>5. Inside(p) => p \in InCore(s)
  BY <1>2, InCoreIs
<1>6. text[s].count # 0 /\ (Inside(p) => text[s].ccount # 0)
  BY <1>1, <1>2, <1>3, <1>5, UsersCount DEF SlotIs
<1> QED BY <1>1, <1>2, <1>3, <1>4, <1>5, <1>6 DEF SlotIs

\* A slot that nobody uses is given up.
LEMMA GiveUpSlot ==
    ASSUME TextInv, Steady, NEW s \in Slots, "XLOCK" \notin text[s].flag, text[s].iptr # Nil,
           GiveUp(s), UsersOf(s)' = {}
    PROVE  /\ text' \in [Slots -> SlotRecs] /\ itext' \subseteq Programs
           /\ irefs' \in [Programs -> Int]
           /\ \A z \in Slots : z # s => text'[z] = text[z]
           /\ SlotIs(s, text[s])' /\ InodesOK' /\ "XLOCK" \notin text'[s].flag
<1>1. /\ text \in [Slots -> SlotRecs] /\ itext \subseteq Programs /\ irefs \in [Programs -> Int]
      /\ InodesOK
  BY DEF TextInv, TextTypes
<1>2. PICK f \in Programs : f = text[s].iptr
  BY <1>1 DEF SlotRecs
<1>3. PICK x : x = [Cleared(text[s]) EXCEPT !.iptr = Nil, !.count = 0]
  OBVIOUS
<1>4. x \in SlotRecs /\ x.iptr = Nil /\ "XLOCK" \notin x.flag
  <2>1. Cleared(text[s]) \in SlotRecs
    BY <1>1, SlotRecord
  <2>2. PICK c \in SlotRecs : c = Cleared(text[s])
    BY <2>1
  <2>3. "XLOCK" \notin c.flag
    BY <1>1, <2>2 DEF Cleared, SlotRecs
  <2>4. PICK z \in Int : z = 0
    OBVIOUS
  <2>5. x = [c EXCEPT !.iptr = Nil, !.count = z]
    BY <1>3, <2>2, <2>4
  <2> QED BY <2>2, <2>3, <2>5 DEF SlotRecs
<1>5. /\ text' = [text EXCEPT ![s] = x] /\ itext' = itext \ {f}
      /\ irefs' = [irefs EXCEPT ![f] = @ - 1]
  BY <1>2, <1>3 DEF GiveUp
<1>6. text' \in [Slots -> SlotRecs] /\ text'[s] = x /\ \A z \in Slots : z # s => text'[z] = text[z]
  BY <1>1, <1>4, <1>5
<1>7. SlotIs(s, text[s])'
  BY <1>4, <1>6 DEF SlotIs
<1>8. irefs' \in [Programs -> Int] /\ \A g \in Programs : g # f => irefs'[g] = irefs[g]
  BY <1>1, <1>5
<1>9. f \in itext /\ irefs[f] = 1 /\ \A z \in Slots : text[z].iptr = f <=> z = s
  BY <1>1, <1>2 DEF InodesOK
<1>10. irefs'[f] = 0
  BY <1>1, <1>2, <1>5, <1>9
<1>11. f # Nil
  BY ThreeDoers
<1>12. InodesOK'
  <2> SUFFICES ASSUME NEW g \in Programs
               PROVE  \/ g \notin itext' /\ irefs'[g] = 0 /\ \A z \in Slots : text'[z].iptr # g
                      \/ /\ g \in itext' /\ irefs'[g] = 1
                         /\ \E y \in Slots : \A z \in Slots : text'[z].iptr = g <=> z = y
    BY DEF InodesOK
  <2>1. CASE g = f
    BY <1>4, <1>5, <1>6, <1>9, <1>10, <1>11, <2>1
  <2>2. CASE g # f
    <3>1. \A z \in Slots : text'[z].iptr = g <=> text[z].iptr = g
      BY <1>2, <1>4, <1>6, <2>2, ThreeDoers
    <3>2. irefs'[g] = irefs[g] /\ (g \in itext' <=> g \in itext)
      BY <1>5, <1>8, <2>2
    <3> QED BY <1>1, <3>1, <3>2 DEF InodesOK
  <2> QED BY <2>1, <2>2
<1> QED BY <1>1, <1>4, <1>5, <1>6, <1>7, <1>8, <1>12

----------------------------------------------------------------------------
(* The steps of processes *)

\* exec and exit begin.
LEMMA LeaveKeeps ==
    ASSUME TextInv, Steady, Steady', NEW p \in Users, NEW f \in Programs \cup {Nil}, Leave(p, f)
    PROVE  TextInv'
<1>1. /\ Runs(p) /\ doing[p].at = "idle" /\ TextTypes /\ SlotsOK /\ InodesOK
  BY DEF Leave, At, TextInv
<1>2. /\ p \notin asleep /\ "SLOAD" \in pflag[p] /\ p \in Doers /\ p \in Lockers
      /\ UserOK(p, doing[p]) /\ textp[p] \in Slots \cup {Nil} /\ Inside(p)
  BY <1>1, UserRuns
<1>3. PICK s \in Slots \cup {Nil} : s = textp[p]
  BY <1>2
<1>4. PICK l : l = IF s # Nil THEN "free" ELSE IF f = Nil THEN "gone" ELSE "search"
  OBVIOUS
<1>5. PICK d : d = [at |-> l, slot |-> s, prog |-> f, proc |-> Nil]
  OBVIOUS
<1>6. l \in {"free", "gone", "search"} /\ d \in DeedRecs
  BY <1>4, <1>5 DEF DeedRecs, UserPlaces
<1>7. /\ doing' = [doing EXCEPT ![p] = d] /\ held' = held \cup ({f} \ {Nil})
      /\ f # Nil => f \notin held
      /\ UNCHANGED <<text, pflag, textp, itext, irefs, asleep>>
  BY <1>3, <1>4, <1>5 DEF Leave
<1>8. doing'[p] = d /\ \A b \in Doers : b # p => doing'[b] = doing[b]
  BY <1>1, <1>2, <1>7 DEF TextTypes
<1>9. Frame(p, p, s)
  BY <1>2, <1>7, <1>8 DEF Frame
<1>10. TextTypes'
  BY <1>1, <1>2, <1>6, <1>7 DEF TextTypes
<1>11. Mutual(p, s, f)
  <2>1. LockKept(p, s)
    BY <1>1, <1>5, <1>6, <1>7, <1>8 DEF LockKept, Holding
  <2>2. WaitOn(s)
    BY <1>7 DEF WaitOn
  <2>3. ProgramKept(p) \/ ProgramLocked(p, f)
    BY <1>2, <1>5, <1>7, <1>8 DEF ProgramKept, ProgramLocked
  <2>4. FoundSo(p, s)
    BY <1>5, <1>6, <1>7, <1>8 DEF FoundSo
  <2> QED BY <1>2, <2>1, <2>2, <2>3, <2>4 DEF Mutual
<1>12. UserOK(p, doing[p])'
  BY <1>2, <1>3, <1>4, <1>5, <1>7, <1>8 DEF UserOK, UserPlaces, SharePlaces, LoadPlaces
<1>13. SlotKept(p, s)
  <2> SUFFICES ASSUME s \in Slots PROVE SlotIs(s, text[s])'
    BY <1>3, <1>7 DEF SlotKept
  <2>1. InsidesKept(p) /\ Inside(p)'
    BY <1>1, <1>2, <1>5, <1>6, <1>7, <1>8, <1>9, UserInside
  <2>2. UsersOf(s)' = UsersOf(s) /\ InCore(s)' = InCore(s)
    BY <1>2, <1>7, <1>9, <2>1, SetsStay
  <2>3. \A q \in UsersOf(s) : doing[q].at \in LoadPlaces => doing'[q] = doing[q]
    BY <1>1, <1>8 DEF LoadPlaces, UsersOf, Doers
  <2>4. SlotStays(s)
    BY <1>7, <2>2, <2>3 DEF SlotStays
  <2> QED BY <1>1, <2>4, SlotStaysSo DEF SlotsOK
<1>14. InodesOK'
  BY <1>1, <1>7, InodesKeep
<1> QED BY <1>1, <1>9, <1>10, <1>11, <1>12, <1>13, <1>14, UserStepKeeps

\* exit and exec leave a text.
LEMMA XfreeKeeps ==
    ASSUME TextInv, Steady, Steady', NEW p \in Users, xfree(p)
    PROVE  TextInv'
<1>1. /\ Runs(p) /\ doing[p].at = "free" /\ TextTypes /\ SlotsOK /\ InodesOK
  BY DEF xfree, At, TextInv
<1>2. /\ p \notin asleep /\ "SLOAD" \in pflag[p] /\ p \in Doers /\ p \in Lockers
      /\ UserOK(p, doing[p]) /\ doing[p] \in DeedRecs /\ Inside(p)
  BY <1>1, UserRuns
<1>3. PICK s \in Slots : s = doing[p].slot /\ s = textp[p]
  BY <1>1, <1>2 DEF UserOK
<1>4. PICK f \in Programs \cup {Nil} : f = doing[p].prog
  BY <1>2 DEF DeedRecs
<1>5. /\ textp' = [textp EXCEPT ![p] = Nil] /\ "XLOCK" \notin text[s].flag
      /\ UNCHANGED <<pflag, held>>
  BY <1>3 DEF xfree, Gets
<1>6. /\ text[s].iptr \in Programs /\ p \in UsersOf(s) /\ p \in InCore(s)
      /\ "XLOAD" \notin text[s].flag /\ text[s].ccount # 0
  BY <1>1, <1>2, <1>3, UsedSlot DEF LoadPlaces
<1>7. PICK o : o = [doing[p] EXCEPT !.at = IF f = Nil THEN "gone" ELSE "search", !.slot = Nil]
  OBVIOUS
<1>8. /\ o \in DeedRecs /\ o.prog = f /\ o.at = (IF f = Nil THEN "gone" ELSE "search")
  BY <1>2, <1>4, <1>7 DEF DeedRecs, UserPlaces
<1>9. Onwards(p) => doing' = [doing EXCEPT ![p] = o]
  BY <1>1, <1>2, <1>4, <1>7 DEF Onwards, GoesOn, TextTypes, DeedRecs
<1>10. /\ textp' \in [Users -> Slots \cup {Nil}] /\ textp'[p] = Nil
       /\ \A q \in Users : q # p => textp'[q] = textp[q]
  BY <1>1, <1>5 DEF TextTypes
<1>11. s # Nil /\ \A z \in Slots : z # Nil
  BY ThreeDoers
<1>12. ASSUME doing' = [doing EXCEPT ![p] = o]
       PROVE  /\ doing' \in [Doers -> DeedRecs] /\ doing'[p] = o
              /\ \A b \in Doers : b # p => doing'[b] = doing[b]
              /\ UserOK(p, doing[p])'
  <2>1. /\ doing' \in [Doers -> DeedRecs] /\ doing'[p] = o
        /\ \A b \in Doers : b # p => doing'[b] = doing[b]
    BY <1>1, <1>2, <1>8, <1>12 DEF TextTypes
  <2> QED BY <1>4, <1>8, <1>10, <2>1 DEF UserOK, UserPlaces, SharePlaces, LoadPlaces
<1>13. CASE text[s].count = 1 /\ GiveUp(s) /\ Onwards(p) /\ UNCHANGED asleep
  <2>1. /\ doing' \in [Doers -> DeedRecs] /\ doing'[p] = o
        /\ \A b \in Doers : b # p => doing'[b] = doing[b]
        /\ UserOK(p, doing[p])'
    BY <1>9, <1>12, <1>13
  <2>2. \A z \in Slots : z # s => text'[z] = text[z]
    BY <1>1, <1>13 DEF GiveUp, TextTypes
  <2>3. Frame(p, p, s)
    BY <1>2, <1>5, <1>10, <2>1, <2>2 DEF Frame
  <2>4. InsidesKept(p)
    BY <1>1, <2>3, UserInside
  <2>5. p \notin UsersOf(s)'
    BY <1>10, <1>11, <2>3, <2>4, UsersMove
  <2>6. text[s].count - 1 = Cardinality(UsersOf(s)') /\ text[s].count \in Nat
    BY <1>6, <2>3, <2>4, <2>5, SlotCounts, ThreeDoers
  <2>7. UsersOf(s)' \in SUBSET Users /\ IsFiniteSet(Users)
    BY TextAssumption DEF UsersOf
  <2>8. UsersOf(s)' = {}
    <3>1. PICK B : B = UsersOf(s)'
      OBVIOUS
    <3>2. IsFiniteSet(B)
      BY <2>7, <3>1, FS_Subset
    <3>3. Cardinality(B) = 0
      BY <1>13, <2>6, <3>1
    <3> QED BY <3>1, <3>2, <3>3, FS_EmptySet
  <2>9. /\ text' \in [Slots -> SlotRecs] /\ itext' \subseteq Programs
        /\ irefs' \in [Programs -> Int] /\ SlotIs(s, text[s])' /\ InodesOK'
        /\ "XLOCK" \notin text'[s].flag
    BY <1>5, <1>6, <1>13, <2>8, GiveUpSlot, ThreeDoers
  <2>10. TextTypes'
    BY <1>1, <1>5, <1>10, <1>13, <2>1, <2>9 DEF TextTypes
  <2>11. Mutual(p, s, f)
    <3>1. LockKept(p, s)
      BY <1>1, <1>5, <1>8, <2>1, <2>9 DEF LockKept, Holding
    <3>2. WaitOn(s)
      BY <1>5, <1>13 DEF WaitOn
    <3>3. ProgramKept(p)
      BY <1>4, <1>5, <1>8, <2>1 DEF ProgramKept
    <3>4. FoundSo(p, s)
      BY <1>5, <1>8, <2>1 DEF FoundSo
    <3> QED BY <1>2, <3>1, <3>2, <3>3, <3>4 DEF Mutual
  <2>12. SlotKept(p, s)
    BY <1>3, <1>10, <2>9 DEF SlotKept
  <2> QED BY <1>1, <2>1, <2>3, <2>9, <2>10, <2>11, <2>12, UserStepKeeps
<1>14. PICK y : y = [text[s] EXCEPT !.count = @ - 1]
  OBVIOUS
<1>15. /\ y \in SlotRecs /\ y.iptr = text[s].iptr /\ y.count = text[s].count - 1
       /\ y.ccount = text[s].ccount /\ y.caddr = text[s].caddr /\ y.flag = text[s].flag
  BY <1>1, <1>14 DEF TextTypes, SlotRecs
<1>16. ASSUME Xccdec(p, p, y, "freewrite", Onwards(p)), UNCHANGED <<itext, irefs>>
       PROVE  TextInv'
  <2>1. PICK n : n = text[s].ccount
    OBVIOUS
  <2>2. n \in Int /\ n # 0 /\ y.ccount = n
    BY <1>1, <1>6, <1>15, <2>1 DEF TextTypes, SlotRecs
  <2>3. PICK w : w = [doing[p] EXCEPT !.at = "freewrite"]
    OBVIOUS
  <2>4. w \in DeedRecs /\ w.prog = f /\ w.at = "freewrite" /\ w.slot = s
    BY <1>2, <1>3, <1>4, <2>3 DEF DeedRecs, UserPlaces
  <2>5. \/ /\ MustWrite(y) /\ doing' = [doing EXCEPT ![p] = w] /\ UNCHANGED asleep
           /\ text' = [text EXCEPT ![s] = [Locked(y) EXCEPT !.ccount = 0, !.flag = @ \ {"XWRIT"}]]
        \/ /\ ~MustWrite(y) /\ doing' = [doing EXCEPT ![p] = o] /\ Wakes(s)
           /\ text' = [text EXCEPT ![s] = Unlocked(LeftBy(y, p))]
    BY <1>1, <1>2, <1>3, <1>9, <1>16, <2>2, <2>3 DEF Xccdec, Goes, TextTypes, DeedRecs
  <2>6. PICK d : doing' = [doing EXCEPT ![p] = d] /\ d \in {w, o}
    BY <2>5
  <2>7. /\ doing' \in [Doers -> DeedRecs] /\ doing'[p] = d
        /\ \A b \in Doers : b # p => doing'[b] = doing[b]
    BY <1>1, <1>2, <1>8, <2>4, <2>6 DEF TextTypes
  <2>8. UserOK(p, doing[p])'
    BY <1>4, <1>8, <1>10, <2>4, <2>6, <2>7 DEF UserOK, UserPlaces, SharePlaces, LoadPlaces
  <2>9. PICK x : text' = [text EXCEPT ![s] = x] /\
               x = IF MustWrite(y) THEN [Locked(y) EXCEPT !.ccount = 0, !.flag = @ \ {"XWRIT"}]
                   ELSE Unlocked(LeftBy(y, p))
    BY <2>5
  <2>10. /\ x \in SlotRecs /\ x.iptr = text[s].iptr /\ x.count = text[s].count - 1
         /\ x.ccount = n - 1 /\ x.caddr \in {text[s].caddr, Nil} /\ "XLOAD" \notin x.flag
         /\ IF MustWrite(y) THEN "XLOCK" \in x.flag /\ x.ccount = 0
            ELSE "XLOCK" \notin x.flag /\ x.caddr # p
    <3>1. CASE MustWrite(y)
      <4>1. n = 1
        BY <2>2, <3>1 DEF MustWrite
      <4>2. x = ToWrite(y)
        BY <2>9, <3>1 DEF ToWrite
      <4>3. /\ x \in SlotRecs /\ x.iptr = y.iptr /\ x.count = y.count /\ x.ccount = 0
            /\ x.caddr = y.caddr /\ "XLOCK" \in x.flag
            /\ ("XLOAD" \in x.flag <=> "XLOAD" \in y.flag)
        BY <1>15, <4>2, WriteRecord
      <4> QED BY <1>6, <1>15, <3>1, <4>1, <4>3
    <3>2. CASE ~MustWrite(y)
      <4>1. x = Unlocked(LeftBy(y, p))
        BY <2>9, <3>2
      <4> QED BY <1>6, <1>15, <2>2, <3>2, <4>1, LeftRecord
    <3> QED BY <3>1, <3>2
  <2>11. /\ text' \in [Slots -> SlotRecs] /\ text'[s] = x
         /\ \A z \in Slots : z # s => text'[z] = text[z]
    BY <1>1, <2>9, <2>10 DEF TextTypes
  <2>12. Frame(p, p, s)
    BY <1>2, <1>5, <1>10, <2>7, <2>11 DEF Frame
  <2>13. InsidesKept(p)
    BY <1>1, <2>12, UserInside
  <2>14. p \notin UsersOf(s)' /\ p \notin InCore(s)'
    BY <1>10, <1>11, <2>12, <2>13, UsersMove
  <2>15. /\ text[s].count - 1 = Cardinality(UsersOf(s)') /\ n - 1 = Cardinality(InCore(s)')
         /\ InCore(s)' \ {p} = InCore(s) \ {p}
    BY <1>6, <2>1, <2>12, <2>13, <2>14, SlotCounts, ThreeDoers
  <2>16. SlotIs(s, text[s])'
    <3>1. SlotIs(s, text[s]) /\ text[s].iptr # Nil
      BY <1>1, <1>6, ThreeDoers DEF SlotsOK
    <3>2. x.ccount > 0 => ~MustWrite(y) /\ n > 0
      BY <2>2, <2>10
    <3>3. x.ccount > 0 /\ x.caddr # Nil => x.caddr \in InCore(s)'
      <4> SUFFICES ASSUME x.ccount > 0, x.caddr # Nil PROVE x.caddr \in InCore(s)'
        OBVIOUS
      <4>1. x.caddr # p /\ x.caddr = text[s].caddr /\ text[s].ccount > 0
        BY <2>1, <2>10, <3>2
      <4>2. x.caddr \in InCore(s)
        BY <3>1, <4>1 DEF SlotIs
      <4> QED BY <2>15, <4>1, <4>2
    <3> QED BY <1>6, <2>10, <2>11, <2>15, <3>1, <3>3 DEF SlotIs
  <2>17. TextTypes'
    BY <1>1, <1>5, <1>10, <1>16, <2>5, <2>7, <2>11 DEF TextTypes, Wakes
  <2>18. Mutual(p, s, f)
    <3>1. LockKept(p, s) \/ LockTaken(p, s)
      <4>1. CASE MustWrite(y)
        <5>1. d = w
          BY <2>5, <2>6, <2>7, <1>1, <1>2, <4>1 DEF TextTypes
        <5> QED BY <1>1, <1>5, <2>4, <2>7, <2>10, <2>11, <4>1, <5>1 DEF LockTaken, Holding
      <4>2. CASE ~MustWrite(y)
        <5>1. d = o
          BY <2>5, <2>6, <2>7, <1>1, <1>2, <4>2 DEF TextTypes
        <5> QED BY <1>1, <1>5, <1>8, <2>7, <2>10, <2>11, <4>2, <5>1 DEF LockKept, Holding
      <4> QED BY <4>1, <4>2
    <3>2. WaitOn(s) \/ AllWoken(s)
      BY <1>5, <2>5 DEF WaitOn, AllWoken
    <3>3. ProgramKept(p)
      BY <1>4, <1>5, <1>8, <2>4, <2>6, <2>7 DEF ProgramKept
    <3>4. FoundSo(p, s)
      BY <1>5, <1>8, <2>4, <2>6, <2>7 DEF FoundSo
    <3> QED BY <1>2, <3>1, <3>2, <3>3, <3>4 DEF Mutual
  <2>19. SlotKept(p, s)
    BY <1>3, <1>10, <2>16 DEF SlotKept
  <2>20. InodesOK'
    BY <1>1, <1>16, <2>10, <2>11, InodesKeep
  <2> QED BY <1>1, <2>8, <2>12, <2>17, <2>18, <2>19, <2>20, UserStepKeeps
<1> QED BY <1>3, <1>13, <1>14, <1>16 DEF xfree

\* The text that the last one in core has left is written.
LEMMA FreeWrittenKeeps ==
    ASSUME TextInv, Steady, Steady', NEW p \in Users, FreeWritten(p)
    PROVE  TextInv'
<1>1. /\ Runs(p) /\ doing[p].at = "freewrite" /\ TextTypes /\ SlotsOK /\ InodesOK /\ LocksOK
  BY DEF FreeWritten, At, TextInv
<1>2. /\ p \notin asleep /\ "SLOAD" \in pflag[p] /\ p \in Doers /\ p \in Lockers
      /\ UserOK(p, doing[p]) /\ doing[p] \in DeedRecs /\ Inside(p)
  BY <1>1, UserRuns
<1>3. PICK s \in Slots : s = doing[p].slot
  BY <1>1, <1>2 DEF UserOK
<1>4. textp[p] = Nil /\ HoldsSlot(p, s) /\ "XLOCK" \in text[s].flag
  BY <1>1, <1>2, <1>3 DEF UserOK, HoldsSlot, Holding, LocksOK
<1>5. SlotIs(s, text[s]) /\ text[s] \in SlotRecs /\ text[s].ccount = 0 /\ text[s].iptr # Nil
  BY <1>1, <1>4 DEF SlotsOK, SlotIs, TextTypes
<1>6. PICK f \in Programs \cup {Nil} : f = doing[p].prog
  BY <1>2 DEF DeedRecs
<1>7. PICK l : l = IF f = Nil THEN "gone" ELSE "search"
  OBVIOUS
<1>8. PICK d : d = MovedOn(doing[p], l, Nil)
  OBVIOUS
<1>9. d \in DeedRecs /\ d.at = l /\ d.prog = f /\ d.slot = Nil /\ l \in {"gone", "search"}
  BY <1>2, <1>6, <1>7, <1>8, DeedRecord DEF UserPlaces, SharePlaces
<1>10. doing' = [doing EXCEPT ![p] = d]
  BY <1>1, <1>2, <1>6, <1>7, <1>8, GoesIs DEF FreeWritten, Onwards
<1>11. PICK c : c = IF text[s].caddr = p THEN Nil ELSE text[s].caddr
  OBVIOUS
<1>12. c \in Users \cup {Nil}
  BY <1>5, <1>11 DEF SlotRecs
<1>13. PICK y : y = CoreOf(text[s], text[s].ccount, c)
  OBVIOUS
<1>14. /\ y \in SlotRecs /\ y.iptr = text[s].iptr /\ y.count = text[s].count
       /\ y.ccount = text[s].ccount /\ y.flag = text[s].flag
  <2>1. text[s].ccount \in Int
    BY <1>5 DEF SlotRecs
  <2> QED BY <1>5, <1>12, <1>13, <2>1, CoreRecord
<1>15. y = [text[s] EXCEPT !.caddr = c]
  BY <1>5, <1>13, SameCore, Zenon
<1>16. PICK x : x = Unlocked(y)
  OBVIOUS
<1>17. /\ x \in SlotRecs /\ x.iptr = text[s].iptr /\ x.count = text[s].count
       /\ x.ccount = text[s].ccount /\ "XLOCK" \notin x.flag
       /\ ("XLOAD" \in x.flag <=> "XLOAD" \in text[s].flag)
  BY <1>14, <1>16, UnlockRecord
<1>18. /\ text' = [text EXCEPT ![s] = x] /\ Wakes(s)
       /\ UNCHANGED <<pflag, textp, held, itext, irefs>>
  <2>1. NotFoundBy(text[s], p) = y
    BY <1>11, <1>15, Zenon DEF NotFoundBy
  <2>2. text' = [text EXCEPT ![s] = Unlocked(NotFoundBy(@, p))]
    BY <1>3, Zenon DEF FreeWritten, Written
  <2>3. text' = [text EXCEPT ![s] = x]
    BY <1>16, <2>1, <2>2, Zenon
  <2> QED BY <1>3, <2>3 DEF FreeWritten, Written
<1>19. Moves(p, p, s, x, d, textp[p], pflag[p])
  BY <1>1, <1>10, <1>18, SetToItself DEF Moves, TextTypes, Wakes
<1>20. /\ Frame(p, p, s) /\ TextTypes' /\ doing'[p] = d /\ text'[s] = x
       /\ textp'[p] = textp[p] /\ pflag'[p] = pflag[p]
  <2>1. textp[p] \in Slots \cup {Nil} /\ pflag[p] \in SUBSET {"SLOAD", "SLOCK"}
    BY <1>1 DEF TextTypes
  <2> QED BY <1>1, <1>2, <1>9, <1>17, <1>19, <2>1, MovesSo
<1>21. Mutual(p, s, f)
  <2>1. LockGiven(p, s)
    BY <1>1, <1>3, <1>9, <1>17, <1>20 DEF LockGiven, Holding
  <2>2. AllWoken(s) /\ ProgramKept(p)
    BY <1>6, <1>9, <1>18, <1>20 DEF AllWoken, ProgramKept
  <2>3. FoundSo(p, s)
    BY <1>4, <1>9, <1>20 DEF FoundSo
  <2> QED BY <1>2, <2>1, <2>2, <2>3 DEF Mutual
<1>4a. UserOK(p, doing[p])'
  BY <1>4, <1>6, <1>7, <1>9, <1>20 DEF UserOK, UserPlaces, SharePlaces, LoadPlaces
<1>23. SlotKept(p, s)
  <2>1. InsidesKept(p) /\ Inside(p)'
    BY <1>1, <1>2, <1>9, <1>20, UserInside
  <2>2. UsersOf(s)' = UsersOf(s) /\ InCore(s)' = InCore(s)
    BY <1>2, <1>20, <2>1, SetsStay
  <2>3. \A q \in UsersOf(s) : q # p /\ q \in Doers
    BY <1>4, ThreeDoers DEF UsersOf, Doers
  <2>4. SlotStays(s)
    BY <1>5, <1>17, <1>20, <2>2, <2>3 DEF SlotStays, Frame
  <2>5. SlotIs(s, text[s])'
    BY <1>5, <2>4, SlotStaysSo
  <2> QED BY <1>4, <1>20, <2>5 DEF SlotKept
<1>24. InodesOK'
  BY <1>1, <1>17, <1>18, <1>20, InodesKeep DEF Frame
<1> QED BY <1>1, <1>20, <1>21, <1>4a, <1>23, <1>24, UserStepKeeps

\* What a step of a process that runs makes of a slot, of it, of its text and of its flags.
UserMoved(p, s, x, d, t, g) ==
    /\ p \in Users /\ Runs(p) /\ s \in Slots \cup {Nil} /\ (s \in Slots => x \in SlotRecs)
    /\ d \in DeedRecs /\ t \in Slots \cup {Nil} /\ g \in SUBSET {"SLOAD", "SLOCK"}
    /\ Moves(p, p, s, x, d, t, g)

\* What a step of a process makes of it.
LEMMA UserMoves ==
    ASSUME TextInv, Steady, NEW p, NEW s, NEW x, NEW d, NEW t, NEW g, UserMoved(p, s, x, d, t, g)
    PROVE  /\ Frame(p, p, s) /\ TextTypes' /\ doing'[p] = d /\ (s \in Slots => text'[s] = x)
           /\ textp'[p] = t /\ pflag'[p] = g /\ InsidesKept(p)
           /\ Inside(p)' <=> "SLOAD" \in g /\ d.at \notin {"read", "xswap", "loadswap", "selftext", "selfimage"}
           /\ \A z : p \in UsersOf(z)' <=> t = z
           /\ \A z : p \in InCore(z)' <=> t = z /\ Inside(p)'
<1>1. /\ p \in Doers /\ TextTypes /\ p \in Users /\ Runs(p) /\ s \in Slots \cup {Nil}
      /\ (s \in Slots => x \in SlotRecs) /\ d \in DeedRecs /\ t \in Slots \cup {Nil}
      /\ g \in SUBSET {"SLOAD", "SLOCK"} /\ Moves(p, p, s, x, d, t, g)
  BY DEF Doers, TextInv, UserMoved
<1>2. PICK q \in Users, z \in Slots \cup {Nil}, e \in DeedRecs, h \in SUBSET {"SLOAD", "SLOCK"},
           u \in Slots \cup {Nil} : q = p /\ z = s /\ e = d /\ h = g /\ u = t
  BY <1>1
<1>3. /\ Frame(q, q, z) /\ TextTypes' /\ doing'[q] = e /\ (z \in Slots => text'[z] = x)
      /\ textp'[q] = u /\ pflag'[q] = h
  <2>1. q \in Doers /\ (z \in Slots => x \in SlotRecs) /\ Moves(q, q, z, x, e, u, h)
    BY <1>1, <1>2
  <2> QED BY <1>1, <2>1, MovesSo
<1>4. /\ InsidesKept(q)
      /\ Inside(q)' <=> "SLOAD" \in pflag'[q] /\ doing'[q].at \notin {"read", "xswap", "loadswap", "selftext", "selfimage"}
  BY <1>1, <1>2, <1>3, UserInside
<1>5. /\ \A y : q \in UsersOf(y)' <=> textp'[q] = y
      /\ \A y : q \in InCore(y)' <=> textp'[q] = y /\ Inside(q)'
  BY <1>3, <1>4, UsersMove
<1> QED BY <1>2, <1>3, <1>4, <1>5

\* a goes to sleep for the lock of slot s, for process p.
WaitsFor(a, p, s, d) ==
    /\ "XLOCK" \in text[s].flag /\ asleep' = asleep \cup {a}
    /\ text' = [text EXCEPT ![s].flag = @ \cup {"XWANT"}] /\ doing' = [doing EXCEPT ![a] = d]
    /\ UNCHANGED <<pflag, textp, itext, irefs>> /\ held' \subseteq Programs
    /\ d.slot = s /\ d.at \notin Holding \cup LoadPlaces
    /\ a \notin asleep /\ doing[a].at \notin Holding \cup LoadPlaces
    /\ p \in Users => textp[p] \in {s, Nil} /\ (Inside(p)' <=> Inside(p))

\* Who goes to sleep for a lock keeps the invariant.
LEMMA WaitKeeps ==
    ASSUME TextInv, Steady, NEW a \in Doers, NEW p \in Users \cup {Nil}, a = p \/ a \notin Users,
           NEW s \in Slots, NEW d \in DeedRecs, NEW f, WaitsFor(a, p, s, d), Places(a, p),
           ProgramKept(a) \/ ProgramLocked(a, f)
    PROVE  TextInv'
<1>1. TextTypes /\ SlotsOK /\ InodesOK
  BY DEF TextInv
<1>2. PICK x : x = [text[s] EXCEPT !.flag = @ \cup {"XWANT"}]
  OBVIOUS
<1>3. /\ x \in SlotRecs /\ x.iptr = text[s].iptr /\ x.count = text[s].count
      /\ x.ccount = text[s].ccount /\ x.caddr = text[s].caddr
      /\ x.flag = text[s].flag \cup {"XWANT"}
  BY <1>1, <1>2 DEF TextTypes, SlotRecs, SlotFlags
<1>4. "XLOCK" \in x.flag /\ "XWANT" \in x.flag /\ "XLOCK" \in text[s].flag
      /\ ("XLOAD" \in x.flag <=> "XLOAD" \in text[s].flag)
  BY <1>3 DEF WaitsFor
<1>5. text' = [text EXCEPT ![s] = x]
  BY <1>1, <1>2 DEF WaitsFor, TextTypes
<1>6. Moves(a, p, s, x, d, textp[p], pflag[p])
  <2>1. itext \subseteq Programs /\ irefs \in [Programs -> Int] /\ asleep \subseteq Doers
    BY <1>1 DEF TextTypes
  <2>2. asleep' \subseteq Doers
    BY <2>1 DEF WaitsFor
  <2>3. textp' = [textp EXCEPT ![p] = textp[p]] /\ pflag' = [pflag EXCEPT ![p] = pflag[p]]
    BY <1>1, SetToItself DEF WaitsFor
  <2> QED BY <1>5, <2>1, <2>2, <2>3 DEF Moves, WaitsFor
<1>7. /\ Frame(a, p, s) /\ TextTypes' /\ doing'[a] = d /\ text'[s] = x
      /\ p \in Users => textp'[p] = textp[p] /\ pflag'[p] = pflag[p]
  <2>1. p \in Users => textp[p] \in Slots \cup {Nil} /\ pflag[p] \in SUBSET {"SLOAD", "SLOCK"}
    BY <1>1 DEF TextTypes
  <2> QED BY <1>1, <1>3, <1>6, <2>1, MovesSo
<1>8. Mutual(a, s, f)
  <2>1. LockKept(a, s)
    BY <1>4, <1>7 DEF LockKept, WaitsFor
  <2>2. ComesToWait(a, s)
    BY <1>4, <1>7 DEF ComesToWait, WaitsFor
  <2>3. FoundSo(a, s)
    BY <1>3, <1>7 DEF FoundSo, WaitsFor, Holding
  <2> QED BY <2>1, <2>2, <2>3 DEF Mutual, WaitsFor
<1>9. SlotKept(p, s)
  <2>1. InsidesKept(p)
    BY <1>7, OthersInside DEF Places
  <2>2. UsersOf(s)' = UsersOf(s) /\ InCore(s)' = InCore(s)
    BY <1>7, <2>1, SetsStay DEF WaitsFor
  <2>3. \A q \in UsersOf(s) : doing[q].at \in LoadPlaces => doing'[q] = doing[q]
    BY <1>7 DEF Frame, UsersOf, Doers, WaitsFor
  <2>4. SlotStays(s)
    BY <1>3, <1>4, <1>7, <2>2, <2>3 DEF SlotStays
  <2>5. SlotIs(s, text[s])'
    BY <1>1, <2>4, SlotStaysSo DEF SlotsOK
  <2> QED BY <1>7, <2>5 DEF SlotKept, WaitsFor
<1>10. InodesOK'
  <2>1. \A z \in Slots : text'[z].iptr = text[z].iptr
    BY <1>3, <1>7 DEF Frame
  <2> QED BY <1>1, <2>1, InodesKeep DEF WaitsFor
<1> QED BY <1>7, <1>8, <1>9, <1>10, TextStepKeeps

\* Who finds the slot locked once more sleeps again.
LEMMA XlockKeeps ==
    ASSUME TextInv, Steady, Steady', NEW a \in Doers, xlock(a)
    PROVE  TextInv'
<1>1. /\ Runs(a) /\ doing[a].at \in LockPoints /\ SleepsFor(a, doing[a]) /\ TextTypes /\ DoersOK
  BY DEF xlock, TextInv
<1>2. PICK d \in DeedRecs : d = doing[a]
  BY <1>1 DEF TextTypes
<1>3. a \notin asleep /\ doing[a].at \notin Holding \cup LoadPlaces
  BY <1>1 DEF Runs, LockPoints, Holding, LoadPlaces
<1>4. doing' = doing /\ held' = held /\ textp' = textp /\ pflag' = pflag
  BY <1>1, SetToItself DEF SleepsFor
<1>5. ProgramKept(a)
  BY <1>4 DEF ProgramKept
<1>6. held' \subseteq Programs
  BY <1>1, <1>4 DEF TextTypes
<1>7. \A p \in Users : Inside(p)' <=> Inside(p)
  BY <1>4 DEF Inside, Mine
<1>8. DoersOK'
  BY <1>1, <1>4 DEF DoersOK, UserOK, Proc0OK, RemoverOK
<1>9. CASE a \in Users
  <2>1. /\ UserOK(a, doing[a]) /\ textp[a] \in Slots \cup {Nil} /\ a # Proc0
        /\ doing[Proc0].at = "idle" \/ Mine # a
        /\ a \notin {Unlinker, Unmounter}
    BY <1>1, <1>9, UserRuns
  <2>2. PICK s \in Slots : s = d.slot /\ textp[a] \in {s, Nil}
    BY <1>1, <1>2, <2>1 DEF UserOK, LockPoints, UserPlaces, SharePlaces, LoadPlaces
  <2>3. Places(a, a)
    BY <1>8, <1>9, <2>1 DEF Places, DoersOK
  <2>4. WaitsFor(a, a, s, d)
    BY <1>1, <1>2, <1>3, <1>6, <1>7, <1>9, <2>2 DEF WaitsFor, SleepsFor
  <2> QED BY <1>5, <1>9, <2>3, <2>4, WaitKeeps
<1>10. CASE a = Proc0
  <2>1. Proc0OK(doing[a]) /\ a \notin Users /\ a \notin {Unlinker, Unmounter}
    BY <1>1, <1>10, ThreeDoers DEF DoersOK
  <2>2. PICK p \in Users : p = doing[a].proc
    BY <1>1, <2>1 DEF Proc0OK, LockPoints
  <2>3. PICK s \in Slots : s = d.slot /\ s = textp[p]
    BY <1>1, <1>2, <2>1, <2>2 DEF Proc0OK, LockPoints, Proc0Places
  <2>4. Places(a, p)
    BY <1>4, <1>8, <1>10, <2>1, <2>2 DEF Places, DoersOK, Mine
  <2>5. WaitsFor(a, p, s, d)
    BY <1>1, <1>2, <1>3, <1>6, <1>7, <2>3 DEF WaitsFor, SleepsFor
  <2> QED BY <1>5, <2>1, <2>4, <2>5, WaitKeeps
<1>11. CASE a \in {Unlinker, Unmounter}
  <2>1. RemoverOK(doing[a]) /\ a \notin Users /\ Nil \notin Users /\ a # Proc0
    BY <1>1, <1>11, ThreeDoers DEF DoersOK
  <2>2. PICK s \in Slots : s = d.slot
    BY <1>1, <1>2, <2>1 DEF RemoverOK, LockPoints
  <2>3. Places(a, Nil)
    <3>1. doing[Proc0].at = "idle" \/ Mine # Nil
      BY <1>1, <2>1 DEF DoersOK, Proc0OK, Mine
    <3> QED BY <1>8, <1>11, <2>1, <3>1 DEF Places, DoersOK
  <2>4. WaitsFor(a, Nil, s, d)
    BY <1>1, <1>2, <1>3, <1>6, <2>1, <2>2 DEF WaitsFor, SleepsFor
  <2> QED BY <1>5, <2>1, <2>3, <2>4, WaitKeeps
<1> QED BY <1>9, <1>10, <1>11 DEF Doers

\* xalloc finds the slot of the program locked.
LEMMA FindTextKeeps ==
    ASSUME TextInv, Steady, Steady', NEW p \in Users, FindText(p)
    PROVE  TextInv'
<1>1. /\ Runs(p) /\ doing[p].at = "search" /\ TextTypes
  BY DEF FindText, At, TextInv
<1>2. /\ p \notin asleep /\ "SLOAD" \in pflag[p] /\ p \in Doers
      /\ UserOK(p, doing[p]) /\ doing[p] \in DeedRecs /\ Inside(p)
  BY <1>1, UserRuns
<1>3. PICK s \in Slots : SleepsFor(p, [doing[p] EXCEPT !.at = "attach", !.slot = s])
  BY DEF FindText
<1>4. PICK d : d = MovedOn(doing[p], "attach", s)
  OBVIOUS
<1>5. d \in DeedRecs /\ d.at = "attach" /\ d.slot = s /\ d.prog = doing[p].prog
  BY <1>2, <1>4, DeedRecord DEF UserPlaces
<1>6. SleepsFor(p, d)
  BY <1>3, <1>4 DEF MovedOn
<1>7. doing'[p] = d /\ UNCHANGED <<pflag, textp, held>> /\ held \subseteq Programs
  BY <1>1, <1>2, <1>6 DEF SleepsFor, TextTypes
<1>8. doing'[Proc0] = doing[Proc0] /\ p # Proc0 /\ (doing[Proc0].at = "idle" \/ Mine # p)
      /\ p \notin {Unlinker, Unmounter}
  BY <1>1, <1>2, <1>6, UserRuns DEF SleepsFor, TextTypes
<1>9. textp[p] = Nil /\ d.prog \in Programs
  BY <1>1, <1>2, <1>5 DEF UserOK
<1>10. UserOK(p, doing[p])'
  BY <1>5, <1>7, <1>9 DEF UserOK, UserPlaces, SharePlaces, LoadPlaces
<1>11. Places(p, p)
  BY <1>8, <1>10 DEF Places
<1>12. ProgramKept(p)
  BY <1>5, <1>7 DEF ProgramKept
<1>13. Inside(p)' <=> Inside(p)
  BY <1>1, <1>2, <1>5, <1>7, <1>8 DEF Inside, Mine
<1>14. WaitsFor(p, p, s, d)
  BY <1>1, <1>2, <1>5, <1>6, <1>7, <1>9, <1>13
     DEF WaitsFor, SleepsFor, Holding, LoadPlaces
<1> QED BY <1>2, <1>5, <1>11, <1>12, <1>14, WaitKeeps

\* The slot of a process, whose users stay.
StaysAs(p, s, x, d) ==
    /\ textp[p] \in {s, Nil} /\ (Inside(p)' <=> Inside(p))
    /\ x.iptr = text[s].iptr /\ x.count = text[s].count /\ x.ccount = text[s].ccount
    /\ x.caddr = text[s].caddr
    /\ "XLOAD" \in x.flag =>
          /\ "XLOAD" \in text[s].flag
          /\ doing[p].at \in LoadPlaces => d.at \in LoadPlaces /\ d.prog = doing[p].prog
    /\ "XLOCK" \in x.flag => "XLOCK" \in text[s].flag

\* So does a step of a process that keeps its text.
LEMMA UserStays ==
    ASSUME TextInv, Steady, NEW p \in Users, Runs(p), NEW s \in Slots, NEW x \in SlotRecs,
           NEW d \in DeedRecs, NEW g \in SUBSET {"SLOAD", "SLOCK"}, NEW f,
           Moves(p, p, s, x, d, textp[p], g), Mutual(p, s, f), UserOK(p, doing[p])',
           StaysAs(p, s, x, d), UNCHANGED <<itext, irefs>>
    PROVE  TextInv'
<1>1. TextTypes /\ SlotsOK /\ InodesOK /\ textp[p] \in Slots \cup {Nil}
  BY DEF TextInv, TextTypes
<1>2. /\ Frame(p, p, s) /\ TextTypes' /\ doing'[p] = d /\ text'[s] = x
      /\ textp'[p] = textp[p] /\ pflag'[p] = g /\ InsidesKept(p)
  <2>1. UserMoved(p, s, x, d, textp[p], g)
    BY <1>1 DEF UserMoved
  <2> QED BY <2>1, UserMoves
<1>3. UsersOf(s)' = UsersOf(s) /\ InCore(s)' = InCore(s)
  BY <1>2, SetsStay DEF StaysAs
<1>4. \A q \in UsersOf(s) : q # p => doing'[q] = doing[q]
  BY <1>2 DEF Frame, UsersOf, Doers
<1>5. SlotStays(s)
  BY <1>2, <1>3, <1>4 DEF SlotStays, StaysAs
<1>6. SlotIs(s, text[s])'
  BY <1>1, <1>5, SlotStaysSo DEF SlotsOK
<1>7. SlotKept(p, s)
  BY <1>2, <1>6 DEF SlotKept, StaysAs
<1>8. InodesOK'
  <2>1. \A z \in Slots : text'[z].iptr = text[z].iptr
    BY <1>2 DEF Frame, StaysAs
  <2> QED BY <1>1, <2>1, InodesKeep
<1> QED BY <1>2, <1>7, <1>8, UserStepKeeps

\* At the end of exec the inode is let go.
LEMMA ExecutesSo ==
    ASSUME TextInv, Steady, NEW p \in Users, Runs(p), Executes(p)
    PROVE  /\ ProgramGone(p) /\ held' \subseteq Programs /\ Idle \in DeedRecs
           /\ doing' = [doing EXCEPT ![p] = Idle] /\ doing'[p] = Idle
           /\ Idle.at = "idle" /\ Idle.prog = Nil /\ Idle.slot = Nil
           /\ UserOK(p, Idle)'
<1>1. TextTypes /\ p \in Doers /\ p \in Lockers
  BY DEF TextInv, Doers, Lockers
<1>2. Idle \in DeedRecs /\ Idle.at = "idle" /\ Idle.prog = Nil /\ Idle.slot = Nil
  BY DEF Idle, DeedRecs, UserPlaces
<1>3. doing' = [doing EXCEPT ![p] = Idle] /\ held' = held \ {doing[p].prog}
  BY DEF Executes
<1>4. doing'[p] = Idle /\ held' \subseteq Programs
  BY <1>1, <1>3 DEF TextTypes
<1>5. UserOK(p, Idle)'
  BY <1>2 DEF UserOK, UserPlaces, SharePlaces, LoadPlaces, Idle
<1> QED BY <1>1, <1>2, <1>3, <1>4, <1>5 DEF ProgramGone

\* The text is read from its file.
LEMMA FileReadKeeps ==
    ASSUME TextInv, Steady, Steady', NEW p \in Users, FileRead(p)
    PROVE  TextInv'
<1>1. /\ Runs(p) /\ doing[p].at = "readi" /\ TextTypes /\ Executes(p)
      /\ UNCHANGED <<textp, itext, irefs, asleep>>
  BY DEF FileRead, At, TextInv
<1>2. /\ p \notin asleep /\ "SLOAD" \in pflag[p] /\ p \in Doers
      /\ UserOK(p, doing[p]) /\ doing[p] \in DeedRecs /\ Inside(p)
  BY <1>1, UserRuns
<1>3. PICK s \in Slots : s = doing[p].slot /\ s = textp[p]
  BY <1>1, <1>2 DEF UserOK, LoadPlaces
<1>4. "XLOCK" \notin text[s].flag
  BY <1>2, <1>3, UsedSlot
<1>5. PICK x : x = [text[s] EXCEPT !.flag = {"XWRIT"}]
  OBVIOUS
<1>6. /\ x \in SlotRecs /\ x.iptr = text[s].iptr /\ x.count = text[s].count
      /\ x.ccount = text[s].ccount /\ x.caddr = text[s].caddr
      /\ "XLOCK" \notin x.flag /\ "XLOAD" \notin x.flag
  <2>1. PICK e \in SUBSET SlotFlags : e = {"XWRIT"}
    BY DEF SlotFlags
  <2>2. x = [text[s] EXCEPT !.flag = e]
    BY <1>5, <2>1
  <2>3. x \in SlotRecs /\ x.iptr = text[s].iptr /\ x.count = text[s].count
        /\ x.ccount = text[s].ccount /\ x.caddr = text[s].caddr /\ x.flag = e
    BY <1>1, <2>2 DEF TextTypes, SlotRecs
  <2> QED BY <2>1, <2>3
<1>7. text' = [text EXCEPT ![s] = x]
  BY <1>1, <1>3, <1>5 DEF FileRead, TextTypes
<1>8. PICK g \in SUBSET {"SLOAD", "SLOCK"} : g = pflag[p] \ {"SLOCK"}
  BY <1>1 DEF TextTypes
<1>9. pflag' = [pflag EXCEPT ![p] = g]
  BY <1>8 DEF FileRead
<1>10. /\ ProgramGone(p) /\ held' \subseteq Programs /\ Idle \in DeedRecs
       /\ doing' = [doing EXCEPT ![p] = Idle] /\ doing'[p] = Idle
       /\ Idle.at = "idle" /\ Idle.prog = Nil /\ Idle.slot = Nil /\ UserOK(p, Idle)'
  BY <1>1, ExecutesSo
<1>11. Moves(p, p, s, x, Idle, textp[p], g)
  BY <1>1, <1>7, <1>9, <1>10, SetToItself DEF Moves, TextTypes
<1>12. /\ text'[s] = x /\ (Inside(p)' <=> "SLOAD" \in g)
  <2>1. textp[p] \in Slots \cup {Nil} /\ x \in SlotRecs /\ Idle \in DeedRecs /\ Runs(p)
    BY <1>1, <1>6, <1>10 DEF TextTypes
  <2>2. /\ text'[s] = x
        /\ (Inside(p)' <=> "SLOAD" \in g /\ Idle.at \notin {"read", "xswap", "loadswap", "selftext", "selfimage"})
    <3>1. UserMoved(p, s, x, Idle, textp[p], g)
      BY <1>11, <2>1 DEF UserMoved
    <3> QED BY <3>1, UserMoves
  <2> QED BY <1>10, <2>2
<1>13. Mutual(p, s, Nil)
  <2>1. LockKept(p, s)
    BY <1>1, <1>4, <1>6, <1>10, <1>12 DEF LockKept, Holding
  <2>2. WaitOn(s) /\ FoundSo(p, s)
    BY <1>1, <1>4, <1>10 DEF WaitOn, FoundSo
  <2> QED BY <1>2, <1>10, <2>1, <2>2 DEF Mutual
<1>14. StaysAs(p, s, x, Idle)
  BY <1>2, <1>3, <1>6, <1>8, <1>12 DEF StaysAs
<1> QED BY <1>1, <1>6, <1>10, <1>11, <1>13, <1>14, UserStays

\* A process has swapped itself out, for want of core for its text.
LEMMA SwappedItselfKeeps ==
    ASSUME TextInv, Steady, Steady', NEW p \in Users, SwappedItself(p)
    PROVE  TextInv'
<1>1. /\ Runs(p) /\ doing[p].at \in {"xswap", "loadswap"} /\ TextTypes /\ LocksOK
      /\ UNCHANGED <<textp, held, itext, irefs>>
  BY DEF SwappedItself, TextInv
<1>2. /\ p \notin asleep /\ "SLOAD" \in pflag[p] /\ p \in Doers
      /\ UserOK(p, doing[p]) /\ doing[p] \in DeedRecs /\ ~Inside(p)
  BY <1>1, UserRuns
<1>3. PICK s \in Slots : s = doing[p].slot /\ s = textp[p]
  BY <1>1, <1>2 DEF UserOK, LoadPlaces, SharePlaces
<1>4. HoldsSlot(p, s) /\ "XLOCK" \in text[s].flag /\ text[s] \in SlotRecs
  BY <1>1, <1>2, <1>3 DEF HoldsSlot, Holding, LocksOK, TextTypes
<1>5. PICK x : x = Unlocked(text[s])
  OBVIOUS
<1>6. /\ x \in SlotRecs /\ x.iptr = text[s].iptr /\ x.count = text[s].count
      /\ x.ccount = text[s].ccount /\ x.caddr = text[s].caddr
      /\ "XLOCK" \notin x.flag /\ ("XLOAD" \in x.flag <=> "XLOAD" \in text[s].flag)
  BY <1>4, <1>5, UnlockRecord
<1>7. text' = [text EXCEPT ![s] = x] /\ Wakes(s)
  BY <1>3, <1>5 DEF SwappedItself
<1>8. PICK g \in SUBSET {"SLOAD", "SLOCK"} : g = {}
  OBVIOUS
<1>9. pflag' = [pflag EXCEPT ![p] = g]
  BY <1>8 DEF SwappedItself
<1>10. PICK l : l = IF doing[p].at = "xswap" THEN "back" ELSE "loadback"
  OBVIOUS
<1>11. PICK d : d = MovedTo(doing[p], l)
  OBVIOUS
<1>12. /\ d \in DeedRecs /\ d.at = l /\ d.prog = doing[p].prog /\ d.slot = s
       /\ l \in {"back", "loadback"} /\ (doing[p].at \in LoadPlaces => l = "loadback")
  <2>1. l \in {"back", "loadback"} /\ (doing[p].at \in LoadPlaces => l = "loadback")
    BY <1>10 DEF LoadPlaces
  <2>2. l \in UserPlaces
    BY <2>1 DEF UserPlaces, SharePlaces, LoadPlaces
  <2>3. doing[p] \in DeedRecs /\ l \in UserPlaces \cup Proc0Places
    BY <1>2, <2>2
  <2>4. d \in DeedRecs /\ d.at = l /\ d.prog = doing[p].prog /\ d.slot = doing[p].slot
    BY <1>11, <2>3, MovedRecord
  <2> QED BY <1>3, <2>1, <2>4
<1>13. doing' = [doing EXCEPT ![p] = d]
  BY <1>1, <1>2, <1>10, <1>11, GoesIs DEF SwappedItself
<1>14. Moves(p, p, s, x, d, textp[p], g)
  BY <1>1, <1>7, <1>9, <1>13, SetToItself DEF Moves, TextTypes, Wakes
<1>15. /\ text'[s] = x /\ doing'[p] = d /\ textp'[p] = textp[p] /\ pflag'[p] = g
       /\ (Inside(p)' <=> "SLOAD" \in g /\ d.at \notin {"read", "xswap", "loadswap", "selftext", "selfimage"})
  <2>1. textp[p] \in Slots \cup {Nil}
    BY <1>1 DEF TextTypes
  <2>2. UserMoved(p, s, x, d, textp[p], g)
    BY <1>1, <1>6, <1>12, <1>14, <2>1 DEF UserMoved
  <2> QED BY <2>2, UserMoves
<1>16. Mutual(p, s, Nil)
  <2>1. LockGiven(p, s)
    BY <1>1, <1>3, <1>6, <1>12, <1>15 DEF LockGiven, Holding
  <2>2. AllWoken(s) /\ ProgramKept(p)
    BY <1>1, <1>7, <1>12, <1>15 DEF AllWoken, ProgramKept
  <2>3. FoundSo(p, s)
    BY <1>4, <1>12, <1>15 DEF FoundSo
  <2> QED BY <1>2, <2>1, <2>2, <2>3 DEF Mutual
<1>17. StaysAs(p, s, x, d)
  BY <1>2, <1>3, <1>6, <1>8, <1>12, <1>15 DEF StaysAs, LoadPlaces
<1>18. UserOK(p, doing[p])'
  BY <1>1, <1>2, <1>3, <1>12, <1>15 DEF UserOK, UserPlaces, SharePlaces, LoadPlaces
<1> QED BY <1>1, <1>6, <1>12, <1>14, <1>16, <1>17, <1>18, UserStays

\* It is in core again, with its text.
LEMMA BackKeeps ==
    ASSUME TextInv, Steady, Steady', NEW p \in Users, Back(p)
    PROVE  TextInv'
<1>1. /\ Runs(p) /\ doing[p].at = "back" /\ TextTypes /\ Executes(p)
      /\ UNCHANGED <<pflag, textp, itext, irefs>>
  BY DEF Back, At, TextInv
<1>2. /\ p \notin asleep /\ "SLOAD" \in pflag[p] /\ p \in Doers
      /\ UserOK(p, doing[p]) /\ doing[p] \in DeedRecs /\ Inside(p)
  BY <1>1, UserRuns
<1>3. PICK s \in Slots : s = doing[p].slot /\ s = textp[p]
  BY <1>1, <1>2 DEF UserOK, SharePlaces
<1>4. "XLOCK" \notin text[s].flag /\ text[s] \in SlotRecs
  BY <1>1, <1>2, <1>3, UsedSlot DEF TextTypes
<1>5. PICK x : x = Unlocked(text[s])
  OBVIOUS
<1>6. /\ x \in SlotRecs /\ x.iptr = text[s].iptr /\ x.count = text[s].count
      /\ x.ccount = text[s].ccount /\ x.caddr = text[s].caddr
      /\ "XLOCK" \notin x.flag /\ ("XLOAD" \in x.flag <=> "XLOAD" \in text[s].flag)
  BY <1>4, <1>5, UnlockRecord
<1>7. text' = [text EXCEPT ![s] = x] /\ Wakes(s)
  BY <1>3, <1>5 DEF Back
<1>8. PICK g \in SUBSET {"SLOAD", "SLOCK"} : g = pflag[p]
  BY <1>1 DEF TextTypes
<1>9. pflag' = [pflag EXCEPT ![p] = g]
  BY <1>1, <1>8, SetToItself
<1>10. /\ ProgramGone(p) /\ held' \subseteq Programs /\ Idle \in DeedRecs
       /\ doing' = [doing EXCEPT ![p] = Idle] /\ doing'[p] = Idle
       /\ Idle.at = "idle" /\ Idle.prog = Nil /\ Idle.slot = Nil /\ UserOK(p, Idle)'
  BY <1>1, ExecutesSo
<1>11. Moves(p, p, s, x, Idle, textp[p], g)
  BY <1>1, <1>7, <1>9, <1>10, SetToItself DEF Moves, TextTypes, Wakes
<1>12. /\ text'[s] = x /\ (Inside(p)' <=> "SLOAD" \in g)
  <2>1. textp[p] \in Slots \cup {Nil}
    BY <1>1 DEF TextTypes
  <2>2. UserMoved(p, s, x, Idle, textp[p], g)
    BY <1>1, <1>6, <1>10, <1>11, <2>1 DEF UserMoved
  <2>3. /\ text'[s] = x
        /\ (Inside(p)' <=> "SLOAD" \in g /\ Idle.at \notin {"read", "xswap", "loadswap", "selftext", "selfimage"})
    BY <2>2, UserMoves
  <2> QED BY <1>10, <2>3
<1>13. Mutual(p, s, Nil)
  <2>1. LockKept(p, s)
    BY <1>1, <1>4, <1>6, <1>10, <1>12 DEF LockKept, Holding
  <2>2. AllWoken(s) /\ FoundSo(p, s)
    BY <1>1, <1>4, <1>7, <1>10 DEF AllWoken, FoundSo
  <2> QED BY <1>2, <1>10, <2>1, <2>2 DEF Mutual
<1>14. StaysAs(p, s, x, Idle)
  BY <1>1, <1>2, <1>3, <1>6, <1>8, <1>12 DEF StaysAs, LoadPlaces
<1> QED BY <1>1, <1>6, <1>10, <1>11, <1>13, <1>14, UserStays

\* It is in core again, and is to read its text from the file.
LEMMA BackToReadKeeps ==
    ASSUME TextInv, Steady, Steady', NEW p \in Users, BackToRead(p)
    PROVE  TextInv'
<1>1. /\ Runs(p) /\ doing[p].at = "loadback" /\ TextTypes
      /\ UNCHANGED <<text, textp, held, itext, irefs, asleep>>
  BY DEF BackToRead, At, TextInv
<1>2. /\ p \notin asleep /\ "SLOAD" \in pflag[p] /\ p \in Doers
      /\ UserOK(p, doing[p]) /\ doing[p] \in DeedRecs /\ Inside(p)
  BY <1>1, UserRuns
<1>3. PICK s \in Slots : s = doing[p].slot /\ s = textp[p]
  BY <1>1, <1>2 DEF UserOK, LoadPlaces
<1>4. "XLOCK" \notin text[s].flag
  BY <1>2, <1>3, UsedSlot
<1>5. PICK x \in SlotRecs : x = text[s]
  BY <1>1 DEF TextTypes
<1>6. PICK g \in SUBSET {"SLOAD", "SLOCK"} : g = pflag[p] \cup {"SLOCK"}
  BY <1>1 DEF TextTypes
<1>7. PICK d : d = MovedTo(doing[p], "readi")
  OBVIOUS
<1>8. d \in DeedRecs /\ d.at = "readi" /\ d.prog = doing[p].prog /\ d.slot = s
  <2>1. doing[p] \in DeedRecs /\ "readi" \in UserPlaces \cup Proc0Places
    BY <1>2 DEF UserPlaces, LoadPlaces
  <2>2. d \in DeedRecs /\ d.at = "readi" /\ d.prog = doing[p].prog /\ d.slot = doing[p].slot
    BY <1>7, <2>1, MovedRecord
  <2> QED BY <1>3, <2>2
<1>9. doing' = [doing EXCEPT ![p] = d] /\ pflag' = [pflag EXCEPT ![p] = g]
  BY <1>1, <1>2, <1>6, <1>7, GoesIs DEF BackToRead
<1>10. Moves(p, p, s, x, d, textp[p], g)
  BY <1>1, <1>5, <1>9, SetToItself DEF Moves, TextTypes
<1>11. /\ text'[s] = x /\ doing'[p] = d /\ textp'[p] = textp[p] /\ pflag'[p] = g
       /\ (Inside(p)' <=> "SLOAD" \in g /\ d.at \notin {"read", "xswap", "loadswap", "selftext", "selfimage"})
  <2>1. textp[p] \in Slots \cup {Nil}
    BY <1>1 DEF TextTypes
  <2>2. UserMoved(p, s, x, d, textp[p], g)
    BY <1>1, <1>5, <1>8, <1>10, <2>1 DEF UserMoved
  <2> QED BY <2>2, UserMoves
<1>12. Mutual(p, s, Nil)
  <2>1. LockKept(p, s) /\ WaitOn(s)
    BY <1>1, <1>8, <1>11 DEF LockKept, Holding, WaitOn
  <2>2. FoundSo(p, s) /\ ProgramKept(p)
    BY <1>1, <1>8, <1>11 DEF FoundSo, ProgramKept
  <2> QED BY <1>2, <2>1, <2>2 DEF Mutual
<1>13. StaysAs(p, s, x, d)
  BY <1>2, <1>3, <1>5, <1>6, <1>8, <1>11 DEF StaysAs, LoadPlaces
<1>14. UserOK(p, doing[p])'
  BY <1>1, <1>2, <1>3, <1>8, <1>11 DEF UserOK, UserPlaces, SharePlaces, LoadPlaces
<1> QED BY <1>1, <1>8, <1>10, <1>12, <1>13, <1>14, UserStays

\* The text is read from the swap area.
LEMMA TextReadKeeps ==
    ASSUME TextInv, Steady, Steady', NEW p \in Users, TextRead(p)
    PROVE  TextInv'
<1>1. /\ Runs(p) /\ doing[p].at = "read" /\ TextTypes /\ LocksOK /\ ReadersOK /\ SlotsOK /\ InodesOK
      /\ Executes(p) /\ UNCHANGED <<pflag, textp, itext, irefs>>
  BY DEF TextRead, At, TextInv
<1>2. /\ p \notin asleep /\ "SLOAD" \in pflag[p] /\ p \in Doers /\ p # Proc0
      /\ UserOK(p, doing[p]) /\ ~Inside(p)
  BY <1>1, UserRuns
<1>3. PICK s \in Slots : s = doing[p].slot /\ s = textp[p]
  BY <1>1, <1>2 DEF UserOK, SharePlaces
<1>4. HoldsSlot(p, s) /\ "XLOCK" \in text[s].flag /\ text[s] \in SlotRecs /\ text[s].caddr = p
  BY <1>1, <1>2, <1>3 DEF HoldsSlot, Holding, LocksOK, TextTypes, ReadersOK, Reads, Owner
<1>5. /\ text[s].iptr \in Programs /\ text[s].iptr # Nil /\ p \in UsersOf(s)
      /\ "XLOAD" \notin text[s].flag
  BY <1>1, <1>3, UsedSlot, ThreeDoers DEF LoadPlaces
<1>6. PICK n \in Int : n = text[s].ccount + 1
  BY <1>4 DEF SlotRecs
<1>7. PICK y : y = TextEntered(text[s])
  OBVIOUS
<1>8. /\ y \in SlotRecs /\ y.iptr = text[s].iptr /\ y.count = text[s].count
      /\ y.ccount = n /\ y.caddr = p /\ y.flag = text[s].flag
  BY <1>4, <1>6, <1>7, EnteredRecord
<1>9. PICK x : x = Unlocked(y)
  OBVIOUS
<1>10. /\ x \in SlotRecs /\ x.iptr = text[s].iptr /\ x.count = text[s].count
       /\ x.ccount = n /\ x.caddr = p /\ "XLOCK" \notin x.flag /\ "XLOAD" \notin x.flag
  BY <1>5, <1>8, <1>9, UnlockRecord
<1>11. text' = [text EXCEPT ![s] = x] /\ Wakes(s)
  BY <1>3, <1>7, <1>9, Zenon DEF TextRead
<1>12. PICK g \in SUBSET {"SLOAD", "SLOCK"} : g = pflag[p]
  BY <1>1 DEF TextTypes
<1>13. /\ ProgramGone(p) /\ held' \subseteq Programs /\ Idle \in DeedRecs
       /\ doing' = [doing EXCEPT ![p] = Idle] /\ doing'[p] = Idle
       /\ Idle.at = "idle" /\ Idle.prog = Nil /\ Idle.slot = Nil /\ UserOK(p, Idle)'
  BY <1>1, ExecutesSo
<1>14. Moves(p, p, s, x, Idle, textp[p], g)
  BY <1>1, <1>11, <1>12, <1>13, SetToItself DEF Moves, TextTypes, Wakes
<1>15. /\ Frame(p, p, s) /\ TextTypes' /\ text'[s] = x /\ textp'[p] = s /\ InsidesKept(p)
       /\ p \in UsersOf(s)' /\ p \in InCore(s)'
  <2>1. textp[p] \in Slots \cup {Nil} /\ Runs(p)
    BY <1>1 DEF TextTypes
  <2>2. /\ Frame(p, p, s) /\ TextTypes' /\ text'[s] = x /\ textp'[p] = textp[p] /\ InsidesKept(p)
        /\ Inside(p)' <=> "SLOAD" \in g /\ Idle.at \notin {"read", "xswap", "loadswap", "selftext", "selfimage"}
        /\ \A z : p \in UsersOf(z)' <=> textp[p] = z
        /\ \A z : p \in InCore(z)' <=> textp[p] = z /\ Inside(p)'
    <3>1. UserMoved(p, s, x, Idle, textp[p], g)
      BY <1>10, <1>13, <1>14, <2>1 DEF UserMoved
    <3> QED BY <3>1, UserMoves
  <2> QED BY <1>2, <1>3, <1>12, <1>13, <2>2
<1>16. Mutual(p, s, Nil)
  <2>1. LockGiven(p, s)
    BY <1>1, <1>3, <1>10, <1>13, <1>15 DEF LockGiven, Holding
  <2>2. AllWoken(s) /\ FoundSo(p, s)
    BY <1>4, <1>11, <1>13 DEF AllWoken, FoundSo
  <2> QED BY <1>2, <1>13, <2>1, <2>2 DEF Mutual
<1>17. SlotIs(s, text[s])'
  <2>1. p \notin InCore(s)
    BY <1>2, InCoreIs
  <2>2. text[s].count = Cardinality(UsersOf(s)') /\ n = Cardinality(InCore(s)')
    BY <1>5, <1>6, <1>15, <2>1, SlotCounts
  <2> QED BY <1>5, <1>10, <1>15, <2>2 DEF SlotIs
<1>18. SlotKept(p, s)
  BY <1>3, <1>15, <1>17 DEF SlotKept
<1>19. InodesOK'
  <2>1. \A z \in Slots : text'[z].iptr = text[z].iptr
    BY <1>10, <1>15 DEF Frame
  <2> QED BY <1>1, <2>1, InodesKeep
<1> QED BY <1>1, <1>13, <1>15, <1>16, <1>18, <1>19, UserStepKeeps

\* All slots are used: exec kills the process.
LEMMA OutOfTextKeeps ==
    ASSUME TextInv, Steady, Steady', NEW p \in Users, OutOfText(p)
    PROVE  TextInv'
<1>1. /\ Runs(p) /\ doing[p].at = "search" /\ TextTypes /\ SlotsOK /\ InodesOK
      /\ held' = held \ {doing[p].prog}
      /\ UNCHANGED <<text, pflag, textp, itext, irefs, asleep>>
  BY DEF OutOfText, At, TextInv
<1>2. /\ p \notin asleep /\ p \in Doers /\ p \in Lockers /\ UserOK(p, doing[p])
  BY <1>1, UserRuns
<1>3. textp[p] = Nil
  BY <1>1, <1>2 DEF UserOK
<1>4. PICK d : d = [Idle EXCEPT !.at = "gone"]
  OBVIOUS
<1>5. d \in DeedRecs /\ d.at = "gone" /\ d.prog = Nil
  BY <1>4 DEF Idle, DeedRecs, UserPlaces
<1>6. doing' = [doing EXCEPT ![p] = d] /\ doing'[p] = d /\ TextTypes'
      /\ \A b \in Doers : b # p => doing'[b] = doing[b]
  <2>1. doing' = [doing EXCEPT ![p] = d]
    BY <1>4 DEF OutOfText
  <2> QED BY <1>1, <1>2, <1>5, <2>1 DEF TextTypes
<1>7. Frame(p, p, Nil)
  BY <1>1, <1>2, <1>6 DEF Frame
<1>8. Mutual(p, Nil, Nil)
  <2>1. Nil \notin Slots
    BY ThreeDoers
  <2>2. LockKept(p, Nil) /\ WaitOn(Nil) /\ FoundSo(p, Nil)
    BY <1>1, <1>5, <1>6, <2>1 DEF LockKept, Holding, WaitOn, FoundSo
  <2>3. ProgramGone(p)
    BY <1>1, <1>2, <1>5, <1>6 DEF ProgramGone
  <2> QED BY <1>2, <2>2, <2>3 DEF Mutual
<1>9. UserOK(p, doing[p])'
  BY <1>1, <1>3, <1>5, <1>6 DEF UserOK, UserPlaces, SharePlaces, LoadPlaces
<1>10. SlotKept(p, Nil)
  BY <1>1, <1>3, ThreeDoers DEF SlotKept
<1>11. InodesOK'
  BY <1>1, InodesKeep
<1> QED BY <1>1, <1>6, <1>7, <1>8, <1>9, <1>10, <1>11, UserStepKeeps

\* A slot is taken for a program that has none.
LEMMA NewInode ==
    ASSUME TextInv, Steady, NEW s \in Slots, NEW f \in Programs, text[s].iptr = Nil,
           \A z \in Slots : text[z].iptr # f, itext' = itext \cup {f},
           irefs' = [irefs EXCEPT ![f] = @ + 1], text'[s].iptr = f,
           \A z \in Slots : z # s => text'[z] = text[z]
    PROVE  InodesOK' /\ itext' \subseteq Programs /\ irefs' \in [Programs -> Int]
<1>1. itext \subseteq Programs /\ irefs \in [Programs -> Int] /\ InodesOK
  BY DEF TextInv, TextTypes
<1>2. irefs[f] = 0
  BY <1>1 DEF InodesOK
<1>3. irefs' \in [Programs -> Int] /\ irefs'[f] = 1 /\ \A g \in Programs : g # f => irefs'[g] = irefs[g]
  BY <1>1, <1>2
<1>4. ASSUME NEW g \in Programs
      PROVE  \/ g \notin itext' /\ irefs'[g] = 0 /\ \A z \in Slots : text'[z].iptr # g
             \/ /\ g \in itext' /\ irefs'[g] = 1
                /\ \E y \in Slots : \A z \in Slots : text'[z].iptr = g <=> z = y
  <2>1. CASE g = f
    <3>1. \A z \in Slots : text'[z].iptr = f <=> z = s
      OBVIOUS
    <3> QED BY <1>3, <2>1, <3>1
  <2>2. CASE g # f
    <3>1. \A z \in Slots : text'[z].iptr = g <=> text[z].iptr = g
      BY <2>2, ThreeDoers
    <3>2. irefs'[g] = irefs[g] /\ (g \in itext' <=> g \in itext)
      BY <1>3, <2>2
    <3> QED BY <1>1, <3>1, <3>2 DEF InodesOK
  <2> QED BY <2>1, <2>2
<1> QED BY <1>1, <1>3, <1>4 DEF InodesOK

\* xalloc takes a free slot, in core or not.
LEMMA NewTextKeeps ==
    ASSUME TextInv, Steady, Steady', NEW p \in Users, NewText(p)
    PROVE  TextInv'
<1>1. /\ Runs(p) /\ doing[p].at = "search" /\ TextTypes /\ SlotsOK
      /\ UNCHANGED <<held, asleep>>
  BY DEF NewText, At, TextInv
<1>2. /\ p \notin asleep /\ "SLOAD" \in pflag[p] /\ p \in Doers /\ p # Proc0 /\ p \in Lockers
      /\ UserOK(p, doing[p]) /\ doing[p] \in DeedRecs
  BY <1>1, UserRuns
<1>3. PICK f \in Programs : f = doing[p].prog /\ textp[p] = Nil
  BY <1>1, <1>2 DEF UserOK
<1>4. PICK s \in Slots :
        /\ text[s].iptr = Nil /\ textp' = [textp EXCEPT ![p] = s] /\ itext' = itext \cup {f}
        /\ irefs' = [irefs EXCEPT ![f] = @ + 1]
        /\ \E x \in {[iptr |-> f, count |-> 1, ccount |-> 0, flag |-> {"XLOAD", "XLOCK"},
                      caddr |-> text[s].caddr]} :
            \/ /\ text' = [text EXCEPT ![s] = Unlocked(TextEntered(FoundBy(x, p)))]
               /\ GoesOn(p, "readi", s)
            \/ text' = [text EXCEPT ![s] = x] /\ GoesOn(p, "loadswap", s)
  BY <1>3 DEF NewText
<1>5. \A z \in Slots : text[z].iptr # f
  BY <1>3 DEF NewText
<1>6. UsersOf(s) = {} /\ "XLOCK" \notin text[s].flag
  BY <1>1, <1>4 DEF SlotsOK, SlotIs
<1>4a. PICK x1 :
        /\ x1 = [iptr |-> f, count |-> 1, ccount |-> 0, flag |-> {"XLOAD", "XLOCK"},
                 caddr |-> text[s].caddr]
        /\ \/ /\ text' = [text EXCEPT ![s] = Unlocked(TextEntered(FoundBy(x1, p)))]
              /\ GoesOn(p, "readi", s)
           \/ text' = [text EXCEPT ![s] = x1] /\ GoesOn(p, "loadswap", s)
  BY <1>4
<1>7. /\ x1 \in SlotRecs /\ x1.iptr = f /\ x1.count = 1 /\ x1.ccount = 0
      /\ x1.flag = {"XLOAD", "XLOCK"}
  <2>1. text[s].caddr \in Users \cup {Nil}
    BY <1>1 DEF TextTypes, SlotRecs
  <2> QED BY <1>4a, <2>1 DEF SlotRecs, SlotFlags
<1>8. PICK x2 : x2 = Unlocked(TextEntered(FoundBy(x1, p)))
  OBVIOUS
<1>9. /\ x2 \in SlotRecs /\ x2.iptr = f /\ x2.count = 1 /\ x2.ccount = 1 /\ x2.caddr = p
      /\ "XLOAD" \in x2.flag /\ "XLOCK" \notin x2.flag
  <2>1. PICK y : y = FoundBy(x1, p)
    OBVIOUS
  <2>2. /\ y \in SlotRecs /\ y.iptr = x1.iptr /\ y.count = x1.count /\ y.ccount = x1.ccount
        /\ y.caddr = p /\ y.flag = x1.flag
    BY <1>7, <2>1, FoundRecord
  <2>3. PICK z : z = TextEntered(y)
    OBVIOUS
  <2>4. /\ z \in SlotRecs /\ z.iptr = y.iptr /\ z.count = y.count /\ z.ccount = y.ccount + 1
        /\ z.caddr = y.caddr /\ z.flag = y.flag
    BY <2>2, <2>3, EnteredRecord
  <2>5. x2 = Unlocked(z)
    BY <1>8, <2>1, <2>3
  <2> QED BY <1>7, <2>2, <2>4, <2>5, UnlockRecord
<1>10. PICK d, x :
         /\ text' = [text EXCEPT ![s] = x] /\ doing' = [doing EXCEPT ![p] = d]
         /\ \/ x = x2 /\ d = MovedOn(doing[p], "readi", s)
            \/ x = x1 /\ d = MovedOn(doing[p], "loadswap", s)
  BY <1>1, <1>2, <1>8, <1>4a, GoesIs
<1>11. /\ d \in DeedRecs /\ d.prog = f /\ d.slot = s /\ d.at \in {"readi", "loadswap"}
       /\ d.at = "readi" => x = x2
       /\ d.at = "loadswap" => x = x1
  <2>1. "readi" \in UserPlaces /\ "loadswap" \in UserPlaces
    BY DEF UserPlaces, LoadPlaces
  <2>2. \A l \in UserPlaces : MovedOn(doing[p], l, s) \in DeedRecs
          /\ MovedOn(doing[p], l, s).at = l /\ MovedOn(doing[p], l, s).slot = s
          /\ MovedOn(doing[p], l, s).prog = f
    BY <1>2, <1>3, DeedRecord
  <2> QED BY <1>10, <2>1, <2>2
<1>12. /\ x \in SlotRecs /\ x.iptr = f /\ x.count = 1 /\ "XLOAD" \in x.flag
       /\ d.at = "readi" => x.ccount = 1 /\ x.caddr = p /\ "XLOCK" \notin x.flag
       /\ d.at = "loadswap" => x.ccount = 0 /\ "XLOCK" \in x.flag
  BY <1>7, <1>9, <1>10, <1>11
<1>13. PICK g \in SUBSET {"SLOAD", "SLOCK"} : g = pflag[p] \cup {"SLOCK"}
  BY <1>1 DEF TextTypes
<1>14. /\ text' = [text EXCEPT ![s] = x] /\ text'[s] = x
       /\ \A z \in Slots : z # s => text'[z] = text[z]
  BY <1>1, <1>10 DEF TextTypes
<1>15. InodesOK' /\ itext' \subseteq Programs /\ irefs' \in [Programs -> Int]
  BY <1>4, <1>5, <1>12, <1>14, NewInode
<1>16. Moves(p, p, s, x, d, s, g)
  <2>1. pflag' = [pflag EXCEPT ![p] = g]
    BY <1>13 DEF NewText
  <2> QED BY <1>1, <1>4, <1>10, <1>15, <2>1 DEF Moves, TextTypes
<1>17. /\ Frame(p, p, s) /\ TextTypes' /\ doing'[p] = d /\ textp'[p] = s /\ pflag'[p] = g
       /\ InsidesKept(p)
       /\ Inside(p)' <=> "SLOAD" \in g /\ d.at \notin {"read", "xswap", "loadswap", "selftext", "selfimage"}
       /\ p \in UsersOf(s)'
       /\ p \in InCore(s)' <=> Inside(p)'
  <2>1. UserMoved(p, s, x, d, s, g)
    BY <1>1, <1>11, <1>12, <1>16 DEF UserMoved
  <2> QED BY <2>1, UserMoves
<1>18. Mutual(p, s, Nil)
  <2>1. LockKept(p, s) \/ LockTaken(p, s)
    BY <1>1, <1>6, <1>11, <1>12, <1>14, <1>17 DEF LockKept, LockTaken, Holding
  <2>2. WaitOn(s) /\ FoundSo(p, s)
    BY <1>1, <1>6, <1>11, <1>17 DEF WaitOn, FoundSo
  <2>3. ProgramKept(p)
    BY <1>1, <1>3, <1>11, <1>17 DEF ProgramKept
  <2> QED BY <1>2, <2>1, <2>2, <2>3 DEF Mutual
<1>19. UserOK(p, doing[p])'
  <2>1. "SLOAD" \in g /\ "SLOCK" \in g
    BY <1>2, <1>13
  <2> QED BY <1>11, <1>17, <2>1 DEF UserOK, UserPlaces, SharePlaces, LoadPlaces
<1>20. SlotIs(s, text[s])'
  <2>1. UsersOf(s)' = {p} /\ InCore(s)' \in SUBSET UsersOf(s)'
    <3>1. UsersOf(s)' \ {p} = UsersOf(s) \ {p}
      BY <1>17, UsersMove
    <3> QED BY <1>6, <1>17, <3>1 DEF UsersOf, InCore
  <2>2. InCore(s)' = IF d.at = "readi" THEN {p} ELSE {}
    BY <1>2, <1>11, <1>13, <1>17, <2>1
  <2>3. Cardinality({p}) = 1 /\ Cardinality({}) = 0
    BY FS_Singleton, FS_EmptySet
  <2>4. x.count = Cardinality(UsersOf(s)') /\ x.ccount = Cardinality(InCore(s)')
    BY <1>11, <1>12, <2>1, <2>2, <2>3
  <2>5. x.ccount > 0 => x.caddr \in InCore(s)'
    BY <1>11, <1>12, <2>2
  <2>6. "XLOCK" \in x.flag => x.ccount = 0
    BY <1>11, <1>12
  <2>7. \A q \in UsersOf(s)' : doing'[q].at \in LoadPlaces /\ doing'[q].prog = f
    BY <1>11, <1>17, <2>1 DEF LoadPlaces
  <2>8. f # Nil
    BY ThreeDoers
  <2> QED BY <1>12, <1>14, <2>1, <2>4, <2>5, <2>6, <2>7, <2>8 DEF SlotIs
<1>21. SlotKept(p, s)
  BY <1>3, <1>17, <1>20 DEF SlotKept
<1> QED BY <1>1, <1>15, <1>17, <1>18, <1>19, <1>21, UserStepKeeps

\* A process that uses a slot nobody has locked is inside, when it can be found by.
LEMMA HolderInCore ==
    ASSUME TextInv, Steady, NEW s \in Slots, NEW p, NEW q \in Holders(s, p), "XLOCK" \notin text[s].flag
    PROVE  q \in Users /\ q # p /\ q \in InCore(s)
<1>1. q \in Users /\ q # p /\ textp[q] = s /\ "SLOAD" \in pflag[q] /\ "SLOCK" \notin pflag[q]
  BY DEF Holders
<1>2. UserOK(q, doing[q]) /\ LocksOK /\ q \in Doers
  BY <1>1 DEF TextInv, DoersOK, Doers
<1>3. doing[q].at # "read"
  BY <1>1, <1>2 DEF UserOK, SharePlaces, LocksOK, HoldsSlot, Holding
<1>4. doing[q].at \notin {"xswap", "loadswap", "selftext", "selfimage"}
  BY <1>1, <1>2 DEF UserOK
<1> QED BY <1>1, <1>3, <1>4 DEF InCore

\* What becomes of the slot that p attaches to: p reads the text, goes out for want of core, or
\* shares the text.
Reading(p, s, x, d, g) ==
    /\ text[s].ccount = 0 /\ x.ccount = 0 /\ "XLOCK" \in x.flag
    /\ d.at \in {"read", "xswap"} /\ d.slot = s /\ d.prog = doing[p].prog
    /\ d.at = "read" => x.caddr = p
    /\ d.at = "xswap" => "SLOCK" \in g
    /\ "SLOAD" \in g
    /\ UNCHANGED <<held, asleep>>

Sharing(p, s, x, d, g) ==
    /\ text[s].ccount # 0 /\ x.ccount = text[s].ccount + 1 /\ "XLOCK" \notin x.flag
    /\ (x.caddr # Nil /\ x.caddr = text[s].caddr) \/ x.caddr \in InCore(s)
    /\ Wakes(s) /\ d = Idle /\ Executes(p) /\ "SLOAD" \in g

\* It has one user more.
AttachedKeeps(p, s, x, d, g) ==
    /\ x \in SlotRecs /\ x.iptr = text[s].iptr /\ x.count = text[s].count + 1
    /\ "XLOAD" \notin x.flag
    /\ Reading(p, s, x, d, g) \/ Sharing(p, s, x, d, g)

\* A process that attaches to a text keeps the invariant.
LEMMA AttachedSlot ==
    ASSUME TextInv, Steady, NEW p \in Users, Runs(p), NEW s \in Slots, NEW x, NEW d \in DeedRecs,
           NEW g \in SUBSET {"SLOAD", "SLOCK"}, AttachedKeeps(p, s, x, d, g),
           doing[p].at \in {"search", "attach"}, "XLOCK" \notin text[s].flag,
           text[s].iptr \in Programs, Moves(p, p, s, x, d, s, g), UNCHANGED <<itext, irefs>>
    PROVE  TextInv'
<1>1. TextTypes /\ SlotsOK /\ InodesOK
  BY DEF TextInv
<1>2. /\ p \notin asleep /\ p \in Doers /\ p # Proc0 /\ p \in Lockers
      /\ UserOK(p, doing[p]) /\ doing[p] \in DeedRecs
  BY UserRuns
<1>3. textp[p] = Nil /\ s # Nil /\ text[s].iptr # Nil
  BY <1>2, ThreeDoers DEF UserOK
<1>4. /\ x \in SlotRecs /\ x.iptr = text[s].iptr /\ x.count = text[s].count + 1
      /\ "XLOAD" \notin x.flag
  BY DEF AttachedKeeps
<1>5. /\ Frame(p, p, s) /\ TextTypes' /\ doing'[p] = d /\ text'[s] = x
      /\ textp'[p] = s /\ pflag'[p] = g /\ InsidesKept(p)
      /\ Inside(p)' <=> "SLOAD" \in g /\ d.at \notin {"read", "xswap", "loadswap", "selftext", "selfimage"}
      /\ p \in UsersOf(s)'
      /\ p \in InCore(s)' <=> Inside(p)'
  <2>1. s \in Slots \cup {Nil} /\ x \in SlotRecs
    BY <1>4
  <2>2. UserMoved(p, s, x, d, s, g)
    BY <2>1 DEF UserMoved
  <2> QED BY <2>2, UserMoves
<1>6. p \notin UsersOf(s) /\ p \notin InCore(s)
  BY <1>3 DEF UsersOf, InCore
<1>7. /\ x.count = Cardinality(UsersOf(s)')
      /\ text[s].ccount \in Nat
      /\ p \notin InCore(s)' =>
           InCore(s)' = InCore(s) /\ text[s].ccount = Cardinality(InCore(s)')
      /\ p \in InCore(s)' => text[s].ccount + 1 = Cardinality(InCore(s)')
      /\ InCore(s)' \ {p} = InCore(s) \ {p}
  BY <1>3, <1>4, <1>5, <1>6, SlotCounts
<1>8. SlotIs(s, text[s])
  BY <1>1 DEF SlotsOK
<1>9. CASE Reading(p, s, x, d, g)
  <2>1. /\ text[s].ccount = 0 /\ x.ccount = 0 /\ "XLOCK" \in x.flag
        /\ d.at \in {"read", "xswap"} /\ d.slot = s /\ d.prog = doing[p].prog
        /\ "SLOAD" \in g /\ UNCHANGED <<held, asleep>>
    BY <1>9 DEF Reading
  <2>2. Mutual(p, s, Nil)
    <3>1. LockTaken(p, s)
      BY <1>5, <2>1 DEF LockTaken, Holding
    <3>2. WaitOn(s) /\ ProgramKept(p)
      BY <1>5, <2>1 DEF WaitOn, ProgramKept
    <3>3. FoundSo(p, s)
      BY <1>2, <1>5, <1>9, <2>1 DEF FoundSo, Owner, Reading
    <3> QED BY <1>2, <3>1, <3>2, <3>3 DEF Mutual
  <2>3. UserOK(p, doing[p])'
    BY <1>2, <1>5, <1>9, <2>1 DEF UserOK, UserPlaces, SharePlaces, LoadPlaces, Reading
  <2>4. SlotIs(s, text[s])'
    BY <1>3, <1>4, <1>5, <1>7, <2>1 DEF SlotIs
  <2>5. SlotKept(p, s)
    BY <1>3, <1>5, <2>4 DEF SlotKept
  <2>6. InodesOK'
    <3>1. \A z \in Slots : text'[z].iptr = text[z].iptr
      BY <1>4, <1>5 DEF Frame
    <3> QED BY <1>1, <3>1, InodesKeep
  <2> QED BY <1>5, <2>2, <2>3, <2>5, <2>6, UserStepKeeps
<1>10. CASE Sharing(p, s, x, d, g)
  <2>1. /\ text[s].ccount # 0 /\ x.ccount = text[s].ccount + 1 /\ "XLOCK" \notin x.flag
        /\ Wakes(s) /\ d = Idle /\ Executes(p) /\ "SLOAD" \in g
        /\ (x.caddr # Nil /\ x.caddr = text[s].caddr) \/ x.caddr \in InCore(s)
    BY <1>10 DEF Sharing
  <2>2. ProgramGone(p) /\ Idle.at = "idle" /\ Idle.prog = Nil /\ UserOK(p, Idle)'
    BY <2>1, ExecutesSo
  <2>3. Mutual(p, s, Nil)
    <3>1. LockKept(p, s)
      BY <1>5, <2>1, <2>2 DEF LockKept, Holding
    <3>2. AllWoken(s) /\ FoundSo(p, s)
      BY <1>5, <2>1, <2>2 DEF AllWoken, FoundSo
    <3> QED BY <1>2, <2>2, <3>1, <3>2 DEF Mutual
  <2>4. x.caddr \in InCore(s)'
    <3>1. x.caddr \in InCore(s)
      BY <1>3, <1>7, <1>8, <2>1 DEF SlotIs
    <3> QED BY <1>6, <1>7, <3>1
  <2>5. SlotIs(s, text[s])'
    BY <1>3, <1>4, <1>5, <1>7, <2>1, <2>2, <2>4 DEF SlotIs
  <2>6. SlotKept(p, s)
    BY <1>3, <1>5, <2>5 DEF SlotKept
  <2>7. InodesOK'
    <3>1. \A z \in Slots : text'[z].iptr = text[z].iptr
      BY <1>4, <1>5 DEF Frame
    <3> QED BY <1>1, <3>1, InodesKeep
  <2> QED BY <1>5, <2>1, <2>2, <2>3, <2>6, <2>7, UserStepKeeps
<1> QED BY <1>9, <1>10 DEF AttachedKeeps

\* Nobody reads from its file the text of a program whose inode p has locked.
LEMMA NotToRead ==
    ASSUME TextInv, Steady, NEW p \in Users, NEW s \in Slots, textp[p] = Nil,
           doing[p].prog = text[s].iptr, text[s].iptr \in Programs
    PROVE  "XLOAD" \notin text[s].flag
<1> SUFFICES ASSUME "XLOAD" \in text[s].flag PROVE FALSE
  OBVIOUS
<1>1. SlotIs(s, text[s]) /\ text[s].iptr # Nil /\ ProgramsOK
  BY ThreeDoers DEF TextInv, SlotsOK
<1>2. PICK q \in UsersOf(s) : doing[q].prog = text[s].iptr
  BY <1>1 DEF SlotIs
<1>3. q \in Lockers /\ p \in Lockers /\ q # p
  BY <1>2, ThreeDoers DEF UsersOf, Lockers
<1> QED BY <1>1, <1>2, <1>3 DEF ProgramsOK

\* xalloc attaches to the text of a program that has one.
LEMMA AttachKeeps ==
    ASSUME TextInv, Steady, Steady', NEW p \in Users, NEW s \in Slots, Attach(p, s)
    PROVE  TextInv'
<1>1. /\ Runs(p) /\ doing[p].at \in {"search", "attach"} /\ TextTypes
      /\ doing[p].at = "search" => text[s].iptr = doing[p].prog
      /\ Gets(s, doing[p].prog) /\ textp' = [textp EXCEPT ![p] = s]
      /\ UNCHANGED <<itext, irefs>>
  BY DEF Attach, At, TextInv
<1>2. /\ "SLOAD" \in pflag[p] /\ UserOK(p, doing[p]) /\ doing[p] \in DeedRecs
  BY <1>1, UserRuns
<1>3. textp[p] = Nil /\ doing[p].prog \in Programs
  BY <1>1, <1>2 DEF UserOK
<1>4. "XLOCK" \notin text[s].flag /\ text[s].iptr = doing[p].prog
  BY <1>1 DEF Gets, Steady
<1>5. text[s] \in SlotRecs /\ text[s].iptr \in Programs
  BY <1>1, <1>3, <1>4 DEF TextTypes
<1>6. "XLOAD" \notin text[s].flag
  BY <1>3, <1>4, <1>5, NotToRead
<1>7. PICK y : y = [text[s] EXCEPT !.count = @ + 1]
  OBVIOUS
<1>8. /\ y \in SlotRecs /\ y.iptr = text[s].iptr /\ y.count = text[s].count + 1
      /\ y.ccount = text[s].ccount /\ y.caddr = text[s].caddr /\ y.flag = text[s].flag
  BY <1>5, <1>7 DEF SlotRecs
<1>9. \/ y.ccount = 0 /\ Xexpand(p, s, y) /\ UNCHANGED <<asleep, panicked>>
      \/ y.ccount # 0 /\ Share(s, p, y) /\ Wakes(s) /\ Executes(p) /\ UNCHANGED pflag
  BY <1>7, Zenon DEF Attach
<1>10. PICK z : z = Locked(y)
  OBVIOUS
<1>11. /\ z \in SlotRecs /\ z.iptr = y.iptr /\ z.count = y.count /\ z.ccount = y.ccount
       /\ z.caddr = y.caddr /\ "XLOCK" \in z.flag
       /\ ("XLOAD" \in z.flag <=> "XLOAD" \in y.flag)
  BY <1>8, <1>10, LockRecord
<1>12. "read" \in UserPlaces /\ "xswap" \in UserPlaces
  BY DEF UserPlaces, SharePlaces
<1>13. \A l \in UserPlaces : MovedOn(doing[p], l, s) \in DeedRecs
          /\ MovedOn(doing[p], l, s).at = l /\ MovedOn(doing[p], l, s).slot = s
          /\ MovedOn(doing[p], l, s).prog = doing[p].prog
  BY <1>2, DeedRecord
<1>14. CASE y.ccount = 0 /\ Xexpand(p, s, y) /\ UNCHANGED <<asleep, panicked>>
  <2>1. CASE /\ text' = [text EXCEPT ![s] = FoundBy(Locked(y), p)]
             /\ GoesOn(p, "read", s) /\ UNCHANGED <<pflag, held>>
    <3>1. PICK x : x = FoundBy(z, p)
      OBVIOUS
    <3>2. /\ x \in SlotRecs /\ x.iptr = z.iptr /\ x.count = z.count /\ x.ccount = z.ccount
          /\ x.caddr = p /\ x.flag = z.flag
      BY <1>11, <3>1, FoundRecord
    <3>3. PICK d \in DeedRecs : d = MovedOn(doing[p], "read", s)
      BY <1>12, <1>13
    <3>4. d.at = "read" /\ d.slot = s /\ d.prog = doing[p].prog
      BY <1>12, <1>13, <3>3
    <3>5. PICK g \in SUBSET {"SLOAD", "SLOCK"} : g = pflag[p]
      BY <1>1 DEF TextTypes
    <3>6. AttachedKeeps(p, s, x, d, g)
      BY <1>2, <1>6, <1>8, <1>11, <1>14, <2>1, <3>2, <3>4, <3>5 DEF AttachedKeeps, Reading
    <3>7. doing' = [doing EXCEPT ![p] = d]
      BY <1>1, <2>1, <3>3, GoesIs DEF Doers
    <3>8. Moves(p, p, s, x, d, s, g)
      BY <1>1, <1>10, <1>14, <2>1, <3>1, <3>5, <3>7, SetToItself DEF Moves, TextTypes
    <3> QED BY <1>1, <1>4, <1>5, <3>6, <3>8, AttachedSlot
  <2>2. CASE /\ text' = [text EXCEPT ![s] = Locked(y)]
             /\ GoesOn(p, "xswap", s) /\ pflag' = [pflag EXCEPT ![p] = @ \cup {"SLOCK"}]
             /\ UNCHANGED held
    <3>1. PICK d \in DeedRecs : d = MovedOn(doing[p], "xswap", s)
      BY <1>12, <1>13
    <3>2. d.at = "xswap" /\ d.slot = s /\ d.prog = doing[p].prog
      BY <1>12, <1>13, <3>1
    <3>3. PICK g \in SUBSET {"SLOAD", "SLOCK"} : g = pflag[p] \cup {"SLOCK"}
      BY <1>1 DEF TextTypes
    <3>4. AttachedKeeps(p, s, z, d, g)
      BY <1>2, <1>6, <1>8, <1>11, <1>14, <2>2, <3>2, <3>3 DEF AttachedKeeps, Reading
    <3>5. doing' = [doing EXCEPT ![p] = d]
      BY <1>1, <2>2, <3>1, GoesIs DEF Doers
    <3>6. Moves(p, p, s, z, d, s, g)
      BY <1>1, <1>10, <1>14, <2>2, <3>3, <3>5, SetToItself DEF Moves, TextTypes
    <3> QED BY <1>1, <1>4, <1>5, <3>4, <3>6, AttachedSlot
  <2> QED BY <1>6, <1>8, <1>14, <2>1, <2>2 DEF Xexpand
<1>15. CASE y.ccount # 0 /\ Share(s, p, y) /\ Wakes(s) /\ Executes(p) /\ UNCHANGED pflag
  <2>1. PICK e : e = TextEntered(y)
    OBVIOUS
  <2>2. /\ e \in SlotRecs /\ e.iptr = y.iptr /\ e.count = y.count /\ e.ccount = y.ccount + 1
        /\ e.caddr = y.caddr /\ e.flag = y.flag
    BY <1>8, <2>1, EnteredRecord
  <2>3. PICK x : /\ text' = [text EXCEPT ![s] = x] /\ x \in SlotRecs /\ x.iptr = e.iptr
                 /\ x.count = e.count /\ x.ccount = e.ccount /\ "XLOCK" \notin x.flag
                 /\ ("XLOAD" \in x.flag <=> "XLOAD" \in e.flag)
                 /\ (x.caddr # Nil /\ x.caddr = e.caddr) \/ x.caddr \in InCore(s)
    <3>1. CASE y.caddr # Nil /\ text' = [text EXCEPT ![s] = Unlocked(TextEntered(y))]
      <4>1. PICK x : x = Unlocked(e)
        OBVIOUS
      <4>2. /\ x \in SlotRecs /\ x.iptr = e.iptr /\ x.count = e.count /\ x.ccount = e.ccount
            /\ x.caddr = e.caddr /\ "XLOCK" \notin x.flag
            /\ ("XLOAD" \in x.flag <=> "XLOAD" \in e.flag)
        BY <2>2, <4>1, UnlockRecord
      <4>3. text' = [text EXCEPT ![s] = x] /\ x.caddr # Nil
        BY <2>1, <2>2, <3>1, <4>1, <4>2
      <4> QED BY <4>2, <4>3
    <3>2. CASE \E q \in Holders(s, p) : text' = [text EXCEPT ![s] = Unlocked(FoundBy(TextEntered(y), q))]
      <4>1. PICK q \in Holders(s, p) : text' = [text EXCEPT ![s] = Unlocked(FoundBy(TextEntered(y), q))]
        BY <3>2
      <4>2. q \in Users /\ q \in InCore(s)
        BY <1>4, HolderInCore
      <4>3. PICK h : h = FoundBy(e, q)
        OBVIOUS
      <4>4. /\ h \in SlotRecs /\ h.iptr = e.iptr /\ h.count = e.count /\ h.ccount = e.ccount
            /\ h.caddr = q /\ h.flag = e.flag
        BY <2>2, <4>2, <4>3, FoundRecord
      <4>5. PICK x : x = Unlocked(h)
        OBVIOUS
      <4>6. /\ x \in SlotRecs /\ x.iptr = h.iptr /\ x.count = h.count /\ x.ccount = h.ccount
            /\ x.caddr = h.caddr /\ "XLOCK" \notin x.flag
            /\ ("XLOAD" \in x.flag <=> "XLOAD" \in h.flag)
        BY <4>4, <4>5, UnlockRecord
      <4>7. text' = [text EXCEPT ![s] = x]
        BY <2>1, <4>1, <4>3, <4>5
      <4> QED BY <4>2, <4>4, <4>6, <4>7
    <3>3. ~panicked'
      BY DEF Steady
    <3> QED BY <1>15, <3>1, <3>2, <3>3 DEF Share
  <2>4. PICK g \in SUBSET {"SLOAD", "SLOCK"} : g = pflag[p]
    BY <1>1 DEF TextTypes
  <2>5. /\ held' \subseteq Programs /\ Idle \in DeedRecs /\ doing' = [doing EXCEPT ![p] = Idle]
    BY <1>1, <1>15, ExecutesSo
  <2>6. AttachedKeeps(p, s, x, Idle, g)
    BY <1>2, <1>6, <1>8, <1>15, <2>2, <2>3, <2>4 DEF AttachedKeeps, Sharing
  <2>7. Moves(p, p, s, x, Idle, s, g)
    BY <1>1, <1>15, <2>3, <2>4, <2>5, SetToItself DEF Moves, TextTypes, Wakes
  <2> QED BY <1>1, <1>4, <1>5, <2>5, <2>6, <2>7, AttachedSlot
<1> QED BY <1>9, <1>14, <1>15

\* newproc gives the child its parent's text.
LEMMA ForkTextKeeps ==
    ASSUME TextInv, Steady, Steady', NEW p \in Users, NEW q \in Users, ForkText(p, q)
    PROVE  TextInv'
<1>1. /\ Runs(p) /\ doing[p].at = "idle" /\ doing[q].at = "gone" /\ q \notin asleep
      /\ TextTypes /\ DoersOK /\ SlotsOK /\ InodesOK
      /\ UNCHANGED <<held, itext, irefs, asleep>>
  BY DEF ForkText, At, TextInv
<1>2. /\ "SLOAD" \in pflag[p] /\ UserOK(p, doing[p]) /\ Inside(p)
      /\ textp[p] \in Slots \cup {Nil}
  BY <1>1, UserRuns
<1>3. PICK s \in Slots \cup {Nil} : s = textp[p]
  BY <1>2
<1>4. /\ q \in Doers /\ q # Proc0 /\ q \notin {Unlinker, Unmounter} /\ textp[q] = Nil
      /\ doing[Proc0].at = "idle" \/ Mine # q
  <2>1. UserOK(q, doing[q]) /\ Proc0OK(doing[Proc0])
    BY <1>1 DEF DoersOK
  <2> QED BY <1>1, <2>1, ThreeDoers DEF UserOK, Proc0OK, Mine, Doers
<1>5. PICK x : x = [text[s] EXCEPT !.count = @ + 1, !.ccount = @ + 1]
  OBVIOUS
<1>6. ASSUME s \in Slots
      PROVE  /\ x \in SlotRecs /\ x.iptr = text[s].iptr /\ x.count = text[s].count + 1
             /\ x.ccount = text[s].ccount + 1 /\ x.caddr = text[s].caddr /\ x.flag = text[s].flag
             /\ text[s].iptr # Nil /\ "XLOCK" \notin x.flag /\ "XLOAD" \notin x.flag
             /\ SlotIs(s, text[s]) /\ text[s].ccount # 0
  <2>1. text[s] \in SlotRecs
    BY <1>1, <1>6 DEF TextTypes
  <2>2. /\ x \in SlotRecs /\ x.iptr = text[s].iptr /\ x.count = text[s].count + 1
        /\ x.ccount = text[s].ccount + 1 /\ x.caddr = text[s].caddr /\ x.flag = text[s].flag
    <3>1. PICK y \in SlotRecs : y = text[s]
      BY <2>1
    <3>2. PICK n \in Int, m \in Int : n = y.count + 1 /\ m = y.ccount + 1
      BY DEF SlotRecs
    <3>3. x = [y EXCEPT !.count = n, !.ccount = m]
      BY <1>5, <3>1, <3>2
    <3>4. /\ x \in SlotRecs /\ x.iptr = y.iptr /\ x.count = n /\ x.ccount = m
          /\ x.caddr = y.caddr /\ x.flag = y.flag
      BY <3>3 DEF SlotRecs
    <3> QED BY <3>1, <3>2, <3>4
  <2>3. /\ text[s].iptr # Nil /\ "XLOCK" \notin text[s].flag /\ "XLOAD" \notin text[s].flag
        /\ text[s].ccount # 0
    BY <1>1, <1>2, <1>3, <1>6, UsedSlot, ThreeDoers DEF LoadPlaces
  <2> QED BY <1>1, <1>6, <2>2, <2>3 DEF SlotsOK
<1>7. PICK g \in SUBSET {"SLOAD", "SLOCK"} : g = {"SLOAD"}
  OBVIOUS
<1>8. text' = [text EXCEPT ![s] = x]
  <2>1. CASE s = Nil
    <3>1. s \notin Slots
      BY <2>1, ThreeDoers
    <3>2. text' = text
      BY <1>3, <2>1 DEF ForkText
    <3> QED BY <1>1, <3>1, <3>2 DEF TextTypes
  <2>2. CASE s # Nil
    <3>1. text' = [text EXCEPT ![s].count = @ + 1, ![s].ccount = @ + 1]
      BY <1>3, <2>2 DEF ForkText
    <3>2. s \in Slots /\ text \in [Slots -> SlotRecs]
      BY <1>1, <2>2 DEF TextTypes
    <3> QED BY <1>5, <3>1, <3>2 DEF SlotRecs
  <2> QED BY <2>1, <2>2
<1>9. PICK d : /\ d \in DeedRecs /\ d.at \in {"idle", "mapwait"} /\ d.prog = Nil
               /\ d.at = "mapwait" => d.slot = s
               /\ doing' = [doing EXCEPT ![q] = d]
  <2>1. PICK d : /\ d = Idle \/ d = [at |-> "mapwait", slot |-> s, prog |-> Nil, proc |-> p]
                 /\ doing' = [doing EXCEPT ![q] = d]
    BY <1>3 DEF ForkText
  <2>2. d = Idle => d \in DeedRecs /\ d.at = "idle" /\ d.prog = Nil
    BY DEF Idle, DeedRecs, UserPlaces
  <2>3. d = [at |-> "mapwait", slot |-> s, prog |-> Nil, proc |-> p] =>
          d \in DeedRecs /\ d.at = "mapwait" /\ d.prog = Nil /\ d.slot = s
    BY DEF DeedRecs, UserPlaces
  <2> QED BY <2>1, <2>2, <2>3
<1>10. Moves(q, q, s, x, d, s, g)
  <2>1. /\ textp' = [textp EXCEPT ![q] = s] /\ pflag' = [pflag EXCEPT ![q] = g]
    BY <1>3, <1>7 DEF ForkText
  <2> QED BY <1>1, <1>8, <1>9, <2>1 DEF Moves, TextTypes
<1>11. /\ Frame(q, q, s) /\ TextTypes' /\ doing'[q] = d /\ (s \in Slots => text'[s] = x)
       /\ textp'[q] = s /\ pflag'[q] = g
  <2>1. s \in Slots => x \in SlotRecs
    BY <1>6
  <2>2. q \in Doers /\ q \in Users \cup {Nil} /\ TextTypes
    BY <1>1, <1>4
  <2>3. PICK e \in DeedRecs : e = d
    BY <1>9
  <2>4. Moves(q, q, s, x, e, s, g)
    BY <1>10, <2>3
  <2>5. /\ Frame(q, q, s) /\ TextTypes' /\ doing'[q] = e /\ (s \in Slots => text'[s] = x)
        /\ textp'[q] = s /\ pflag'[q] = g
    BY <2>1, <2>2, <2>4, MovesSo
  <2> QED BY <2>3, <2>5
<1>12. InsidesKept(q) /\ Inside(q)'
  <2>1. InsidesKept(q)
    BY <1>4, <1>11, OthersInside
  <2> QED BY <1>7, <1>9, <1>11, <2>1 DEF Inside
<1>13. Mutual(q, s, Nil)
  <2>1. LockKept(q, s)
    BY <1>1, <1>6, <1>9, <1>11 DEF LockKept, Holding
  <2>2. WaitOn(s)
    BY <1>1, <1>6, <1>11 DEF WaitOn
  <2>3. FoundSo(q, s)
    BY <1>6, <1>9, <1>11 DEF FoundSo
  <2>4. ProgramKept(q)
    BY <1>1, <1>9, <1>11 DEF ProgramKept
  <2> QED BY <1>1, <2>1, <2>2, <2>3, <2>4 DEF Mutual
<1>14. UserOK(q, doing[q])'
  BY <1>9, <1>11 DEF UserOK, UserPlaces, SharePlaces, LoadPlaces
<1>15. Places(q, q)
  BY <1>4, <1>14 DEF Places
<1>16. SlotKept(q, s)
  <2> SUFFICES ASSUME s \in Slots PROVE SlotIs(s, text[s])'
    BY <1>4, <1>11 DEF SlotKept
  <2>1. /\ x.iptr = text[s].iptr /\ x.count = text[s].count + 1 /\ text[s].iptr # Nil
        /\ x.ccount = text[s].ccount + 1 /\ x.caddr = text[s].caddr
        /\ "XLOCK" \notin x.flag /\ "XLOAD" \notin x.flag
        /\ SlotIs(s, text[s]) /\ text'[s] = x
    BY <1>6, <1>11
  <2>2. p \in Users /\ s # Nil
    BY ThreeDoers
  <2>3. q \notin UsersOf(s) /\ q \notin InCore(s)
    BY <1>4, <2>2 DEF UsersOf, InCore
  <2>4. q \in UsersOf(s)' /\ q \in InCore(s)'
    BY <1>11, <1>12, UsersMove
  <2>5. /\ x.count = Cardinality(UsersOf(s)') /\ x.ccount = Cardinality(InCore(s)')
        /\ text[s].ccount \in Nat /\ InCore(s)' \ {q} = InCore(s) \ {q}
    BY <1>11, <1>12, <2>1, <2>3, <2>4, SlotCounts
  <2>6. text[s].ccount # 0
    BY <1>6
  <2>7. x.caddr # Nil => x.caddr \in InCore(s)'
    BY <2>1, <2>3, <2>5, <2>6 DEF SlotIs
  <2> QED BY <2>1, <2>5, <2>7 DEF SlotIs
<1>17. InodesOK'
  <2>1. \A z \in Slots : text'[z].iptr = text[z].iptr
    BY <1>6, <1>11 DEF Frame
  <2> QED BY <1>1, <2>1, InodesKeep
<1> QED BY <1>11, <1>13, <1>15, <1>16, <1>17, TextStepKeeps

\* A step of a process that changes where it is and its flags alone.
Alone(p, d, g) ==
    /\ doing' = [doing EXCEPT ![p] = d] /\ pflag' = [pflag EXCEPT ![p] = g]
    /\ UNCHANGED <<text, textp, held, itext, irefs, asleep>>
    /\ {doing[p].at, d.at} \cap (Holding \cup LoadPlaces) = {} /\ d.prog \in {doing[p].prog, Nil}
    /\ UserOK(p, doing[p])'

\* It keeps the invariant, when no text is left in core or out by it.
LEMMA AloneKeeps ==
    ASSUME TextInv, Steady, NEW p \in Users, Runs(p), NEW d \in DeedRecs,
           NEW g \in SUBSET {"SLOAD", "SLOCK"}, Alone(p, d, g),
           textp[p] = Nil \/ (Inside(p)' <=> Inside(p))
    PROVE  TextInv'
<1>1. TextTypes /\ SlotsOK /\ InodesOK /\ p \in Doers /\ p \notin asleep
  BY DEF TextInv, Doers, Runs
<1>2. PICK s \in Slots \cup {Nil} : s = textp[p]
  BY <1>1 DEF TextTypes
<1>3. PICK x : x = text[s]
  OBVIOUS
<1>4. s \in Slots => x \in SlotRecs
  BY <1>1, <1>3 DEF TextTypes
<1>5. UserMoved(p, s, x, d, s, g)
  <2>1. Moves(p, p, s, x, d, s, g)
    BY <1>1, <1>2, <1>3, SetToItself DEF Moves, Alone, TextTypes
  <2> QED BY <1>4, <2>1 DEF UserMoved
<1>6. /\ Frame(p, p, s) /\ TextTypes' /\ doing'[p] = d /\ textp'[p] = s /\ InsidesKept(p)
  BY <1>5, UserMoves
<1>7. Mutual(p, s, Nil)
  <2>1. LockKept(p, s) /\ WaitOn(s)
    BY <1>6 DEF Alone, LockKept, WaitOn
  <2>2. ProgramKept(p) /\ FoundSo(p, s)
    BY <1>6 DEF Alone, ProgramKept, FoundSo, Holding
  <2> QED BY <1>1, <2>1, <2>2 DEF Mutual
<1>8. SlotKept(p, s)
  <2> SUFFICES ASSUME s \in Slots PROVE SlotIs(s, text[s])'
    BY <1>2, <1>6 DEF SlotKept
  <2>1. UsersOf(s)' = UsersOf(s) /\ InCore(s)' = InCore(s)
    BY <1>2, <1>6, SetsStay, ThreeDoers
  <2>2. \A q \in UsersOf(s) : q # p => doing'[q] = doing[q]
    BY <1>6 DEF Frame, UsersOf, Doers
  <2>3. doing[p].at \notin LoadPlaces
    BY DEF Alone
  <2>4. SlotStays(s)
    BY <2>1, <2>2, <2>3 DEF SlotStays, Alone
  <2> QED BY <1>1, <2>4, SlotStaysSo DEF SlotsOK
<1>9. InodesOK'
  BY <1>1, InodesKeep DEF Alone
<1>10. UserOK(p, doing[p])'
  BY DEF Alone
<1> QED BY <1>6, <1>7, <1>8, <1>9, <1>10, UserStepKeeps

\* expand finds no core: the process is to leave it.
LEMMA ExpandTextKeeps ==
    ASSUME TextInv, Steady, Steady', NEW p \in Users, ExpandText(p)
    PROVE  TextInv'
<1>1. /\ Runs(p) /\ doing[p].at = "idle" /\ TextTypes
      /\ UNCHANGED <<text, pflag, textp, held, itext, irefs, asleep>>
  BY DEF ExpandText, At, TextInv
<1>2. /\ p \in Doers /\ UserOK(p, doing[p]) /\ doing[p] \in DeedRecs /\ Inside(p)
      /\ textp[p] \in Slots \cup {Nil} /\ "SLOAD" \in pflag[p]
  BY <1>1, UserRuns
<1>3. PICK s \in Slots \cup {Nil} : s = textp[p]
  BY <1>2
<1>4. PICK d : d = [Idle EXCEPT !.at = "mapwait", !.slot = s]
  OBVIOUS
<1>5. d \in DeedRecs /\ d.at = "mapwait" /\ d.slot = s /\ d.prog = Nil
  BY <1>4 DEF Idle, DeedRecs, UserPlaces
<1>6. doing' = [doing EXCEPT ![p] = d]
  BY <1>3, <1>4 DEF ExpandText
<1>7. PICK g \in SUBSET {"SLOAD", "SLOCK"} : g = pflag[p]
  BY <1>1 DEF TextTypes
<1>8. pflag' = [pflag EXCEPT ![p] = g]
  BY <1>1, <1>7, SetToItself
<1>9. doing'[p] = d /\ textp'[p] = s /\ pflag'[p] = g
  BY <1>1, <1>2, <1>3, <1>5, <1>6, <1>7 DEF TextTypes
<1>10. UserOK(p, doing[p])'
  BY <1>5, <1>9 DEF UserOK, UserPlaces, SharePlaces, LoadPlaces
<1>11. Alone(p, d, g)
  BY <1>1, <1>5, <1>6, <1>8, <1>10 DEF Alone, Holding, LoadPlaces
<1>12. Inside(p)'
  BY <1>2, <1>5, <1>7, <1>9 DEF Inside
<1> QED BY <1>1, <1>2, <1>5, <1>11, <1>12, AloneKeeps

\* The image of a process is written: it is out of core.
LEMMA XswapImageKeeps ==
    ASSUME TextInv, Steady, Steady', NEW p \in Users, XswapImage(p)
    PROVE  TextInv'
<1>1. /\ Runs(p) /\ doing[p].at = "selfimage" /\ TextTypes
      /\ UNCHANGED <<text, textp, held, itext, irefs, asleep>>
      /\ doing' = [doing EXCEPT ![p] = Idle]
  BY DEF XswapImage, At, TextInv
<1>2. /\ p \in Doers /\ ~Inside(p) /\ textp[p] \in Slots \cup {Nil}
  BY <1>1, UserRuns
<1>3. PICK d : d = Idle
  OBVIOUS
<1>4. d \in DeedRecs /\ d.at = "idle" /\ d.prog = Nil
  BY <1>3 DEF Idle, DeedRecs, UserPlaces
<1>5. PICK g \in SUBSET {"SLOAD", "SLOCK"} : g = {}
  OBVIOUS
<1>6. doing' = [doing EXCEPT ![p] = d] /\ pflag' = [pflag EXCEPT ![p] = g]
  BY <1>1, <1>3, <1>5 DEF XswapImage
<1>7. doing'[p] = d /\ pflag'[p] = g
  BY <1>1, <1>2, <1>6 DEF TextTypes
<1>8. UserOK(p, doing[p])'
  BY <1>4, <1>7 DEF UserOK, UserPlaces, SharePlaces, LoadPlaces
<1>9. Alone(p, d, g)
  BY <1>1, <1>4, <1>6, <1>8 DEF Alone, Holding, LoadPlaces
<1>10. ~Inside(p)'
  <2>1. UserMoved(p, Nil, Nil, d, textp[p], g)
    <3>1. Moves(p, p, Nil, Nil, d, textp[p], g)
      <4>1. text' = [text EXCEPT ![Nil] = Nil]
        BY <1>1, ThreeDoers DEF TextTypes
      <4> QED BY <1>1, <1>6, <4>1, SetToItself DEF Moves, TextTypes
    <3> QED BY <1>1, <1>2, <1>4, <3>1, ThreeDoers DEF UserMoved
  <2>2. Inside(p)' <=>
          "SLOAD" \in g /\ d.at \notin {"read", "xswap", "loadswap", "selftext", "selfimage"}
    BY <2>1, UserMoves
  <2> QED BY <1>5, <2>2
<1> QED BY <1>1, <1>2, <1>4, <1>9, <1>10, AloneKeeps

\* xswap of one's own process: it counts itself out of its text.
LEMMA XswapFirstKeeps ==
    ASSUME TextInv, Steady, Steady', NEW p \in Users, XswapFirst(p)
    PROVE  TextInv'
<1>1. /\ Runs(p) /\ doing[p].at = "mapwait" /\ TextTypes /\ SlotsOK /\ InodesOK
      /\ UNCHANGED <<textp, held, itext, irefs>>
  BY DEF XswapFirst, At, TextInv
<1>2. /\ p \notin asleep /\ "SLOAD" \in pflag[p] /\ p \in Doers /\ p \in Lockers
      /\ UserOK(p, doing[p]) /\ doing[p] \in DeedRecs /\ Inside(p)
  BY <1>1, UserRuns
<1>3. PICK s \in Slots \cup {Nil} : s = doing[p].slot /\ s = textp[p]
  BY <1>1, <1>2 DEF UserOK, DeedRecs
<1>4. PICK g \in SUBSET {"SLOAD", "SLOCK"} : g = pflag[p] \cup {"SLOCK"}
  BY <1>1 DEF TextTypes
<1>5. pflag' = [pflag EXCEPT ![p] = g]
  BY <1>4 DEF XswapFirst
<1>6. PICK o : o = MovedTo(doing[p], "selfimage")
  OBVIOUS
<1>7. o \in DeedRecs /\ o.at = "selfimage" /\ o.slot = s /\ o.prog = doing[p].prog
  <2>1. PICK l \in UserPlaces \cup Proc0Places : l = "selfimage"
    BY DEF UserPlaces
  <2>2. o = MovedTo(doing[p], l) /\ doing[p] \in DeedRecs
    BY <1>2, <1>6, <2>1
  <2>3. o \in DeedRecs /\ o.at = l /\ o.prog = doing[p].prog /\ o.slot = doing[p].slot
    BY <2>1, <2>2, MovedRecord
  <2> QED BY <1>3, <2>1, <2>3
<1>8. Goes(p, "selfimage") => doing' = [doing EXCEPT ![p] = o]
  BY <1>1, <1>2, <1>6, GoesIs
<1>9. CASE s = Nil
  <2>1. doing' = [doing EXCEPT ![p] = o] /\ UNCHANGED <<text, asleep>>
    BY <1>3, <1>8, <1>9 DEF XswapFirst
  <2>2. doing'[p] = o /\ textp'[p] = s /\ pflag'[p] = g
    BY <1>1, <1>2, <1>3, <1>5, <2>1 DEF TextTypes
  <2>3. UserOK(p, doing[p])'
    BY <1>2, <1>4, <1>7, <2>2 DEF UserOK, UserPlaces, SharePlaces, LoadPlaces
  <2>4. Alone(p, o, g)
    BY <1>1, <1>5, <1>7, <2>1, <2>3 DEF Alone, Holding, LoadPlaces
  <2> QED BY <1>1, <1>3, <1>7, <1>9, <2>4, AloneKeeps
<1>10. CASE s # Nil
  <2>1. s \in Slots /\ "XLOCK" \notin text[s].flag
    BY <1>2, <1>3, <1>10, UsedSlot
  <2>2. PICK y : y = text[s]
    OBVIOUS
  <2>3. PICK n : n = y.ccount
    OBVIOUS
  <2>4. /\ y \in SlotRecs /\ y.iptr \in Programs /\ p \in InCore(s) /\ p \in UsersOf(s)
        /\ n \in Int /\ n # 0 /\ "XLOAD" \notin y.flag
    BY <1>1, <1>2, <1>3, <2>1, <2>2, <2>3, UsedSlot DEF LoadPlaces, TextTypes, SlotRecs
  <2>5. PICK w : w = MovedTo(doing[p], "selftext")
    OBVIOUS
  <2>6. w \in DeedRecs /\ w.at = "selftext" /\ w.slot = s /\ w.prog = doing[p].prog
    <3>1. PICK l \in UserPlaces \cup Proc0Places : l = "selftext"
      BY DEF UserPlaces
    <3>2. w = MovedTo(doing[p], l) /\ doing[p] \in DeedRecs
      BY <1>2, <2>5, <3>1
    <3>3. /\ w \in DeedRecs /\ w.at = l /\ w.prog = doing[p].prog /\ w.slot = doing[p].slot
      BY <3>1, <3>2, MovedRecord
    <3> QED BY <1>3, <3>1, <3>3
  <2>7. Goes(p, "selftext") => doing' = [doing EXCEPT ![p] = w]
    BY <1>1, <1>2, <2>5, GoesIs
  <2>8. Xccdec(p, p, y, "selftext", Goes(p, "selfimage"))
    BY <1>3, <1>10, <2>2 DEF XswapFirst, TextSlot
  <2>9. \/ /\ MustWrite(y) /\ doing' = [doing EXCEPT ![p] = w] /\ UNCHANGED asleep
           /\ text' = [text EXCEPT ![s] = [Locked(y) EXCEPT !.ccount = 0, !.flag = @ \ {"XWRIT"}]]
        \/ /\ ~MustWrite(y) /\ doing' = [doing EXCEPT ![p] = o] /\ Wakes(s)
           /\ text' = [text EXCEPT ![s] = Unlocked(LeftBy(y, p))]
    BY <1>3, <1>8, <2>3, <2>4, <2>7, <2>8 DEF Xccdec
  <2>10. PICK d, x : /\ doing' = [doing EXCEPT ![p] = d] /\ text' = [text EXCEPT ![s] = x]
                     /\ \/ MustWrite(y) /\ d = w /\ UNCHANGED asleep /\ x = ToWrite(y)
                        \/ ~MustWrite(y) /\ d = o /\ Wakes(s) /\ x = Unlocked(LeftBy(y, p))
    BY <2>9 DEF ToWrite
  <2>11. /\ x \in SlotRecs /\ x.iptr = y.iptr /\ x.count = y.count
         /\ x.ccount = n - 1 /\ x.caddr \in {y.caddr, Nil} /\ "XLOAD" \notin x.flag
         /\ MustWrite(y) => "XLOCK" \in x.flag /\ x.ccount = 0
         /\ ~MustWrite(y) => "XLOCK" \notin x.flag /\ x.caddr # p
    <3>1. CASE MustWrite(y)
      <4>1. n = 1
        BY <2>3, <3>1 DEF MustWrite
      <4>2. x = ToWrite(y)
        BY <2>10, <3>1
      <4>3. /\ x \in SlotRecs /\ x.iptr = y.iptr /\ x.count = y.count /\ x.ccount = 0
            /\ x.caddr = y.caddr /\ "XLOCK" \in x.flag
            /\ ("XLOAD" \in x.flag <=> "XLOAD" \in y.flag)
        BY <2>4, <4>2, WriteRecord
      <4> QED BY <2>4, <3>1, <4>1, <4>3
    <3>2. CASE ~MustWrite(y)
      <4>1. x = Unlocked(LeftBy(y, p))
        BY <2>10, <3>2
      <4> QED BY <2>3, <2>4, <3>2, <4>1, LeftRecord
    <3> QED BY <3>1, <3>2
  <2>12. d \in DeedRecs /\ d.at \in {"selftext", "selfimage"} /\ d.slot = s /\ d.prog = doing[p].prog
    BY <1>7, <2>6, <2>10
  <2>13. Moves(p, p, s, x, d, s, g)
    <3>1. asleep' \subseteq Doers
      BY <1>1, <2>10 DEF TextTypes, Wakes
    <3> QED BY <1>1, <1>3, <1>5, <2>10, <3>1, SetToItself DEF Moves, TextTypes
  <2>14. /\ Frame(p, p, s) /\ TextTypes' /\ doing'[p] = d /\ text'[s] = x
         /\ textp'[p] = s /\ pflag'[p] = g /\ InsidesKept(p) /\ ~Inside(p)'
         /\ p \in UsersOf(s)' /\ p \notin InCore(s)'
    <3>1. UserMoved(p, s, x, d, s, g)
      BY <1>1, <2>1, <2>11, <2>12, <2>13 DEF UserMoved
    <3> QED BY <2>1, <2>12, <3>1, UserMoves
  <2>15. UserOK(p, doing[p])'
    BY <1>2, <1>4, <2>1, <2>12, <2>14 DEF UserOK, UserPlaces, SharePlaces, LoadPlaces
  <2>16. /\ y.count = Cardinality(UsersOf(s)') /\ n - 1 = Cardinality(InCore(s)')
         /\ InCore(s)' \ {p} = InCore(s) \ {p} /\ UsersOf(s)' = UsersOf(s)
    BY <2>1, <2>2, <2>3, <2>4, <2>14, SlotCounts, ThreeDoers
  <2>17. SlotIs(s, text[s])'
    <3>1. SlotIs(s, y) /\ y.iptr # Nil
      BY <1>1, <2>1, <2>2, <2>4, ThreeDoers DEF SlotsOK
    <3>2. x.ccount > 0 => ~MustWrite(y) /\ n > 0
      BY <2>4, <2>11
    <3>3. x.ccount > 0 /\ x.caddr # Nil => x.caddr \in InCore(s)'
      <4> SUFFICES ASSUME x.ccount > 0, x.caddr # Nil PROVE x.caddr \in InCore(s)'
        OBVIOUS
      <4>1. x.caddr # p /\ x.caddr = y.caddr /\ y.ccount > 0
        BY <2>3, <2>11, <3>2
      <4>2. x.caddr \in InCore(s)
        BY <3>1, <4>1 DEF SlotIs
      <4> QED BY <2>16, <4>1, <4>2
    <3> QED BY <2>4, <2>11, <2>14, <2>16, <3>1, <3>3 DEF SlotIs
  <2>18. Mutual(p, s, Nil)
    <3>1. LockKept(p, s) \/ LockTaken(p, s)
      <4>1. CASE MustWrite(y)
        <5>1. d = w
          BY <2>10, <4>1
        <5> QED BY <1>1, <2>1, <2>6, <2>11, <2>14, <4>1, <5>1 DEF LockTaken, Holding
      <4>2. CASE ~MustWrite(y)
        <5>1. d = o
          BY <2>10, <4>2
        <5> QED BY <1>1, <1>7, <2>1, <2>11, <2>14, <4>2, <5>1 DEF LockKept, Holding
      <4> QED BY <4>1, <4>2
    <3>2. WaitOn(s) \/ AllWoken(s)
      BY <2>1, <2>10 DEF WaitOn, AllWoken
    <3>3. ProgramKept(p) /\ FoundSo(p, s)
      BY <1>1, <2>1, <2>12, <2>14 DEF ProgramKept, FoundSo
    <3> QED BY <1>2, <3>1, <3>2, <3>3 DEF Mutual
  <2>19. SlotKept(p, s)
    BY <1>3, <2>14, <2>17 DEF SlotKept
  <2>20. InodesOK'
    BY <1>1, <2>2, <2>11, <2>14, InodesKeep DEF Frame
  <2> QED BY <1>1, <2>1, <2>14, <2>15, <2>18, <2>19, <2>20, UserStepKeeps
<1> QED BY <1>9, <1>10

\* The last one in core has left its text, which is written.
LEMMA XswapTextKeeps ==
    ASSUME TextInv, Steady, Steady', NEW p \in Users, XswapText(p)
    PROVE  TextInv'
<1>1. /\ Runs(p) /\ doing[p].at = "selftext" /\ TextTypes /\ SlotsOK /\ InodesOK /\ LocksOK
  BY DEF XswapText, At, TextInv
<1>2. /\ p \notin asleep /\ "SLOAD" \in pflag[p] /\ p \in Doers /\ p \in Lockers
      /\ UserOK(p, doing[p]) /\ doing[p] \in DeedRecs /\ ~Inside(p)
  BY <1>1, UserRuns
<1>3. PICK s \in Slots : s = doing[p].slot /\ s = textp[p]
  BY <1>1, <1>2 DEF UserOK
<1>4. HoldsSlot(p, s) /\ "XLOCK" \in text[s].flag
  BY <1>1, <1>2, <1>3 DEF HoldsSlot, Holding, LocksOK
<1>5. SlotIs(s, text[s]) /\ text[s] \in SlotRecs /\ text[s].ccount = 0 /\ text[s].iptr # Nil
  BY <1>1, <1>4 DEF SlotsOK, SlotIs, TextTypes
<1>6. PICK d : d = MovedTo(doing[p], "selfimage")
  OBVIOUS
<1>7. d \in DeedRecs /\ d.at = "selfimage" /\ d.slot = s /\ d.prog = doing[p].prog
  <2>1. PICK l \in UserPlaces \cup Proc0Places : l = "selfimage"
    BY DEF UserPlaces
  <2>2. d = MovedTo(doing[p], l) /\ doing[p] \in DeedRecs
    BY <1>2, <1>6, <2>1
  <2>3. d \in DeedRecs /\ d.at = l /\ d.prog = doing[p].prog /\ d.slot = doing[p].slot
    BY <2>1, <2>2, MovedRecord
  <2> QED BY <1>3, <2>1, <2>3
<1>8. doing' = [doing EXCEPT ![p] = d]
  BY <1>1, <1>2, <1>6, GoesIs DEF XswapText
<1>9. PICK c : c = IF text[s].caddr = p THEN Nil ELSE text[s].caddr
  OBVIOUS
<1>10. c \in Users \cup {Nil}
  BY <1>5, <1>9 DEF SlotRecs
<1>11. PICK y : y = CoreOf(text[s], text[s].ccount, c)
  OBVIOUS
<1>12. /\ y \in SlotRecs /\ y.iptr = text[s].iptr /\ y.count = text[s].count
       /\ y.ccount = text[s].ccount /\ y.flag = text[s].flag
  <2>1. text[s].ccount \in Int
    BY <1>5 DEF SlotRecs
  <2> QED BY <1>5, <1>10, <1>11, <2>1, CoreRecord
<1>13. y = [text[s] EXCEPT !.caddr = c]
  BY <1>5, <1>11, SameCore, Zenon
<1>14. PICK x : x = Unlocked(y)
  OBVIOUS
<1>15. /\ x \in SlotRecs /\ x.iptr = text[s].iptr /\ x.count = text[s].count
       /\ x.ccount = text[s].ccount /\ "XLOCK" \notin x.flag
       /\ ("XLOAD" \in x.flag <=> "XLOAD" \in text[s].flag)
  BY <1>12, <1>14, UnlockRecord
<1>16. /\ text' = [text EXCEPT ![s] = x] /\ Wakes(s)
       /\ UNCHANGED <<pflag, textp, held, itext, irefs>>
  <2>1. NotFoundBy(text[s], p) = y
    BY <1>9, <1>13, Zenon DEF NotFoundBy
  <2>2. text' = [text EXCEPT ![s] = Unlocked(NotFoundBy(@, p))]
    BY <1>3, Zenon DEF XswapText, Written
  <2>3. text' = [text EXCEPT ![s] = x]
    BY <1>14, <2>1, <2>2, Zenon
  <2> QED BY <1>3, <2>3 DEF XswapText, Written
<1>17. PICK g \in SUBSET {"SLOAD", "SLOCK"} : g = pflag[p]
  BY <1>1 DEF TextTypes
<1>18. UserMoved(p, s, x, d, s, g)
  <2>1. Moves(p, p, s, x, d, s, g)
    BY <1>1, <1>3, <1>8, <1>16, <1>17, SetToItself DEF Moves, TextTypes, Wakes
  <2> QED BY <1>1, <1>7, <1>15, <2>1 DEF UserMoved
<1>19. /\ Frame(p, p, s) /\ TextTypes' /\ doing'[p] = d /\ text'[s] = x
       /\ textp'[p] = s /\ pflag'[p] = g /\ InsidesKept(p) /\ ~Inside(p)'
  BY <1>7, <1>18, UserMoves
<1>20. Mutual(p, s, Nil)
  <2>1. LockGiven(p, s)
    BY <1>1, <1>3, <1>7, <1>15, <1>19 DEF LockGiven, Holding
  <2>2. AllWoken(s) /\ ProgramKept(p)
    BY <1>7, <1>16, <1>19 DEF AllWoken, ProgramKept
  <2>3. FoundSo(p, s)
    BY <1>4, <1>7, <1>19 DEF FoundSo
  <2> QED BY <1>2, <2>1, <2>2, <2>3 DEF Mutual
<1>21. UserOK(p, doing[p])'
  BY <1>1, <1>2, <1>7, <1>17, <1>19 DEF UserOK, UserPlaces, SharePlaces, LoadPlaces
<1>22. SlotKept(p, s)
  <2>1. UsersOf(s)' = UsersOf(s) /\ InCore(s)' = InCore(s)
    BY <1>2, <1>3, <1>19, SetsStay
  <2>2. \A q \in UsersOf(s) : q # p => doing'[q] = doing[q]
    BY <1>19 DEF Frame, UsersOf, Doers
  <2>3. doing[p].at \notin LoadPlaces
    BY <1>1 DEF LoadPlaces
  <2>4. SlotStays(s)
    BY <1>5, <1>15, <1>19, <2>1, <2>2, <2>3 DEF SlotStays
  <2> QED BY <1>3, <1>5, <1>19, <2>4, SlotStaysSo DEF SlotKept
<1>23. InodesOK'
  BY <1>1, <1>15, <1>16, <1>19, InodesKeep DEF Frame
<1> QED BY <1>1, <1>19, <1>20, <1>21, <1>22, <1>23, UserStepKeeps

----------------------------------------------------------------------------
(* The steps of process 0 *)

\* Process 0 goes on with process p, which does not run from then on but when it is in core.
Sched(p, s, d, g) ==
    /\ Proc0 \notin asleep
    /\ doing[Proc0].at = "idle" \/ Mine = p
    /\ d.at \in Proc0Places
    /\ d.at # "idle" => d.proc = p /\ "SLOAD" \notin g /\ doing[p].at # "gone"
    /\ d.at \in {"swapin", "textin", "swapout", "textout"} => d.slot = s /\ s \in Slots
    /\ doing[p].at \notin {"read", "xswap", "loadswap", "selftext", "selfimage"}
    /\ s = textp[p]
    /\ UNCHANGED <<held, itext, irefs>>

SchedStep(p, s, x, d, g) ==
    /\ p \in Users /\ s \in Slots \cup {Nil} /\ (s \in Slots => x \in SlotRecs)
    /\ d \in DeedRecs /\ g \in SUBSET {"SLOAD", "SLOCK"}
    /\ Sched(p, s, d, g) /\ Moves(Proc0, p, s, x, d, s, g)

\* What such a step changes.
LEMMA SchedMoves ==
    ASSUME TextInv, Steady, NEW p, NEW s, NEW x, NEW d, NEW g, SchedStep(p, s, x, d, g)
    PROVE  /\ Frame(Proc0, p, s) /\ TextTypes' /\ doing'[Proc0] = d /\ doing'[p] = doing[p]
           /\ (s \in Slots => text'[s] = x) /\ textp'[p] = s /\ pflag'[p] = g
           /\ InsidesKept(p) /\ UsersOf(s)' = UsersOf(s) /\ p \in UsersOf(s)
           /\ p \in InCore(s)' <=> Inside(p)'
           /\ p \in InCore(s) <=> Inside(p)
           /\ Inside(p)' <=> "SLOAD" \in g \/ d.at \in {"image", "swapout"}
           /\ Inside(p) <=> "SLOAD" \in pflag[p] \/ doing[Proc0].at \in {"image", "swapout"}
<1> USE DEF SchedStep
<1>1. Proc0 \in Doers /\ Proc0 \notin Users /\ p \in Doers /\ p # Proc0 /\ TextTypes
  BY ThreeDoers DEF Doers, TextInv
<1>2. /\ Frame(Proc0, p, s) /\ TextTypes' /\ doing'[Proc0] = d /\ (s \in Slots => text'[s] = x)
      /\ textp'[p] = s /\ pflag'[p] = g
  BY <1>1, MovesSo
<1>3. doing'[p] = doing[p]
  BY <1>1, <1>2 DEF Frame
<1>4. InsidesKept(p)
  BY <1>2, OthersInside DEF Sched, Mine, Proc0Places
<1>5. textp[p] = s /\ p \in UsersOf(s)
  BY DEF UsersOf, Sched
<1>6. /\ UsersOf(s)' \ {p} = UsersOf(s) \ {p} /\ p \in UsersOf(s)'
      /\ p \in InCore(s)' <=> Inside(p)'
      /\ p \in InCore(s) <=> Inside(p)
  BY <1>2, <1>4, <1>5, UsersMove
<1>7. UsersOf(s)' = UsersOf(s)
  BY <1>5, <1>6
<1>8. Inside(p)' <=> "SLOAD" \in g \/ d.at \in {"image", "swapout"}
  BY <1>2, <1>3 DEF Inside, Mine, Sched
<1>9. Inside(p) <=> "SLOAD" \in pflag[p] \/ doing[Proc0].at \in {"image", "swapout"}
  BY DEF Inside, Sched
<1> QED BY <1>2, <1>3, <1>4, <1>5, <1>6, <1>7, <1>8, <1>9

\* What it makes of the slot.
CoreChange(p, s, x) ==
    /\ x.iptr = text[s].iptr /\ x.count = text[s].count
    /\ "XLOAD" \in x.flag => "XLOAD" \in text[s].flag
    /\ "XLOCK" \in x.flag => x.ccount = 0
    /\ (Inside(p)' <=> Inside(p)) => x.ccount = text[s].ccount
    /\ Inside(p)' /\ ~Inside(p) => x.ccount = text[s].ccount + 1
    /\ ~Inside(p)' /\ Inside(p) => x.ccount = text[s].ccount - 1
    /\ \/ x.ccount = 0
       \/ x.caddr = Nil
       \/ x.caddr = p /\ Inside(p)'
       \/ x.caddr # p /\ x.caddr = text[s].caddr /\ text[s].ccount # 0
       \/ x.caddr # p /\ x.caddr \in InCore(s)

\* It keeps the invariant.
LEMMA SchedKeeps ==
    ASSUME TextInv, Steady, NEW p \in Users, NEW s \in Slots \cup {Nil}, NEW x,
           s \in Slots => x \in SlotRecs, NEW d \in DeedRecs, NEW g \in SUBSET {"SLOAD", "SLOCK"},
           Sched(p, s, d, g), Moves(Proc0, p, s, x, d, s, g),
           LockKept(Proc0, s) \/ LockTaken(Proc0, s) \/ LockGiven(Proc0, s),
           AllWoken(s) \/ WaitOn(s), FoundSo(Proc0, s), s \in Slots => CoreChange(p, s, x)
    PROVE  TextInv'
<1>1. TextTypes /\ DoersOK /\ SlotsOK /\ InodesOK
  BY DEF TextInv
<1>2. /\ Frame(Proc0, p, s) /\ TextTypes' /\ doing'[Proc0] = d /\ doing'[p] = doing[p]
      /\ (s \in Slots => text'[s] = x) /\ textp'[p] = s /\ pflag'[p] = g
      /\ InsidesKept(p) /\ UsersOf(s)' = UsersOf(s) /\ p \in UsersOf(s)
      /\ p \in InCore(s)' <=> Inside(p)'
      /\ p \in InCore(s) <=> Inside(p)
  <2>1. SchedStep(p, s, x, d, g)
    BY DEF SchedStep
  <2> QED BY <2>1, SchedMoves
<1>3. Mutual(Proc0, s, Nil)
  <2>1. Proc0 \notin Lockers
    BY ThreeDoers DEF Lockers
  <2> QED BY <2>1 DEF Mutual, ProgramKept, Sched
<1>4. UserOK(p, doing[p])'
  <2>1. UserOK(p, doing[p]) /\ textp[p] = s
    BY <1>1 DEF DoersOK, Sched
  <2> QED BY <1>2, <2>1 DEF UserOK, Sched
<1>5. Proc0OK(doing[Proc0])'
  BY <1>2 DEF Proc0OK, Sched
<1>6. Places(Proc0, p)
  BY <1>2, <1>4, <1>5, ThreeDoers DEF Places, Sched, Mine
<1>7. ASSUME s \in Slots PROVE SlotIs(s, text[s])'
  <2>1. SlotIs(s, text[s]) /\ text[s].iptr # Nil /\ text'[s] = x
    BY <1>1, <1>2, <1>7 DEF SlotsOK, SlotIs
  <2>2. /\ text[s].ccount \in Nat
        /\ text[s].count = Cardinality(UsersOf(s))
        /\ (p \in InCore(s)' <=> p \in InCore(s)) =>
             InCore(s)' = InCore(s) /\ text[s].ccount = Cardinality(InCore(s)')
        /\ p \notin InCore(s) /\ p \in InCore(s)' =>
             text[s].ccount + 1 = Cardinality(InCore(s)')
        /\ p \in InCore(s) /\ p \notin InCore(s)' =>
             text[s].ccount - 1 = Cardinality(InCore(s)')
        /\ InCore(s)' \ {p} = InCore(s) \ {p}
    BY <1>2, <1>7, <2>1, SlotCounts
  <2>3. x.ccount = Cardinality(InCore(s)') /\ x.count = Cardinality(UsersOf(s)')
    BY <1>2, <1>7, <2>2 DEF CoreChange
  <2>4. x.ccount > 0 /\ x.caddr # Nil => x.caddr \in InCore(s)'
    <3> SUFFICES ASSUME x.ccount > 0, x.caddr # Nil PROVE x.caddr \in InCore(s)'
      OBVIOUS
    <3>1. \/ x.caddr = p /\ Inside(p)'
          \/ x.caddr # p /\ x.caddr = text[s].caddr /\ text[s].ccount > 0
          \/ x.caddr # p /\ x.caddr \in InCore(s)
      BY <1>7, <2>2 DEF CoreChange
    <3>2. text[s].caddr # Nil /\ text[s].ccount > 0 => text[s].caddr \in InCore(s)
      BY <2>1 DEF SlotIs
    <3> QED BY <1>2, <2>2, <3>1, <3>2
  <2>5. \A q \in UsersOf(s) : doing'[q] = doing[q]
    BY <1>2, ThreeDoers DEF Frame, UsersOf, Doers
  <2>6. "XLOAD" \in x.flag =>
          UsersOf(s) # {} /\ \A q \in UsersOf(s) : doing'[q].at \in LoadPlaces /\ doing'[q].prog = x.iptr
    BY <1>7, <2>1, <2>5 DEF SlotIs, CoreChange
  <2>7. x.iptr = text[s].iptr /\ ("XLOCK" \in x.flag => x.ccount = 0)
    BY <1>7 DEF CoreChange
  <2> QED BY <1>2, <2>1, <2>3, <2>4, <2>6, <2>7 DEF SlotIs
<1>8. SlotKept(p, s)
  <2>1. textp[p] = s
    BY DEF Sched
  <2> QED BY <1>2, <1>7, <2>1 DEF SlotKept
<1>9. InodesOK'
  <2>1. \A z \in Slots : text'[z].iptr = text[z].iptr
    BY <1>2 DEF Frame, CoreChange
  <2> QED BY <1>1, <2>1, InodesKeep DEF Sched
<1> QED BY <1>2, <1>3, <1>6, <1>8, <1>9, TextStepKeeps

\* Whom process 0 works on.
LEMMA Proc0Works ==
    ASSUME TextInv, Steady, Runs(Proc0)
    PROVE  /\ Proc0 \notin asleep /\ Proc0OK(doing[Proc0]) /\ doing[Proc0] \in DeedRecs
           /\ Proc0 \in Doers /\ Proc0 \notin Users
           /\ doing[Proc0].at # "idle" =>
                /\ Mine \in Users /\ "SLOAD" \notin pflag[Mine] /\ textp[Mine] \in Slots \cup {Nil}
                /\ doing[Mine].at \notin {"gone", "read", "xswap", "loadswap", "selftext", "selfimage"}
<1>1. TextTypes /\ DoersOK /\ Proc0 \in Doers /\ Proc0 \notin Users /\ Proc0 \notin asleep
  BY ThreeDoers DEF TextInv, Doers, Runs
<1>2. Proc0OK(doing[Proc0]) /\ doing[Proc0] \in DeedRecs
  BY <1>1 DEF DoersOK, TextTypes
<1>3. ASSUME doing[Proc0].at # "idle"
      PROVE  /\ Mine \in Users /\ "SLOAD" \notin pflag[Mine] /\ textp[Mine] \in Slots \cup {Nil}
             /\ doing[Mine].at \notin {"gone", "read", "xswap", "loadswap", "selftext", "selfimage"}
  <2>1. Mine \in Users /\ "SLOAD" \notin pflag[Mine] /\ doing[Mine].at # "gone"
    BY <1>2, <1>3 DEF Proc0OK, Mine
  <2>2. PICK p \in Users : p = Mine
    BY <2>1
  <2>3. UserOK(p, doing[p]) /\ textp[p] \in Slots \cup {Nil}
    BY <1>1 DEF DoersOK, TextTypes
  <2> QED BY <2>1, <2>2, <2>3 DEF UserOK
<1> QED BY <1>1, <1>2, <1>3

\* A process that is out is at none of the places where a process in core waits.
LEMMA OutIs ==
    ASSUME TextInv, Steady, NEW p \in Users, "SLOAD" \notin pflag[p]
    PROVE  doing[p].at \notin {"read", "xswap", "loadswap", "selftext", "selfimage"}
BY DEF TextInv, DoersOK, UserOK

\* What process 0 is to do.
LEMMA SwapperRecord ==
    ASSUME NEW p \in Users, NEW l \in Proc0Places, textp[p] \in Slots \cup {Nil}, NEW d,
           d = Swapper(l, p)
    PROVE  d \in DeedRecs /\ d.at = l /\ d.slot = textp[p] /\ d.proc = p
BY DEF DeedRecs, Swapper

\* Process 0 waits for the lock of a text, to swap its process in.
LEMMA SwapinWaitsKeeps ==
    ASSUME TextInv, Steady, Steady', NEW p \in Users, SwapinWaits(p)
    PROVE  TextInv'
<1>1. /\ Runs(Proc0) /\ doing[Proc0].at = "idle" /\ Out(p) /\ textp[p] # Nil
      /\ SleepsFor(Proc0, Swapper("swapin", p)) /\ TextTypes /\ DoersOK
  BY DEF SwapinWaits, At, TextInv
<1>2. Proc0 \notin asleep /\ Proc0 \in Doers /\ Proc0 \notin Users /\ p # Proc0 /\ p \in Doers
  BY <1>1, Proc0Works DEF Doers
<1>3. PICK s \in Slots : s = textp[p]
  BY <1>1 DEF TextTypes
<1>4. PICK d : d = Swapper("swapin", p)
  OBVIOUS
<1>5. d \in DeedRecs /\ d.at = "swapin" /\ d.slot = s /\ d.proc = p
  BY <1>3, <1>4, SwapperRecord DEF Proc0Places
<1>6. SleepsFor(Proc0, d)
  BY <1>1, <1>4
<1>7. doing'[Proc0] = d /\ doing'[p] = doing[p] /\ UNCHANGED <<pflag, textp, held>> /\ held \subseteq Programs
  BY <1>1, <1>2, <1>6 DEF SleepsFor, TextTypes
<1>8. Places(Proc0, p)
  <2>1. UserOK(p, doing[p])' /\ Proc0OK(doing[Proc0])'
    BY <1>1, <1>3, <1>5, <1>7 DEF DoersOK, UserOK, Proc0OK, Proc0Places, Out
  <2> QED BY <1>1, <1>5, <1>7, <2>1, ThreeDoers DEF Places
<1>9. ProgramKept(Proc0)
  BY <1>7, ThreeDoers DEF ProgramKept, Lockers
<1>10. WaitsFor(Proc0, p, s, d)
  <2>1. Inside(p)' <=> Inside(p)
    BY <1>1, <1>5, <1>7 DEF Inside, Mine
  <2> QED BY <1>1, <1>2, <1>3, <1>5, <1>6, <1>7, <2>1 DEF WaitsFor, SleepsFor, Holding, LoadPlaces
<1> QED BY <1>2, <1>5, <1>8, <1>9, <1>10, WaitKeeps

\* It swaps in a process without a text.
LEMMA SwapinNoTextKeeps ==
    ASSUME TextInv, Steady, Steady', NEW p \in Users, SwapinNoText(p)
    PROVE  TextInv'
<1>1. /\ Runs(Proc0) /\ doing[Proc0].at = "idle" /\ Out(p) /\ textp[p] = Nil /\ TextTypes
      /\ UNCHANGED <<text, pflag, textp, held, itext, irefs, asleep>>
  BY DEF SwapinNoText, At, TextInv
<1>2. Proc0 \notin asleep /\ Nil \notin Slots
  BY <1>1, Proc0Works, ThreeDoers
<1>3. PICK d : d = Swapper("image", p)
  OBVIOUS
<1>4. d \in DeedRecs /\ d.at = "image" /\ d.proc = p
  BY <1>1, <1>3, SwapperRecord DEF Proc0Places
<1>5. PICK g \in SUBSET {"SLOAD", "SLOCK"} : g = pflag[p]
  BY <1>1 DEF TextTypes
<1>6. PICK x : x = text[Nil]
  OBVIOUS
<1>7. Sched(p, Nil, d, g)
  <2>1. doing[p].at \notin {"read", "xswap", "loadswap", "selftext", "selfimage"} /\ doing[p].at # "gone" /\ "SLOAD" \notin g
    BY <1>1, <1>5, OutIs DEF Out
  <2> QED BY <1>1, <1>2, <1>4, <2>1 DEF Sched, Proc0Places
<1>8. Moves(Proc0, p, Nil, x, d, Nil, g)
  <2>1. doing' = [doing EXCEPT ![Proc0] = d]
    BY <1>3 DEF SwapinNoText
  <2> QED BY <1>1, <1>5, <1>6, <2>1, SetToItself DEF Moves, TextTypes
<1>9. doing'[Proc0] = d
  <2>1. SchedStep(p, Nil, x, d, g)
    BY <1>2, <1>4, <1>7, <1>8 DEF SchedStep
  <2> QED BY <2>1, SchedMoves
<1>10. LockKept(Proc0, Nil) /\ WaitOn(Nil) /\ FoundSo(Proc0, Nil)
  BY <1>1, <1>2, <1>4, <1>9 DEF LockKept, WaitOn, FoundSo, Holding
<1> QED BY <1>2, <1>4, <1>7, <1>8, <1>10, SchedKeeps

\* The image of a process is read: it is in core.
LEMMA SwapinImageKeeps ==
    ASSUME TextInv, Steady, Steady', SwapinImage
    PROVE  TextInv'
<1>1. /\ Runs(Proc0) /\ doing[Proc0].at = "image" /\ TextTypes
      /\ UNCHANGED <<text, textp, held, itext, irefs, asleep>>
  BY DEF SwapinImage, At, TextInv
<1>2. /\ Proc0 \notin asleep /\ Mine \in Users /\ "SLOAD" \notin pflag[Mine]
      /\ textp[Mine] \in Slots \cup {Nil} /\ doing[Mine].at \notin {"gone", "read", "xswap", "loadswap", "selftext", "selfimage"}
  BY <1>1, Proc0Works
<1>3. PICK p \in Users, s \in Slots \cup {Nil} : p = Mine /\ s = textp[p]
  BY <1>2
<1>4. Idle \in DeedRecs /\ Idle.at = "idle"
  BY DEF Idle, DeedRecs, UserPlaces
<1>5. PICK g \in SUBSET {"SLOAD", "SLOCK"} : g = {"SLOAD"}
  OBVIOUS
<1>6. PICK x : x = text[s] /\ (s \in Slots => x \in SlotRecs)
  BY <1>1 DEF TextTypes
<1>7. PICK d \in DeedRecs : d = Idle
  BY <1>4
<1>8. Sched(p, s, d, g)
  BY <1>1, <1>2, <1>3, <1>4, <1>7 DEF Sched, Proc0Places
<1>9. Moves(Proc0, p, s, x, d, s, g)
  <2>1. doing' = [doing EXCEPT ![Proc0] = d] /\ pflag' = [pflag EXCEPT ![p] = g]
    BY <1>3, <1>5, <1>7 DEF SwapinImage
  <2> QED BY <1>1, <1>3, <1>6, <2>1, SetToItself DEF Moves, TextTypes
<1>10. doing'[Proc0] = d /\ Inside(p)' /\ Inside(p)
  <2>1. SchedStep(p, s, x, d, g)
    BY <1>6, <1>8, <1>9 DEF SchedStep
  <2>2. /\ doing'[Proc0] = d
        /\ Inside(p)' <=> "SLOAD" \in g \/ d.at \in {"image", "swapout"}
        /\ Inside(p) <=> "SLOAD" \in pflag[p] \/ doing[Proc0].at \in {"image", "swapout"}
    BY <2>1, SchedMoves
  <2> QED BY <1>1, <1>3, <1>5, <2>2
<1>11. LockKept(Proc0, s) /\ WaitOn(s) /\ FoundSo(Proc0, s)
  BY <1>1, <1>4, <1>7, <1>10 DEF LockKept, WaitOn, FoundSo, Holding
<1>12. s \in Slots => CoreChange(p, s, x)
  <2> SUFFICES ASSUME s \in Slots PROVE CoreChange(p, s, x)
    OBVIOUS
  <2>1. SlotIs(s, text[s]) /\ text[s].iptr # Nil
    BY <1>3, ThreeDoers, UsedSlot DEF TextInv, SlotsOK
  <2> QED BY <1>6, <1>10, <2>1 DEF CoreChange, SlotIs
<1> QED BY <1>6, <1>8, <1>9, <1>11, <1>12, SchedKeeps

\* It chooses a process to take out.
LEMMA SwapoutFirstKeeps ==
    ASSUME TextInv, Steady, Steady', NEW p \in Users, SwapoutFirst(p)
    PROVE  TextInv'
<1>1. /\ Runs(Proc0) /\ doing[Proc0].at = "idle" /\ Victim(p) /\ TextTypes /\ DoersOK /\ LocksOK
      /\ UNCHANGED <<text, textp, held, itext, irefs, asleep>>
  BY DEF SwapoutFirst, At, TextInv
<1>2. Proc0 \notin asleep
  BY <1>1, Proc0Works
<1>3. PICK s \in Slots \cup {Nil} : s = textp[p]
  BY <1>1 DEF TextTypes
<1>4. /\ "SLOAD" \in pflag[p] /\ "SLOCK" \notin pflag[p] /\ doing[p].at # "gone"
      /\ s # Nil => "XLOCK" \notin text[s].flag
  BY <1>1, <1>3 DEF Victim
<1>5. doing[p].at \notin {"read", "xswap", "loadswap", "selftext", "selfimage"}
  BY <1>1, <1>3, <1>4, ThreeDoers
     DEF DoersOK, UserOK, SharePlaces, LocksOK, HoldsSlot, Holding, Doers
<1>6. PICK l : l = IF s = Nil THEN "imageout" ELSE "swapout"
  OBVIOUS
<1>7. l \in Proc0Places
  BY <1>6 DEF Proc0Places
<1>8. PICK d \in DeedRecs : d = Swapper(l, p) /\ d.at = l /\ d.slot = s /\ d.proc = p
  BY <1>3, <1>7, SwapperRecord
<1>9. PICK g \in SUBSET {"SLOAD", "SLOCK"} : g = {"SLOCK"}
  OBVIOUS
<1>10. PICK x : x = text[s] /\ (s \in Slots => x \in SlotRecs)
  BY <1>1 DEF TextTypes
<1>11. Sched(p, s, d, g)
  <2>1. "SLOAD" \notin g
    BY <1>9
  <2> QED BY <1>1, <1>2, <1>3, <1>4, <1>5, <1>6, <1>7, <1>8, <2>1 DEF Sched, Proc0Places
<1>12. Moves(Proc0, p, s, x, d, s, g)
  <2>1. doing' = [doing EXCEPT ![Proc0] = d] /\ pflag' = [pflag EXCEPT ![p] = g]
    BY <1>3, <1>6, <1>8, <1>9 DEF SwapoutFirst
  <2> QED BY <1>1, <1>3, <1>10, <2>1, SetToItself DEF Moves, TextTypes
<1>13. /\ doing'[Proc0] = d
       /\ Inside(p)' <=> "SLOAD" \in g \/ d.at \in {"image", "swapout"}
       /\ Inside(p) <=> "SLOAD" \in pflag[p] \/ doing[Proc0].at \in {"image", "swapout"}
  <2>1. SchedStep(p, s, x, d, g)
    BY <1>10, <1>11, <1>12 DEF SchedStep
  <2> QED BY <2>1, SchedMoves
<1>14. LockKept(Proc0, s) /\ WaitOn(s) /\ FoundSo(Proc0, s)
  BY <1>1, <1>6, <1>8, <1>13 DEF LockKept, WaitOn, FoundSo, Holding
<1>15. s \in Slots => CoreChange(p, s, x)
  <2> SUFFICES ASSUME s \in Slots PROVE CoreChange(p, s, x)
    OBVIOUS
  <2>1. SlotIs(s, text[s]) /\ text[s].iptr # Nil
    BY <1>3, ThreeDoers, UsedSlot DEF TextInv, SlotsOK
  <2>2. Inside(p)' /\ Inside(p) /\ s # Nil
    BY <1>4, <1>6, <1>8, <1>13, ThreeDoers
  <2> QED BY <1>10, <2>1, <2>2 DEF CoreChange, SlotIs
<1> QED BY <1>8, <1>10, <1>11, <1>12, <1>14, <1>15, SchedKeeps

\* A process is out.
LEMMA SwapoutImageKeeps ==
    ASSUME TextInv, Steady, Steady', SwapoutImage
    PROVE  TextInv'
<1>1. /\ Runs(Proc0) /\ doing[Proc0].at = "imageout" /\ TextTypes
      /\ UNCHANGED <<text, textp, held, itext, irefs, asleep>>
  BY DEF SwapoutImage, At, TextInv
<1>2. /\ Proc0 \notin asleep /\ Mine \in Users /\ "SLOAD" \notin pflag[Mine]
      /\ textp[Mine] \in Slots \cup {Nil} /\ doing[Mine].at \notin {"gone", "read", "xswap", "loadswap", "selftext", "selfimage"}
  BY <1>1, Proc0Works
<1>3. PICK p \in Users, s \in Slots \cup {Nil} : p = Mine /\ s = textp[p]
  BY <1>2
<1>4. PICK d \in DeedRecs : d = Idle /\ d.at = "idle"
  <2>1. Idle \in DeedRecs /\ Idle.at = "idle"
    BY DEF Idle, DeedRecs, UserPlaces
  <2> QED BY <2>1
<1>5. PICK g \in SUBSET {"SLOAD", "SLOCK"} : g = {}
  OBVIOUS
<1>6. PICK x : x = text[s] /\ (s \in Slots => x \in SlotRecs)
  BY <1>1 DEF TextTypes
<1>7. Sched(p, s, d, g)
  BY <1>1, <1>2, <1>3, <1>4 DEF Sched, Proc0Places
<1>8. Moves(Proc0, p, s, x, d, s, g)
  <2>1. doing' = [doing EXCEPT ![Proc0] = d] /\ pflag' = [pflag EXCEPT ![p] = g]
    BY <1>3, <1>4, <1>5 DEF SwapoutImage
  <2> QED BY <1>1, <1>3, <1>6, <2>1, SetToItself DEF Moves, TextTypes
<1>9. doing'[Proc0] = d /\ ~Inside(p)' /\ ~Inside(p)
  <2>1. /\ doing'[Proc0] = d
        /\ Inside(p)' <=> "SLOAD" \in g \/ d.at \in {"image", "swapout"}
        /\ Inside(p) <=> "SLOAD" \in pflag[p] \/ doing[Proc0].at \in {"image", "swapout"}
    <3>1. SchedStep(p, s, x, d, g)
      BY <1>4, <1>6, <1>7, <1>8 DEF SchedStep
    <3> QED BY <3>1, SchedMoves
  <2> QED BY <1>1, <1>2, <1>3, <1>4, <1>5, <2>1
<1>10. LockKept(Proc0, s) /\ WaitOn(s) /\ FoundSo(Proc0, s)
  BY <1>1, <1>4, <1>9 DEF LockKept, WaitOn, FoundSo, Holding
<1>11. s \in Slots => CoreChange(p, s, x)
  <2> SUFFICES ASSUME s \in Slots PROVE CoreChange(p, s, x)
    OBVIOUS
  <2>1. SlotIs(s, text[s]) /\ text[s].iptr # Nil
    BY <1>3, ThreeDoers, UsedSlot DEF TextInv, SlotsOK
  <2>2. text[s].ccount # 0 /\ text[s].caddr # Nil => text[s].caddr # p
    <3>1. p \notin InCore(s)
      BY <1>9, InCoreIs
    <3>2. text[s].ccount \in Nat
      BY <2>1, UsersCount DEF SlotIs
    <3> QED BY <2>1, <3>1, <3>2 DEF SlotIs
  <2> QED BY <1>6, <1>9, <2>1, <2>2 DEF CoreChange, SlotIs
<1> QED BY <1>4, <1>6, <1>7, <1>8, <1>10, <1>11, SchedKeeps

\* The text of a process that is taken out.
LEMMA SwapoutVictimKeeps ==
    ASSUME TextInv, Steady, Steady', SwapoutVictim
    PROVE  TextInv'
<1>1. /\ Runs(Proc0) /\ doing[Proc0].at = "swapout" /\ TextTypes /\ SlotsOK
      /\ UNCHANGED <<pflag, textp, held, itext, irefs>>
  BY DEF SwapoutVictim, At, TextInv
<1>2. /\ Proc0 \notin asleep /\ Mine \in Users /\ "SLOAD" \notin pflag[Mine]
      /\ doing[Mine].at \notin {"gone", "read", "xswap", "loadswap", "selftext", "selfimage"}
      /\ Proc0OK(doing[Proc0]) /\ doing[Proc0] \in DeedRecs /\ Proc0 \in Doers
  BY <1>1, Proc0Works
<1>3. PICK p \in Users, s \in Slots : p = Mine /\ s = textp[p] /\ s = doing[Proc0].slot
  BY <1>1, <1>2 DEF Proc0OK, Mine
<1>4. Inside(p) /\ p \in InCore(s) /\ text[s] \in SlotRecs
  BY <1>1, <1>3 DEF Inside, InCore, TextTypes
<1>5. SlotIs(s, text[s]) /\ text[s].ccount # 0 /\ "XLOCK" \notin text[s].flag /\ text[s].iptr # Nil
  BY <1>1, <1>3, <1>4, UsedSlot, ThreeDoers DEF SlotsOK
<1>6. PICK y \in SlotRecs : y = text[s]
  BY <1>4
<1>7. Xccdec(Proc0, p, y, "textout", Goes(Proc0, "imageout"))
  BY <1>3, <1>6 DEF SwapoutVictim, TextSlot
<1>8. PICK w \in DeedRecs : w = MovedTo(doing[Proc0], "textout") /\ w.at = "textout"
                            /\ w.slot = s /\ w.proc = p
  <2>1. "textout" \in UserPlaces \cup Proc0Places
    BY DEF Proc0Places
  <2> QED BY <1>2, <1>3, <2>1, MovedRecord DEF Mine
<1>9. PICK o \in DeedRecs : o = MovedTo(doing[Proc0], "imageout") /\ o.at = "imageout"
                            /\ o.slot = s /\ o.proc = p
  <2>1. "imageout" \in UserPlaces \cup Proc0Places
    BY DEF Proc0Places
  <2> QED BY <1>2, <1>3, <2>1, MovedRecord DEF Mine
<1>10. \/ /\ MustWrite(y) /\ doing' = [doing EXCEPT ![Proc0] = w] /\ UNCHANGED asleep
          /\ text' = [text EXCEPT ![s] = ToWrite(y)]
       \/ /\ ~MustWrite(y) /\ doing' = [doing EXCEPT ![Proc0] = o] /\ Wakes(s)
          /\ text' = [text EXCEPT ![s] = Unlocked(LeftBy(y, p))]
  <2>1. y.ccount # 0
    BY <1>5, <1>6
  <2>2. \/ /\ MustWrite(y) /\ Goes(Proc0, "textout") /\ UNCHANGED asleep
           /\ text' = [text EXCEPT ![s] = ToWrite(y)]
        \/ /\ ~MustWrite(y) /\ Goes(Proc0, "imageout") /\ Wakes(s)
           /\ text' = [text EXCEPT ![s] = Unlocked(LeftBy(y, p))]
    BY <1>3, <1>7, <2>1, Zenon DEF Xccdec, ToWrite
  <2> QED BY <1>1, <1>2, <1>8, <1>9, <2>2, GoesIs
<1>11. PICK d, x :
         /\ d \in DeedRecs /\ doing' = [doing EXCEPT ![Proc0] = d] /\ text' = [text EXCEPT ![s] = x]
         /\ \/ MustWrite(y) /\ d = w /\ x = ToWrite(y) /\ UNCHANGED asleep
            \/ ~MustWrite(y) /\ d = o /\ x = Unlocked(LeftBy(y, p)) /\ Wakes(s)
  BY <1>8, <1>9, <1>10
<1>12. /\ d.at \in {"textout", "imageout"} /\ d.slot = s /\ d.proc = p
       /\ x \in SlotRecs /\ x.iptr = y.iptr /\ x.count = y.count /\ x.ccount = y.ccount - 1
       /\ "XLOAD" \in x.flag => "XLOAD" \in y.flag
       /\ d.at = "textout" => "XLOCK" \in x.flag /\ x.ccount = 0
       /\ d.at = "imageout" => "XLOCK" \notin x.flag /\ x.caddr \in {y.caddr, Nil} /\ x.caddr # p
  <2>1. CASE MustWrite(y) /\ d = w /\ x = ToWrite(y)
    <3>1. y.ccount = 1
      BY <2>1 DEF MustWrite
    <3>2. /\ x \in SlotRecs /\ x.iptr = y.iptr /\ x.count = y.count /\ x.ccount = 0
          /\ x.caddr = y.caddr /\ "XLOCK" \in x.flag
          /\ ("XLOAD" \in x.flag <=> "XLOAD" \in y.flag)
      BY <2>1, WriteRecord
    <3> QED BY <1>8, <2>1, <3>1, <3>2
  <2>2. CASE ~MustWrite(y) /\ d = o /\ x = Unlocked(LeftBy(y, p))
    <3>1. /\ x \in SlotRecs /\ x.iptr = y.iptr /\ x.count = y.count
          /\ x.ccount = y.ccount - 1 /\ x.caddr \in {y.caddr, Nil} /\ x.caddr # p
          /\ "XLOCK" \notin x.flag /\ ("XLOAD" \in x.flag <=> "XLOAD" \in y.flag)
      BY <2>2, LeftRecord
    <3> QED BY <1>9, <2>2, <3>1
  <2> QED BY <1>11, <2>1, <2>2
<1>13. PICK g \in SUBSET {"SLOAD", "SLOCK"} : g = pflag[p]
  BY <1>1 DEF TextTypes
<1>14. Sched(p, s, d, g)
  BY <1>1, <1>2, <1>3, <1>12, <1>13 DEF Sched, Proc0Places
<1>15. Moves(Proc0, p, s, x, d, s, g)
  <2>1. textp' = [textp EXCEPT ![p] = s] /\ pflag' = [pflag EXCEPT ![p] = g]
    BY <1>1, <1>3, <1>13, SetToItself
  <2>2. asleep' \subseteq Doers
    BY <1>1, <1>11 DEF Wakes, TextTypes
  <2> QED BY <1>1, <1>11, <2>1, <2>2 DEF Moves, TextTypes
<1>16. doing'[Proc0] = d /\ text'[s] = x /\ ~Inside(p)'
  <2>0. d \in DeedRecs /\ x \in SlotRecs
    BY <1>11, <1>12
  <2>1. /\ doing'[Proc0] = d /\ text'[s] = x
        /\ Inside(p)' <=> "SLOAD" \in g \/ d.at \in {"image", "swapout"}
    <3>1. SchedStep(p, s, x, d, g)
      BY <2>0, <1>14, <1>15 DEF SchedStep
    <3> QED BY <3>1, SchedMoves
  <2> QED BY <1>2, <1>3, <1>12, <1>13, <2>1
<1>17. LockKept(Proc0, s) \/ LockTaken(Proc0, s) \/ LockGiven(Proc0, s)
  BY <1>1, <1>5, <1>12, <1>16 DEF LockKept, LockTaken, Holding
<1>18. (AllWoken(s) \/ WaitOn(s)) /\ FoundSo(Proc0, s)
  BY <1>5, <1>11, <1>12, <1>16 DEF AllWoken, WaitOn, FoundSo
<1>19. CoreChange(p, s, x)
  BY <1>4, <1>5, <1>6, <1>12, <1>16 DEF CoreChange
<1>20. d \in DeedRecs /\ x \in SlotRecs
  BY <1>11, <1>12
<1> QED BY <1>20, <1>14, <1>15, <1>17, <1>18, <1>19, SchedKeeps

\* It is written.
LEMMA SwapoutTextKeeps ==
    ASSUME TextInv, Steady, Steady', SwapoutText
    PROVE  TextInv'
<1>1. /\ Runs(Proc0) /\ doing[Proc0].at = "textout" /\ TextTypes /\ SlotsOK /\ LocksOK
      /\ Written(Proc0, Mine) /\ UNCHANGED <<pflag, textp, held, itext, irefs>>
  BY DEF SwapoutText, At, TextInv, Written
<1>2. /\ Proc0 \notin asleep /\ Mine \in Users /\ "SLOAD" \notin pflag[Mine]
      /\ doing[Mine].at \notin {"gone", "read", "xswap", "loadswap", "selftext", "selfimage"}
      /\ Proc0OK(doing[Proc0]) /\ doing[Proc0] \in DeedRecs /\ Proc0 \in Doers
  BY <1>1, Proc0Works
<1>3. PICK p \in Users, s \in Slots : p = Mine /\ s = textp[p] /\ s = doing[Proc0].slot
  BY <1>1, <1>2 DEF Proc0OK, Mine
<1>4. HoldsSlot(Proc0, s) /\ "XLOCK" \in text[s].flag /\ text[s] \in SlotRecs
  BY <1>1, <1>2, <1>3 DEF HoldsSlot, Holding, LocksOK, TextTypes
<1>5. text[s].ccount = 0
  BY <1>1, <1>4 DEF SlotsOK, SlotIs
<1>6. PICK y : y = NotFoundBy(text[s], p)
  OBVIOUS
<1>7. /\ y \in SlotRecs /\ y.iptr = text[s].iptr /\ y.count = text[s].count
      /\ y.ccount = text[s].ccount /\ y.flag = text[s].flag
  <2>1. PICK c : c = IF text[s].caddr = p THEN Nil ELSE text[s].caddr
    OBVIOUS
  <2>2. c \in Users \cup {Nil}
    BY <1>4, <2>1 DEF SlotRecs
  <2>3. y = [text[s] EXCEPT !.caddr = c]
    BY <1>6, <2>1 DEF NotFoundBy
  <2> QED BY <1>4, <2>2, <2>3 DEF SlotRecs
<1>8. PICK x : x = Unlocked(y)
  OBVIOUS
<1>9. /\ x \in SlotRecs /\ x.iptr = text[s].iptr /\ x.count = text[s].count
      /\ x.ccount = text[s].ccount /\ "XLOCK" \notin x.flag
      /\ ("XLOAD" \in x.flag <=> "XLOAD" \in text[s].flag)
  BY <1>7, <1>8, UnlockRecord
<1>10. text' = [text EXCEPT ![s] = x] /\ Wakes(s)
  <2>1. text' = [text EXCEPT ![s] = Unlocked(NotFoundBy(@, p))]
    BY <1>1, <1>3, Zenon DEF Written
  <2>2. text' = [text EXCEPT ![s] = x]
    BY <1>6, <1>8, <2>1, Zenon
  <2> QED BY <1>1, <1>3, <2>2 DEF Written
<1>11. PICK d \in DeedRecs : d = MovedTo(doing[Proc0], "imageout") /\ d.at = "imageout"
                             /\ d.slot = s /\ d.proc = p
  <2>1. "imageout" \in UserPlaces \cup Proc0Places
    BY DEF Proc0Places
  <2> QED BY <1>2, <1>3, <2>1, MovedRecord DEF Mine
<1>12. doing' = [doing EXCEPT ![Proc0] = d]
  BY <1>1, <1>2, <1>11, GoesIs DEF SwapoutText
<1>13. PICK g \in SUBSET {"SLOAD", "SLOCK"} : g = pflag[p]
  BY <1>1 DEF TextTypes
<1>14. Sched(p, s, d, g)
  BY <1>1, <1>2, <1>3, <1>11, <1>13 DEF Sched, Proc0Places
<1>15. Moves(Proc0, p, s, x, d, s, g)
  <2>1. textp' = [textp EXCEPT ![p] = s] /\ pflag' = [pflag EXCEPT ![p] = g]
    BY <1>1, <1>3, <1>13, SetToItself
  <2> QED BY <1>1, <1>10, <1>12, <2>1 DEF Moves, TextTypes, Wakes
<1>16. doing'[Proc0] = d /\ text'[s] = x /\ ~Inside(p)' /\ ~Inside(p)
  <2>1. /\ doing'[Proc0] = d /\ text'[s] = x
        /\ Inside(p)' <=> "SLOAD" \in g \/ d.at \in {"image", "swapout"}
        /\ Inside(p) <=> "SLOAD" \in pflag[p] \/ doing[Proc0].at \in {"image", "swapout"}
    <3>1. SchedStep(p, s, x, d, g)
      BY <1>9, <1>14, <1>15 DEF SchedStep
    <3> QED BY <3>1, SchedMoves
  <2> QED BY <1>1, <1>2, <1>3, <1>11, <1>13, <2>1
<1>17. LockKept(Proc0, s) \/ LockTaken(Proc0, s) \/ LockGiven(Proc0, s)
  BY <1>1, <1>3, <1>9, <1>11, <1>16 DEF LockGiven, Holding
<1>18. (AllWoken(s) \/ WaitOn(s)) /\ FoundSo(Proc0, s)
  BY <1>4, <1>10, <1>11, <1>16 DEF AllWoken, FoundSo
<1>19. CoreChange(p, s, x)
  BY <1>5, <1>9, <1>16 DEF CoreChange
<1> QED BY <1>9, <1>14, <1>15, <1>17, <1>18, <1>19, SchedKeeps

\* A text is read for the process that is brought in.
LEMMA SwapinTextKeeps ==
    ASSUME TextInv, Steady, Steady', SwapinText
    PROVE  TextInv'
<1>1. /\ Runs(Proc0) /\ doing[Proc0].at = "textin" /\ TextTypes /\ SlotsOK /\ LocksOK /\ ReadersOK
      /\ UNCHANGED <<pflag, textp, held, itext, irefs>>
  BY DEF SwapinText, At, TextInv
<1>2. /\ Proc0 \notin asleep /\ Mine \in Users /\ "SLOAD" \notin pflag[Mine]
      /\ doing[Mine].at \notin {"gone", "read", "xswap", "loadswap", "selftext", "selfimage"}
      /\ Proc0OK(doing[Proc0]) /\ doing[Proc0] \in DeedRecs /\ Proc0 \in Doers
  BY <1>1, Proc0Works
<1>3. PICK p \in Users, s \in Slots : p = Mine /\ s = textp[p] /\ s = doing[Proc0].slot
  BY <1>1, <1>2 DEF Proc0OK, Mine
<1>4. HoldsSlot(Proc0, s) /\ "XLOCK" \in text[s].flag /\ text[s] \in SlotRecs /\ text[s].caddr = p
  BY <1>1, <1>2, <1>3 DEF HoldsSlot, Holding, LocksOK, TextTypes, ReadersOK, Reads, Owner
<1>5. text[s].ccount = 0
  BY <1>1, <1>4 DEF SlotsOK, SlotIs
<1>6. PICK y : y = TextEntered(text[s])
  OBVIOUS
<1>7. /\ y \in SlotRecs /\ y.iptr = text[s].iptr /\ y.count = text[s].count
      /\ y.ccount = text[s].ccount + 1 /\ y.caddr = p /\ y.flag = text[s].flag
  BY <1>4, <1>6, EnteredRecord
<1>8. PICK x : x = Unlocked(y)
  OBVIOUS
<1>9. /\ x \in SlotRecs /\ x.iptr = text[s].iptr /\ x.count = text[s].count
      /\ x.ccount = text[s].ccount + 1 /\ x.caddr = p /\ "XLOCK" \notin x.flag
      /\ ("XLOAD" \in x.flag <=> "XLOAD" \in text[s].flag)
  BY <1>7, <1>8, UnlockRecord
<1>10. text' = [text EXCEPT ![s] = x] /\ Wakes(s)
  BY <1>3, <1>6, <1>8, Zenon DEF SwapinText
<1>11. PICK d \in DeedRecs : d = MovedTo(doing[Proc0], "image") /\ d.at = "image"
                             /\ d.slot = s /\ d.proc = p
  <2>1. "image" \in UserPlaces \cup Proc0Places
    BY DEF Proc0Places
  <2> QED BY <1>2, <1>3, <2>1, MovedRecord DEF Mine
<1>12. doing' = [doing EXCEPT ![Proc0] = d]
  BY <1>1, <1>2, <1>11, GoesIs DEF SwapinText
<1>13. PICK g \in SUBSET {"SLOAD", "SLOCK"} : g = pflag[p]
  BY <1>1 DEF TextTypes
<1>14. Sched(p, s, d, g)
  BY <1>1, <1>2, <1>3, <1>11, <1>13 DEF Sched, Proc0Places
<1>15. Moves(Proc0, p, s, x, d, s, g)
  <2>1. textp' = [textp EXCEPT ![p] = s] /\ pflag' = [pflag EXCEPT ![p] = g]
    BY <1>1, <1>3, <1>13, SetToItself
  <2> QED BY <1>1, <1>10, <1>12, <2>1 DEF Moves, TextTypes, Wakes
<1>16. doing'[Proc0] = d /\ text'[s] = x /\ Inside(p)' /\ ~Inside(p)
  <2>1. /\ doing'[Proc0] = d /\ text'[s] = x
        /\ Inside(p)' <=> "SLOAD" \in g \/ d.at \in {"image", "swapout"}
        /\ Inside(p) <=> "SLOAD" \in pflag[p] \/ doing[Proc0].at \in {"image", "swapout"}
    <3>1. SchedStep(p, s, x, d, g)
      BY <1>9, <1>14, <1>15 DEF SchedStep
    <3> QED BY <3>1, SchedMoves
  <2> QED BY <1>1, <1>2, <1>3, <1>11, <1>13, <2>1
<1>17. LockKept(Proc0, s) \/ LockTaken(Proc0, s) \/ LockGiven(Proc0, s)
  BY <1>1, <1>3, <1>9, <1>11, <1>16 DEF LockGiven, Holding
<1>18. (AllWoken(s) \/ WaitOn(s)) /\ FoundSo(Proc0, s)
  BY <1>4, <1>10, <1>11, <1>16 DEF AllWoken, FoundSo
<1>19. CoreChange(p, s, x)
  BY <1>5, <1>9, <1>16 DEF CoreChange
<1> QED BY <1>9, <1>14, <1>15, <1>17, <1>18, <1>19, SchedKeeps

\* What swapin makes of slot s, and what process 0, at d, does then for process p.
Swapped(p, s, x, d) ==
    /\ x \in SlotRecs /\ x.iptr = text[s].iptr /\ x.count = text[s].count
    /\ "XLOAD" \in x.flag => "XLOAD" \in text[s].flag
    /\ \/ /\ d.at = "idle" /\ x.ccount = text[s].ccount /\ x.caddr = text[s].caddr
          /\ "XLOCK" \notin x.flag /\ Wakes(s)
       \/ /\ d.at = "textin" /\ d.slot = s /\ d.proc = p
          /\ x.ccount = 0 /\ text[s].ccount = 0 /\ x.caddr = p
          /\ "XLOCK" \in x.flag /\ UNCHANGED asleep
       \/ /\ d.at = "image" /\ d.proc = p /\ x.ccount = text[s].ccount + 1
          /\ "XLOCK" \notin x.flag /\ Wakes(s)
          /\ \/ x.caddr = p
             \/ x.caddr = text[s].caddr /\ text[s].ccount # 0
             \/ x.caddr # p /\ x.caddr \in InCore(s)

\* A text in core is shared.
LEMMA ShareSlot ==
    ASSUME TextInv, Steady, Steady', NEW p, NEW s \in Slots, "XLOCK" \notin text[s].flag,
           NEW y \in SlotRecs, Share(s, p, y)
    PROVE  \E x \in SlotRecs :
              /\ text' = [text EXCEPT ![s] = x]
              /\ x.iptr = y.iptr /\ x.count = y.count /\ x.ccount = y.ccount + 1
              /\ ("XLOAD" \in x.flag <=> "XLOAD" \in y.flag) /\ "XLOCK" \notin x.flag
              /\ \/ x.caddr # Nil /\ x.caddr = y.caddr
                 \/ x.caddr # p /\ x.caddr \in InCore(s)
<1>1. PICK z : z = TextEntered(y)
  OBVIOUS
<1>2. /\ z \in SlotRecs /\ z.iptr = y.iptr /\ z.count = y.count /\ z.ccount = y.ccount + 1
      /\ z.caddr = y.caddr /\ z.flag = y.flag
  BY <1>1, EnteredRecord
<1>3. CASE y.caddr # Nil /\ text' = [text EXCEPT ![s] = Unlocked(z)]
  <2>1. PICK x : x = Unlocked(z)
    OBVIOUS
  <2>2. /\ x \in SlotRecs /\ x.iptr = z.iptr /\ x.count = z.count /\ x.ccount = z.ccount
        /\ x.caddr = z.caddr /\ "XLOCK" \notin x.flag
        /\ ("XLOAD" \in x.flag <=> "XLOAD" \in z.flag)
    BY <1>2, <2>1, UnlockRecord
  <2> QED BY <1>2, <1>3, <2>1, <2>2
<1>4. ASSUME NEW q \in Holders(s, p), text' = [text EXCEPT ![s] = Unlocked(FoundBy(z, q))]
      PROVE  \E x \in SlotRecs :
              /\ text' = [text EXCEPT ![s] = x]
              /\ x.iptr = y.iptr /\ x.count = y.count /\ x.ccount = y.ccount + 1
              /\ ("XLOAD" \in x.flag <=> "XLOAD" \in y.flag) /\ "XLOCK" \notin x.flag
              /\ x.caddr # p /\ x.caddr \in InCore(s)
  <2>1. q \in Users /\ q # p /\ q \in InCore(s)
    BY <1>4, HolderInCore
  <2>2. PICK w : w = FoundBy(z, q)
    OBVIOUS
  <2>3. /\ w \in SlotRecs /\ w.iptr = z.iptr /\ w.count = z.count /\ w.ccount = z.ccount
        /\ w.caddr = q /\ w.flag = z.flag
    BY <1>2, <2>1, <2>2, FoundRecord
  <2>4. PICK x : x = Unlocked(w)
    OBVIOUS
  <2>5. /\ x \in SlotRecs /\ x.iptr = w.iptr /\ x.count = w.count /\ x.ccount = w.ccount
        /\ x.caddr = w.caddr /\ "XLOCK" \notin x.flag
        /\ ("XLOAD" \in x.flag <=> "XLOAD" \in w.flag)
    BY <2>3, <2>4, UnlockRecord
  <2> QED BY <1>2, <1>4, <2>1, <2>2, <2>3, <2>4, <2>5
<1>5. ~panicked'
  BY DEF Steady
<1>6. \/ y.caddr # Nil /\ text' = [text EXCEPT ![s] = Unlocked(z)]
      \/ \E q \in Holders(s, p) : text' = [text EXCEPT ![s] = Unlocked(FoundBy(z, q))]
  BY <1>1, <1>5, Zenon DEF Share
<1>7. CASE \E q \in Holders(s, p) : text' = [text EXCEPT ![s] = Unlocked(FoundBy(z, q))]
  <2>1. PICK q \in Holders(s, p) : text' = [text EXCEPT ![s] = Unlocked(FoundBy(z, q))]
    BY <1>7
  <2> QED BY <1>4, <2>1
<1> QED BY <1>3, <1>6, <1>7

\* So swapin does one of three things.
LEMMA SwapinDoes ==
    ASSUME TextInv, Steady, Steady', NEW p \in Users, Swapin(p), NEW s \in Slots, s = textp[p],
           "XLOCK" \notin text[s].flag, text[s] \in SlotRecs
    PROVE  \E d, x : /\ d \in DeedRecs /\ doing' = [doing EXCEPT ![Proc0] = d]
                     /\ text' = [text EXCEPT ![s] = x] /\ Swapped(p, s, x, d)
<1>1. PICK y \in SlotRecs : y = text[s]
  OBVIOUS
<1>2. CASE /\ doing' = [doing EXCEPT ![Proc0] = Idle] /\ Wakes(s)
           /\ text' = [text EXCEPT ![s] = Unlocked(y)]
  <2>1. PICK x, d : x = Unlocked(y) /\ d = Idle
    OBVIOUS
  <2>2. d \in DeedRecs /\ d.at = "idle"
    BY <2>1 DEF Idle, DeedRecs, UserPlaces
  <2>3. /\ x \in SlotRecs /\ x.iptr = y.iptr /\ x.count = y.count /\ x.ccount = y.ccount
        /\ x.caddr = y.caddr /\ "XLOCK" \notin x.flag /\ ("XLOAD" \in x.flag <=> "XLOAD" \in y.flag)
    BY <2>1, UnlockRecord
  <2>4. Swapped(p, s, x, d)
    BY <1>1, <1>2, <2>2, <2>3 DEF Swapped
  <2> QED BY <1>2, <2>1, <2>2, <2>4
<1>3. CASE /\ y.ccount = 0 /\ text' = [text EXCEPT ![s] = FoundBy(Locked(y), p)]
           /\ doing' = [doing EXCEPT ![Proc0] = Swapper("textin", p)] /\ UNCHANGED asleep
  <2>1. PICK z, x, d : z = Locked(y) /\ x = FoundBy(z, p) /\ d = Swapper("textin", p)
    OBVIOUS
  <2>2. d \in DeedRecs /\ d.at = "textin" /\ d.slot = s /\ d.proc = p
    BY <2>1, SwapperRecord DEF Proc0Places
  <2>3. /\ z \in SlotRecs /\ z.iptr = y.iptr /\ z.count = y.count /\ z.ccount = y.ccount
        /\ "XLOCK" \in z.flag /\ ("XLOAD" \in z.flag <=> "XLOAD" \in y.flag)
    BY <2>1, LockRecord
  <2>4. /\ x \in SlotRecs /\ x.iptr = z.iptr /\ x.count = z.count /\ x.ccount = z.ccount
        /\ x.caddr = p /\ x.flag = z.flag
    BY <2>1, <2>3, FoundRecord
  <2>5. Swapped(p, s, x, d)
    BY <1>1, <1>3, <2>2, <2>3, <2>4 DEF Swapped
  <2> QED BY <1>3, <2>1, <2>2, <2>5
<1>4. CASE /\ text' = [text EXCEPT ![s] = Unlocked(TextEntered(FoundBy(y, p)))] /\ Wakes(s)
           /\ doing' = [doing EXCEPT ![Proc0] = Swapper("image", p)]
  <2>1. PICK z, w, x, d : /\ z = FoundBy(y, p) /\ w = TextEntered(z) /\ x = Unlocked(w)
                          /\ d = Swapper("image", p)
    OBVIOUS
  <2>2. d \in DeedRecs /\ d.at = "image" /\ d.slot = s /\ d.proc = p
    BY <2>1, SwapperRecord DEF Proc0Places
  <2>3. /\ z \in SlotRecs /\ z.iptr = y.iptr /\ z.count = y.count /\ z.ccount = y.ccount
        /\ z.caddr = p /\ z.flag = y.flag
    BY <2>1, FoundRecord
  <2>4. /\ w \in SlotRecs /\ w.iptr = z.iptr /\ w.count = z.count /\ w.ccount = z.ccount + 1
        /\ w.caddr = z.caddr /\ w.flag = z.flag
    BY <2>1, <2>3, EnteredRecord
  <2>5. /\ x \in SlotRecs /\ x.iptr = w.iptr /\ x.count = w.count /\ x.ccount = w.ccount
        /\ x.caddr = w.caddr /\ "XLOCK" \notin x.flag /\ ("XLOAD" \in x.flag <=> "XLOAD" \in w.flag)
    BY <2>1, <2>4, UnlockRecord
  <2>6. Swapped(p, s, x, d)
    BY <1>1, <1>4, <2>2, <2>3, <2>4, <2>5 DEF Swapped
  <2> QED BY <1>4, <2>1, <2>2, <2>6
<1>5. CASE /\ y.ccount # 0 /\ Share(s, p, y) /\ Wakes(s)
           /\ doing' = [doing EXCEPT ![Proc0] = Swapper("image", p)]
  <2>1. PICK d : d = Swapper("image", p)
    OBVIOUS
  <2>2. d \in DeedRecs /\ d.at = "image" /\ d.slot = s /\ d.proc = p
    BY <2>1, SwapperRecord DEF Proc0Places
  <2>3. PICK x : /\ x \in SlotRecs /\ text' = [text EXCEPT ![s] = x]
              /\ x.iptr = y.iptr /\ x.count = y.count /\ x.ccount = y.ccount + 1
              /\ ("XLOAD" \in x.flag <=> "XLOAD" \in y.flag) /\ "XLOCK" \notin x.flag
              /\ \/ x.caddr # Nil /\ x.caddr = y.caddr
                 \/ x.caddr # p /\ x.caddr \in InCore(s)
    BY <1>5, ShareSlot
  <2>4. Swapped(p, s, x, d)
    BY <1>1, <1>5, <2>2, <2>3 DEF Swapped
  <2> QED BY <1>5, <2>1, <2>2, <2>3, <2>4
<1> QED BY <1>1, <1>2, <1>3, <1>4, <1>5, Zenon DEF Swapin

\* swapin: the text of a process that is brought in.
LEMMA SwapinKeeps ==
    ASSUME TextInv, Steady, Steady', NEW p \in Users, Swapin(p)
    PROVE  TextInv'
<1>1. /\ Runs(Proc0) /\ doing[Proc0].at \in {"idle", "swapin"} /\ TextTypes /\ SlotsOK
      /\ UNCHANGED <<pflag, textp, held, itext, irefs>>
      /\ doing[Proc0].at = "idle" => Out(p)
      /\ doing[Proc0].at # "idle" => p = Mine
      /\ textp[p] # Nil /\ "XLOCK" \notin text[textp[p]].flag
  BY DEF Swapin, At, TextInv, Gets
<1>2. /\ Proc0 \notin asleep /\ "SLOAD" \notin pflag[p] /\ Proc0 \in Doers
      /\ doing[p].at \notin {"gone", "read", "xswap", "loadswap", "selftext", "selfimage"}
      /\ doing[Proc0].at = "idle" \/ Mine = p
  BY <1>1, Proc0Works, OutIs DEF Out
<1>3. PICK s \in Slots : s = textp[p]
  BY <1>1 DEF TextTypes
<1>4. text[s] \in SlotRecs /\ "XLOCK" \notin text[s].flag /\ ~Inside(p)
  BY <1>1, <1>2, <1>3 DEF TextTypes, Inside
<1>5. text[s].iptr \in Programs
  BY <1>3, UsedSlot
<1>6. SlotIs(s, text[s]) /\ text[s].iptr # Nil /\ p \notin InCore(s)
  BY <1>1, <1>4, <1>5, InCoreIs, ThreeDoers DEF SlotsOK
<1>7. PICK d, x : /\ d \in DeedRecs /\ doing' = [doing EXCEPT ![Proc0] = d]
                  /\ text' = [text EXCEPT ![s] = x] /\ Swapped(p, s, x, d)
  BY <1>3, <1>4, SwapinDoes
<1>8. PICK g \in SUBSET {"SLOAD", "SLOCK"} : g = pflag[p]
  BY <1>1 DEF TextTypes
<1>9. d \in DeedRecs /\ x \in SlotRecs /\ d.at \in {"idle", "textin", "image"}
  BY <1>7 DEF Swapped
<1>10. Sched(p, s, d, g)
  BY <1>1, <1>2, <1>3, <1>7, <1>8 DEF Sched, Proc0Places, Swapped
<1>11. Moves(Proc0, p, s, x, d, s, g)
  <2>1. textp' = [textp EXCEPT ![p] = s] /\ pflag' = [pflag EXCEPT ![p] = g]
    BY <1>1, <1>3, <1>8, SetToItself
  <2>2. asleep' \subseteq Doers
    BY <1>1, <1>7 DEF Swapped, Wakes, TextTypes
  <2> QED BY <1>1, <1>7, <2>1, <2>2 DEF Moves, TextTypes
<1>12. /\ doing'[Proc0] = d /\ text'[s] = x
       /\ Inside(p)' <=> d.at = "image"
  <2>1. /\ doing'[Proc0] = d /\ text'[s] = x
        /\ Inside(p)' <=> "SLOAD" \in g \/ d.at \in {"image", "swapout"}
    <3>1. SchedStep(p, s, x, d, g)
      BY <1>9, <1>10, <1>11 DEF SchedStep
    <3> QED BY <3>1, SchedMoves
  <2> QED BY <1>2, <1>8, <1>9, <2>1
<1>13. LockKept(Proc0, s) \/ LockTaken(Proc0, s) \/ LockGiven(Proc0, s)
  BY <1>1, <1>4, <1>7, <1>12 DEF LockKept, LockTaken, Holding, Swapped
<1>14. AllWoken(s) \/ WaitOn(s)
  BY <1>4, <1>7 DEF AllWoken, WaitOn, Swapped
<1>15. FoundSo(Proc0, s)
  BY <1>4, <1>7, <1>12 DEF FoundSo, Swapped, Owner, Mine
<1>16. CoreChange(p, s, x)
  <2>1. text[s].ccount > 0 /\ text[s].caddr # Nil => text[s].caddr # p
    BY <1>6 DEF SlotIs
  <2>2. text[s].ccount \in Nat
    BY <1>6, UsersCount DEF SlotIs
  <2> QED BY <1>4, <1>7, <1>9, <1>12, <2>1, <2>2 DEF CoreChange, Swapped
<1> QED BY <1>9, <1>10, <1>11, <1>13, <1>14, <1>15, <1>16, SchedKeeps

----------------------------------------------------------------------------
(* The steps of those who remove texts *)

\* Whoever removes a text is no process, and does not work for one.
LEMMA Removes ==
    ASSUME TextInv, Steady, NEW a \in {Unlinker, Unmounter}, Runs(a)
    PROVE  /\ a \in Doers /\ a \notin Users /\ a # Proc0 /\ a \notin asleep /\ Nil \notin Users
           /\ a \in Lockers <=> a = Unlinker
           /\ RemoverOK(doing[a]) /\ doing[a] \in DeedRecs
           /\ doing[Proc0].at = "idle" \/ Mine # Nil
<1>1. /\ a \in Doers /\ a \notin Users /\ a # Proc0 /\ a \notin asleep /\ Nil \notin Users
      /\ a \in Lockers <=> a = Unlinker
  BY ThreeDoers DEF Doers, Runs, Lockers
<1>2. DoersOK /\ TextTypes
  BY DEF TextInv
<1>3. RemoverOK(doing[a]) /\ doing[a] \in DeedRecs
  BY <1>1, <1>2 DEF DoersOK, TextTypes
<1>4. doing[Proc0].at = "idle" \/ Mine # Nil
  BY <1>1, <1>2 DEF DoersOK, Proc0OK, Mine
<1> QED BY <1>1, <1>3, <1>4

\* It finds the slot locked.
LEMMA RemoveWaitsKeeps ==
    ASSUME TextInv, Steady, Steady', NEW a \in {Unlinker, Unmounter}, NEW s \in Slots,
           RemoveWaits(a, s)
    PROVE  TextInv'
<1>1. /\ Runs(a) /\ doing[a].at = "idle" /\ TextTypes /\ text[s].iptr # Nil
      /\ a = Unlinker => text[s].iptr \notin held
      /\ "XLOCK" \in text[s].flag /\ asleep' = asleep \cup {a}
      /\ text' = [text EXCEPT ![s].flag = @ \cup {"XWANT"}]
      /\ UNCHANGED <<pflag, textp, itext, irefs>>
  BY DEF RemoveWaits, MayRemove, At, TextInv
<1>2. /\ a \in Doers /\ a \notin Users /\ a # Proc0 /\ a \notin asleep /\ Nil \notin Users
      /\ a \in Lockers <=> a = Unlinker
      /\ RemoverOK(doing[a]) /\ doing[a] \in DeedRecs
      /\ doing[Proc0].at = "idle" \/ Mine # Nil
  BY <1>1, Removes
<1>3. PICK f \in Programs : f = text[s].iptr
  BY <1>1 DEF TextTypes, SlotRecs
<1>4. PICK d : d = [at |-> "untext", slot |-> s, prog |-> f, proc |-> Nil]
  OBVIOUS
<1>5. d \in DeedRecs /\ d.at = "untext" /\ d.slot = s /\ d.prog = f
  BY <1>4 DEF DeedRecs
<1>6. doing' = [doing EXCEPT ![a] = d] /\ held' = (IF a = Unlinker THEN held \cup {f} ELSE held)
  BY <1>3, <1>4 DEF RemoveWaits
<1>7. doing'[a] = d
  BY <1>1, <1>2, <1>5, <1>6 DEF TextTypes
<1>8. Places(a, Nil)
  BY <1>2, <1>5, <1>7 DEF Places, RemoverOK
<1>9. ProgramKept(a) \/ ProgramLocked(a, f)
  BY <1>1, <1>2, <1>3, <1>5, <1>6, <1>7 DEF ProgramKept, ProgramLocked
<1>10. WaitsFor(a, Nil, s, d)
  <2>1. held' \subseteq Programs
    BY <1>1, <1>6 DEF TextTypes
  <2> QED BY <1>1, <1>2, <1>5, <1>6, <2>1 DEF WaitsFor, Holding, LoadPlaces
<1> QED BY <1>2, <1>5, <1>8, <1>9, <1>10, WaitKeeps

\* It has the lock, and gives the slot up if nobody uses it.
LEMMA XuntextKeeps ==
    ASSUME TextInv, Steady, Steady', NEW a \in {Unlinker, Unmounter}, NEW s \in Slots, xuntext(a, s)
    PROVE  TextInv'
<1>1. /\ Runs(a) /\ doing[a].at \in {"idle", "untext"} /\ TextTypes /\ SlotsOK /\ InodesOK
      /\ "XLOCK" \notin text[s].flag
      /\ doing' = [doing EXCEPT ![a] = Idle]
      /\ held' = (IF a = Unlinker THEN held \ {doing[a].prog} ELSE held)
      /\ UNCHANGED <<pflag, textp>>
  BY DEF xuntext, MayRemove, At, Gets, TextInv
<1>2. /\ a \in Doers /\ a \notin Users /\ a # Proc0 /\ a \notin asleep /\ Nil \notin Users
      /\ a \in Lockers <=> a = Unlinker
      /\ RemoverOK(doing[a]) /\ doing[a] \in DeedRecs
      /\ doing[Proc0].at = "idle" \/ Mine # Nil
  BY <1>1, Removes
<1>3. text[s].iptr # Nil
  <2>1. CASE doing[a].at = "idle"
    BY <2>1 DEF xuntext, MayRemove, At
  <2>2. CASE doing[a].at = "untext"
    <3>1. strayed' = (text[s].iptr # doing[a].prog)
      BY <2>2 DEF xuntext, MayRemove, At, Gets
    <3>2. doing[a].prog \in Programs
      BY <1>2, <2>2 DEF RemoverOK
    <3> QED BY <3>1, <3>2, ThreeDoers DEF Steady
  <2> QED BY <1>1, <2>1, <2>2
<1>4. PICK d : d = Idle
  OBVIOUS
<1>5. d \in DeedRecs /\ d.at = "idle" /\ d.prog = Nil
  BY <1>4 DEF Idle, DeedRecs, UserPlaces
<1>6. /\ doing' \in [Doers -> DeedRecs] /\ doing'[a] = d
      /\ \A b \in Doers : b # a => doing'[b] = doing[b]
  BY <1>1, <1>2, <1>4, <1>5 DEF TextTypes
<1>7. held' \subseteq Programs
  BY <1>1 DEF TextTypes
<1>8. Places(a, Nil)
  BY <1>2, <1>5, <1>6 DEF Places, RemoverOK
<1>9. ProgramKept(a) \/ ProgramGone(a)
  BY <1>1, <1>2, <1>5, <1>6 DEF ProgramKept, ProgramGone
<1>10. ASSUME \A z \in Slots : z # s => text'[z] = text[z]
       PROVE  /\ Frame(a, Nil, s) /\ InsidesKept(Nil)
              /\ UsersOf(s)' = UsersOf(s) /\ InCore(s)' = InCore(s)
  <2>1. Frame(a, Nil, s)
    BY <1>1, <1>2, <1>6, <1>10 DEF Frame
  <2>2. InsidesKept(Nil)
    BY <1>2, <2>1, OthersInside
  <2>3. UsersOf(s)' = UsersOf(s) /\ InCore(s)' = InCore(s)
    BY <1>2, <2>1, <2>2, SetsStay
  <2> QED BY <2>1, <2>2, <2>3
<1>11. CASE /\ text' = [text EXCEPT ![s] = Unlocked(@)] /\ Wakes(s) /\ UNCHANGED <<itext, irefs>>
  <2>1. PICK x : x = Unlocked(text[s])
    OBVIOUS
  <2>2. /\ x \in SlotRecs /\ x.iptr = text[s].iptr /\ x.count = text[s].count
        /\ x.ccount = text[s].ccount /\ x.caddr = text[s].caddr /\ "XLOCK" \notin x.flag
        /\ ("XLOAD" \in x.flag <=> "XLOAD" \in text[s].flag)
    BY <1>1, <2>1, UnlockRecord DEF TextTypes
  <2>3. text' = [text EXCEPT ![s] = x]
    BY <1>11, <2>1, Zenon
  <2>4. text' \in [Slots -> SlotRecs] /\ text'[s] = x /\ \A z \in Slots : z # s => text'[z] = text[z]
    BY <1>1, <2>2, <2>3 DEF TextTypes
  <2>5. /\ Frame(a, Nil, s) /\ InsidesKept(Nil)
        /\ UsersOf(s)' = UsersOf(s) /\ InCore(s)' = InCore(s)
    BY <1>10, <2>4
  <2>6. TextTypes'
    BY <1>1, <1>6, <1>7, <1>11, <2>4 DEF TextTypes, Wakes
  <2>7. Mutual(a, s, Nil)
    <3>1. LockKept(a, s)
      BY <1>1, <1>5, <1>6, <2>2, <2>4 DEF LockKept, Holding
    <3>2. AllWoken(s) /\ FoundSo(a, s)
      BY <1>1, <1>5, <1>6, <1>11 DEF AllWoken, FoundSo
    <3> QED BY <1>2, <1>9, <3>1, <3>2 DEF Mutual
  <2>8. \A q \in UsersOf(s) : doing'[q] = doing[q]
    BY <1>2, <1>6 DEF UsersOf, Doers
  <2>9. SlotStays(s)
    BY <2>2, <2>4, <2>5, <2>8 DEF SlotStays
  <2>10. SlotKept(Nil, s)
    BY <1>1, <1>2, <2>9, SlotStaysSo DEF SlotsOK, SlotKept
  <2>11. InodesOK'
    <3>1. \A z \in Slots : text'[z].iptr = text[z].iptr
      BY <2>2, <2>4
    <3> QED BY <1>1, <1>11, <3>1, InodesKeep
  <2> QED BY <1>2, <1>8, <2>5, <2>6, <2>7, <2>10, <2>11, TextStepKeeps
<1>12. CASE Unused(text[s]) /\ GiveUp(s) /\ UNCHANGED asleep
  <2>1. \A z \in Slots : z # s => text'[z] = text[z]
    BY <1>1, <1>12 DEF GiveUp, TextTypes
  <2>2. /\ Frame(a, Nil, s) /\ InsidesKept(Nil) /\ UsersOf(s)' = UsersOf(s)
    BY <1>10, <2>1
  <2>3. UsersOf(s) = {}
    BY <1>1, <1>3, <1>12, UsersCount DEF SlotsOK, SlotIs, Unused
  <2>4. /\ text' \in [Slots -> SlotRecs] /\ itext' \subseteq Programs
        /\ irefs' \in [Programs -> Int] /\ SlotIs(s, text[s])' /\ InodesOK'
        /\ "XLOCK" \notin text'[s].flag
    BY <1>1, <1>3, <1>12, <2>2, <2>3, GiveUpSlot
  <2>5. TextTypes'
    BY <1>1, <1>6, <1>7, <1>12, <2>4 DEF TextTypes
  <2>6. Mutual(a, s, Nil)
    <3>1. LockKept(a, s)
      BY <1>1, <1>5, <1>6, <2>4 DEF LockKept, Holding
    <3>2. WaitOn(s) /\ FoundSo(a, s)
      BY <1>1, <1>5, <1>6, <1>12 DEF WaitOn, FoundSo
    <3> QED BY <1>2, <1>9, <3>1, <3>2 DEF Mutual
  <2>7. SlotKept(Nil, s)
    BY <1>2, <2>4 DEF SlotKept
  <2> QED BY <1>2, <1>8, <2>2, <2>4, <2>5, <2>6, <2>7, TextStepKeeps
<1> QED BY <1>3, <1>11, <1>12 DEF xuntext

----------------------------------------------------------------------------

\* Every step keeps the invariant.
LEMMA TextNextOK == TextInv /\ [TextNext]_textVars => TextInv'
<1> SUFFICES ASSUME TextInv, [TextNext]_textVars, Steady' PROVE TextInv'
  BY DEF TextInv
<1>1. CASE UNCHANGED textVars
  <2>1. /\ UNCHANGED <<text, pflag, textp, held, itext, irefs, doing, asleep>> /\ Steady
    BY <1>1 DEF textVars, Steady
  <2>2. /\ TextTypes /\ DoersOK /\ ProgramsOK /\ LocksOK /\ WaitersOK /\ ReadersOK /\ SlotsOK
        /\ InodesOK
    BY <2>1 DEF TextInv
  <2>3. TextTypes' /\ ProgramsOK' /\ InodesOK'
    BY <2>1, <2>2 DEF TextTypes, ProgramsOK, InodesOK
  <2>4. DoersOK'
    BY <2>1, <2>2 DEF DoersOK, UserOK, Proc0OK, RemoverOK
  <2>5. LocksOK' /\ WaitersOK' /\ ReadersOK'
    BY <2>1, <2>2 DEF LocksOK, WaitersOK, ReadersOK, Reads, Owner, Mine, HoldsSlot, TextSlot
  <2>6. \A s : UsersOf(s)' = UsersOf(s) /\ InCore(s)' = InCore(s)
    BY <2>1 DEF UsersOf, InCore, Mine
  <2>7. SlotsOK'
    BY <2>1, <2>2, <2>6 DEF SlotsOK, SlotIs
  <2> QED BY <2>3, <2>4, <2>5, <2>7 DEF TextInv
<1>2. ASSUME NEW p \in Users, UserStep(p) PROVE TextInv'
  <2>1. ASSUME NEW f \in Programs \cup {Nil}, Leave(p, f) PROVE TextInv'
    BY <2>1, LeaveKeeps DEF Leave, At, Runs
  <2>2. ASSUME NEW q \in Users, ForkText(p, q) PROVE TextInv'
    BY <2>2, ForkTextKeeps DEF ForkText, At, Runs
  <2>3. ASSUME NEW s \in Slots, Attach(p, s) PROVE TextInv'
    BY <2>3, AttachKeeps DEF Attach, At, Runs
  <2>4. CASE xfree(p)
    BY <2>4, XfreeKeeps DEF xfree, At, Runs
  <2>5. CASE FreeWritten(p)
    BY <2>5, FreeWrittenKeeps DEF FreeWritten, At, Runs
  <2>6. CASE FindText(p)
    BY <2>6, FindTextKeeps DEF FindText, At, Runs
  <2>7. CASE NewText(p)
    BY <2>7, NewTextKeeps DEF NewText, At, Runs
  <2>8. CASE OutOfText(p)
    BY <2>8, OutOfTextKeeps DEF OutOfText, At, Runs
  <2>9. CASE TextRead(p)
    BY <2>9, TextReadKeeps DEF TextRead, At, Runs
  <2>10. CASE FileRead(p)
    BY <2>10, FileReadKeeps DEF FileRead, At, Runs
  <2>11. CASE SwappedItself(p)
    BY <2>11, SwappedItselfKeeps DEF SwappedItself, Runs
  <2>12. CASE Back(p)
    BY <2>12, BackKeeps DEF Back, At, Runs
  <2>13. CASE BackToRead(p)
    BY <2>13, BackToReadKeeps DEF BackToRead, At, Runs
  <2>14. CASE ExpandText(p)
    BY <2>14, ExpandTextKeeps DEF ExpandText, At, Runs
  <2>15. CASE XswapFirst(p)
    BY <2>15, XswapFirstKeeps DEF XswapFirst, At, Runs
  <2>16. CASE XswapText(p)
    BY <2>16, XswapTextKeeps DEF XswapText, At, Runs
  <2>17. CASE XswapImage(p)
    BY <2>17, XswapImageKeeps DEF XswapImage, At, Runs
  <2> QED BY <1>2, <2>1, <2>2, <2>3, <2>4, <2>5, <2>6, <2>7, <2>8, <2>9, <2>10, <2>11, <2>12,
             <2>13, <2>14, <2>15, <2>16, <2>17 DEF UserStep
<1>3. ASSUME NEW a \in Doers, xlock(a) PROVE TextInv'
  BY <1>3, XlockKeeps DEF xlock, Runs
<1>4. CASE Proc0Step
  <2>1. ASSUME NEW p \in Users, SwapinWaits(p) PROVE TextInv'
    BY <2>1, SwapinWaitsKeeps DEF SwapinWaits, At, Runs
  <2>2. ASSUME NEW p \in Users, SwapinNoText(p) PROVE TextInv'
    BY <2>2, SwapinNoTextKeeps DEF SwapinNoText, At, Runs
  <2>3. ASSUME NEW p \in Users, Swapin(p) PROVE TextInv'
    BY <2>3, SwapinKeeps DEF Swapin, At, Runs
  <2>4. ASSUME NEW p \in Users, SwapoutFirst(p) PROVE TextInv'
    BY <2>4, SwapoutFirstKeeps DEF SwapoutFirst, At, Runs
  <2>5. CASE SwapinText
    BY <2>5, SwapinTextKeeps DEF SwapinText, At, Runs
  <2>6. CASE SwapinImage
    BY <2>6, SwapinImageKeeps DEF SwapinImage, At, Runs
  <2>7. CASE SwapoutVictim
    BY <2>7, SwapoutVictimKeeps DEF SwapoutVictim, At, Runs
  <2>8. CASE SwapoutText
    BY <2>8, SwapoutTextKeeps DEF SwapoutText, At, Runs
  <2>9. CASE SwapoutImage
    BY <2>9, SwapoutImageKeeps DEF SwapoutImage, At, Runs
  <2> QED BY <1>4, <2>1, <2>2, <2>3, <2>4, <2>5, <2>6, <2>7, <2>8, <2>9 DEF Proc0Step
<1>5. ASSUME NEW a \in {Unlinker, Unmounter}, NEW s \in Slots, RemovesText(a, s) PROVE TextInv'
  <2>1. Steady
    BY <1>5 DEF RemovesText, RemoveWaits, xuntext, MayRemove, At, Runs
  <2> QED BY <1>5, <2>1, RemoveWaitsKeeps, XuntextKeeps DEF RemovesText
<1> QED BY <1>1, <1>2, <1>3, <1>4, <1>5 DEF TextNext

\* text.c:127-365: the counts of a text are those of its users and of its users in core, it is
\* found by one of these, who waits for its lock is woken, and nobody executes it unread.
THEOREM TextTheorem == TextSpec => []TextOK
<1>1. TextInit => TextInv
  BY TextInitOK
<1>2. TextInv /\ [TextNext]_textVars => TextInv'
  BY TextNextOK
<1>3. TextInv => TextOK
  BY TextInvImplies
<1> QED BY <1>1, <1>2, <1>3, PTL DEF TextSpec
=============================================================================
