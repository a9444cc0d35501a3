---------------------------- MODULE Pipe_proofs ----------------------------
(***************************************************************************)
(* Proofs about a pipe, for any number of processes, any PIPSIZ and any    *)
(* number of calls, updates and signals.                                   *)
(***************************************************************************)
EXTENDS Pipe, SequenceTheorems, TLAPS

Freeing == \E p \in Procs : pc[p] = "iput"

\* i_count: the open ends, update's reference, and the last one until iput has
\* freed the inode.
RefsOK ==
    count = One(inuse["r"]) + One(inuse["w"]) + One(syncing)
              + One(Freeing)

\* Who holds which end.
EndsOK ==
    /\ \A p \in Procs :
        /\ pc[p] \in {"readp", "readi"} => p \in fds["r"]
        /\ pc[p] \in {"writep", "writei"} => p \in fds["w"]
        /\ pc[p] = "closer" => /\ inuse["r"] /\ fds["r"] = {}
                               /\ \A q \in Procs : pc[q] = "closer" => q = p
        /\ pc[p] = "closew" => /\ inuse["w"] /\ fds["w"] = {}
                               /\ \A q \in Procs : pc[q] = "closew" => q = p
        /\ pc[p] = "iput" => ~inuse["r"] /\ ~inuse["w"]
    /\ \A e \in End : fds[e] # {} => inuse[e]

\* Where a process may be asleep.
WaitsOK ==
    /\ iwant => ilock
    /\ \A p \in Procs :
        /\ wchan[p] = "ip" => pc[p] \in {"readp", "writep", "closer", "closew"}
        /\ wchan[p] = "ip1" => pc[p] = "writep"
        /\ wchan[p] = "ip2" => pc[p] = "readp"

\* Only a writer that found room is in writei.
SizeOK ==
    /\ FileWithinTwoWrites
    /\ \A p \in Procs : pc[p] = "writei" => Size < PIPSIZ /\ n[p] > 0

PipeInv ==
    /\ TypeOK /\ LockExcludes /\ RefsOK /\ EndsOK /\ SleepsForAReason
    /\ WaitsOK /\ SizeOK

\* The smaller of two numbers.
LEMMA MinOfTwo ==
    ASSUME NEW a \in Nat, NEW b \in Nat
    PROVE  /\ Min({a, b}) \in Nat
           /\ Min({a, b}) <= a /\ Min({a, b}) <= b
           /\ Min({a, b}) = a \/ Min({a, b}) = b
<1> DEFINE m == Min({a, b})
<1>1. \E x \in {a, b} : \A y \in {a, b} : x <= y
  <2>1. CASE a <= b
    BY <2>1
  <2>2. CASE ~(a <= b)
    BY <2>2
  <2> QED BY <2>1, <2>2
<1>2. m \in {a, b} /\ \A y \in {a, b} : m <= y
  BY <1>1 DEF Min
<1> QED BY <1>2

\* pipe() leaves an unlocked inode with two references and one process.
LEMMA PipeInvInit == Init => PipeInv
<1> SUFFICES ASSUME Init PROVE PipeInv
  OBVIOUS
<1> USE PipeAssumption
<1>1. TypeOK
  <2>1. file \in Seq(Procs \X Nat)
    BY DEF Init
  <2>2. DOMAIN result = Procs
    BY DEF Init
  <2> QED BY <2>1, <2>2 DEF Init, TypeOK, End, PC
<1>2. LockExcludes /\ RefsOK
  BY DEF Init, LockExcludes, Working, RefsOK, Freeing, One, End
<1>3. EndsOK /\ SleepsForAReason /\ WaitsOK
  BY DEF Init, EndsOK, SleepsForAReason, WaitsOK, End
<1>4. SizeOK
  BY DEF Init, SizeOK, FileWithinTwoWrites, Size
<1> QED BY <1>1, <1>2, <1>3, <1>4 DEF PipeInv

\* Where nobody has the lock i_count counts the open ends.
LEMMA UnlockedCount ==
    ASSUME PipeInv, ~ilock
    PROVE  /\ count = One(inuse["r"]) + One(inuse["w"])
           /\ ~syncing /\ \A q \in Procs : ~Working(q)
<1>1. ~syncing /\ \A q \in Procs : ~Working(q)
  BY DEF PipeInv, LockExcludes
<1>2. One(syncing) = 0 /\ One(Freeing) = 0
  BY <1>1 DEF One, Working, Freeing
<1>3. One(inuse["r"]) \in Nat /\ One(inuse["w"]) \in Nat
  BY DEF One
<1> QED BY <1>1, <1>2, <1>3 DEF PipeInv, RefsOK

\* plock waits, and marks the inode.
LEMMA PlockSleepStep ==
    ASSUME PipeInv, NEW p \in Procs, PlockSleep(p)
    PROVE  PipeInv'
<1> USE PipeAssumption DEF PipeInv
<1>1. TypeOK'
  BY DEF PlockSleep, Return, Prele, Wakeup, IwantChans, Sleep, At, Awake, Call, inodeVars, fileVars, procVars, counters, TypeOK, PC, End
<1>2. LockExcludes'
  BY DEF PlockSleep, Return, Prele, Wakeup, IwantChans, Sleep, At, Awake, Call, inodeVars, fileVars, procVars, counters, LockExcludes, Working, TypeOK, WaitsOK
<1>3. RefsOK'
  BY DEF PlockSleep, Return, Prele, Wakeup, IwantChans, Sleep, At, Awake, Call, inodeVars, fileVars, procVars, counters, RefsOK, Freeing, TypeOK, WaitsOK
<1>4. EndsOK'
  BY DEF PlockSleep, Return, Prele, Wakeup, IwantChans, Sleep, At, Awake, Call, inodeVars, fileVars, procVars, counters, EndsOK, TypeOK, End
<1>5. SleepsForAReason' /\ WaitsOK'
  BY DEF PlockSleep, Return, Prele, Wakeup, IwantChans, Sleep, At, Awake, Call, inodeVars, fileVars, procVars, counters, SleepsForAReason, WaitsOK, TypeOK, Size, LockExcludes
<1>6. SizeOK'
  BY DEF PlockSleep, Return, Prele, Wakeup, IwantChans, Sleep, At, Awake, Call, inodeVars, fileVars, procVars, counters, SizeOK, FileWithinTwoWrites, Size, TypeOK
<1> QED BY <1>1, <1>2, <1>3, <1>4, <1>5, <1>6

\* A read or a write begins.
LEMMA CallStep ==
    ASSUME PipeInv, NEW p \in Procs, NEW e \in End, NEW l \in {"readp", "writep"}, e = (IF l = "readp" THEN "r" ELSE "w"),
           Call(p, e, l)
    PROVE  PipeInv'
<1> USE PipeAssumption DEF PipeInv
<1>1. TypeOK'
  BY DEF Call, Return, Prele, Wakeup, IwantChans, Sleep, At, Awake, Call, inodeVars, fileVars, procVars, counters, TypeOK, PC, End
<1>2. LockExcludes'
  BY DEF Call, Return, Prele, Wakeup, IwantChans, Sleep, At, Awake, Call, inodeVars, fileVars, procVars, counters, LockExcludes, Working, TypeOK, WaitsOK
<1>3. RefsOK'
  BY DEF Call, Return, Prele, Wakeup, IwantChans, Sleep, At, Awake, Call, inodeVars, fileVars, procVars, counters, RefsOK, Freeing, TypeOK, WaitsOK
<1>4. EndsOK'
  BY DEF Call, Return, Prele, Wakeup, IwantChans, Sleep, At, Awake, Call, inodeVars, fileVars, procVars, counters, EndsOK, TypeOK, End
<1>5. SleepsForAReason' /\ WaitsOK'
  BY DEF Call, Return, Prele, Wakeup, IwantChans, Sleep, At, Awake, Call, inodeVars, fileVars, procVars, counters, SleepsForAReason, WaitsOK, TypeOK, Size, LockExcludes
<1>6. SizeOK'
  BY DEF Call, Return, Prele, Wakeup, IwantChans, Sleep, At, Awake, Call, inodeVars, fileVars, procVars, counters, SizeOK, FileWithinTwoWrites, Size, TypeOK
<1> QED BY <1>1, <1>2, <1>3, <1>4, <1>5, <1>6

\* End of file.
LEMMA ReadpEofStep ==
    ASSUME PipeInv, NEW p \in Procs, ReadpEof(p)
    PROVE  PipeInv'
<1> USE PipeAssumption DEF PipeInv
<1>1. TypeOK'
  BY DEF ReadpEof, Return, Prele, Wakeup, IwantChans, Sleep, At, Awake, Call, inodeVars, fileVars, procVars, counters, TypeOK, PC, End
<1>2. LockExcludes'
  BY DEF ReadpEof, Return, Prele, Wakeup, IwantChans, Sleep, At, Awake, Call, inodeVars, fileVars, procVars, counters, LockExcludes, Working, TypeOK, WaitsOK
<1>3. RefsOK'
  BY DEF ReadpEof, Return, Prele, Wakeup, IwantChans, Sleep, At, Awake, Call, inodeVars, fileVars, procVars, counters, RefsOK, Freeing, TypeOK, WaitsOK
<1>4. EndsOK'
  BY DEF ReadpEof, Return, Prele, Wakeup, IwantChans, Sleep, At, Awake, Call, inodeVars, fileVars, procVars, counters, EndsOK, TypeOK, End
<1>5. SleepsForAReason' /\ WaitsOK'
  BY DEF ReadpEof, Return, Prele, Wakeup, IwantChans, Sleep, At, Awake, Call, inodeVars, fileVars, procVars, counters, SleepsForAReason, WaitsOK, TypeOK, Size, LockExcludes
<1>6. SizeOK'
  BY DEF ReadpEof, Return, Prele, Wakeup, IwantChans, Sleep, At, Awake, Call, inodeVars, fileVars, procVars, counters, SizeOK, FileWithinTwoWrites, Size, TypeOK
<1> QED BY <1>1, <1>2, <1>3, <1>4, <1>5, <1>6

\* A reader waits: with i_count at two the other end is open.
LEMMA ReadpWaitStep ==
    ASSUME PipeInv, NEW p \in Procs, ReadpWait(p)
    PROVE  PipeInv'
<1> USE PipeAssumption DEF PipeInv
<1>0. inuse["r"] /\ inuse["w"]
  BY UnlockedCount DEF ReadpWait, One
<1>1. TypeOK'
  BY DEF ReadpWait, Return, Prele, Wakeup, IwantChans, Sleep, At, Awake, Call, inodeVars, fileVars, procVars, counters, TypeOK, PC, End
<1>2. LockExcludes'
  BY DEF ReadpWait, Return, Prele, Wakeup, IwantChans, Sleep, At, Awake, Call, inodeVars, fileVars, procVars, counters, LockExcludes, Working, TypeOK, WaitsOK
<1>3. RefsOK'
  BY DEF ReadpWait, Return, Prele, Wakeup, IwantChans, Sleep, At, Awake, Call, inodeVars, fileVars, procVars, counters, RefsOK, Freeing, TypeOK, WaitsOK
<1>4. EndsOK'
  BY DEF ReadpWait, Return, Prele, Wakeup, IwantChans, Sleep, At, Awake, Call, inodeVars, fileVars, procVars, counters, EndsOK, TypeOK, End
<1>5. SleepsForAReason' /\ WaitsOK'
  BY <1>0 DEF ReadpWait, Return, Prele, Wakeup, IwantChans, Sleep, At, Awake, Call, inodeVars, fileVars, procVars, counters, SleepsForAReason, WaitsOK, TypeOK, Size, LockExcludes
<1>6. SizeOK'
  BY DEF ReadpWait, Return, Prele, Wakeup, IwantChans, Sleep, At, Awake, Call, inodeVars, fileVars, procVars, counters, SizeOK, FileWithinTwoWrites, Size, TypeOK
<1> QED BY <1>1, <1>2, <1>3, <1>4, <1>5, <1>6

\* A reader takes the lock.
LEMMA ReadpStartStep ==
    ASSUME PipeInv, NEW p \in Procs, ReadpStart(p)
    PROVE  PipeInv'
<1> USE PipeAssumption DEF PipeInv
<1>1. TypeOK'
  BY DEF ReadpStart, Return, Prele, Wakeup, IwantChans, Sleep, At, Awake, Call, inodeVars, fileVars, procVars, counters, TypeOK, PC, End
<1>2. LockExcludes'
  BY DEF ReadpStart, Return, Prele, Wakeup, IwantChans, Sleep, At, Awake, Call, inodeVars, fileVars, procVars, counters, LockExcludes, Working, TypeOK, WaitsOK
<1>3. RefsOK'
  BY DEF ReadpStart, Return, Prele, Wakeup, IwantChans, Sleep, At, Awake, Call, inodeVars, fileVars, procVars, counters, RefsOK, Freeing, TypeOK, WaitsOK
<1>4. EndsOK'
  BY DEF ReadpStart, Return, Prele, Wakeup, IwantChans, Sleep, At, Awake, Call, inodeVars, fileVars, procVars, counters, EndsOK, TypeOK, End
<1>5. SleepsForAReason' /\ WaitsOK'
  BY DEF ReadpStart, Return, Prele, Wakeup, IwantChans, Sleep, At, Awake, Call, inodeVars, fileVars, procVars, counters, SleepsForAReason, WaitsOK, TypeOK, Size, LockExcludes
<1>6. SizeOK'
  BY DEF ReadpStart, Return, Prele, Wakeup, IwantChans, Sleep, At, Awake, Call, inodeVars, fileVars, procVars, counters, SizeOK, FileWithinTwoWrites, Size, TypeOK
<1> QED BY <1>1, <1>2, <1>3, <1>4, <1>5, <1>6

\* A write is finished.
LEMMA WritepDoneStep ==
    ASSUME PipeInv, NEW p \in Procs, WritepDone(p)
    PROVE  PipeInv'
<1> USE PipeAssumption DEF PipeInv
<1>1. TypeOK'
  BY DEF WritepDone, Return, Prele, Wakeup, IwantChans, Sleep, At, Awake, Call, inodeVars, fileVars, procVars, counters, TypeOK, PC, End
<1>2. LockExcludes'
  BY DEF WritepDone, Return, Prele, Wakeup, IwantChans, Sleep, At, Awake, Call, inodeVars, fileVars, procVars, counters, LockExcludes, Working, TypeOK, WaitsOK
<1>3. RefsOK'
  BY DEF WritepDone, Return, Prele, Wakeup, IwantChans, Sleep, At, Awake, Call, inodeVars, fileVars, procVars, counters, RefsOK, Freeing, TypeOK, WaitsOK
<1>4. EndsOK'
  BY DEF WritepDone, Return, Prele, Wakeup, IwantChans, Sleep, At, Awake, Call, inodeVars, fileVars, procVars, counters, EndsOK, TypeOK, End
<1>5. SleepsForAReason' /\ WaitsOK'
  BY DEF WritepDone, Return, Prele, Wakeup, IwantChans, Sleep, At, Awake, Call, inodeVars, fileVars, procVars, counters, SleepsForAReason, WaitsOK, TypeOK, Size, LockExcludes
<1>6. SizeOK'
  BY DEF WritepDone, Return, Prele, Wakeup, IwantChans, Sleep, At, Awake, Call, inodeVars, fileVars, procVars, counters, SizeOK, FileWithinTwoWrites, Size, TypeOK
<1> QED BY <1>1, <1>2, <1>3, <1>4, <1>5, <1>6

\* Nobody reads any more.
LEMMA WritepBrokenStep ==
    ASSUME PipeInv, NEW p \in Procs, WritepBroken(p)
    PROVE  PipeInv'
<1> USE PipeAssumption DEF PipeInv
<1>1. TypeOK'
  BY DEF WritepBroken, Return, Prele, Wakeup, IwantChans, Sleep, At, Awake, Call, inodeVars, fileVars, procVars, counters, TypeOK, PC, End
<1>2. LockExcludes'
  BY DEF WritepBroken, Return, Prele, Wakeup, IwantChans, Sleep, At, Awake, Call, inodeVars, fileVars, procVars, counters, LockExcludes, Working, TypeOK, WaitsOK
<1>3. RefsOK'
  BY DEF WritepBroken, Return, Prele, Wakeup, IwantChans, Sleep, At, Awake, Call, inodeVars, fileVars, procVars, counters, RefsOK, Freeing, TypeOK, WaitsOK
<1>4. EndsOK'
  BY DEF WritepBroken, Return, Prele, Wakeup, IwantChans, Sleep, At, Awake, Call, inodeVars, fileVars, procVars, counters, EndsOK, TypeOK, End
<1>5. SleepsForAReason' /\ WaitsOK'
  BY DEF WritepBroken, Return, Prele, Wakeup, IwantChans, Sleep, At, Awake, Call, inodeVars, fileVars, procVars, counters, SleepsForAReason, WaitsOK, TypeOK, Size, LockExcludes
<1>6. SizeOK'
  BY DEF WritepBroken, Return, Prele, Wakeup, IwantChans, Sleep, At, Awake, Call, inodeVars, fileVars, procVars, counters, SizeOK, FileWithinTwoWrites, Size, TypeOK
<1> QED BY <1>1, <1>2, <1>3, <1>4, <1>5, <1>6

\* A writer waits for room.
LEMMA WritepFullStep ==
    ASSUME PipeInv, NEW p \in Procs, WritepFull(p)
    PROVE  PipeInv'
<1> USE PipeAssumption DEF PipeInv
<1>0. inuse["r"] /\ inuse["w"]
  BY UnlockedCount DEF WritepFull, One
<1>1. TypeOK'
  BY DEF WritepFull, Return, Prele, Wakeup, IwantChans, Sleep, At, Awake, Call, inodeVars, fileVars, procVars, counters, TypeOK, PC, End
<1>2. LockExcludes'
  BY DEF WritepFull, Return, Prele, Wakeup, IwantChans, Sleep, At, Awake, Call, inodeVars, fileVars, procVars, counters, LockExcludes, Working, TypeOK, WaitsOK
<1>3. RefsOK'
  BY DEF WritepFull, Return, Prele, Wakeup, IwantChans, Sleep, At, Awake, Call, inodeVars, fileVars, procVars, counters, RefsOK, Freeing, TypeOK, WaitsOK
<1>4. EndsOK'
  BY DEF WritepFull, Return, Prele, Wakeup, IwantChans, Sleep, At, Awake, Call, inodeVars, fileVars, procVars, counters, EndsOK, TypeOK, End
<1>5. SleepsForAReason' /\ WaitsOK'
  BY <1>0 DEF WritepFull, Return, Prele, Wakeup, IwantChans, Sleep, At, Awake, Call, inodeVars, fileVars, procVars, counters, SleepsForAReason, WaitsOK, TypeOK, Size, LockExcludes, Full
<1>6. SizeOK'
  BY DEF WritepFull, Return, Prele, Wakeup, IwantChans, Sleep, At, Awake, Call, inodeVars, fileVars, procVars, counters, SizeOK, FileWithinTwoWrites, Size, TypeOK
<1> QED BY <1>1, <1>2, <1>3, <1>4, <1>5, <1>6

\* A writer takes the lock.
LEMMA WritepStartStep ==
    ASSUME PipeInv, NEW p \in Procs, WritepStart(p)
    PROVE  PipeInv'
<1> USE PipeAssumption DEF PipeInv
<1>1. TypeOK'
  BY DEF WritepStart, Return, Prele, Wakeup, IwantChans, Sleep, At, Awake, Call, inodeVars, fileVars, procVars, counters, TypeOK, PC, End
<1>2. LockExcludes'
  BY DEF WritepStart, Return, Prele, Wakeup, IwantChans, Sleep, At, Awake, Call, inodeVars, fileVars, procVars, counters, LockExcludes, Working, TypeOK, WaitsOK
<1>3. RefsOK'
  BY DEF WritepStart, Return, Prele, Wakeup, IwantChans, Sleep, At, Awake, Call, inodeVars, fileVars, procVars, counters, RefsOK, Freeing, TypeOK, WaitsOK
<1>4. EndsOK'
  BY DEF WritepStart, Return, Prele, Wakeup, IwantChans, Sleep, At, Awake, Call, inodeVars, fileVars, procVars, counters, EndsOK, TypeOK, End
<1>5. SleepsForAReason' /\ WaitsOK'
  BY DEF WritepStart, Return, Prele, Wakeup, IwantChans, Sleep, At, Awake, Call, inodeVars, fileVars, procVars, counters, SleepsForAReason, WaitsOK, TypeOK, Size, LockExcludes
<1>6. SizeOK'
  BY DEF WritepStart, Return, Prele, Wakeup, IwantChans, Sleep, At, Awake, Call, inodeVars, fileVars, procVars, counters, SizeOK, FileWithinTwoWrites, Size, TypeOK, Full
<1> QED BY <1>1, <1>2, <1>3, <1>4, <1>5, <1>6

\* A signal ends a wait.
LEMMA SignalStep ==
    ASSUME PipeInv, NEW p \in Procs, Signal(p)
    PROVE  PipeInv'
<1> USE PipeAssumption DEF PipeInv
<1>1. TypeOK'
  BY DEF Signal, Return, Prele, Wakeup, IwantChans, Sleep, At, Awake, Call, inodeVars, fileVars, procVars, counters, TypeOK, PC, End
<1>2. LockExcludes'
  BY DEF Signal, Return, Prele, Wakeup, IwantChans, Sleep, At, Awake, Call, inodeVars, fileVars, procVars, counters, LockExcludes, Working, TypeOK, WaitsOK
<1>3. RefsOK'
  BY DEF Signal, Return, Prele, Wakeup, IwantChans, Sleep, At, Awake, Call, inodeVars, fileVars, procVars, counters, RefsOK, Freeing, TypeOK, WaitsOK
<1>4. EndsOK'
  BY DEF Signal, Return, Prele, Wakeup, IwantChans, Sleep, At, Awake, Call, inodeVars, fileVars, procVars, counters, EndsOK, TypeOK, End
<1>5. SleepsForAReason' /\ WaitsOK'
  BY DEF Signal, Return, Prele, Wakeup, IwantChans, Sleep, At, Awake, Call, inodeVars, fileVars, procVars, counters, SleepsForAReason, WaitsOK, TypeOK, Size, LockExcludes
<1>6. SizeOK'
  BY DEF Signal, Return, Prele, Wakeup, IwantChans, Sleep, At, Awake, Call, inodeVars, fileVars, procVars, counters, SizeOK, FileWithinTwoWrites, Size, TypeOK
<1> QED BY <1>1, <1>2, <1>3, <1>4, <1>5, <1>6

\* update takes the lock and a reference.
LEMMA UpdateStartStep ==
    ASSUME PipeInv, UpdateStart
    PROVE  PipeInv'
<1> USE PipeAssumption DEF PipeInv
<1>0. /\ ~syncing /\ \A q \in Procs : ~Working(q)
      /\ pc' = pc /\ inuse' = inuse /\ count' = count + 1
  BY UnlockedCount DEF UpdateStart, UpdateFinds, fileVars, procVars
<1>1. TypeOK'
  BY DEF UpdateStart, Return, Prele, Wakeup, IwantChans, Sleep, At, Awake, Call, inodeVars, fileVars, procVars, counters, TypeOK, PC, End
<1>2. LockExcludes'
  BY <1>0 DEF UpdateStart, LockExcludes, Working
<1>3. RefsOK'
  <2>1. One(syncing) = 0 /\ One(syncing') = 1
    BY <1>0 DEF UpdateStart, One
  <2>2. One(inuse["r"]) \in Nat /\ One(inuse["w"]) \in Nat
        /\ One(Freeing) \in Nat
    BY DEF One
  <2>3. One(Freeing') = One(Freeing)
    BY <1>0 DEF Freeing
  <2> QED BY <1>0, <2>1, <2>2, <2>3 DEF RefsOK, UpdateStart
<1>4. EndsOK'
  BY DEF UpdateStart, Return, Prele, Wakeup, IwantChans, Sleep, At, Awake, Call, inodeVars, fileVars, procVars, counters, EndsOK, TypeOK, End
<1>5. SleepsForAReason' /\ WaitsOK'
  BY DEF UpdateStart, Return, Prele, Wakeup, IwantChans, Sleep, At, Awake, Call, inodeVars, fileVars, procVars, counters, SleepsForAReason, WaitsOK, TypeOK, Size, LockExcludes
<1>6. SizeOK'
  BY DEF UpdateStart, Return, Prele, Wakeup, IwantChans, Sleep, At, Awake, Call, inodeVars, fileVars, procVars, counters, SizeOK, FileWithinTwoWrites, Size, TypeOK
<1> QED BY <1>1, <1>2, <1>3, <1>4, <1>5, <1>6

\* update gives both back.
LEMMA UpdateEndStep ==
    ASSUME PipeInv, UpdateEnd
    PROVE  PipeInv'
<1> USE PipeAssumption DEF PipeInv
<1>0. /\ pc' = pc /\ inuse' = inuse
      /\ count' = One(inuse["r"]) + One(inuse["w"])
                    + One(Freeing)
      /\ count' \in Nat
  <2>1. One(syncing) = 1
    BY DEF UpdateEnd, One
  <2>2. /\ One(inuse["r"]) \in Nat /\ One(inuse["w"]) \in Nat
        /\ One(Freeing) \in Nat
    BY DEF One
  <2>3. pc' = pc /\ inuse' = inuse /\ count' = count - 1
    BY DEF UpdateEnd, fileVars
  <2>4. count = One(inuse["r"]) + One(inuse["w"]) + 1 + One(Freeing)
    BY <2>1 DEF RefsOK
  <2> HIDE DEF PipeInv
  <2> QED BY <2>2, <2>3, <2>4
<1>1. TypeOK'
  BY <1>0 DEF UpdateEnd, Return, Prele, Wakeup, IwantChans, Sleep, At, Awake, Call, inodeVars, fileVars, procVars, counters, TypeOK, PC, End
<1>2. LockExcludes'
  BY DEF UpdateEnd, Return, Prele, Wakeup, IwantChans, Sleep, At, Awake, Call, inodeVars, fileVars, procVars, counters, LockExcludes, Working, TypeOK, WaitsOK
<1>3. RefsOK'
  <2>1. One(syncing') = 0
    BY DEF UpdateEnd, One
  <2>2. /\ One(inuse["r"]) \in Nat /\ One(inuse["w"]) \in Nat
        /\ One(Freeing) \in Nat
    BY DEF One
  <2>3. One(Freeing') = One(Freeing)
    BY <1>0 DEF Freeing
  <2> QED BY <1>0, <2>1, <2>2, <2>3 DEF RefsOK
<1>4. EndsOK'
  BY DEF UpdateEnd, Return, Prele, Wakeup, IwantChans, Sleep, At, Awake, Call, inodeVars, fileVars, procVars, counters, EndsOK, TypeOK, End
<1>5. SleepsForAReason' /\ WaitsOK'
  BY DEF UpdateEnd, Return, Prele, Wakeup, IwantChans, Sleep, At, Awake, Call, inodeVars, fileVars, procVars, counters, SleepsForAReason, WaitsOK, TypeOK, Size, LockExcludes
<1>6. SizeOK'
  BY DEF UpdateEnd, Return, Prele, Wakeup, IwantChans, Sleep, At, Awake, Call, inodeVars, fileVars, procVars, counters, SizeOK, FileWithinTwoWrites, Size, TypeOK
<1> QED BY <1>1, <1>2, <1>3, <1>4, <1>5, <1>6

\* The inode is freed.
LEMMA IputEndStep ==
    ASSUME PipeInv, NEW p \in Procs, IputEnd(p)
    PROVE  PipeInv'
<1> USE PipeAssumption DEF PipeInv
<1>0. /\ ~inuse["r"] /\ ~inuse["w"] /\ ~syncing
      /\ \A q \in Procs : pc'[q] # "iput" /\ (q # p => pc'[q] = pc[q])
      /\ file' = <<>> /\ file' \in Seq(Procs \X Nat)
  BY DEF IputEnd, At, EndsOK, LockExcludes, Working, TypeOK
<1>1. TypeOK'
  BY <1>0 DEF IputEnd, Return, Prele, Wakeup, IwantChans, Sleep, At, Awake, Call, inodeVars, fileVars, procVars, counters, TypeOK, PC, End
<1>2. LockExcludes'
  BY DEF IputEnd, Return, Prele, Wakeup, IwantChans, Sleep, At, Awake, Call, inodeVars, fileVars, procVars, counters, LockExcludes, Working, TypeOK, WaitsOK
<1>3. RefsOK'
  BY <1>0 DEF IputEnd, RefsOK, Freeing, One, fileVars
<1>4. EndsOK'
  BY DEF IputEnd, Return, Prele, Wakeup, IwantChans, Sleep, At, Awake, Call, inodeVars, fileVars, procVars, counters, EndsOK, TypeOK, End
<1>5. SleepsForAReason' /\ WaitsOK'
  BY <1>0 DEF IputEnd, Return, Prele, Wakeup, IwantChans, Sleep, At, Awake, Call, inodeVars, fileVars, procVars, counters, SleepsForAReason, WaitsOK, TypeOK, Size, LockExcludes
<1>6. SizeOK'
  <2>1. Size' = 0
    BY <1>0 DEF Size
  <2> QED BY <1>0, <2>1 DEF IputEnd, fileVars, SizeOK, FileWithinTwoWrites
<1> QED BY <1>1, <1>2, <1>3, <1>4, <1>5, <1>6

\* The child shares its parent's ends.
LEMMA ForkStep ==
    ASSUME PipeInv, NEW p \in Procs, NEW q \in Procs, Fork(p, q)
    PROVE  PipeInv'
<1> USE PipeAssumption DEF PipeInv
<1>1. TypeOK'
  BY DEF Fork, Return, Prele, Wakeup, IwantChans, Sleep, At, Awake, Call, inodeVars, fileVars, procVars, counters, TypeOK, PC, End
<1>2. LockExcludes'
  BY DEF Fork, Return, Prele, Wakeup, IwantChans, Sleep, At, Awake, Call, inodeVars, fileVars, procVars, counters, LockExcludes, Working, TypeOK, WaitsOK
<1>3. RefsOK'
  BY DEF Fork, Return, Prele, Wakeup, IwantChans, Sleep, At, Awake, Call, inodeVars, fileVars, procVars, counters, RefsOK, Freeing, TypeOK, WaitsOK
<1>4. EndsOK'
  BY DEF Fork, Return, Prele, Wakeup, IwantChans, Sleep, At, Awake, Call, inodeVars, fileVars, procVars, counters, EndsOK, TypeOK, End
<1>5. SleepsForAReason' /\ WaitsOK'
  BY DEF Fork, Return, Prele, Wakeup, IwantChans, Sleep, At, Awake, Call, inodeVars, fileVars, procVars, counters, SleepsForAReason, WaitsOK, TypeOK, Size, LockExcludes
<1>6. SizeOK'
  BY DEF Fork, Return, Prele, Wakeup, IwantChans, Sleep, At, Awake, Call, inodeVars, fileVars, procVars, counters, SizeOK, FileWithinTwoWrites, Size, TypeOK
<1> QED BY <1>1, <1>2, <1>3, <1>4, <1>5, <1>6

\* A descriptor is closed.
LEMMA CloseStep ==
    ASSUME PipeInv, NEW p \in Procs, Close(p)
    PROVE  PipeInv'
<1> USE PipeAssumption DEF PipeInv
<1>0. \A q \in Procs : pc'[q] = "iput" <=> pc[q] = "iput"
  BY DEF Close, At, TypeOK
<1>1. TypeOK'
  BY DEF Close, Return, Prele, Wakeup, IwantChans, Sleep, At, Awake, Call, inodeVars, fileVars, procVars, counters, TypeOK, PC, End
<1>2. LockExcludes'
  BY DEF Close, Return, Prele, Wakeup, IwantChans, Sleep, At, Awake, Call, inodeVars, fileVars, procVars, counters, LockExcludes, Working, TypeOK, WaitsOK
<1>3. RefsOK'
  BY <1>0 DEF Close, RefsOK, Freeing, inodeVars
<1>4. EndsOK'
  BY DEF Close, Return, Prele, Wakeup, IwantChans, Sleep, At, Awake, Call, inodeVars, fileVars, procVars, counters, EndsOK, TypeOK, End
<1>5. SleepsForAReason' /\ WaitsOK'
  BY DEF Close, Return, Prele, Wakeup, IwantChans, Sleep, At, Awake, Call, inodeVars, fileVars, procVars, counters, SleepsForAReason, WaitsOK, TypeOK, Size, LockExcludes
<1>6. SizeOK'
  BY DEF Close, Return, Prele, Wakeup, IwantChans, Sleep, At, Awake, Call, inodeVars, fileVars, procVars, counters, SizeOK, FileWithinTwoWrites, Size, TypeOK
<1> QED BY <1>1, <1>2, <1>3, <1>4, <1>5, <1>6

\* A reader has what it asked for, or what there is; it may have caught up.
LEMMA ReadpEndStep ==
    ASSUME PipeInv, NEW p \in Procs, ReadpEnd(p)
    PROVE  PipeInv'
<1> USE PipeAssumption DEF PipeInv
<1>1. /\ pc[p] = "readi" /\ ilock /\ ~syncing /\ p \in fds["r"]
      /\ \A q \in Procs \ {p} : ~Working(q)
      /\ offset \in Nat /\ file \in Seq(Procs \X Nat) /\ Size \in Nat
      /\ inuse["r"] /\ offset <= Size
  BY SMTT(30) DEF ReadpEnd, At, LockExcludes, Working, EndsOK, SizeOK, FileWithinTwoWrites,
         End, Size, TypeOK
<1>2. /\ Min({n[p], Size - offset}) \in Nat
      /\ Min({n[p], Size - offset}) <= Size - offset
  <2>1. n[p] \in Nat /\ Size - offset \in Nat
    BY <1>1 DEF TypeOK
  <2> QED BY <2>1, MinOfTwo
<1>3. PICK k \in 0..Min({n[p], Size - offset}), ok \in BOOLEAN :
        LET o == offset + k IN
            /\ offset' = IF o = Size THEN 0 ELSE o
            /\ file' = IF o = Size THEN <<>> ELSE file
            /\ mode' = IF o = Size THEN mode \ {"IWRITE"} ELSE mode
            /\ Prele(CaughtUpChans(o))
            /\ Return(p, IF ok THEN Outcome("data", SubSeq(file, offset + 1, o))
                                ELSE Outcome("error", <<>>))
  BY DEF ReadpEnd
<1> DEFINE o == offset + k
<1>4. o \in Nat /\ o <= Size
  BY <1>1, <1>2
<1>5. /\ offset' \in Nat /\ file' \in Seq(Procs \X Nat)
      /\ \/ o = Size /\ offset' = 0 /\ file' = <<>> /\ mode' = mode \ {"IWRITE"}
         \/ o # Size /\ offset' = o /\ file' = file /\ mode' = mode
  <2>1. CASE o = Size
    <3>1. offset' = 0 /\ file' = <<>> /\ mode' = mode \ {"IWRITE"}
      BY <1>3, <2>1
    <3> QED BY <2>1, <3>1
  <2>2. CASE o # Size
    <3>1. offset' = o /\ file' = file /\ mode' = mode
      BY <1>3, <2>2
    <3> QED BY <1>1, <1>4, <2>2, <3>1
  <2> QED BY <2>1, <2>2
<1> HIDE DEF o
<1>6. /\ pc' = [pc EXCEPT ![p] = "user"] /\ n' = [n EXCEPT ![p] = 0]
      /\ err' = [err EXCEPT ![p] = FALSE] /\ DOMAIN result' = Procs
      /\ ~ilock' /\ ~iwant' /\ ilock' \in BOOLEAN /\ iwant' \in BOOLEAN
      /\ wchan' = Wakeup(CaughtUpChans(o) \cup IwantChans)
  BY <1>3 DEF Return, Prele, TypeOK, o
<1>7. UNCHANGED <<count, inuse, fds, syncing, calls, syncs, sigs>>
  BY DEF ReadpEnd, fileVars, counters
<1>8. TypeOK'
  BY <1>5, <1>6, <1>7 DEF TypeOK, Wakeup, PC
<1>9. LockExcludes'
  BY <1>1, <1>6, <1>7 DEF LockExcludes, Working, TypeOK
<1>10. RefsOK'
  <2>1. Freeing' <=> Freeing
    BY <1>1, <1>6 DEF Freeing, TypeOK
  <2> QED BY <1>7, <2>1 DEF RefsOK, One
<1>11. EndsOK'
  BY <1>6, <1>7 DEF EndsOK, TypeOK
<1>12. SleepsForAReason' /\ WaitsOK'
  <2>1. ASSUME NEW q \in Procs, wchan'[q] # "none"
        PROVE  /\ wchan'[q] = wchan[q] /\ wchan[q] # "ip" /\ q # p
               /\ wchan[q] = "ip1" => o # Size
    <3>1. wchan'[q] = wchan[q] /\ wchan[q] \notin CaughtUpChans(o) \cup IwantChans
      BY <1>6, <2>1 DEF Wakeup, TypeOK
    <3>2. wchan[q] = "ip" => iwant
      BY DEF SleepsForAReason
    <3>3. wchan[q] = "ip1" => "IWRITE" \in mode
      BY DEF SleepsForAReason
    <3>4. wchan[p] = "none"
      BY DEF ReadpEnd, At, Awake
    <3> QED BY <2>1, <3>1, <3>2, <3>3, <3>4 DEF IwantChans, CaughtUpChans
  <2>2. Size' = 0 \/ Size' = Size
    BY <1>5 DEF Size
  <2>3. o # Size => Size' = Size /\ mode' = mode
    BY <1>5 DEF Size
  <2>4. "IREAD" \in mode => "IREAD" \in mode'
    BY <1>5
  <2> QED BY <1>6, <1>7, <2>1, <2>2, <2>3, <2>4 DEF SleepsForAReason, WaitsOK, TypeOK
<1>13. SizeOK'
  <2>1. \A q \in Procs : pc'[q] # "writei"
    BY <1>1, <1>6 DEF Working, TypeOK
  <2>2. (Size' = 0 /\ offset' = 0) \/ (Size' = Size /\ offset' = o)
    <3>1. CASE file' = <<>> /\ offset' = 0
      <4>1. file' = <<>> /\ file' \in Seq(Procs \X Nat)
        BY <1>5, <3>1
      <4>2. Size' = 0
        BY <4>1 DEF Size
      <4> QED BY <3>1, <4>2
    <3>2. CASE file' = file /\ offset' = o
      BY <3>2 DEF Size
    <3> QED BY <1>5, <3>1, <3>2
  <2> QED BY <1>4, <2>1, <2>2 DEF SizeOK, FileWithinTwoWrites
<1> QED BY <1>8, <1>9, <1>10, <1>11, <1>12, <1>13

\* The bytes a part of a write leaves in the file.
LEMMA BytesType ==
    ASSUME NEW p \in Procs, n[p] \in Nat, NEW k \in Nat, k <= n[p], NEW good \in 0..k
    PROVE  Bytes(p, good, k) \in Seq(Procs \X Nat) /\ Len(Bytes(p, good, k)) = k
<1>1. \A i \in 1..k : <<p, n[p] - i + 1>> \in Procs \X Nat /\ Stale \in Procs \X Nat
  BY PipeAssumption DEF Stale
<1> QED BY <1>1 DEF Bytes

\* A part of a write is in the pipe, or what the disk took of it.
LEMMA WritepEndStep ==
    ASSUME PipeInv, NEW p \in Procs, WritepEnd(p)
    PROVE  PipeInv'
<1> USE PipeAssumption DEF PipeInv
<1>1. /\ pc[p] = "writei" /\ ilock /\ ~syncing /\ p \in fds["w"]
      /\ \A q \in Procs \ {p} : ~Working(q)
      /\ file \in Seq(Procs \X Nat) /\ Size \in Nat /\ Size < PIPSIZ
      /\ n[p] \in Nat /\ wchan[p] = "none"
  BY DEF WritepEnd, At, Awake, LockExcludes, Working, EndsOK, SizeOK, End, Size, TypeOK
<1>2. ChunkSize(p) \in Nat /\ ChunkSize(p) <= n[p] /\ ChunkSize(p) <= PIPSIZ
  BY <1>1, MinOfTwo DEF ChunkSize
<1>3. PICK k \in 0..ChunkSize(p) : \E good \in 0..k :
        /\ file' = file \o Bytes(p, good, k)
        /\ err' = [err EXCEPT ![p] = @ \/ good < ChunkSize(p)]
  BY DEF WritepEnd
<1>30. PICK good \in 0..k :
        /\ file' = file \o Bytes(p, good, k)
        /\ err' = [err EXCEPT ![p] = @ \/ good < ChunkSize(p)]
  BY <1>3
<1>4. Bytes(p, good, k) \in Seq(Procs \X Nat) /\ Len(Bytes(p, good, k)) = k
  <2>1. k \in Nat /\ k <= n[p]
    BY <1>1, <1>2
  <2> QED BY <1>1, <2>1, BytesType
<1>5. file' \in Seq(Procs \X Nat) /\ Size' = Size + k
  BY <1>1, <1>30, <1>4 DEF Size
<1>6. /\ pc' = [pc EXCEPT ![p] = "writep"] /\ n' = [n EXCEPT ![p] = @ - ChunkSize(p)]
      /\ mode' = mode \ {"IREAD"}
      /\ ~ilock' /\ ~iwant' /\ ilock' \in BOOLEAN /\ iwant' \in BOOLEAN
      /\ wchan' = Wakeup((IF "IREAD" \in mode THEN {"ip2"} ELSE {}) \cup IwantChans)
      /\ UNCHANGED <<offset, count, inuse, fds, syncing, result, calls, syncs, sigs>>
  BY DEF WritepEnd, Prele, fileVars, counters
<1>7. n' \in [Procs -> Nat] /\ err' \in [Procs -> BOOLEAN]
  BY <1>1, <1>2, <1>30, <1>6 DEF TypeOK
<1>8. TypeOK'
  BY <1>5, <1>6, <1>7 DEF TypeOK, Wakeup, PC
<1>9. LockExcludes'
  BY <1>1, <1>6 DEF LockExcludes, Working, TypeOK
<1>10. RefsOK'
  <2>1. Freeing' <=> Freeing
    BY <1>1, <1>6 DEF Freeing, TypeOK
  <2> QED BY <1>6, <2>1 DEF RefsOK, One
<1>11. EndsOK'
  BY <1>1, <1>6 DEF EndsOK, TypeOK
<1>12. SleepsForAReason' /\ WaitsOK'
  <2>1. ASSUME NEW q \in Procs, wchan'[q] # "none"
        PROVE  wchan'[q] = wchan[q] /\ wchan[q] \notin {"ip", "ip2"} /\ q # p
    <3>1. /\ wchan'[q] = wchan[q]
          /\ wchan[q] \notin (IF "IREAD" \in mode THEN {"ip2"} ELSE {}) \cup IwantChans
      BY <1>6, <2>1 DEF Wakeup, TypeOK
    <3>2. /\ wchan[q] = "ip" => iwant
          /\ wchan[q] = "ip2" => "IREAD" \in mode
      BY DEF SleepsForAReason
    <3> QED BY <1>1, <2>1, <3>1, <3>2 DEF IwantChans
  <2>2. \A q \in Procs : wchan[q] # "ip1"
    BY <1>1 DEF SleepsForAReason
  <2>3. \A q \in Procs : wchan'[q] = "none"
    BY <1>6, <2>1, <2>2 DEF TypeOK, Wakeup
  <2> QED BY <1>6, <2>3 DEF SleepsForAReason, WaitsOK, TypeOK
<1>13. SizeOK'
  <2>1. \A q \in Procs : pc'[q] # "writei"
    BY <1>1, <1>6 DEF Working, TypeOK
  <2>2. k \in Nat /\ k <= PIPSIZ
    BY <1>2
  <2>3. Size' < 2 * PIPSIZ /\ Size <= Size' /\ Size' \in Nat
    BY <1>1, <1>5, <2>2
  <2>4. inuse'["r"] => offset' <= Size'
    <3>1. inuse["r"] => offset <= Size
      BY DEF SizeOK, FileWithinTwoWrites
    <3>2. offset \in Nat
      BY DEF TypeOK
    <3> QED BY <1>1, <1>6, <2>3, <3>1, <3>2
  <2> QED BY <2>1, <2>3, <2>4 DEF SizeOK, FileWithinTwoWrites
<1> QED BY <1>8, <1>9, <1>10, <1>11, <1>12, <1>13

\* The last descriptor of an end is closed, perhaps the last of the pipe.
LEMMA ClosefStep ==
    ASSUME PipeInv, NEW p \in Procs, NEW e \in End, Closef(p, e)
    PROVE  PipeInv'
<1> USE PipeAssumption DEF PipeInv
<1> DEFINE other == IF e = "r" THEN "w" ELSE "r"
<1>1. /\ pc[p] = (IF e = "r" THEN "closer" ELSE "closew") /\ ~ilock
      /\ wchan[p] = "none" /\ inuse[e] /\ fds[e] = {}
  BY DEF Closef, At, Awake, EndsOK, End
<1>2. /\ count = 1 + One(inuse[other]) /\ ~syncing
      /\ \A q \in Procs : ~Working(q)
  <2>1. One(inuse[e]) = 1
    BY <1>1 DEF One
  <2>2. One(inuse["r"]) + One(inuse["w"]) = One(inuse[e]) + One(inuse[other])
    BY DEF End, One
  <2> QED BY <1>1, <2>1, <2>2, UnlockedCount
<1>3. /\ inuse' = [inuse EXCEPT ![e] = FALSE] /\ mode' = {}
      /\ wchan' = Wakeup({"ip1", "ip2"})
      /\ UNCHANGED <<file, offset, iwant, fds, syncing, n, result, err, calls, syncs, sigs>>
  BY DEF Closef, ClosefChans, counters
<1>4. ~inuse'[e] /\ inuse'[other] = inuse[other]
  BY <1>3 DEF End, TypeOK
<1>5. \/ /\ count = 1 /\ count' = 1 /\ ilock' /\ ilock' \in BOOLEAN
         /\ pc' = [pc EXCEPT ![p] = "iput"] /\ ~inuse[other]
      \/ /\ count' = One(inuse[other]) /\ ilock' = ilock /\ inuse[other]
         /\ pc' = [pc EXCEPT ![p] = "user"]
  <2>1. CASE count = 1
    <3>1. ~inuse[other]
      BY <1>2, <2>1 DEF One
    <3>2. /\ ilock' = TRUE /\ count' = count
          /\ pc' = [pc EXCEPT ![p] = "iput"]
      BY <2>1 DEF Closef
    <3> QED BY <2>1, <3>1, <3>2
  <2>2. CASE count # 1
    <3>1. inuse[other]
      BY <1>2, <2>2 DEF One
    <3>2. /\ ilock' = ilock /\ count' = count - 1
          /\ pc' = [pc EXCEPT ![p] = "user"]
      BY <2>2 DEF Closef
    <3> HIDE DEF other
    <3>3. One(inuse[other]) \in Nat /\ count = 1 + One(inuse[other])
      BY <1>2 DEF One
    <3>4. count' = One(inuse[other])
      BY <3>2, <3>3
    <3> QED BY <3>1, <3>2, <3>4
  <2> QED BY <2>1, <2>2
<1>6. TypeOK'
  <2>1. /\ pc' \in [Procs -> PC] /\ count' \in Nat /\ ilock' \in BOOLEAN
    <3> HIDE DEF other
    <3>1. One(inuse[other]) \in Nat
      BY DEF One
    <3>2. pc' \in [Procs -> PC]
      BY <1>5 DEF TypeOK, PC
    <3>3. count' \in Nat
      BY <1>5, <3>1
    <3>4. ilock' \in BOOLEAN
      BY <1>5 DEF TypeOK
    <3> QED BY <3>2, <3>3, <3>4
  <2>2. inuse' \in [End -> BOOLEAN] /\ mode' \in SUBSET {"IREAD", "IWRITE"}
        /\ wchan' \in [Procs -> {"none", "ip", "ip1", "ip2"}]
    BY <1>3 DEF TypeOK, Wakeup
  <2> QED BY <1>3, <2>1, <2>2 DEF TypeOK
<1>7. LockExcludes'
  BY <1>1, <1>2, <1>3, <1>5 DEF LockExcludes, Working, TypeOK
<1>8. RefsOK'
  <2>1. count' = One(inuse'[other]) + One(Freeing')
    BY <1>2, <1>4, <1>5 DEF Freeing, Working, One, TypeOK
  <2>2. One(inuse'["r"]) + One(inuse'["w"]) = One(inuse'[other])
    BY <1>4 DEF End, One
  <2>3. One(syncing') = 0
    BY <1>2, <1>3 DEF One
  <2> QED BY <2>1, <2>2, <2>3 DEF RefsOK, One
<1>9. EndsOK'
  BY <1>1, <1>3, <1>4, <1>5 DEF EndsOK, TypeOK, End
<1>10. SleepsForAReason' /\ WaitsOK'
  BY <1>1, <1>3, <1>5 DEF SleepsForAReason, WaitsOK, Wakeup, TypeOK
<1>11. SizeOK'
  BY <1>2, <1>3, <1>5 DEF SizeOK, FileWithinTwoWrites, Size, Working, TypeOK, End
<1> QED BY <1>6, <1>7, <1>8, <1>9, <1>10, <1>11

\* A byte of the file is lost on the disk, and another is in its place.
LEMMA ByteIsLost ==
    ASSUME PipeInv, DelwriFails
    PROVE  /\ file' \in Seq(Procs \X Nat) /\ Size' = Size
           /\ UNCHANGED <<offset, mode, ilock, iwant, count, inuse, fds, syncing, pc, wchan,
                          n, result, err, calls, syncs, sigs>>
<1>1. file \in Seq(Procs \X Nat) /\ offset \in Nat
  BY DEF PipeInv, TypeOK
<1>2. PICK i \in offset + 1..Size : file' = [file EXCEPT ![i] = Stale]
  BY DEF DelwriFails
<1>3. i \in 1..Len(file) /\ Stale \in Procs \X Nat
  BY <1>1, PipeAssumption DEF Stale, Size
<1> QED BY <1>1, <1>2, <1>3 DEF DelwriFails, Size, fileVars, procVars, counters

\* The disk loses a byte.
LEMMA DelwriFailsStep ==
    ASSUME PipeInv, DelwriFails
    PROVE  PipeInv'
<1>0. /\ file' \in Seq(Procs \X Nat) /\ Size' = Size
      /\ UNCHANGED <<offset, mode, ilock, iwant, count, inuse, fds, syncing, pc, wchan,
                     n, result, err, calls, syncs, sigs>>
  BY ByteIsLost
<1>1. TypeOK'
  BY <1>0 DEF PipeInv, TypeOK
<1>2. LockExcludes' /\ EndsOK' /\ RefsOK'
  BY <1>0 DEF PipeInv, LockExcludes, Working, EndsOK, RefsOK, One, Freeing
<1>3. SleepsForAReason' /\ WaitsOK' /\ SizeOK'
  BY <1>0 DEF PipeInv, SleepsForAReason, WaitsOK, SizeOK, FileWithinTwoWrites
<1> QED BY <1>1, <1>2, <1>3 DEF PipeInv

\* A step that changes nothing.
LEMMA PipeStutter ==
    ASSUME PipeInv, UNCHANGED vars
    PROVE  PipeInv'
<1> USE DEF PipeInv, vars, inodeVars, fileVars, procVars, counters
<1>1. TypeOK' /\ LockExcludes' /\ EndsOK'
  BY DEF TypeOK, LockExcludes, Working, EndsOK
<1>2. RefsOK'
  BY DEF RefsOK, One, Freeing
<1>3. SleepsForAReason' /\ WaitsOK' /\ SizeOK'
  BY DEF SleepsForAReason, WaitsOK, SizeOK, FileWithinTwoWrites, Size
<1> QED BY <1>1, <1>2, <1>3

\* Every step of the pipe preserves the invariant: one lemma per action.
LEMMA PipeInvNext == PipeInv /\ [Next]_vars => PipeInv'
<1> SUFFICES ASSUME PipeInv, [Next]_vars PROVE PipeInv'
  OBVIOUS
<1>1. CASE UNCHANGED vars
  BY <1>1, PipeStutter
<1>2. CASE UpdateStart \/ UpdateEnd \/ DelwriFails
  BY <1>2, UpdateStartStep, UpdateEndStep, DelwriFailsStep
<1>3. ASSUME NEW p \in Procs, Continue(p) PROVE PipeInv'
  <2>1. CASE PlockSleep(p) \/ IputEnd(p) \/ Closef(p, "r") \/ Closef(p, "w")
    BY <2>1, PlockSleepStep, IputEndStep, ClosefStep DEF End
  <2>2. CASE ReadpEof(p) \/ ReadpWait(p) \/ ReadpStart(p) \/ ReadpEnd(p)
    BY <2>2, ReadpEofStep, ReadpWaitStep, ReadpStartStep, ReadpEndStep
  <2>3. CASE WritepDone(p) \/ WritepBroken(p) \/ WritepFull(p) \/ WritepStart(p)
             \/ WritepEnd(p)
    BY <2>3, WritepDoneStep, WritepBrokenStep, WritepFullStep, WritepStartStep,
       WritepEndStep
  <2> QED BY <1>3, <2>1, <2>2, <2>3 DEF Continue
<1>4. ASSUME NEW p \in Procs, Read(p) \/ Write(p) PROVE PipeInv'
  <2>1. CASE Read(p)
    BY <2>1, CallStep DEF Read, End
  <2>2. CASE Write(p)
    BY <2>2, CallStep DEF Write, End
  <2> QED BY <1>4, <2>1, <2>2
<1>5. ASSUME NEW p \in Procs, Close(p) \/ Signal(p) PROVE PipeInv'
  BY <1>5, CloseStep, SignalStep
<1>6. ASSUME NEW p \in Procs, NEW q \in Procs, Fork(p, q) PROVE PipeInv'
  BY <1>6, ForkStep
<1> QED BY <1>1, <1>2, <1>3, <1>4, <1>5, <1>6 DEF Next

----------------------------------------------------------------------------
\* The pipe is always in a state of the inductive invariant.
THEOREM PipeInvariant == Spec => []PipeInv
<1> QED BY PipeInvInit, PipeInvNext, PTL DEF Spec

\* pipe.c:184-187: ILOCK gives one process, or update, the inode to itself.
THEOREM LockTheorem == Spec => []LockExcludes
<1>1. PipeInv => LockExcludes
  BY DEF PipeInv
<1> QED BY <1>1, PipeInvariant, PTL

\* pipe.c:84, 144: i_count, read without the lock or with it, tells a reader or a
\* writer whether the other end is open, whatever update does meanwhile.
THEOREM CountTheorem == Spec => []CountTellsTheEnds
<1>1. PipeInv => CountTellsTheEnds
  BY UnlockedCount DEF CountTellsTheEnds
<1> QED BY <1>1, PipeInvariant, PTL

\* No reader, writer or closer of a pipe misses its wakeup.
THEOREM SleepTheorem == Spec => []SleepsForAReason
<1>1. PipeInv => SleepsForAReason
  BY DEF PipeInv
<1> QED BY <1>1, PipeInvariant, PTL

\* pipe.c:167-169: the file stays below two full writes.
THEOREM SizeTheorem == Spec => []FileWithinTwoWrites
<1>1. PipeInv => FileWithinTwoWrites
  BY DEF PipeInv, SizeOK
<1> QED BY <1>1, PipeInvariant, PTL

\* The inode always tells the truth of the pipe: its lock, its count of the ends and its size.
THEOREM PipeTheorem == Spec => []PipeOK
<1>1. PipeInv => TypeOK
  BY DEF PipeInv
<1> QED BY <1>1, PipeInvariant, LockTheorem, CountTheorem, SizeTheorem, PTL DEF PipeOK

----------------------------------------------------------------------------
(* The pipe implements the channel.  The queue is what of the file nobody  *)
(* has read, and the words of the map are the channel's variables.         *)

Queue == SubSeq(file, offset + 1, Size)

ToWrite == [p \in Procs |-> IF pc[p] \in {"writep", "writei"} THEN n[p] ELSE 0]

\* A reader finds a byte where it reads, and a writer in the file a reader.
QueueOK ==
    /\ inuse["r"] => offset < Size \/ offset = 0
    /\ \A p \in Procs :
        /\ pc[p] = "readi" => Size > 0
        /\ pc[p] = "writei" => inuse["r"]

RestIs(S, s, o, k, t) ==
    /\ t \in Seq(S) /\ Len(t) = Len(s) - o
    /\ SubSeq(t, 1, k) = SubSeq(s, o + 1, o + k)
    /\ SubSeq(t, k + 1, Len(t)) = SubSeq(s, o + k + 1, Len(s))

\* The first bytes of the rest of a sequence, and what is left without them.
LEMMA PartOfRest ==
    ASSUME NEW S, NEW s \in Seq(S), NEW o \in Nat, NEW k \in Nat, o + k <= Len(s),
           NEW t, t = SubSeq(s, o + 1, Len(s))
    PROVE  RestIs(S, s, o, k, t)
<1> DEFINE l == Len(s)
<1>0. l \in Nat /\ \A i \in 1..l : s[i] \in S
  OBVIOUS
<1>1. t \in Seq(S) /\ Len(t) = l - o /\ \A i \in 1..(l - o) : t[i] = s[o + i]
  <2>1. \A i \in (o + 1)..l : s[i] \in S
    BY <1>0
  <2>2. /\ t \in Seq(S) /\ Len(t) = IF o + 1 <= l THEN l - (o + 1) + 1 ELSE 0
        /\ \A i \in 1..(l - (o + 1) + 1) : t[i] = s[o + 1 + i - 1]
    BY <1>0, <2>1, SubSeqProperties
  <2> QED BY <1>0, <2>2
<1>2. SubSeq(t, 1, k) = SubSeq(s, o + 1, o + k)
  <2> DEFINE a == SubSeq(t, 1, k)
             b == SubSeq(s, o + 1, o + k)
  <2>1. a \in Seq(S) /\ Len(a) = k /\ \A i \in 1..k : a[i] = t[i]
    <3>1. \A i \in 1..k : t[i] \in S
      BY <1>0, <1>1
    <3>2. /\ a \in Seq(S) /\ Len(a) = IF 1 <= k THEN k - 1 + 1 ELSE 0
          /\ \A i \in 1..(k - 1 + 1) : a[i] = t[1 + i - 1]
      BY <3>1, SubSeqProperties
    <3> QED BY <3>2
  <2>2. b \in Seq(S) /\ Len(b) = k /\ \A i \in 1..k : b[i] = s[o + i]
    <3>1. \A i \in (o + 1)..(o + k) : s[i] \in S
      BY <1>0
    <3>2. /\ b \in Seq(S) /\ Len(b) = IF o + 1 <= o + k THEN o + k - (o + 1) + 1 ELSE 0
          /\ \A i \in 1..(o + k - (o + 1) + 1) : b[i] = s[o + 1 + i - 1]
      BY <3>1, SubSeqProperties
    <3> QED BY <3>2
  <2> HIDE DEF a, b
  <2>3. \A i \in 1..k : a[i] = b[i]
    <3> TAKE i \in 1..k
    <3>1. i \in 1..(l - o)
      BY <1>0
    <3> QED BY <1>1, <2>1, <2>2, <3>1
  <2>4. a = b
    BY <2>1, <2>2, <2>3, SeqEqual
  <2> QED BY <2>4 DEF a, b
<1>3. SubSeq(t, k + 1, Len(t)) = SubSeq(s, o + k + 1, l)
  <2> DEFINE a == SubSeq(t, k + 1, Len(t))
             b == SubSeq(s, o + k + 1, l)
  <2>1. a \in Seq(S) /\ Len(a) = l - o - k /\ \A i \in 1..(l - o - k) : a[i] = t[k + i]
    <3>1. \A i \in (k + 1)..(l - o) : t[i] \in S
      BY <1>0, <1>1
    <3>2. /\ a \in Seq(S) /\ Len(a) = IF k + 1 <= l - o THEN l - o - (k + 1) + 1 ELSE 0
          /\ \A i \in 1..(l - o - (k + 1) + 1) : a[i] = t[k + 1 + i - 1]
      BY <1>0, <1>1, <3>1, SubSeqProperties
    <3> QED BY <1>0, <3>2
  <2>2. b \in Seq(S) /\ Len(b) = l - o - k /\ \A i \in 1..(l - o - k) : b[i] = s[o + k + i]
    <3>1. \A i \in (o + k + 1)..l : s[i] \in S
      BY <1>0
    <3>2. /\ b \in Seq(S)
          /\ Len(b) = IF o + k + 1 <= l THEN l - (o + k + 1) + 1 ELSE 0
          /\ \A i \in 1..(l - (o + k + 1) + 1) : b[i] = s[o + k + 1 + i - 1]
      BY <1>0, <3>1, SubSeqProperties
    <3> QED BY <1>0, <3>2
  <2> HIDE DEF a, b
  <2>3. \A i \in 1..(l - o - k) : a[i] = b[i]
    <3> TAKE i \in 1..(l - o - k)
    <3>1. k + i \in 1..(l - o) /\ o + (k + i) = o + k + i
      BY <1>0
    <3> QED BY <1>1, <2>1, <2>2, <3>1
  <2>4. a = b
    BY <2>1, <2>2, <2>3, SeqEqual
  <2> QED BY <2>4 DEF a, b
<1> QED BY <1>1, <1>2, <1>3 DEF RestIs

\* What is put behind a sequence is behind its rest.
LEMMA RestOfLonger ==
    ASSUME NEW S, NEW s \in Seq(S), NEW b \in Seq(S), NEW o \in Nat, o <= Len(s)
    PROVE  SubSeq(s \o b, o + 1, Len(s) + Len(b)) = SubSeq(s, o + 1, Len(s)) \o b
<1> DEFINE l == Len(s)
           m == Len(b)
           u == s \o b
           t == SubSeq(s, o + 1, l)
           x == SubSeq(u, o + 1, l + m)
           y == t \o b
<1>0. l \in Nat /\ m \in Nat
  OBVIOUS
<1>1. /\ u \in Seq(S) /\ Len(u) = l + m
      /\ \A i \in 1..(l + m) : u[i] = IF i <= l THEN s[i] ELSE b[i - l]
  BY ConcatProperties
<1>2. t \in Seq(S) /\ Len(t) = l - o /\ \A i \in 1..(l - o) : t[i] = s[o + i]
  <2>1. \A i \in (o + 1)..l : s[i] \in S
    BY <1>0
  <2>2. /\ t \in Seq(S) /\ Len(t) = IF o + 1 <= l THEN l - (o + 1) + 1 ELSE 0
        /\ \A i \in 1..(l - (o + 1) + 1) : t[i] = s[o + 1 + i - 1]
    BY <1>0, <2>1, SubSeqProperties
  <2> QED BY <1>0, <2>2
<1> HIDE DEF u, t
<1>3. /\ x \in Seq(S) /\ Len(x) = l + m - o
      /\ \A i \in 1..(l + m - o) : x[i] = u[o + i]
  <2>1. \A i \in (o + 1)..(l + m) : u[i] \in S
    BY <1>0, <1>1
  <2>2. /\ x \in Seq(S) /\ Len(x) = IF o + 1 <= l + m THEN l + m - (o + 1) + 1 ELSE 0
        /\ \A i \in 1..(l + m - (o + 1) + 1) : x[i] = u[o + 1 + i - 1]
    BY <1>0, <2>1, SubSeqProperties
  <2> QED BY <1>0, <2>2
<1>4. /\ y \in Seq(S) /\ Len(y) = l - o + m
      /\ \A i \in 1..(l - o + m) : y[i] = IF i <= l - o THEN t[i] ELSE b[i - (l - o)]
  <2>1. /\ y \in Seq(S) /\ Len(y) = Len(t) + m
        /\ \A i \in 1..(Len(t) + m) : y[i] = IF i <= Len(t) THEN t[i] ELSE b[i - Len(t)]
    BY <1>2, ConcatProperties
  <2> QED BY <1>2, <2>1
<1> HIDE DEF x, y
<1>5. \A i \in 1..(l + m - o) : x[i] = y[i]
  <2> TAKE i \in 1..(l + m - o)
  <2>1. CASE i <= l - o
    BY <1>0, <1>1, <1>2, <1>3, <1>4, <2>1
  <2>2. CASE ~(i <= l - o)
    <3>1. o + i - l = i - (l - o) /\ o + i \in 1..(l + m) /\ ~(o + i <= l)
      BY <1>0, <2>2
    <3>2. x[i] = u[o + i]
      BY <1>3
    <3>4. i \in 1..(l - o + m) /\ ~(i <= l - o)
      BY <1>0, <2>2
    <3>5. y[i] = b[i - (l - o)]
      BY <1>4, <3>4
    <3>3. u[o + i] = b[o + i - l]
      BY <1>1, <3>1
    <3> QED BY <3>1, <3>2, <3>3, <3>5
  <2> QED BY <2>1, <2>2
<1>6. x = y
  <2>1. Len(x) = Len(y)
    BY <1>0, <1>3, <1>4
  <2>2. Len(x) = l + m - o
    BY <1>3
  <2> QED BY <1>3, <1>4, <1>5, <2>1, <2>2, SeqEqual
<1> QED BY <1>6 DEF x, y, u, t

\* The rest of a sequence, element by element.
LEMMA RestElements ==
    ASSUME NEW S, NEW s \in Seq(S), NEW o \in Nat, o <= Len(s)
    PROVE  /\ SubSeq(s, o + 1, Len(s)) \in Seq(S)
           /\ Len(SubSeq(s, o + 1, Len(s))) = Len(s) - o
           /\ \A j \in 1..(Len(s) - o) : SubSeq(s, o + 1, Len(s))[j] = s[o + j]
<1> DEFINE l == Len(s)
           t == SubSeq(s, o + 1, l)
<1>0. l \in Nat
  OBVIOUS
<1>1. \A j \in (o + 1)..l : s[j] \in S
  BY <1>0
<1>2. /\ t \in Seq(S) /\ Len(t) = IF o + 1 <= l THEN l - (o + 1) + 1 ELSE 0
      /\ \A j \in 1..(l - (o + 1) + 1) : t[j] = s[o + 1 + j - 1]
  BY <1>0, <1>1, SubSeqProperties
<1> QED BY <1>0, <1>2

ChangedAt(s, i, c, u) == u = [s EXCEPT ![i] = c]

\* A change of an element of the rest of a sequence.
LEMMA RestOfChanged ==
    ASSUME NEW S, NEW s \in Seq(S), NEW o \in Nat, NEW i \in Nat, o < i, i <= Len(s),
           NEW c, NEW u \in Seq(S), ChangedAt(s, i, c, u), Len(u) = Len(s)
    PROVE  ChangedAt(SubSeq(s, o + 1, Len(s)), i - o, c, SubSeq(u, o + 1, Len(u)))
<1> DEFINE l == Len(s)
           t == SubSeq(s, o + 1, Len(s))
           x == SubSeq(u, o + 1, Len(u))
           y == [t EXCEPT ![i - o] = c]
<1>0. l \in Nat /\ i \in Nat /\ o < i /\ i <= l /\ o <= l /\ i - o \in 1..(l - o)
  OBVIOUS
<1>1. t \in Seq(S) /\ Len(t) = l - o /\ \A j \in 1..(l - o) : t[j] = s[o + j]
  BY <1>0, RestElements
<1>2. x \in Seq(S) /\ Len(x) = l - o /\ \A j \in 1..(l - o) : x[j] = u[o + j]
  BY <1>0, RestElements
<1>3. u[i] = c /\ \A j \in 1..l : j # i => u[j] = s[j]
  BY <1>0 DEF ChangedAt
<1>4. c \in S
  <2>1. u[i] \in S
    BY <1>0
  <2> QED BY <1>3, <2>1
<1> HIDE DEF t, x, l
<1>5. y \in Seq(S) /\ Len(y) = l - o
  <2>1. i - o \in 1..Len(t)
    BY <1>0, <1>1
  <2>2. DOMAIN t = 1..Len(t) /\ DOMAIN y = DOMAIN t
    BY <1>1
  <2>3. \A j \in 1..Len(t) : y[j] \in S
    BY <1>1, <1>4, <2>2
  <2>4. y \in [1..(l - o) -> S]
    BY <1>1, <2>2, <2>3
  <2> HIDE DEF y
  <2>5. l - o \in Nat
    BY <1>0
  <2> QED BY <2>4, <2>5
<1>6. \A j \in 1..(l - o) : x[j] = y[j]
  <2> TAKE j \in 1..(l - o)
  <2>0. j \in DOMAIN t /\ o + j \in 1..l
    BY <1>0, <1>1
  <2>1. CASE j = i - o
    <3>1. o + j = i /\ y[j] = c
      BY <1>0, <1>1, <2>0, <2>1
    <3> QED BY <1>2, <1>3, <3>1
  <2>2. CASE j # i - o
    <3>1. o + j # i /\ y[j] = t[j]
      BY <1>0, <1>1, <2>0, <2>2
    <3> QED BY <1>1, <1>2, <1>3, <2>0, <3>1
  <2> QED BY <2>1, <2>2
<1>7. x = y
  <2> HIDE DEF y
  <2> QED BY <1>0, <1>2, <1>5, <1>6, SeqEqual
<1> QED BY <1>7 DEF x, t, ChangedAt

\* pipe() leaves an empty queue with both ends open.
LEMMA ChannelInitially == Init => QueueOK /\ Chan!ChannelInit
<1> SUFFICES ASSUME Init PROVE QueueOK /\ Chan!ChannelInit
  OBVIOUS
<1>1. QueueOK
  BY DEF Init, QueueOK
<1>2. SubSeq(file, offset + 1, Size) = <<>>
  <2>1. offset + 1 = 1 /\ Size = 0
    BY DEF Init, Size
  <2> QED BY <2>1, SubSeqEmpty
<1>3. ToWrite = [p \in Procs |-> 0]
  BY PipeAssumption DEF Init, ToWrite
<1>4. result = [p \in Procs |-> Chan!Outcome("none", <<>>)]
  BY DEF Init, Outcome, Chan!Outcome
<1> QED BY <1>1, <1>2, <1>3, <1>4 DEF Chan!ChannelInit, Init, End, ToWrite

\* A step that moves no bytes and ends no call is none of the channel's.
LEMMA Stutters ==
    ASSUME UNCHANGED <<file, offset, inuse, result, err>>, ToWrite' = ToWrite
    PROVE  UNCHANGED Chan!cvars
BY DEF Chan!cvars, ToWrite, Size

\* The steps in which a process waits, or takes the lock: with i_count at two
\* both ends are open.
LEMMA WaitingIsUnseen ==
    ASSUME PipeInv, QueueOK, NEW p \in Procs,
           \/ PlockSleep(p) \/ ReadpWait(p) \/ ReadpStart(p) \/ WritepFull(p)
           \/ WritepStart(p)
    PROVE  QueueOK' /\ UNCHANGED Chan!cvars
<1>1. /\ UNCHANGED <<file, offset, inuse, result, n, err>>
      /\ \/ pc' = pc
         \/ pc[p] = "readp" /\ Size > 0 /\ pc' = [pc EXCEPT ![p] = "readi"]
         \/ /\ pc[p] = "writep" /\ ~ilock /\ count >= 2
            /\ pc' = [pc EXCEPT ![p] = "writei"]
  <2>1. CASE PlockSleep(p) \/ ReadpWait(p) \/ WritepFull(p)
    BY <2>1 DEF PlockSleep, ReadpWait, WritepFull, fileVars
  <2>2. CASE ReadpStart(p)
    BY <2>2 DEF ReadpStart, At, fileVars
  <2>3. CASE WritepStart(p)
    BY <2>3 DEF WritepStart, At, fileVars
  <2> QED BY <2>1, <2>2, <2>3
<1>2. ~ilock /\ count >= 2 => inuse["r"]
  BY UnlockedCount DEF One
<1>3. Size' = Size
  BY <1>1 DEF Size
<1>4. QueueOK'
  BY <1>1, <1>2, <1>3 DEF QueueOK, PipeInv, TypeOK
<1>5. ToWrite' = ToWrite
  BY <1>1 DEF ToWrite, PipeInv, TypeOK
<1> QED BY <1>1, <1>4, <1>5, Stutters

\* fork and the first part of close change only who holds an end.
LEMMA HoldersAreUnseen ==
    ASSUME PipeInv, QueueOK, NEW p \in Procs, Close(p) \/ \E q \in Procs : Fork(p, q)
    PROVE  QueueOK' /\ UNCHANGED Chan!cvars
<1>1. /\ UNCHANGED <<file, offset, inuse, result, n, err>>
      /\ \/ pc' = pc
         \/ \E q \in Procs, l \in {"user", "closer", "closew"} :
               /\ pc[q] \in {"user", "unborn"}
               /\ pc' = [pc EXCEPT ![q] = l]
  <2>1. CASE Close(p)
    BY <2>1 DEF Close, At, inodeVars
  <2>2. ASSUME NEW q \in Procs, Fork(p, q)
        PROVE  /\ UNCHANGED <<file, offset, inuse, result, n, err>>
               /\ pc[q] = "unborn" /\ pc' = [pc EXCEPT ![q] = "user"]
    BY <2>2 DEF Fork, inodeVars
  <2> QED BY <2>1, <2>2
<1>2. Size' = Size
  BY <1>1 DEF Size
<1>3. \A q \in Procs :
        /\ pc'[q] \in {"writep", "writei"} <=> pc[q] \in {"writep", "writei"}
        /\ pc'[q] = "readi" <=> pc[q] = "readi"
        /\ pc'[q] = "writei" <=> pc[q] = "writei"
  BY <1>1 DEF PipeInv, TypeOK
<1>4. QueueOK'
  BY <1>1, <1>2, <1>3 DEF QueueOK
<1>5. ToWrite' = ToWrite
  BY <1>1, <1>3 DEF ToWrite
<1> QED BY <1>1, <1>4, <1>5, Stutters

\* update writes the inode and leaves the pipe as it is.
LEMMA UpdateIsUnseen ==
    ASSUME PipeInv, QueueOK, UpdateStart \/ UpdateEnd
    PROVE  QueueOK' /\ UNCHANGED Chan!cvars
<1>1. UNCHANGED <<file, offset, inuse, result, n, pc, err>>
  BY DEF UpdateStart, UpdateEnd, fileVars, procVars
<1>2. QueueOK'
  BY <1>1 DEF QueueOK, Size
<1>3. ToWrite' = ToWrite
  BY <1>1 DEF ToWrite
<1> QED BY <1>1, <1>2, <1>3, Stutters

\* A step that changes nothing.
LEMMA ChannelStutter ==
    ASSUME QueueOK, UNCHANGED vars
    PROVE  QueueOK' /\ UNCHANGED Chan!cvars
<1>1. UNCHANGED <<file, offset, inuse, result, n, pc, err>>
  BY DEF vars, inodeVars, fileVars, procVars
<1>2. QueueOK'
  BY <1>1 DEF QueueOK, Size
<1>3. ToWrite' = ToWrite
  BY <1>1 DEF ToWrite
<1> QED BY <1>1, <1>2, <1>3, Stutters

\* A call begins with the bytes it has to write.
LEMMA CallBegins ==
    ASSUME PipeInv, QueueOK, NEW p \in Procs, Read(p) \/ Write(p)
    PROVE  QueueOK' /\ Chan!BeginCall(p)
<1>1. /\ UNCHANGED <<file, offset, inuse, err>> /\ pc[p] = "user"
      /\ result' = [result EXCEPT ![p] = Chan!Outcome("none", <<>>)]
  BY DEF Read, Write, Call, At, inodeVars, fileVars, Outcome, Chan!Outcome
<1>2. PICK l \in {"readp", "writep"}, c \in 0..MaxReq :
        pc' = [pc EXCEPT ![p] = l] /\ n' = [n EXCEPT ![p] = c]
  BY DEF Read, Write, Call
<1>3. Size' = Size
  BY <1>1 DEF Size
<1>4. QueueOK'
  BY <1>1, <1>2, <1>3 DEF QueueOK, PipeInv, TypeOK
<1>5. SubSeq(file, offset + 1, Size)' = SubSeq(file, offset + 1, Size)
  BY <1>1, <1>3
<1>6. \E c2 \in 0..MaxReq : ToWrite' = [ToWrite EXCEPT ![p] = c2]
  <2>1. CASE l = "readp"
    <3>1. ToWrite' = [ToWrite EXCEPT ![p] = 0]
      BY <1>1, <1>2, <2>1 DEF ToWrite, PipeInv, TypeOK
    <3>2. 0 \in 0..MaxReq
      BY PipeAssumption
    <3> QED BY <3>1, <3>2
  <2>2. CASE l = "writep"
    <3>1. ToWrite' = [ToWrite EXCEPT ![p] = c]
      BY <1>1, <1>2, <2>2 DEF ToWrite, PipeInv, TypeOK
    <3> QED BY <3>1
  <2> QED BY <2>1, <2>2
<1> QED BY <1>1, <1>4, <1>5, <1>6 DEF Chan!BeginCall, ToWrite

\* End of file: the queue is empty and no end for writing is open.
LEMMA EofIsTrue ==
    ASSUME PipeInv, QueueOK, NEW p \in Procs, ReadpEof(p)
    PROVE  QueueOK' /\ Chan!EndOfFile(p)
<1>1. /\ UNCHANGED <<file, offset, inuse>> /\ pc[p] = "readp" /\ ~ilock
      /\ Size = 0 /\ count < 2
      /\ pc' = [pc EXCEPT ![p] = "user"] /\ n' = [n EXCEPT ![p] = 0]
      /\ Chan!Ends(p, "eof", <<>>)
  BY DEF ReadpEof, Return, At, inodeVars, fileVars, Outcome, Chan!Outcome, Chan!Ends
<1>2. ~inuse["w"]
  <2>1. inuse["r"]
    BY <1>1 DEF PipeInv, EndsOK, End
  <2> QED BY <1>1, <2>1, UnlockedCount DEF One
<1>3. SubSeq(file, offset + 1, Size) = <<>>
  <2>1. offset + 1 \in Int /\ 0 < offset + 1
    BY DEF PipeInv, TypeOK
  <2> QED BY <1>1, <2>1, SubSeqEmpty
<1>4. Size' = Size
  BY <1>1 DEF Size
<1>5. QueueOK'
  BY <1>1, <1>4 DEF QueueOK, PipeInv, TypeOK
<1>6. ToWrite' = ToWrite
  BY <1>1 DEF ToWrite, PipeInv, TypeOK
<1> QED BY <1>1, <1>2, <1>3, <1>4, <1>5, <1>6 DEF Chan!EndOfFile, ToWrite

\* A write returns when all of it is in the queue.
LEMMA WriteEnds ==
    ASSUME PipeInv, QueueOK, NEW p \in Procs, WritepDone(p)
    PROVE  QueueOK' /\ Chan!EndWrite(p)
<1>1. /\ UNCHANGED <<file, offset, inuse>> /\ pc[p] = "writep" /\ n[p] = 0
      /\ pc' = [pc EXCEPT ![p] = "user"] /\ n' = [n EXCEPT ![p] = 0]
      /\ Chan!Ends(p, IF err[p] THEN "error" ELSE "ok", <<>>)
  BY DEF WritepDone, Return, At, inodeVars, fileVars, Outcome, Chan!Outcome, Chan!Ends
<1>2. Size' = Size
  BY <1>1 DEF Size
<1>3. QueueOK'
  BY <1>1, <1>2 DEF QueueOK, PipeInv, TypeOK
<1>4. ToWrite' = ToWrite /\ ToWrite[p] = 0
  BY <1>1 DEF ToWrite, PipeInv, TypeOK
<1> QED BY <1>1, <1>2, <1>3, <1>4 DEF Chan!EndWrite, ToWrite

\* EPIPE: no end for reading is open, and the rest of the write is forgotten.
LEMMA BrokenIsTrue ==
    ASSUME PipeInv, QueueOK, NEW p \in Procs, WritepBroken(p)
    PROVE  QueueOK' /\ Chan!BrokenPipe(p)
<1>1. /\ UNCHANGED <<file, offset, inuse>> /\ pc[p] = "writep" /\ ~ilock /\ count < 2
      /\ pc' = [pc EXCEPT ![p] = "user"] /\ n' = [n EXCEPT ![p] = 0]
      /\ Chan!Ends(p, "EPIPE", <<>>)
  BY DEF WritepBroken, Return, At, inodeVars, fileVars, Outcome, Chan!Outcome, Chan!Ends
<1>2. ~inuse["r"]
  <2>1. inuse["w"]
    BY <1>1 DEF PipeInv, EndsOK, End
  <2> QED BY <1>1, <2>1, UnlockedCount DEF One
<1>3. Size' = Size
  BY <1>1 DEF Size
<1>4. QueueOK'
  BY <1>1, <1>3 DEF QueueOK, PipeInv, TypeOK
<1>5. ToWrite' = [ToWrite EXCEPT ![p] = 0]
  BY <1>1 DEF ToWrite, PipeInv, TypeOK
<1> QED BY <1>1, <1>2, <1>3, <1>4, <1>5 DEF Chan!BrokenPipe, ToWrite

\* EINTR: a wait is given up, and with it the rest of a write.
LEMMA SignalInterrupts ==
    ASSUME PipeInv, QueueOK, NEW p \in Procs, Signal(p)
    PROVE  QueueOK' /\ Chan!Interrupted(p)
<1>1. /\ UNCHANGED <<file, offset, inuse>>
      /\ pc' = [pc EXCEPT ![p] = "user"] /\ n' = [n EXCEPT ![p] = 0]
      /\ Chan!Ends(p, IF err[p] THEN "error" ELSE "EINTR", <<>>)
  BY DEF Signal, Return, inodeVars, fileVars, Outcome, Chan!Outcome, Chan!Ends
<1>2. Size' = Size
  BY <1>1 DEF Size
<1>3. QueueOK'
  BY <1>1, <1>2 DEF QueueOK, PipeInv, TypeOK
<1>4. ToWrite' = [ToWrite EXCEPT ![p] = 0]
  BY <1>1 DEF ToWrite, PipeInv, TypeOK
<1> QED BY <1>1, <1>2, <1>3, <1>4 DEF Chan!Interrupted, ToWrite

\* closef closes an end that was open, and takes no byte from the queue.
LEMMA ClosefCloses ==
    ASSUME PipeInv, QueueOK, NEW p \in Procs, NEW e \in End, Closef(p, e)
    PROVE  QueueOK' /\ Chan!CloseEnd(e)
<1>1. /\ UNCHANGED <<file, offset, result, n, err>> /\ ~ilock
      /\ pc[p] \in {"closer", "closew"}
      /\ inuse[e] /\ inuse' = [inuse EXCEPT ![e] = FALSE]
      /\ \E l \in {"user", "iput"} : pc' = [pc EXCEPT ![p] = l]
  BY DEF Closef, At, PipeInv, EndsOK, End
<1>2. \A q \in Procs : pc'[q] \notin {"readi", "writei"}
  BY <1>1, UnlockedCount DEF Working, PipeInv, TypeOK
<1>3. Size' = Size
  BY <1>1 DEF Size
<1>4. QueueOK'
  <2>1. inuse'["r"] => inuse["r"]
    BY <1>1 DEF PipeInv, TypeOK, End
  <2> QED BY <1>1, <1>2, <1>3, <2>1 DEF QueueOK
<1>5. ToWrite' = ToWrite
  BY <1>1 DEF ToWrite, PipeInv, TypeOK
<1> QED BY <1>1, <1>3, <1>4, <1>5 DEF Chan!CloseEnd, ToWrite

\* iput throws away what is in a pipe that nobody has open.
LEMMA IputDiscards ==
    ASSUME PipeInv, QueueOK, NEW p \in Procs, IputEnd(p)
    PROVE  QueueOK' /\ Chan!Discard
<1>1. /\ UNCHANGED <<offset, inuse, result, n, err>> /\ pc[p] = "iput" /\ file' = <<>>
      /\ pc' = [pc EXCEPT ![p] = "user"]
  BY DEF IputEnd, At, fileVars
<1>2. ~inuse["r"] /\ ~inuse["w"]
  BY <1>1 DEF PipeInv, EndsOK
<1>3. \A q \in Procs : pc'[q] \notin {"readi", "writei"}
  BY <1>1 DEF PipeInv, TypeOK, LockExcludes, Working
<1>4. QueueOK'
  BY <1>1, <1>2, <1>3 DEF QueueOK
<1>5. SubSeq(file, offset + 1, Size)' = <<>>
  <2>1. offset' + 1 \in Int /\ Size' = 0 /\ 0 < offset' + 1
    BY <1>1 DEF PipeInv, TypeOK, Size
  <2>2. SubSeq(file', offset' + 1, Size') = <<>>
    BY <2>1, SubSeqEmpty
  <2> QED BY <2>2
<1>6. ToWrite' = ToWrite
  BY <1>1 DEF ToWrite, PipeInv, TypeOK
<1> QED BY <1>1, <1>2, <1>4, <1>5, <1>6 DEF Chan!Discard, ToWrite

\* A reader gets the first bytes of the queue, as many as are taken from it, or hears
\* that the disk has failed.
LEMMA ReaderGets ==
    ASSUME PipeInv, QueueOK, NEW p \in Procs, ReadpEnd(p)
    PROVE  QueueOK' /\ (Chan!Get(p) \/ Chan!GetFails(p))
<1> DEFINE o == offset
<1>1. /\ pc[p] = "readi" /\ file \in Seq(Procs \X Nat) /\ o \in Nat /\ Size \in Nat
      /\ inuse["r"] /\ o < Size /\ n[p] \in Nat
      /\ \A q \in Procs \ {p} : ~Working(q)
  <2>1. pc[p] = "readi"
    BY DEF ReadpEnd, At
  <2>2. file \in Seq(Procs \X Nat) /\ o \in Nat /\ Size \in Nat /\ n[p] \in Nat
    BY DEF PipeInv, TypeOK, Size
  <2>3. p \in fds["r"] /\ inuse["r"]
    BY <2>1 DEF PipeInv, EndsOK, End
  <2>4. o < Size
    BY <2>1, <2>2, <2>3 DEF QueueOK
  <2>5. \A q \in Procs \ {p} : ~Working(q)
    BY <2>1 DEF PipeInv, LockExcludes, Working
  <2> QED BY <2>1, <2>2, <2>3, <2>4, <2>5
<1>2. Min({n[p], Size - o}) \in Nat /\ Min({n[p], Size - o}) <= Size - o
  <2>1. Size - o \in Nat
    BY <1>1
  <2> QED BY <1>1, <2>1, MinOfTwo
<1>3. PICK k \in 0..Min({n[p], Size - o}), ok \in BOOLEAN :
        /\ ~ok => Failing
        /\ offset' = IF o + k = Size THEN 0 ELSE o + k
        /\ file' = IF o + k = Size THEN <<>> ELSE file
        /\ result' = [result EXCEPT ![p] =
                          IF ok THEN Chan!Outcome("data", SubSeq(file, o + 1, o + k))
                                ELSE Chan!Outcome("error", <<>>)]
        /\ err' = [err EXCEPT ![p] = FALSE]
        /\ pc' = [pc EXCEPT ![p] = "user"] /\ n' = [n EXCEPT ![p] = 0]
        /\ inuse' = inuse
  BY DEF ReadpEnd, Return, fileVars, Outcome, Chan!Outcome
<1>4. k \in Nat /\ o + k <= Size
  BY <1>1, <1>2
<1> DEFINE t == SubSeq(file, offset + 1, Size)
<1>5. /\ t \in Seq(Procs \X Nat) /\ Len(t) = Size - o
      /\ SubSeq(t, 1, k) = SubSeq(file, o + 1, o + k)
      /\ SubSeq(t, k + 1, Len(t)) = SubSeq(file, o + k + 1, Size)
  <2>1. o + k <= Len(file) /\ t = SubSeq(file, o + 1, Len(file))
    BY <1>4 DEF Size
  <2>2. file \in Seq(Procs \X Nat) /\ o \in Nat /\ k \in Nat
    BY <1>1, <1>4
  <2> HIDE DEF t, o
  <2>3. RestIs(Procs \X Nat, file, o, k, t)
    BY <2>1, <2>2, PartOfRest, Zenon
  <2> QED BY <2>3, Zenon DEF RestIs, Size
<1>6. t # <<>> /\ k \in 0..Len(t)
  <2> HIDE DEF t
  <2>1. Len(t) > 0 /\ k <= Len(t)
    BY <1>1, <1>4, <1>5
  <2> QED BY <1>4, <1>5, <2>1
<1>7. SubSeq(file', offset' + 1, Size') = SubSeq(t, k + 1, Len(t))
  <2>1. CASE o + k = Size
    <3>1. file' = <<>> /\ offset' = 0
      BY <1>3, <2>1
    <3>2. SubSeq(file', offset' + 1, Size') = <<>>
      <4>1. Size' = 0 /\ offset' + 1 = 1
        BY <3>1 DEF Size
      <4> QED BY <4>1, SubSeqEmpty
    <3>3. SubSeq(file, o + k + 1, Size) = <<>>
      <4>1. o + k + 1 \in Int /\ Size < o + k + 1
        BY <1>1, <1>4, <2>1
      <4> QED BY <1>1, <4>1, SubSeqEmpty
    <3> QED BY <1>5, <3>2, <3>3
  <2>2. CASE o + k # Size
    <3>1. file' = file /\ offset' = o + k
      BY <1>3, <2>2
    <3> QED BY <1>5, <3>1 DEF Size
  <2> QED BY <2>1, <2>2
<1>8. QueueOK'
  <2>1. \A q \in Procs : pc'[q] \notin {"readi", "writei"}
    BY <1>1, <1>3 DEF PipeInv, TypeOK, Working
  <2>2. offset' < Size' \/ offset' = 0
    <3>1. CASE o + k = Size
      BY <1>3, <3>1
    <3>2. CASE o + k # Size
      BY <1>1, <1>3, <1>4, <3>2 DEF Size
    <3> QED BY <3>1, <3>2
  <2> QED BY <2>1, <2>2 DEF QueueOK
<1>9. ToWrite' = ToWrite
  BY <1>1, <1>3 DEF ToWrite, PipeInv, TypeOK
<1>10. /\ SubSeq(file, offset + 1, Size)' = SubSeq(t, k + 1, Len(t))
       /\ IF ok THEN Chan!Ends(p, "data", SubSeq(t, 1, k)) ELSE Chan!Ends(p, "error", <<>>)
  BY <1>3, <1>5, <1>7 DEF Chan!Ends
<1>11. Chan!Get(p) \/ Chan!GetFails(p)
  <2>1. CASE ok
    <3>1. Chan!Get(p)
      BY <1>3, <1>6, <1>9, <1>10, <2>1 DEF Chan!Get, ToWrite
    <3> QED BY <3>1
  <2>2. CASE ~ok
    <3>1. Chan!GetFails(p)
      BY <1>3, <1>6, <1>9, <1>10, <2>2 DEF Chan!GetFails, ToWrite
    <3> QED BY <3>1
  <2> QED BY <2>1, <2>2
<1> QED BY <1>8, <1>11

\* A part of a write is behind what is in the queue, or what the disk took of it.
LEMMA WriterPuts ==
    ASSUME PipeInv, QueueOK, NEW p \in Procs, WritepEnd(p)
    PROVE  QueueOK' /\ (Chan!Put(p) \/ Chan!PutFails(p))
<1>1. /\ pc[p] = "writei" /\ file \in Seq(Procs \X Nat) /\ offset \in Nat
      /\ Size \in Nat /\ Size < PIPSIZ /\ inuse["r"] /\ offset <= Size
      /\ n[p] \in Nat /\ n[p] > 0
      /\ \A q \in Procs \ {p} : ~Working(q)
  BY DEF WritepEnd, At, PipeInv, TypeOK, LockExcludes, Working, SizeOK,
         FileWithinTwoWrites, QueueOK, Size
<1>2. ChunkSize(p) \in Nat /\ ChunkSize(p) <= n[p]
  BY <1>1, MinOfTwo, PipeAssumption DEF ChunkSize
<1>3. PICK k \in 0..ChunkSize(p) : \E good \in 0..k :
        /\ IF good = ChunkSize(p) THEN ~err[p] ELSE Failing /\ (err[p] => good = 0)
        /\ file' = file \o Bytes(p, good, k)
        /\ err' = [err EXCEPT ![p] = @ \/ good < ChunkSize(p)]
  BY DEF WritepEnd
<1>30. PICK good \in 0..k :
        /\ IF good = ChunkSize(p) THEN ~err[p] ELSE Failing /\ (err[p] => good = 0)
        /\ file' = file \o Bytes(p, good, k)
        /\ err' = [err EXCEPT ![p] = @ \/ good < ChunkSize(p)]
  BY <1>3
<1>4. /\ n' = [n EXCEPT ![p] = @ - ChunkSize(p)]
      /\ pc' = [pc EXCEPT ![p] = "writep"]
      /\ UNCHANGED <<offset, inuse, result>>
  BY DEF WritepEnd, fileVars
<1>5. k \in Nat /\ k <= n[p]
  BY <1>1, <1>2
<1>6. Bytes(p, good, k) \in Seq(Procs \X Nat) /\ Len(Bytes(p, good, k)) = k
  BY <1>1, <1>5, BytesType
<1>7. /\ Size' = Size + k
      /\ SubSeq(file', offset' + 1, Size') = SubSeq(file, offset + 1, Size) \o Bytes(p, good, k)
  <2>1. Size' = Size + k
    BY <1>1, <1>30, <1>6, ConcatProperties DEF Size
  <2>2. SubSeq(file \o Bytes(p, good, k), offset + 1, Size + k)
          = SubSeq(file, offset + 1, Size) \o Bytes(p, good, k)
    BY <1>1, <1>6, RestOfLonger DEF Size
  <2> QED BY <1>30, <1>4, <2>1, <2>2
<1>8. /\ Len(SubSeq(file, offset + 1, Size)) < PIPSIZ
  <2>1. Len(SubSeq(file, offset + 1, Size)) = Size - offset
    BY <1>1, PartOfRest DEF Size
  <2> QED BY <1>1, <2>1, PipeAssumption
<1>9. QueueOK'
  <2>1. \A q \in Procs : pc'[q] \notin {"readi", "writei"}
    BY <1>1, <1>4 DEF PipeInv, TypeOK, Working
  <2>2. offset' < Size' \/ offset' = 0
    <3>1. offset < Size \/ offset = 0
      BY <1>1 DEF QueueOK
    <3> QED BY <1>1, <1>4, <1>5, <1>7, <3>1
  <2> QED BY <2>1, <2>2 DEF QueueOK
<1>10. /\ ToWrite[p] = n[p]
       /\ ToWrite' = [ToWrite EXCEPT ![p] = @ - ChunkSize(p)]
  BY <1>1, <1>4 DEF ToWrite, PipeInv, TypeOK
<1>11. Bytes(p, good, k) = Chan!Chunk(p, good, k)
  <2>1. Bytes(p, good, k) = [i \in 1..k |-> IF i <= good THEN <<p, ToWrite[p] - i + 1>>
                                                       ELSE Stale]
    BY <1>10 DEF Bytes
  <2> QED BY <2>1 DEF Chan!Chunk, ToWrite
<1>12. ChunkSize(p) = Chan!Min({ToWrite[p], PIPSIZ})
  BY <1>10 DEF ChunkSize, Min, Chan!Min
<1>13. SubSeq(file, offset + 1, Size)'
         = SubSeq(file, offset + 1, Size) \o Chan!Chunk(p, good, k)
  BY <1>7, <1>11
<1>14. ToWrite[p] > 0
  BY <1>1, <1>10
<1>15. Chan!Put(p) \/ Chan!PutFails(p)
  <2> HIDE DEF ToWrite
  <2>1. CASE good = ChunkSize(p)
    <3>1. k = ChunkSize(p) /\ ~err[p]
      BY <1>2, <1>5, <1>30, <2>1
    <3>2. err' = err
      BY <1>2, <1>30, <2>1, <3>1 DEF PipeInv, TypeOK
    <3>3. Chan!Put(p)
      BY <1>1, <1>4, <1>8, <1>10, <1>12, <1>13, <1>14, <2>1, <3>1, <3>2 DEF Chan!Put, ToWrite
    <3> QED BY <3>3
  <2>2. CASE good # ChunkSize(p)
    <3>1. /\ good < ChunkSize(p) /\ Failing /\ (err[p] => good = 0)
          /\ k \in 0..ChunkSize(p) /\ good \in 0..k
      BY <1>2, <1>5, <1>30, <2>2
    <3>2. err' = [err EXCEPT ![p] = TRUE]
      BY <1>30, <3>1 DEF PipeInv, TypeOK
    <3>3. Chan!PutFails(p)
      BY <1>1, <1>4, <1>8, <1>10, <1>12, <1>13, <1>14, <3>1, <3>2 DEF Chan!PutFails, ToWrite
    <3> QED BY <3>3
  <2> QED BY <2>1, <2>2
<1> QED BY <1>9, <1>15

\* A byte the disk has lost is stale in its place of the queue.
LEMMA LostByteIsStale ==
    ASSUME PipeInv, QueueOK, DelwriFails
    PROVE  QueueOK' /\ Chan!TurnsStale
<1>1. /\ file \in Seq(Procs \X Nat) /\ offset \in Nat /\ Failing
  BY DEF PipeInv, TypeOK, DelwriFails
<1>2. PICK i \in offset + 1..Size : file' = [file EXCEPT ![i] = Stale]
  BY DEF DelwriFails
<1>3. /\ file' \in Seq(Procs \X Nat) /\ Len(file') = Len(file) /\ Size' = Size
      /\ UNCHANGED <<offset, inuse, pc, n, result, err>>
  BY ByteIsLost DEF Size
<1>4. i \in offset + 1..Len(file)
  BY DEF Size
<1>5. SubSeq(file, offset + 1, Size)'
        = [SubSeq(file, offset + 1, Size) EXCEPT ![i - offset] = Stale]
  <2>1. PICK u \in Seq(Procs \X Nat) : u = file'
    BY <1>3
  <2>2. ChangedAt(file, i, Stale, u) /\ Len(u) = Len(file)
    BY <1>2, <1>3, <2>1 DEF ChangedAt
  <2>3. i \in Nat /\ offset < i /\ i <= Len(file)
    BY <1>1, <1>4
  <2>4. ChangedAt(SubSeq(file, offset + 1, Len(file)), i - offset, Stale,
                  SubSeq(u, offset + 1, Len(u)))
    BY <1>1, <2>2, <2>3, RestOfChanged
  <2> QED BY <1>3, <2>1, <2>4 DEF Size, ChangedAt
<1>6. i - offset \in 1..Len(SubSeq(file, offset + 1, Size))
  <2>1. Len(SubSeq(file, offset + 1, Size)) = Size - offset
    BY <1>1, <1>4, PartOfRest DEF Size, RestIs
  <2> QED BY <1>1, <1>4, <2>1 DEF Size
<1>7. QueueOK'
  BY <1>3 DEF QueueOK
<1>8. ToWrite' = ToWrite
  BY <1>3 DEF ToWrite
<1> QED BY <1>1, <1>3, <1>5, <1>6, <1>7, <1>8 DEF Chan!TurnsStale, ToWrite

\* Every step of the pipe is one of the channel's, or none of its business.
LEMMA ChannelSteps ==
    ASSUME PipeInv, QueueOK, [Next]_vars
    PROVE  QueueOK' /\ [Chan!ChannelNext]_(Chan!cvars)
<1>1. CASE UNCHANGED vars
  BY <1>1, ChannelStutter
<1>2. CASE UpdateStart \/ UpdateEnd \/ DelwriFails
  BY <1>2, UpdateIsUnseen, LostByteIsStale DEF Chan!ChannelNext
<1>3. ASSUME NEW p \in Procs, Continue(p)
      PROVE  QueueOK' /\ [Chan!ChannelNext]_(Chan!cvars)
  <2>1. CASE PlockSleep(p) \/ ReadpWait(p) \/ ReadpStart(p) \/ WritepFull(p)
             \/ WritepStart(p)
    BY <2>1, WaitingIsUnseen
  <2>2. CASE ReadpEof(p)
    BY <2>2, EofIsTrue DEF Chan!ChannelNext
  <2>3. CASE ReadpEnd(p)
    BY <2>3, ReaderGets DEF Chan!ChannelNext
  <2>4. CASE WritepDone(p)
    BY <2>4, WriteEnds DEF Chan!ChannelNext
  <2>5. CASE WritepBroken(p)
    BY <2>5, BrokenIsTrue DEF Chan!ChannelNext
  <2>6. CASE WritepEnd(p)
    BY <2>6, WriterPuts DEF Chan!ChannelNext
  <2>7. ASSUME NEW e \in End, Closef(p, e)
        PROVE  QueueOK' /\ [Chan!ChannelNext]_(Chan!cvars)
    BY <2>7, ClosefCloses DEF Chan!ChannelNext, End
  <2>8. CASE IputEnd(p)
    BY <2>8, IputDiscards DEF Chan!ChannelNext
  <2> QED BY <1>3, <2>1, <2>2, <2>3, <2>4, <2>5, <2>6, <2>7, <2>8 DEF Continue, End
<1>4. ASSUME NEW p \in Procs, Read(p) \/ Write(p)
      PROVE  QueueOK' /\ [Chan!ChannelNext]_(Chan!cvars)
  BY <1>4, CallBegins DEF Chan!ChannelNext
<1>5. ASSUME NEW p \in Procs, Signal(p)
      PROVE  QueueOK' /\ [Chan!ChannelNext]_(Chan!cvars)
  BY <1>5, SignalInterrupts DEF Chan!ChannelNext
<1>6. ASSUME NEW p \in Procs, Close(p) \/ \E q \in Procs : Fork(p, q)
      PROVE  QueueOK' /\ [Chan!ChannelNext]_(Chan!cvars)
  BY <1>6, HoldersAreUnseen
<1> QED BY <1>1, <1>2, <1>3, <1>4, <1>5, <1>6 DEF Next

\* The pipe implements the channel, for any PIPSIZ, any number of processes and any
\* signals and updates: what is read is what was written, in that order, each part of a
\* write in one piece; end of file and EPIPE are only said when they are true.  A disk that
\* fails does to it what it does to the channel: a byte turns stale in its place, a write
\* that returns an error leaves parts cut short or stale, a read that fails loses bytes.
THEOREM ChannelTheorem == Spec => ImplementsChannel
<1>1. Init => PipeInv /\ QueueOK /\ Chan!ChannelInit
  BY PipeInvInit, ChannelInitially
<1>2. PipeInv /\ QueueOK /\ [Next]_vars
        => PipeInv' /\ QueueOK' /\ [Chan!ChannelNext]_(Chan!cvars)
  BY PipeInvNext, ChannelSteps
<1> QED BY <1>1, <1>2, PTL DEF Spec, ImplementsChannel, Chan!ChannelSpec
=============================================================================
