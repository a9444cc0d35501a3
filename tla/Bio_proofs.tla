----------------------------- MODULE Bio_proofs -----------------------------
(***************************************************************************)
(* Proofs about the buffer cache, for any number of processes, buffers,    *)
(* blocks and calls, with or without device errors, and, from "Delimiters  *)
(* of a queue" on, about a terminal, for any number of processes, any      *)
(* characters typed, modes, calls and sizes of the queues.                 *)
(***************************************************************************)
EXTENDS Bio, Tty, SeqLemmas, FiniteSetTheorems, TLAPS

\* Which of bp and cand are set at which place of a call.
StageOK(p) ==
    /\ pc[p] \in {"match", "got", "age"} => cand[p] # Nil
    /\ pc[p] \in {"iowait", "have"} => bp[p] # Nil
    /\ bp[p] # Nil /\ pc[p] \notin {"iowait", "have", "ahead", "raend"} =>
          ret[p] = "ra" /\ pc[p] \in {"getblk", "match", "got", "age"}
    /\ pc[p] = "got" => bp[p] # cand[p] /\ ~Contains(queue, cand[p])
    /\ pc[p] = "have" => ~Contains(queue, bp[p])
    /\ bp[p] # Nil /\ pc[p] # "have" =>
          Contains(queue, bp[p]) \/ "DONE" \in flags[bp[p]]

StagesOK == \A p \in Procs : StageOK(p)

\* Where a process may be asleep.
SleepOK ==
    /\ \A p \in Procs : wchan[p] # Nil => pc[p] \in {"getblk", "iowait"}
    /\ cur # Nil => wchan[cur] = Nil

BioInv ==
    /\ TypeOK /\ AvailIffNotBusy /\ OneBufferPerBlock /\ QueueOK /\ OneOwner
    /\ StagesOK /\ SleepOK /\ SleepersAreMarked

\* The buffers freed by binit satisfy the invariant.
LEMMA BioInvInit == Init => BioInv
<1> SUFFICES ASSUME Init PROVE BioInv
  OBVIOUS
<1> USE BioAssumption
<1>1. TypeOK
  <2>1. flags \in [Bufs -> SUBSET Flag] /\ blk \in [Bufs -> Blocks \cup {Nil}]
    BY DEF Init
  <2>2. avail \in Seq(Bufs) /\ queue \in Seq(Bufs)
    BY DEF Init
  <2>3. pc \in [Procs -> PC] /\ ret \in [Procs -> Ret]
    BY DEF Init, PC, Ret
  <2> QED BY <2>1, <2>2, <2>3 DEF Init, TypeOK
<1>2. queue = <<>> /\ \A b \in Bufs : ~Contains(queue, b)
  BY DEF Init, Contains
<1>3. IsInjective(queue)
  BY <1>2, InjectiveSeq DEF IsInjective
<1> QED BY <1>1, <1>2, <1>3 DEF Init, BioInv, AvailIffNotBusy,
      OneBufferPerBlock, QueueOK, OneOwner, Owned, StagesOK, StageOK, SleepOK, SleepersAreMarked, SleeperIsMarked

\* A new call touches no buffer: the process had none and was not asleep.
LEMMA CallStep ==
    ASSUME BioInv, NEW p \in Procs, NewCall(p)
    PROVE  BioInv'
<1> USE BioAssumption DEF BioInv
<1>1. PICK l \in {"getblk", "ahead", "sync"}, x \in Blocks \cup {Nil},
           y \in Blocks \cup {Nil}, r \in Ret : Call(p, l, x, y, r)
  BY DEF NewCall, CallBread, CallBreada, CallGetblk, CallGeteblk, CallBflush, Ret
<1>2. /\ pc[p] = "user" /\ pc' = [pc EXCEPT ![p] = l] /\ cur' = p
      /\ OnCPU(p)
      /\ UNCHANGED <<flags, blk, data, avail, wanted, queue, disk, wchan, bp,
                     cand, writes>>
      /\ want' = [want EXCEPT ![p] = x] /\ ra' = [ra EXCEPT ![p] = y]
      /\ ret' = [ret EXCEPT ![p] = r] /\ ops' = ops + 1
  BY <1>1 DEF Call, Goto, bufVars, ioVars
<1>3. TypeOK'
  BY <1>2 DEF TypeOK, PC
<1>4. AvailIffNotBusy' /\ OneBufferPerBlock' /\ QueueOK'
  BY <1>2 DEF AvailIffNotBusy, OneBufferPerBlock, QueueOK
<1>5. bp[p] = Nil /\ wchan[p] = Nil
  BY <1>2 DEF StagesOK, StageOK, SleepOK, TypeOK, OnCPU
<1>6. OneOwner'
  <2>1. \A q \in Procs : Owned(q)' = Owned(q)
    BY <1>2 DEF Owned, TypeOK
  <2> QED BY <2>1, <1>2 DEF OneOwner
<1>7. StagesOK' /\ SleepOK'
  BY <1>2, <1>5 DEF StagesOK, StageOK, SleepOK, TypeOK
<1>8. SleepersAreMarked'
  BY <1>2, <1>5 DEF SleepersAreMarked, SleeperIsMarked, TypeOK
<1> QED BY <1>3, <1>4, <1>6, <1>7, <1>8

\* What brelse does to the lists and to the sleepers.
LEMMA BrelseProps ==
    ASSUME BioInv, NEW b \in Bufs, NEW f \in SUBSET Flag, Brelse(b, f),
           "BUSY" \in flags[b], "WANTED" \in flags[b] => "WANTED" \in f
    PROVE  /\ flags' = [flags EXCEPT ![b] = Released(f)]
           /\ flags' \in [Bufs -> SUBSET Flag]
           /\ blk' \in [Bufs -> Blocks \cup {Nil}]
           /\ avail' \in Seq(Bufs)
           /\ wanted' = FALSE
           /\ wchan' \in [Procs -> Bufs \cup {FreeHdr, Nil}]
           /\ AvailIffNotBusy' /\ OneBufferPerBlock'
           /\ \A q \in Procs :
                 /\ wchan'[q] # Nil => wchan'[q] = wchan[q]
                 /\ wchan'[q] # FreeHdr
                 /\ wchan'[q] = b => pc[q] # "getblk"
<1> USE BioAssumption DEF BioInv
<1>1. /\ flags' = [flags EXCEPT ![b] = Released(f)]
      /\ flags' \in [Bufs -> SUBSET Flag]
  BY DEF Brelse, Released, TypeOK
<1>2. blk' \in [Bufs -> Blocks \cup {Nil}] /\ OneBufferPerBlock'
  BY DEF Brelse, DropAssoc, TypeOK, OneBufferPerBlock
<1>3. ~Contains(avail, b) /\ avail \in Seq(Bufs) /\ IsInjective(avail)
  BY DEF AvailIffNotBusy, TypeOK
<1>4. /\ avail' \in Seq(Bufs) /\ IsInjective(avail')
      /\ \A x : Contains(avail', x) <=> Contains(avail, x) \/ x = b
  BY <1>3, AppendProps, PrependProps DEF Brelse
<1>5. AvailIffNotBusy'
  BY <1>1, <1>4 DEF AvailIffNotBusy, Released, TypeOK
<1>6. wchan' = Wakeup(BrelseChans(b, f)) /\ wanted' = FALSE
  BY DEF Brelse
<1>7. wchan' \in [Procs -> Bufs \cup {FreeHdr, Nil}]
  BY <1>6 DEF Wakeup, TypeOK
<1>8. ASSUME NEW q \in Procs
      PROVE  /\ wchan'[q] # Nil => wchan'[q] = wchan[q]
             /\ wchan'[q] # FreeHdr
             /\ wchan'[q] = b => pc[q] # "getblk"
  <2>1. wchan'[q] = IF wchan[q] \in BrelseChans(b, f) THEN Nil ELSE wchan[q]
    BY <1>6 DEF Wakeup, TypeOK
  <2>2. wchan[q] = FreeHdr => FreeHdr \in BrelseChans(b, f)
    BY DEF BrelseChans, SleepersAreMarked, SleeperIsMarked
  <2>3. wchan[q] = b /\ pc[q] = "getblk" => b \in BrelseChans(b, f)
    BY DEF BrelseChans, SleepersAreMarked, SleeperIsMarked
  <2> QED BY <2>1, <2>2, <2>3
<1> QED BY <1>1, <1>2, <1>4, <1>5, <1>6, <1>7, <1>8

\* Releasing a buffer that the process owns and the device is done with.
LEMMA ReleaseStep ==
    ASSUME BioInv, NEW p \in Procs, NEW f \in SUBSET Flag, OnCPU(p),
           pc[p] \in {"have", "iowait"}, ~Contains(queue, bp[p]),
           "WANTED" \in flags[bp[p]] => "WANTED" \in f,
           Brelse(bp[p], f), Return(p), UNCHANGED <<queue, disk, ops>>,
           DOMAIN data' = Bufs, writes' \in Nat
    PROVE  BioInv'
<1> USE BioAssumption DEF BioInv
<1>1. bp[p] \in Bufs /\ bp[p] \in Owned(p) /\ "BUSY" \in flags[bp[p]]
  BY DEF StagesOK, StageOK, TypeOK, Owned, OneOwner
<1> DEFINE b == bp[p]
<1>2. /\ flags' = [flags EXCEPT ![b] = Released(f)]
      /\ flags' \in [Bufs -> SUBSET Flag]
      /\ blk' \in [Bufs -> Blocks \cup {Nil}]
      /\ avail' \in Seq(Bufs) /\ wanted' = FALSE
      /\ wchan' \in [Procs -> Bufs \cup {FreeHdr, Nil}]
      /\ AvailIffNotBusy' /\ OneBufferPerBlock'
  BY <1>1, BrelseProps
<1>3. \A q \in Procs :
        /\ wchan'[q] # Nil => wchan'[q] = wchan[q]
        /\ wchan'[q] # FreeHdr
        /\ wchan'[q] = b => pc[q] # "getblk"
  BY <1>1, BrelseProps
<1>4. /\ pc' = [pc EXCEPT ![p] = "user"] /\ cur' = Nil
      /\ want' = [want EXCEPT ![p] = Nil] /\ ra' = [ra EXCEPT ![p] = Nil]
      /\ ret' = [ret EXCEPT ![p] = "none"]
      /\ bp' = [bp EXCEPT ![p] = Nil] /\ cand' = [cand EXCEPT ![p] = Nil]
  BY DEF Return
<1>5. TypeOK'
  BY <1>2, <1>4 DEF TypeOK, PC, Ret
<1> HIDE DEF b
<1>6. b \in Bufs /\ bp[p] = b /\ wchan[p] = Nil
  BY <1>1 DEF b, OnCPU, SleepOK, TypeOK
<1>7. \A q \in Procs : Owned(q)' = IF q = p THEN {} ELSE Owned(q)
  BY <1>4 DEF Owned, TypeOK
<1>8. \A q \in Procs \ {p} : b \notin Owned(q)
  BY <1>1 DEF OneOwner, b
<1>9. Owned(p) = {b}
  BY <1>6 DEF Owned
<1>10. OneOwner'
  <2>1. ASSUME NEW q \in Procs, NEW c \in Owned(q)'
        PROVE  /\ "BUSY" \in flags'[c] /\ "ASYNC" \notin flags'[c]
               /\ \A r \in Procs \ {q} : c \notin Owned(r)'
    <3>1. q # p /\ c \in Owned(q) /\ c # b
      BY <2>1, <1>7, <1>8
    <3>2. flags'[c] = flags[c]
      BY <3>1, <1>2, <1>6 DEF TypeOK, Owned
    <3> QED BY <3>1, <3>2, <1>7 DEF OneOwner
  <2>2. ASSUME NEW c \in Bufs, "BUSY" \in flags'[c]
        PROVE  \/ \E q \in Procs : c \in Owned(q)'
               \/ Contains(queue', c) /\ "ASYNC" \in flags'[c]
    <3>1. c # b /\ flags'[c] = flags[c]
      BY <2>2, <1>2, <1>6 DEF Released, TypeOK
    <3> QED BY <2>2, <3>1, <1>7, <1>9 DEF OneOwner
  <2> QED BY <2>1, <2>2 DEF OneOwner
<1>11. QueueOK'
  BY <1>2, <1>6 DEF QueueOK, Released, b, TypeOK
<1>12. StagesOK'
  <2>1. \A q \in Procs \ {p} : bp[q] # Nil => bp[q] # b /\ bp[q] \in Bufs
    BY <1>8 DEF Owned, TypeOK
  <2> QED BY <1>2, <1>4, <1>6, <2>1 DEF StagesOK, StageOK, TypeOK
<1>13. SleepOK'
  BY <1>3, <1>4, <1>6 DEF SleepOK, TypeOK
<1>14. SleepersAreMarked'
  <2> SUFFICES ASSUME NEW q \in Procs
        PROVE  /\ wchan'[q] \in Bufs /\ pc'[q] = "getblk" =>
                    {"BUSY", "WANTED"} \subseteq flags'[wchan'[q]]
               /\ wchan'[q] \in Bufs /\ pc'[q] = "iowait" =>
                    wchan'[q] = bp'[q] /\ Contains(queue, bp'[q])
    BY <1>3 DEF SleepersAreMarked, SleeperIsMarked
  <2>1. CASE q = p
    BY <1>4, <2>1 DEF TypeOK
  <2>2. CASE q # p
    BY <1>2, <1>3, <1>4, <1>6, <2>2 DEF SleepersAreMarked, SleeperIsMarked, TypeOK
  <2> QED BY <2>1, <2>2
<1> QED BY <1>2, <1>5, <1>10, <1>11, <1>12, <1>13, <1>14

\* getblk finds the block's buffer.
LEMMA GetblkFoundStep ==
    ASSUME BioInv, NEW p \in Procs, GetblkFound(p)
    PROVE  BioInv'
<1> USE BioAssumption DEF BioInv
<1>1. pc[p] \in PC /\ OnCPU(p) /\ wchan[p] = Nil
  BY DEF GetblkFound, bufVars, ioVars, Goto, Sleep, Return, OnCPU, SleepOK, TypeOK
<1>2. TypeOK'
  BY <1>1 DEF GetblkFound, bufVars, ioVars, Goto, Sleep, Return, TypeOK, PC, Ret, Flag, StagesOK, StageOK
<1>3. AvailIffNotBusy' /\ OneBufferPerBlock' /\ QueueOK'
  BY <1>1 DEF GetblkFound, bufVars, ioVars, Goto, Sleep, Return, AvailIffNotBusy, OneBufferPerBlock, QueueOK, TypeOK, StagesOK, StageOK
<1>4. OneOwner'
  <2>1. \A q \in Procs : Owned(q)' = Owned(q)
    BY <1>1 DEF GetblkFound, bufVars, ioVars, Goto, Sleep, Return, Owned, TypeOK, StagesOK, StageOK
  <2> QED BY <1>1, <2>1 DEF GetblkFound, bufVars, ioVars, Goto, Sleep, Return, OneOwner, TypeOK
<1>5. StagesOK'
  BY <1>1 DEF GetblkFound, bufVars, ioVars, Goto, Sleep, Return, StagesOK, StageOK, TypeOK, QueueOK, OneOwner, Owned
<1>6. SleepOK'
  BY <1>1 DEF GetblkFound, bufVars, ioVars, Goto, Sleep, Return, SleepOK, TypeOK
<1>7. SleepersAreMarked'
  BY <1>1 DEF GetblkFound, bufVars, ioVars, Goto, Sleep, Return, SleepersAreMarked, SleeperIsMarked, SleepOK, TypeOK
<1> QED BY <1>2, <1>3, <1>4, <1>5, <1>6, <1>7

\* getblk waits for a busy buffer, which it marks.
LEMMA GetblkBusyStep ==
    ASSUME BioInv, NEW p \in Procs, GetblkBusy(p)
    PROVE  BioInv'
<1> USE BioAssumption DEF BioInv
<1>1. pc[p] \in PC /\ OnCPU(p) /\ wchan[p] = Nil
  BY DEF GetblkBusy, bufVars, ioVars, Goto, Sleep, Return, OnCPU, SleepOK, TypeOK
<1>2. TypeOK'
  BY <1>1 DEF GetblkBusy, bufVars, ioVars, Goto, Sleep, Return, TypeOK, PC, Ret, Flag, StagesOK, StageOK
<1>3. AvailIffNotBusy' /\ OneBufferPerBlock' /\ QueueOK'
  BY <1>1 DEF GetblkBusy, bufVars, ioVars, Goto, Sleep, Return, AvailIffNotBusy, OneBufferPerBlock, QueueOK, TypeOK, StagesOK, StageOK
<1>4. OneOwner'
  <2>1. \A q \in Procs : Owned(q)' = Owned(q)
    BY <1>1 DEF GetblkBusy, bufVars, ioVars, Goto, Sleep, Return, Owned, TypeOK, StagesOK, StageOK
  <2> QED BY <1>1, <2>1 DEF GetblkBusy, bufVars, ioVars, Goto, Sleep, Return, OneOwner, TypeOK
<1>5. StagesOK'
  BY <1>1 DEF GetblkBusy, bufVars, ioVars, Goto, Sleep, Return, StagesOK, StageOK, TypeOK, QueueOK, OneOwner, Owned
<1>6. SleepOK'
  BY <1>1 DEF GetblkBusy, bufVars, ioVars, Goto, Sleep, Return, SleepOK, TypeOK
<1>7. SleepersAreMarked'
  BY <1>1 DEF GetblkBusy, bufVars, ioVars, Goto, Sleep, Return, SleepersAreMarked, SleeperIsMarked, SleepOK, TypeOK
<1> QED BY <1>2, <1>3, <1>4, <1>5, <1>6, <1>7

\* getblk waits for any buffer.
LEMMA GetblkNoneFreeStep ==
    ASSUME BioInv, NEW p \in Procs, GetblkNoneFree(p)
    PROVE  BioInv'
<1> USE BioAssumption DEF BioInv
<1>1. pc[p] \in PC /\ OnCPU(p) /\ wchan[p] = Nil
  BY DEF GetblkNoneFree, bufVars, ioVars, Goto, Sleep, Return, OnCPU, SleepOK, TypeOK
<1>2. TypeOK'
  BY <1>1 DEF GetblkNoneFree, bufVars, ioVars, Goto, Sleep, Return, TypeOK, PC, Ret, Flag, StagesOK, StageOK
<1>3. AvailIffNotBusy' /\ OneBufferPerBlock' /\ QueueOK'
  BY <1>1 DEF GetblkNoneFree, bufVars, ioVars, Goto, Sleep, Return, AvailIffNotBusy, OneBufferPerBlock, QueueOK, TypeOK, StagesOK, StageOK
<1>4. OneOwner'
  <2>1. \A q \in Procs : Owned(q)' = Owned(q)
    BY <1>1 DEF GetblkNoneFree, bufVars, ioVars, Goto, Sleep, Return, Owned, TypeOK, StagesOK, StageOK
  <2> QED BY <1>1, <2>1 DEF GetblkNoneFree, bufVars, ioVars, Goto, Sleep, Return, OneOwner, TypeOK
<1>5. StagesOK'
  BY <1>1 DEF GetblkNoneFree, bufVars, ioVars, Goto, Sleep, Return, StagesOK, StageOK, TypeOK, QueueOK, OneOwner, Owned
<1>6. SleepOK'
  BY <1>1 DEF GetblkNoneFree, bufVars, ioVars, Goto, Sleep, Return, SleepOK, TypeOK
<1>7. SleepersAreMarked'
  BY <1>1 DEF GetblkNoneFree, bufVars, ioVars, Goto, Sleep, Return, SleepersAreMarked, SleeperIsMarked, SleepOK, TypeOK
<1> QED BY <1>2, <1>3, <1>4, <1>5, <1>6, <1>7

\* breada turns to the block to read ahead.
LEMMA ReadAheadStep ==
    ASSUME BioInv, NEW p \in Procs, ReadAhead(p)
    PROVE  BioInv'
<1> USE BioAssumption DEF BioInv
<1>1. pc[p] \in PC /\ OnCPU(p) /\ wchan[p] = Nil
  BY DEF ReadAhead, bufVars, ioVars, Goto, Sleep, Return, OnCPU, SleepOK, TypeOK
<1>2. TypeOK'
  BY <1>1 DEF ReadAhead, bufVars, ioVars, Goto, TypeOK, PC, Ret
<1>3. AvailIffNotBusy' /\ OneBufferPerBlock' /\ QueueOK'
  BY <1>1 DEF ReadAhead, bufVars, ioVars, Goto, Sleep, Return, AvailIffNotBusy, OneBufferPerBlock, QueueOK, TypeOK, StagesOK, StageOK
<1>4. OneOwner'
  <2>1. \A q \in Procs : Owned(q)' = Owned(q)
    BY <1>1 DEF ReadAhead, bufVars, ioVars, Goto, Sleep, Return, Owned, TypeOK, StagesOK, StageOK
  <2> QED BY <1>1, <2>1 DEF ReadAhead, bufVars, ioVars, Goto, Sleep, Return, OneOwner, TypeOK
<1>5. StagesOK'
  BY <1>1 DEF ReadAhead, bufVars, ioVars, Goto, Sleep, Return, StagesOK, StageOK, TypeOK, QueueOK, OneOwner, Owned
<1>6. SleepOK'
  BY <1>1 DEF ReadAhead, bufVars, ioVars, Goto, Sleep, Return, SleepOK, TypeOK
<1>7. SleepersAreMarked'
  BY <1>1 DEF ReadAhead, bufVars, ioVars, Goto, Sleep, Return, SleepersAreMarked, SleeperIsMarked, SleepOK, TypeOK
<1> QED BY <1>2, <1>3, <1>4, <1>5, <1>6, <1>7

\* breada waits for its own block.
LEMMA BreadaEndStep ==
    ASSUME BioInv, NEW p \in Procs, BreadaEnd(p)
    PROVE  BioInv'
<1> USE BioAssumption DEF BioInv
<1>1. pc[p] \in PC /\ OnCPU(p) /\ wchan[p] = Nil
  BY DEF BreadaEnd, bufVars, ioVars, Goto, Sleep, Return, OnCPU, SleepOK, TypeOK
<1>2. TypeOK'
  BY <1>1 DEF BreadaEnd, bufVars, ioVars, Goto, Sleep, Return, TypeOK, PC, Ret, Flag, StagesOK, StageOK
<1>3. AvailIffNotBusy' /\ OneBufferPerBlock' /\ QueueOK'
  BY <1>1 DEF BreadaEnd, bufVars, ioVars, Goto, Sleep, Return, AvailIffNotBusy, OneBufferPerBlock, QueueOK, TypeOK, StagesOK, StageOK
<1>4. OneOwner'
  <2>1. \A q \in Procs : Owned(q)' = Owned(q)
    BY <1>1 DEF BreadaEnd, bufVars, ioVars, Goto, Sleep, Return, Owned, TypeOK, StagesOK, StageOK
  <2> QED BY <1>1, <2>1 DEF BreadaEnd, bufVars, ioVars, Goto, Sleep, Return, OneOwner, TypeOK
<1>5. StagesOK'
  BY <1>1 DEF BreadaEnd, bufVars, ioVars, Goto, Sleep, Return, StagesOK, StageOK, TypeOK, QueueOK, OneOwner, Owned
<1>6. SleepOK'
  BY <1>1 DEF BreadaEnd, bufVars, ioVars, Goto, Sleep, Return, SleepOK, TypeOK
<1>7. SleepersAreMarked'
  BY <1>1 DEF BreadaEnd, bufVars, ioVars, Goto, Sleep, Return, SleepersAreMarked, SleeperIsMarked, SleepOK, TypeOK
<1> QED BY <1>2, <1>3, <1>4, <1>5, <1>6, <1>7

\* iowait goes to sleep.
LEMMA IowaitSleepStep ==
    ASSUME BioInv, NEW p \in Procs, IowaitSleep(p)
    PROVE  BioInv'
<1> USE BioAssumption DEF BioInv
<1>1. pc[p] \in PC /\ OnCPU(p) /\ wchan[p] = Nil
  BY DEF IowaitSleep, bufVars, ioVars, Goto, Sleep, Return, OnCPU, SleepOK, TypeOK
<1>2. TypeOK'
  BY <1>1 DEF IowaitSleep, bufVars, ioVars, Goto, Sleep, Return, TypeOK, PC, Ret, Flag, StagesOK, StageOK
<1>3. AvailIffNotBusy' /\ OneBufferPerBlock' /\ QueueOK'
  BY <1>1 DEF IowaitSleep, bufVars, ioVars, Goto, Sleep, Return, AvailIffNotBusy, OneBufferPerBlock, QueueOK, TypeOK, StagesOK, StageOK
<1>4. OneOwner'
  <2>1. \A q \in Procs : Owned(q)' = Owned(q)
    BY <1>1 DEF IowaitSleep, bufVars, ioVars, Goto, Sleep, Return, Owned, TypeOK, StagesOK, StageOK
  <2> QED BY <1>1, <2>1 DEF IowaitSleep, bufVars, ioVars, Goto, Sleep, Return, OneOwner, TypeOK
<1>5. StagesOK'
  BY <1>1, ZenonT(60) DEF IowaitSleep, bufVars, ioVars, Goto, Sleep, Return, StagesOK, StageOK, TypeOK, QueueOK, OneOwner, Owned
<1>6. SleepOK'
  BY <1>1 DEF IowaitSleep, bufVars, ioVars, Goto, Sleep, Return, SleepOK, TypeOK
<1>7. SleepersAreMarked'
  BY <1>1 DEF IowaitSleep, bufVars, ioVars, Goto, Sleep, Return, SleepersAreMarked, SleeperIsMarked, SleepOK, StagesOK, StageOK, TypeOK
<1> QED BY <1>2, <1>3, <1>4, <1>5, <1>6, <1>7

\* bread returns.
LEMMA IowaitReadStep ==
    ASSUME BioInv, NEW p \in Procs, IowaitRead(p)
    PROVE  BioInv'
<1> USE BioAssumption DEF BioInv
<1>1. pc[p] \in PC /\ OnCPU(p) /\ wchan[p] = Nil
  BY DEF IowaitRead, bufVars, ioVars, Goto, Sleep, Return, OnCPU, SleepOK, TypeOK
<1>2. TypeOK'
  BY <1>1 DEF IowaitRead, bufVars, ioVars, Goto, Sleep, Return, TypeOK, PC, Ret, Flag, StagesOK, StageOK
<1>3. AvailIffNotBusy' /\ OneBufferPerBlock' /\ QueueOK'
  BY <1>1 DEF IowaitRead, bufVars, ioVars, Goto, Sleep, Return, AvailIffNotBusy, OneBufferPerBlock, QueueOK, TypeOK, StagesOK, StageOK
<1>4. OneOwner'
  <2>1. \A q \in Procs : Owned(q)' = Owned(q)
    BY <1>1 DEF IowaitRead, bufVars, ioVars, Goto, Sleep, Return, Owned, TypeOK, StagesOK, StageOK
  <2> QED BY <1>1, <2>1 DEF IowaitRead, bufVars, ioVars, Goto, Sleep, Return, OneOwner, TypeOK
<1>5. StagesOK'
  BY <1>1 DEF IowaitRead, bufVars, ioVars, Goto, Sleep, Return, StagesOK, StageOK, TypeOK, QueueOK, OneOwner, Owned
<1>6. SleepOK'
  BY <1>1 DEF IowaitRead, bufVars, ioVars, Goto, Sleep, Return, SleepOK, TypeOK
<1>7. SleepersAreMarked'
  BY <1>1 DEF IowaitRead, bufVars, ioVars, Goto, Sleep, Return, SleepersAreMarked, SleeperIsMarked, SleepOK, TypeOK
<1> QED BY <1>2, <1>3, <1>4, <1>5, <1>6, <1>7

\* bflush has nothing more to write.
LEMMA BflushEndStep ==
    ASSUME BioInv, NEW p \in Procs, BflushEnd(p)
    PROVE  BioInv'
<1> USE BioAssumption DEF BioInv
<1>1. pc[p] \in PC /\ OnCPU(p) /\ wchan[p] = Nil
  BY DEF BflushEnd, bufVars, ioVars, Goto, Sleep, Return, OnCPU, SleepOK, TypeOK
<1>2. TypeOK'
  BY <1>1 DEF BflushEnd, bufVars, ioVars, Goto, Sleep, Return, TypeOK, PC, Ret, Flag, StagesOK, StageOK
<1>3. AvailIffNotBusy' /\ OneBufferPerBlock' /\ QueueOK'
  BY <1>1 DEF BflushEnd, bufVars, ioVars, Goto, Sleep, Return, AvailIffNotBusy, OneBufferPerBlock, QueueOK, TypeOK, StagesOK, StageOK
<1>4. OneOwner'
  <2>1. \A q \in Procs : Owned(q)' = Owned(q)
    BY <1>1 DEF BflushEnd, bufVars, ioVars, Goto, Sleep, Return, Owned, TypeOK, StagesOK, StageOK
  <2> QED BY <1>1, <2>1 DEF BflushEnd, bufVars, ioVars, Goto, Sleep, Return, OneOwner, TypeOK
<1>5. StagesOK'
  BY <1>1 DEF BflushEnd, bufVars, ioVars, Goto, Sleep, Return, StagesOK, StageOK, TypeOK, QueueOK, OneOwner, Owned
<1>6. SleepOK'
  BY <1>1 DEF BflushEnd, bufVars, ioVars, Goto, Sleep, Return, SleepOK, TypeOK
<1>7. SleepersAreMarked'
  BY <1>1 DEF BflushEnd, bufVars, ioVars, Goto, Sleep, Return, SleepersAreMarked, SleeperIsMarked, SleepOK, TypeOK
<1> QED BY <1>2, <1>3, <1>4, <1>5, <1>6, <1>7

\* getblk returns to its caller.
LEMMA GotBufferStep ==
    ASSUME BioInv, NEW p \in Procs, GotBuffer(p)
    PROVE  BioInv'
<1> USE BioAssumption DEF BioInv
<1>1. pc[p] \in PC /\ OnCPU(p) /\ wchan[p] = Nil
  BY DEF GotBuffer, bufVars, ioVars, Goto, Sleep, Return, OnCPU, SleepOK, TypeOK
<1>2. TypeOK'
  BY <1>1 DEF GotBuffer, bufVars, ioVars, Goto, Sleep, Return, TypeOK, PC, Ret, Flag, StagesOK, StageOK
<1>3. AvailIffNotBusy' /\ OneBufferPerBlock' /\ QueueOK'
  BY <1>1 DEF GotBuffer, bufVars, ioVars, Goto, Sleep, Return, AvailIffNotBusy, OneBufferPerBlock, QueueOK, TypeOK, StagesOK, StageOK
<1>4. OneOwner'
  <2>1. \A q \in Procs : Owned(q)' = Owned(q)
    BY <1>1 DEF GotBuffer, bufVars, ioVars, Goto, Sleep, Return, Owned, TypeOK, StagesOK, StageOK
  <2> QED BY <1>1, <2>1 DEF GotBuffer, bufVars, ioVars, Goto, Sleep, Return, OneOwner, TypeOK
<1>5. StagesOK'
  BY <1>1 DEF GotBuffer, bufVars, ioVars, Goto, Sleep, Return, StagesOK, StageOK, TypeOK, QueueOK, OneOwner, Owned
<1>6. SleepOK'
  BY <1>1 DEF GotBuffer, bufVars, ioVars, Goto, Sleep, Return, SleepOK, TypeOK
<1>7. SleepersAreMarked'
  BY <1>1 DEF GotBuffer, bufVars, ioVars, Goto, Sleep, Return, SleepersAreMarked, SleeperIsMarked, SleepOK, TypeOK
<1> QED BY <1>2, <1>3, <1>4, <1>5, <1>6, <1>7

\* getblk or bflush goes on after writing out a delayed write.
LEMMA BwriteLoopStep ==
    ASSUME BioInv, NEW p \in Procs, BwriteLoop(p)
    PROVE  BioInv'
<1> USE BioAssumption DEF BioInv
<1>1. pc[p] \in PC /\ OnCPU(p) /\ wchan[p] = Nil
  BY DEF BwriteLoop, MarkAge, bufVars, ioVars, Goto, Sleep, Return, OnCPU, SleepOK, TypeOK
<1>2. TypeOK'
  BY <1>1 DEF BwriteLoop, MarkAge, bufVars, ioVars, Goto, Sleep, Return, TypeOK, PC, Ret, Flag, StagesOK, StageOK
<1>3. AvailIffNotBusy' /\ OneBufferPerBlock' /\ QueueOK'
  BY <1>1 DEF BwriteLoop, MarkAge, bufVars, ioVars, Goto, Sleep, Return, AvailIffNotBusy, OneBufferPerBlock, QueueOK, TypeOK, StagesOK, StageOK
<1>4. OneOwner'
  <2>1. \A q \in Procs : Owned(q)' = Owned(q)
    BY <1>1 DEF BwriteLoop, MarkAge, bufVars, ioVars, Goto, Sleep, Return, Owned, TypeOK, StagesOK, StageOK
  <2> QED BY <1>1, <2>1 DEF BwriteLoop, MarkAge, bufVars, ioVars, Goto, Sleep, Return, OneOwner, TypeOK
<1>5. StagesOK'
  BY <1>1 DEF BwriteLoop, MarkAge, bufVars, ioVars, Goto, Sleep, Return, StagesOK, StageOK, TypeOK, QueueOK, OneOwner, Owned
<1>6. SleepOK'
  BY <1>1 DEF BwriteLoop, MarkAge, bufVars, ioVars, Goto, Sleep, Return, SleepOK, TypeOK
<1>7. SleepersAreMarked'
  BY <1>1 DEF BwriteLoop, MarkAge, bufVars, ioVars, Goto, Sleep, Return, SleepersAreMarked, SleeperIsMarked, SleepOK, TypeOK
<1> QED BY <1>2, <1>3, <1>4, <1>5, <1>6, <1>7

\* bawrite of a delayed write returns.
LEMMA BawriteEndStep ==
    ASSUME BioInv, NEW p \in Procs, BawriteEnd(p)
    PROVE  BioInv'
<1> USE BioAssumption DEF BioInv
<1>1. pc[p] \in PC /\ OnCPU(p) /\ wchan[p] = Nil
  BY DEF BawriteEnd, MarkAge, bufVars, ioVars, Goto, Sleep, Return, OnCPU, SleepOK, TypeOK
<1>2. TypeOK'
  BY <1>1 DEF BawriteEnd, MarkAge, bufVars, ioVars, Goto, Sleep, Return, TypeOK, PC, Ret, Flag, StagesOK, StageOK
<1>3. AvailIffNotBusy' /\ OneBufferPerBlock' /\ QueueOK'
  BY <1>1 DEF BawriteEnd, MarkAge, bufVars, ioVars, Goto, Sleep, Return, AvailIffNotBusy, OneBufferPerBlock, QueueOK, TypeOK, StagesOK, StageOK
<1>4. OneOwner'
  <2>1. \A q \in Procs : Owned(q)' = Owned(q)
    BY <1>1 DEF BawriteEnd, MarkAge, bufVars, ioVars, Goto, Sleep, Return, Owned, TypeOK, StagesOK, StageOK
  <2> QED BY <1>1, <2>1 DEF BawriteEnd, MarkAge, bufVars, ioVars, Goto, Sleep, Return, OneOwner, TypeOK
<1>5. StagesOK'
  BY <1>1 DEF BawriteEnd, MarkAge, bufVars, ioVars, Goto, Sleep, Return, StagesOK, StageOK, TypeOK, QueueOK, OneOwner, Owned
<1>6. SleepOK'
  BY <1>1 DEF BawriteEnd, MarkAge, bufVars, ioVars, Goto, Sleep, Return, SleepOK, TypeOK
<1>7. SleepersAreMarked'
  BY <1>1 DEF BawriteEnd, MarkAge, bufVars, ioVars, Goto, Sleep, Return, SleepersAreMarked, SleeperIsMarked, SleepOK, TypeOK
<1> QED BY <1>2, <1>3, <1>4, <1>5, <1>6, <1>7

\* getblk takes the block's buffer, which is not busy.
LEMMA GetblkTakeStep ==
    ASSUME BioInv, NEW p \in Procs, GetblkTake(p)
    PROVE  BioInv'
<1> USE BioAssumption DEF BioInv
<1>1. pc[p] \in PC /\ OnCPU(p) /\ wchan[p] = Nil
  BY DEF GetblkTake, OnCPU, SleepOK, TypeOK
<1> DEFINE b == cand[p]
<1>2. /\ b \in Bufs /\ "BUSY" \notin flags[b] /\ Contains(avail, b)
      /\ flags' = [flags EXCEPT ![b] = flags[b] \cup {"BUSY"}]
      /\ ~Contains(queue, b)
  BY DEF GetblkTake, StagesOK, StageOK, TypeOK, AvailIffNotBusy, QueueOK
<1> HIDE DEF b
<1>3. /\ avail' \in Seq(Bufs) /\ IsInjective(avail')
      /\ \A x : Contains(avail', x) <=> Contains(avail, x) /\ x # b
      /\ queue' = queue /\ cand[p] = b
  <2>1. PICK i \in 1..Len(avail) : avail[i] = b /\ avail' = RemoveAt(avail, i)
    BY DEF GetblkTake, b
  <2> QED BY <2>1, RemoveAtProps DEF GetblkTake, TypeOK, AvailIffNotBusy, ioVars, b
<1>4. TypeOK'
  BY <1>1, <1>2, <1>3 DEF GetblkTake, bufVars, ioVars, Goto, Sleep, Return, TypeOK, PC, Ret, Flag
<1>5. AvailIffNotBusy' /\ OneBufferPerBlock' /\ QueueOK'
  BY <1>1, <1>2, <1>3 DEF GetblkTake, bufVars, ioVars, Goto, Sleep, Return, AvailIffNotBusy, OneBufferPerBlock, QueueOK, TypeOK
<1>6. OneOwner'
  <2>1. \A q \in Procs : Owned(q)' = IF q = p THEN Owned(q) \cup {b} ELSE Owned(q)
    BY <1>1, <1>2 DEF GetblkTake, bufVars, ioVars, Goto, Sleep, Return, Owned, TypeOK, StagesOK, StageOK
  <2>2. \A q \in Procs : b \notin Owned(q)
    BY <1>2 DEF OneOwner
  <2>0. \A q \in Procs : Owned(q) \subseteq Bufs
    BY DEF Owned, TypeOK, StagesOK, StageOK
  <2>3. ASSUME NEW q \in Procs, NEW c \in Owned(q)'
        PROVE  /\ "BUSY" \in flags'[c] /\ "ASYNC" \notin flags'[c]
               /\ \A r \in Procs \ {q} : c \notin Owned(r)'
    <3>1. CASE c = b
      <4>1. q = p /\ \A r \in Procs \ {p} : c \notin Owned(r)'
        BY <2>1, <2>2, <2>3, <3>1
      <4>2. "ASYNC" \notin flags[b]
        BY <1>2 DEF QueueOK
      <4> QED BY <1>2, <3>1, <4>1, <4>2 DEF TypeOK
    <3>2. CASE c # b
      <4>0. c \in Owned(q)
        BY <2>1, <2>3, <3>2
      <4>1. c \in Owned(q) /\ flags'[c] = flags[c]
        BY <1>2, <2>0, <3>2, <4>0 DEF TypeOK
      <4> QED BY <2>1, <3>2, <4>1 DEF OneOwner
    <3> QED BY <3>1, <3>2
  <2>4. ASSUME NEW c \in Bufs, "BUSY" \in flags'[c]
        PROVE  \/ \E q \in Procs : c \in Owned(q)'
               \/ Contains(queue', c) /\ "ASYNC" \in flags'[c]
    <3>1. CASE c = b
      BY <2>1, <3>1
    <3>2. CASE c # b
      <4>1. flags'[c] = flags[c] /\ queue' = queue
        BY <1>2, <1>3, <3>2 DEF TypeOK
      <4> QED BY <2>1, <2>4, <4>1 DEF OneOwner
    <3> QED BY <3>1, <3>2
  <2> QED BY <2>3, <2>4 DEF OneOwner
<1>7. StagesOK'
  <2>1. \A q \in Procs : bp[q] # b
    BY <1>2 DEF OneOwner, Owned
  <2> QED BY <1>1, <1>2, <1>3, <2>1 DEF GetblkTake, bufVars, ioVars, Goto, Sleep, Return, StagesOK, StageOK, TypeOK, QueueOK
<1>8. SleepOK'
  BY <1>1 DEF GetblkTake, bufVars, ioVars, Goto, Sleep, Return, SleepOK, TypeOK
<1>9. SleepersAreMarked'
  <2>1. \A q \in Procs : wchan[q] = b => pc[q] # "getblk" /\ bp[q] # b
    BY <1>2 DEF SleepersAreMarked, SleeperIsMarked, OneOwner, Owned
  <2>2. avail # <<>>
    BY <1>2 DEF Contains
  <2> QED BY <1>1, <1>2, <1>3, <2>1, <2>2 DEF GetblkTake, bufVars, ioVars, Goto, Sleep, Return, SleepersAreMarked, SleeperIsMarked, SleepOK, TypeOK
<1> QED BY <1>4, <1>5, <1>6, <1>7, <1>8, <1>9

\* getblk gives the oldest available buffer to the block.
LEMMA GetblkReassignStep ==
    ASSUME BioInv, NEW p \in Procs, GetblkReassign(p)
    PROVE  BioInv'
<1> USE BioAssumption DEF BioInv
<1>1. pc[p] \in PC /\ OnCPU(p) /\ wchan[p] = Nil
  BY DEF GetblkReassign, OnCPU, SleepOK, TypeOK
<1> DEFINE b == Head(avail)
<1>2. /\ b \in Bufs /\ "BUSY" \notin flags[b] /\ Contains(avail, b)
      /\ flags' = [flags EXCEPT ![b] = {"BUSY"}]
      /\ ~Contains(queue, b)
  BY TailProps DEF GetblkReassign, TypeOK, AvailIffNotBusy, QueueOK
<1>3. /\ avail' \in Seq(Bufs) /\ IsInjective(avail')
      /\ \A x : Contains(avail', x) <=> Contains(avail, x) /\ x # b
      /\ queue' = queue /\ cand' = [cand EXCEPT ![p] = b]
      /\ blk' = [blk EXCEPT ![b] = Target(p)]
  BY TailProps DEF GetblkReassign, TypeOK, AvailIffNotBusy, ioVars
<1> HIDE DEF b
<1>4. TypeOK'
  BY <1>1, <1>2, <1>3 DEF GetblkReassign, NotCached, Incore, Target, bufVars, ioVars, Goto, Sleep, Return, TypeOK, PC, Ret, Flag
<1>5. AvailIffNotBusy' /\ OneBufferPerBlock' /\ QueueOK'
  BY <1>1, <1>2, <1>3 DEF GetblkReassign, NotCached, Incore, Target, bufVars, ioVars, Goto, Sleep, Return, AvailIffNotBusy, OneBufferPerBlock, QueueOK, TypeOK
<1>6. OneOwner'
  <2>1. \A q \in Procs : Owned(q)' = IF q = p THEN Owned(q) \cup {b} ELSE Owned(q)
    BY <1>1, <1>2 DEF GetblkReassign, NotCached, Incore, Target, bufVars, ioVars, Goto, Sleep, Return, Owned, TypeOK, StagesOK, StageOK
  <2>2. \A q \in Procs : b \notin Owned(q)
    BY <1>2 DEF OneOwner
  <2>0. \A q \in Procs : Owned(q) \subseteq Bufs
    BY DEF Owned, TypeOK, StagesOK, StageOK
  <2>3. ASSUME NEW q \in Procs, NEW c \in Owned(q)'
        PROVE  /\ "BUSY" \in flags'[c] /\ "ASYNC" \notin flags'[c]
               /\ \A r \in Procs \ {q} : c \notin Owned(r)'
    <3>1. CASE c = b
      <4>1. q = p /\ \A r \in Procs \ {p} : c \notin Owned(r)'
        BY <2>1, <2>2, <2>3, <3>1
      <4>2. "ASYNC" \notin flags[b]
        BY <1>2 DEF QueueOK
      <4> QED BY <1>2, <3>1, <4>1, <4>2 DEF TypeOK
    <3>2. CASE c # b
      <4>0. c \in Owned(q)
        BY <2>1, <2>3, <3>2
      <4>1. c \in Owned(q) /\ flags'[c] = flags[c]
        BY <1>2, <2>0, <3>2, <4>0 DEF TypeOK
      <4> QED BY <2>1, <3>2, <4>1 DEF OneOwner
    <3> QED BY <3>1, <3>2
  <2>4. ASSUME NEW c \in Bufs, "BUSY" \in flags'[c]
        PROVE  \/ \E q \in Procs : c \in Owned(q)'
               \/ Contains(queue', c) /\ "ASYNC" \in flags'[c]
    <3>1. CASE c = b
      BY <2>1, <3>1
    <3>2. CASE c # b
      <4>1. flags'[c] = flags[c] /\ queue' = queue
        BY <1>2, <1>3, <3>2 DEF TypeOK
      <4> QED BY <2>1, <2>4, <4>1 DEF OneOwner
    <3> QED BY <3>1, <3>2
  <2> QED BY <2>3, <2>4 DEF OneOwner
<1>7. StagesOK'
  <2>1. \A q \in Procs : bp[q] # b
    BY <1>2 DEF OneOwner, Owned
  <2> QED BY <1>1, <1>2, <1>3, <2>1 DEF GetblkReassign, NotCached, Incore, Target, bufVars, ioVars, Goto, Sleep, Return, StagesOK, StageOK, TypeOK, QueueOK
<1>8. SleepOK'
  BY <1>1 DEF GetblkReassign, NotCached, Incore, Target, bufVars, ioVars, Goto, Sleep, Return, SleepOK, TypeOK
<1>9. SleepersAreMarked'
  <2>1. \A q \in Procs : wchan[q] = b => pc[q] # "getblk" /\ bp[q] # b
    BY <1>2 DEF SleepersAreMarked, SleeperIsMarked, OneOwner, Owned
  <2>2. avail # <<>>
    BY <1>2 DEF Contains
  <2> QED BY <1>1, <1>2, <1>3, <2>1, <2>2 DEF GetblkReassign, NotCached, Incore, Target, bufVars, ioVars, Goto, Sleep, Return, SleepersAreMarked, SleeperIsMarked, SleepOK, TypeOK
<1> QED BY <1>4, <1>5, <1>6, <1>7, <1>8, <1>9

\* getblk starts writing out the oldest available buffer.
LEMMA GetblkCleanStep ==
    ASSUME BioInv, NEW p \in Procs, GetblkClean(p)
    PROVE  BioInv'
<1> USE BioAssumption DEF BioInv
<1>1. pc[p] \in PC /\ OnCPU(p) /\ wchan[p] = Nil
  BY DEF GetblkClean, OnCPU, SleepOK, TypeOK
<1> DEFINE b == Head(avail)
<1>2. /\ b \in Bufs /\ "BUSY" \notin flags[b] /\ Contains(avail, b)
      /\ flags' \in [Bufs -> SUBSET Flag]
      /\ \A c \in Bufs \ {b} : flags'[c] = flags[c]
      /\ {"BUSY", "ASYNC"} \subseteq flags'[b] /\ "DONE" \notin flags'[b]
      /\ ~Contains(queue, b)
  BY TailProps DEF GetblkClean, TypeOK, AvailIffNotBusy, QueueOK, WriteFlags, Flag
<1>3. /\ avail' \in Seq(Bufs) /\ IsInjective(avail')
      /\ \A x : Contains(avail', x) <=> Contains(avail, x) /\ x # b
      /\ queue' \in Seq(Bufs) /\ IsInjective(queue')
      /\ \A x : Contains(queue', x) <=> Contains(queue, x) \/ x = b
      /\ cand' = [cand EXCEPT ![p] = b]
  BY <1>2, TailProps, AppendProps DEF GetblkClean, TypeOK, AvailIffNotBusy, QueueOK
<1> HIDE DEF b
<1>10. /\ pc' = [pc EXCEPT ![p] = "age"] /\ cur' = p
       /\ UNCHANGED <<blk, data, wanted, disk, wchan, want, ra, ret, bp, writes, ops>>
       /\ pc[p] = "getblk"
  BY DEF GetblkClean, Goto
<1>4. TypeOK'
  BY <1>1, <1>2, <1>3, <1>10 DEF TypeOK, PC, Ret, Flag
<1>5. AvailIffNotBusy' /\ OneBufferPerBlock' /\ QueueOK'
  BY <1>1, <1>2, <1>3, <1>10 DEF AvailIffNotBusy, OneBufferPerBlock, QueueOK, TypeOK
<1>6. OneOwner'
  <2>1. \A q \in Procs : Owned(q)' = Owned(q)
    BY <1>1, <1>3, <1>10 DEF Owned, TypeOK, StagesOK, StageOK
  <2>2. \A q \in Procs : b \notin Owned(q)
    BY <1>2 DEF OneOwner
  <2>0. \A q \in Procs : Owned(q) \subseteq Bufs
    BY DEF Owned, TypeOK, StagesOK, StageOK
  <2>3. ASSUME NEW q \in Procs, NEW c \in Owned(q)'
        PROVE  /\ "BUSY" \in flags'[c] /\ "ASYNC" \notin flags'[c]
               /\ \A r \in Procs \ {q} : c \notin Owned(r)'
    <3>1. c \in Owned(q) /\ c # b /\ flags'[c] = flags[c]
      BY <1>2, <2>0, <2>1, <2>2, <2>3
    <3> QED BY <2>1, <3>1 DEF OneOwner
  <2>4. ASSUME NEW c \in Bufs, "BUSY" \in flags'[c]
        PROVE  \/ \E q \in Procs : c \in Owned(q)'
               \/ Contains(queue', c) /\ "ASYNC" \in flags'[c]
    <3>1. CASE c = b
      BY <1>2, <1>3, <3>1 DEF TypeOK
    <3>2. CASE c # b
      <4>1. flags'[c] = flags[c]
        BY <1>2, <3>2 DEF TypeOK
      <4> QED BY <1>3, <2>1, <2>4, <4>1 DEF OneOwner
    <3> QED BY <3>1, <3>2
  <2> QED BY <2>3, <2>4 DEF OneOwner
<1>7. StagesOK'
  <2>1. \A q \in Procs : bp[q] # b /\ (pc[q] = "got" => cand[q] # b)
    BY <1>2 DEF OneOwner, Owned
  <2> SUFFICES ASSUME NEW q \in Procs PROVE StageOK(q)'
    BY DEF StagesOK
  <2>2. CASE q = p
    BY <1>1, <1>2, <1>3, <1>10, <2>1, <2>2, ZenonT(60) DEF StagesOK, StageOK, TypeOK
  <2>3. CASE q # p
    <3>1. /\ pc'[q] = pc[q] /\ cand'[q] = cand[q] /\ bp'[q] = bp[q] /\ ret'[q] = ret[q]
          /\ bp[q] \in Bufs \cup {Nil} /\ cand[q] \in Bufs \cup {Nil}
      BY <1>3, <1>10, <2>3 DEF TypeOK
    <3> QED BY <1>2, <1>3, <2>1, <3>1 DEF StagesOK, StageOK
  <2> QED BY <2>2, <2>3
<1>8. SleepOK'
  BY <1>1, <1>10 DEF SleepOK, TypeOK
<1>9. SleepersAreMarked'
  <2>1. \A q \in Procs : wchan[q] = b => pc[q] # "getblk" /\ bp[q] # b
    BY <1>2 DEF SleepersAreMarked, SleeperIsMarked, OneOwner, Owned
  <2>2. avail # <<>>
    BY <1>2 DEF Contains
  <2> QED BY <1>1, <1>2, <1>3, <1>10, <2>1, <2>2 DEF SleepersAreMarked, SleeperIsMarked, SleepOK, TypeOK
<1> QED BY <1>4, <1>5, <1>6, <1>7, <1>8, <1>9

\* bflush starts writing out an available buffer.
LEMMA BflushWriteStep ==
    ASSUME BioInv, NEW p \in Procs, BflushWrite(p)
    PROVE  BioInv'
<1> USE BioAssumption DEF BioInv
<1>1. pc[p] \in PC /\ OnCPU(p) /\ wchan[p] = Nil
  BY DEF BflushWrite, OnCPU, SleepOK, TypeOK
<1>0. PICK i \in 1..Len(avail) :
         /\ flags' = [flags EXCEPT ![avail[i]] = WriteFlags(@ \cup {"BUSY", "ASYNC"})]
         /\ queue' = Append(queue, avail[i])
         /\ cand' = [cand EXCEPT ![p] = avail[i]]
         /\ avail' = RemoveAt(avail, i)
  BY DEF BflushWrite
<1> DEFINE b == avail[i]
<1>2. /\ b \in Bufs /\ "BUSY" \notin flags[b] /\ Contains(avail, b)
      /\ flags' \in [Bufs -> SUBSET Flag]
      /\ \A c \in Bufs \ {b} : flags'[c] = flags[c]
      /\ {"BUSY", "ASYNC"} \subseteq flags'[b] /\ "DONE" \notin flags'[b]
      /\ ~Contains(queue, b)
  <2>1. b \in Bufs /\ Contains(avail, b)
    <3>1. avail \in Seq(Bufs)
      BY DEF TypeOK
    <3> QED BY <3>1 DEF Contains
  <2> QED BY <1>0, <2>1 DEF TypeOK, AvailIffNotBusy, QueueOK, WriteFlags, Flag
<1>3. /\ avail' \in Seq(Bufs) /\ IsInjective(avail')
      /\ \A x : Contains(avail', x) <=> Contains(avail, x) /\ x # b
      /\ queue' \in Seq(Bufs) /\ IsInjective(queue')
      /\ \A x : Contains(queue', x) <=> Contains(queue, x) \/ x = b
      /\ cand' = [cand EXCEPT ![p] = b]
  BY <1>0, <1>2, RemoveAtProps, AppendProps DEF TypeOK, AvailIffNotBusy, QueueOK
<1> HIDE DEF b
<1>10. /\ pc' = [pc EXCEPT ![p] = "age"] /\ cur' = p
       /\ UNCHANGED <<blk, data, wanted, disk, wchan, want, ra, ret, bp, writes, ops>>
       /\ pc[p] = "sync"
  BY DEF BflushWrite, Goto
<1>4. TypeOK'
  BY <1>1, <1>2, <1>3, <1>10 DEF TypeOK, PC, Ret, Flag
<1>5. AvailIffNotBusy' /\ OneBufferPerBlock' /\ QueueOK'
  BY <1>1, <1>2, <1>3, <1>10 DEF AvailIffNotBusy, OneBufferPerBlock, QueueOK, TypeOK
<1>6. OneOwner'
  <2>1. \A q \in Procs : Owned(q)' = Owned(q)
    BY <1>1, <1>3, <1>10 DEF Owned, TypeOK, StagesOK, StageOK
  <2>2. \A q \in Procs : b \notin Owned(q)
    BY <1>2 DEF OneOwner
  <2>0. \A q \in Procs : Owned(q) \subseteq Bufs
    BY DEF Owned, TypeOK, StagesOK, StageOK
  <2>3. ASSUME NEW q \in Procs, NEW c \in Owned(q)'
        PROVE  /\ "BUSY" \in flags'[c] /\ "ASYNC" \notin flags'[c]
               /\ \A r \in Procs \ {q} : c \notin Owned(r)'
    <3>1. c \in Owned(q) /\ c # b /\ flags'[c] = flags[c]
      BY <1>2, <2>0, <2>1, <2>2, <2>3
    <3> QED BY <2>1, <3>1 DEF OneOwner
  <2>4. ASSUME NEW c \in Bufs, "BUSY" \in flags'[c]
        PROVE  \/ \E q \in Procs : c \in Owned(q)'
               \/ Contains(queue', c) /\ "ASYNC" \in flags'[c]
    <3>1. CASE c = b
      BY <1>2, <1>3, <3>1 DEF TypeOK
    <3>2. CASE c # b
      <4>1. flags'[c] = flags[c]
        BY <1>2, <3>2 DEF TypeOK
      <4> QED BY <1>3, <2>1, <2>4, <4>1 DEF OneOwner
    <3> QED BY <3>1, <3>2
  <2> QED BY <2>3, <2>4 DEF OneOwner
<1>7. StagesOK'
  <2>1. \A q \in Procs : bp[q] # b /\ (pc[q] = "got" => cand[q] # b)
    BY <1>2 DEF OneOwner, Owned
  <2> SUFFICES ASSUME NEW q \in Procs PROVE StageOK(q)'
    BY DEF StagesOK
  <2>2. CASE q = p
    BY <1>1, <1>2, <1>3, <1>10, <2>1, <2>2, ZenonT(60) DEF StagesOK, StageOK, TypeOK
  <2>3. CASE q # p
    <3>1. /\ pc'[q] = pc[q] /\ cand'[q] = cand[q] /\ bp'[q] = bp[q] /\ ret'[q] = ret[q]
          /\ bp[q] \in Bufs \cup {Nil} /\ cand[q] \in Bufs \cup {Nil}
      BY <1>3, <1>10, <2>3 DEF TypeOK
    <3> QED BY <1>2, <1>3, <2>1, <3>1 DEF StagesOK, StageOK
  <2> QED BY <2>2, <2>3
<1>8. SleepOK'
  BY <1>1, <1>10 DEF SleepOK, TypeOK
<1>9. SleepersAreMarked'
  <2>1. \A q \in Procs : wchan[q] = b => pc[q] # "getblk" /\ bp[q] # b
    BY <1>2 DEF SleepersAreMarked, SleeperIsMarked, OneOwner, Owned
  <2>2. avail # <<>>
    BY <1>2 DEF Contains
  <2> QED BY <1>1, <1>2, <1>3, <1>10, <2>1, <2>2 DEF SleepersAreMarked, SleeperIsMarked, SleepOK, TypeOK
<1> QED BY <1>4, <1>5, <1>6, <1>7, <1>8, <1>9

\* The calls of brelse that end a call: brelse, bdwrite on a disk, and the end
\* of a synchronous bwrite.
LEMMA BrelseEnds ==
    ASSUME BioInv, NEW p \in Procs, Release(p) \/ DelayedRelease(p) \/ IowaitWrite(p)
    PROVE  BioInv'
<1> USE BioAssumption DEF BioInv
<1>1. pc[p] \in {"have", "iowait"} /\ OnCPU(p) /\ bp[p] \in Bufs /\ flags[bp[p]] \in SUBSET Flag
  BY DEF Release, DelayedRelease, Modify, IowaitWrite, StagesOK, StageOK, TypeOK
<1>2. ~Contains(queue, bp[p])
  BY <1>1 DEF Release, DelayedRelease, Modify, IowaitWrite, StagesOK, StageOK, QueueOK
<1>3. CASE Release(p) \/ IowaitWrite(p)
  <2>1. /\ Brelse(bp[p], flags[bp[p]]) /\ Return(p)
        /\ UNCHANGED <<data, queue, disk, writes, ops>>
    BY <1>3 DEF Release, IowaitWrite, ioVars
  <2>2. DOMAIN data' = Bufs /\ writes' \in Nat
    BY <2>1 DEF TypeOK
  <2> QED BY <1>1, <1>2, <2>1, <2>2, ReleaseStep
<1>4. CASE DelayedRelease(p)
  <2>1. /\ Brelse(bp[p], flags[bp[p]] \cup {"DELWRI", "DONE"}) /\ Return(p)
        /\ UNCHANGED <<queue, disk, ops>>
    BY <1>4 DEF DelayedRelease, ioVars
  <2>2. DOMAIN data' = Bufs /\ writes' \in Nat
    <3>1. Modify(p)
      BY <1>4 DEF DelayedRelease
    <3>2. data' = [data EXCEPT ![bp[p]] = writes + 1] /\ writes' = writes + 1
      BY <3>1 DEF Modify
    <3>3. DOMAIN data = Bufs /\ writes \in Nat
      BY DEF TypeOK
    <3>4. writes' \in Nat
      BY <3>2, <3>3
    <3>5. DOMAIN data' = Bufs
      BY <1>1, <3>2, <3>3
    <3> QED BY <3>4, <3>5
  <2>3. flags[bp[p]] \cup {"DELWRI", "DONE"} \in SUBSET Flag
    BY <1>1 DEF Flag
  <2> QED BY <1>1, <1>2, <2>1, <2>2, <2>3, ReleaseStep
<1> QED BY <1>3, <1>4

\* breada releases the read-ahead buffer, which was valid already.
LEMMA GotAheadDoneStep ==
    ASSUME BioInv, NEW p \in Procs, GotAheadDone(p)
    PROVE  BioInv'
<1> USE BioAssumption DEF BioInv
<1> DEFINE b == cand[p]
<1>1. /\ pc[p] = "got" /\ OnCPU(p) /\ wchan[p] = Nil /\ ret[p] = "ra"
      /\ b \in Bufs /\ b \in Owned(p) /\ bp[p] # b /\ flags[b] \in SUBSET Flag
      /\ "DONE" \in flags[b]
  BY DEF GotAheadDone, StagesOK, StageOK, Owned, OnCPU, SleepOK, TypeOK
<1>2. "BUSY" \in flags[b] /\ ~Contains(queue, b) /\ \A q \in Procs \ {p} : b \notin Owned(q)
  BY <1>1 DEF OneOwner, QueueOK
<1>3. /\ flags' = [flags EXCEPT ![b] = Released(flags[b])]
      /\ flags' \in [Bufs -> SUBSET Flag]
      /\ blk' \in [Bufs -> Blocks \cup {Nil}]
      /\ avail' \in Seq(Bufs) /\ wanted' = FALSE
      /\ wchan' \in [Procs -> Bufs \cup {FreeHdr, Nil}]
      /\ AvailIffNotBusy' /\ OneBufferPerBlock'
  BY <1>1, <1>2, BrelseProps DEF GotAheadDone
<1>4. \A q \in Procs :
        /\ wchan'[q] # Nil => wchan'[q] = wchan[q]
        /\ wchan'[q] # FreeHdr
        /\ wchan'[q] = b => pc[q] # "getblk"
  BY <1>1, <1>2, BrelseProps DEF GotAheadDone
<1>5. /\ pc' = [pc EXCEPT ![p] = "raend"] /\ cur' = p
      /\ cand' = [cand EXCEPT ![p] = Nil]
      /\ UNCHANGED <<data, queue, disk, want, ra, ret, bp, writes, ops>>
  BY DEF GotAheadDone, Goto, ioVars
<1> HIDE DEF b
<1>6. TypeOK'
  BY <1>3, <1>5 DEF TypeOK, PC
<1>7. \A q \in Procs : Owned(q)' = IF q = p THEN Owned(q) \ {b} ELSE Owned(q)
  BY <1>1, <1>5 DEF Owned, TypeOK, b
<1>8. \A q \in Procs : Owned(q) \subseteq Bufs
  BY DEF Owned, TypeOK, StagesOK, StageOK
<1>9. \A c \in Bufs \ {b} : flags'[c] = flags[c]
  BY <1>3 DEF TypeOK
<1>10. flags'[b] = Released(flags[b])
  BY <1>1, <1>3 DEF TypeOK
<1>11. QueueOK'
  BY <1>2, <1>5, <1>9, <1>10 DEF QueueOK, Released
<1>12. OneOwner'
  <2>1. ASSUME NEW q \in Procs, NEW c \in Owned(q)'
        PROVE  /\ "BUSY" \in flags'[c] /\ "ASYNC" \notin flags'[c]
               /\ \A r \in Procs \ {q} : c \notin Owned(r)'
    <3>1. c \in Owned(q) /\ c # b
      BY <1>2, <1>7, <2>1
    <3>2. flags'[c] = flags[c]
      BY <1>8, <1>9, <3>1
    <3> QED BY <1>7, <3>1, <3>2 DEF OneOwner
  <2>2. ASSUME NEW c \in Bufs, "BUSY" \in flags'[c]
        PROVE  \/ \E q \in Procs : c \in Owned(q)'
               \/ Contains(queue', c) /\ "ASYNC" \in flags'[c]
    <3>1. c # b
      BY <1>10, <2>2 DEF Released
    <3> QED BY <1>5, <1>7, <1>9, <2>2, <3>1 DEF OneOwner
  <2> QED BY <2>1, <2>2 DEF OneOwner
<1>13. StagesOK'
  <2>1. \A q \in Procs : bp[q] # b
    BY <1>1, <1>2 DEF Owned
  <2> SUFFICES ASSUME NEW q \in Procs PROVE StageOK(q)'
    BY DEF StagesOK
  <2>2. /\ pc'[q] = IF q = p THEN "raend" ELSE pc[q]
        /\ cand'[q] = IF q = p THEN Nil ELSE cand[q]
        /\ bp[q] \in Bufs \cup {Nil}
    BY <1>5 DEF TypeOK
  <2> QED BY <1>1, <1>5, <1>9, <2>1, <2>2 DEF StagesOK, StageOK
<1>14. SleepOK'
  BY <1>1, <1>4, <1>5 DEF SleepOK, TypeOK
<1>15. SleepersAreMarked'
  <2> SUFFICES ASSUME NEW q \in Procs
        PROVE  /\ wchan'[q] \in Bufs /\ pc'[q] = "getblk" =>
                    {"BUSY", "WANTED"} \subseteq flags'[wchan'[q]]
               /\ wchan'[q] \in Bufs /\ pc'[q] = "iowait" =>
                    wchan'[q] = bp'[q] /\ Contains(queue', bp'[q])
    BY <1>4 DEF SleepersAreMarked, SleeperIsMarked
  <2>1. CASE q = p
    BY <1>1, <1>4, <1>5, <2>1 DEF TypeOK
  <2>2. CASE q # p
    <3> SUFFICES ASSUME wchan'[q] \in Bufs
                 PROVE  /\ pc[q] = "getblk" => {"BUSY", "WANTED"} \subseteq flags'[wchan'[q]]
                        /\ pc[q] = "iowait" => wchan'[q] = bp[q] /\ Contains(queue, bp[q])
      BY <1>5, <2>2 DEF TypeOK
    <3>1. wchan'[q] = wchan[q] /\ wchan[q] \in Bufs
      BY <1>4
    <3>2. pc[q] = "getblk" => wchan[q] # b
      BY <1>4, <3>1
    <3> QED BY <1>9, <3>1, <3>2 DEF SleepersAreMarked, SleeperIsMarked
  <2> QED BY <2>1, <2>2
<1> QED BY <1>3, <1>6, <1>11, <1>12, <1>13, <1>14, <1>15

\* breada starts the read-ahead, which nobody waits for.
LEMMA GotAheadReadStep ==
    ASSUME BioInv, NEW p \in Procs, GotAheadRead(p)
    PROVE  BioInv'
<1> USE BioAssumption DEF BioInv
<1> DEFINE b == cand[p]
<1>1. /\ OnCPU(p) /\ wchan[p] = Nil /\ b \in Bufs /\ b \in Owned(p)
      /\ pc[p] = "got" /\ ret[p] = "ra" /\ bp[p] # b
  BY DEF GotAheadRead, Modify, StagesOK, StageOK, Owned, OnCPU, SleepOK, TypeOK
<1>2. "BUSY" \in flags[b] /\ ~Contains(queue, b) /\ \A q \in Procs \ {p} : b \notin Owned(q)
  BY <1>1 DEF OneOwner, StagesOK, StageOK
<1>3. /\ queue' = Append(queue, b)
      /\ queue' \in Seq(Bufs) /\ IsInjective(queue')
      /\ \A x : Contains(queue', x) <=> Contains(queue, x) \/ x = b
  BY <1>1, <1>2, AppendProps DEF GotAheadRead, TypeOK, QueueOK
<1>4. /\ pc' = [pc EXCEPT ![p] = "raend"] /\ cur' = p /\ cand' = [cand EXCEPT ![p] = Nil]
      /\ UNCHANGED <<blk, data, avail, wanted, disk, wchan, want, ra, ret, bp, writes, ops>>
  BY <1>1 DEF GotAheadRead, Modify, Goto, Return, TypeOK
<1>5. /\ flags' \in [Bufs -> SUBSET Flag]
      /\ \A c \in Bufs \ {b} : flags'[c] = flags[c]
      /\ flags'[b] = flags[b] \cup {"READ", "ASYNC"} /\ "DONE" \notin flags'[b]
      /\ "WANTED" \in flags[b] => "WANTED" \in flags'[b]
  BY <1>1, <1>2 DEF GotAheadRead, WriteFlags, TypeOK, Flag, OneOwner
<1>6. \A q \in Procs : Owned(q)' = IF q = p THEN Owned(q) \ {b} ELSE Owned(q)
  BY <1>1, <1>4 DEF Owned, TypeOK, StagesOK, StageOK
<1>7. \A q \in Procs : Owned(q) \subseteq Bufs
  BY DEF Owned, TypeOK, StagesOK, StageOK
<1> HIDE DEF b
<1>8. TypeOK'
  BY <1>1, <1>3, <1>4, <1>5 DEF TypeOK, PC, Ret
<1>9. AvailIffNotBusy' /\ OneBufferPerBlock' /\ QueueOK'
  BY <1>1, <1>2, <1>3, <1>4, <1>5 DEF AvailIffNotBusy, OneBufferPerBlock, QueueOK
<1>10. OneOwner'
  <2>1. ASSUME NEW q \in Procs, NEW c \in Owned(q)'
        PROVE  /\ "BUSY" \in flags'[c] /\ "ASYNC" \notin flags'[c]
               /\ \A r \in Procs \ {q} : c \notin Owned(r)'
    <3>1. c \in Owned(q)
      BY <1>6, <2>1
    <3>2. flags'[c] = flags[c]
      BY <1>2, <1>5, <1>6, <1>7, <2>1, <3>1
    <3> QED BY <1>5, <1>6, <3>1, <3>2 DEF OneOwner
  <2>2. ASSUME NEW c \in Bufs, "BUSY" \in flags'[c]
        PROVE  \/ \E q \in Procs : c \in Owned(q)'
               \/ Contains(queue', c) /\ "ASYNC" \in flags'[c]
    <3>1. CASE c = b
      BY <1>1, <1>3, <1>5, <1>6, <3>1
    <3>2. CASE c # b
      BY <1>3, <1>5, <1>6, <2>2, <3>2 DEF OneOwner
    <3> QED BY <3>1, <3>2
  <2> QED BY <2>1, <2>2 DEF OneOwner
<1>11. StagesOK'
  <2>1. \A q \in Procs \ {p} : bp[q] # b /\ (pc[q] = "got" => cand[q] # b)
    BY <1>1, <1>2 DEF Owned
  <2> SUFFICES ASSUME NEW q \in Procs PROVE StageOK(q)'
    BY DEF StagesOK
  <2>2. CASE q = p
    BY <1>1, <1>2, <1>3, <1>4, <1>5, <2>2 DEF StagesOK, StageOK, TypeOK
  <2>3. CASE q # p
    <3>1. /\ pc'[q] = pc[q] /\ cand'[q] = cand[q] /\ bp'[q] = bp[q] /\ ret'[q] = ret[q]
          /\ bp[q] \in Bufs \cup {Nil} /\ cand[q] \in Bufs \cup {Nil}
      BY <1>4, <2>3 DEF TypeOK
    <3> QED BY <1>3, <1>5, <2>1, <2>3, <3>1 DEF StagesOK, StageOK
  <2> QED BY <2>2, <2>3
<1>12. SleepOK'
  BY <1>1, <1>4 DEF SleepOK, TypeOK
<1>13. SleepersAreMarked'
  <2> SUFFICES ASSUME NEW q \in Procs PROVE SleeperIsMarked(q)'
    BY DEF SleepersAreMarked
  <2>1. SleeperIsMarked(q)
    BY DEF SleepersAreMarked
  <2>2. q = p => wchan'[q] = Nil
    BY <1>1, <1>4
  <2>3. q # p => pc'[q] = pc[q] /\ bp'[q] = bp[q] /\ wchan'[q] = wchan[q]
    BY <1>4 DEF TypeOK
  <2>4. \A c \in Bufs : /\ "BUSY" \in flags[c] => "BUSY" \in flags'[c]
                        /\ "WANTED" \in flags[c] => "WANTED" \in flags'[c]
    BY <1>1, <1>2, <1>5
  <2>5. CASE q = p
    BY <2>2, <2>5 DEF SleeperIsMarked
  <2>6. CASE q # p
    BY <1>3, <1>4, <2>1, <2>3, <2>4, <2>6 DEF SleeperIsMarked
  <2> QED BY <2>5, <2>6
<1> QED BY <1>8, <1>9, <1>10, <1>11, <1>12, <1>13

\* bwrite starts a transfer and will wait for it.
LEMMA BwriteStep ==
    ASSUME BioInv, NEW p \in Procs, Bwrite(p)
    PROVE  BioInv'
<1> USE BioAssumption DEF BioInv
<1> DEFINE b == bp[p]
<1>1. /\ OnCPU(p) /\ wchan[p] = Nil /\ b \in Bufs /\ b \in Owned(p)
      /\ pc[p] = "have"
  BY DEF Bwrite, Modify, StagesOK, StageOK, Owned, OnCPU, SleepOK, TypeOK
<1>2. "BUSY" \in flags[b] /\ ~Contains(queue, b) /\ \A q \in Procs \ {p} : b \notin Owned(q)
  BY <1>1 DEF OneOwner, StagesOK, StageOK
<1>3. /\ queue' = Append(queue, b)
      /\ queue' \in Seq(Bufs) /\ IsInjective(queue')
      /\ \A x : Contains(queue', x) <=> Contains(queue, x) \/ x = b
  BY <1>1, <1>2, AppendProps DEF Bwrite, TypeOK, QueueOK
<1>4. /\ pc' = [pc EXCEPT ![p] = "iowait"] /\ cur' = p /\ ret' = [ret EXCEPT ![p] = "bwrite"]
      /\ DOMAIN data' = Bufs /\ writes' \in Nat
      /\ UNCHANGED <<blk, avail, wanted, disk, wchan, want, ra, bp, cand, ops>>
  BY <1>1 DEF Bwrite, Modify, Goto, Return, TypeOK
<1>5. /\ flags' \in [Bufs -> SUBSET Flag]
      /\ \A c \in Bufs \ {b} : flags'[c] = flags[c]
      /\ "BUSY" \in flags'[b] /\ "ASYNC" \notin flags'[b] /\ "DONE" \notin flags'[b]
      /\ "WANTED" \in flags[b] => "WANTED" \in flags'[b]
  BY <1>1, <1>2 DEF Bwrite, WriteFlags, TypeOK, Flag, OneOwner
<1>6. \A q \in Procs : Owned(q)' = Owned(q)
  BY <1>1, <1>4 DEF Owned, TypeOK, StagesOK, StageOK
<1>7. \A q \in Procs : Owned(q) \subseteq Bufs
  BY DEF Owned, TypeOK, StagesOK, StageOK
<1> HIDE DEF b
<1>8. TypeOK'
  BY <1>1, <1>3, <1>4, <1>5 DEF TypeOK, PC, Ret
<1>9. AvailIffNotBusy' /\ OneBufferPerBlock' /\ QueueOK'
  BY <1>1, <1>2, <1>3, <1>4, <1>5 DEF AvailIffNotBusy, OneBufferPerBlock, QueueOK
<1>10. OneOwner'
  <2>1. ASSUME NEW q \in Procs, NEW c \in Owned(q)'
        PROVE  /\ "BUSY" \in flags'[c] /\ "ASYNC" \notin flags'[c]
               /\ \A r \in Procs \ {q} : c \notin Owned(r)'
    <3>1. c \in Owned(q)
      BY <1>6, <2>1
    <3>2. c # b => flags'[c] = flags[c]
      BY <1>2, <1>5, <1>6, <1>7, <2>1, <3>1
    <3> QED BY <1>5, <1>6, <3>1, <3>2 DEF OneOwner
  <2>2. ASSUME NEW c \in Bufs, "BUSY" \in flags'[c]
        PROVE  \/ \E q \in Procs : c \in Owned(q)'
               \/ Contains(queue', c) /\ "ASYNC" \in flags'[c]
    <3>1. CASE c = b
      BY <1>1, <1>3, <1>5, <1>6, <3>1
    <3>2. CASE c # b
      BY <1>3, <1>5, <1>6, <2>2, <3>2 DEF OneOwner
    <3> QED BY <3>1, <3>2
  <2> QED BY <2>1, <2>2 DEF OneOwner
<1>11. StagesOK'
  <2>1. \A q \in Procs \ {p} : bp[q] # b /\ (pc[q] = "got" => cand[q] # b)
    BY <1>1, <1>2 DEF Owned
  <2> SUFFICES ASSUME NEW q \in Procs PROVE StageOK(q)'
    BY DEF StagesOK
  <2>2. CASE q = p
    BY <1>1, <1>2, <1>3, <1>4, <1>5, <2>2 DEF StagesOK, StageOK, TypeOK, b
  <2>3. CASE q # p
    <3>1. /\ pc'[q] = pc[q] /\ cand'[q] = cand[q] /\ bp'[q] = bp[q] /\ ret'[q] = ret[q]
          /\ bp[q] \in Bufs \cup {Nil} /\ cand[q] \in Bufs \cup {Nil}
      BY <1>4, <2>3 DEF TypeOK
    <3> QED BY <1>3, <1>5, <2>1, <2>3, <3>1 DEF StagesOK, StageOK
  <2> QED BY <2>2, <2>3
<1>12. SleepOK'
  BY <1>1, <1>4 DEF SleepOK, TypeOK
<1>13. SleepersAreMarked'
  <2> SUFFICES ASSUME NEW q \in Procs PROVE SleeperIsMarked(q)'
    BY DEF SleepersAreMarked
  <2>1. CASE q = p
    BY <1>1, <1>4, <2>1 DEF TypeOK, SleeperIsMarked
  <2>2. CASE q # p
    <3>1. pc'[q] = pc[q] /\ wchan'[q] = wchan[q] /\ bp'[q] = bp[q]
      BY <1>4, <2>2 DEF TypeOK
    <3> QED BY <1>2, <1>3, <1>4, <1>5, <3>1 DEF SleepersAreMarked, SleeperIsMarked
  <2> QED BY <2>1, <2>2
<1> QED BY <1>8, <1>9, <1>10, <1>11, <1>12, <1>13

\* bawrite, after which the process owns nothing.
LEMMA BawriteStep ==
    ASSUME BioInv, NEW p \in Procs, Bawrite(p)
    PROVE  BioInv'
<1> USE BioAssumption DEF BioInv
<1> DEFINE b == bp[p]
<1>1. /\ OnCPU(p) /\ wchan[p] = Nil /\ b \in Bufs /\ b \in Owned(p)
      /\ pc[p] = "have"
  BY DEF Bawrite, Modify, StagesOK, StageOK, Owned, OnCPU, SleepOK, TypeOK
<1>2. "BUSY" \in flags[b] /\ ~Contains(queue, b) /\ \A q \in Procs \ {p} : b \notin Owned(q)
  BY <1>1 DEF OneOwner, StagesOK, StageOK
<1>3. /\ queue' \in Seq(Bufs) /\ IsInjective(queue')
      /\ \A x : Contains(queue', x) <=> Contains(queue, x) \/ x = b
  BY <1>1, <1>2, AppendProps DEF Bawrite, TypeOK, QueueOK
<1>4. /\ DOMAIN data' = Bufs /\ writes' \in Nat
      /\ UNCHANGED <<blk, avail, wanted, disk, wchan, ops>>
  BY <1>1 DEF Bawrite, Modify, TypeOK
<1>5. /\ flags' \in [Bufs -> SUBSET Flag]
      /\ \A c \in Bufs \ {b} : flags'[c] = flags[c]
      /\ {"BUSY", "ASYNC"} \subseteq flags'[b] /\ "DONE" \notin flags'[b]
      /\ "WANTED" \in flags[b] => "WANTED" \in flags'[b]
  BY <1>1, <1>2 DEF Bawrite, WriteFlags, TypeOK, Flag
<1> HIDE DEF b
<1>6. /\ \A q \in Procs \ {p} :
             /\ pc'[q] = pc[q] /\ bp'[q] = bp[q] /\ cand'[q] = cand[q]
             /\ ret'[q] = ret[q]
      /\ bp'[p] = Nil /\ cur' \in {p, Nil}
      /\ \/ pc'[p] = "age" /\ cand'[p] = b
         \/ pc'[p] = "user" /\ cand'[p] = Nil
      /\ pc' \in [Procs -> PC] /\ ret' \in [Procs -> Ret]
      /\ want' \in [Procs -> Blocks \cup {Nil}] /\ ra' \in [Procs -> Blocks \cup {Nil}]
      /\ bp' \in [Procs -> Bufs \cup {Nil}] /\ cand' \in [Procs -> Bufs \cup {Nil}]
  <2>1. CASE "DELWRI" \in flags[bp[p]]
    <3>1. /\ pc' = [pc EXCEPT ![p] = "age"] /\ cur' = p
          /\ cand' = [cand EXCEPT ![p] = b] /\ ret' = [ret EXCEPT ![p] = "bawrite"]
          /\ bp' = [bp EXCEPT ![p] = Nil] /\ UNCHANGED <<want, ra>>
      BY <2>1 DEF Bawrite, Goto, b
    <3> QED BY <1>1, <3>1 DEF TypeOK, PC, Ret
  <2>2. CASE "DELWRI" \notin flags[bp[p]]
    <3>1. Return(p)
      BY <2>2 DEF Bawrite
    <3> QED BY <3>1 DEF Return, TypeOK, PC, Ret
  <2> QED BY <2>1, <2>2
<1>7. \A q \in Procs : Owned(q)' = IF q = p THEN {} ELSE Owned(q)
  <2>1. Owned(p)' = {}
    BY <1>6 DEF Owned
  <2>2. \A q \in Procs \ {p} : Owned(q)' = Owned(q)
    BY <1>6 DEF Owned
  <2> QED BY <2>1, <2>2
<1>8. Owned(p) = {b} /\ \A q \in Procs : Owned(q) \subseteq Bufs
  BY <1>1 DEF Owned, TypeOK, StagesOK, StageOK, b
<1>9. TypeOK'
  BY <1>3, <1>4, <1>5, <1>6 DEF TypeOK
<1>10. AvailIffNotBusy' /\ OneBufferPerBlock' /\ QueueOK'
  BY <1>1, <1>2, <1>3, <1>4, <1>5 DEF AvailIffNotBusy, OneBufferPerBlock, QueueOK
<1>11. OneOwner'
  <2>1. ASSUME NEW q \in Procs, NEW c \in Owned(q)'
        PROVE  /\ "BUSY" \in flags'[c] /\ "ASYNC" \notin flags'[c]
               /\ \A r \in Procs \ {q} : c \notin Owned(r)'
    <3>1. c \in Owned(q) /\ q # p /\ c # b
      BY <1>2, <1>7, <2>1
    <3>2. flags'[c] = flags[c]
      BY <1>5, <1>8, <3>1
    <3> QED BY <1>7, <3>1, <3>2 DEF OneOwner
  <2>2. ASSUME NEW c \in Bufs, "BUSY" \in flags'[c]
        PROVE  \/ \E q \in Procs : c \in Owned(q)'
               \/ Contains(queue', c) /\ "ASYNC" \in flags'[c]
    <3>1. CASE c = b
      BY <1>3, <1>5, <3>1
    <3>2. CASE c # b
      BY <1>3, <1>5, <1>7, <1>8, <2>2, <3>2 DEF OneOwner
    <3> QED BY <3>1, <3>2
  <2> QED BY <2>1, <2>2 DEF OneOwner
<1>12. StagesOK'
  <2>1. \A q \in Procs \ {p} : bp[q] # b /\ (pc[q] = "got" => cand[q] # b)
    BY <1>1, <1>2 DEF Owned
  <2> SUFFICES ASSUME NEW q \in Procs PROVE StageOK(q)'
    BY DEF StagesOK
  <2>2. CASE q = p
    BY <1>1, <1>6, <2>2 DEF StageOK
  <2>3. CASE q # p
    <3>1. bp[q] \in Bufs \cup {Nil} /\ cand[q] \in Bufs \cup {Nil}
      BY DEF TypeOK
    <3> QED BY <1>3, <1>5, <1>6, <2>1, <2>3, <3>1 DEF StagesOK, StageOK
  <2> QED BY <2>2, <2>3
<1>13. SleepOK'
  <2>1. \A q \in Procs \ {p} : wchan'[q] = wchan[q] /\ pc'[q] = pc[q]
    BY <1>4, <1>6
  <2> QED BY <1>1, <1>4, <1>6, <2>1 DEF SleepOK, TypeOK
<1>14. SleepersAreMarked'
  <2> SUFFICES ASSUME NEW q \in Procs PROVE SleeperIsMarked(q)'
    BY DEF SleepersAreMarked
  <2>1. CASE q = p
    BY <1>1, <1>4, <2>1 DEF SleeperIsMarked
  <2>2. CASE q # p
    BY <1>2, <1>3, <1>4, <1>5, <1>6, <2>2 DEF SleepersAreMarked, SleeperIsMarked
  <2> QED BY <2>1, <2>2
<1> QED BY <1>9, <1>10, <1>11, <1>12, <1>13, <1>14

\* The interrupt at the end of a transfer.
LEMMA InterruptStep ==
    ASSUME BioInv, Interrupt
    PROVE  BioInv'
<1> USE BioAssumption DEF BioInv
<1>1. PICK i \in 1..Len(queue), failed \in BOOLEAN :
        /\ Transfer(queue[i], failed)
        /\ Iodone(queue[i], IodoneFlags(queue[i], failed))
        /\ queue' = RemoveAt(queue, i)
        /\ UNCHANGED <<cur, pc, want, ra, ret, bp, cand, writes, ops>>
  BY DEF Interrupt
<1> DEFINE b == queue[i]
           f == IodoneFlags(b, failed)
<1>2. b \in Bufs /\ Contains(queue, b)
  <2>1. queue \in Seq(Bufs)
    BY DEF TypeOK
  <2> QED BY <2>1 DEF Contains
<1>3. /\ "BUSY" \in flags[b] /\ "DONE" \notin flags[b]
      /\ f \in SUBSET Flag /\ "DONE" \in f /\ flags[b] \subseteq f
      /\ "ASYNC" \in f <=> "ASYNC" \in flags[b]
  BY <1>2 DEF QueueOK, IodoneFlags, TypeOK, Flag
<1>4. /\ queue' \in Seq(Bufs) /\ IsInjective(queue')
      /\ \A x : Contains(queue', x) <=> Contains(queue, x) /\ x # b
  BY <1>1, RemoveAtProps DEF TypeOK, QueueOK
<1> HIDE DEF b, f
<1>5. DOMAIN data' = Bufs /\ DOMAIN disk' = Blocks
  <2>1. Transfer(b, failed)
    BY <1>1 DEF b
  <2>2. DOMAIN disk' = Blocks
    BY <1>2, <2>1 DEF Transfer, TypeOK
  <2>3. DOMAIN data' = Bufs
    BY <1>2, <2>1 DEF Transfer, TypeOK
  <2> QED BY <2>2, <2>3
<1>6. Iodone(b, f)
  BY <1>1 DEF b, f
<1>7. CASE "ASYNC" \notin f
  <2>1. /\ flags' = [flags EXCEPT ![b] = f \ {"WANTED"}] /\ wchan' = Wakeup({b})
        /\ UNCHANGED <<blk, avail, wanted>>
    BY <1>6, <1>7 DEF Iodone
  <2>2. /\ \A c \in Bufs \ {b} : flags'[c] = flags[c]
        /\ flags'[b] = f \ {"WANTED"} /\ flags' \in [Bufs -> SUBSET Flag]
    BY <1>2, <1>3, <2>1 DEF TypeOK
  <2>3. /\ wchan' \in [Procs -> Bufs \cup {FreeHdr, Nil}]
        /\ \A q \in Procs : wchan'[q] = IF wchan[q] = b THEN Nil ELSE wchan[q]
    BY <2>1 DEF Wakeup, TypeOK
  <2>4. \A q \in Procs : Owned(q)' = Owned(q) /\ Owned(q) \subseteq Bufs
    BY <1>1 DEF Owned, TypeOK, StagesOK, StageOK
  <2>5. TypeOK'
    BY <1>1, <1>4, <1>5, <2>1, <2>2, <2>3 DEF TypeOK
  <2>6. AvailIffNotBusy' /\ OneBufferPerBlock' /\ QueueOK'
    BY <1>2, <1>3, <1>4, <2>1, <2>2 DEF AvailIffNotBusy, OneBufferPerBlock, QueueOK
  <2>7. OneOwner'
    <3>1. \A c \in Bufs : /\ "BUSY" \in flags'[c] <=> "BUSY" \in flags[c]
                          /\ "ASYNC" \in flags'[c] <=> "ASYNC" \in flags[c]
      BY <1>3, <1>7, <2>2
    <3>2. ASSUME NEW c \in Bufs, Contains(queue, c), "ASYNC" \in flags[c]
          PROVE  Contains(queue', c)
      BY <1>3, <1>4, <1>7, <3>2
    <3> QED BY <2>4, <3>1, <3>2 DEF OneOwner
  <2>8. StagesOK'
    <3> SUFFICES ASSUME NEW q \in Procs PROVE StageOK(q)'
      BY DEF StagesOK
    <3>1. bp[q] \in Bufs \cup {Nil} /\ cand[q] \in Bufs \cup {Nil}
      BY DEF TypeOK
    <3> QED BY <1>1, <1>3, <1>4, <2>2, <3>1 DEF StagesOK, StageOK
  <2>9. SleepOK'
    BY <1>1, <2>3 DEF SleepOK, TypeOK
  <2>10. SleepersAreMarked'
    <3> SUFFICES ASSUME NEW q \in Procs, wchan'[q] # Nil PROVE SleeperIsMarked(q)'
      BY DEF SleepersAreMarked, SleeperIsMarked
    <3>1. wchan'[q] = wchan[q] /\ wchan[q] # b
      BY <2>3
    <3> QED BY <1>1, <1>4, <2>1, <2>2, <3>1 DEF SleepersAreMarked, SleeperIsMarked
  <2> QED BY <2>5, <2>6, <2>7, <2>8, <2>9, <2>10
<1>8. CASE "ASYNC" \in f
  <2>0. Brelse(b, f)
    BY <1>6, <1>8 DEF Iodone
  <2>1. /\ flags' = [flags EXCEPT ![b] = Released(f)]
        /\ flags' \in [Bufs -> SUBSET Flag]
        /\ blk' \in [Bufs -> Blocks \cup {Nil}]
        /\ avail' \in Seq(Bufs) /\ wanted' = FALSE
        /\ wchan' \in [Procs -> Bufs \cup {FreeHdr, Nil}]
        /\ AvailIffNotBusy' /\ OneBufferPerBlock'
    BY <1>2, <1>3, <2>0, BrelseProps
  <2>2. \A q \in Procs :
          /\ wchan'[q] # Nil => wchan'[q] = wchan[q]
          /\ wchan'[q] # FreeHdr
          /\ wchan'[q] = b => pc[q] # "getblk"
    BY <1>2, <1>3, <2>0, BrelseProps
  <2>3. \A c \in Bufs \ {b} : flags'[c] = flags[c]
    BY <2>1 DEF TypeOK
  <2>4. flags'[b] = Released(f)
    BY <1>2, <2>1 DEF TypeOK
  <2>5. \A q \in Procs : Owned(q)' = Owned(q) /\ Owned(q) \subseteq Bufs /\ b \notin Owned(q)
    <3>1. \A q \in Procs : Owned(q)' = Owned(q) /\ Owned(q) \subseteq Bufs
      BY <1>1 DEF Owned, TypeOK, StagesOK, StageOK
    <3>2. \A q \in Procs : b \notin Owned(q)
      BY <1>3, <1>8 DEF OneOwner
    <3> QED BY <3>1, <3>2
  <2>6. TypeOK'
    BY <1>1, <1>4, <1>5, <2>1 DEF TypeOK
  <2>7. QueueOK'
    BY <1>4, <2>3, <2>4 DEF QueueOK, Released
  <2>8. OneOwner'
    <3>1. ASSUME NEW q \in Procs, NEW c \in Owned(q)'
          PROVE  /\ "BUSY" \in flags'[c] /\ "ASYNC" \notin flags'[c]
                 /\ \A r \in Procs \ {q} : c \notin Owned(r)'
      <4>1. c \in Owned(q) /\ flags'[c] = flags[c]
        BY <2>3, <2>5, <3>1
      <4> QED BY <2>5, <4>1 DEF OneOwner
    <3>2. ASSUME NEW c \in Bufs, "BUSY" \in flags'[c]
          PROVE  \/ \E q \in Procs : c \in Owned(q)'
                 \/ Contains(queue', c) /\ "ASYNC" \in flags'[c]
      <4>1. c # b /\ flags'[c] = flags[c]
        BY <2>3, <2>4, <3>2 DEF Released
      <4> QED BY <1>4, <2>5, <3>2, <4>1 DEF OneOwner
    <3> QED BY <3>1, <3>2 DEF OneOwner
  <2>9. StagesOK'
    <3>1. \A q \in Procs : bp[q] # b
      BY <1>2, <2>5 DEF Owned
    <3> SUFFICES ASSUME NEW q \in Procs PROVE StageOK(q)'
      BY DEF StagesOK
    <3>2. bp[q] \in Bufs \cup {Nil} /\ cand[q] \in Bufs \cup {Nil}
      BY DEF TypeOK
    <3> QED BY <1>1, <1>4, <2>3, <3>1, <3>2 DEF StagesOK, StageOK
  <2>10. SleepOK'
    BY <1>1, <2>2 DEF SleepOK, TypeOK
  <2>11. SleepersAreMarked'
    <3>1. \A q \in Procs : bp[q] # b
      BY <1>2, <2>5 DEF Owned
    <3> SUFFICES ASSUME NEW q \in Procs, wchan'[q] \in Bufs PROVE SleeperIsMarked(q)'
      BY <2>2 DEF SleepersAreMarked, SleeperIsMarked
    <3>2. wchan'[q] = wchan[q] /\ (pc[q] = "getblk" => wchan[q] # b)
      BY <2>2
    <3> QED BY <1>1, <1>4, <2>2, <2>3, <3>1, <3>2 DEF SleepersAreMarked, SleeperIsMarked
  <2> QED BY <2>1, <2>6, <2>7, <2>8, <2>9, <2>10, <2>11
<1> QED BY <1>7, <1>8

\* bread and breada get the buffer of their own block.
LEMMA GotToReadStep ==
    ASSUME BioInv, NEW p \in Procs, GotToRead(p)
    PROVE  BioInv'
<1> USE BioAssumption DEF BioInv
<1> DEFINE b == cand[p]
<1>1. /\ OnCPU(p) /\ wchan[p] = Nil /\ b \in Bufs /\ b \in Owned(p)
      /\ pc[p] = "got" /\ ret[p] \in {"bread", "breada"} /\ bp[p] = Nil
  BY DEF GotToRead, StagesOK, StageOK, Owned, OnCPU, SleepOK, TypeOK
<1>2. /\ "BUSY" \in flags[b] /\ "ASYNC" \notin flags[b] /\ ~Contains(queue, b)
      /\ \A q \in Procs \ {p} : b \notin Owned(q)
  BY <1>1 DEF OneOwner, StagesOK, StageOK
<1>3. /\ queue' \in Seq(Bufs) /\ IsInjective(queue')
      /\ \A x : Contains(queue, x) => Contains(queue', x)
      /\ \A x : Contains(queue', x) => Contains(queue, x) \/ x = b
      /\ Contains(queue', b) => pc'[p] \in {"iowait", "ahead"} /\ "DONE" \notin flags'[b]
      /\ ~Contains(queue', b) => pc'[p] \in {"have", "ahead"} /\ "DONE" \in flags'[b]
      /\ pc' \in [Procs -> PC] /\ cur' = p
      /\ \A q \in Procs \ {p} : pc'[q] = pc[q]
  <2>1. CASE "DONE" \in flags[b]
    <3>1. /\ flags' = flags /\ queue' = queue
          /\ \E l \in {"have", "ahead"} : pc' = [pc EXCEPT ![p] = l] /\ cur' = p
      BY <2>1 DEF GotToRead, Goto
    <3> QED BY <1>1, <1>2, <2>1, <3>1 DEF TypeOK, QueueOK, PC
  <2>2. CASE "DONE" \notin flags[b]
    <3>1. /\ flags' = [flags EXCEPT ![b] = @ \cup {"READ"}]
          /\ queue' = Append(queue, b)
          /\ \E l \in {"iowait", "ahead"} : pc' = [pc EXCEPT ![p] = l] /\ cur' = p
      BY <2>2 DEF GotToRead, Goto
    <3>2. /\ queue' \in Seq(Bufs) /\ IsInjective(queue')
          /\ \A x : Contains(queue', x) <=> Contains(queue, x) \/ x = b
      BY <1>1, <1>2, <3>1, AppendProps DEF TypeOK, QueueOK
    <3> QED BY <1>1, <2>2, <3>1, <3>2 DEF TypeOK, PC
  <2> QED BY <2>1, <2>2
<1>4. /\ cand' = [cand EXCEPT ![p] = Nil] /\ bp' = [bp EXCEPT ![p] = b]
      /\ UNCHANGED <<blk, data, avail, wanted, disk, wchan, want, ra, ret, writes, ops>>
  BY <1>1 DEF GotToRead
<1>5. /\ flags' \in [Bufs -> SUBSET Flag]
      /\ \A c \in Bufs \ {b} : flags'[c] = flags[c]
      /\ flags'[b] \in {flags[b], flags[b] \cup {"READ"}}
  <2>1. \/ flags' = flags
        \/ flags' = [flags EXCEPT ![b] = flags[b] \cup {"READ"}]
    BY <1>1 DEF GotToRead
  <2> HIDE DEF b
  <2> QED BY <1>1, <2>1 DEF TypeOK, Flag
<1>6. \A q \in Procs : Owned(q)' = Owned(q)
  <2>1. ASSUME NEW q \in Procs PROVE Owned(q)' = Owned(q)
    <3>1. CASE q = p
      <4>1. Owned(p) = {b}
        BY <1>1 DEF Owned
      <4>2. bp'[p] = b /\ pc'[p] # "got"
        BY <1>1, <1>3, <1>4 DEF TypeOK
      <4>3. Owned(p)' = {b}
        BY <1>1, <4>2 DEF Owned
      <4> QED BY <3>1, <4>1, <4>3
    <3>2. CASE q # p
      BY <1>3, <1>4, <3>2 DEF Owned, TypeOK
    <3> QED BY <3>1, <3>2
  <2> QED BY <2>1
<1>7. \A q \in Procs : Owned(q) \subseteq Bufs
  BY DEF Owned, TypeOK, StagesOK, StageOK
<1> HIDE DEF b
<1>8. TypeOK'
  BY <1>1, <1>3, <1>4, <1>5 DEF TypeOK
<1>9. AvailIffNotBusy' /\ OneBufferPerBlock' /\ QueueOK'
  BY <1>1, <1>2, <1>3, <1>4, <1>5 DEF AvailIffNotBusy, OneBufferPerBlock, QueueOK
<1>10. OneOwner'
  <2>1. \A c \in Bufs : /\ "BUSY" \in flags'[c] <=> "BUSY" \in flags[c]
                        /\ "ASYNC" \in flags'[c] <=> "ASYNC" \in flags[c]
    BY <1>5
  <2> QED BY <1>3, <1>6, <1>7, <2>1 DEF OneOwner
<1>11. StagesOK'
  <2>1. \A q \in Procs \ {p} : bp[q] # b /\ (pc[q] = "got" => cand[q] # b)
    BY <1>1, <1>2 DEF Owned
  <2> SUFFICES ASSUME NEW q \in Procs PROVE StageOK(q)'
    BY DEF StagesOK
  <2>2. CASE q = p
    <3>1. bp'[p] = b /\ pc'[p] \in {"iowait", "ahead", "have"}
      BY <1>1, <1>3, <1>4 DEF TypeOK
    <3> QED BY <1>1, <1>3, <2>2, <3>1 DEF StageOK
  <2>3. CASE q # p
    <3>1. /\ pc'[q] = pc[q] /\ cand'[q] = cand[q] /\ bp'[q] = bp[q] /\ ret'[q] = ret[q]
          /\ bp[q] \in Bufs \cup {Nil} /\ cand[q] \in Bufs \cup {Nil}
      BY <1>3, <1>4, <2>3 DEF TypeOK
    <3> QED BY <1>3, <1>5, <2>1, <2>3, <3>1 DEF StagesOK, StageOK
  <2> QED BY <2>2, <2>3
<1>12. SleepOK'
  BY <1>1, <1>3, <1>4 DEF SleepOK, TypeOK
<1>13. SleepersAreMarked'
  <2> SUFFICES ASSUME NEW q \in Procs PROVE SleeperIsMarked(q)'
    BY DEF SleepersAreMarked
  <2>1. CASE q = p
    BY <1>1, <1>4, <2>1 DEF SleeperIsMarked
  <2>2. CASE q # p
    <3>1. pc'[q] = pc[q] /\ wchan'[q] = wchan[q] /\ bp'[q] = bp[q]
      BY <1>3, <1>4, <2>2 DEF TypeOK
    <3>2. \A c \in Bufs : flags[c] \subseteq flags'[c]
      BY <1>5
    <3>3. SleeperIsMarked(q)
      BY DEF SleepersAreMarked
    <3> QED BY <1>3, <1>4, <3>1, <3>2, <3>3 DEF SleeperIsMarked
  <2> QED BY <2>1, <2>2
<1> QED BY <1>8, <1>9, <1>10, <1>11, <1>12, <1>13

\* A step that changes nothing.
LEMMA StutterStep ==
    ASSUME BioInv, UNCHANGED vars
    PROVE  BioInv'
<1> USE DEF BioInv, vars, bufVars, ioVars, procVars
<1>1. TypeOK' /\ AvailIffNotBusy' /\ OneBufferPerBlock' /\ QueueOK'
  BY DEF TypeOK, AvailIffNotBusy, OneBufferPerBlock, QueueOK
<1>2. OneOwner' /\ StagesOK'
  BY DEF OneOwner, Owned, StagesOK, StageOK
<1>3. SleepOK' /\ SleepersAreMarked'
  BY DEF SleepOK, SleepersAreMarked, SleeperIsMarked
<1> QED BY <1>1, <1>2, <1>3

\* Every step of the cache preserves the invariant: one lemma per action.
LEMMA BioInvNext == BioInv /\ [Next]_vars => BioInv'
<1> SUFFICES ASSUME BioInv, [Next]_vars PROVE BioInv'
  OBVIOUS
<1>1. CASE UNCHANGED vars
  BY <1>1, StutterStep
<1>2. CASE Interrupt
  BY <1>2, InterruptStep
<1>3. ASSUME NEW p \in Procs, NewCall(p) PROVE BioInv'
  BY <1>3, CallStep
<1>4. ASSUME NEW p \in Procs, Step(p) PROVE BioInv'
  <2>1. CASE GetblkFound(p) \/ GetblkBusy(p) \/ GetblkTake(p) \/ GetblkNoneFree(p)
    BY <2>1, GetblkFoundStep, GetblkBusyStep, GetblkTakeStep, GetblkNoneFreeStep
  <2>2. CASE GetblkClean(p) \/ GetblkReassign(p) \/ BwriteLoop(p) \/ BawriteEnd(p)
    BY <2>2, GetblkCleanStep, GetblkReassignStep, BwriteLoopStep, BawriteEndStep
  <2>3. CASE GotBuffer(p) \/ GotToRead(p) \/ ReadAhead(p) \/ GotAheadDone(p)
             \/ GotAheadRead(p) \/ BreadaEnd(p)
    BY <2>3, GotBufferStep, GotToReadStep, ReadAheadStep, GotAheadDoneStep,
       GotAheadReadStep, BreadaEndStep
  <2>4. CASE IowaitSleep(p) \/ IowaitRead(p) \/ BflushWrite(p) \/ BflushEnd(p)
    BY <2>4, IowaitSleepStep, IowaitReadStep, BflushWriteStep, BflushEndStep
  <2>5. CASE Release(p) \/ IowaitWrite(p)
    BY <2>5, BrelseEnds
  <2>6. CASE Bwrite(p) \/ Bawrite(p) \/ Bdwrite(p)
    BY <2>6, BwriteStep, BawriteStep, BrelseEnds DEF Bdwrite
  <2> QED BY <1>4, <2>1, <2>2, <2>3, <2>4, <2>5, <2>6 DEF Step
<1> QED BY <1>1, <1>2, <1>3, <1>4 DEF Next, Finished

----------------------------------------------------------------------------
\* The cache is always in a state of the inductive invariant.
THEOREM BioInvariant == Spec => []BioInv
<1> QED BY BioInvInit, BioInvNext, PTL DEF Spec

\* Every variable of the buffer cache always has its type.
THEOREM TypeTheorem == Spec => []TypeOK
<1>1. BioInv => TypeOK
  BY DEF BioInv
<1> QED BY <1>1, BioInvariant, PTL

\* buf.h:12-14: at any time the available list holds exactly the buffers that
\* are not B_BUSY, each of them once.
THEOREM AvailTheorem == Spec => []AvailIffNotBusy
<1>1. BioInv => AvailIffNotBusy
  BY DEF BioInv
<1> QED BY <1>1, BioInvariant, PTL

\* getblk never leaves two buffers associated with one block, although it
\* sleeps between its search and its choice.
THEOREM OneBufferTheorem == Spec => []OneBufferPerBlock
<1>1. BioInv => OneBufferPerBlock
  BY DEF BioInv
<1> QED BY <1>1, BioInvariant, PTL

\* A busy buffer has exactly one owner: the process that took it off the
\* available list, or the asynchronous transfer iodone will release it after.
THEOREM OwnerTheorem == Spec => []OneOwner
<1>1. BioInv => OneOwner
  BY DEF BioInv
<1> QED BY <1>1, BioInvariant, PTL

\* The device only ever works on busy, unfinished buffers, each of them once.
THEOREM QueueTheorem == Spec => []QueueOK
<1>1. BioInv => QueueOK
  BY DEF BioInv
<1> QED BY <1>1, BioInvariant, PTL

\* No wakeup is lost: whoever sleeps in getblk or iowait waits for a buffer
\* marked B_WANTED, a marked free list, or a transfer that is under way.
THEOREM NoLostWakeup == Spec => []SleepersAreMarked
<1>1. BioInv => SleepersAreMarked
  BY DEF BioInv
<1> QED BY <1>1, BioInvariant, PTL

\* Interrupts in the middle of getblk, bwrite or bflush leave the flags of every buffer
\* in agreement with the available list and the devices' queues, one owner for every busy
\* buffer and one buffer for every block.
THEOREM CacheTheorem == Spec => []CacheOK
<1> QED BY TypeTheorem, AvailTheorem, OneBufferTheorem, OwnerTheorem, QueueTheorem, PTL
       DEF CacheOK

----------------------------------------------------------------------------
(* The contents of the buffers: what the cache promises to the file system *)

\* A buffer whose contents are newer than the disk's: a delayed write, or one under way.
Fresh(b) == "DELWRI" \in flags[b] \/ (Contains(queue, b) /\ "READ" \notin flags[b])

\* What a buffer holds when the device makes no errors.
BufferOK(b) ==
    /\ "ERROR" \notin flags[b]
    /\ "DELWRI" \in flags[b] => "DONE" \in flags[b]
    /\ "DONE" \in flags[b] /\ "DELWRI" \notin flags[b] /\ blk[b] # Nil =>
          data[b] = disk[blk[b]]

\* What a process has been given.
GivenOK(p) ==
    /\ ret[p] = "geteblk" =>
          /\ want[p] = Nil /\ pc[p] # "match"
          /\ pc[p] = "got" => blk[cand[p]] = Nil
          /\ pc[p] = "have" => blk[bp[p]] = Nil
    /\ pc[p] = "have" =>
          /\ ret[p] \in {"bread", "getblk", "geteblk"}
          /\ ret[p] = "bread" => "DONE" \in flags[bp[p]]

\* The calls that may still modify a block.
Unwritten ==
    {p \in Procs : /\ pc[p] # "user"
                   /\ ~(pc[p] = "iowait" /\ ret[p] = "bwrite")
                   /\ ~(pc[p] = "age" /\ ret[p] = "bawrite")}

CountOK == IsFiniteSet(Unwritten) /\ writes + Cardinality(Unwritten) <= ops /\ ops <= MaxOps

DataInv ==
    /\ \A b \in Bufs : BufferOK(b)
    /\ \A p \in Procs : GivenOK(p)
    /\ CountOK

\* A write to a tape that is queued, and its order with others of the queue.
TapeWrite(b) == Contains(queue, b) /\ blk[b] \in Tape /\ "READ" \notin flags[b]

Before(a, b) == \E i, j \in 1..Len(queue) : i < j /\ queue[i] = a /\ queue[j] = b

\* The writes to a tape wait in the order they were requested, after those that are done.
TapeInv ==
    /\ \A b \in Bufs : "DELWRI" \in flags[b] => blk[b] \notin Tape
    /\ \A y \in Tape : disk[y] \in 0..writes
    /\ \A b \in Bufs : TapeWrite(b) =>
          /\ data[b] \in 1..writes
          /\ \A y \in Tape : disk[y] < data[b]
    /\ \A a, b \in Bufs : TapeWrite(a) /\ TapeWrite(b) /\ Before(a, b) => data[a] < data[b]

\* The initial state.
LEMMA DataInvInit == Init => DataInv /\ TapeInv
<1> SUFFICES ASSUME Init PROVE DataInv /\ TapeInv
  OBVIOUS
<1>1. \A b \in Bufs : BufferOK(b)
  BY DEF Init, BufferOK
<1>2. \A p \in Procs : GivenOK(p)
  BY DEF Init, GivenOK
<1>3. CountOK
  <2>1. Unwritten = {}
    BY DEF Init, Unwritten
  <2> QED BY <2>1, FS_EmptySet, BioAssumption DEF Init, CountOK
<1>4. TapeInv
  BY BioAssumption DEF Init, TapeInv, TapeWrite, Contains
<1> QED BY <1>1, <1>2, <1>3, <1>4 DEF DataInv

----------------------------------------------------------------------------
(* The map to the store *)

\* What StoreOf and HolderOf are, without the choice of a buffer or process.
StoreMap ==
    /\ \A b \in Bufs : blk[b] \in Blocks /\ Valid(b) => StoreOf(blk[b]) = data[b]
    /\ \A b \in Bufs : blk[b] \in Blocks /\ Fresh(b) => StoreOf(blk[b]) = data[b]
    /\ \A x \in Blocks : (\A b \in Bufs : blk[b] = x => ~Fresh(b)) => StoreOf(x) = disk[x]

HolderMap ==
    /\ \A p \in Procs : pc[p] = "have" /\ blk[bp[p]] \in Blocks => HolderOf(blk[bp[p]]) = p
    /\ \A x \in Blocks : (\A p \in Procs : ~Holds(p, x)) => HolderOf(x) = Nil

\* Of the buffers of a block at most one has its newest contents.
LEMMA StoreIs == BioInv /\ DataInv => StoreMap
<1> SUFFICES ASSUME BioInv, DataInv PROVE StoreMap
  OBVIOUS
<1>0. Nil \notin Blocks
  BY BioAssumption
<1>1. ASSUME NEW b \in Bufs, blk[b] \in Blocks, Valid(b) PROVE StoreOf(blk[b]) = data[b]
  <2>1. \A c \in Bufs : blk[c] = blk[b] /\ Valid(c) => c = b
    BY <1>0, <1>1 DEF BioInv, OneBufferPerBlock
  <2>2. (CHOOSE c \in Bufs : blk[c] = blk[b] /\ Valid(c)) = b
    BY <1>1, <2>1
  <2> QED BY <1>1, <2>2 DEF StoreOf
<1>2. ASSUME NEW b \in Bufs, Fresh(b) PROVE Valid(b)
  BY <1>2 DEF Fresh, Valid, DataInv, BufferOK
<1>3. ASSUME NEW x \in Blocks, \A b \in Bufs : blk[b] = x => ~Fresh(b)
      PROVE  StoreOf(x) = disk[x]
  <2>1. CASE \E b \in Bufs : blk[b] = x /\ Valid(b)
    <3>1. PICK b \in Bufs : blk[b] = x /\ Valid(b)
      BY <2>1
    <3>2. data[b] = disk[x]
      BY <1>0, <1>3, <3>1 DEF Fresh, Valid, DataInv, BufferOK
    <3> QED BY <1>1, <3>1, <3>2
  <2>2. CASE ~\E b \in Bufs : blk[b] = x /\ Valid(b)
    BY <2>2 DEF StoreOf
  <2> QED BY <2>1, <2>2
<1> QED BY <1>1, <1>2, <1>3 DEF StoreMap

\* The same of the next state.
LEMMA StoreIsNext == BioInv' /\ DataInv' => StoreMap'
<1> QED BY StoreIs, PTL

\* A block has one holder at most.
LEMMA HolderIs == BioInv => HolderMap
<1> SUFFICES ASSUME BioInv PROVE HolderMap
  OBVIOUS
<1>0. Nil \notin Blocks /\ Nil \notin Bufs
  BY BioAssumption
<1>1. ASSUME NEW p \in Procs, pc[p] = "have", blk[bp[p]] \in Blocks
      PROVE  HolderOf(blk[bp[p]]) = p
  <2>1. \A q \in Procs : pc[q] = "have" => bp[q] \in Bufs /\ bp[q] \in Owned(q)
    BY <1>0 DEF BioInv, StagesOK, StageOK, TypeOK, Owned
  <2>2. ASSUME NEW q \in Procs, Holds(q, blk[bp[p]]) PROVE q = p
    <3>1. bp[q] = bp[p]
      BY <1>0, <1>1, <2>1, <2>2 DEF Holds, BioInv, OneBufferPerBlock
    <3> QED BY <1>1, <2>1, <2>2, <3>1 DEF BioInv, OneOwner, Holds
  <2>3. Holds(p, blk[bp[p]])
    BY <1>1 DEF Holds
  <2> DEFINE x == blk[bp[p]]
  <2> HIDE DEF x
  <2>4. (CHOOSE q \in Procs : Holds(q, x)) = p
    BY <2>2, <2>3 DEF x
  <2> QED BY <2>3, <2>4 DEF HolderOf, x
<1>2. ASSUME NEW x \in Blocks, \A p \in Procs : ~Holds(p, x) PROVE HolderOf(x) = Nil
  BY <1>2 DEF HolderOf
<1> QED BY <1>1, <1>2 DEF HolderMap

\* The same of the next state.
LEMMA HolderIsNext == BioInv' => HolderMap'
<1> QED BY HolderIs, PTL

----------------------------------------------------------------------------
(* What a step leaves alone *)

\* The step of p changes nothing of the other processes.
OthersStay(p) ==
    \A q \in Procs \ {p} :
        /\ pc'[q] = pc[q] /\ ret'[q] = ret[q] /\ want'[q] = want[q]
        /\ bp'[q] = bp[q] /\ cand'[q] = cand[q]

\* A process works for itself alone.
LEMMA StepFrame ==
    ASSUME TypeOK, NEW p \in Procs, Step(p)
    PROVE  OthersStay(p) /\ ops' = ops
<1> USE DEF TypeOK, OthersStay, Goto, Return, Sleep, bufVars, ioVars
<1>1. CASE GetblkFound(p) \/ GetblkBusy(p) \/ GetblkTake(p) \/ GetblkNoneFree(p)
  BY <1>1 DEF GetblkFound, GetblkBusy, GetblkTake, GetblkNoneFree
<1>2. CASE GetblkClean(p) \/ GetblkReassign(p)
  BY <1>2 DEF GetblkClean, GetblkReassign
<1>3. CASE BwriteLoop(p) \/ BawriteEnd(p)
  BY <1>3 DEF BwriteLoop, BawriteEnd, MarkAge
<1>4. CASE GotBuffer(p) \/ ReadAhead(p) \/ BreadaEnd(p)
  BY <1>4 DEF GotBuffer, ReadAhead, BreadaEnd
<1>5. CASE GotToRead(p)
  BY <1>5 DEF GotToRead
<1>6. CASE GotAheadDone(p) \/ GotAheadRead(p)
  BY <1>6 DEF GotAheadDone, GotAheadRead
<1>7. CASE IowaitSleep(p) \/ IowaitRead(p) \/ IowaitWrite(p) \/ Release(p)
  BY <1>7 DEF IowaitSleep, IowaitRead, IowaitWrite, Release
<1>8. CASE Bwrite(p) \/ DelayedRelease(p)
  BY <1>8 DEF Bwrite, DelayedRelease, Modify
<1>9. CASE Bawrite(p)
  BY <1>9 DEF Bawrite, Modify
<1>10. CASE BflushWrite(p) \/ BflushEnd(p)
  <2>1. CASE BflushWrite(p)
    BY <2>1 DEF BflushWrite
  <2>2. CASE BflushEnd(p)
    BY <2>2 DEF BflushEnd
  <2> QED BY <1>10, <2>1, <2>2
<1> QED BY <1>1, <1>2, <1>3, <1>4, <1>5, <1>6, <1>7, <1>8, <1>9, <1>10 DEF Step, Bdwrite

\* The buffers in C keep their blocks while busy, and their contents.
Keeps(C) ==
    /\ disk' = disk
    /\ \A c \in C : /\ data'[c] = data[c]
                    /\ Fresh(c)' <=> Fresh(c)
                    /\ Fresh(c) => blk'[c] = blk[c]
                    /\ "BUSY" \in flags[c] => blk'[c] = blk[c]
                    /\ "BUSY" \in flags[c] /\ "DONE" \in flags[c] => "DONE" \in flags'[c]

\* A step that changes one buffer keeps the others.
LEMMA KeepsOthers ==
    ASSUME DataInv, NEW b, disk' = disk,
           \A c \in Bufs \ {b} :
              /\ data'[c] = data[c] /\ flags'[c] = flags[c] /\ blk'[c] = blk[c]
              /\ Contains(queue', c) <=> Contains(queue, c)
    PROVE  Keeps(Bufs \ {b}) /\ \A c \in Bufs \ {b} : BufferOK(c)'
<1> QED BY DEF Keeps, Fresh, BufferOK, DataInv

\* What a process was given stays while others work.
LEMMA OthersGiven ==
    ASSUME BioInv, DataInv, NEW p \in Procs, OthersStay(p), NEW C, Keeps(C),
           \A b \in Bufs \ C : b \in Owned(p)
    PROVE  \A q \in Procs \ {p} : GivenOK(q)'
<1> SUFFICES ASSUME NEW q \in Procs \ {p} PROVE GivenOK(q)'
  OBVIOUS
<1>1. ASSUME pc[q] = "got" PROVE /\ cand[q] \in C
                                 /\ "BUSY" \in flags[cand[q]]
  <2>1. cand[q] \in Bufs /\ cand[q] \in Owned(q)
    BY <1>1 DEF BioInv, StagesOK, StageOK, TypeOK, Owned
  <2> QED BY <2>1 DEF BioInv, OneOwner
<1>2. ASSUME pc[q] = "have" PROVE /\ bp[q] \in C
                                  /\ "BUSY" \in flags[bp[q]]
  <2>1. bp[q] \in Bufs /\ bp[q] \in Owned(q)
    BY <1>2 DEF BioInv, StagesOK, StageOK, TypeOK, Owned
  <2> QED BY <2>1 DEF BioInv, OneOwner
<1>3. /\ pc'[q] = pc[q] /\ ret'[q] = ret[q] /\ want'[q] = want[q]
      /\ bp'[q] = bp[q] /\ cand'[q] = cand[q] /\ GivenOK(q)
  BY DEF OthersStay, DataInv
<1> QED BY <1>1, <1>2, <1>3 DEF Keeps, GivenOK

\* Counting a step of p: a call modifies a block once.
LEMMA CountStep ==
    ASSUME CountOK, TypeOK, NEW p \in Procs, OthersStay(p), ops' = ops,
           writes' \in {writes, writes + 1},
           writes' # writes => p \in Unwritten /\ p \notin Unwritten',
           p \in Unwritten' => p \in Unwritten
    PROVE  CountOK'
<1>1. CASE p \in Unwritten /\ p \notin Unwritten'
  <2>1. Unwritten' = Unwritten \ {p}
    BY <1>1 DEF Unwritten, OthersStay
  <2>2. /\ IsFiniteSet(Unwritten \ {p})
        /\ Cardinality(Unwritten \ {p}) = Cardinality(Unwritten) - 1
    BY <1>1, FS_RemoveElement DEF CountOK
  <2>3. Cardinality(Unwritten) \in Nat
    BY FS_CardinalityType DEF CountOK
  <2>4. ops' = ops /\ writes \in Nat /\ ops \in Nat /\ MaxOps \in Nat
    BY BioAssumption DEF OthersStay, TypeOK
  <2>5. PICK n \in Nat : n = Cardinality(Unwritten)
    BY <2>3
  <2>6. Cardinality(Unwritten') = n - 1 /\ writes + n <= ops /\ ops <= MaxOps
    BY <2>1, <2>2, <2>5 DEF CountOK
  <2>7. writes' + (n - 1) <= ops
    <3>1. writes' \in Nat /\ writes' <= writes + 1
      <4>1. writes' = writes \/ writes' = writes + 1
        OBVIOUS
      <4> QED BY <2>4, <4>1
    <3>2. writes \in Nat /\ ops \in Nat /\ writes + n <= ops
      BY <2>4, <2>6
    <3> HIDE <2>4, <2>6
    <3>3. \A a, b, c, d \in Nat : a + b <= c /\ d <= a + 1 => d + (b - 1) <= c
      OBVIOUS
    <3> QED BY <3>1, <3>2, <3>3
  <2> QED BY <2>1, <2>2, <2>4, <2>6, <2>7 DEF CountOK
<1>2. CASE ~(p \in Unwritten /\ p \notin Unwritten')
  <2>1. Unwritten' = Unwritten /\ writes' = writes
    BY <1>2 DEF Unwritten, OthersStay
  <2> QED BY <2>1 DEF CountOK, OthersStay
<1> QED BY <1>1, <1>2

----------------------------------------------------------------------------
(* Steps that modify no block *)

\* What a step of p that modifies nothing establishes.
Quiet(p) == Keeps(Bufs) /\ (\A b \in Bufs : BufferOK(b)') /\ GivenOK(p)'

\* The flags that say what a buffer's contents are worth.
Worth == {"DONE", "DELWRI", "READ", "ERROR"}

SameWorth == \A b \in Bufs : \A k \in Worth : k \in flags'[b] <=> k \in flags[b]

\* Steps that change no such flag, no contents and no block.
LEMMA SameWorthKeeps ==
    ASSUME DataInv, SameWorth, UNCHANGED <<blk, data, queue, disk>>
    PROVE  Keeps(Bufs) /\ \A b \in Bufs : BufferOK(b)'
<1>1. \A b \in Bufs : /\ "DONE" \in flags'[b] <=> "DONE" \in flags[b]
                      /\ "DELWRI" \in flags'[b] <=> "DELWRI" \in flags[b]
                      /\ "READ" \in flags'[b] <=> "READ" \in flags[b]
                      /\ "ERROR" \in flags'[b] <=> "ERROR" \in flags[b]
  BY DEF SameWorth, Worth
<1> QED BY <1>1 DEF Keeps, Fresh, BufferOK, DataInv

\* The searches and waits of getblk, iowait and bflush.
LEMMA SearchQuiet ==
    ASSUME BioInv, DataInv, NEW p \in Procs,
           \/ GetblkFound(p) \/ GetblkNoneFree(p) \/ GotBuffer(p) \/ ReadAhead(p)
           \/ BreadaEnd(p) \/ IowaitSleep(p) \/ IowaitRead(p) \/ BflushEnd(p)
    PROVE  Quiet(p)
<1>1. UNCHANGED <<flags, blk, data, queue, disk>>
  BY DEF GetblkFound, GetblkNoneFree, GotBuffer, ReadAhead, BreadaEnd, IowaitSleep,
     IowaitRead, BflushEnd, bufVars, ioVars
<1>2. SameWorth
  BY <1>1 DEF SameWorth
<1>3. GivenOK(p)'
  <2> USE DEF GivenOK, Goto, Sleep, Return, BioInv, TypeOK, DataInv
  <2>1. CASE GetblkFound(p)
    BY <2>1 DEF GetblkFound, Target
  <2>2. CASE GetblkNoneFree(p) \/ IowaitSleep(p)
    BY <1>1, <2>2 DEF GetblkNoneFree, IowaitSleep
  <2>3. CASE GotBuffer(p)
    BY <1>1, <2>3 DEF GotBuffer
  <2>4. CASE ReadAhead(p)
    BY <2>4 DEF ReadAhead
  <2>5. CASE BreadaEnd(p)
    BY <2>5 DEF BreadaEnd
  <2>6. CASE IowaitRead(p)
    BY <1>1, <2>6 DEF IowaitRead
  <2>7. CASE BflushEnd(p)
    BY <2>7 DEF BflushEnd
  <2> QED BY <2>1, <2>2, <2>3, <2>4, <2>5, <2>6, <2>7
<1> QED BY <1>1, <1>2, <1>3, SameWorthKeeps DEF Quiet

\* Marking a buffer B_WANTED, B_BUSY or B_AGE.
LEMMA MarkQuiet ==
    ASSUME BioInv, DataInv, NEW p \in Procs,
           GetblkBusy(p) \/ GetblkTake(p) \/ BwriteLoop(p) \/ BawriteEnd(p)
    PROVE  Quiet(p)
<1>1. UNCHANGED <<blk, data, queue, disk>>
  BY DEF GetblkBusy, GetblkTake, BwriteLoop, BawriteEnd, MarkAge, ioVars
<1>2. PICK m \in {"WANTED", "BUSY", "AGE"} :
        flags' = [flags EXCEPT ![cand[p]] = @ \cup {m}]
  BY DEF GetblkBusy, GetblkTake, BwriteLoop, BawriteEnd, MarkAge
<1>3. SameWorth
  BY <1>2 DEF SameWorth, Worth, BioInv, TypeOK
<1>4. GivenOK(p)'
  <2> USE DEF GivenOK, Goto, Sleep, Return, BioInv, TypeOK, DataInv
  <2>1. CASE GetblkBusy(p)
    BY <2>1 DEF GetblkBusy
  <2>2. CASE GetblkTake(p)
    BY <2>2 DEF GetblkTake
  <2>3. CASE BwriteLoop(p)
    BY <2>3 DEF BwriteLoop, MarkAge
  <2>4. CASE BawriteEnd(p)
    BY <2>4 DEF BawriteEnd
  <2> QED BY <2>1, <2>2, <2>3, <2>4
<1> QED BY <1>1, <1>3, <1>4, SameWorthKeeps DEF Quiet

\* brelse of a buffer without an error keeps its contents and its block.
LEMMA ReleaseQuiet ==
    ASSUME BioInv, DataInv, NEW p \in Procs, GotAheadDone(p) \/ IowaitWrite(p) \/ Release(p)
    PROVE  Quiet(p)
<1>1. PICK b \in Bufs : Brelse(b, flags[b])
  BY DEF GotAheadDone, IowaitWrite, Release, BioInv, StagesOK, StageOK, TypeOK
<1>2. UNCHANGED <<data, queue, disk>>
  BY DEF GotAheadDone, IowaitWrite, Release, ioVars
<1>3. blk' = blk /\ flags' = [flags EXCEPT ![b] = Released(flags[b])]
  BY <1>1 DEF Brelse, DropAssoc, DataInv, BufferOK
<1>4. SameWorth
  BY <1>3 DEF SameWorth, Worth, Released, BioInv, TypeOK
<1>5. GivenOK(p)'
  BY DEF GivenOK, Goto, Return, BioInv, TypeOK, GotAheadDone, IowaitWrite, Release
<1> QED BY <1>2, <1>3, <1>4, <1>5, SameWorthKeeps DEF Quiet

\* Handing a buffer that is not done to the device, to be read into.
LEMMA ReadQuiet ==
    ASSUME BioInv, DataInv, NEW p \in Procs, GotToRead(p) \/ GotAheadRead(p)
    PROVE  Quiet(p)
<1>1. GivenOK(p)'
  <2>1. CASE GotAheadRead(p)
    BY <2>1 DEF GivenOK, Goto, BioInv, TypeOK, GotAheadRead
  <2>2. CASE GotToRead(p)
    <3>1. bp'[p] = cand[p] /\ ret'[p] \in {"bread", "breada"}
      BY <2>2 DEF GotToRead, BioInv, TypeOK
    <3>2. "DONE" \in flags[cand[p]] => flags' = flags
      BY <2>2 DEF GotToRead
    <3>3. "DONE" \notin flags[cand[p]] => pc'[p] # "have"
      BY <2>2 DEF GotToRead, Goto, BioInv, TypeOK
    <3>4. pc'[p] = "have" => "DONE" \in flags'[bp'[p]]
      BY <3>1, <3>2, <3>3
    <3>5. pc'[p] = "have" => ret'[p] = "bread"
      BY <2>2 DEF GotToRead, Goto, BioInv, TypeOK
    <3> QED BY <3>1, <3>4, <3>5 DEF GivenOK
  <2> QED BY <2>1, <2>2
<1>2. CASE UNCHANGED <<flags, queue>>
  <2>1. UNCHANGED <<blk, data, disk>>
    BY DEF GotToRead, GotAheadRead
  <2>2. SameWorth
    BY <1>2 DEF SameWorth
  <2> QED BY <1>1, <1>2, <2>1, <2>2, SameWorthKeeps DEF Quiet
<1>3. CASE ~UNCHANGED <<flags, queue>>
  <2>0. PICK b \in Bufs : b = cand[p]
    BY DEF GotToRead, GotAheadRead, BioInv, StagesOK, StageOK, TypeOK
  <2>1. /\ UNCHANGED <<blk, data, disk>> /\ "DONE" \notin flags[b]
        /\ queue' = Append(queue, b)
        /\ \/ flags' = [flags EXCEPT ![b] = @ \cup {"READ"}]
           \/ flags' = [flags EXCEPT ![b] = @ \cup {"READ", "ASYNC"}]
    <3>1. CASE GotToRead(p)
      BY <1>3, <2>0, <3>1 DEF GotToRead
    <3>2. CASE GotAheadRead(p)
      BY <2>0, <3>2 DEF GotAheadRead
    <3> QED BY <3>1, <3>2
  <2>2. b \in Bufs /\ ~Contains(queue, b) /\ queue \in Seq(Bufs) /\ IsInjective(queue)
    BY <2>0 DEF GotToRead, GotAheadRead, BioInv, StagesOK, StageOK, TypeOK, QueueOK
  <2>3. \A x : Contains(queue', x) <=> Contains(queue, x) \/ x = b
    BY <2>1, <2>2, AppendProps
  <2>4. /\ \A c \in Bufs \ {b} : flags'[c] = flags[c]
        /\ \A k \in {"DONE", "DELWRI", "ERROR"} : k \in flags'[b] <=> k \in flags[b]
        /\ "READ" \in flags'[b]
    BY <2>1, <2>2, ZenonT(60) DEF BioInv, TypeOK
  <2>5. "DELWRI" \notin flags[b] /\ BufferOK(b)
    BY <2>1, <2>2 DEF DataInv, BufferOK
  <2>6. Keeps(Bufs \ {b}) /\ \A c \in Bufs \ {b} : BufferOK(c)'
    BY <2>1, <2>3, <2>4, KeepsOthers
  <2>7. ~Fresh(b)' /\ ~Fresh(b)
    BY <2>2, <2>4, <2>5 DEF Fresh
  <2>8. BufferOK(b)'
    BY <2>1, <2>4, <2>5 DEF BufferOK
  <2>9. Keeps(Bufs)
    BY <2>1, <2>6, <2>7 DEF Keeps
  <2> QED BY <1>1, <2>6, <2>8, <2>9 DEF Quiet
<1> QED BY <1>2, <1>3

\* What getblk and bflush do with a delayed write.
LEMMA CleanForm ==
    ASSUME BioInv, NEW p \in Procs, GetblkClean(p) \/ BflushWrite(p)
    PROVE  \E b \in Bufs :
             /\ Contains(avail, b) /\ "DELWRI" \in flags[b]
             /\ flags' = [flags EXCEPT ![b] = WriteFlags(@ \cup {"BUSY", "ASYNC"})]
             /\ queue' = Append(queue, b)
             /\ UNCHANGED <<blk, data, disk, writes>>
             /\ pc'[p] = "age"
<1>1. CASE GetblkClean(p)
  <2>1. Head(avail) \in Bufs /\ Contains(avail, Head(avail))
    BY <1>1, TailProps DEF GetblkClean, BioInv, TypeOK, AvailIffNotBusy
  <2> QED BY <1>1, <2>1 DEF GetblkClean, MustClean, Goto, BioInv, TypeOK
<1>2. CASE BflushWrite(p)
  <2>1. PICK i \in 1..Len(avail) :
          /\ FirstDelayed(i)
          /\ flags' = [flags EXCEPT ![avail[i]] = WriteFlags(@ \cup {"BUSY", "ASYNC"})]
          /\ queue' = Append(queue, avail[i])
    BY <1>2 DEF BflushWrite
  <2>2. avail[i] \in Bufs /\ Contains(avail, avail[i])
    BY DEF BioInv, TypeOK, Contains
  <2>3. UNCHANGED <<blk, data, disk, writes>> /\ pc'[p] = "age"
    BY <1>2 DEF BflushWrite, Goto, BioInv, TypeOK
  <2> QED BY <2>1, <2>2, <2>3 DEF FirstDelayed
<1> QED BY <1>1, <1>2

\* Handing a delayed write to the device, to make room or in bflush.
LEMMA CleanQuiet ==
    ASSUME BioInv, DataInv, NEW p \in Procs, GetblkClean(p) \/ BflushWrite(p)
    PROVE  Quiet(p)
<1>1. PICK b \in Bufs :
        /\ Contains(avail, b) /\ "DELWRI" \in flags[b]
        /\ flags' = [flags EXCEPT ![b] = WriteFlags(@ \cup {"BUSY", "ASYNC"})]
        /\ queue' = Append(queue, b)
        /\ UNCHANGED <<blk, data, disk>>
        /\ pc'[p] = "age"
  BY CleanForm
<1>2. "BUSY" \notin flags[b] /\ ~Contains(queue, b)
  BY <1>1 DEF BioInv, AvailIffNotBusy, QueueOK
<1>3. \A x : Contains(queue', x) <=> Contains(queue, x) \/ x = b
  BY <1>1, <1>2, AppendProps DEF BioInv, TypeOK, QueueOK
<1>4. /\ \A c \in Bufs \ {b} : flags'[c] = flags[c]
      /\ flags'[b] = WriteFlags(flags[b] \cup {"BUSY", "ASYNC"})
  BY <1>1 DEF BioInv, TypeOK
<1>5. Keeps(Bufs \ {b}) /\ \A c \in Bufs \ {b} : BufferOK(c)'
  BY <1>1, <1>3, <1>4, KeepsOthers
<1>6. Fresh(b)' /\ Fresh(b)
  BY <1>1, <1>3, <1>4 DEF Fresh, WriteFlags
<1>7. BufferOK(b)'
  BY <1>4 DEF BufferOK, WriteFlags
<1>8. Keeps(Bufs)
  BY <1>1, <1>2, <1>5, <1>6 DEF Keeps
<1>9. GivenOK(p)'
  <2>1. ret'[p] = ret[p] /\ want'[p] = want[p] /\ GivenOK(p)
    BY DEF GetblkClean, BflushWrite, DataInv
  <2> QED BY <1>1, <2>1 DEF GivenOK
<1> QED BY <1>5, <1>7, <1>8, <1>9 DEF Quiet

\* Giving a buffer whose contents the disk has to another block.
LEMMA ReassignQuiet ==
    ASSUME BioInv, DataInv, NEW p \in Procs, GetblkReassign(p)
    PROVE  Quiet(p)
<1>1. PICK b \in Bufs :
        /\ Contains(avail, b) /\ "DELWRI" \notin flags[b] /\ b = cand'[p]
        /\ flags' = [flags EXCEPT ![b] = {"BUSY"}]
        /\ blk' = [blk EXCEPT ![b] = Target(p)]
        /\ UNCHANGED <<queue, data, disk>>
        /\ pc'[p] = "got"
  <2>1. Head(avail) \in Bufs /\ Contains(avail, Head(avail))
    BY TailProps DEF GetblkReassign, BioInv, TypeOK, AvailIffNotBusy
  <2> QED BY <2>1 DEF GetblkReassign, MustClean, Goto, ioVars, BioInv, TypeOK
<1>2. "BUSY" \notin flags[b] /\ ~Contains(queue, b)
  BY <1>1 DEF BioInv, AvailIffNotBusy, QueueOK
<1>3. /\ \A c \in Bufs \ {b} : flags'[c] = flags[c] /\ blk'[c] = blk[c]
      /\ flags'[b] = {"BUSY"} /\ blk'[b] = Target(p)
  BY <1>1 DEF BioInv, TypeOK
<1>4. Keeps(Bufs \ {b}) /\ \A c \in Bufs \ {b} : BufferOK(c)'
  BY <1>1, <1>3, KeepsOthers
<1>5. ~Fresh(b)' /\ ~Fresh(b)
  BY <1>1, <1>2, <1>3 DEF Fresh
<1>6. BufferOK(b)'
  BY <1>3 DEF BufferOK
<1>7. Keeps(Bufs)
  BY <1>1, <1>2, <1>4, <1>5 DEF Keeps
<1>8. GivenOK(p)'
  BY <1>1, <1>3 DEF GivenOK, GetblkReassign, Target, DataInv
<1> QED BY <1>4, <1>6, <1>7, <1>8 DEF Quiet

----------------------------------------------------------------------------
(* Steps that modify a block *)

\* What a step of p that modifies the block of its buffer b establishes.
Modifies(p, b) ==
    /\ pc[p] = "have" /\ bp[p] = b /\ blk[b] \in Blocks
    /\ Keeps(Bufs \ {b}) /\ (\A c \in Bufs : BufferOK(c)') /\ GivenOK(p)'
    /\ writes' = writes + 1 /\ data'[b] = writes + 1
    /\ Fresh(b)' /\ blk'[b] = blk[b]
    /\ pc'[p] # "have" /\ p \notin Unwritten'

\* A modification with the flags and the queue the buffer has afterwards.
LEMMA ModifyForm ==
    ASSUME BioInv, DataInv, NEW p \in Procs, Modify(p), NEW b, b = bp[p], NEW f,
           flags' = [flags EXCEPT ![b] = f], blk' = blk, disk' = disk,
           "ERROR" \notin f, "DELWRI" \in f => "DONE" \in f,
           \/ "DELWRI" \in f /\ queue' = queue
           \/ /\ "READ" \notin f /\ "DONE" \notin f
              /\ queue' = Append(queue, b),
           GivenOK(p)', pc'[p] # "have", p \notin Unwritten'
    PROVE  Modifies(p, b)
<1>1. /\ b \in Bufs /\ blk[b] \in Blocks /\ pc[p] = "have" /\ ~Contains(queue, b)
      /\ queue \in Seq(Bufs) /\ IsInjective(queue)
  BY DEF Modify, BioInv, StagesOK, StageOK, TypeOK, QueueOK
<1>2. /\ \A c \in Bufs \ {b} : flags'[c] = flags[c] /\ blk'[c] = blk[c] /\ data'[c] = data[c]
      /\ flags'[b] = f /\ data'[b] = writes + 1 /\ writes' = writes + 1
  BY <1>1 DEF Modify, BioInv, TypeOK
<1>3. /\ \A c \in Bufs \ {b} : Contains(queue', c) <=> Contains(queue, c)
      /\ "DELWRI" \notin f => Contains(queue', b)
  <2>1. \A x : Contains(Append(queue, b), x) <=> Contains(queue, x) \/ x = b
    BY <1>1, AppendProps
  <2> QED BY <2>1
<1>4. Keeps(Bufs \ {b}) /\ \A c \in Bufs \ {b} : BufferOK(c)'
  BY <1>2, <1>3, KeepsOthers
<1>5. Fresh(b)'
  BY <1>2, <1>3 DEF Fresh
<1>6. BufferOK(b)'
  BY <1>2 DEF BufferOK
<1> QED BY <1>1, <1>2, <1>4, <1>5, <1>6 DEF Modifies

\* bwrite, bawrite and bdwrite modify the block they were given.
LEMMA WriteModifies ==
    ASSUME BioInv, DataInv, NEW p \in Procs, Bwrite(p) \/ Bawrite(p) \/ DelayedRelease(p)
    PROVE  \E b \in Bufs : Modifies(p, b)
<1>1. PICK b \in Bufs : b = bp[p]
  BY DEF Bwrite, Bawrite, DelayedRelease, Modify, BioInv, StagesOK, StageOK, TypeOK
<1>2. Modify(p) /\ "ERROR" \notin flags[b]
  BY <1>1 DEF Bwrite, Bawrite, DelayedRelease, DataInv, BufferOK
<1> USE DEF Goto, Return
<1>3. CASE Bwrite(p)
  <2>1. pc'[p] = "iowait" /\ ret'[p] = "bwrite"
    BY <1>3 DEF Bwrite, BioInv, TypeOK
  <2>2. GivenOK(p)' /\ p \notin Unwritten'
    BY <2>1 DEF GivenOK, Unwritten
  <2>3. /\ flags' = [flags EXCEPT ![b] = WriteFlags(flags[b])]
        /\ queue' = Append(queue, b) /\ blk' = blk /\ disk' = disk
    BY <1>1, <1>3 DEF Bwrite
  <2>4. /\ "ERROR" \notin WriteFlags(flags[b]) /\ "DELWRI" \notin WriteFlags(flags[b])
        /\ "READ" \notin WriteFlags(flags[b]) /\ "DONE" \notin WriteFlags(flags[b])
    BY DEF WriteFlags
  <2>5. Modifies(p, b)
    BY <1>1, <1>2, <2>1, <2>2, <2>3, <2>4, ModifyForm
  <2> QED BY <2>5
<1>4. CASE Bawrite(p)
  <2>1. pc'[p] = "user" \/ (pc'[p] = "age" /\ ret'[p] = "bawrite")
    BY <1>4 DEF Bawrite, BioInv, TypeOK
  <2>2. p \notin Unwritten'
    BY <2>1 DEF Unwritten
  <2>3. ret'[p] \in {"none", "bawrite"}
    BY <1>4 DEF Bawrite, BioInv, TypeOK
  <2>4. GivenOK(p)' /\ pc'[p] # "have"
    BY <2>1, <2>3 DEF GivenOK
  <2>5. /\ flags' = [flags EXCEPT ![b] = WriteFlags(flags[b] \cup {"ASYNC"})]
        /\ queue' = Append(queue, b) /\ blk' = blk /\ disk' = disk
    BY <1>1, <1>4 DEF Bawrite
  <2>6. \A f : /\ "ERROR" \notin WriteFlags(f) /\ "DELWRI" \notin WriteFlags(f)
               /\ "READ" \notin WriteFlags(f) /\ "DONE" \notin WriteFlags(f)
    BY DEF WriteFlags
  <2>7. Modifies(p, b)
    BY <1>1, <1>2, <2>2, <2>4, <2>5, <2>6, ModifyForm
  <2> QED BY <2>7
<1>5. CASE DelayedRelease(p)
  <2>1. pc'[p] = "user" /\ ret'[p] = "none"
    BY <1>5 DEF DelayedRelease, BioInv, TypeOK
  <2>2. GivenOK(p)' /\ p \notin Unwritten'
    BY <2>1 DEF GivenOK, Unwritten
  <2> DEFINE f == flags[b] \cup {"DELWRI", "DONE"}
  <2>3. Brelse(b, f) /\ queue' = queue /\ disk' = disk
    BY <1>1, <1>5 DEF DelayedRelease, ioVars
  <2>4. flags' = [flags EXCEPT ![b] = Released(f)] /\ blk' = blk
    BY <1>2, <2>3 DEF Brelse, DropAssoc
  <2>5. "ERROR" \notin Released(f) /\ "DELWRI" \in Released(f) /\ "DONE" \in Released(f)
    BY <1>2 DEF Released
  <2> HIDE DEF f
  <2>6. Modifies(p, b)
    BY <1>1, <1>2, <2>1, <2>2, <2>3, <2>4, <2>5, ModifyForm
  <2> QED BY <2>6
<1> QED BY <1>3, <1>4, <1>5

----------------------------------------------------------------------------
(* The end of a transfer *)

\* What a transfer that does not fail does: b is read, or it is written.
Transfers(b) ==
    /\ Contains(queue, b) /\ ~Contains(queue', b) /\ blk' = blk
    /\ \A c \in Bufs \ {b} : /\ flags'[c] = flags[c] /\ data'[c] = data[c]
                             /\ Contains(queue', c) <=> Contains(queue, c)
    /\ \A k \in {"READ", "DELWRI", "ERROR"} : k \in flags'[b] => k \in flags[b]
    /\ "DONE" \in flags'[b]
    /\ UNCHANGED <<pc, want, ret, bp, cand, writes, ops>>
    /\ \/ /\ "READ" \in flags[b] /\ disk' = disk
          /\ blk[b] \in Blocks => data'[b] = disk[blk[b]]
       \/ /\ "READ" \notin flags[b] /\ data' = data
          /\ \A x \in Blocks : disk'[x] = IF x = blk[b] THEN data[b] ELSE disk[x]

\* An interrupt is such a transfer.
LEMMA InterruptTransfers ==
    ASSUME BioInv, DataInv, ~Faulty, Interrupt
    PROVE  \E b \in Bufs : Transfers(b)
<1>1. PICK i \in 1..Len(queue) :
        /\ Transfer(queue[i], FALSE)
        /\ Iodone(queue[i], IodoneFlags(queue[i], FALSE))
        /\ queue' = RemoveAt(queue, i)
        /\ UNCHANGED <<cur, pc, want, ra, ret, bp, cand, writes, ops>>
  BY DEF Interrupt
<1>2. PICK b \in Bufs : b = queue[i] /\ Contains(queue, b)
  BY DEF BioInv, TypeOK, Contains
<1>3. \A x : Contains(queue', x) <=> Contains(queue, x) /\ x # b
  BY <1>1, <1>2, RemoveAtProps DEF BioInv, TypeOK, QueueOK
<1>4. PICK f \in SUBSET Flag : f = flags[b] \cup {"DONE"} /\ Iodone(b, f)
  BY <1>1, <1>2 DEF IodoneFlags, BioInv, TypeOK, Flag
<1>5. "ERROR" \notin f
  BY <1>4 DEF DataInv, BufferOK
<1>6. /\ blk' = blk
      /\ \E g \in {f \ {"WANTED"}, Released(f)} : flags' = [flags EXCEPT ![b] = g]
  BY <1>4, <1>5 DEF Iodone, Brelse, DropAssoc
<1>7. PICK g \in {f \ {"WANTED"}, Released(f)} : flags' = [flags EXCEPT ![b] = g]
  BY <1>6
<1>8. /\ \A c \in Bufs \ {b} : flags'[c] = flags[c]
      /\ flags'[b] = g
  BY <1>2, <1>7 DEF BioInv, TypeOK
<1>9. /\ \A k \in {"READ", "DELWRI", "ERROR"} : k \in g => k \in flags[b]
      /\ "DONE" \in g
  BY <1>4, <1>7 DEF Released
<1>10. Transfer(b, FALSE)
  BY <1>1, <1>2
<1>11. CASE "READ" \in flags[b]
  <2>1. disk' = disk /\ data' = [data EXCEPT ![b] = disk[blk[b]]]
    BY <1>10, <1>11 DEF Transfer
  <2>2. data'[b] = disk[blk[b]] /\ \A c \in Bufs \ {b} : data'[c] = data[c]
    BY <2>1 DEF BioInv, TypeOK
  <2> QED BY <1>1, <1>2, <1>3, <1>6, <1>8, <1>9, <1>11, <2>1, <2>2 DEF Transfers
<1>12. CASE "READ" \notin flags[b]
  <2>1. data' = data /\ disk' = [disk EXCEPT ![blk[b]] = data[b]]
    BY <1>10, <1>12 DEF Transfer
  <2>2. \A x \in Blocks : disk'[x] = IF x = blk[b] THEN data[b] ELSE disk[x]
    BY <2>1 DEF BioInv, TypeOK
  <2> QED BY <1>1, <1>2, <1>3, <1>6, <1>8, <1>9, <1>12, <2>1, <2>2 DEF Transfers
<1> QED BY <1>11, <1>12

\* A transfer leaves every buffer that is done with what the device has.
LEMMA TransferData ==
    ASSUME BioInv, DataInv, NEW b \in Bufs, Transfers(b)
    PROVE  DataInv'
<1>0. "DONE" \notin flags[b] /\ "DELWRI" \notin flags[b] /\ "ERROR" \notin flags[b]
      /\ BufferOK(b)
  BY DEF BioInv, QueueOK, Transfers, DataInv, BufferOK
<1>1. ASSUME NEW c \in Bufs PROVE BufferOK(c)'
  <2>1. CASE c = b
    <3>1. blk[b] # Nil => data'[b] = disk'[blk[b]]
      BY DEF Transfers, BioInv, TypeOK
    <3>2. "ERROR" \notin flags'[b] /\ "DELWRI" \notin flags'[b] /\ blk'[b] = blk[b]
      BY <1>0 DEF Transfers
    <3> QED BY <2>1, <3>1, <3>2 DEF BufferOK
  <2>2. CASE c # b
    <3>1. /\ flags'[c] = flags[c] /\ data'[c] = data[c] /\ blk'[c] = blk[c]
          /\ BufferOK(c)
      BY <2>2 DEF Transfers, DataInv
    <3>2. blk[c] # Nil => blk[c] # blk[b] /\ blk[c] \in Blocks
      BY <2>2 DEF BioInv, OneBufferPerBlock, TypeOK
    <3>3. blk[c] # Nil => disk'[blk[c]] = disk[blk[c]]
      BY <3>2 DEF Transfers
    <3> QED BY <3>1, <3>3 DEF BufferOK
  <2> QED BY <2>1, <2>2
<1>2. ASSUME NEW p \in Procs PROVE GivenOK(p)'
  <2>1. /\ pc'[p] = pc[p] /\ ret'[p] = ret[p] /\ want'[p] = want[p] /\ blk' = blk
        /\ bp'[p] = bp[p] /\ cand'[p] = cand[p] /\ GivenOK(p)
    BY DEF Transfers, DataInv
  <2>2. \A c \in Bufs : "DONE" \in flags[c] => "DONE" \in flags'[c]
    BY DEF Transfers
  <2>3. pc[p] = "have" => bp[p] \in Bufs
    BY DEF BioInv, StagesOK, StageOK, TypeOK
  <2> QED BY <2>1, <2>2, <2>3 DEF GivenOK
<1>3. CountOK'
  BY DEF Transfers, DataInv, CountOK, Unwritten
<1> QED BY <1>1, <1>2, <1>3 DEF DataInv

\* A transfer is not seen above the cache.
LEMMA TransferStore ==
    ASSUME BioInv, DataInv, BioInv', DataInv', NEW b \in Bufs, Transfers(b)
    PROVE  \A x \in Blocks : StoreOf(x)' = StoreOf(x)
<1>0. "DONE" \notin flags[b] /\ "DELWRI" \notin flags[b] /\ StoreMap /\ StoreMap'
  BY StoreIs, StoreIsNext DEF BioInv, QueueOK, Transfers, DataInv, BufferOK
<1> SUFFICES ASSUME NEW x \in Blocks PROVE StoreOf(x)' = StoreOf(x)
  OBVIOUS
<1>1. ~Fresh(b)' /\ (Fresh(b) <=> "READ" \notin flags[b])
  BY <1>0 DEF Fresh, Transfers
<1>2. \A c \in Bufs \ {b} : /\ Fresh(c)' <=> Fresh(c)
                            /\ data'[c] = data[c] /\ blk'[c] = blk[c]
  BY DEF Fresh, Transfers
<1>3. CASE x = blk[b] /\ Fresh(b)
  <2>1. StoreOf(x) = data[b] /\ disk'[x] = data[b]
    BY <1>0, <1>1, <1>3 DEF StoreMap, Transfers
  <2>2. \A c \in Bufs : blk[c] = x => c = b
    BY <1>3, BioAssumption DEF BioInv, OneBufferPerBlock
  <2>3. \A c \in Bufs : blk'[c] = x => ~Fresh(c)'
    BY <1>1, <1>2, <2>2 DEF Transfers
  <2>4. StoreOf(x)' = disk'[x]
    BY <1>0, <2>3 DEF StoreMap
  <2> QED BY <2>1, <2>4
<1>4. CASE ~(x = blk[b] /\ Fresh(b))
  <2>0. disk'[x] = disk[x]
    BY <1>1, <1>4 DEF Transfers
  <2>1. CASE \E c \in Bufs : blk[c] = x /\ Fresh(c)
    <3>1. PICK c \in Bufs : blk[c] = x /\ Fresh(c)
      BY <2>1
    <3>2. blk'[c] = x /\ Fresh(c)' /\ data'[c] = data[c]
      BY <1>2, <1>4, <3>1
    <3> QED BY <1>0, <3>1, <3>2 DEF StoreMap
  <2>2. CASE ~\E c \in Bufs : blk[c] = x /\ Fresh(c)
    <3>1. \A c \in Bufs : blk'[c] = x => ~Fresh(c)'
      BY <1>1, <1>2, <2>2
    <3>2. StoreOf(x)' = disk'[x]
      BY <1>0, <3>1 DEF StoreMap
    <3> QED BY <1>0, <2>0, <2>2, <3>2 DEF StoreMap
  <2> QED BY <2>1, <2>2
<1> QED BY <1>3, <1>4

----------------------------------------------------------------------------
(* The invariant of the contents *)

\* A new call is one more that may modify a block.
LEMMA CallData ==
    ASSUME BioInv, DataInv, NEW p \in Procs, NewCall(p)
    PROVE  DataInv'
<1>1. PICK l \in {"getblk", "ahead", "sync"}, x \in Blocks \cup {Nil},
           y \in Blocks \cup {Nil}, r \in Ret :
             Call(p, l, x, y, r) /\ (r = "geteblk" => x = Nil /\ l = "getblk")
  BY DEF NewCall, CallBread, CallBreada, CallGetblk, CallGeteblk, CallBflush, Ret
<1>2. /\ pc[p] = "user" /\ pc' = [pc EXCEPT ![p] = l] /\ ops < MaxOps
      /\ UNCHANGED <<flags, blk, data, queue, disk, bp, cand, writes>>
      /\ want' = [want EXCEPT ![p] = x] /\ ret' = [ret EXCEPT ![p] = r] /\ ops' = ops + 1
  BY <1>1 DEF Call, Goto, bufVars, ioVars
<1>3. \A b \in Bufs : BufferOK(b)'
  BY <1>2 DEF DataInv, BufferOK
<1>4. ASSUME NEW q \in Procs PROVE GivenOK(q)'
  <2>1. CASE q = p
    BY <1>1, <1>2, <2>1 DEF GivenOK, BioInv, TypeOK
  <2>2. CASE q # p
    BY <1>2, <2>2 DEF GivenOK, BioInv, TypeOK, DataInv
  <2> QED BY <2>1, <2>2
<1>5. CountOK'
  <2>1. Unwritten' = Unwritten \cup {p} /\ p \notin Unwritten
    BY <1>1, <1>2 DEF Unwritten, BioInv, TypeOK
  <2>2. /\ IsFiniteSet(Unwritten \cup {p})
        /\ Cardinality(Unwritten \cup {p}) = Cardinality(Unwritten) + 1
    BY <2>1, FS_AddElement DEF DataInv, CountOK
  <2>3. PICK n \in Nat : n = Cardinality(Unwritten)
    BY FS_CardinalityType DEF DataInv, CountOK
  <2>4. Cardinality(Unwritten') = n + 1 /\ writes + n <= ops
    BY <2>1, <2>2, <2>3 DEF DataInv, CountOK
  <2>5. writes \in Nat /\ ops \in Nat /\ MaxOps \in Nat
    BY BioAssumption DEF BioInv, TypeOK
  <2>6. \A a, b, c, d \in Nat : a + b <= c /\ c < d => a + (b + 1) <= c + 1 /\ c + 1 <= d
    OBVIOUS
  <2>7. writes + (n + 1) <= ops + 1 /\ ops + 1 <= MaxOps
    BY <1>2, <2>4, <2>5, <2>6
  <2> QED BY <1>2, <2>1, <2>2, <2>4, <2>7 DEF CountOK
<1> QED BY <1>3, <1>4, <1>5 DEF DataInv

\* A step of a process that is neither the start of a call nor a modification.
Quieter(p) ==
    \/ GetblkFound(p) \/ GetblkNoneFree(p) \/ GotBuffer(p) \/ ReadAhead(p)
    \/ BreadaEnd(p) \/ IowaitSleep(p) \/ IowaitRead(p) \/ BflushEnd(p)
    \/ GetblkBusy(p) \/ GetblkTake(p) \/ BwriteLoop(p) \/ BawriteEnd(p)
    \/ GotAheadDone(p) \/ IowaitWrite(p) \/ Release(p)
    \/ GotToRead(p) \/ GotAheadRead(p)
    \/ GetblkClean(p) \/ BflushWrite(p) \/ GetblkReassign(p)

Writer(p) == Bwrite(p) \/ Bawrite(p) \/ DelayedRelease(p)

\* Every step of a call is quiet or modifies the block of the process.
LEMMA StepKinds ==
    ASSUME BioInv, DataInv, NEW p \in Procs, Step(p)
    PROVE  \/ Quieter(p) /\ Quiet(p)
           \/ Writer(p) /\ \E b \in Bufs : Modifies(p, b)
<1>1. Quieter(p) \/ Writer(p)
  BY DEF Step, Bdwrite, Quieter, Writer
<1>2. Quieter(p) => Quiet(p)
  BY SearchQuiet, MarkQuiet, ReleaseQuiet, ReadQuiet, CleanQuiet, ReassignQuiet DEF Quieter
<1>3. Writer(p) => \E b \in Bufs : Modifies(p, b)
  BY WriteModifies DEF Writer
<1> QED BY <1>1, <1>2, <1>3

\* A quiet step does not touch the count.
LEMMA QuietCount ==
    ASSUME BioInv, NEW p \in Procs, Quieter(p)
    PROVE  writes' = writes /\ (p \in Unwritten' => p \in Unwritten)
<1> USE DEF Unwritten, Goto, Return, Sleep, BioInv, TypeOK
<1>1. CASE \/ GetblkFound(p) \/ GetblkNoneFree(p) \/ GotBuffer(p) \/ ReadAhead(p)
           \/ BreadaEnd(p)
  BY <1>1 DEF GetblkFound, GetblkNoneFree, GotBuffer, ReadAhead, BreadaEnd
<1>2. CASE IowaitSleep(p) \/ IowaitRead(p) \/ BflushEnd(p) \/ IowaitWrite(p) \/ Release(p)
  BY <1>2 DEF IowaitSleep, IowaitRead, BflushEnd, IowaitWrite, Release
<1>3. CASE GetblkBusy(p) \/ GetblkTake(p) \/ BwriteLoop(p) \/ BawriteEnd(p)
  BY <1>3 DEF GetblkBusy, GetblkTake, BwriteLoop, BawriteEnd, MarkAge
<1>4. CASE GotAheadDone(p) \/ GotAheadRead(p) \/ GotToRead(p)
  BY <1>4 DEF GotAheadDone, GotAheadRead, GotToRead
<1>5. CASE GetblkClean(p) \/ GetblkReassign(p)
  BY <1>5 DEF GetblkClean, GetblkReassign
<1>6. CASE BflushWrite(p)
  BY <1>6 DEF BflushWrite
<1> QED BY <1>1, <1>2, <1>3, <1>4, <1>5, <1>6 DEF Quieter

\* Every step preserves it.
LEMMA DataInvNext ==
    ASSUME BioInv, DataInv, ~Faulty, [Next]_vars
    PROVE  DataInv'
<1>1. CASE UNCHANGED vars
  BY <1>1 DEF vars, bufVars, ioVars, procVars, DataInv, BufferOK, GivenOK, CountOK, Unwritten
<1>2. CASE Interrupt
  BY <1>2, InterruptTransfers, TransferData
<1>3. ASSUME NEW p \in Procs, NewCall(p) PROVE DataInv'
  BY <1>3, CallData
<1>4. ASSUME NEW p \in Procs, Step(p) PROVE DataInv'
  <2>0. OthersStay(p) /\ ops' = ops /\ TypeOK /\ CountOK
    BY <1>4, StepFrame DEF BioInv, DataInv
  <2>1. CASE Quieter(p) /\ Quiet(p)
    <3>1. CountOK'
      <4>1. writes' = writes /\ (p \in Unwritten' => p \in Unwritten)
        BY <2>1, QuietCount
      <4> QED BY <2>0, <4>1, CountStep
    <3>2. \A q \in Procs \ {p} : GivenOK(q)'
      BY <2>0, <2>1, OthersGiven DEF Quiet
    <3> QED BY <2>1, <3>1, <3>2 DEF Quiet, DataInv
  <2>2. ASSUME NEW b \in Bufs, Modifies(p, b) PROVE DataInv'
    <3>1. p \in Unwritten /\ b \in Owned(p)
      BY <2>2, BioAssumption DEF Modifies, Unwritten, Owned
    <3>2. CountOK'
      <4>1. writes' = writes + 1 /\ p \notin Unwritten'
        BY <2>2 DEF Modifies
      <4> QED BY <2>0, <3>1, <4>1, CountStep
    <3>3. \A q \in Procs \ {p} : GivenOK(q)'
      <4>1. Keeps(Bufs \ {b}) /\ \A c \in Bufs \ (Bufs \ {b}) : c \in Owned(p)
        BY <2>2, <3>1 DEF Modifies
      <4> QED BY <2>0, <4>1, OthersGiven
    <3> QED BY <2>2, <3>2, <3>3 DEF Modifies, DataInv
  <2> QED BY <1>4, <2>1, <2>2, StepKinds
<1> QED BY <1>1, <1>2, <1>3, <1>4 DEF Next, Finished

----------------------------------------------------------------------------
(* The refinement *)

\* The store does not change when every buffer keeps its contents.
LEMMA KeptStore ==
    ASSUME BioInv, DataInv, BioInv', DataInv', Keeps(Bufs)
    PROVE  \A x \in Blocks : StoreOf(x)' = StoreOf(x)
<1>0. StoreMap /\ StoreMap'
  BY StoreIs, StoreIsNext
<1> SUFFICES ASSUME NEW x \in Blocks PROVE StoreOf(x)' = StoreOf(x)
  OBVIOUS
<1>1. CASE \E c \in Bufs : blk[c] = x /\ Fresh(c)
  <2>1. PICK c \in Bufs : blk[c] = x /\ Fresh(c)
    BY <1>1
  <2>2. blk'[c] = x /\ Fresh(c)' /\ data'[c] = data[c]
    BY <2>1 DEF Keeps
  <2> QED BY <1>0, <2>1, <2>2 DEF StoreMap
<1>2. CASE ~\E c \in Bufs : blk[c] = x /\ Fresh(c)
  <2>1. \A c \in Bufs : blk'[c] = x => ~Fresh(c)'
    BY <1>2 DEF Keeps
  <2> QED BY <1>0, <1>2, <2>1 DEF StoreMap, Keeps
<1> QED BY <1>1, <1>2

\* A modification puts its value into the block, and changes no other.
LEMMA ModifiedStore ==
    ASSUME BioInv, DataInv, BioInv', DataInv', NEW p \in Procs, NEW b \in Bufs, Modifies(p, b),
           NEW y \in Blocks, y = blk[b]
    PROVE  /\ StoreOf(y)' = writes + 1
           /\ \A x \in Blocks \ {y} : StoreOf(x)' = StoreOf(x)
<1>0. StoreMap /\ StoreMap'
  BY StoreIs, StoreIsNext
<1>1. StoreOf(y)' = writes + 1
  <2>1. blk'[b] = y /\ Fresh(b)' /\ data'[b] = writes + 1
    BY DEF Modifies
  <2> QED BY <1>0, <2>1 DEF StoreMap
<1>2. ASSUME NEW x \in Blocks \ {y} PROVE StoreOf(x)' = StoreOf(x)
  <2>1. CASE \E c \in Bufs : blk[c] = x /\ Fresh(c)
    <3>1. PICK c \in Bufs : blk[c] = x /\ Fresh(c)
      BY <2>1
    <3>2. blk'[c] = x /\ Fresh(c)' /\ data'[c] = data[c]
      BY <1>2, <3>1 DEF Keeps, Modifies
    <3> QED BY <1>0, <3>1, <3>2 DEF StoreMap
  <2>2. CASE ~\E c \in Bufs : blk[c] = x /\ Fresh(c)
    <3>1. \A c \in Bufs : blk'[c] = x => ~Fresh(c)'
      BY <1>2, <2>2 DEF Keeps, Modifies
    <3> QED BY <1>0, <2>2, <3>1 DEF StoreMap, Keeps, Modifies
  <2> QED BY <2>1, <2>2
<1> QED BY <1>1, <1>2

\* The blocks that p does not hold before or after its step stay with their holders.
LEMMA OthersHold ==
    ASSUME BioInv, BioInv', NEW p \in Procs, OthersStay(p), NEW C, Keeps(C),
           \A b \in Bufs \ C : b \in Owned(p),
           NEW x \in Blocks, ~Holds(p, x), ~Holds(p, x)'
    PROVE  HolderOf(x)' = HolderOf(x) /\ SeenOf(x)' = SeenOf(x)
<1>0. HolderMap /\ HolderMap' /\ Nil \notin Procs
  BY HolderIs, HolderIsNext, BioAssumption
<1>1. ASSUME NEW q \in Procs \ {p}
      PROVE  /\ Holds(q, x)' <=> Holds(q, x)
             /\ Holds(q, x) => data'[bp'[q]] = data[bp[q]] /\ ret'[q] = ret[q]
  <2>1. pc[q] = "have" => bp[q] \in Bufs /\ bp[q] \in Owned(q)
    BY BioAssumption DEF BioInv, StagesOK, StageOK, TypeOK, Owned
  <2>2. pc[q] = "have" => bp[q] \in C /\ "BUSY" \in flags[bp[q]]
    BY <2>1 DEF BioInv, OneOwner
  <2>3. pc[q] = "have" => blk'[bp[q]] = blk[bp[q]] /\ data'[bp[q]] = data[bp[q]]
    BY <2>2 DEF Keeps
  <2> QED BY <2>3 DEF OthersStay, Holds
<1>2. CASE \E q \in Procs : Holds(q, x)
  <2>1. PICK q \in Procs \ {p} : Holds(q, x)
    BY <1>2
  <2>2. HolderOf(x) = q /\ HolderOf(x)' = q
    BY <1>0, <1>1, <2>1 DEF HolderMap, Holds
  <2>3. ret'[q] = ret[q] /\ data'[bp'[q]] = data[bp[q]]
    BY <1>1, <2>1
  <2> QED BY <1>0, <2>2, <2>3 DEF SeenOf
<1>3. CASE ~\E q \in Procs : Holds(q, x)
  <2>1. \A q \in Procs : ~Holds(q, x)'
    BY <1>1, <1>3
  <2>2. HolderOf(x) = Nil /\ HolderOf(x)' = Nil
    BY <1>0, <1>3, <2>1 DEF HolderMap
  <2> QED BY <2>2 DEF SeenOf
<1> QED BY <1>2, <1>3

\* Nothing of the store changes.
Unseen ==
    \A x \in Blocks : /\ StoreOf(x)' = StoreOf(x) /\ HolderOf(x)' = HolderOf(x)
                      /\ SeenOf(x)' = SeenOf(x)

\* Then the store stutters.
LEMMA UnseenStutters == Unseen => UNCHANGED Store!storeVars
<1> QED BY DEF Unseen, Store!storeVars

\* A quiet step that does not give p a block to hold or take it away.
LEMMA QuietUnseen ==
    ASSUME BioInv, DataInv, BioInv', DataInv', NEW p \in Procs, OthersStay(p), Keeps(Bufs),
           \A x \in Blocks : ~Holds(p, x) /\ ~Holds(p, x)'
    PROVE  Unseen
<1>1. \A x \in Blocks : StoreOf(x)' = StoreOf(x)
  BY KeptStore
<1>2. ASSUME NEW x \in Blocks PROVE HolderOf(x)' = HolderOf(x) /\ SeenOf(x)' = SeenOf(x)
  <2>1. \A b \in Bufs \ Bufs : b \in Owned(p)
    OBVIOUS
  <2> QED BY <2>1, OthersHold
<1> QED BY <1>1, <1>2 DEF Unseen

\* getblk, geteblk or bread returns a buffer to its caller: the block was nobody's, and
\* the contents of one that was read are the store's.
LEMMA QuietGrants ==
    ASSUME BioInv, DataInv, BioInv', DataInv', NEW p \in Procs, OthersStay(p), Keeps(Bufs),
           pc[p] # "have", pc'[p] = "have", NEW y \in Blocks, y = blk'[bp'[p]]
    PROVE  Store!GrantRead(p, y) \/ Store!GrantOverwrite(p, y)
<1>0. /\ HolderMap /\ HolderMap' /\ StoreMap' /\ GivenOK(p)'
      /\ Nil \notin Procs /\ Nil \notin Blocks
  BY HolderIs, HolderIsNext, StoreIsNext, BioAssumption DEF DataInv
<1>1. \A x \in Blocks \ {y} : ~Holds(p, x) /\ ~Holds(p, x)'
  BY DEF Holds
<1>2. \A x \in Blocks : StoreOf(x)' = StoreOf(x)
  BY KeptStore
<1>3. ASSUME NEW x \in Blocks \ {y} PROVE HolderOf(x)' = HolderOf(x) /\ SeenOf(x)' = SeenOf(x)
  <2>1. \A b \in Bufs \ Bufs : b \in Owned(p)
    OBVIOUS
  <2> QED BY <1>1, <2>1, OthersHold
<1>4. HolderOf(y)' = p
  BY <1>0 DEF HolderMap
<1>5. HolderOf(y) = Nil
  <2> SUFFICES ASSUME NEW q \in Procs, Holds(q, y) PROVE FALSE
    BY <1>0 DEF HolderMap
  <2>1. q # p /\ bp[q] \in Bufs /\ bp[q] \in Owned(q)
    BY BioAssumption DEF Holds, BioInv, StagesOK, StageOK, TypeOK, Owned
  <2>2. blk'[bp'[q]] = blk[bp[q]] /\ pc'[q] = "have"
    BY <2>1 DEF BioInv, OneOwner, Keeps, OthersStay, Holds
  <2>3. HolderOf(y)' = q
    BY <1>0, <2>2 DEF HolderMap, Holds
  <2> QED BY <1>4, <2>1, <2>3
<1>6. SeenOf(y)' \in {StoreOf(y), Nil}
  <2>1. SeenOf(y)' = IF ret'[p] # "getblk" THEN data'[bp'[p]] ELSE Nil
    BY <1>0, <1>4 DEF SeenOf
  <2>2. CASE ret'[p] = "bread"
    <3>1. PICK c \in Bufs : c = bp'[p]
      BY DEF BioInv, StagesOK, StageOK, TypeOK
    <3>2. "DONE" \in flags'[c] /\ blk'[c] = y
      BY <1>0, <2>2, <3>1 DEF GivenOK
    <3>3. StoreOf(y)' = data'[bp'[p]]
      BY <1>0, <3>1, <3>2 DEF StoreMap, Valid
    <3> QED BY <1>2, <2>1, <2>2, <3>3
  <2>3. CASE ret'[p] # "bread"
    BY <1>0, <2>1, <2>3 DEF GivenOK
  <2> QED BY <2>2, <2>3
<1>7. /\ [x \in Blocks |-> HolderOf(x)'] = [[x \in Blocks |-> HolderOf(x)] EXCEPT ![y] = p]
      /\ [x \in Blocks |-> SeenOf(x)']
            = [[x \in Blocks |-> SeenOf(x)] EXCEPT ![y] = SeenOf(y)']
      /\ [x \in Blocks |-> StoreOf(x)'] = [x \in Blocks |-> StoreOf(x)]
  BY <1>2, <1>3, <1>4
<1> QED BY <1>5, <1>6, <1>7 DEF Store!GrantRead, Store!GrantOverwrite, Store!Grant

\* brelse: the block is given back as it was.
LEMMA QuietYields ==
    ASSUME BioInv, DataInv, BioInv', DataInv', NEW p \in Procs, OthersStay(p), Keeps(Bufs),
           pc[p] = "have", pc'[p] # "have", NEW y \in Blocks, y = blk[bp[p]]
    PROVE  Store!Yield(p, y)
<1>0. HolderMap /\ HolderMap' /\ Nil \notin Procs /\ Nil \notin Blocks
  BY HolderIs, HolderIsNext, BioAssumption
<1>1. \A x \in Blocks \ {y} : ~Holds(p, x) /\ ~Holds(p, x)'
  BY DEF Holds
<1>2. \A x \in Blocks : StoreOf(x)' = StoreOf(x)
  BY KeptStore
<1>3. ASSUME NEW x \in Blocks \ {y} PROVE HolderOf(x)' = HolderOf(x) /\ SeenOf(x)' = SeenOf(x)
  <2>1. \A b \in Bufs \ Bufs : b \in Owned(p)
    OBVIOUS
  <2> QED BY <1>1, <2>1, OthersHold
<1>4. HolderOf(y) = p
  BY <1>0 DEF HolderMap
<1>5. HolderOf(y)' = Nil /\ SeenOf(y)' = Nil
  <2>1. ASSUME NEW q \in Procs, Holds(q, y)' PROVE FALSE
    <3>1. q # p
      BY <2>1 DEF Holds
    <3>2. Holds(q, y)
      <4>1. bp'[q] \in Bufs /\ pc[q] = "have" /\ bp[q] = bp'[q] /\ bp[q] \in Owned(q)
        BY <2>1, <3>1, BioAssumption DEF Holds, BioInv, StagesOK, StageOK, TypeOK, Owned, OthersStay
      <4> QED BY <2>1, <4>1 DEF BioInv, OneOwner, Keeps, Holds
    <3> QED BY <1>0, <1>4, <3>1, <3>2 DEF HolderMap, Holds
  <2>2. HolderOf(y)' = Nil
    BY <1>0, <2>1 DEF HolderMap
  <2> QED BY <2>2 DEF SeenOf
<1>6. /\ [x \in Blocks |-> HolderOf(x)'] = [[x \in Blocks |-> HolderOf(x)] EXCEPT ![y] = Nil]
      /\ [x \in Blocks |-> SeenOf(x)'] = [[x \in Blocks |-> SeenOf(x)] EXCEPT ![y] = Nil]
      /\ [x \in Blocks |-> StoreOf(x)']
            = [[x \in Blocks |-> StoreOf(x)] EXCEPT ![y] = StoreOf(y)]
  BY <1>2, <1>3, <1>5
<1> QED BY <1>4, <1>6 DEF Store!Yield, Store!Put

\* bwrite, bawrite and bdwrite: the block is given back with what was put into it.
LEMMA ModifyPuts ==
    ASSUME BioInv, DataInv, BioInv', DataInv', NEW p \in Procs, OthersStay(p),
           NEW b \in Bufs, Modifies(p, b), NEW y \in Blocks, y = blk[b]
    PROVE  \E v \in 0..MaxOps : Store!Put(p, y, v)
<1>0. HolderMap /\ HolderMap' /\ Nil \notin Procs /\ Nil \notin Blocks /\ b \in Owned(p)
  BY HolderIs, HolderIsNext, BioAssumption DEF Modifies, Owned
<1>1. \A x \in Blocks \ {y} : ~Holds(p, x) /\ ~Holds(p, x)'
  BY DEF Holds, Modifies
<1>2. StoreOf(y)' = writes + 1 /\ \A x \in Blocks \ {y} : StoreOf(x)' = StoreOf(x)
  BY ModifiedStore
<1>3. ASSUME NEW x \in Blocks \ {y} PROVE HolderOf(x)' = HolderOf(x) /\ SeenOf(x)' = SeenOf(x)
  <2>1. Keeps(Bufs \ {b}) /\ \A c \in Bufs \ (Bufs \ {b}) : c \in Owned(p)
    BY <1>0 DEF Modifies
  <2> QED BY <1>1, <2>1, OthersHold
<1>4. HolderOf(y) = p
  BY <1>0 DEF HolderMap, Modifies
<1>5. HolderOf(y)' = Nil /\ SeenOf(y)' = Nil
  <2>1. ASSUME NEW q \in Procs, Holds(q, y)' PROVE FALSE
    <3>1. q # p
      BY <2>1 DEF Holds, Modifies
    <3>2. /\ bp'[q] \in Bufs /\ pc[q] = "have" /\ bp[q] = bp'[q] /\ bp[q] \in Owned(q)
      BY <2>1, <3>1, BioAssumption DEF Holds, BioInv, StagesOK, StageOK, TypeOK, Owned, OthersStay
    <3>3. bp[q] # b /\ "BUSY" \in flags[bp[q]]
      BY <1>0, <3>1, <3>2 DEF BioInv, OneOwner
    <3>4. Holds(q, y)
      BY <2>1, <3>2, <3>3 DEF Keeps, Holds, Modifies
    <3> QED BY <1>0, <1>4, <3>1, <3>4 DEF HolderMap, Holds
  <2>2. HolderOf(y)' = Nil
    BY <1>0, <2>1 DEF HolderMap
  <2> QED BY <2>2 DEF SeenOf
<1>6. writes + 1 \in 0..MaxOps
  <2>1. PICK n \in Nat : n = Cardinality(Unwritten')
    BY FS_CardinalityType DEF DataInv, CountOK
  <2>2. writes + 1 + n <= ops' /\ ops' <= MaxOps
    BY <2>1 DEF DataInv, CountOK, Modifies
  <2>3. writes \in Nat /\ ops' \in Nat /\ MaxOps \in Nat
    BY BioAssumption DEF BioInv, TypeOK
  <2>4. \A i, j, k, m \in Nat : i + 1 + j <= k /\ k <= m => i + 1 \in 0..m
    OBVIOUS
  <2> QED BY <2>2, <2>3, <2>4
<1>7. /\ [x \in Blocks |-> HolderOf(x)'] = [[x \in Blocks |-> HolderOf(x)] EXCEPT ![y] = Nil]
      /\ [x \in Blocks |-> SeenOf(x)'] = [[x \in Blocks |-> SeenOf(x)] EXCEPT ![y] = Nil]
      /\ [x \in Blocks |-> StoreOf(x)']
            = [[x \in Blocks |-> StoreOf(x)] EXCEPT ![y] = writes + 1]
  BY <1>2, <1>3, <1>5
<1>8. Store!Put(p, y, writes + 1)
  BY <1>4, <1>7 DEF Store!Put
<1> QED BY <1>6, <1>8

\* The end of a transfer changes nothing of the store.
LEMMA TransferUnseen ==
    ASSUME BioInv, DataInv, BioInv', DataInv', NEW b \in Bufs, Transfers(b)
    PROVE  Unseen
<1>0. HolderMap /\ HolderMap' /\ Nil \notin Procs
  BY HolderIs, HolderIsNext, BioAssumption
<1>1. \A x \in Blocks : StoreOf(x)' = StoreOf(x)
  BY TransferStore
<1>2. ASSUME NEW x \in Blocks PROVE HolderOf(x)' = HolderOf(x) /\ SeenOf(x)' = SeenOf(x)
  <2>1. ASSUME NEW q \in Procs
        PROVE  /\ Holds(q, x)' <=> Holds(q, x)
               /\ Holds(q, x) => data'[bp'[q]] = data[bp[q]] /\ ret'[q] = ret[q]
    <3>1. pc[q] = "have" => bp[q] \in Bufs /\ bp[q] # b
      BY DEF BioInv, StagesOK, StageOK, TypeOK, Transfers
    <3> QED BY <3>1 DEF Transfers, Holds
  <2>2. CASE \E q \in Procs : Holds(q, x)
    <3>1. PICK q \in Procs : Holds(q, x)
      BY <2>2
    <3>2. HolderOf(x) = q /\ HolderOf(x)' = q
      BY <1>0, <2>1, <3>1 DEF HolderMap, Holds
    <3>3. ret'[q] = ret[q] /\ data'[bp'[q]] = data[bp[q]]
      BY <2>1, <3>1
    <3> QED BY <1>0, <3>2, <3>3 DEF SeenOf
  <2>3. CASE ~\E q \in Procs : Holds(q, x)
    <3>1. \A q \in Procs : ~Holds(q, x)'
      BY <2>1, <2>3
    <3>2. HolderOf(x) = Nil /\ HolderOf(x)' = Nil
      BY <1>0, <2>3, <3>1 DEF HolderMap
    <3> QED BY <3>2 DEF SeenOf
  <2> QED BY <2>2, <2>3
<1> QED BY <1>1, <1>2 DEF Unseen

\* A quiet step of a process that holds a block gives it back.
LEMMA HaveLeaves ==
    ASSUME TypeOK, NEW p \in Procs, Quieter(p), pc[p] = "have"
    PROVE  pc'[p] # "have"
<1>1. Release(p)
  BY DEF Quieter, GetblkFound, GetblkNoneFree, GotBuffer, ReadAhead, BreadaEnd, IowaitSleep,
     IowaitRead, BflushEnd, GetblkBusy, GetblkTake, BwriteLoop, BawriteEnd, MarkAge,
     GotAheadDone, IowaitWrite, GotToRead, GotAheadRead, GetblkClean, BflushWrite,
     GetblkReassign
<1> QED BY <1>1 DEF Release, Return, TypeOK

\* Every step of the cache is a step of the store, or changes nothing of it.
LEMMA StepImplements ==
    ASSUME BioInv, DataInv, BioInv', DataInv', ~Faulty, [Next]_vars
    PROVE  [Store!StoreNext]_(Store!storeVars)
<1>1. CASE UNCHANGED vars
  <2>1. Unseen
    BY <1>1 DEF vars, bufVars, ioVars, procVars, Unseen, StoreOf, HolderOf, SeenOf, Holds, Valid
  <2> QED BY <2>1, UnseenStutters
<1>2. CASE Interrupt
  BY <1>2, InterruptTransfers, TransferUnseen, UnseenStutters
<1>3. ASSUME NEW p \in Procs, NewCall(p) PROVE [Store!StoreNext]_(Store!storeVars)
  <2>1. PICK l \in {"getblk", "ahead", "sync"}, x \in Blocks \cup {Nil},
             y \in Blocks \cup {Nil}, r \in Ret : Call(p, l, x, y, r)
    BY <1>3 DEF NewCall, CallBread, CallBreada, CallGetblk, CallGeteblk, CallBflush, Ret
  <2>2. /\ pc[p] = "user" /\ pc'[p] # "have" /\ OthersStay(p)
        /\ UNCHANGED <<flags, blk, data, queue, disk>>
    BY <2>1 DEF Call, Goto, bufVars, ioVars, OthersStay, BioInv, TypeOK
  <2>3. Keeps(Bufs)
    BY <2>2, SameWorthKeeps DEF SameWorth
  <2>4. \A z \in Blocks : ~Holds(p, z) /\ ~Holds(p, z)'
    BY <2>2 DEF Holds
  <2> QED BY <2>2, <2>3, <2>4, QuietUnseen, UnseenStutters
<1>4. ASSUME NEW p \in Procs, Step(p) PROVE [Store!StoreNext]_(Store!storeVars)
  <2>0. OthersStay(p) /\ TypeOK
    BY <1>4, StepFrame DEF BioInv
  <2>1. CASE Quieter(p) /\ Quiet(p)
    <3>0. Keeps(Bufs)
      BY <2>1 DEF Quiet
    <3>1. CASE \A x \in Blocks : ~Holds(p, x) /\ ~Holds(p, x)'
      BY <2>0, <3>0, <3>1, QuietUnseen, UnseenStutters
    <3>2. ASSUME NEW y \in Blocks, Holds(p, y) PROVE Store!Yield(p, y)
      BY <2>0, <2>1, <3>0, <3>2, HaveLeaves, QuietYields DEF Holds
    <3>3. ASSUME NEW y \in Blocks, Holds(p, y)' PROVE
            Store!GrantRead(p, y) \/ Store!GrantOverwrite(p, y)
      BY <2>0, <2>1, <3>0, <3>3, HaveLeaves, QuietGrants DEF Holds
    <3> QED BY <3>1, <3>2, <3>3 DEF Store!StoreNext
  <2>2. ASSUME NEW b \in Bufs, Modifies(p, b) PROVE Store!StoreNext
    <3>1. blk[b] \in Blocks
      BY <2>2 DEF Modifies
    <3> QED BY <2>0, <2>2, <3>1, ModifyPuts DEF Store!StoreNext
  <2> QED BY <1>4, <2>1, <2>2, StepKinds
<1> QED BY <1>1, <1>2, <1>3, <1>4 DEF Next, Finished

\* As long as the device makes no errors, the block cache with its read-ahead and delayed
\* writes is the store of blocks that the file system takes it for: one process at a time
\* holds a block, and bread returns what was last put into it.
THEOREM StoreTheorem == ~Faulty => (Spec => ImplementsStore)
<1> SUFFICES ASSUME ~Faulty PROVE Spec => ImplementsStore
  OBVIOUS
<1>1. Init => Store!StoreInit
  BY BioAssumption DEF Init, Store!StoreInit, StoreOf, HolderOf, SeenOf, Holds
<1>2. Init => DataInv
  BY DataInvInit
<1>3. BioInv /\ DataInv /\ [Next]_vars => DataInv'
  BY DataInvNext
<1>4. BioInv /\ DataInv /\ BioInv' /\ DataInv' /\ [Next]_vars
         => [Store!StoreNext]_(Store!storeVars)
  BY StepImplements
<1> QED BY <1>1, <1>2, <1>3, <1>4, BioInvariant, PTL
       DEF Spec, ImplementsStore, Store!StoreSpec

----------------------------------------------------------------------------
(* The order of the writes to a tape *)

\* A step that adds no write to a tape, takes none off and does none.
LEMMA TapeKept ==
    ASSUME TapeInv, disk' = disk, writes' = writes,
           \A c \in Bufs : "DELWRI" \in flags'[c] /\ blk'[c] \in Tape =>
                              "DELWRI" \in flags[c] /\ blk[c] \in Tape,
           \A c \in Bufs : TapeWrite(c)' => TapeWrite(c) /\ data'[c] = data[c],
           \A a, c \in Bufs : TapeWrite(a)' /\ TapeWrite(c)' /\ Before(a, c)' => Before(a, c)
    PROVE  TapeInv'
<1> QED BY DEF TapeInv

\* A step that leaves the queue alone.
LEMMA TapeSameQueue ==
    ASSUME TapeInv, UNCHANGED <<queue, data, disk, writes>>,
           \A c \in Bufs :
              /\ blk'[c] \in Tape => blk'[c] = blk[c]
              /\ "DELWRI" \in flags'[c] => "DELWRI" \in flags[c]
              /\ "READ" \in flags[c] => "READ" \in flags'[c]
    PROVE  TapeInv'
<1>1. \A c \in Bufs : TapeWrite(c)' => TapeWrite(c) /\ data'[c] = data[c]
  BY DEF TapeWrite
<1>2. \A a, c \in Bufs : Before(a, c)' <=> Before(a, c)
  BY DEF Before
<1> QED BY <1>1, <1>2, TapeKept

\* Who is before whom in a queue to which b is appended.
LEMMA BeforeAppend ==
    ASSUME BioInv, NEW b \in Bufs, ~Contains(queue, b), queue' = Append(queue, b)
    PROVE  /\ \A a, c \in Bufs : Before(a, c)' => Contains(queue, a)
           /\ \A a, c \in Bufs : Before(a, c)' /\ c # b => Before(a, c)
           /\ \A c \in Bufs : Contains(queue', c) <=> Contains(queue, c) \/ c = b
<1>1. queue \in Seq(Bufs) /\ IsInjective(queue)
  BY DEF BioInv, TypeOK, QueueOK
<1>2. /\ Len(queue') = Len(queue) + 1 /\ queue'[Len(queue) + 1] = b /\ Len(queue) \in Nat
      /\ \A k \in 1..Len(queue) : queue'[k] = queue[k]
  BY <1>1
<1>3. ASSUME NEW a \in Bufs, NEW c \in Bufs, Before(a, c)'
      PROVE  Contains(queue, a) /\ (c # b => Before(a, c))
  <2>1. PICK i \in 1..Len(queue'), j \in 1..Len(queue') :
               i < j /\ queue'[i] = a /\ queue'[j] = c
    BY <1>3 DEF Before
  <2>2. i \in 1..Len(queue) /\ queue[i] = a
    BY <1>2, <2>1
  <2>3. c # b => j \in 1..Len(queue) /\ queue[j] = c
    BY <1>2, <2>1
  <2> QED BY <2>1, <2>2, <2>3 DEF Before, Contains
<1>4. \A c \in Bufs : Contains(queue', c) <=> Contains(queue, c) \/ c = b
  BY <1>1, AppendProps
<1> QED BY <1>3, <1>4

\* Handing the device a buffer of which it is not to write to a tape.
LEMMA TapeAppendOther ==
    ASSUME BioInv, TapeInv, UNCHANGED <<blk, data, disk, writes>>,
           NEW b \in Bufs, ~Contains(queue, b), queue' = Append(queue, b),
           "READ" \in flags'[b] \/ blk[b] \notin Tape,
           "DELWRI" \in flags'[b] => "DELWRI" \in flags[b],
           \A c \in Bufs \ {b} : flags'[c] = flags[c]
    PROVE  TapeInv'
<1>1. ~TapeWrite(b)'
  BY DEF TapeWrite
<1>2. \A c \in Bufs : TapeWrite(c)' => TapeWrite(c) /\ data'[c] = data[c]
  BY <1>1, BeforeAppend DEF TapeWrite
<1>3. \A a, c \in Bufs : TapeWrite(a)' /\ TapeWrite(c)' /\ Before(a, c)' => Before(a, c)
  BY <1>1, BeforeAppend
<1>4. \A c \in Bufs : "DELWRI" \in flags'[c] /\ blk'[c] \in Tape =>
                         "DELWRI" \in flags[c] /\ blk[c] \in Tape
  OBVIOUS
<1> QED BY <1>2, <1>3, <1>4, TapeKept

\* A new write to a tape is behind all others and newer than all.
LEMMA TapeAppendWrite ==
    ASSUME BioInv, TapeInv, UNCHANGED <<blk, disk>>, writes' = writes + 1,
           NEW b \in Bufs, ~Contains(queue, b), queue' = Append(queue, b),
           data'[b] = writes + 1, "DELWRI" \notin flags'[b],
           \A c \in Bufs \ {b} : flags'[c] = flags[c] /\ data'[c] = data[c]
    PROVE  TapeInv'
<1>0. writes \in Nat
  BY DEF BioInv, TypeOK
<1>1. \A c \in Bufs \ {b} : TapeWrite(c)' => TapeWrite(c)
  BY BeforeAppend DEF TapeWrite
<1>2. \A y \in Tape : disk'[y] \in 0..writes /\ disk'[y] \in 0..writes' /\ disk'[y] < writes + 1
  BY <1>0 DEF TapeInv
<1>3. ASSUME NEW c \in Bufs, TapeWrite(c)'
      PROVE  data'[c] \in 1..writes' /\ \A y \in Tape : disk'[y] < data'[c]
  <2>1. CASE c = b
    BY <1>0, <1>2, <2>1
  <2>2. CASE c # b
    <3>1. data[c] \in 1..writes /\ \A y \in Tape : disk[y] < data[c]
      BY <1>1, <1>3, <2>2 DEF TapeInv
    <3> QED BY <1>0, <2>2, <3>1
  <2> QED BY <2>1, <2>2
<1>4. ASSUME NEW a \in Bufs, NEW c \in Bufs, TapeWrite(a)', TapeWrite(c)', Before(a, c)'
      PROVE  data'[a] < data'[c]
  <2>1. Contains(queue, a) /\ a # b
    BY <1>4, BeforeAppend
  <2>2. TapeWrite(a) /\ data'[a] = data[a]
    BY <1>1, <1>4, <2>1
  <2>3. data[a] \in 1..writes
    BY <2>2 DEF TapeInv
  <2>4. CASE c = b
    BY <1>0, <2>2, <2>3, <2>4
  <2>5. CASE c # b
    <3>1. Before(a, c) /\ TapeWrite(c) /\ data'[c] = data[c]
      BY <1>1, <1>4, <2>5, BeforeAppend
    <3> QED BY <2>2, <3>1 DEF TapeInv
  <2> QED BY <2>4, <2>5
<1>5. \A c \in Bufs : "DELWRI" \in flags'[c] => blk'[c] \notin Tape
  BY DEF TapeInv
<1> QED BY <1>2, <1>3, <1>4, <1>5 DEF TapeInv

\* The end of a transfer: a write to a tape was the first of them.
LEMMA TapeInterrupt ==
    ASSUME BioInv, TapeInv, Interrupt
    PROVE  TapeInv' /\ \A x, y \in Tape : disk'[x] # disk[x] => disk'[x] > disk[y]
<1>1. PICK i \in 1..Len(queue), failed \in BOOLEAN :
        /\ InTurn(i) /\ Transfer(queue[i], failed)
        /\ Iodone(queue[i], IodoneFlags(queue[i], failed))
        /\ queue' = RemoveAt(queue, i) /\ writes' = writes
  BY DEF Interrupt
<1>2. PICK b \in Bufs : b = queue[i] /\ Contains(queue, b)
  BY DEF BioInv, TypeOK, Contains
<1>3. queue \in Seq(Bufs) /\ IsInjective(queue) /\ Tape \subseteq Blocks
      /\ Nil \notin Blocks
  BY BioAssumption DEF BioInv, TypeOK, QueueOK
<1>4. \A c \in Bufs : Contains(queue', c) <=> Contains(queue, c) /\ c # b
  BY <1>1, <1>2, <1>3, RemoveAtProps
<1>5. ASSUME NEW a \in Bufs, NEW c \in Bufs, Before(a, c)' PROVE Before(a, c)
  <2>1. PICK j \in 1..Len(queue'), k \in 1..Len(queue') :
               j < k /\ queue'[j] = a /\ queue'[k] = c
    BY <1>5 DEF Before
  <2>2. /\ Len(queue') = Len(queue) - 1 /\ Len(queue) \in Nat
        /\ \A m \in 1..Len(queue') : queue'[m] = IF m < i THEN queue[m] ELSE queue[m + 1]
    <3> DEFINE r == RemoveAt(queue, i)
    <3>1. /\ Len(r) = Len(queue) - 1
          /\ \A m \in 1..Len(r) : r[m] = IF m < i THEN queue[m] ELSE queue[m + 1]
      BY <1>3, RemoveAtIndex
    <3>2. queue' = r
      BY <1>1
    <3> HIDE DEF r
    <3>3. Len(queue) \in Nat
      BY <1>3
    <3> QED BY <3>1, <3>2, <3>3
  <2>3. PICK r \in 1..Len(queue) : r = (IF j < i THEN j ELSE j + 1) /\ queue[r] = a
    BY <2>1, <2>2
  <2>4. PICK s \in 1..Len(queue) : s = (IF k < i THEN k ELSE k + 1) /\ queue[s] = c
    BY <2>1, <2>2
  <2>5. r < s
    BY <2>1, <2>3, <2>4
  <2> QED BY <2>3, <2>4, <2>5 DEF Before
<1>6. ASSUME NEW c \in Bufs, c # b, TapeWrite(c), blk[b] \in Tape PROVE Before(b, c)
  <2>1. PICK j \in 1..Len(queue) : queue[j] = c
    BY <1>3, <1>6 DEF TapeWrite, Contains
  <2>2. i \in Nat /\ j \in Nat /\ i # j
    BY <1>2, <1>3, <1>6, <2>1
  <2>3. ~(j < i)
    BY <1>1, <1>2, <1>6, <2>1, <2>2 DEF InTurn, TapeWrite
  <2> QED BY <1>2, <2>1, <2>2, <2>3 DEF Before
<1>7. PICK f : f = flags[b] \cup {"DONE"} \cup (IF failed THEN {"ERROR"} ELSE {}) /\ Iodone(b, f)
  BY <1>1, <1>2 DEF IodoneFlags
<1>8. /\ blk' = blk \/ blk' = [blk EXCEPT ![b] = Nil]
      /\ flags' = [flags EXCEPT ![b] = f \ {"WANTED"}] \/ flags' = [flags EXCEPT ![b] = Released(f)]
  BY <1>7 DEF Iodone, Brelse, DropAssoc
<1>9. \A c \in Bufs : /\ blk'[c] \in Tape => blk'[c] = blk[c]
                      /\ "DELWRI" \in flags'[c] => "DELWRI" \in flags[c]
                      /\ "READ" \in flags[c] => "READ" \in flags'[c]
  BY <1>3, <1>7, <1>8 DEF Released, BioInv, TypeOK
<1>10. /\ \A c \in Bufs : TapeWrite(c)' => TapeWrite(c) /\ c # b
       /\ \A c \in Bufs \ {b} : data'[c] = data[c]
  <2>1. \A c \in Bufs \ {b} : data'[c] = data[c]
    BY <1>1, <1>2 DEF Transfer, BioInv, TypeOK
  <2> QED BY <1>4, <1>9, <2>1 DEF TapeWrite
<1>11. CASE \A y \in Tape : disk'[y] = disk[y]
  <2>1. TapeInv'
    BY <1>1, <1>5, <1>9, <1>10, <1>11 DEF TapeInv
  <2> QED BY <1>11, <2>1
<1>12. CASE ~\A y \in Tape : disk'[y] = disk[y]
  <2>1. "READ" \notin flags[b] /\ disk' = [disk EXCEPT ![blk[b]] = data[b]]
    BY <1>1, <1>2, <1>12 DEF Transfer
  <2>2. blk[b] \in Tape /\ \A y \in Tape : disk'[y] = IF y = blk[b] THEN data[b] ELSE disk[y]
    BY <1>3, <1>12, <2>1 DEF BioInv, TypeOK
  <2>3. TapeWrite(b)
    BY <1>2, <2>1, <2>2 DEF TapeWrite
  <2>4. data[b] \in 1..writes /\ \A y \in Tape : disk[y] < data[b] /\ disk[y] \in 0..writes
    BY <2>3 DEF TapeInv
  <2>5. writes \in Nat
    BY DEF BioInv, TypeOK
  <2>6. \A y \in Tape : disk'[y] \in 0..writes'
    BY <1>1, <2>2, <2>4, <2>5
  <2>7. ASSUME NEW c \in Bufs, TapeWrite(c)'
        PROVE  data'[c] \in 1..writes' /\ \A y \in Tape : disk'[y] < data'[c]
    <3>1. TapeWrite(c) /\ c # b /\ data'[c] = data[c]
      BY <1>10, <2>7
    <3>2. data[b] < data[c] /\ data[c] \in 1..writes /\ \A y \in Tape : disk[y] < data[c]
      BY <1>6, <2>2, <2>3, <3>1 DEF TapeInv
    <3> QED BY <1>1, <2>2, <3>1, <3>2
  <2>8. \A a, c \in Bufs : TapeWrite(a)' /\ TapeWrite(c)' /\ Before(a, c)' => data'[a] < data'[c]
    BY <1>5, <1>10 DEF TapeInv
  <2>9. \A c \in Bufs : "DELWRI" \in flags'[c] => blk'[c] \notin Tape
    BY <1>9 DEF TapeInv
  <2>10. TapeInv'
    BY <2>6, <2>7, <2>8, <2>9 DEF TapeInv
  <2>11. \A x, y \in Tape : disk'[x] # disk[x] => disk'[x] > disk[y]
    BY <2>2, <2>4, <2>5
  <2> QED BY <2>10, <2>11
<1> QED BY <1>11, <1>12

\* The steps of a process that hand nothing to the device.
LEMMA TapeStepQueue ==
    ASSUME BioInv, TapeInv, NEW p \in Procs, Quieter(p), queue' = queue
    PROVE  TapeInv'
<1>0. Nil \notin Blocks /\ Tape \subseteq Blocks
  BY BioAssumption
<1>1. CASE \/ GetblkFound(p) \/ GetblkNoneFree(p) \/ GotBuffer(p) \/ ReadAhead(p)
           \/ BreadaEnd(p) \/ IowaitSleep(p) \/ IowaitRead(p) \/ BflushEnd(p)
  <2>1. UNCHANGED <<flags, blk, data, queue, disk, writes>>
    BY <1>1 DEF GetblkFound, GetblkNoneFree, GotBuffer, ReadAhead, BreadaEnd, IowaitSleep,
       IowaitRead, BflushEnd, bufVars, ioVars
  <2> QED BY <2>1, TapeSameQueue
<1>2. CASE GetblkBusy(p) \/ GetblkTake(p) \/ BwriteLoop(p) \/ BawriteEnd(p)
  <2>1. UNCHANGED <<blk, data, queue, disk, writes>>
    BY <1>2 DEF GetblkBusy, GetblkTake, BwriteLoop, BawriteEnd, MarkAge, ioVars
  <2>2. PICK m \in {"WANTED", "BUSY", "AGE"} :
          flags' = [flags EXCEPT ![cand[p]] = @ \cup {m}]
    BY <1>2 DEF GetblkBusy, GetblkTake, BwriteLoop, BawriteEnd, MarkAge
  <2>3. \A c \in Bufs : /\ "DELWRI" \in flags'[c] => "DELWRI" \in flags[c]
                        /\ "READ" \in flags[c] => "READ" \in flags'[c]
    BY <2>2 DEF BioInv, TypeOK
  <2> QED BY <2>1, <2>3, TapeSameQueue
<1>3. CASE GotAheadDone(p) \/ IowaitWrite(p) \/ Release(p)
  <2>1. PICK b \in Bufs : Brelse(b, flags[b])
    BY <1>3 DEF GotAheadDone, IowaitWrite, Release, BioInv, StagesOK, StageOK, TypeOK
  <2>2. UNCHANGED <<data, queue, disk, writes>>
    BY <1>3 DEF GotAheadDone, IowaitWrite, Release, ioVars
  <2>3. \A c \in Bufs : /\ blk'[c] \in Tape => blk'[c] = blk[c]
                        /\ "DELWRI" \in flags'[c] => "DELWRI" \in flags[c]
                        /\ "READ" \in flags[c] => "READ" \in flags'[c]
    BY <1>0, <2>1 DEF Brelse, DropAssoc, Released, BioInv, TypeOK
  <2> QED BY <2>2, <2>3, TapeSameQueue
<1>4. CASE GotToRead(p)
  <2>1. UNCHANGED <<blk, data, queue, disk, writes>>
    BY <1>4 DEF GotToRead
  <2>2. \A c \in Bufs : /\ "DELWRI" \in flags'[c] => "DELWRI" \in flags[c]
                        /\ "READ" \in flags[c] => "READ" \in flags'[c]
    BY <1>4 DEF GotToRead, BioInv, TypeOK
  <2> QED BY <2>1, <2>2, TapeSameQueue
<1>5. CASE GotAheadRead(p) \/ GetblkClean(p) \/ BflushWrite(p)
  <2>1. PICK b : queue' = Append(queue, b)
    BY <1>5 DEF GotAheadRead, GetblkClean, BflushWrite
  <2>2. Len(queue') = Len(queue) + 1 /\ Len(queue) \in Nat
    BY <2>1 DEF BioInv, TypeOK
  <2> QED BY <2>2
<1>6. CASE GetblkReassign(p)
  <2>1. PICK b \in Bufs :
          /\ Contains(avail, b)
          /\ flags' = [flags EXCEPT ![b] = {"BUSY"}]
          /\ blk' = [blk EXCEPT ![b] = Target(p)]
          /\ UNCHANGED <<queue, data, disk, writes>>
    <3>1. Head(avail) \in Bufs /\ Contains(avail, Head(avail))
      BY <1>6, TailProps DEF GetblkReassign, BioInv, TypeOK, AvailIffNotBusy
    <3> QED BY <1>6, <3>1 DEF GetblkReassign, ioVars
  <2>2. ~Contains(queue, b)
    BY <2>1 DEF BioInv, AvailIffNotBusy, QueueOK
  <2>3. /\ \A c \in Bufs \ {b} : flags'[c] = flags[c] /\ blk'[c] = blk[c]
        /\ flags'[b] = {"BUSY"}
    BY <2>1 DEF BioInv, TypeOK
  <2>4. \A c \in Bufs : TapeWrite(c)' => TapeWrite(c) /\ data'[c] = data[c]
    BY <2>1, <2>2, <2>3 DEF TapeWrite
  <2>5. \A a, c \in Bufs : Before(a, c)' <=> Before(a, c)
    BY <2>1 DEF Before
  <2>6. \A c \in Bufs : "DELWRI" \in flags'[c] /\ blk'[c] \in Tape =>
                           "DELWRI" \in flags[c] /\ blk[c] \in Tape
    BY <2>3
  <2> QED BY <2>1, <2>4, <2>5, <2>6, TapeKept
<1> QED BY <1>1, <1>2, <1>3, <1>4, <1>5, <1>6 DEF Quieter

\* The steps that hand the device a buffer to read into, or a delayed write.
LEMMA TapeStepAppend ==
    ASSUME BioInv, TapeInv, NEW p \in Procs, Quieter(p), queue' # queue
    PROVE  TapeInv'
<1>1. CASE GotToRead(p) \/ GotAheadRead(p)
  <2>0. PICK b \in Bufs : b = cand[p] /\ ~Contains(queue, b)
    BY <1>1 DEF GotToRead, GotAheadRead, BioInv, StagesOK, StageOK, TypeOK
  <2>1. /\ UNCHANGED <<blk, data, disk, writes>> /\ queue' = Append(queue, b)
        /\ \/ flags' = [flags EXCEPT ![b] = @ \cup {"READ"}]
           \/ flags' = [flags EXCEPT ![b] = @ \cup {"READ", "ASYNC"}]
    <3>1. CASE GotToRead(p)
      BY <2>0, <3>1 DEF GotToRead
    <3>2. CASE GotAheadRead(p)
      BY <2>0, <3>2 DEF GotAheadRead
    <3> QED BY <1>1, <3>1, <3>2
  <2>2. /\ \A c \in Bufs \ {b} : flags'[c] = flags[c]
        /\ "READ" \in flags'[b] /\ ("DELWRI" \in flags'[b] => "DELWRI" \in flags[b])
    <3>1. CASE flags' = [flags EXCEPT ![b] = @ \cup {"READ"}]
      BY <2>0, <3>1 DEF BioInv, TypeOK
    <3>2. CASE flags' = [flags EXCEPT ![b] = @ \cup {"READ", "ASYNC"}]
      BY <2>0, <3>2 DEF BioInv, TypeOK
    <3> QED BY <2>1, <3>1, <3>2
  <2> QED BY <2>0, <2>1, <2>2, TapeAppendOther
<1>2. CASE GetblkClean(p) \/ BflushWrite(p)
  <2>1. PICK b \in Bufs :
          /\ Contains(avail, b) /\ "DELWRI" \in flags[b]
          /\ flags' = [flags EXCEPT ![b] = WriteFlags(@ \cup {"BUSY", "ASYNC"})]
          /\ queue' = Append(queue, b) /\ UNCHANGED <<blk, data, disk, writes>>
    BY <1>2, CleanForm
  <2>2. /\ ~Contains(queue, b) /\ blk[b] \notin Tape
    BY <2>1 DEF BioInv, AvailIffNotBusy, QueueOK, TapeInv
  <2>3. /\ \A c \in Bufs \ {b} : flags'[c] = flags[c]
        /\ "DELWRI" \in flags'[b] => "DELWRI" \in flags[b]
    BY <2>1 DEF BioInv, TypeOK
  <2> QED BY <2>1, <2>2, <2>3, TapeAppendOther
<1>3. CASE ~(GotToRead(p) \/ GotAheadRead(p) \/ GetblkClean(p) \/ BflushWrite(p))
  BY <1>3 DEF Quieter, GetblkFound, GetblkNoneFree, GotBuffer, ReadAhead, BreadaEnd,
     IowaitSleep, IowaitRead, BflushEnd, GetblkBusy, GetblkTake, BwriteLoop, BawriteEnd,
     MarkAge, GotAheadDone, IowaitWrite, Release, GetblkReassign, ioVars
<1> QED BY <1>1, <1>2, <1>3

\* bwrite and bawrite queue a write, bdwrite does so if it is to a tape.
LEMMA TapeStepWrite ==
    ASSUME BioInv, TapeInv, NEW p \in Procs, Bwrite(p) \/ Bawrite(p) \/ Bdwrite(p)
    PROVE  TapeInv'
<1>1. PICK b \in Bufs : b = bp[p] /\ ~Contains(queue, b)
  BY DEF Bwrite, Bawrite, Bdwrite, DelayedRelease, Modify, BioInv, StagesOK, StageOK, TypeOK
<1>2. /\ writes' = writes + 1 /\ data'[b] = writes + 1
      /\ \A c \in Bufs \ {b} : data'[c] = data[c]
  BY <1>1 DEF Bwrite, Bawrite, Bdwrite, DelayedRelease, Modify, BioInv, TypeOK
<1>3. CASE Bwrite(p) \/ Bawrite(p)
  <2>1. /\ UNCHANGED <<blk, disk>> /\ queue' = Append(queue, b)
        /\ \/ flags' = [flags EXCEPT ![b] = WriteFlags(@)]
           \/ flags' = [flags EXCEPT ![b] = WriteFlags(@ \cup {"ASYNC"})]
    BY <1>1, <1>3 DEF Bwrite, Bawrite
  <2>2. /\ \A c \in Bufs \ {b} : flags'[c] = flags[c]
        /\ "DELWRI" \notin flags'[b]
    BY <2>1 DEF WriteFlags, BioInv, TypeOK
  <2> QED BY <1>1, <1>2, <2>1, <2>2, TapeAppendWrite
<1>4. CASE blk[b] \notin Tape /\ DelayedRelease(p)
  <2>1. Brelse(b, flags[b] \cup {"DELWRI", "DONE"}) /\ queue' = queue /\ disk' = disk
    BY <1>1, <1>4 DEF DelayedRelease, ioVars
  <2>2. \A c \in Bufs \ {b} : flags'[c] = flags[c] /\ blk'[c] = blk[c]
    BY <2>1 DEF Brelse, DropAssoc, BioInv, TypeOK
  <2>3. blk'[b] \notin Tape
    BY <1>4, <2>1, BioAssumption DEF Brelse, DropAssoc, BioInv, TypeOK
  <2>4. writes \in Nat /\ \A n \in 0..writes : n \in 0..(writes + 1)
    BY DEF BioInv, TypeOK
  <2>5. \A n \in 1..writes : n \in 1..(writes + 1)
    BY <2>4
  <2>6. \A c \in Bufs : TapeWrite(c)' => TapeWrite(c) /\ data'[c] = data[c] /\ c # b
    BY <1>1, <1>2, <2>1, <2>2, <2>3 DEF TapeWrite
  <2>7. \A a, c \in Bufs : Before(a, c)' <=> Before(a, c)
    BY <2>1 DEF Before
  <2>8. \A c \in Bufs : "DELWRI" \in flags'[c] => blk'[c] \notin Tape
    BY <2>2, <2>3 DEF TapeInv
  <2> QED BY <1>2, <2>1, <2>4, <2>5, <2>6, <2>7, <2>8 DEF TapeInv
<1> QED BY <1>1, <1>3, <1>4 DEF Bdwrite

\* Only an interrupt writes to the device, and the queue keeps its order.
LEMMA TapeNext ==
    ASSUME BioInv, TapeInv, [Next]_vars
    PROVE  TapeInv' /\ \A x, y \in Tape : disk'[x] # disk[x] => disk'[x] > disk[y]
<1>1. CASE UNCHANGED vars
  <2>1. UNCHANGED <<flags, blk, data, queue, disk, writes>>
    BY <1>1 DEF vars, bufVars, ioVars
  <2> QED BY <2>1, TapeSameQueue
<1>2. CASE Interrupt
  BY <1>2, TapeInterrupt
<1>3. ASSUME NEW p \in Procs, NewCall(p) PROVE TapeInv' /\ disk' = disk
  <2>1. UNCHANGED <<flags, blk, data, queue, disk, writes>>
    BY <1>3 DEF NewCall, CallBread, CallBreada, CallGetblk, CallGeteblk, CallBflush, Call,
       bufVars, ioVars
  <2> QED BY <2>1, TapeSameQueue
<1>4. ASSUME NEW p \in Procs, Step(p) PROVE TapeInv' /\ disk' = disk
  <2>1. Quieter(p) \/ (Bwrite(p) \/ Bawrite(p) \/ Bdwrite(p))
    BY <1>4 DEF Step, Quieter
  <2>2. TapeInv'
    BY <2>1, TapeStepQueue, TapeStepAppend, TapeStepWrite
  <2>3. ASSUME Quieter(p) PROVE disk' = disk
    <3>1. CASE \/ GetblkFound(p) \/ GetblkNoneFree(p) \/ GotBuffer(p) \/ ReadAhead(p)
               \/ BreadaEnd(p) \/ IowaitSleep(p) \/ IowaitRead(p) \/ BflushEnd(p)
      BY <3>1 DEF GetblkFound, GetblkNoneFree, GotBuffer, ReadAhead, BreadaEnd, IowaitSleep,
         IowaitRead, BflushEnd, ioVars
    <3>2. CASE GetblkBusy(p) \/ GetblkTake(p) \/ BwriteLoop(p) \/ BawriteEnd(p)
      BY <3>2 DEF GetblkBusy, GetblkTake, BwriteLoop, BawriteEnd, MarkAge, ioVars
    <3>3. CASE GotAheadDone(p) \/ IowaitWrite(p) \/ Release(p)
      BY <3>3 DEF GotAheadDone, IowaitWrite, Release, ioVars
    <3>4. CASE GotToRead(p) \/ GotAheadRead(p) \/ GetblkReassign(p)
      BY <3>4 DEF GotToRead, GotAheadRead, GetblkReassign, ioVars
    <3>5. CASE GetblkClean(p) \/ BflushWrite(p)
      BY <3>5, CleanForm
    <3> QED BY <2>3, <3>1, <3>2, <3>3, <3>4, <3>5 DEF Quieter
  <2>4. disk' = disk
    <3>1. Bwrite(p) => disk' = disk
      BY DEF Bwrite
    <3>2. Bawrite(p) => disk' = disk
      BY DEF Bawrite
    <3>3. DelayedRelease(p) => disk' = disk
      BY DEF DelayedRelease, ioVars
    <3> QED BY <2>1, <2>3, <3>1, <3>2, <3>3 DEF Bdwrite
  <2> QED BY <2>2, <2>4
<1> QED BY <1>1, <1>2, <1>3, <1>4 DEF Next, Finished

\* bio.c:150-154: on a tape, whatever the processes do, read ahead or give up, writes reach
\* the device in the order in which they were requested, errors or not.
THEOREM TapeTheorem == Spec => TapeInOrder
<1>1. Init => TapeInv
  BY DataInvInit
<1>2. BioInv /\ TapeInv /\ [Next]_vars =>
         TapeInv' /\ [\A x, y \in Tape : disk'[x] # disk[x] => disk'[x] > disk[y]]_vars
  BY TapeNext
<1> QED BY <1>1, <1>2, BioInvariant, PTL DEF Spec, TapeInOrder
----------------------------------------------------------------------------
(* Delimiters of a queue *)

TtyChars == Special \cup {"a", "delim", "delay"}

\* The places of a queue that hold a delimiter.
DelimsAt(q) == {i \in DOMAIN q : q[i] = "delim"}

\* They are finitely many.
LEMMA DelimsFinite ==
    ASSUME NEW q \in Seq(TtyChars)
    PROVE  IsFiniteSet(DelimsAt(q)) /\ Delims(q) = Cardinality(DelimsAt(q)) /\ Delims(q) \in Nat
<1>1. DelimsAt(q) \subseteq 1..Len(q) /\ Len(q) \in Nat
  BY DEF DelimsAt
<1>2. IsFiniteSet(1..Len(q))
  BY <1>1, FS_Interval
<1>3. IsFiniteSet(DelimsAt(q))
  BY <1>1, <1>2, FS_Subset
<1>4. Delims(q) = Cardinality(DelimsAt(q))
  BY DEF Delims, DelimsAt
<1> QED BY <1>3, <1>4, FS_CardinalityType

\* An empty queue has none.
LEMMA DelimsEmpty == Delims(<<>>) = 0
<1>1. {i \in DOMAIN <<>> : <<>>[i] = "delim"} = {}
  OBVIOUS
<1> QED BY <1>1, FS_EmptySet DEF Delims

\* A character put at the end of a queue is one more if it is a delimiter.
LEMMA DelimsAppend ==
    ASSUME NEW q \in Seq(TtyChars), NEW c \in TtyChars
    PROVE  Delims(Append(q, c)) = IF c = "delim" THEN Delims(q) + 1 ELSE Delims(q)
<1> DEFINE r == Append(q, c)
<1>1. /\ r \in Seq(TtyChars) /\ DOMAIN r = 1..(Len(q) + 1) /\ DOMAIN q = 1..Len(q)
      /\ r[Len(q) + 1] = c /\ Len(q) \in Nat
      /\ \A i \in 1..Len(q) : r[i] = q[i]
  OBVIOUS
<1> HIDE DEF r
<1>2. Len(q) + 1 \notin DelimsAt(q)
  BY <1>1 DEF DelimsAt
<1>3. DelimsAt(r) = IF c = "delim" THEN DelimsAt(q) \cup {Len(q) + 1} ELSE DelimsAt(q)
  <2>1. \A i : i \in 1..(Len(q) + 1) <=> i \in 1..Len(q) \/ i = Len(q) + 1
    BY <1>1
  <2> QED BY <1>1, <2>1 DEF DelimsAt
<1>4. IsFiniteSet(DelimsAt(q)) /\ Delims(q) = Cardinality(DelimsAt(q)) /\ Delims(q) \in Nat
  BY DelimsFinite
<1>5. Delims(r) = Cardinality(DelimsAt(r))
  BY <1>1, DelimsFinite
<1>6. CASE c = "delim"
  <2>1. Cardinality(DelimsAt(q) \cup {Len(q) + 1}) = Cardinality(DelimsAt(q)) + 1
    BY <1>2, <1>4, FS_AddElement
  <2> QED BY <1>3, <1>4, <1>5, <1>6, <2>1 DEF r
<1>7. CASE c # "delim"
  BY <1>3, <1>4, <1>5, <1>7 DEF r
<1> QED BY <1>6, <1>7

\* Taking a character off the head of a queue takes a delimiter, or leaves them.
LEMMA DelimsTail ==
    ASSUME NEW q \in Seq(TtyChars), q # <<>>
    PROVE  /\ Tail(q) \in Seq(TtyChars) /\ Head(q) \in TtyChars
           /\ Delims(q) = IF Head(q) = "delim" THEN Delims(Tail(q)) + 1 ELSE Delims(Tail(q))
<1> DEFINE r == Tail(q)
<1>1. /\ r \in Seq(TtyChars) /\ Len(q) \in Nat /\ Len(q) > 0
      /\ DOMAIN q = 1..Len(q) /\ DOMAIN r = 1..(Len(q) - 1)
      /\ \A i \in 1..(Len(q) - 1) : r[i] = q[i + 1]
      /\ Head(q) = q[1] /\ q[1] \in TtyChars
  OBVIOUS
<1> HIDE DEF r
<1>2. PICK n : n = Len(q)
  OBVIOUS
<1> DEFINE S == DelimsAt(r)
           T == {i \in DelimsAt(q) : i # 1}
           f == [i \in S |-> i + 1]
<1>3. S \subseteq 1..(n - 1) /\ n \in Nat
  BY <1>1, <1>2 DEF DelimsAt
<1>4. \A i \in S : i + 1 \in T
  BY <1>1, <1>2, <1>3 DEF DelimsAt
<1>5. \A j \in T : j - 1 \in S /\ (j - 1) + 1 = j
  <2>1. SUFFICES ASSUME NEW j \in T PROVE j - 1 \in S /\ (j - 1) + 1 = j
    OBVIOUS
  <2>2. j \in 1..n /\ j # 1 /\ q[j] = "delim"
    BY <1>1, <1>2 DEF DelimsAt
  <2>3. j - 1 \in 1..(n - 1) /\ (j - 1) + 1 = j
    BY <2>2, <1>3
  <2>4. r[j - 1] = "delim"
    BY <1>1, <1>2, <2>2, <2>3
  <2> QED BY <1>1, <1>2, <2>3, <2>4 DEF DelimsAt
<1>6. \A i \in S : i \in Int
  BY <1>3
<1> HIDE DEF S, T
<1>7. f \in Bijection(S, T)
  <2>1. f \in [S -> T] /\ \A i \in S : f[i] = i + 1
    BY <1>4
  <2>2. \A i, j \in S : f[i] = f[j] => i = j
    BY <1>6, <2>1
  <2>3. \A j \in T : \E i \in S : f[i] = j
    BY <1>5, <2>1
  <2> HIDE DEF f
  <2> QED BY <2>1, <2>2, <2>3 DEF Bijection, Injection, Surjection, IsInjective
<1>8. IsFiniteSet(S) /\ Cardinality(S) = Delims(r) /\ Delims(r) \in Nat
  BY <1>1, DelimsFinite DEF S
<1>9. IsFiniteSet(T) /\ Cardinality(T) = Cardinality(S)
  <2>1. ExistsBijection(S, T)
    BY <1>7, Zenon DEF ExistsBijection
  <2> QED BY <1>8, <2>1, FS_Bijection
<1>10. DelimsAt(q) = IF q[1] = "delim" THEN T \cup {1} ELSE T
  BY <1>1, <1>2, <1>3 DEF DelimsAt, T
<1>11. Delims(q) = Cardinality(DelimsAt(q))
  BY DelimsFinite
<1>12. CASE q[1] = "delim"
  <2>1. 1 \notin T
    BY DEF T
  <2>2. Cardinality(T \cup {1}) = Cardinality(T) + 1
    BY <1>9, <2>1, FS_AddElement
  <2> QED BY <1>1, <1>8, <1>9, <1>10, <1>11, <1>12, <2>2 DEF r
<1>13. CASE q[1] # "delim"
  BY <1>1, <1>8, <1>9, <1>10, <1>11, <1>13 DEF r
<1> QED BY <1>12, <1>13

----------------------------------------------------------------------------
(* The terminal *)

TtyStates == {"WOPEN", "ISOPEN", "CARR_ON", "BUSY", "TIMEOUT", "TTSTOP", "TBLOCK", "ASLEEP"}

TtyRecs ==
    [rawq : Seq(TtyChars), canq : Seq(TtyChars), outq : Seq(TtyChars),
     state : SUBSET TtyStates, flags : SUBSET Flags, delct : Int, tcr : BOOLEAN,
     dtr : BOOLEAN, pgrp : BOOLEAN, delays : Nat, wake : SUBSET {"rawq", "outq"},
     stalled : BOOLEAN]

\* What the device is to do it has been told.
DeviceTold(s) ==
    /\ "BUSY" \in s.state => s.tcr
    /\ "TIMEOUT" \in s.state => s.delays > 0

\* There is no output, or it is under way.
Going(s) == s.outq = <<>> \/ s.stalled \/ {"BUSY", "TIMEOUT", "TTSTOP"} \cap s.state # {}

\* Who waits for the output will be woken.
Served(s) ==
    /\ "ASLEEP" \in s.state
    /\ s.stalled \/ (s.outq # <<>> /\ {"BUSY", "TIMEOUT", "TTSTOP"} \cap s.state # {})

\* The terminal goes from s to r, keeping what there is between its parts.
LineStep(s, r) ==
    /\ r.flags = s.flags
    /\ s.wake \subseteq r.wake
    /\ DeviceTold(s) => DeviceTold(r)
    /\ "outq" \in r.wake \/ (Served(s) => Served(r))
    /\ r.delct - Delims(r.rawq) = s.delct - Delims(s.rawq)

\* It does not when nothing is done, and does in two steps when it does in each.
LEMMA LineStepsChain ==
    ASSUME NEW s, NEW r, NEW q
    PROVE  LineStep(s, s) /\ (LineStep(s, r) /\ LineStep(r, q) => LineStep(s, q))
<1>1. LineStep(s, s)
  BY DEF LineStep
<1>2. ASSUME LineStep(s, r), LineStep(r, q) PROVE LineStep(s, q)
  <2>1. /\ q.flags = s.flags /\ s.wake \subseteq q.wake
        /\ q.delct - Delims(q.rawq) = s.delct - Delims(s.rawq)
        /\ DeviceTold(s) => DeviceTold(q)
    BY <1>2 DEF LineStep
  <2>2. "outq" \in q.wake \/ (Served(s) => Served(q))
    BY <1>2 DEF LineStep
  <2> QED BY <2>1, <2>2 DEF LineStep
<1> QED BY <1>1, <1>2

\* A step that leaves the raw queue alone does so when it leaves the device told and who
\* waits served.
LEMMA OutputStep ==
    ASSUME NEW s, NEW r, r.rawq = s.rawq, r.delct = s.delct, r.flags = s.flags,
           s.wake \subseteq r.wake, DeviceTold(s) => DeviceTold(r),
           "outq" \in r.wake \/ (Served(s) => Served(r))
    PROVE  LineStep(s, r)
BY DEF LineStep

\* What Putc puts on a queue.
LEMMA PutcPuts ==
    ASSUME NEW s \in TtyRecs, NEW c \in Seq(TtyChars), NCLIST \in Nat
    PROVE  SubSeq(c, 1, Min({Len(c), NCLIST - Used(s)})) \in Seq(TtyChars)
<1>1. PICK m : m = NCLIST - Used(s)
  OBVIOUS
<1>2. m \in Int
  BY <1>1 DEF Used, TtyRecs
<1>3. PICK n : n = Len(c)
  OBVIOUS
<1>4. n \in Nat /\ \A i \in 1..n : c[i] \in TtyChars
  BY <1>3
<1>5. PICK k : k = Min({n, m})
  OBVIOUS
<1>6. \E x \in {n, m} : \A y \in {n, m} : x <= y
  BY <1>2, <1>4
<1>7. k \in {n, m} /\ \A y \in {n, m} : k <= y
  BY <1>5, <1>6, Zenon DEF Min
<1>8. k \in Int /\ k <= n
  BY <1>2, <1>4, <1>7
<1>9. \A i \in 1..k : c[i] \in TtyChars
  BY <1>4, <1>8
<1>10. SubSeq(c, 1, k) \in Seq(TtyChars)
  BY <1>8, <1>9, SubSeqProperties
<1> QED BY <1>1, <1>3, <1>5, <1>10

\* Output that is put on the queue leaves the rest as it is.
LEMMA PutcOutq ==
    ASSUME NEW s \in TtyRecs, NEW c \in Seq(TtyChars), NCLIST \in Nat
    PROVE  Putc(s, "outq", c) \in TtyRecs /\ LineStep(s, Putc(s, "outq", c))
<1>1. PICK d : d = SubSeq(c, 1, Min({Len(c), NCLIST - Used(s)}))
  OBVIOUS
<1>2. d \in Seq(TtyChars)
  BY <1>1, PutcPuts
<1>3. PICK r : r = [s EXCEPT !.outq = s.outq \o d]
  OBVIOUS
<1>4. Putc(s, "outq", c) = r
  BY <1>1, <1>3 DEF Putc
<1>5. PICK o : o = s.outq \o d
  OBVIOUS
<1>6. o \in Seq(TtyChars) /\ (s.outq # <<>> => o # <<>>)
  <2>1. s.outq \in Seq(TtyChars)
    BY DEF TtyRecs
  <2>2. o \in Seq(TtyChars) /\ Len(o) = Len(s.outq) + Len(d)
    BY <1>2, <1>5, <2>1
  <2>3. s.outq # <<>> => Len(s.outq) > 0
    BY <2>1
  <2> QED BY <1>2, <2>1, <2>2, <2>3
<1>7. /\ r \in TtyRecs /\ r.outq = o /\ r.rawq = s.rawq /\ r.delct = s.delct
      /\ r.flags = s.flags /\ r.wake = s.wake /\ r.state = s.state
      /\ r.delays = s.delays
  BY <1>3, <1>5, <1>6 DEF TtyRecs
<1>8. (r.tcr <=> s.tcr) /\ (r.stalled <=> s.stalled)
  BY <1>3, <1>5, <1>6 DEF TtyRecs
<1>9. DeviceTold(s) => DeviceTold(r)
  BY <1>7, <1>8 DEF DeviceTold
<1>10. Served(s) => Served(r)
  BY <1>6, <1>7, <1>8 DEF Served
<1> QED BY <1>4, <1>7, <1>9, <1>10, OutputStep

\* And so does what is put on the queue of read characters.
LEMMA PutcCanq ==
    ASSUME NEW s \in TtyRecs, NEW c \in Seq(TtyChars), NCLIST \in Nat
    PROVE  /\ Putc(s, "canq", c) \in TtyRecs /\ LineStep(s, Putc(s, "canq", c))
           /\ Going(s) => Going(Putc(s, "canq", c))
<1>1. PICK d : d = SubSeq(c, 1, Min({Len(c), NCLIST - Used(s)}))
  OBVIOUS
<1>2. d \in Seq(TtyChars)
  BY <1>1, PutcPuts
<1>3. PICK r : r = [s EXCEPT !.canq = s.canq \o d]
  OBVIOUS
<1>4. Putc(s, "canq", c) = r
  BY <1>1, <1>3 DEF Putc
<1>6. s.canq \o d \in Seq(TtyChars)
  BY <1>2 DEF TtyRecs
<1>7. /\ r \in TtyRecs /\ r.outq = s.outq /\ r.rawq = s.rawq /\ r.delct = s.delct
      /\ r.flags = s.flags /\ r.wake = s.wake /\ r.state = s.state
      /\ r.delays = s.delays
  BY <1>3, <1>6 DEF TtyRecs
<1>8. (r.tcr <=> s.tcr) /\ (r.stalled <=> s.stalled)
  BY <1>3, <1>6 DEF TtyRecs
<1>9. DeviceTold(s) => DeviceTold(r)
  BY <1>7, <1>8 DEF DeviceTold
<1>10. (Served(s) => Served(r)) /\ (Going(s) => Going(r))
  BY <1>7, <1>8 DEF Served, Going
<1> QED BY <1>4, <1>7, <1>9, <1>10, OutputStep

\* Starting the output: it is under way then, or there is none; who waited for it is served
\* or woken, and the queue is empty only if the output was stalled or had one character.
LEMMA TtstartStarts ==
    ASSUME NEW s \in TtyRecs, TTLOWAT \in Nat
    PROVE  /\ Ttstart(s) \in TtyRecs /\ LineStep(s, Ttstart(s)) /\ Going(Ttstart(s))
           /\ \/ "outq" \in Ttstart(s).wake
              \/ "ASLEEP" \in s.state /\ (s.stalled \/ s.outq # <<>>) => Served(Ttstart(s))
           /\ Ttstart(s).outq = <<>> /\ Going(s) => s.outq = <<>> \/ s.stalled
           /\ Len(s.outq) > 1 => Ttstart(s).outq # <<>>
<1>0. s.outq \in Seq(TtyChars) /\ (s.outq # <<>> => Len(s.outq) > 0)
      /\ (Len(s.outq) > 1 => s.outq # <<>>)
  BY DEF TtyRecs
<1>1. CASE {"TIMEOUT", "TTSTOP", "BUSY"} \cap s.state # {} \/ s.outq = <<>>
  <2>1. Ttstart(s) = s
    BY <1>1 DEF Ttstart
  <2>2. Going(s)
    BY <1>1 DEF Going
  <2>3. "ASLEEP" \in s.state /\ (s.stalled \/ s.outq # <<>>) => Served(s)
    BY <1>1 DEF Served
  <2> QED BY <1>0, <2>1, <2>2, <2>3, LineStepsChain
<1>2. CASE {"TIMEOUT", "TTSTOP", "BUSY"} \cap s.state = {} /\ s.outq # <<>>
  <2>1. PICK x : x = IF IsDelay(s) THEN Delayed(s) ELSE Sent(s)
    OBVIOUS
  <2>2. PICK r : r = RoomMade(x)
    OBVIOUS
  <2>3. Ttstart(s) = r
    BY <1>2, <2>1, <2>2 DEF Ttstart, Fetch
  <2>4. Tail(s.outq) \in Seq(TtyChars) /\ Len(Tail(s.outq)) = Len(s.outq) - 1
    BY <1>0, <1>2
  <2>5. /\ x \in TtyRecs /\ x.outq = Tail(s.outq) /\ x.rawq = s.rawq /\ x.delct = s.delct
        /\ x.flags = s.flags /\ x.wake = s.wake
        /\ {"BUSY", "TIMEOUT"} \cap x.state # {} /\ s.state \subseteq x.state
        /\ "BUSY" \in x.state => x.tcr
        /\ "TIMEOUT" \in x.state => x.delays > 0
    <3>1. CASE IsDelay(s)
      <4>1. x = [s EXCEPT !.outq = Tail(@), !.tcr = FALSE, !.state = @ \cup {"TIMEOUT"},
                          !.delays = @ + 1, !.stalled = FALSE]
        BY <2>1, <3>1 DEF Delayed
      <4>2. PICK n : n = s.delays + 1
        OBVIOUS
      <4>3. n \in Nat /\ n > 0
        BY <4>2 DEF TtyRecs
      <4>4. PICK v : v = s.state \cup {"TIMEOUT"}
        OBVIOUS
      <4>5. /\ v \in SUBSET TtyStates /\ s.state \subseteq v /\ "TIMEOUT" \in v
            /\ "BUSY" \notin v
        BY <1>2, <4>4 DEF TtyRecs, TtyStates
      <4>6. PICK o : o = Tail(s.outq)
        OBVIOUS
      <4>7. o \in Seq(TtyChars)
        BY <2>4, <4>6
      <4>8. x = [s EXCEPT !.outq = o, !.tcr = FALSE, !.state = v, !.delays = n,
                          !.stalled = FALSE]
        BY <4>1, <4>2, <4>4, <4>6, Zenon
      <4>9. /\ x \in TtyRecs /\ x.outq = o /\ x.rawq = s.rawq /\ x.delct = s.delct
            /\ x.flags = s.flags /\ x.wake = s.wake /\ x.state = v /\ x.delays = n
        BY <4>3, <4>5, <4>7, <4>8 DEF TtyRecs
      <4> QED BY <4>3, <4>5, <4>6, <4>9
    <3>2. CASE ~IsDelay(s)
      <4>1. x = [s EXCEPT !.outq = Tail(@), !.tcr = TRUE, !.state = @ \cup {"BUSY"},
                          !.stalled = FALSE]
        BY <2>1, <3>2 DEF Sent
      <4> QED BY <1>2, <2>4, <4>1 DEF TtyRecs, TtyStates
    <3> QED BY <3>1, <3>2
  <2>6. /\ r \in TtyRecs /\ r.outq = x.outq /\ r.rawq = x.rawq /\ r.delct = x.delct
        /\ r.flags = x.flags /\ x.wake \subseteq r.wake /\ r.delays = x.delays
        /\ "outq" \in r.wake \/ ("ASLEEP" \in x.state => "ASLEEP" \in r.state /\ r.outq # <<>>)
        /\ ("BUSY" \in r.state <=> "BUSY" \in x.state)
        /\ ("TIMEOUT" \in r.state <=> "TIMEOUT" \in x.state)
        /\ (r.tcr <=> x.tcr)
    <3>1. CASE Len(x.outq) <= TTLOWAT /\ "ASLEEP" \in x.state
      <4>1. r = [x EXCEPT !.state = @ \ {"ASLEEP"}, !.wake = @ \cup {"outq"}]
        BY <2>2, <3>1 DEF RoomMade
      <4> QED BY <2>5, <4>1 DEF TtyRecs, TtyStates
    <3>2. CASE ~(Len(x.outq) <= TTLOWAT /\ "ASLEEP" \in x.state)
      <4>1. r = x
        BY <2>2, <3>2 DEF RoomMade
      <4>2. "ASLEEP" \in x.state => x.outq # <<>>
        <5>1. Len(<<>>) = 0
          OBVIOUS
        <5> QED BY <3>2, <5>1
      <4> QED BY <2>5, <4>1, <4>2
    <3> QED BY <3>1, <3>2
  <2>7. DeviceTold(r)
    BY <2>5, <2>6 DEF DeviceTold
  <2>8. Going(r)
    BY <2>5, <2>6 DEF Going
  <2>9. "outq" \in r.wake \/ ("ASLEEP" \in s.state => Served(r))
    BY <2>5, <2>6 DEF Served
  <2>10. LineStep(s, r)
    BY <2>5, <2>6, <2>7, <2>9, OutputStep DEF Served
  <2>11. r.outq = <<>> /\ Going(s) => s.outq = <<>> \/ s.stalled
    BY <1>2 DEF Going
  <2>12. Len(s.outq) > 1 => r.outq # <<>>
    <3>1. r.outq = Tail(s.outq) /\ s.outq \in Seq(TtyChars)
      BY <1>2, <2>5, <2>6 DEF TtyRecs
    <3>2. PICK n, m : n = Len(s.outq) /\ m = Len(r.outq)
      OBVIOUS
    <3>3. n \in Nat /\ m = n - 1
      BY <2>4, <3>1, <3>2
    <3>4. n > 1 => m # 0
      BY <3>3
    <3>5. Len(<<>>) = 0
      OBVIOUS
    <3>6. r.outq = <<>> => m = 0
      BY <3>2, <3>5, Zenon
    <3> QED BY <3>2, <3>4, <3>6
  <2> QED BY <2>3, <2>6, <2>8, <2>9, <2>10, <2>11, <2>12
<1> QED BY <1>1, <1>2

\* A change of the other bits of the state, or one that stops the output.
LEMMA StateStep ==
    ASSUME NEW s \in TtyRecs, NEW v \in SUBSET TtyStates,
           {"BUSY", "TIMEOUT"} \cap v \subseteq s.state,
           "ASLEEP" \in s.state => "ASLEEP" \in v,
           {"BUSY", "TIMEOUT", "TTSTOP"} \cap s.state \subseteq v
    PROVE  /\ [s EXCEPT !.state = v] \in TtyRecs /\ LineStep(s, [s EXCEPT !.state = v])
           /\ Going(s) => Going([s EXCEPT !.state = v])
<1>1. PICK r : r = [s EXCEPT !.state = v]
  OBVIOUS
<1>2. /\ r \in TtyRecs /\ r.outq = s.outq /\ r.rawq = s.rawq /\ r.delct = s.delct
      /\ r.flags = s.flags /\ r.wake = s.wake /\ r.state = v /\ r.delays = s.delays
  BY <1>1 DEF TtyRecs
<1>3. (r.tcr <=> s.tcr) /\ (r.stalled <=> s.stalled)
  BY <1>1 DEF TtyRecs
<1>4. DeviceTold(s) => DeviceTold(r)
  BY <1>2, <1>3 DEF DeviceTold
<1>5. (Served(s) => Served(r)) /\ (Going(s) => Going(r))
  BY <1>2, <1>3 DEF Served, Going
<1> QED BY <1>1, <1>2, <1>4, <1>5, OutputStep

\* Output that is let go on is under way, or marked as stalled.
LEMMA LetGoStep ==
    ASSUME NEW s \in TtyRecs
    PROVE  LetGo(s) \in TtyRecs /\ LineStep(s, LetGo(s)) /\ (Going(s) => Going(LetGo(s)))
<1>1. PICK v, b : /\ v = s.state \ {"TTSTOP"} /\ b \in BOOLEAN
                  /\ b <=> s.stalled \/ ("TTSTOP" \in s.state /\ s.outq # <<>> /\ ~Active(s))
  OBVIOUS
<1>2. PICK r : r = [s EXCEPT !.state = v, !.stalled = b]
  OBVIOUS
<1>3. LetGo(s) = r
  <2>1. (s.stalled \/ ("TTSTOP" \in s.state /\ s.outq # <<>> /\ ~Active(s))) = b
    BY <1>1 DEF TtyRecs
  <2> QED BY <1>1, <1>2, <2>1, Zenon DEF LetGo
<1>4. v \in SUBSET TtyStates
  BY <1>1 DEF TtyRecs
<1>5. /\ r \in TtyRecs /\ r.outq = s.outq /\ r.rawq = s.rawq /\ r.delct = s.delct
      /\ r.flags = s.flags /\ r.wake = s.wake /\ r.state = v /\ r.delays = s.delays
  BY <1>1, <1>2, <1>4 DEF TtyRecs
<1>6. (r.tcr <=> s.tcr) /\ (r.stalled <=> b)
  BY <1>1, <1>2, <1>4 DEF TtyRecs
<1>7. DeviceTold(s) => DeviceTold(r)
  BY <1>1, <1>5, <1>6 DEF DeviceTold
<1>8. (Served(s) => Served(r)) /\ (Going(s) => Going(r))
  BY <1>1, <1>5, <1>6 DEF Served, Going, Active
<1> QED BY <1>3, <1>5, <1>7, <1>8, OutputStep

\* The terminal has been flushed on the way from s to r.
Flushed(s, r) ==
    /\ r.flags = s.flags /\ r.wake = {"rawq", "outq"}
    /\ DeviceTold(s) => DeviceTold(r)
    /\ r.rawq = <<>> /\ r.outq = <<>> /\ r.delct = 0

\* flushtty does that.
LEMMA FlushttyFlushes ==
    ASSUME NEW s \in TtyRecs
    PROVE  Flushtty(s) \in TtyRecs /\ Flushed(s, Flushtty(s))
<1>0. PICK e, z : e = <<>> /\ z = 0
  OBVIOUS
<1>9. e \in Seq(TtyChars) /\ z \in Int
  BY <1>0
<1>1. PICK w : w = {"rawq", "outq"}
  OBVIOUS
<1>2. PICK r : r = [s EXCEPT !.canq = e, !.outq = e, !.rawq = e, !.delct = z, !.wake = w,
                             !.stalled = FALSE]
  OBVIOUS
<1>3. Flushtty(s) = r
  BY <1>0, <1>1, <1>2, Zenon DEF Flushtty
<1>4. /\ r \in TtyRecs /\ r.outq = e /\ r.rawq = e /\ r.delct = z
      /\ r.flags = s.flags /\ r.wake = w /\ r.state = s.state /\ r.delays = s.delays
  BY <1>1, <1>2, <1>9 DEF TtyRecs
<1>5. r.tcr <=> s.tcr
  BY <1>1, <1>2, <1>9 DEF TtyRecs
<1>6. DeviceTold(s) => DeviceTold(r)
  BY <1>4, <1>5 DEF DeviceTold
<1> QED BY <1>0, <1>1, <1>3, <1>4, <1>6 DEF Flushed

\* What ttyoutput puts on the queue are characters.
LEMMA TtyoutputStep ==
    ASSUME NEW s \in TtyRecs, NEW c \in TtyChars, NCLIST \in Nat
    PROVE  Ttyoutput(s, c) \in TtyRecs /\ LineStep(s, Ttyoutput(s, c))
<1>1. <<>> \in Seq(TtyChars)
  OBVIOUS
<1>2. <<c>> \in Seq(TtyChars)
  OBVIOUS
<1>3. <<"nl", "delay">> \in Seq(TtyChars)
  BY DEF TtyChars, Special
<1>4. Printed(s, c) \in Seq(TtyChars)
  BY <1>1, <1>2, <1>3, Zenon DEF Printed
<1> QED BY <1>4, PutcOutq DEF Ttyoutput

\* A stop character is put on the queue of output, and the output started.
LEMMA BlockStarts ==
    ASSUME NEW s \in TtyRecs, NCLIST \in Nat, TTLOWAT \in Nat,
           NEW v \in SUBSET TtyStates,
           v \cup {"TBLOCK"} = s.state \cup {"TBLOCK"},
           NEW r, r = Ttstart([Putc(s, "outq", <<"stop">>) EXCEPT !.state = v])
    PROVE  r \in TtyRecs /\ LineStep(s, r) /\ Going(r)
<1>1. <<"stop">> \in Seq(TtyChars)
  BY DEF TtyChars, Special
<1>2. PICK x : x = Putc(s, "outq", <<"stop">>)
  OBVIOUS
<1>3. x \in TtyRecs /\ LineStep(s, x)
  BY <1>1, <1>2, PutcOutq
<1>4. x.state = s.state
  BY <1>2 DEF Putc, TtyRecs
<1>5. PICK y : y = [x EXCEPT !.state = v]
  OBVIOUS
<1>6. y \in TtyRecs /\ LineStep(x, y)
  <2>1. /\ {"BUSY", "TIMEOUT"} \cap v \subseteq x.state
        /\ "ASLEEP" \in x.state => "ASLEEP" \in v
        /\ {"BUSY", "TIMEOUT", "TTSTOP"} \cap x.state \subseteq v
    BY <1>4
  <2> QED BY <1>3, <1>5, <2>1, StateStep
<1>7. r = Ttstart(y)
  BY <1>2, <1>5
<1>8. r \in TtyRecs /\ LineStep(y, r) /\ Going(r)
  BY <1>6, <1>7, TtstartStarts
<1> QED BY <1>3, <1>6, <1>8, LineStepsChain

\* What comes in may block the line, and what is read may unblock it.
LEMMA BlockSteps ==
    ASSUME NEW s \in TtyRecs, NCLIST \in Nat, TTLOWAT \in Nat
    PROVE  /\ Block(s) \in TtyRecs /\ LineStep(s, Block(s)) /\ (Going(s) => Going(Block(s)))
           /\ Unblock(s) \in TtyRecs /\ LineStep(s, Unblock(s))
           /\ Going(s) => Going(Unblock(s))
<1>1. PICK x : x = Putc(s, "outq", <<"stop">>)
  OBVIOUS
<1>2. x.state = s.state /\ s.state \in SUBSET TtyStates
  BY <1>1 DEF Putc, TtyRecs
<1>3. Block(s) \in TtyRecs /\ LineStep(s, Block(s)) /\ (Going(s) => Going(Block(s)))
  <2>1. PICK v : v = s.state \cup {"TBLOCK"}
    OBVIOUS
  <2>2. PICK r : r = Ttstart([Putc(s, "outq", <<"stop">>) EXCEPT !.state = v])
    OBVIOUS
  <2>3. r \in TtyRecs /\ LineStep(s, r) /\ Going(r)
    <3>1. v \in SUBSET TtyStates /\ v \cup {"TBLOCK"} = s.state \cup {"TBLOCK"}
      BY <1>2, <2>1 DEF TtyStates
    <3> QED BY <2>2, <3>1, BlockStarts
  <2>4. Block(s) = r \/ Block(s) = s
    <3>1. [x EXCEPT !.state = @ \cup {"TBLOCK"}] = [x EXCEPT !.state = v]
      BY <1>2, <2>1, Zenon
    <3> QED BY <1>1, <2>2, <3>1, Zenon DEF Block
  <2> QED BY <2>3, <2>4, LineStepsChain
<1>4. Unblock(s) \in TtyRecs /\ LineStep(s, Unblock(s)) /\ (Going(s) => Going(Unblock(s)))
  <2>1. PICK v : v = s.state \ {"TBLOCK"}
    OBVIOUS
  <2>2. PICK r : r = Ttstart([Putc(s, "outq", <<"stop">>) EXCEPT !.state = v])
    OBVIOUS
  <2>3. r \in TtyRecs /\ LineStep(s, r) /\ Going(r)
    <3>1. v \in SUBSET TtyStates /\ v \cup {"TBLOCK"} = s.state \cup {"TBLOCK"}
      BY <1>2, <2>1 DEF TtyStates
    <3> QED BY <2>2, <3>1, BlockStarts
  <2>4. Unblock(s) = r \/ Unblock(s) = s
    <3>1. [x EXCEPT !.state = @ \ {"TBLOCK"}] = [x EXCEPT !.state = v]
      BY <1>2, <2>1, Zenon
    <3> QED BY <1>1, <2>2, <3>1, Zenon DEF Unblock
  <2> QED BY <2>3, <2>4, LineStepsChain
<1> QED BY <1>3, <1>4

\* One character put on the raw queue, when there is room.
LEMMA PutcRawq ==
    ASSUME NEW s \in TtyRecs, NEW c \in TtyChars, NCLIST \in Nat
    PROVE  Putc(s, "rawq", <<c>>) = IF Room(s) THEN [s EXCEPT !.rawq = Append(s.rawq, c)] ELSE s
<1>1. PICK m : m = NCLIST - Used(s)
  OBVIOUS
<1>2. m \in Int /\ (Room(s) <=> m > 0)
  BY <1>1 DEF Room, Used, TtyRecs
<1>3. PICK n : n = Len(<<c>>)
  OBVIOUS
<1>4. n = 1
  BY <1>3
<1>5. PICK k : k = Min({n, m})
  OBVIOUS
<1>6. \E x \in {n, m} : \A y \in {n, m} : x <= y
  BY <1>2, <1>4
<1>7. k \in {n, m} /\ \A y \in {n, m} : k <= y
  BY <1>5, <1>6, Zenon DEF Min
<1>8. k \in Int /\ k <= 1 /\ (Room(s) => k = 1) /\ (~Room(s) => k < 1)
  BY <1>2, <1>4, <1>7
<1>9. PICK d : d = SubSeq(<<c>>, 1, k)
  OBVIOUS
<1>10. Putc(s, "rawq", <<c>>) = [s EXCEPT !.rawq = s.rawq \o d]
  BY <1>1, <1>3, <1>5, <1>9 DEF Putc
<1>11. s.rawq \in Seq(TtyChars)
  BY DEF TtyRecs
<1>12. CASE Room(s)
  <2>1. \A i \in 1..1 : <<c>>[i] \in TtyChars
    OBVIOUS
  <2>2. /\ SubSeq(<<c>>, 1, 1) \in Seq(TtyChars) /\ Len(SubSeq(<<c>>, 1, 1)) = 1
        /\ SubSeq(<<c>>, 1, 1)[1] = c
    BY <2>1, SubSeqProperties
  <2>3. d \in Seq(TtyChars) /\ Len(d) = 1 /\ d[1] = c
    BY <1>8, <1>9, <1>12, <2>2
  <2>4. d = <<c>>
    BY <2>3
  <2>5. s.rawq \o d = Append(s.rawq, c)
    BY <1>11, <2>4
  <2> QED BY <1>10, <1>12, <2>5
<1>13. CASE ~Room(s)
  <2>1. d = <<>>
    BY <1>8, <1>9, <1>13, SubSeqEmpty
  <2>2. s.rawq \o d = s.rawq
    BY <1>11, <2>1, ConcatEmptySeq
  <2>3. [s EXCEPT !.rawq = s.rawq] = s
    BY DEF TtyRecs
  <2> QED BY <1>10, <1>13, <2>2, <2>3
<1> QED BY <1>12, <1>13

\* The raw queue becomes q, d more lines are counted and the queues w are woken.
InputGets(s, q, d, w, r) ==
    /\ q \in Seq(TtyChars) /\ d \in Int /\ w \in SUBSET {"rawq", "outq"}
    /\ s.wake \subseteq w
    /\ Delims(q) = Delims(s.rawq) + d
    /\ r = [s EXCEPT !.rawq = q, !.delct = s.delct + d, !.wake = w]

\* That keeps what there is between the parts of the terminal.
LEMMA InputStep ==
    ASSUME NEW s \in TtyRecs, NEW q, NEW d, NEW w, NEW r, InputGets(s, q, d, w, r)
    PROVE  r \in TtyRecs /\ LineStep(s, r) /\ (Going(s) => Going(r))
<1>0. /\ q \in Seq(TtyChars) /\ d \in Int /\ w \in SUBSET {"rawq", "outq"}
      /\ s.wake \subseteq w
      /\ Delims(q) = Delims(s.rawq) + d
      /\ r = [s EXCEPT !.rawq = q, !.delct = s.delct + d, !.wake = w]
  BY DEF InputGets
<1>1. PICK n : n = s.delct + d
  OBVIOUS
<1>2. n \in Int /\ s.delct \in Int
  BY <1>0, <1>1 DEF TtyRecs
<1>3. r = [s EXCEPT !.rawq = q, !.delct = n, !.wake = w]
  BY <1>0, <1>1
<1>4. /\ r \in TtyRecs /\ r.outq = s.outq /\ r.rawq = q /\ r.delct = n
      /\ r.flags = s.flags /\ r.wake = w /\ r.state = s.state /\ r.delays = s.delays
  BY <1>0, <1>2, <1>3 DEF TtyRecs
<1>5. (r.tcr <=> s.tcr) /\ (r.stalled <=> s.stalled)
  BY <1>0, <1>2, <1>3 DEF TtyRecs
<1>6. DeviceTold(s) => DeviceTold(r)
  BY <1>4, <1>5 DEF DeviceTold
<1>7. (Served(s) => Served(r)) /\ (Going(s) => Going(r))
  BY <1>4, <1>5 DEF Served, Going
<1>8. PICK a, b : a = Delims(s.rawq) /\ b = Delims(q)
  OBVIOUS
<1>9. a \in Nat /\ b \in Nat /\ b = a + d
  BY <1>0, <1>8, DelimsFinite DEF TtyRecs
<1>10. n - b = s.delct - a
  BY <1>0, <1>1, <1>2, <1>9
<1>11. r.delct - Delims(r.rawq) = s.delct - Delims(s.rawq)
  BY <1>4, <1>8, <1>10
<1> QED BY <1>0, <1>4, <1>6, <1>7, <1>11 DEF LineStep

\* A typed character is put on the raw queue, delimited and echoed.
LEMMA EnqueueStep ==
    ASSUME NEW s \in TtyRecs, NEW c \in TtyChars, c # "delim", NCLIST \in Nat, TTLOWAT \in Nat
    PROVE  Enqueue(s, c) \in TtyRecs /\ LineStep(s, Enqueue(s, c)) /\ (Going(s) => Going(Enqueue(s, c)))
<1>0. PICK z : z = 0
  OBVIOUS
<1>1. \A x \in TtyRecs : x.wake \in SUBSET {"rawq", "outq"} /\ x.rawq \in Seq(TtyChars) /\ x.delct \in Int
  BY DEF TtyRecs
<1>2. \A x \in TtyRecs : [x EXCEPT !.rawq = x.rawq, !.delct = x.delct] = x
  BY DEF TtyRecs
<1>3. \A x \in TtyRecs : x.delct + z = x.delct /\ Delims(x.rawq) + z = Delims(x.rawq)
  BY <1>0, <1>1, DelimsFinite
<1>4. PICK p : p = Putc(s, "rawq", <<c>>)
  OBVIOUS
<1>5. p \in TtyRecs /\ LineStep(s, p) /\ (Going(s) => Going(p))
  <2>1. CASE Room(s)
    <3>1. PICK q : q = Append(s.rawq, c)
      OBVIOUS
    <3>2. q \in Seq(TtyChars) /\ Delims(q) = Delims(s.rawq)
      BY <1>1, <3>1, DelimsAppend
    <3>3. p = [s EXCEPT !.rawq = q]
      BY <1>4, <2>1, <3>1, PutcRawq
    <3>4. p = [s EXCEPT !.rawq = q, !.delct = s.delct + z, !.wake = s.wake]
      <4>1. [s EXCEPT !.rawq = q] = [s EXCEPT !.rawq = q, !.delct = s.delct, !.wake = s.wake]
        BY DEF TtyRecs
      <4> QED BY <1>3, <3>3, <4>1
    <3>5. PICK w : w = s.wake
      OBVIOUS
    <3>6. /\ z \in Int /\ w \in SUBSET {"rawq", "outq"}
          /\ s.wake \subseteq w /\ Delims(q) = Delims(s.rawq) + z
      BY <1>0, <1>1, <1>3, <3>2, <3>5
    <3>7. p = [s EXCEPT !.rawq = q, !.delct = s.delct + z, !.wake = w]
      BY <3>4, <3>5
    <3>8. InputGets(s, q, z, w, p)
      BY <3>2, <3>6, <3>7 DEF InputGets
    <3> QED BY <3>8, InputStep
  <2>2. CASE ~Room(s)
    <3>1. p = s
      BY <1>4, <2>2, PutcRawq
    <3> QED BY <3>1, LineStepsChain
  <2> QED BY <2>1, <2>2
<1>6. PICK r : r = Delimit(p, c)
  OBVIOUS
<1>7. r \in TtyRecs /\ LineStep(p, r) /\ (Going(p) => Going(r))
  <2>1. PICK w : w = p.wake \cup {"rawq"}
    OBVIOUS
  <2>2. w \in SUBSET {"rawq", "outq"} /\ p.wake \subseteq w
    BY <1>1, <1>5, <2>1
  <2>3. CASE r = [p EXCEPT !.wake = w]
    <3>1. [p EXCEPT !.wake = w] = [p EXCEPT !.rawq = p.rawq, !.delct = p.delct, !.wake = w]
      BY <1>5 DEF TtyRecs
    <3>2. r = [p EXCEPT !.rawq = p.rawq, !.delct = p.delct + z, !.wake = w]
      BY <1>3, <1>5, <2>3, <3>1
    <3>3. PICK q : q = p.rawq
      OBVIOUS
    <3>4. /\ z \in Int /\ q \in Seq(TtyChars)
          /\ Delims(q) = Delims(p.rawq) + z
      BY <1>0, <1>1, <1>3, <1>5, <3>3
    <3>5. r = [p EXCEPT !.rawq = q, !.delct = p.delct + z, !.wake = w]
      BY <3>2, <3>3
    <3>6. InputGets(p, q, z, w, r)
      BY <2>2, <3>4, <3>5 DEF InputGets
    <3> QED BY <1>5, <3>6, InputStep
  <2>4. CASE r = p
    BY <1>5, <2>4, LineStepsChain
  <2>5. CASE ~Raw(p) /\ Room(p) /\ r = [Putc(p, "rawq", <<"delim">>) EXCEPT !.delct = @ + 1, !.wake = @ \cup {"rawq"}]
    <3>1. PICK q, e : q = Append(p.rawq, "delim") /\ e = 1
      OBVIOUS
    <3>2. q \in Seq(TtyChars) /\ Delims(q) = Delims(p.rawq) + e /\ e \in Int
      <4>1. "delim" \in TtyChars
        BY DEF TtyChars
      <4> QED BY <1>1, <1>5, <3>1, <4>1, DelimsAppend
    <3>3. Putc(p, "rawq", <<"delim">>) = [p EXCEPT !.rawq = q]
      <4>1. "delim" \in TtyChars
        BY DEF TtyChars
      <4> QED BY <1>5, <2>5, <3>1, <4>1, PutcRawq
    <3>4. PICK y : y = [p EXCEPT !.rawq = q]
      OBVIOUS
    <3>5. y.delct = p.delct /\ y.wake = p.wake
      BY <1>5, <3>4 DEF TtyRecs
    <3>6. r = [y EXCEPT !.delct = y.delct + 1, !.wake = y.wake \cup {"rawq"}]
      BY <2>5, <3>3, <3>4, Zenon
    <3>7. r = [p EXCEPT !.rawq = q, !.delct = p.delct + e, !.wake = w]
      BY <2>1, <3>1, <3>4, <3>5, <3>6, Zenon
    <3>8. InputGets(p, q, e, w, r)
      BY <2>2, <2>5, <3>2, <3>7 DEF InputGets
    <3> QED BY <1>5, <3>8, InputStep
  <2>6. \/ r = [p EXCEPT !.wake = w] \/ r = p
        \/ ~Raw(p) /\ Room(p) /\ r = [Putc(p, "rawq", <<"delim">>) EXCEPT !.delct = @ + 1, !.wake = @ \cup {"rawq"}]
    BY <1>6, <2>1, Zenon DEF Delimit
  <2> QED BY <2>3, <2>4, <2>5, <2>6
<1>8. PICK u : u = Echo(r, c)
  OBVIOUS
<1>9. u \in TtyRecs /\ LineStep(r, u) /\ (Going(r) => Going(u))
  <2>1. CASE "ECHO" \notin r.flags
    <3>1. u = r
      BY <1>8, <2>1 DEF Echo
    <3> QED BY <1>7, <3>1, LineStepsChain
  <2>2. CASE "ECHO" \in r.flags
    <3>1. PICK e : e = Ttyoutput(r, c)
      OBVIOUS
    <3>2. e \in TtyRecs /\ LineStep(r, e)
      BY <1>7, <3>1, TtyoutputStep
    <3>3. PICK f : f = Ttyoutput(e, "nl")
      OBVIOUS
    <3>4. f \in TtyRecs /\ LineStep(e, f)
      <4>1. "nl" \in TtyChars
        BY DEF TtyChars, Special
      <4> QED BY <3>2, <3>3, <4>1, TtyoutputStep
    <3>5. u = Ttstart(e) \/ u = Ttstart(f)
      BY <1>8, <2>2, <3>1, <3>3, Zenon DEF Echo
    <3>6. \A x \in TtyRecs : Ttstart(x) \in TtyRecs /\ LineStep(x, Ttstart(x)) /\ Going(Ttstart(x))
      BY TtstartStarts
    <3>7. CASE u = Ttstart(e)
      <4>1. u \in TtyRecs /\ LineStep(e, u) /\ Going(u)
        BY <3>2, <3>6, <3>7
      <4> QED BY <3>2, <4>1, LineStepsChain
    <3>8. CASE u = Ttstart(f)
      <4>1. u \in TtyRecs /\ LineStep(f, u) /\ Going(u)
        BY <3>4, <3>6, <3>8
      <4>2. LineStep(r, f)
        BY <3>2, <3>4, LineStepsChain
      <4> QED BY <4>1, <4>2, LineStepsChain
    <3> QED BY <3>5, <3>7, <3>8
  <2> QED BY <2>1, <2>2
<1>10. Enqueue(s, c) = u
  BY <1>4, <1>6, <1>8 DEF Enqueue
<1>11. LineStep(s, r)
  BY <1>5, <1>7, LineStepsChain
<1>12. LineStep(s, u)
  BY <1>9, <1>11, LineStepsChain
<1> QED BY <1>5, <1>7, <1>9, <1>10, <1>12

\* A typed character is taken in, or flushes the terminal.
LEMMA TtyinputStep ==
    ASSUME NEW s \in TtyRecs, NEW c \in TtyChars, c # "delim", NCLIST \in Nat, TTLOWAT \in Nat
    PROVE  /\ Ttyinput(s, c) \in TtyRecs /\ (Going(s) => Going(Ttyinput(s, c)))
           /\ LineStep(s, Ttyinput(s, c)) \/ Flushed(s, Ttyinput(s, c))
<1>1. PICK b : b = Block(s)
  OBVIOUS
<1>2. b \in TtyRecs /\ LineStep(s, b) /\ (Going(s) => Going(b))
  BY <1>1, BlockSteps
<1>3. PICK g : g = LetGo(b)
  OBVIOUS
<1>4. g \in TtyRecs /\ LineStep(s, g) /\ (Going(s) => Going(g))
  <2>1. g \in TtyRecs /\ LineStep(b, g) /\ (Going(b) => Going(g))
    BY <1>2, <1>3, LetGoStep
  <2> QED BY <1>2, <2>1, LineStepsChain
<1>5. PICK r : r = Ttyinput(s, c)
  OBVIOUS
<1>6. ASSUME NEW x \in TtyRecs, LineStep(s, x), r = Flushtty(x)
      PROVE  r \in TtyRecs /\ Going(r) /\ Flushed(s, r)
  <2>1. r \in TtyRecs /\ Flushed(x, r)
    BY <1>6, FlushttyFlushes
  <2>2. Flushed(s, r)
    BY <1>6, <2>1 DEF Flushed, LineStep
  <2> QED BY <2>1, <2>2 DEF Flushed, Going
<1>7. ASSUME NEW x \in TtyRecs, LineStep(s, x), Going(s) => Going(x), r = Enqueue(x, c)
      PROVE  r \in TtyRecs /\ (Going(s) => Going(r)) /\ LineStep(s, r)
  <2>1. r \in TtyRecs /\ LineStep(x, r) /\ (Going(x) => Going(r))
    BY <1>7, EnqueueStep
  <2> QED BY <1>7, <2>1, LineStepsChain
<1>8. ASSUME r = Ttstart(g) PROVE r \in TtyRecs /\ Going(r) /\ LineStep(s, r)
  <2>1. r \in TtyRecs /\ LineStep(g, r) /\ Going(r)
    BY <1>4, <1>8, TtstartStarts
  <2> QED BY <1>4, <2>1, LineStepsChain
<1>9. ASSUME r = [b EXCEPT !.state = @ \cup {"TTSTOP"}]
      PROVE  r \in TtyRecs /\ (Going(s) => Going(r)) /\ LineStep(s, r)
  <2>1. PICK v : v = b.state \cup {"TTSTOP"}
    OBVIOUS
  <2>2. /\ v \in SUBSET TtyStates /\ {"BUSY", "TIMEOUT"} \cap v \subseteq b.state
        /\ "ASLEEP" \in b.state => "ASLEEP" \in v
        /\ {"BUSY", "TIMEOUT", "TTSTOP"} \cap b.state \subseteq v
    BY <1>2, <2>1 DEF TtyRecs, TtyStates
  <2>3. r = [b EXCEPT !.state = v]
    BY <1>9, <2>1, Zenon
  <2>4. r \in TtyRecs /\ LineStep(b, r) /\ (Going(b) => Going(r))
    BY <1>2, <2>2, <2>3, StateStep
  <2> QED BY <1>2, <2>4, LineStepsChain
<1>10. \/ r = Flushtty(b) \/ r = Flushtty(g) \/ r = Enqueue(b, c) \/ r = Enqueue(g, c)
       \/ r = Ttstart(g) \/ r = [b EXCEPT !.state = @ \cup {"TTSTOP"}]
  BY <1>1, <1>3, <1>5, Zenon DEF Ttyinput
<1> QED BY <1>2, <1>4, <1>5, <1>6, <1>7, <1>8, <1>9, <1>10

----------------------------------------------------------------------------
(* The invariant *)

TtyPlaces ==
    {"user", "open", "opened", "canon", "line", "delct", "end", "passc", "write", "flush",
     "flushed", "leave"}

\* The places where a process sleeps.
Sleeping == {"open", "canon", "write", "flush"}

TtyQueues == {"none", "rawq", "outq"}

Doing(l) == who \in Users /\ at[who] = l

\* One process at most is at a place where it does not sleep, and that one does not sleep.
\* After a flush nobody waits for the output.
TtyProcsOK ==
    /\ who \in Users \cup {Nobody} /\ at \in [Users -> TtyPlaces] /\ left \in [Users -> Nat]
    /\ slept \in [Users -> TtyQueues] /\ canonb \in Seq(TtyChars)
    /\ \A p \in Users : slept[p] # "none" => who # p /\ at[p] \in Sleeping
    /\ \A p \in Users : at[p] \notin Sleeping \cup {"user"} => who = p
    /\ Doing("flushed") => \A x \in Users : slept[x] # "outq"

\* The output is under way except while a process puts characters on the queue, who waits
\* for it is served, and the lines are counted.
TtyLineOK ==
    /\ t \in TtyRecs /\ t.wake = {} /\ slipped \in BOOLEAN
    /\ DeviceTold(t)
    /\ \A p \in Users : slept[p] = "outq" => Served(t)
    /\ Going(t) \/ Doing("write")
    /\ ~slipped => t.delct - Delims(t.rawq) = IF Doing("delct") THEN 1 ELSE 0

TtyInv == TtyProcsOK /\ TtyLineOK

\* The property follows.
LEMMA TtyInvImplies == TtyInv => TtyOK
<1> SUFFICES ASSUME TtyInv PROVE TtyOK
  OBVIOUS
<1>1. LinesCounted
  <2> SUFFICES ASSUME ~slipped
               PROVE  t.delct = Delims(t.rawq) + (IF \E p \in Users : at[p] = "delct" THEN 1 ELSE 0)
    BY DEF LinesCounted
  <2>1. (\E p \in Users : at[p] = "delct") <=> Doing("delct")
    BY DEF TtyInv, TtyProcsOK, Doing, Sleeping
  <2>2. PICK d, n : d = t.delct /\ n = Delims(t.rawq)
    OBVIOUS
  <2>3. d \in Int /\ n \in Int
    BY <2>2, DelimsFinite DEF TtyInv, TtyLineOK, TtyRecs
  <2>4. d - n = IF Doing("delct") THEN 1 ELSE 0
    BY <2>2 DEF TtyInv, TtyLineOK
  <2>5. CASE Doing("delct")
    <3>1. d = n + 1
      BY <2>3, <2>4, <2>5
    <3> QED BY <2>1, <2>2, <2>5, <3>1
  <2>6. CASE ~Doing("delct")
    <3>1. d = n + 0
      BY <2>3, <2>4, <2>6
    <3> QED BY <2>1, <2>2, <2>6, <3>1
  <2> QED BY <2>5, <2>6
<1>2. OutputUnderWay
  BY DEF TtyInv, TtyLineOK, OutputUnderWay, Served, DeviceTold
<1> QED BY <1>1, <1>2 DEF TtyOK

\* A terminal nobody has used.
LEMMA TtyInitOK == TtyAssumption /\ TtyInit => TtyInv
<1> SUFFICES ASSUME TtyAssumption, TtyInit PROVE TtyInv
  OBVIOUS
<1>1. TtyProcsOK
  <2>1. canonb \in Seq(TtyChars)
    BY DEF TtyInit
  <2> QED BY <2>1 DEF TtyInit, Doing, TtyProcsOK, TtyPlaces, TtyQueues, Sleeping, TtyAssumption
<1>2. TtyLineOK
  <2>1. PICK e, z : e = <<>> /\ z = 0
    OBVIOUS
  <2>2. e \in Seq(TtyChars) /\ z \in Int /\ z \in Nat
    BY <2>1
  <2>3. t = [rawq |-> e, canq |-> e, outq |-> e, state |-> {}, flags |-> {},
             delct |-> z, tcr |-> FALSE, dtr |-> FALSE, pgrp |-> FALSE, delays |-> z,
             wake |-> {}, stalled |-> FALSE]
    BY <2>1 DEF TtyInit
  <2>4. /\ t \in TtyRecs /\ t.wake = {} /\ t.state = {} /\ t.flags = {} /\ t.rawq = e
        /\ t.outq = e /\ t.delct = z
    BY <2>2, <2>3 DEF TtyRecs
  <2>5. DeviceTold(t) /\ Going(t)
    BY <2>1, <2>4 DEF DeviceTold, Going
  <2>6. \A p \in Users : slept[p] # "outq"
    BY DEF TtyInit
  <2>7. Delims(t.rawq) = z
    BY <2>1, <2>4, DelimsEmpty
  <2>8. t.delct - Delims(t.rawq) = 0
    BY <2>1, <2>4, <2>7
  <2>9. ~Doing("delct") /\ slipped = FALSE
    BY DEF Doing, TtyInit, TtyAssumption
  <2> QED BY <2>1, <2>4, <2>5, <2>6, <2>7, <2>8, <2>9 DEF TtyLineOK
<1> QED BY <1>1, <1>2 DEF TtyInv

----------------------------------------------------------------------------
(* Its steps *)

\* A wakeup is passed on and forgotten.
LEMMA WakeForgotten ==
    ASSUME NEW s \in TtyRecs, NEW r, r = [s EXCEPT !.wake = {}]
    PROVE  /\ r \in TtyRecs /\ r.wake = {} /\ r.rawq = s.rawq /\ r.delct = s.delct
           /\ r.outq = s.outq /\ r.flags = s.flags /\ r.state = s.state
           /\ DeviceTold(s) => DeviceTold(r)
           /\ Served(s) => Served(r)
           /\ Going(s) => Going(r)
<1>1. PICK e : e = {}
  OBVIOUS
<1>2. e \in SUBSET {"rawq", "outq"} /\ r = [s EXCEPT !.wake = e]
  BY <1>1
<1>3. /\ r \in TtyRecs /\ r.wake = e /\ r.rawq = s.rawq /\ r.delct = s.delct
      /\ r.outq = s.outq /\ r.flags = s.flags /\ r.state = s.state /\ r.delays = s.delays
  BY <1>2 DEF TtyRecs
<1>4. (r.tcr <=> s.tcr) /\ (r.stalled <=> s.stalled)
  BY <1>2 DEF TtyRecs
<1>5. /\ DeviceTold(s) => DeviceTold(r)
      /\ Served(s) => Served(r)
      /\ Going(s) => Going(r)
  BY <1>3, <1>4 DEF DeviceTold, Served, Going
<1> QED BY <1>1, <1>3, <1>5

\* Whom the step wakes no longer sleeps.
LEMMA BecomesWakes ==
    ASSUME TtyProcsOK, NEW s \in TtyRecs, Becomes(s)
    PROVE  /\ t' = [s EXCEPT !.wake = {}]
           /\ slept' \in [Users -> TtyQueues]
           /\ \A x \in Users : slept'[x] = slept[x] \/ slept'[x] = "none"
           /\ \A x \in Users : slept'[x] = "outq" => slept[x] = "outq" /\ "outq" \notin s.wake
BY DEF Becomes, TtyProcsOK, TtyQueues

\* The terminal takes a step, and whom it wakes no longer sleeps.
TerminalGoes(s) ==
    /\ s \in TtyRecs /\ LineStep(t, s) /\ t' = [s EXCEPT !.wake = {}] /\ slipped' \in BOOLEAN
    /\ \A p \in Users : slept'[p] = "outq" => slept[p] = "outq" /\ "outq" \notin s.wake
    /\ Going(s) \/ Doing("write")'
    /\ ~slipped' => ~slipped /\ (Doing("delct")' <=> Doing("delct"))

\* That keeps it in order.
LEMMA TerminalGoesOn ==
    ASSUME TtyLineOK, NEW s, TerminalGoes(s)
    PROVE  TtyLineOK'
<1>1. /\ t' \in TtyRecs /\ t'.wake = {} /\ t'.rawq = s.rawq /\ t'.delct = s.delct
      /\ DeviceTold(s) => DeviceTold(t')
      /\ Served(s) => Served(t')
      /\ Going(s) => Going(t')
  BY WakeForgotten DEF TerminalGoes
<1>2. DeviceTold(t')
  BY <1>1 DEF TerminalGoes, LineStep, TtyLineOK
<1>3. \A p \in Users : slept'[p] = "outq" => Served(t')
  BY <1>1 DEF TerminalGoes, LineStep, TtyLineOK
<1>4. Going(t') \/ Doing("write")'
  BY <1>1 DEF TerminalGoes
<1>6. ~slipped' => t'.delct - Delims(t'.rawq) = IF Doing("delct")' THEN 1 ELSE 0
  <2> SUFFICES ASSUME ~slipped'
               PROVE  t'.delct - Delims(t'.rawq) = IF Doing("delct")' THEN 1 ELSE 0
    OBVIOUS
  <2>1. t'.delct - Delims(t'.rawq) = t.delct - Delims(t.rawq)
    BY <1>1 DEF TerminalGoes, LineStep
  <2>2. t.delct - Delims(t.rawq) = IF Doing("delct") THEN 1 ELSE 0
    BY DEF TerminalGoes, TtyLineOK
  <2>3. Doing("delct")' <=> Doing("delct")
    BY DEF TerminalGoes
  <2>4. CASE Doing("delct")
    BY <2>1, <2>2, <2>3, <2>4
  <2>5. CASE ~Doing("delct")
    BY <2>1, <2>2, <2>3, <2>5
  <2> QED BY <2>4, <2>5
<1>7. slipped' \in BOOLEAN
  BY DEF TerminalGoes
<1> QED BY <1>1, <1>2, <1>3, <1>4, <1>6, <1>7 DEF TtyLineOK

\* A flush does too, unless canon has a delimiter to count.
LEMMA TerminalFlushed ==
    ASSUME t' \in TtyRecs, t'.wake = {}, t'.rawq = <<>>, t'.outq = <<>>, t'.delct = 0,
           DeviceTold(t'), slipped' \in BOOLEAN, \A p \in Users : slept'[p] # "outq",
           ~slipped' => ~Doing("delct")'
    PROVE  TtyLineOK'
<1>1. Delims(t'.rawq) = 0
  BY DelimsEmpty
<1>2. Going(t')
  BY DEF Going
<1>3. t'.delct - Delims(t'.rawq) = 0
  BY <1>1
<1> QED BY <1>2, <1>3 DEF TtyLineOK

\* One process goes to a place l.
ProcessGoes(p, l) ==
    /\ who = p \/ (who = Nobody /\ slept[p] = "none")
    /\ l \in TtyPlaces /\ at' = [at EXCEPT ![p] = l] /\ who' = p
    /\ slept' \in [Users -> TtyQueues]
    /\ \A x \in Users : slept'[x] = slept[x] \/ slept'[x] = "none"
    /\ left' \in [Users -> Nat] /\ canonb' \in Seq(TtyChars)
    /\ l = "flushed" => \A x \in Users : slept'[x] # "outq"

\* The others stay where they are.
LEMMA ProcessGoesOn ==
    ASSUME TtyProcsOK, Nobody \notin Users, NEW p \in Users, NEW l, ProcessGoes(p, l)
    PROVE  /\ TtyProcsOK'
           /\ \A k : (Doing(k)' <=> k = l) /\ (Doing(k) <=> who = p /\ at[p] = k)
<1>1. at' \in [Users -> TtyPlaces] /\ at'[p] = l /\ \A x \in Users : x # p => at'[x] = at[x]
  BY DEF ProcessGoes, TtyProcsOK
<1>2. slept[p] = "none"
  BY DEF ProcessGoes, TtyProcsOK, Sleeping
<1>3. \A x \in Users : slept'[x] # "none" => who' # x /\ at'[x] \in Sleeping
  BY <1>1, <1>2 DEF ProcessGoes, TtyProcsOK
<1>4. \A x \in Users : at'[x] \notin Sleeping \cup {"user"} => who' = x
  BY <1>1 DEF ProcessGoes, TtyProcsOK
<1>5. ASSUME NEW k PROVE (Doing(k)' <=> k = l) /\ (Doing(k) <=> who = p /\ at[p] = k)
  BY <1>1 DEF ProcessGoes, Doing
<1>6. TtyProcsOK'
  <2>1. Doing("flushed")' => \A x \in Users : slept'[x] # "outq"
    BY <1>5 DEF ProcessGoes
  <2> QED BY <1>1, <1>3, <1>4, <2>1 DEF ProcessGoes, TtyProcsOK
<1> QED BY <1>5, <1>6

\* An interrupt lets them all stay.
LEMMA ProcessesStay ==
    ASSUME TtyProcsOK, UNCHANGED <<who, at, left, canonb>>, slept' \in [Users -> TtyQueues],
           \A x \in Users : slept'[x] = slept[x] \/ slept'[x] = "none"
    PROVE  TtyProcsOK' /\ \A k : Doing(k)' <=> Doing(k)
BY DEF TtyProcsOK, Doing

\* p sleeps on q, or leaves for a signal, having woken the queues w.
LEMMA SleepsOrLeaves ==
    ASSUME TtyProcsOK, Nobody \notin Users, NEW p \in Users, who = p, at[p] \in Sleeping,
           NEW q \in {"rawq", "outq"}, NEW w, SleepOrLeave(p, q, w), UNCHANGED <<left, canonb>>
    PROVE  /\ TtyProcsOK'
           /\ ~Doing("write")' /\ ~Doing("delct")' /\ ~Doing("delct")
           /\ \A x \in Users : slept'[x] = "outq" =>
                 (slept[x] = "outq" /\ "outq" \notin w) \/ q = "outq"
<1>1. /\ slept' \in [Users -> TtyQueues]
      /\ \A x \in Users : slept'[x] = IF x = p /\ p \notin sigs THEN q
                                     ELSE IF slept[x] \in w THEN "none" ELSE slept[x]
  BY DEF TtyProcsOK, TtyQueues, SleepOrLeave
<1>2. slept[p] = "none"
  BY DEF TtyProcsOK
<1>3. \A x \in Users : slept'[x] = "outq" => (slept[x] = "outq" /\ "outq" \notin w) \/ q = "outq"
  BY <1>1
<1>4. CASE p \in sigs
  <2>1. at' = [at EXCEPT ![p] = "leave"] /\ who' = p
    BY <1>4 DEF SleepOrLeave
  <2>2. \A x \in Users : slept'[x] = slept[x] \/ slept'[x] = "none"
    BY <1>1, <1>4
  <2>3. ProcessGoes(p, "leave")
    BY <1>1, <2>1, <2>2 DEF ProcessGoes, TtyProcsOK, TtyPlaces
  <2>4. TtyProcsOK' /\ ~Doing("write")' /\ ~Doing("delct")' /\ ~Doing("delct")
    <3>1. "delct" \notin Sleeping
      BY DEF Sleeping
    <3> QED BY <2>3, <3>1, ProcessGoesOn
  <2> QED BY <1>3, <2>4
<1>5. CASE p \notin sigs
  <2>1. at' = at /\ who' = Nobody
    BY <1>5 DEF SleepOrLeave
  <2>3. \A x \in Users : slept'[x] # "none" => who' # x /\ at'[x] \in Sleeping
    BY <1>1, <2>1 DEF TtyProcsOK
  <2>4. \A x \in Users : at'[x] \notin Sleeping \cup {"user"} => who' = x
    BY <2>1 DEF TtyProcsOK
  <2>5. TtyProcsOK'
    BY <1>1, <2>1, <2>3, <2>4 DEF TtyProcsOK, Doing
  <2>6. ~Doing("write")' /\ ~Doing("delct")' /\ ~Doing("delct")
    BY <2>1 DEF Doing, Sleeping
  <2> QED BY <1>3, <2>5, <2>6
<1> QED BY <1>4, <1>5

\* A step that leaves the terminal alone.
LEMMA TerminalStays ==
    ASSUME TtyLineOK, UNCHANGED <<t, slipped>>,
           \A p \in Users : slept'[p] = "outq" => slept[p] = "outq",
           Going(t) \/ Doing("write")', Doing("delct")' <=> Doing("delct")
    PROVE  TtyLineOK'
<1>1. t' = t /\ slipped' = slipped
  OBVIOUS
<1> QED BY <1>1 DEF TtyLineOK

\* What the assumption says of the numbers.
LEMMA TtyNumbers ==
    ASSUME TtyAssumption
    PROVE  /\ NCLIST \in Nat /\ TTLOWAT \in Nat /\ TTIME \in Nat /\ TTIME > 0 /\ CANBSIZ \in Nat
           /\ MaxWrite \in Nat /\ Nobody \notin Users /\ \A c \in Typed : c \in TtyChars /\ c # "delim"
BY DEF TtyAssumption, TtyChars, Special

\* A call begins when no other is in the kernel.
LEMMA CallBegins ==
    ASSUME TtyAssumption, TtyInv, NEW p \in Users, NEW c, NEW l \in TtyPlaces, l \notin {"delct", "flushed"},
           Begin(p, c, l), left' \in [Users -> Nat], slept' \in [Users -> TtyQueues],
           \A x \in Users : slept'[x] = slept[x] \/ slept'[x] = "none"
    PROVE  TtyProcsOK' /\ ~Doing("delct")' /\ ~Doing("delct") /\ Going(t)
<1>1. /\ who = Nobody /\ at[p] = "user" /\ who' = p /\ at' = [at EXCEPT ![p] = l]
      /\ canonb' = canonb
  BY DEF Begin
<1>2. slept[p] = "none"
  BY <1>1 DEF TtyInv, TtyProcsOK, Sleeping
<1>3. ProcessGoes(p, l)
  BY <1>1, <1>2 DEF ProcessGoes, TtyInv, TtyProcsOK
<1>4. TtyProcsOK' /\ ~Doing("delct")'
  BY <1>3, ProcessGoesOn, TtyNumbers DEF TtyInv
<1>5. ~Doing("delct") /\ Going(t)
  BY <1>1, TtyNumbers DEF Doing, TtyInv, TtyLineOK
<1> QED BY <1>4, <1>5

\* Calls that begin by looking at the terminal.
LEMMA LookingKeeps ==
    ASSUME TtyAssumption, TtyInv, NEW p \in Users,
           BeginRead(p) \/ BeginWrite(p) \/ BeginSetp(p)
    PROVE  TtyInv'
<1>1. t' = t /\ slept' = slept /\ slipped' = slipped
  BY DEF BeginRead, BeginWrite, BeginSetp
<1>2. slept' \in [Users -> TtyQueues]
  BY <1>1 DEF TtyInv, TtyProcsOK
<1>3. PICK c, l : Begin(p, c, l) /\ l \in TtyPlaces /\ l \notin {"delct", "flushed"}
  <2>1. CASE BeginRead(p)
    <3>1. PICK l : l = IF "CARR_ON" \notin t.state THEN "leave"
                       ELSE IF t.canq # <<>> THEN "passc" ELSE "canon"
      OBVIOUS
    <3>2. l \in TtyPlaces /\ l \notin {"delct", "flushed"}
      BY <3>1 DEF TtyPlaces
    <3>3. Begin(p, "read", l)
      BY <2>1, <3>1 DEF BeginRead
    <3> QED BY <3>2, <3>3
  <2>2. CASE BeginWrite(p)
    <3>1. PICK l : l = IF "CARR_ON" \in t.state THEN "write" ELSE "leave"
      OBVIOUS
    <3>2. l \in TtyPlaces /\ l \notin {"delct", "flushed"}
      BY <3>1 DEF TtyPlaces
    <3>3. Begin(p, "write", l)
      BY <2>2, <3>1 DEF BeginWrite
    <3> QED BY <3>2, <3>3
  <2>3. CASE BeginSetp(p)
    <3>1. Begin(p, "setp", "flush") /\ "flush" \in TtyPlaces
      BY <2>3 DEF BeginSetp, TtyPlaces
    <3> QED BY <3>1
  <2> QED BY <2>1, <2>2, <2>3
<1>4. left' \in [Users -> Nat]
  <2>1. left \in [Users -> Nat]
    BY DEF TtyInv, TtyProcsOK
  <2>2. CASE BeginRead(p)
    <3>1. PICK n \in {1, CANBSIZ} : left' = [left EXCEPT ![p] = n]
      BY <2>2 DEF BeginRead
    <3>2. n \in Nat
      BY TtyNumbers
    <3> QED BY <2>1, <3>1, <3>2
  <2>3. CASE BeginWrite(p)
    <3>1. PICK n \in 1..MaxWrite : left' = [left EXCEPT ![p] = n]
      BY <2>3 DEF BeginWrite
    <3>2. n \in Nat
      BY TtyNumbers
    <3> QED BY <2>1, <3>1, <3>2
  <2>4. CASE BeginSetp(p)
    BY <2>1, <2>4 DEF BeginSetp
  <2> QED BY <2>2, <2>3, <2>4
<1>5. TtyProcsOK' /\ ~Doing("delct")' /\ ~Doing("delct") /\ Going(t)
  <2>1. \A x \in Users : slept'[x] = slept[x] \/ slept'[x] = "none"
    BY <1>1
  <2> QED BY <1>2, <1>3, <1>4, <2>1, CallBegins
<1>6. TtyLineOK'
  <2>1. \A x \in Users : slept'[x] = "outq" => slept[x] = "outq"
    BY <1>1
  <2> QED BY <1>1, <1>5, <2>1, TerminalStays DEF TtyInv
<1> QED BY <1>5, <1>6 DEF TtyInv

\* dzopen.
LEMMA BeginOpenKeeps ==
    ASSUME TtyAssumption, TtyInv, NEW p \in Users, BeginOpen(p)
    PROVE  TtyInv'
<1>1. Begin(p, "open", "open") /\ left' = left /\ slept' = slept /\ slipped' = slipped
  BY DEF BeginOpen
<1>2. TtyProcsOK' /\ ~Doing("delct")' /\ ~Doing("delct") /\ Going(t)
  <2>1. /\ left' \in [Users -> Nat] /\ slept' \in [Users -> TtyQueues] /\ "open" \in TtyPlaces
        /\ \A x \in Users : slept'[x] = slept[x] \/ slept'[x] = "none"
    BY <1>1 DEF TtyInv, TtyProcsOK, TtyPlaces
  <2> QED BY <1>1, <2>1, CallBegins
<1>3. t \in TtyRecs /\ TtyLineOK
  BY DEF TtyInv, TtyLineOK
<1>4. PICK v, f : /\ v = t.state \cup {"WOPEN"}
                  /\ f = IF "ISOPEN" \in t.state THEN t.flags ELSE {"ECHO", "HUPCLS"}
  OBVIOUS
<1>5. v \in SUBSET TtyStates /\ f \in SUBSET Flags
  BY <1>3, <1>4 DEF TtyRecs, TtyStates, Flags
<1>6. t' = [t EXCEPT !.state = v, !.dtr = TRUE, !.flags = f]
  BY <1>4 DEF BeginOpen
<1>7. /\ t' \in TtyRecs /\ t'.outq = t.outq /\ t'.rawq = t.rawq /\ t'.delct = t.delct
      /\ t'.flags = f /\ t'.wake = t.wake /\ t'.state = v /\ t'.delays = t.delays
  BY <1>3, <1>5, <1>6 DEF TtyRecs
<1>8. (t'.tcr <=> t.tcr) /\ (t'.stalled <=> t.stalled)
  BY <1>3, <1>5, <1>6 DEF TtyRecs
<1>9. DeviceTold(t') /\ Going(t') /\ (Served(t) => Served(t'))
  <2>1. DeviceTold(t)
    BY <1>3 DEF TtyLineOK
  <2> QED BY <1>2, <1>4, <1>7, <1>8, <2>1 DEF DeviceTold, Going, Served
<1> QED BY <1>1, <1>2, <1>3, <1>7, <1>9 DEF TtyInv, TtyLineOK

\* ttyclose.
LEMMA BeginCloseKeeps ==
    ASSUME TtyAssumption, TtyInv, NEW p \in Users, BeginClose(p)
    PROVE  TtyInv'
<1>1. PICK l : l \in TtyPlaces /\ l \notin {"delct", "flushed"} /\ Begin(p, "close", l)
  <2>1. "flush" \in TtyPlaces /\ "leave" \in TtyPlaces
    BY DEF TtyPlaces
  <2>2. \E l \in {"flush", "leave"} : Begin(p, "close", l)
    BY Zenon DEF BeginClose
  <2> QED BY <2>1, <2>2
<1>2. left' = left /\ slept' = slept /\ slipped' = slipped
  BY DEF BeginClose
<1>3. TtyProcsOK' /\ ~Doing("delct")' /\ ~Doing("delct") /\ Going(t)
  <2>1. /\ left' \in [Users -> Nat] /\ slept' \in [Users -> TtyQueues]
        /\ \A x \in Users : slept'[x] = slept[x] \/ slept'[x] = "none"
    BY <1>2 DEF TtyInv, TtyProcsOK
  <2> QED BY <1>1, <2>1, CallBegins
<1>4. t \in TtyRecs /\ TtyLineOK
  BY DEF TtyInv, TtyLineOK
<1>5. PICK b \in BOOLEAN, d \in BOOLEAN : t' = [t EXCEPT !.pgrp = b, !.dtr = d]
  <2>1. /\ (t.pgrp /\ opens # {p}) \in BOOLEAN
        /\ (t.dtr /\ ~(opens = {p} /\ "HUPCLS" \in t.flags)) \in BOOLEAN
    OBVIOUS
  <2>2. t' = [t EXCEPT !.pgrp = (t.pgrp /\ opens # {p}),
                       !.dtr = (t.dtr /\ ~(opens = {p} /\ "HUPCLS" \in t.flags))]
    BY DEF BeginClose
  <2> QED BY <2>1, <2>2
<1>6. /\ t' \in TtyRecs /\ t'.outq = t.outq /\ t'.rawq = t.rawq /\ t'.delct = t.delct
      /\ t'.flags = t.flags /\ t'.wake = t.wake /\ t'.state = t.state /\ t'.delays = t.delays
  BY <1>4, <1>5 DEF TtyRecs
<1>7. (t'.tcr <=> t.tcr) /\ (t'.stalled <=> t.stalled)
  BY <1>4, <1>5 DEF TtyRecs
<1>8. DeviceTold(t') /\ Going(t') /\ (Served(t) => Served(t'))
  <2>1. DeviceTold(t)
    BY <1>4 DEF TtyLineOK
  <2> QED BY <1>3, <1>6, <1>7, <2>1 DEF DeviceTold, Going, Served
<1> QED BY <1>2, <1>3, <1>4, <1>6, <1>8 DEF TtyInv, TtyLineOK

\* The modes f are set.
ModesSet(s, f, r) == s \in TtyRecs /\ f \in SUBSET Flags /\ r = [s EXCEPT !.flags = f]

\* The output stays as it is.
LEMMA ModesKeep ==
    ASSUME NEW s, NEW f, NEW r, ModesSet(s, f, r)
    PROVE  /\ r \in TtyRecs /\ r.wake = s.wake /\ r.rawq = s.rawq /\ r.delct = s.delct
           /\ r.outq = s.outq /\ r.flags = f
           /\ DeviceTold(s) => DeviceTold(r)
           /\ Served(s) => Served(r)
           /\ Going(s) => Going(r)
<1>1. /\ r \in TtyRecs /\ r.wake = s.wake /\ r.rawq = s.rawq /\ r.delct = s.delct
      /\ r.outq = s.outq /\ r.flags = f /\ r.state = s.state /\ r.delays = s.delays
  BY DEF TtyRecs, ModesSet
<1>2. (r.tcr <=> s.tcr) /\ (r.stalled <=> s.stalled)
  BY DEF TtyRecs, ModesSet
<1>3. /\ DeviceTold(s) => DeviceTold(r)
      /\ Served(s) => Served(r)
      /\ Going(s) => Going(r)
  BY <1>1, <1>2 DEF DeviceTold, Served, Going
<1> QED BY <1>1, <1>3

\* Setting the modes leaves the terminal in order, whatever is in its queues.
LEMMA SetModesKeeps ==
    ASSUME TtyAssumption, TtyLineOK, SetModes, slipped' = slipped, Going(t),
           \A x \in Users : slept'[x] = "outq" => slept[x] = "outq",
           ~Doing("delct"), ~Doing("delct")'
    PROVE  TtyLineOK'
<1>1. PICK f \in Modes : t' = [t EXCEPT !.flags = f]
  BY DEF SetModes
<1>2. f \in SUBSET Flags /\ t \in TtyRecs
  BY DEF TtyAssumption, TtyLineOK
<1>3. /\ t' \in TtyRecs /\ t'.wake = t.wake /\ t'.rawq = t.rawq /\ t'.delct = t.delct
      /\ t'.outq = t.outq
      /\ DeviceTold(t) => DeviceTold(t')
      /\ Served(t) => Served(t')
      /\ Going(t) => Going(t')
  <2>1. PICK r : r = t'
    OBVIOUS
  <2>2. ModesSet(t, f, r)
    BY <1>1, <1>2, <2>1 DEF ModesSet
  <2>3. /\ r \in TtyRecs /\ r.wake = t.wake /\ r.rawq = t.rawq /\ r.delct = t.delct
        /\ r.outq = t.outq
        /\ DeviceTold(t) => DeviceTold(r)
        /\ Served(t) => Served(r)
        /\ Going(t) => Going(r)
    BY <2>2, ModesKeep
  <2> QED BY <2>1, <2>3
<1> QED BY <1>3 DEF TtyLineOK

\* TIOCSETN.
LEMMA SetnKeeps ==
    ASSUME TtyAssumption, TtyInv, NEW p \in Users, Setn(p)
    PROVE  TtyInv'
<1>1. Begin(p, "setn", "leave") /\ left' = left /\ slept' = slept /\ SetModes /\ slipped' = slipped
  BY DEF Setn
<1>2. TtyProcsOK' /\ ~Doing("delct")' /\ ~Doing("delct") /\ Going(t)
  <2>1. /\ left' \in [Users -> Nat] /\ slept' \in [Users -> TtyQueues] /\ "leave" \in TtyPlaces
        /\ \A x \in Users : slept'[x] = slept[x] \/ slept'[x] = "none"
    BY <1>1 DEF TtyInv, TtyProcsOK, TtyPlaces
  <2> QED BY <1>1, <2>1, CallBegins
<1>3. TtyLineOK'
  <2>1. \A x \in Users : slept'[x] = "outq" => slept[x] = "outq"
    BY <1>1
  <2> QED BY <1>1, <1>2, <2>1, SetModesKeeps DEF TtyInv
<1> QED BY <1>2, <1>3 DEF TtyInv

\* s with a bit of its state less, for which the output is started.
Restarted(s, x) ==
    /\ x \in TtyRecs /\ x.outq = s.outq /\ x.rawq = s.rawq /\ x.delct = s.delct
    /\ x.flags = s.flags /\ x.wake = s.wake
    /\ "ASLEEP" \in s.state => "ASLEEP" \in x.state
    /\ s.stalled => x.stalled
    /\ DeviceTold(s) => DeviceTold(x)

\* Who waits is served again by the start.
LEMMA RestartStep ==
    ASSUME NEW s, NEW x, Restarted(s, x), TTLOWAT \in Nat
    PROVE  Ttstart(x) \in TtyRecs /\ LineStep(s, Ttstart(x)) /\ Going(Ttstart(x))
<1>1. PICK r : r = Ttstart(x)
  OBVIOUS
<1>2. /\ r \in TtyRecs /\ LineStep(x, r) /\ Going(r)
      /\ \/ "outq" \in r.wake
         \/ "ASLEEP" \in x.state /\ (x.stalled \/ x.outq # <<>>) => Served(r)
  <2>1. x \in TtyRecs
    BY DEF Restarted
  <2> QED BY <1>1, <2>1, TtstartStarts
<1>3. "outq" \in r.wake \/ (Served(s) => Served(r))
  BY <1>2 DEF Served, Restarted
<1>4. LineStep(s, r)
  <2>2. /\ r.flags = x.flags /\ x.wake \subseteq r.wake /\ (DeviceTold(x) => DeviceTold(r))
        /\ r.delct - Delims(r.rawq) = x.delct - Delims(x.rawq)
    BY <1>2 DEF LineStep
  <2>3. /\ r.flags = s.flags /\ s.wake \subseteq r.wake /\ (DeviceTold(s) => DeviceTold(r))
        /\ r.delct - Delims(r.rawq) = s.delct - Delims(s.rawq)
    BY <2>2 DEF Restarted
  <2> QED BY <1>3, <2>2, <2>3 DEF LineStep
<1> QED BY <1>1, <1>2, <1>4

\* TIOCTSTP.
LEMMA TstpKeeps ==
    ASSUME TtyAssumption, TtyInv, NEW p \in Users, Tstp(p)
    PROVE  TtyInv'
<1>1. PICK s : s = IF "TTSTOP" \in t.state THEN Ttstart([t EXCEPT !.state = @ \ {"TTSTOP"}])
                   ELSE [t EXCEPT !.state = @ \cup {"TTSTOP"}]
  OBVIOUS
<1>2. Begin(p, "tstp", "leave") /\ Becomes(s) /\ left' = left /\ slipped' = slipped
  BY <1>1 DEF Tstp
<1>3. t \in TtyRecs /\ TtyLineOK /\ TtyProcsOK
  BY DEF TtyInv, TtyLineOK
<1>4. s \in TtyRecs /\ LineStep(t, s) /\ (Going(t) => Going(s))
  <2>1. CASE "TTSTOP" \in t.state
    <3>1. PICK v : v = t.state \ {"TTSTOP"}
      OBVIOUS
    <3>2. v \in SUBSET TtyStates
      BY <1>3, <3>1 DEF TtyRecs
    <3>3. PICK x : x = [t EXCEPT !.state = v]
      OBVIOUS
    <3>4. /\ x \in TtyRecs /\ x.outq = t.outq /\ x.rawq = t.rawq /\ x.delct = t.delct
          /\ x.flags = t.flags /\ x.wake = t.wake /\ x.state = v /\ x.delays = t.delays
      BY <1>3, <3>2, <3>3 DEF TtyRecs
    <3>5. (x.tcr <=> t.tcr) /\ (x.stalled <=> t.stalled)
      BY <1>3, <3>2, <3>3 DEF TtyRecs
    <3>6. s = Ttstart(x)
      <4>1. [t EXCEPT !.state = @ \ {"TTSTOP"}] = x
        BY <3>1, <3>3, Zenon
      <4> QED BY <1>1, <2>1, <4>1
    <3>7. Restarted(t, x)
      <4>1. DeviceTold(t) => DeviceTold(x)
        BY <3>1, <3>4, <3>5 DEF DeviceTold
      <4> QED BY <3>1, <3>4, <3>5, <4>1 DEF Restarted
    <3> QED BY <3>6, <3>7, RestartStep, TtyNumbers
  <2>2. CASE "TTSTOP" \notin t.state
    <3>1. PICK v : v = t.state \cup {"TTSTOP"}
      OBVIOUS
    <3>2. /\ v \in SUBSET TtyStates /\ {"BUSY", "TIMEOUT"} \cap v \subseteq t.state
          /\ "ASLEEP" \in t.state => "ASLEEP" \in v
          /\ {"BUSY", "TIMEOUT", "TTSTOP"} \cap t.state \subseteq v
      BY <1>3, <3>1 DEF TtyRecs, TtyStates
    <3>3. s = [t EXCEPT !.state = v]
      BY <1>1, <2>2, <3>1
    <3> QED BY <1>3, <3>2, <3>3, StateStep
  <2> QED BY <2>1, <2>2
<1>5. /\ t' = [s EXCEPT !.wake = {}]
      /\ slept' \in [Users -> TtyQueues]
      /\ \A x \in Users : slept'[x] = slept[x] \/ slept'[x] = "none"
      /\ \A x \in Users : slept'[x] = "outq" => slept[x] = "outq" /\ "outq" \notin s.wake
  BY <1>2, <1>3, <1>4, BecomesWakes
<1>6. TtyProcsOK' /\ ~Doing("delct")' /\ ~Doing("delct") /\ Going(t)
  <2>1. left' \in [Users -> Nat] /\ "leave" \in TtyPlaces
    BY <1>2, <1>3 DEF TtyProcsOK, TtyPlaces
  <2> QED BY <1>2, <1>5, <2>1, CallBegins
<1>7. TerminalGoes(s)
  BY <1>2, <1>3, <1>4, <1>5, <1>6 DEF TerminalGoes, TtyLineOK
<1> QED BY <1>3, <1>6, <1>7, TerminalGoesOn DEF TtyInv

\* Going on after a sleep.
LEMMA ResumeKeeps ==
    ASSUME TtyAssumption, TtyInv, NEW p \in Users, Resume(p)
    PROVE  TtyInv'
<1>1. TtyProcsOK /\ TtyLineOK /\ Nobody \notin Users
  BY TtyNumbers DEF TtyInv
<1>2. /\ who = Nobody /\ at[p] # "user" /\ slept[p] = "none" /\ who' = p
      /\ t' = t /\ slept' = slept /\ left' = left /\ canonb' = canonb /\ slipped' = slipped
  BY DEF Resume
<1>3. PICK l : l \in {"leave", at[p]} /\ at' = [at EXCEPT ![p] = l]
  <2>1. [at EXCEPT ![p] = at[p]] = at
    BY <1>1 DEF TtyProcsOK
  <2>2. at' = [at EXCEPT ![p] = "leave"] \/ at' = [at EXCEPT ![p] = at[p]]
    BY <2>1 DEF Resume
  <2> QED BY <2>2
<1>4. l \in TtyPlaces /\ l \notin {"delct", "flushed"}
  BY <1>1, <1>2, <1>3 DEF TtyProcsOK, TtyPlaces, Sleeping
<1>5. ProcessGoes(p, l)
  BY <1>1, <1>2, <1>3, <1>4 DEF ProcessGoes, TtyProcsOK
<1>6. TtyProcsOK' /\ ~Doing("delct")'
  BY <1>1, <1>4, <1>5, ProcessGoesOn
<1>7. ~Doing("delct") /\ Going(t)
  BY <1>1, <1>2 DEF Doing, TtyLineOK
<1>8. TtyLineOK'
  <2>1. \A x \in Users : slept'[x] = "outq" => slept[x] = "outq"
    BY <1>2
  <2> QED BY <1>1, <1>2, <1>6, <1>7, <2>1, TerminalStays
<1> QED BY <1>6, <1>8 DEF TtyInv

\* The end of a call.
LEMMA ReturnKeeps ==
    ASSUME TtyAssumption, TtyInv, NEW p \in Users, TtyReturn(p)
    PROVE  TtyInv'
<1>1. TtyProcsOK /\ TtyLineOK /\ Nobody \notin Users
  BY TtyNumbers DEF TtyInv
<1>2. /\ who = p /\ at[p] = "leave" /\ who' = Nobody /\ at' = [at EXCEPT ![p] = "user"]
      /\ left' = [left EXCEPT ![p] = 0]
      /\ t' = t /\ slept' = slept /\ canonb' = canonb /\ slipped' = slipped
  BY DEF TtyReturn
<1>3. left' \in [Users -> Nat]
  <2>1. \A n \in Nat : [left EXCEPT ![p] = n] \in [Users -> Nat]
    BY <1>1 DEF TtyProcsOK
  <2> QED BY <1>2, <2>1
<1>4. at' \in [Users -> TtyPlaces] /\ at'[p] = "user" /\ \A x \in Users : x # p => at'[x] = at[x]
  BY <1>1, <1>2 DEF TtyProcsOK, TtyPlaces
<1>5. \A x \in Users : slept'[x] # "none" => who' # x /\ at'[x] \in Sleeping
  BY <1>1, <1>2, <1>4 DEF TtyProcsOK
<1>6. \A x \in Users : at'[x] \notin Sleeping \cup {"user"} => who' = x
  BY <1>1, <1>2, <1>4 DEF TtyProcsOK
<1>7. TtyProcsOK'
  BY <1>1, <1>2, <1>3, <1>4, <1>5, <1>6 DEF TtyProcsOK, Doing
<1>8. ~Doing("delct")' /\ ~Doing("delct") /\ Going(t)
  BY <1>1, <1>2 DEF Doing, TtyLineOK
<1>9. TtyLineOK'
  <2>1. \A x \in Users : slept'[x] = "outq" => slept[x] = "outq"
    BY <1>2
  <2> QED BY <1>1, <1>2, <1>8, <2>1, TerminalStays
<1> QED BY <1>7, <1>9 DEF TtyInv

\* p, which is in the kernel, goes to l, or stays.
KernelGoes(p, l) ==
    /\ who = p /\ who' = p /\ l \in TtyPlaces
    /\ at' = [at EXCEPT ![p] = l] \/ (at' = at /\ l = at[p])
    /\ left' = left \/ left' \in [Users -> Nat]
    /\ canonb' = canonb \/ canonb' \in Seq(TtyChars)
    /\ slept' = slept \/ slept' \in [Users -> TtyQueues]
    /\ \A x \in Users : slept'[x] = slept[x] \/ slept'[x] = "none"
    /\ l = "flushed" => \A x \in Users : slept'[x] # "outq"

\* The others stay where they are.
LEMMA KernelGoesOn ==
    ASSUME TtyAssumption, TtyInv, NEW p \in Users, NEW l, KernelGoes(p, l)
    PROVE  TtyProcsOK' /\ \A k : (Doing(k)' <=> k = l) /\ (Doing(k) <=> at[p] = k)
<1>1. TtyProcsOK
  BY DEF TtyInv
<1>2. [at EXCEPT ![p] = at[p]] = at
  BY <1>1 DEF TtyProcsOK
<1>3. ProcessGoes(p, l)
  BY <1>1, <1>2 DEF KernelGoes, ProcessGoes, TtyProcsOK
<1>4. who = p
  BY DEF KernelGoes
<1> QED BY <1>1, <1>3, <1>4, ProcessGoesOn, TtyNumbers

\* Steps of canon that only look.
LEMMA CanonLooks ==
    ASSUME TtyAssumption, TtyInv, NEW p \in Users, CanonHangup(p) \/ CanonStart(p)
    PROVE  TtyInv'
<1>1. PICK l \in {"leave", "line"} : GoesTo(p, l)
  BY DEF CanonHangup, CanonStart
<1>2. /\ who = p /\ at[p] = "canon" /\ t' = t /\ slipped' = slipped /\ slept' = slept
      /\ left' = left
  BY DEF CanonHangup, CanonStart, InKernel
<1>3. canonb' = canonb \/ canonb' \in Seq(TtyChars)
  <2>1. <<>> \in Seq(TtyChars)
    OBVIOUS
  <2>2. canonb' = canonb \/ canonb' = <<>>
    BY DEF CanonHangup, CanonStart
  <2> QED BY <2>1, <2>2
<1>4. KernelGoes(p, l)
  BY <1>1, <1>2, <1>3 DEF KernelGoes, GoesTo, TtyPlaces
<1>5. TtyProcsOK' /\ ~Doing("delct")' /\ ~Doing("delct") /\ ~Doing("write")
  BY <1>2, <1>4, KernelGoesOn
<1>6. TtyLineOK'
  <2>1. \A x \in Users : slept'[x] = "outq" => slept[x] = "outq"
    BY <1>2
  <2>2. TtyLineOK /\ Going(t)
    BY <1>5 DEF TtyInv, TtyLineOK
  <2> QED BY <1>2, <1>5, <2>1, <2>2, TerminalStays
<1> QED BY <1>5, <1>6 DEF TtyInv

\* Sleeping for input, or for the carrier.
LEMMA InputWaits ==
    ASSUME TtyAssumption, TtyInv, NEW p \in Users, CanonWait(p) \/ OpenWait(p)
    PROVE  TtyInv'
<1>1. /\ who = p /\ at[p] \in {"canon", "open"} /\ SleepOrLeave(p, "rawq", {})
      /\ slipped' = slipped /\ left' = left /\ canonb' = canonb
  BY DEF CanonWait, OpenWait, InKernel
<1>2. TtyProcsOK /\ TtyLineOK /\ Nobody \notin Users /\ t \in TtyRecs
  BY TtyNumbers DEF TtyInv, TtyLineOK
<1>3. /\ TtyProcsOK' /\ ~Doing("write")' /\ ~Doing("delct")' /\ ~Doing("delct")
      /\ \A x \in Users : slept'[x] = "outq" => slept[x] = "outq"
  <2>1. at[p] \in Sleeping
    BY <1>1 DEF Sleeping
  <2>2. PICK q \in {"rawq", "outq"} : q = "rawq"
    OBVIOUS
  <2>3. SleepOrLeave(p, q, {})
    BY <1>1, <2>2
  <2>4. /\ TtyProcsOK' /\ ~Doing("write")' /\ ~Doing("delct")' /\ ~Doing("delct")
        /\ \A x \in Users : slept'[x] = "outq" => (slept[x] = "outq" /\ "outq" \notin {}) \/ q = "outq"
    BY <1>1, <1>2, <2>1, <2>3, SleepsOrLeaves
  <2> QED BY <2>2, <2>4
<1>4. Going(t)
  BY <1>1, <1>2 DEF TtyLineOK, Doing
<1>5. PICK v : v = t.state \cup {"WOPEN"}
  OBVIOUS
<1>6. PICK s : s = [t EXCEPT !.state = v]
  OBVIOUS
<1>7. s \in TtyRecs /\ LineStep(t, s) /\ (Going(t) => Going(s))
  <2>1. /\ v \in SUBSET TtyStates /\ {"BUSY", "TIMEOUT"} \cap v \subseteq t.state
        /\ "ASLEEP" \in t.state => "ASLEEP" \in v
        /\ {"BUSY", "TIMEOUT", "TTSTOP"} \cap t.state \subseteq v
    BY <1>2, <1>5 DEF TtyRecs, TtyStates
  <2> QED BY <1>2, <1>6, <2>1, StateStep
<1>8. TtyLineOK'
  <2>1. CASE CanonWait(p)
    <3>1. t' = t
      BY <2>1 DEF CanonWait
    <3> QED BY <1>1, <1>2, <1>3, <1>4, <3>1, TerminalStays
  <2>2. CASE OpenWait(p)
    <3>1. t' = s
      BY <1>5, <1>6, <2>2, Zenon DEF OpenWait
    <3>2. s.wake = {} /\ [s EXCEPT !.wake = s.wake] = s
      BY <1>2, <1>6, <1>7 DEF TtyRecs, TtyLineOK
    <3>3. t' = [s EXCEPT !.wake = {}]
      BY <3>1, <3>2
    <3>4. TerminalGoes(s)
      BY <1>1, <1>2, <1>3, <1>4, <1>7, <3>2, <3>3 DEF TerminalGoes, TtyLineOK
    <3> QED BY <1>2, <3>4, TerminalGoesOn
  <2> QED BY <2>1, <2>2
<1> QED BY <1>3, <1>8 DEF TtyInv

\* The carrier is there.
LEMMA OpenCarrierKeeps ==
    ASSUME TtyAssumption, TtyInv, NEW p \in Users, OpenCarrier(p)
    PROVE  TtyInv'
<1>1. /\ who = p /\ at[p] = "open" /\ GoesTo(p, "opened") /\ t' = t
      /\ slipped' = slipped /\ left' = left /\ canonb' = canonb /\ slept' = slept
  BY DEF OpenCarrier, InKernel
<1>2. TtyProcsOK' /\ ~Doing("delct")' /\ ~Doing("delct") /\ ~Doing("write")
  <2>1. KernelGoes(p, "opened")
    BY <1>1 DEF KernelGoes, GoesTo, TtyPlaces
  <2> QED BY <1>1, <2>1, KernelGoesOn
<1>3. TtyLineOK'
  <2>1. \A x \in Users : slept'[x] = "outq" => slept[x] = "outq"
    BY <1>1
  <2>2. TtyLineOK /\ Going(t)
    BY <1>2 DEF TtyInv, TtyLineOK
  <2> QED BY <1>1, <1>2, <2>1, <2>2, TerminalStays
<1> QED BY <1>2, <1>3 DEF TtyInv

\* ttyopen.
LEMMA OpenEndKeeps ==
    ASSUME TtyAssumption, TtyInv, NEW p \in Users, OpenEnd(p)
    PROVE  TtyInv'
<1>1. /\ who = p /\ at[p] = "opened" /\ GoesTo(p, "leave")
      /\ slipped' = slipped /\ left' = left /\ canonb' = canonb /\ slept' = slept
  BY DEF OpenEnd, InKernel
<1>2. TtyProcsOK /\ TtyLineOK /\ t \in TtyRecs
  BY DEF TtyInv, TtyLineOK
<1>3. TtyProcsOK' /\ ~Doing("delct")' /\ ~Doing("delct") /\ ~Doing("write")
  <2>1. KernelGoes(p, "leave")
    BY <1>1 DEF KernelGoes, GoesTo, TtyPlaces
  <2> QED BY <1>1, <2>1, KernelGoesOn
<1>4. PICK v : v = (t.state \ {"WOPEN"}) \cup {"ISOPEN"}
  OBVIOUS
<1>5. v \in SUBSET TtyStates
  BY <1>2, <1>4 DEF TtyRecs, TtyStates
<1>6. t' = [t EXCEPT !.state = v, !.pgrp = TRUE]
  BY <1>4, Zenon DEF OpenEnd
<1>7. /\ t' \in TtyRecs /\ t'.outq = t.outq /\ t'.rawq = t.rawq /\ t'.delct = t.delct
      /\ t'.flags = t.flags /\ t'.wake = t.wake /\ t'.state = v /\ t'.delays = t.delays
  BY <1>2, <1>5, <1>6 DEF TtyRecs
<1>8. (t'.tcr <=> t.tcr) /\ (t'.stalled <=> t.stalled)
  BY <1>2, <1>5, <1>6 DEF TtyRecs
<1>9. DeviceTold(t') /\ Going(t') /\ (Served(t) => Served(t'))
  <2>1. DeviceTold(t) /\ Going(t)
    BY <1>2, <1>3 DEF TtyLineOK
  <2> QED BY <1>4, <1>7, <1>8, <2>1 DEF DeviceTold, Going, Served
<1> QED BY <1>1, <1>2, <1>3, <1>7, <1>9 DEF TtyInv, TtyLineOK

\* An edited line is one of characters.
LEMMA EditedChars ==
    ASSUME NEW b \in Seq(TtyChars), NEW c \in TtyChars
    PROVE  Edited(b, c) \in Seq(TtyChars)
<1>1. <<>> \in Seq(TtyChars)
  OBVIOUS
<1>2. Append(b, c) \in Seq(TtyChars)
  OBVIOUS
<1>3. b # <<>> => Front(b) \in Seq(TtyChars)
  <2>1. Len(b) \in Nat /\ \A i \in 1..(Len(b) - 1) : b[i] \in TtyChars
    OBVIOUS
  <2>2. SubSeq(b, 1, Len(b) - 1) \in Seq(TtyChars)
    BY <2>1, SubSeqProperties
  <2> QED BY <2>2 DEF Front
<1>4. b # <<>> => Append(Front(b), c) \in Seq(TtyChars)
  BY <1>3
<1> QED BY <1>1, <1>2, <1>3, <1>4, Zenon DEF Edited

\* A character is taken off the raw queue, and p goes to l.
RawqTaken(p, l) ==
    /\ who = p /\ at[p] = "line" /\ who' = p
    /\ at' = [at EXCEPT ![p] = l] \/ (at' = at /\ l = "line")
    /\ t.rawq # <<>> /\ t' = [t EXCEPT !.rawq = Tail(t.rawq)]
    /\ slept' = slept
    /\ slipped' = (slipped \/ (Raw(t) /\ Head(t.rawq) = "delim"))
    /\ IF ~Raw(t) /\ Head(t.rawq) = "delim" THEN l = "delct" ELSE l = "line"

\* The delimiters of the queue and what is counted of them are in order again.
LEMMA RawqTakenKeeps ==
    ASSUME TtyInv, NEW p \in Users, NEW l, RawqTaken(p, l),
           TtyProcsOK', \A k : (Doing(k)' <=> k = l) /\ (Doing(k) <=> at[p] = k)
    PROVE  TtyInv'
<1>1. TtyLineOK /\ t \in TtyRecs /\ t.rawq \in Seq(TtyChars) /\ t.rawq # <<>> /\ at[p] = "line"
  BY DEF TtyInv, TtyLineOK, TtyRecs, RawqTaken
<1>2. PICK q : q = Tail(t.rawq)
  OBVIOUS
<1>3. /\ q \in Seq(TtyChars)
      /\ Delims(t.rawq) = IF Head(t.rawq) = "delim" THEN Delims(q) + 1 ELSE Delims(q)
  BY <1>1, <1>2, DelimsTail
<1>4. t' = [t EXCEPT !.rawq = q]
  BY <1>2 DEF RawqTaken
<1>5. /\ t' \in TtyRecs /\ t'.outq = t.outq /\ t'.rawq = q /\ t'.delct = t.delct
      /\ t'.flags = t.flags /\ t'.wake = t.wake /\ t'.state = t.state /\ t'.delays = t.delays
  BY <1>1, <1>3, <1>4 DEF TtyRecs
<1>6. (t'.tcr <=> t.tcr) /\ (t'.stalled <=> t.stalled)
  BY <1>1, <1>3, <1>4 DEF TtyRecs
<1>7. DeviceTold(t') /\ Going(t') /\ (Served(t) => Served(t'))
  <2>1. DeviceTold(t) /\ Going(t)
    BY <1>1 DEF TtyLineOK
  <2> QED BY <1>5, <1>6, <2>1 DEF DeviceTold, Going, Served
<1>8. slept' = slept /\ slipped' \in BOOLEAN /\ (~slipped' => ~slipped /\ ~(Raw(t) /\ Head(t.rawq) = "delim"))
  BY <1>1 DEF RawqTaken, TtyLineOK
<1>9. PICK a, b, d : a = Delims(t.rawq) /\ b = Delims(q) /\ d = t.delct
  OBVIOUS
<1>10. a \in Nat /\ b \in Nat /\ d \in Int
  BY <1>1, <1>3, <1>9, DelimsFinite DEF TtyRecs
<1>11. ASSUME ~slipped'
       PROVE  t'.delct - Delims(t'.rawq) = IF Doing("delct")' THEN 1 ELSE 0
  <2>1. d - a = 0 /\ ~(Raw(t) /\ Head(t.rawq) = "delim")
    BY <1>1, <1>8, <1>9, <1>11 DEF TtyLineOK
  <2>2. CASE ~Raw(t) /\ Head(t.rawq) = "delim"
    <3>1. l = "delct"
      BY <2>2 DEF RawqTaken
    <3>2. a = b + 1
      BY <1>3, <1>9, <2>2
    <3>3. d - b = 1
      BY <1>10, <2>1, <3>2
    <3> QED BY <1>5, <1>9, <3>1, <3>3
  <2>3. CASE Head(t.rawq) # "delim"
    <3>1. l # "delct"
      BY <2>3 DEF RawqTaken
    <3>2. a = b
      BY <1>3, <1>9, <2>3
    <3>3. d - b = 0
      BY <2>1, <3>2
    <3> QED BY <1>5, <1>9, <3>1, <3>3
  <2> QED BY <2>1, <2>2, <2>3
<1>12. t'.wake = {}
  BY <1>1, <1>5 DEF TtyLineOK
<1>13. TtyLineOK'
  BY <1>1, <1>5, <1>7, <1>8, <1>11, <1>12 DEF TtyLineOK
<1> QED BY <1>13 DEF TtyInv

\* canon takes a character, or a delimiter.
LEMMA CanonTakes ==
    ASSUME TtyAssumption, TtyInv, NEW p \in Users, CanonChar(p) \/ CanonDelim(p)
    PROVE  TtyInv'
<1>1. TtyProcsOK /\ t \in TtyRecs /\ canonb \in Seq(TtyChars) /\ t.rawq \in Seq(TtyChars)
  BY DEF TtyInv, TtyLineOK, TtyProcsOK, TtyRecs
<1>2. t.rawq # <<>>
  BY DEF CanonChar, CanonDelim, LineGoesOn
<1>3. canonb' \in Seq(TtyChars)
  <2>1. PICK c : c = Head(t.rawq)
    OBVIOUS
  <2>2. c \in TtyChars
    BY <1>1, <1>2, <2>1, DelimsTail
  <2>3. Append(canonb, c) \in Seq(TtyChars) /\ Edited(canonb, c) \in Seq(TtyChars)
    BY <1>1, <2>2, EditedChars
  <2>4. canonb' = canonb \/ canonb' = Append(canonb, c) \/ canonb' = Edited(canonb, c)
    BY <2>1, Zenon DEF CanonChar, CanonDelim
  <2> QED BY <1>1, <2>3, <2>4
<1>4. PICK l : RawqTaken(p, l) /\ l \in {"line", "delct"}
  <2>1. CASE CanonChar(p)
    <3>1. slipped' = (slipped \/ (Raw(t) /\ Head(t.rawq) = "delim"))
      BY <2>1 DEF CanonChar
    <3>2. RawqTaken(p, "line")
      BY <1>2, <2>1, <3>1 DEF CanonChar, RawqTaken, InKernel
    <3> QED BY <3>2
  <2>2. CASE CanonDelim(p)
    <3>1. slipped' = (slipped \/ (Raw(t) /\ Head(t.rawq) = "delim"))
      <4>1. slipped \in BOOLEAN
        BY DEF TtyInv, TtyLineOK
      <4> QED BY <2>2, <4>1 DEF CanonDelim
    <3>2. RawqTaken(p, "delct")
      BY <1>2, <2>2, <3>1 DEF CanonDelim, RawqTaken, InKernel, GoesTo
    <3> QED BY <3>2
  <2> QED BY <2>1, <2>2
<1>5. left' = left
  BY DEF CanonChar, CanonDelim
<1>6. KernelGoes(p, l)
  BY <1>3, <1>4, <1>5 DEF KernelGoes, RawqTaken, TtyPlaces
<1>7. TtyProcsOK' /\ \A k : (Doing(k)' <=> k = l) /\ (Doing(k) <=> at[p] = k)
  BY <1>6, KernelGoesOn
<1> QED BY <1>4, <1>7, RawqTakenKeeps

\* canon counts the delimiter it took.
LEMMA CanonCountKeeps ==
    ASSUME TtyAssumption, TtyInv, NEW p \in Users, CanonCount(p)
    PROVE  TtyInv'
<1>1. /\ who = p /\ at[p] = "delct" /\ GoesTo(p, "end")
      /\ slipped' = slipped /\ left' = left /\ canonb' = canonb /\ slept' = slept
  BY DEF CanonCount, InKernel
<1>2. TtyLineOK /\ t \in TtyRecs
  BY DEF TtyInv, TtyLineOK
<1>3. TtyProcsOK' /\ ~Doing("delct")' /\ Doing("delct") /\ ~Doing("write")
  <2>1. KernelGoes(p, "end")
    BY <1>1 DEF KernelGoes, GoesTo, TtyPlaces
  <2> QED BY <1>1, <2>1, KernelGoesOn
<1>4. PICK n : n = t.delct - 1
  OBVIOUS
<1>5. n \in Int /\ t.delct \in Int
  BY <1>2, <1>4 DEF TtyRecs
<1>6. t' = [t EXCEPT !.delct = n]
  BY <1>4, Zenon DEF CanonCount
<1>7. /\ t' \in TtyRecs /\ t'.outq = t.outq /\ t'.rawq = t.rawq /\ t'.delct = n
      /\ t'.flags = t.flags /\ t'.wake = t.wake /\ t'.state = t.state /\ t'.delays = t.delays
  BY <1>2, <1>5, <1>6 DEF TtyRecs
<1>8. (t'.tcr <=> t.tcr) /\ (t'.stalled <=> t.stalled)
  BY <1>2, <1>5, <1>6 DEF TtyRecs
<1>9. DeviceTold(t') /\ Going(t') /\ (Served(t) => Served(t'))
  <2>1. DeviceTold(t) /\ Going(t)
    BY <1>2, <1>3 DEF TtyLineOK
  <2> QED BY <1>7, <1>8, <2>1 DEF DeviceTold, Going, Served
<1>11. ~slipped => t'.delct - Delims(t'.rawq) = 0
  <2>1. PICK a, d : a = Delims(t.rawq) /\ d = t.delct
    OBVIOUS
  <2>2. a \in Nat /\ d \in Int /\ n = d - 1
    BY <1>2, <1>4, <2>1, DelimsFinite DEF TtyRecs
  <2>3. ~slipped => d - a = 1
    BY <1>2, <1>3, <2>1 DEF TtyLineOK
  <2>4. ~slipped => n - a = 0
    BY <2>2, <2>3
  <2> QED BY <1>7, <2>1, <2>4
<1> QED BY <1>1, <1>2, <1>3, <1>7, <1>9, <1>11 DEF TtyInv, TtyLineOK

\* A step of p that takes the terminal from t to s, with what it wakes.
LEMMA KernelStepKeeps ==
    ASSUME TtyAssumption, TtyInv, NEW p \in Users, NEW l, NEW s \in TtyRecs, KernelGoes(p, l),
           LineStep(t, s), Going(s) \/ l = "write", Becomes(s), slipped' = slipped,
           at[p] # "delct", l # "delct"
    PROVE  TtyInv'
<1>1. TtyProcsOK /\ TtyLineOK
  BY DEF TtyInv
<1>2. /\ TtyProcsOK' /\ ~Doing("delct")' /\ ~Doing("delct")
      /\ Going(s) \/ Doing("write")'
  BY KernelGoesOn
<1>3. /\ t' = [s EXCEPT !.wake = {}]
      /\ \A x \in Users : slept'[x] = "outq" => slept[x] = "outq" /\ "outq" \notin s.wake
  BY <1>1, BecomesWakes
<1>4. TerminalGoes(s)
  BY <1>1, <1>2, <1>3 DEF TerminalGoes, TtyLineOK
<1> QED BY <1>1, <1>2, <1>4, TerminalGoesOn DEF TtyInv

\* Nothing is left to be woken.
LEMMA NothingWoken ==
    ASSUME TtyInv, NEW s \in TtyRecs, s.wake = {}
    PROVE  t' = s /\ slept' = slept => Becomes(s)
<1>1. [s EXCEPT !.wake = s.wake] = s
  BY DEF TtyRecs
<1>2. \A x \in Users : slept[x] = IF slept[x] \in s.wake THEN "none" ELSE slept[x]
  OBVIOUS
<1>3. slept = [x \in Users |-> IF slept[x] \in s.wake THEN "none" ELSE slept[x]]
  BY <1>2 DEF TtyInv, TtyProcsOK
<1> QED BY <1>1, <1>3 DEF Becomes

\* canon moves the line to the queue that is read.
LEMMA CanonEndKeeps ==
    ASSUME TtyAssumption, TtyInv, NEW p \in Users, CanonEnd(p)
    PROVE  TtyInv'
<1>1. TtyProcsOK /\ TtyLineOK /\ t \in TtyRecs /\ canonb \in Seq(TtyChars)
  BY DEF TtyInv, TtyLineOK, TtyProcsOK
<1>2. /\ who = p /\ at[p] \in {"end", "line"} /\ slipped' = slipped /\ left' = left
      /\ canonb' = <<>>
  BY DEF CanonEnd
<1>3. PICK l : GoesTo(p, l) /\ l \in {"leave", "passc"}
  BY DEF CanonEnd
<1>4. PICK x, s : x = Putc(t, "canq", canonb) /\ s = Unblock(x)
  OBVIOUS
<1>5. Becomes(s)
  BY <1>4 DEF CanonEnd
<1>6. x \in TtyRecs /\ LineStep(t, x) /\ (Going(t) => Going(x))
  BY <1>1, <1>4, PutcCanq, TtyNumbers
<1>7. s \in TtyRecs /\ LineStep(x, s) /\ (Going(x) => Going(s))
  BY <1>4, <1>6, BlockSteps, TtyNumbers
<1>8. LineStep(t, s) /\ Going(s)
  <2>1. Going(t)
    BY <1>1, <1>2 DEF TtyLineOK, Doing
  <2> QED BY <1>6, <1>7, <2>1, LineStepsChain
<1>9. KernelGoes(p, l)
  <2>1. canonb' \in Seq(TtyChars)
    BY <1>2
  <2>2. \A y \in Users : slept'[y] = slept[y] \/ slept'[y] = "none"
    BY <1>1, <1>5, <1>7, BecomesWakes
  <2>3. slept' \in [Users -> TtyQueues]
    BY <1>1, <1>5, <1>7, BecomesWakes
  <2> QED BY <1>2, <1>3, <2>1, <2>2, <2>3 DEF KernelGoes, GoesTo, TtyPlaces
<1>10. at[p] # "delct" /\ l # "delct"
  BY <1>2, <1>3
<1> QED BY <1>2, <1>5, <1>7, <1>8, <1>9, <1>10, KernelStepKeeps

\* ttread.
LEMMA PasscKeeps ==
    ASSUME TtyAssumption, TtyInv, NEW p \in Users, Passc(p)
    PROVE  TtyInv'
<1>1. TtyProcsOK /\ TtyLineOK /\ t \in TtyRecs /\ left[p] \in Nat /\ t.canq \in Seq(TtyChars)
  BY DEF TtyInv, TtyLineOK, TtyProcsOK, TtyRecs
<1>2. /\ who = p /\ at[p] = "passc" /\ slipped' = slipped /\ left' = left
      /\ canonb' = canonb /\ slept' = slept /\ GoesTo(p, "leave")
  BY DEF Passc, InKernel
<1>3. PICK q : q = SubSeq(t.canq, left[p] + 1, Len(t.canq))
  OBVIOUS
<1>4. q \in Seq(TtyChars)
  <2>1. /\ left[p] + 1 \in Int /\ Len(t.canq) \in Int
        /\ \A i \in (left[p] + 1)..Len(t.canq) : t.canq[i] \in TtyChars
    BY <1>1
  <2> QED BY <1>3, <2>1, SubSeqProperties
<1>5. t' = [t EXCEPT !.canq = q]
  BY <1>3, Zenon DEF Passc
<1>6. PICK s : s = t'
  OBVIOUS
<1>7. /\ s \in TtyRecs /\ s.outq = t.outq /\ s.rawq = t.rawq /\ s.delct = t.delct
      /\ s.flags = t.flags /\ s.wake = t.wake /\ s.state = t.state /\ s.delays = t.delays
  BY <1>1, <1>4, <1>5, <1>6 DEF TtyRecs
<1>8. (s.tcr <=> t.tcr) /\ (s.stalled <=> t.stalled)
  BY <1>1, <1>4, <1>5, <1>6 DEF TtyRecs
<1>9. LineStep(t, s) /\ Going(s)
  <2>1. Going(t)
    BY <1>1, <1>2 DEF TtyLineOK, Doing
  <2>2. (DeviceTold(t) => DeviceTold(s)) /\ Going(s) /\ (Served(t) => Served(s))
    BY <1>7, <1>8, <2>1 DEF DeviceTold, Going, Served
  <2> QED BY <1>7, <2>2, OutputStep
<1>10. Becomes(s)
  BY <1>1, <1>2, <1>6, <1>7, NothingWoken DEF TtyLineOK
<1>11. KernelGoes(p, "leave")
  BY <1>2 DEF KernelGoes, GoesTo, TtyPlaces
<1> QED BY <1>2, <1>7, <1>9, <1>10, <1>11, KernelStepKeeps

\* ttwrite puts a character on the queue.
LEMMA WriteCharKeeps ==
    ASSUME TtyAssumption, TtyInv, NEW p \in Users, WriteChar(p)
    PROVE  TtyInv'
<1>1. TtyProcsOK /\ TtyLineOK /\ t \in TtyRecs /\ left \in [Users -> Nat]
  BY DEF TtyInv, TtyLineOK, TtyProcsOK
<1>2. /\ who = p /\ at[p] = "write" /\ slipped' = slipped /\ canonb' = canonb
      /\ slept' = slept /\ who' = p /\ at' = at /\ left[p] > 0
      /\ left' = [left EXCEPT ![p] = @ - 1]
  BY DEF WriteChar, InKernel
<1>3. left' \in [Users -> Nat]
  <2>1. left[p] - 1 \in Nat
    BY <1>1, <1>2
  <2> QED BY <1>1, <1>2, <2>1
<1>4. PICK c \in {"a", "nl"} : t' = Ttyoutput(t, c)
  BY DEF WriteChar
<1>5. PICK s : s = t'
  OBVIOUS
<1>6. s \in TtyRecs /\ LineStep(t, s)
  <2>1. c \in TtyChars
    BY DEF TtyChars, Special
  <2> QED BY <1>1, <1>4, <1>5, <2>1, TtyoutputStep, TtyNumbers
<1>7. s.wake = {}
  <2>1. s.wake = t.wake
    BY <1>1, <1>4, <1>5 DEF Ttyoutput, Putc, TtyRecs
  <2> QED BY <1>1, <2>1 DEF TtyLineOK
<1>8. Becomes(s)
  BY <1>2, <1>5, <1>6, <1>7, NothingWoken
<1>9. KernelGoes(p, "write")
  BY <1>2, <1>3 DEF KernelGoes, TtyPlaces
<1> QED BY <1>2, <1>6, <1>8, <1>9, KernelStepKeeps

\* And starts the output at the end.
LEMMA WriteEndKeeps ==
    ASSUME TtyAssumption, TtyInv, NEW p \in Users, WriteEnd(p)
    PROVE  TtyInv'
<1>1. TtyProcsOK /\ TtyLineOK /\ t \in TtyRecs
  BY DEF TtyInv, TtyLineOK
<1>2. PICK s : s = Ttstart(t)
  OBVIOUS
<1>3. /\ who = p /\ at[p] = "write" /\ slipped' = slipped /\ canonb' = canonb
      /\ left' = left /\ Becomes(s) /\ GoesTo(p, "leave")
  BY <1>2 DEF WriteEnd, InKernel
<1>4. s \in TtyRecs /\ LineStep(t, s) /\ Going(s)
  BY <1>1, <1>2, TtstartStarts, TtyNumbers
<1>5. KernelGoes(p, "leave")
  <2>1. \A y \in Users : slept'[y] = slept[y] \/ slept'[y] = "none"
    BY <1>1, <1>3, <1>4, BecomesWakes
  <2>2. slept' \in [Users -> TtyQueues]
    BY <1>1, <1>3, <1>4, BecomesWakes
  <2> QED BY <1>3, <2>1, <2>2 DEF KernelGoes, GoesTo, TtyPlaces
<1> QED BY <1>3, <1>4, <1>5, KernelStepKeeps

\* Waiting for the output: what is left of it is under way, or was stalled.
LEMMA OutputWaits ==
    ASSUME TtyAssumption, TtyInv, NEW p \in Users, WriteWait(p) \/ FlushWait(p)
    PROVE  TtyInv'
<1>1. TtyProcsOK /\ TtyLineOK /\ t \in TtyRecs /\ Nobody \notin Users /\ TTLOWAT \in Nat
  BY TtyNumbers DEF TtyInv, TtyLineOK
<1>2. PICK u : u = Ttstart(t)
  OBVIOUS
<1>3. /\ who = p /\ at[p] \in {"write", "flush"} /\ WaitForRoom(p, u)
      /\ slipped' = slipped /\ left' = left /\ canonb' = canonb
  BY <1>2 DEF WriteWait, FlushWait, InKernel, WaitForRoom
<1>4. /\ u \in TtyRecs /\ LineStep(t, u) /\ Going(u)
      /\ u.outq = <<>> /\ Going(t) => t.outq = <<>> \/ t.stalled
      /\ Len(t.outq) > 1 => u.outq # <<>>
  BY <1>1, <1>2, TtstartStarts
<1>5. u.outq = <<>> => t.stalled
  <2>1. CASE WriteWait(p)
    <3>1. PICK m, n : m = Len(t.outq) /\ n = TTIME
      OBVIOUS
    <3>2. m \in Nat /\ n \in Nat /\ n > 0 /\ m > n
      BY <1>1, <2>1, <3>1, TtyNumbers DEF WriteWait, TtyRecs
    <3>3. m > 1
      BY <3>2
    <3> QED BY <1>4, <3>1, <3>3
  <2>2. CASE FlushWait(p)
    <3>1. t.outq # <<>> /\ at[p] = "flush"
      BY <2>2 DEF FlushWait, InKernel, Draining
    <3>2. Going(t)
      BY <1>1, <1>3, <3>1 DEF TtyLineOK, Doing
    <3> QED BY <1>4, <3>1, <3>2
  <2> QED BY <1>3, <2>1, <2>2
<1>6. PICK v, b, e : /\ v = u.state \cup {"ASLEEP"} /\ e = {} /\ b \in BOOLEAN
                     /\ b <=> u.stalled \/ (t.stalled /\ u.outq = <<>>)
  OBVIOUS
<1>7. PICK s : s = [u EXCEPT !.state = v, !.stalled = b]
  OBVIOUS
<1>8. [u EXCEPT !.state = @ \cup {"ASLEEP"}, !.stalled = @ \/ (t.stalled /\ u.outq = <<>>)] = s
  <2>1. (u.stalled \/ (t.stalled /\ u.outq = <<>>)) = b
    BY <1>4, <1>6 DEF TtyRecs
  <2> QED BY <1>6, <1>7, <2>1, Zenon
<1>9. t' = [s EXCEPT !.wake = e] /\ SleepOrLeave(p, "outq", s.wake)
  BY <1>3, <1>6, <1>8, Zenon DEF WaitForRoom
<1>10. v \in SUBSET TtyStates /\ e \in SUBSET {"rawq", "outq"}
  BY <1>4, <1>6 DEF TtyRecs, TtyStates
<1>11. t' = [u EXCEPT !.state = v, !.stalled = b, !.wake = e]
  BY <1>7, <1>9
<1>12. /\ t' \in TtyRecs /\ t'.outq = u.outq /\ t'.rawq = u.rawq /\ t'.delct = u.delct
       /\ t'.flags = u.flags /\ t'.wake = e /\ t'.state = v /\ t'.delays = u.delays
  BY <1>4, <1>6, <1>10, <1>11 DEF TtyRecs
<1>13. (t'.tcr <=> u.tcr) /\ (t'.stalled <=> b)
  BY <1>4, <1>6, <1>10, <1>11 DEF TtyRecs
<1>14. DeviceTold(t') /\ Going(t') /\ Served(t')
  <2>1. DeviceTold(u)
    BY <1>1, <1>4 DEF TtyLineOK, LineStep
  <2> QED BY <1>4, <1>5, <1>6, <1>12, <1>13, <2>1 DEF DeviceTold, Going, Served
<1>15. /\ TtyProcsOK' /\ ~Doing("write")' /\ ~Doing("delct")' /\ ~Doing("delct")
  <2>1. at[p] \in Sleeping
    BY <1>3 DEF Sleeping
  <2>2. PICK q \in {"rawq", "outq"} : q = "outq"
    OBVIOUS
  <2>3. PICK w : w = s.wake
    OBVIOUS
  <2>4. SleepOrLeave(p, q, w)
    BY <1>9, <2>2, <2>3
  <2> QED BY <1>1, <1>3, <2>1, <2>4, SleepsOrLeaves
<1>17. ~slipped => t'.delct - Delims(t'.rawq) = 0
  <2>1. ~slipped => t.delct - Delims(t.rawq) = 0
    BY <1>1, <1>15 DEF TtyLineOK
  <2>2. u.delct - Delims(u.rawq) = t.delct - Delims(t.rawq)
    BY <1>4 DEF LineStep
  <2> QED BY <1>12, <2>1, <2>2
<1>18. TtyLineOK'
  BY <1>1, <1>3, <1>6, <1>12, <1>14, <1>15, <1>17 DEF TtyLineOK
<1> QED BY <1>15, <1>18 DEF TtyInv

\* The end of wflushtty.
LEMMA FlushEndKeeps ==
    ASSUME TtyAssumption, TtyInv, NEW p \in Users, FlushEnd(p)
    PROVE  TtyInv'
<1>1. TtyProcsOK /\ TtyLineOK /\ t \in TtyRecs
  BY DEF TtyInv, TtyLineOK
<1>2. PICK s : s = Flushtty(t)
  OBVIOUS
<1>3. /\ who = p /\ at[p] = "flush" /\ GoesTo(p, "flushed") /\ Becomes(s)
      /\ slipped' = FALSE /\ left' = left /\ canonb' = canonb
  BY <1>2 DEF FlushEnd, InKernel
<1>4. s \in TtyRecs /\ Flushed(t, s)
  BY <1>1, <1>2, FlushttyFlushes
<1>5. /\ t' = [s EXCEPT !.wake = {}]
      /\ slept' \in [Users -> TtyQueues]
      /\ \A x \in Users : slept'[x] = slept[x] \/ slept'[x] = "none"
      /\ \A x \in Users : slept'[x] # "outq"
  BY <1>1, <1>3, <1>4, BecomesWakes DEF Flushed
<1>6. TtyProcsOK' /\ ~Doing("delct")'
  <2>1. KernelGoes(p, "flushed")
    BY <1>3, <1>5 DEF KernelGoes, GoesTo, TtyPlaces
  <2> QED BY <2>1, KernelGoesOn
<1>7. TtyLineOK'
  <2>1. PICK r : r = t'
    OBVIOUS
  <2>2. r = [s EXCEPT !.wake = {}]
    BY <1>5, <2>1
  <2>3. /\ r \in TtyRecs /\ r.wake = {} /\ r.rawq = s.rawq /\ r.delct = s.delct
        /\ r.outq = s.outq /\ (DeviceTold(s) => DeviceTold(r))
    BY <1>4, <2>2, WakeForgotten
  <2>4. DeviceTold(s) /\ s.rawq = <<>> /\ s.outq = <<>> /\ s.delct = 0
    BY <1>1, <1>4 DEF Flushed, TtyLineOK
  <2>5. slipped' \in BOOLEAN
    BY <1>3
  <2> QED BY <1>5, <1>6, <2>1, <2>3, <2>4, <2>5, TerminalFlushed
<1> QED BY <1>6, <1>7 DEF TtyInv

\* TIOCSETP, after it: what was typed in the meantime stays as it was counted.
LEMMA SetpModesKeeps ==
    ASSUME TtyAssumption, TtyInv, NEW p \in Users, SetpModes(p)
    PROVE  TtyInv'
<1>1. /\ who = p /\ at[p] = "flushed" /\ GoesTo(p, "leave") /\ SetModes
      /\ slipped' = slipped /\ left' = left /\ canonb' = canonb /\ slept' = slept
  BY DEF SetpModes, InKernel
<1>2. TtyProcsOK' /\ ~Doing("delct")' /\ ~Doing("delct") /\ ~Doing("write")
  <2>1. KernelGoes(p, "leave")
    BY <1>1 DEF KernelGoes, GoesTo, TtyPlaces
  <2> QED BY <1>1, <2>1, KernelGoesOn
<1>3. TtyLineOK'
  <2>1. \A x \in Users : slept'[x] = "outq" => slept[x] = "outq"
    BY <1>1
  <2>2. TtyLineOK /\ Going(t)
    BY <1>2 DEF TtyInv, TtyLineOK
  <2> QED BY <1>1, <1>2, <2>1, <2>2, SetModesKeeps
<1> QED BY <1>2, <1>3 DEF TtyInv

\* The end of ttyclose: nobody waits for the output that it forgets.
LEMMA CloseForgetsKeeps ==
    ASSUME TtyAssumption, TtyInv, NEW p \in Users, CloseForgets(p)
    PROVE  TtyInv'
<1>1. /\ who = p /\ at[p] = "flushed" /\ GoesTo(p, "leave")
      /\ slipped' = slipped /\ left' = left /\ canonb' = canonb /\ slept' = slept
  BY DEF CloseForgets, InKernel
<1>2. TtyProcsOK /\ TtyLineOK /\ t \in TtyRecs
  BY DEF TtyInv, TtyLineOK
<1>3. \A x \in Users : slept'[x] # "outq"
  BY <1>1, <1>2 DEF TtyProcsOK, Doing
<1>4. TtyProcsOK' /\ ~Doing("delct")' /\ ~Doing("delct")
  <2>1. KernelGoes(p, "leave")
    BY <1>1 DEF KernelGoes, GoesTo, TtyPlaces
  <2> QED BY <1>1, <2>1, KernelGoesOn
<1>5. PICK e, b : e = {} /\ b \in BOOLEAN /\ (b <=> t.outq # <<>>)
  OBVIOUS
<1>6. t' = [t EXCEPT !.state = e, !.stalled = b]
  <2>1. (t.outq # <<>>) = b
    BY <1>5
  <2> QED BY <1>5, <2>1, Zenon DEF CloseForgets
<1>7. e \in SUBSET TtyStates
  BY <1>5
<1>8. /\ t' \in TtyRecs /\ t'.outq = t.outq /\ t'.rawq = t.rawq /\ t'.delct = t.delct
      /\ t'.wake = t.wake /\ t'.state = e
  BY <1>2, <1>5, <1>6, <1>7 DEF TtyRecs
<1>9. t'.stalled <=> b
  BY <1>2, <1>5, <1>6, <1>7 DEF TtyRecs
<1>10. DeviceTold(t') /\ Going(t')
  BY <1>5, <1>8, <1>9 DEF DeviceTold, Going
<1> QED BY <1>1, <1>2, <1>3, <1>4, <1>8, <1>10 DEF TtyInv, TtyLineOK

\* An interrupt that takes the terminal to s, or flushes it.
LEMMA InterruptKeeps ==
    ASSUME TtyAssumption, TtyInv, NEW s \in TtyRecs, Becomes(s), UNCHANGED <<who, at, left, canonb>>,
           slipped' \in BOOLEAN, ~slipped' => ~slipped,
           \/ LineStep(t, s) /\ (Going(t) => Going(s))
           \/ Flushed(t, s) /\ (~slipped' => \A p \in Users : at[p] # "delct")
    PROVE  TtyInv'
<1>1. TtyProcsOK /\ TtyLineOK
  BY DEF TtyInv
<1>2. /\ t' = [s EXCEPT !.wake = {}]
      /\ slept' \in [Users -> TtyQueues]
      /\ \A x \in Users : slept'[x] = slept[x] \/ slept'[x] = "none"
      /\ \A x \in Users : slept'[x] = "outq" => slept[x] = "outq" /\ "outq" \notin s.wake
  BY <1>1, BecomesWakes
<1>3. TtyProcsOK' /\ \A k : Doing(k)' <=> Doing(k)
  BY <1>1, <1>2, ProcessesStay
<1>4. CASE LineStep(t, s) /\ (Going(t) => Going(s))
  <2>1. Going(s) \/ Doing("write")'
    BY <1>1, <1>3, <1>4 DEF TtyLineOK
  <2>2. TerminalGoes(s)
    BY <1>2, <1>3, <1>4, <2>1 DEF TerminalGoes
  <2> QED BY <1>1, <1>3, <2>2, TerminalGoesOn DEF TtyInv
<1>5. CASE Flushed(t, s) /\ (~slipped' => \A p \in Users : at[p] # "delct")
  <2>1. PICK r : r = t'
    OBVIOUS
  <2>2. r = [s EXCEPT !.wake = {}]
    BY <1>2, <2>1
  <2>3. /\ r \in TtyRecs /\ r.wake = {} /\ r.rawq = s.rawq /\ r.delct = s.delct
        /\ r.outq = s.outq /\ (DeviceTold(s) => DeviceTold(r))
    BY <2>2, WakeForgotten
  <2>4. DeviceTold(s) /\ s.rawq = <<>> /\ s.outq = <<>> /\ s.delct = 0 /\ "outq" \in s.wake
    BY <1>1, <1>5 DEF Flushed, TtyLineOK
  <2>5. \A x \in Users : slept'[x] # "outq"
    BY <1>2, <2>4
  <2>6. ~slipped' => ~Doing("delct")'
    BY <1>3, <1>5 DEF Doing
  <2>7. TtyLineOK'
    BY <2>1, <2>3, <2>4, <2>5, <2>6, TerminalFlushed
  <2> QED BY <1>3, <2>7 DEF TtyInv
<1> QED BY <1>4, <1>5

\* The queue of input is woken, and bits of the state change that matter to no output.
LEMMA StateAndWake ==
    ASSUME NEW s \in TtyRecs, NEW v \in SUBSET TtyStates, NEW w \in SUBSET {"rawq", "outq"},
           s.wake = {}, v \cup {"CARR_ON"} = s.state \cup {"CARR_ON"}
    PROVE  LET r == [s EXCEPT !.state = v, !.wake = w]
           IN  r \in TtyRecs /\ LineStep(s, r) /\ (Going(s) => Going(r))
<1>1. PICK r : r = [s EXCEPT !.state = v, !.wake = w]
  OBVIOUS
<1>2. /\ r \in TtyRecs /\ r.outq = s.outq /\ r.rawq = s.rawq /\ r.delct = s.delct
      /\ r.flags = s.flags /\ r.wake = w /\ r.state = v /\ r.delays = s.delays
  BY <1>1 DEF TtyRecs
<1>3. (r.tcr <=> s.tcr) /\ (r.stalled <=> s.stalled)
  BY <1>1 DEF TtyRecs
<1>4. \A b \in {"BUSY", "TIMEOUT", "TTSTOP", "ASLEEP"} : b \in v <=> b \in s.state
  OBVIOUS
<1>5. /\ DeviceTold(s) => DeviceTold(r)
      /\ Served(s) => Served(r)
      /\ Going(s) => Going(r)
  BY <1>2, <1>3, <1>4 DEF DeviceTold, Served, Going
<1>6. s.wake \subseteq r.wake
  BY <1>2
<1> QED BY <1>1, <1>2, <1>5, <1>6, OutputStep

\* dzrint.
LEMMA RintKeeps ==
    ASSUME TtyAssumption, TtyInv, Rint
    PROVE  TtyInv'
<1>1. TtyLineOK /\ t \in TtyRecs /\ t.wake = {} /\ slipped \in BOOLEAN
  BY DEF TtyInv, TtyLineOK
<1>2. UNCHANGED <<who, at, left, canonb>>
  BY DEF Rint
<1>3. PICK c \in Typed :
        /\ Becomes(IF "ISOPEN" \in t.state THEN Ttyinput(t, c) ELSE [t EXCEPT !.wake = {"rawq"}])
        /\ slipped' = (slipped \/ Slips(IF "ISOPEN" \in t.state THEN Ttyinput(t, c)
                                       ELSE [t EXCEPT !.wake = {"rawq"}]))
  BY Zenon DEF Rint
<1>4. PICK s : s = IF "ISOPEN" \in t.state THEN Ttyinput(t, c) ELSE [t EXCEPT !.wake = {"rawq"}]
  OBVIOUS
<1>5. Becomes(s) /\ slipped' = (slipped \/ Slips(s))
  BY <1>3, <1>4
<1>6. slipped' \in BOOLEAN /\ (~slipped' => ~slipped /\ ~Slips(s))
  BY <1>1, <1>5
<1>7. /\ s \in TtyRecs
      /\ \/ LineStep(t, s) /\ (Going(t) => Going(s))
         \/ Flushed(t, s)
  <2>1. CASE "ISOPEN" \in t.state
    <3>1. c \in TtyChars /\ c # "delim"
      BY TtyNumbers
    <3> QED BY <1>1, <1>4, <2>1, <3>1, TtyinputStep, TtyNumbers
  <2>2. CASE "ISOPEN" \notin t.state
    <3>1. PICK v, w : v = t.state /\ w = {"rawq"}
      OBVIOUS
    <3>2. v \in SUBSET TtyStates /\ w \in SUBSET {"rawq", "outq"}
          /\ v \cup {"CARR_ON"} = t.state \cup {"CARR_ON"}
      BY <1>1, <3>1 DEF TtyRecs
    <3>3. [t EXCEPT !.state = v, !.wake = w] = [t EXCEPT !.wake = w]
      BY <1>1, <3>1 DEF TtyRecs
    <3>4. s = [t EXCEPT !.state = v, !.wake = w]
      BY <1>4, <2>2, <3>1, <3>3
    <3> QED BY <1>1, <3>2, <3>4, StateAndWake
  <2> QED BY <2>1, <2>2
<1>8. Flushed(t, s) => (~slipped' => \A p \in Users : at[p] # "delct")
  BY <1>6 DEF Flushed, Slips
<1> QED BY <1>2, <1>5, <1>6, <1>7, <1>8, InterruptKeeps

\* dzxint and ttrstrt.
LEMMA OutputGoesOn ==
    ASSUME TtyAssumption, TtyInv, Xint \/ Ttrstrt
    PROVE  TtyInv'
<1>1. TtyLineOK /\ TtyProcsOK /\ t \in TtyRecs /\ t.wake = {} /\ slipped \in BOOLEAN /\ DeviceTold(t)
  BY DEF TtyInv, TtyLineOK
<1>2. UNCHANGED <<who, at, left, canonb, slipped>>
  BY DEF Xint, Ttrstrt
<1>3. ASSUME NEW x, Restarted(t, x), Becomes(Ttstart(x))
      PROVE  TtyInv'
  <2>1. PICK s : s = Ttstart(x)
    OBVIOUS
  <2>2. s \in TtyRecs /\ LineStep(t, s) /\ Going(s)
    BY <1>3, <2>1, RestartStep, TtyNumbers
  <2>3. Becomes(s)
    BY <1>3, <2>1
  <2> QED BY <1>1, <1>2, <2>2, <2>3, InterruptKeeps
<1>4. CASE Xint /\ "BUSY" \in t.state
  <2>1. PICK v : v = t.state \ {"BUSY"}
    OBVIOUS
  <2>2. PICK x : x = [t EXCEPT !.state = v]
    OBVIOUS
  <2>3. v \in SUBSET TtyStates
    BY <1>1, <2>1 DEF TtyRecs
  <2>4. /\ x \in TtyRecs /\ x.outq = t.outq /\ x.rawq = t.rawq /\ x.delct = t.delct
        /\ x.flags = t.flags /\ x.wake = t.wake /\ x.state = v /\ x.delays = t.delays
    BY <1>1, <2>2, <2>3 DEF TtyRecs
  <2>5. (x.tcr <=> t.tcr) /\ (x.stalled <=> t.stalled)
    BY <1>1, <2>2, <2>3 DEF TtyRecs
  <2>6. DeviceTold(x)
    BY <1>1, <2>1, <2>4, <2>5 DEF DeviceTold
  <2>7. Restarted(t, x)
    BY <2>1, <2>4, <2>5, <2>6 DEF Restarted
  <2>8. Becomes(Ttstart(x))
    <3>1. [t EXCEPT !.state = @ \ {"BUSY"}] = x
      BY <2>1, <2>2, Zenon
    <3> QED BY <1>4, <3>1 DEF Xint
  <2> QED BY <1>3, <2>7, <2>8
<1>5. CASE Ttrstrt
  <2>1. PICK v, n : v = t.state \ {"TIMEOUT"} /\ n = t.delays - 1
    OBVIOUS
  <2>2. PICK x : x = [t EXCEPT !.state = v, !.delays = n]
    OBVIOUS
  <2>3. v \in SUBSET TtyStates /\ n \in Nat
    BY <1>1, <1>5, <2>1 DEF TtyRecs, Ttrstrt
  <2>4. /\ x \in TtyRecs /\ x.outq = t.outq /\ x.rawq = t.rawq /\ x.delct = t.delct
        /\ x.flags = t.flags /\ x.wake = t.wake /\ x.state = v /\ x.delays = n
    BY <1>1, <2>2, <2>3 DEF TtyRecs
  <2>5. (x.tcr <=> t.tcr) /\ (x.stalled <=> t.stalled)
    BY <1>1, <2>2, <2>3 DEF TtyRecs
  <2>6. DeviceTold(x)
    BY <1>1, <2>1, <2>4, <2>5 DEF DeviceTold
  <2>7. Restarted(t, x)
    BY <2>1, <2>4, <2>5, <2>6 DEF Restarted
  <2>8. Becomes(Ttstart(x))
    <3>1. [t EXCEPT !.state = @ \ {"TIMEOUT"}, !.delays = @ - 1] = x
      BY <2>1, <2>2, Zenon
    <3> QED BY <1>5, <3>1 DEF Ttrstrt
  <2> QED BY <1>3, <2>7, <2>8
<1>6. CASE Xint /\ "BUSY" \notin t.state
  <2>1. t' = [t EXCEPT !.tcr = FALSE] /\ slept' = slept
    BY <1>6 DEF Xint
  <2>2. PICK s : s = t'
    OBVIOUS
  <2>3. /\ s \in TtyRecs /\ s.outq = t.outq /\ s.rawq = t.rawq /\ s.delct = t.delct
        /\ s.flags = t.flags /\ s.wake = t.wake /\ s.state = t.state /\ s.delays = t.delays
    BY <1>1, <2>1, <2>2 DEF TtyRecs
  <2>4. s.stalled <=> t.stalled
    BY <1>1, <2>1, <2>2 DEF TtyRecs
  <2>5. DeviceTold(s) /\ (Served(t) => Served(s)) /\ (Going(t) => Going(s))
    BY <1>1, <1>6, <2>3, <2>4 DEF DeviceTold, Served, Going
  <2>6. LineStep(t, s)
    BY <2>3, <2>5, OutputStep
  <2>7. Becomes(s)
    BY <1>1, <2>1, <2>2, <2>3, NothingWoken
  <2> QED BY <1>1, <1>2, <2>3, <2>5, <2>6, <2>7, InterruptKeeps
<1> QED BY <1>4, <1>5, <1>6

\* dzscan.
LEMMA ScanKeeps ==
    ASSUME TtyAssumption, TtyInv, Scan
    PROVE  TtyInv'
<1>1. TtyLineOK /\ t \in TtyRecs /\ t.wake = {} /\ slipped \in BOOLEAN
  BY DEF TtyInv, TtyLineOK
<1>2. UNCHANGED <<who, at, left, canonb>>
  BY DEF Scan
<1>3. CASE carrier
  <2>1. PICK v, w : v = t.state \cup {"CARR_ON"} /\ w = {"rawq"}
    OBVIOUS
  <2>2. v \in SUBSET TtyStates /\ w \in SUBSET {"rawq", "outq"}
        /\ v \cup {"CARR_ON"} = t.state \cup {"CARR_ON"}
    BY <1>1, <2>1 DEF TtyRecs, TtyStates
  <2>3. PICK s : s = [t EXCEPT !.state = v, !.wake = w]
    OBVIOUS
  <2>4. s \in TtyRecs /\ LineStep(t, s) /\ (Going(t) => Going(s))
    BY <1>1, <2>2, <2>3, StateAndWake
  <2>5. Becomes(s) /\ slipped' = slipped
    <3>1. [t EXCEPT !.state = @ \cup {"CARR_ON"}, !.wake = {"rawq"}] = s
      BY <2>1, <2>3, Zenon
    <3> QED BY <1>3, <3>1 DEF Scan
  <2> QED BY <1>1, <1>2, <2>4, <2>5, InterruptKeeps
<1>4. CASE ~carrier
  <2>1. PICK f : f = Flushtty(t)
    OBVIOUS
  <2>2. f \in TtyRecs /\ Flushed(t, f)
    BY <1>1, <2>1, FlushttyFlushes
  <2>3. PICK v : v = f.state \ {"CARR_ON"}
    OBVIOUS
  <2>4. v \in SUBSET TtyStates
    BY <2>2, <2>3 DEF TtyRecs
  <2>5. PICK s : s = [f EXCEPT !.state = v, !.dtr = FALSE]
    OBVIOUS
  <2>6. /\ s \in TtyRecs /\ s.outq = f.outq /\ s.rawq = f.rawq /\ s.delct = f.delct
        /\ s.flags = f.flags /\ s.wake = f.wake /\ s.state = v /\ s.delays = f.delays
    BY <2>2, <2>4, <2>5 DEF TtyRecs
  <2>7. s.tcr <=> f.tcr
    BY <2>2, <2>4, <2>5 DEF TtyRecs
  <2>8. Flushed(t, s)
    <3>1. DeviceTold(f) => DeviceTold(s)
      BY <2>3, <2>6, <2>7 DEF DeviceTold
    <3> QED BY <2>2, <2>6, <3>1 DEF Flushed
  <2>9. Becomes(s) /\ slipped' = (slipped \/ Slips(f))
    <3>1. [Flushtty(t) EXCEPT !.state = @ \ {"CARR_ON"}, !.dtr = FALSE] = s
      BY <2>1, <2>3, <2>5, Zenon
    <3> QED BY <1>4, <2>1, <3>1 DEF Scan
  <2>10. slipped' \in BOOLEAN /\ (~slipped' => ~slipped /\ ~Slips(f))
    BY <1>1, <2>9
  <2>11. ~slipped' => \A p \in Users : at[p] # "delct"
    BY <2>2, <2>10 DEF Flushed, Slips
  <2> QED BY <1>2, <2>6, <2>8, <2>9, <2>10, <2>11, InterruptKeeps
<1> QED BY <1>3, <1>4

\* Every step keeps the invariant.
LEMMA TtyNextOK == TtyAssumption /\ TtyInv /\ [TtyNext]_ttyVars => TtyInv'
<1> SUFFICES ASSUME TtyAssumption, TtyInv, [TtyNext]_ttyVars PROVE TtyInv'
  OBVIOUS
<1>1. ASSUME NEW p \in Users, BeginCall(p) PROVE TtyInv'
  BY <1>1, LookingKeeps, BeginOpenKeeps, BeginCloseKeeps, SetnKeeps, TstpKeeps DEF BeginCall
<1>2. ASSUME NEW p \in Users, UserStep(p) PROVE TtyInv'
  BY <1>2, ResumeKeeps, ReturnKeeps, CanonLooks, InputWaits, OpenCarrierKeeps, OpenEndKeeps,
     CanonTakes, CanonCountKeeps, CanonEndKeeps, PasscKeeps, WriteCharKeeps, WriteEndKeeps,
     OutputWaits, FlushEndKeeps, SetpModesKeeps, CloseForgetsKeeps DEF UserStep
<1>3. ASSUME Line PROVE TtyInv'
  BY <1>3 DEF Line, TtyInv, TtyProcsOK, TtyLineOK, Doing
<1>4. CASE UNCHANGED ttyVars
  BY <1>4 DEF ttyVars, TtyInv, TtyProcsOK, TtyLineOK, Doing
<1> QED BY <1>1, <1>2, <1>3, <1>4, RintKeeps, OutputGoesOn, ScanKeeps DEF TtyNext

\* Both sides of a line agree: the lines that canon finds are those that were typed, and who
\* sleeps until there is room for output has output under way (tty.c:287-296, 373-405).
THEOREM TtyTheorem == TtySpec => []TtyOK
<1>1. TtyInit => TtyInv
  BY TtyAssumption, TtyInitOK
<1>2. TtyInv /\ [TtyNext]_ttyVars => TtyInv'
  BY TtyAssumption, TtyNextOK
<1> QED BY <1>1, <1>2, TtyInvImplies, PTL DEF TtySpec

\* Only canon, in its first step, goes from "canon" to "line".
LEMMA OnlyCanonStart ==
    ASSUME TtyNext, NEW p \in Users, at \in [Users -> TtyPlaces], at[p] = "canon",
           at'[p] = "line"
    PROVE  CanonStart(p)
<1>1. ASSUME NEW q \in Users, BeginCall(q) PROVE FALSE
  <2>1. PICK l : at[q] = "user" /\ at' = [at EXCEPT ![q] = l]
    BY <1>1 DEF BeginCall, BeginOpen, BeginRead, BeginWrite, BeginSetp, Setn, Tstp, BeginClose,
                Begin
  <2> QED BY <2>1
<1>2. ASSUME NEW q \in Users, UserStep(q) PROVE CanonStart(p)
  <2>1. CASE CanonStart(q)
    <3>1. at' = [at EXCEPT ![q] = "line"]
      BY <2>1 DEF CanonStart, GoesTo
    <3>2. q = p
      BY <3>1
    <3> QED BY <2>1, <3>2
  <2>2. ASSUME at' = at PROVE FALSE
    BY <2>2
  <2>3. ASSUME NEW l, l # "line", at' = [at EXCEPT ![q] = l] PROVE FALSE
    BY <2>3
  <2>4. CASE Resume(q) \/ TtyReturn(q) \/ OpenCarrier(q) \/ OpenEnd(q)
    BY <2>2, <2>3, <2>4 DEF Resume, TtyReturn, OpenCarrier, OpenEnd, GoesTo
  <2>5. CASE OpenWait(q) \/ CanonWait(q)
    BY <2>2, <2>3, <2>5 DEF OpenWait, CanonWait, SleepOrLeave
  <2>6. CASE WriteWait(q) \/ FlushWait(q)
    BY <2>2, <2>3, <2>6 DEF WriteWait, FlushWait, WaitForRoom, SleepOrLeave
  <2>7. CASE CanonHangup(q) \/ CanonChar(q) \/ CanonDelim(q)
    BY <2>2, <2>3, <2>7 DEF CanonHangup, CanonChar, CanonDelim, GoesTo
  <2>8. CASE CanonCount(q) \/ CanonEnd(q) \/ Passc(q)
    BY <2>2, <2>3, <2>8 DEF CanonCount, CanonEnd, Passc, GoesTo
  <2>9. CASE WriteChar(q) \/ WriteEnd(q) \/ FlushEnd(q)
    BY <2>2, <2>3, <2>9 DEF WriteChar, WriteEnd, FlushEnd, GoesTo
  <2>10. CASE SetpModes(q) \/ CloseForgets(q)
    BY <2>2, <2>3, <2>10 DEF SetpModes, CloseForgets, GoesTo
  <2> QED BY <1>2, <2>1, <2>4, <2>5, <2>6, <2>7, <2>8, <2>9, <2>10 DEF UserStep
<1>3. CASE Rint \/ Xint \/ Ttrstrt \/ Scan \/ Line
  <2>1. at' = at
    BY <1>3 DEF Rint, Xint, Ttrstrt, Scan, Line
  <2> QED BY <2>1
<1> QED BY <1>1, <1>2, <1>3 DEF TtyNext

\* Unless the count has gone wrong, canon goes on to a line that is there (tty.c:287-288).
THEOREM CanonTheorem == TtySpec => CanonWaitsForALine
<1>1. TtyInit => TtyInv
  BY TtyAssumption, TtyInitOK
<1>2. TtyInv /\ [TtyNext]_ttyVars => TtyInv'
  BY TtyAssumption, TtyNextOK
<1> DEFINE A == \A p \in Users : ~slipped /\ at[p] = "canon" /\ at'[p] = "line" =>
                 IF Raw(t) THEN t.rawq # <<>> ELSE Delims(t.rawq) > 0
<1>3. TtyInv /\ [TtyNext]_ttyVars => [A]_ttyVars
  <2> SUFFICES ASSUME TtyInv, TtyNext, NEW p \in Users, ~slipped, at[p] = "canon",
                      at'[p] = "line"
               PROVE  IF Raw(t) THEN t.rawq # <<>> ELSE Delims(t.rawq) > 0
    OBVIOUS
  <2>1. CanonStart(p)
    BY OnlyCanonStart DEF TtyInv, TtyProcsOK
  <2>2. ~NothingTyped(t) /\ who = p
    BY <2>1 DEF CanonStart, InKernel
  <2>3. CASE Raw(t)
    BY <2>2, <2>3 DEF NothingTyped
  <2>4. CASE ~Raw(t)
    <3>1. t.delct # 0 /\ ~Doing("delct")
      BY <2>2, <2>4 DEF NothingTyped, Doing
    <3>2. PICK n, d : n = t.delct /\ d = Delims(t.rawq)
      OBVIOUS
    <3>3. n \in Int /\ t.rawq \in Seq(TtyChars)
      BY <3>2 DEF TtyInv, TtyLineOK, TtyRecs
    <3>4. d \in Nat
      BY <3>2, <3>3, DelimsFinite
    <3>5. n - d = 0 /\ n # 0
      BY <3>1, <3>2 DEF TtyInv, TtyLineOK
    <3>6. d > 0
      BY <3>3, <3>4, <3>5
    <3> QED BY <2>4, <3>2, <3>6
  <2> QED BY <2>3, <2>4
<1> QED BY <1>1, <1>2, <1>3, PTL DEF TtySpec, CanonWaitsForALine
=============================================================================
