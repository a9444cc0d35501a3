------------------------------- MODULE Frames -------------------------------
(***************************************************************************)
(* Procedure calls of the emulator: CALLG, CALLS and RET of Opcode.java on *)
(* the stack of Context.java.                                              *)
(*                                                                         *)
(* mem[b] is the longword that begins at byte b; storing one destroys      *)
(* those it overlaps.  Between calls a procedure computes, pushes and      *)
(* moves the stack pointer by bytes, as compiled code does, but stays      *)
(* below its frame.  A moved stack pointer stands for bytes pushed and     *)
(* longwords popped.                                                       *)
(***************************************************************************)
EXTENDS Integers, SequencesExt, FiniteSetsExt

CONSTANTS
    Top,        \* the stack is empty when the stack pointer is Top
    Regs,       \* the general registers a procedure may save, 0..11 in the code
    Vals,       \* bound: the values of registers
    Procs,      \* procedures: the addresses of their entry masks
    Mask,       \* Mask[p]: the registers in the entry mask of p
    Enables,    \* Enables[p]: the flags p's entry mask enables
    MaxSteps,   \* bound
    Junk        \* a longword partly overwritten

ASSUME FramesAssumption ==
    /\ Top \in Nat /\ MaxSteps \in Nat
    /\ Regs \subseteq Nat /\ IsFiniteSet(Regs)
    /\ Procs \subseteq Nat \ {0}
    /\ Mask \in [Procs -> SUBSET Regs]
    /\ Enables \in [Procs -> SUBSET {"IV", "DV"}]

VARIABLES
    reg,        \* R0 to R11
    pc, ap, fp, sp,
    psw,        \* the flags that are set; "CC" stands for N, Z, V, C
    mem,
    calls,      \* for each active call, the caller's state when it was made
    steps

framesVars == <<reg, pc, ap, fp, sp, psw, mem, calls, steps>>

Step == steps < MaxSteps /\ steps' = steps + 1

\* What the longwords s pushed one after the other leave in memory.
Pushed(m, top, s) ==
    LET end == top - 4 * Len(s)
    IN [b \in DOMAIN m |->
            IF b \in end..top - 1 /\ (top - b) % 4 = 0 THEN s[(top - b) \div 4]
            ELSE IF b \in end - 3..top - 1 THEN Junk
            ELSE m[b]]

Aligned(a) == a - (a % 4)

----------------------------------------------------------------------------
(* Calls *)

StatusAligned(p, type, preSp) ==
    [low |-> 0, s |-> type = "S", mask |-> Mask[p], psw |-> psw \ {"CC", "T"}]

Status(p, type, preSp) ==
    [low |-> preSp % 4, s |-> type = "S", mask |-> Mask[p], psw |-> psw \ {"CC", "T"}]

\* What a call of p pushes: registers from the highest, PC, FP, AP, status and 0.
Saved(p, type, preSp) ==
    LET regs == SetToSortSeq(Mask[p], LAMBDA i, j : i > j)
    IN [k \in 1..Len(regs) |-> reg[regs[k]]]
       \o <<pc, fp, ap, Status(p, type, preSp), 0>>

ArgPointerAligned(type, preSp, arg) == IF type = "S" THEN Aligned(preSp) ELSE arg

ArgPointer(type, preSp, arg) == IF type = "S" THEN preSp ELSE arg

Call(p, type, n, arg) ==
    LET preSp == IF type = "S" THEN sp - 4 ELSE sp
        pushed == IF type = "S" THEN Pushed(mem, sp, <<n>>) ELSE mem
        frame == Saved(p, type, preSp)
    IN /\ Step
       /\ mem' = Pushed(pushed, Aligned(preSp), frame)
       /\ sp' = Aligned(preSp) - 4 * Len(frame)
       /\ sp' >= 0
       /\ fp' = sp'
       /\ ap' = ArgPointer(type, preSp, arg)
       /\ psw' = (psw \ {"CC", "IV", "DV", "FU"}) \cup Enables[p]
       /\ pc' = p
       /\ calls' = Append(calls, [reg |-> reg, pc |-> pc, ap |-> ap, fp |-> fp, sp |-> sp,
                                  psw |-> psw, mask |-> Mask[p],
                                  n |-> IF type = "S" THEN n ELSE 0, type |-> type,
                                  args |-> [i \in 1..n |-> mem[sp + 4 * (i - 1)]]])
       /\ UNCHANGED reg

\* The part of the stack that is the procedure's own ends here.
Limit == IF calls = <<>> THEN Top ELSE fp

CallS == \E p \in Procs, n \in 0..(Limit - sp) \div 4 : Call(p, "S", n, ap)

CallG == \E p \in Procs, arg \in {sp, ap} : Call(p, "G", 0, arg)

\* The low byte of a longword.
ArgCounts(v) == IF v = Junk THEN {0, 255} ELSE {v % 256}

Ret ==
    /\ Step
    /\ calls # <<>>
    /\ LET status == mem[fp + 4]
           regs == SetToSortSeq(status.mask, LAMBDA i, j : i < j)
           end == fp + 20 + 4 * Len(regs)
           preSp == end + status.low
       IN /\ ap' = mem[fp + 8]
          /\ fp' = mem[fp + 12]
          /\ pc' = mem[fp + 16]
          /\ reg' = [r \in Regs |->
                IF r \in status.mask
                THEN mem[fp + 20 + 4 * Cardinality({i \in status.mask : i < r})]
                ELSE reg[r]]
          /\ psw' = status.psw
          /\ IF status.s
             THEN \E n \in ArgCounts(mem[preSp]) : sp' = preSp + 4 + 4 * n
             ELSE sp' = preSp
    /\ calls' = Front(calls)
    /\ UNCHANGED mem

----------------------------------------------------------------------------
(* What a procedure does between calls *)

Compute ==
    /\ Step
    /\ \E r \in Regs, v \in Vals : v # reg[r] /\ reg' = [reg EXCEPT ![r] = v]
    /\ psw' = psw \cup {"CC"}
    /\ UNCHANGED <<pc, ap, fp, sp, mem, calls>>

Push ==
    /\ Step
    /\ sp >= 4
    /\ \E r \in Regs : mem' = Pushed(mem, sp, <<reg[r]>>)
    /\ sp' = sp - 4
    /\ UNCHANGED <<reg, pc, ap, fp, psw, calls>>

\* Bytes and words pushed or popped, a local area.
Move ==
    /\ Step
    /\ \E k \in {-1, 4} :
        /\ sp + k \in 0..Limit
        /\ sp' = sp + k
        /\ mem' = IF k < 0 THEN [b \in DOMAIN mem |-> IF b \in sp + k - 3..sp - 1 THEN Junk
                                                      ELSE mem[b]] ELSE mem
    /\ UNCHANGED <<reg, pc, ap, fp, psw, calls>>

FramesInit ==
    /\ reg \in [Regs -> {Min(Vals)}]
    /\ pc = 0 /\ ap = 0 /\ fp = 0 /\ sp = Top
    /\ psw = {}
    /\ mem = [b \in 0..Top - 1 |-> Junk]
    /\ calls = <<>>
    /\ steps = 0

FramesNext == CallS \/ CallG \/ Ret \/ Compute \/ Push \/ Move

----------------------------------------------------------------------------
(* Properties *)

\* Every variable has its type.
FramesTypeOK ==
    /\ reg \in [Regs -> Vals]
    /\ pc \in Procs \cup {0}
    /\ ap \in 0..Top /\ fp \in 0..Top /\ sp \in 0..Top
    /\ psw \subseteq {"CC", "T", "FU", "IV", "DV"}
    /\ DOMAIN mem = 0..Top - 1

\* Opcode.java:1431-1560: RET gives the caller its PC, AP, FP and flags and the registers
\* of the mask; the other registers are as the procedure left them; the stack pointer is
\* what it was before the caller pushed the arguments, whatever its low bits.
RetRestores ==
    [][Len(calls') < Len(calls) =>
        LET c == Last(calls)
        IN /\ pc' = c.pc /\ ap' = c.ap /\ fp' = c.fp
           /\ psw' = c.psw \ {"CC", "T"}
           /\ reg' = [r \in Regs |-> IF r \in c.mask THEN c.reg[r] ELSE reg[r]]
           /\ sp' = c.sp + 4 * c.n]_framesVars

\* Opcode.java:1455-1497: a procedure called by CALLS finds the number of its arguments at
\* AP and the arguments above it, as long as it runs.
ArgsFound ==
    calls # <<>> /\ Last(calls).type = "S" =>
        LET c == Last(calls)
        IN /\ mem[ap] = c.n
           /\ \A i \in 1..c.n : mem[ap + 4 * i] = c.args[i]

\* Opcode.java:1431-1560: the types, and what a procedure finds at AP.
FramesOK == FramesTypeOK /\ ArgsFound

\* Opcode.java:1431-1560: a procedure finds its arguments as long as it runs, and RET restores
\* all that the call has saved.
FramesRight == []FramesOK /\ RetRestores
=============================================================================
