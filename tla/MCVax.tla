------------------------------- MODULE MCVax ---------------------------------
(***************************************************************************)
(* A small emulator.  Nothing connects its parts here: a behaviour is one  *)
(* instruction of Alu, or the calls and returns of Frames with a procedure *)
(* that saves nothing and one that saves both registers, or the system     *)
(* calls of Emulator.                                                      *)
(***************************************************************************)
EXTENDS MCEmulator, Alu, Frames

CONSTANTS LeafProc, SavingProc

VARIABLE part

\* Bound: bytes of ByteBits bits, two in a word and three in a long, so that the three types
\* differ and, with ByteBits = 5, the count of a shift goes beyond the width of a long.
Sizes == [t \in Types |-> CASE t = "B" -> 1 [] t = "W" -> 2 [] t = "L" -> 3]

\* Bound: all bytes; of wider values those around 0, the extremes of the three types,
\* and what extending the sign of a shorter value makes of those.
SmallValues(t) ==
    LET w == ByteBits * Sizes[t]
        near(n) == {k % 2^w : k \in n - 1..n + 1}
        ends == {k \in 1..w - 1 : k % ByteBits \in {0, ByteBits - 1}}
    IN IF t = "B" THEN 0..2^w - 1
       ELSE near(0) \cup UNION {near(2^k) \cup near(2^w - 2^k) : k \in ends}

Masks == [p \in Procs |-> IF p = SavingProc THEN {1, 2} ELSE {}]

EnablesOf == [p \in Procs |-> IF p = SavingProc THEN {"IV"} ELSE {}]

\* There is one instruction where it is not the part.
Idle ==
    /\ ins = [op |-> "TST", type |-> "B", to |-> "B", a |-> 0, b |-> 0, c |-> 0]
    /\ ~cc.C

VaxInit ==
    /\ part \in {"alu", "frames", "kernel"}
    /\ AluInit /\ FramesInit /\ EmulatorInit
    /\ part # "alu" => Idle

Only(p) ==
    /\ part = p
    /\ p # "alu" => UNCHANGED aluVars
    /\ p # "frames" => UNCHANGED framesVars
    /\ p # "kernel" => UNCHANGED emulatorVars
    /\ UNCHANGED part

VaxNext ==
    \/ Only("alu") /\ AluNext
    \/ Only("frames") /\ FramesNext
    \/ Only("kernel") /\ EmulatorNext

VaxSpec == VaxInit /\ [][VaxNext]_<<part, aluVars, framesVars, emulatorVars>>
=============================================================================
