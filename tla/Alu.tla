-------------------------------- MODULE Alu --------------------------------
(***************************************************************************)
(* Integer instructions and their condition codes: Calculator and the      *)
(* enums of Opcode.java on IntData of Data.java.                           *)
(*                                                                         *)
(* A value is kept as the unsigned number its bytes make.  A behaviour     *)
(* executes one instruction and then finds out which conditional branches  *)
(* would be taken.  A reader or writer of operands is not modelled: a and  *)
(* b are the first two operands, c the third operand of CASE.              *)
(***************************************************************************)
EXTENDS Integers, FiniteSets, FiniteSetsExt

CONSTANTS
    ByteBits,   \* bits of a byte, 8 in the code
    Size,       \* Size[t]: bytes of a value of type t
    Values(_),  \* bound: the operands of each type
    Ops         \* the instructions

ASSUME AluAssumption ==
    /\ ByteBits \in Nat \ {0}
    /\ DOMAIN Size = {"B", "W", "L"}
    /\ Size["B"] = 1 /\ Size["W"] \in Nat \ {0} /\ Size["L"] \in Nat \ {0}
    /\ Size["B"] <= Size["W"] /\ Size["W"] <= Size["L"]
    /\ \A t \in {"B", "W", "L"} : Values(t) \subseteq 0..2^(ByteBits * Size[t]) - 1

Types == {"B", "W", "L"}

Width(t) == ByteBits * Size[t]

VARIABLES
    ins,        \* the instruction: op, type, to (CVT), operands a, b, c
    phase,      \* "fetched", "executed", "branched"
    result,     \* the value stored
    cc,         \* flagN, flagZ, flagV, flagC
    taken       \* the branches that are taken

aluVars == <<ins, phase, result, cc, taken>>

----------------------------------------------------------------------------
(* IntData *)

\* Of n, what the bytes of a value of type t hold.
IntData(n, t) == n % 2^Width(t)

IsNeg(v, t) == v >= 2^(Width(t) - 1)

Sint(v, t) == IF IsNeg(v, t) THEN v - 2^Width(t) ELSE v

\* A long has no bits left to be unsigned in: uint is an int of Java, with the mask of all bits.
Uint(v, t) == IF t = "L" THEN Sint(v, t) ELSE v

BitInvert(v, t) == 2^Width(t) - 1 - v

LargestNegative(t) == 2^(Width(t) - 1)

Byte(v, k) == (v \div 2^(ByteBits * k)) % 2^ByteBits

----------------------------------------------------------------------------
(* Calculator *)

\* A result with the codes N and Z of it.
Result(v, t, V, C) == [val |-> v, N |-> IsNeg(v, t), Z |-> v = 0, V |-> V, C |-> C]

CarryLost(x, y, k, carry) == IF k = 0 THEN carry ELSE 0

\* The carry into the byte k of x + y.
CarryInto(x, y, k, carry) ==
    LET c[j \in 0..k] ==
            IF j = 0 THEN carry
            ELSE (Byte(x, j - 1) + Byte(y, j - 1) + c[j - 1]) \div 2^ByteBits
    IN c[k]

AddWith(x, y, t, carry) ==
    LET byte(k) == (Byte(x, k) + Byte(y, k) + CarryInto(x, y, k, carry)) % 2^ByteBits
        sum == MapThenSumSet(LAMBDA k : byte(k) * 2^(ByteBits * k), 0..Size[t] - 1)
    IN Result(sum, t,
              IsNeg(x, t) = IsNeg(y, t) /\ IsNeg(x, t) # IsNeg(sum, t),
              CarryInto(x, y, Size[t], carry) = 1)

Add(x, y, t) == AddWith(x, y, t, 0)

Sub(x, y, t) == [AddWith(x, BitInvert(y, t), t, 1) EXCEPT !.C = ~@]

\* The product is a long: its high half are the bits above those of an int.
Mul(x, y, t) ==
    LET product == Sint(x, t) * Sint(y, t)
        int == 2^Width("L")
        prod == IntData(product, t)
        highHalf == (product \div int) % int
    IN Result(prod, t,
              (IsNeg(prod, t) /\ highHalf = int - 1) \/ (~IsNeg(prod, t) /\ highHalf = 0),
              FALSE)

\* Java's division.
Quotient(x, y) ==
    LET abs(n) == IF n < 0 THEN -n ELSE n
        q == abs(x) \div abs(y)
    IN IF (x < 0) = (y < 0) THEN q ELSE -q

DivFails(x, y, t) == y = 0 \/ (x = LargestNegative(t) /\ Sint(y, t) = -1)

\* div and, if it fails, what Div.execute stores and sets.
Div(x, y, t) ==
    IF DivFails(x, y, t) THEN Result(x, t, TRUE, FALSE)
    ELSE Result(IntData(Quotient(Sint(x, t), Sint(y, t)), t), t, FALSE, FALSE)

Ash(count, v, t) ==
    LET src == Sint(v, t)
        most == Width(t) - 1
        val == IF count >= 0
               THEN IF count > most THEN 0 ELSE src * 2^count
               ELSE src \div 2^(IF count < -most THEN most ELSE -count)
        shifted == IntData(val, t)
    IN Result(shifted, t, IsNeg(v, t) # IsNeg(shifted, t), FALSE)

Cmp(x, y, t) ==
    [N |-> Sint(x, t) < Sint(y, t), Z |-> Sint(x, t) = Sint(y, t), V |-> FALSE,
     C |-> Uint(x, t) < Uint(y, t)]

Cvt(v, t, to) ==
    LET cvtVal == IntData(Sint(v, t), to)
    IN Result(cvtVal, to, IsNeg(v, t) # IsNeg(cvtVal, to), FALSE)

\* The entry of the table that CASE jumps by; limit + 1 is what follows the table.
Case(sel, base, limit, t) ==
    LET offset == IntData(Sint(sel, t) - Sint(base, t), t)
        d == Sub(offset, limit, t)
    IN [d EXCEPT !.V = FALSE, !.val = IF d.C \/ d.Z THEN offset ELSE limit + 1]

----------------------------------------------------------------------------
(* Instructions *)

Codes(r) == [N |-> r.N, Z |-> r.Z, V |-> r.V, C |-> r.C]

Stores(r) == result' = r.val /\ cc' = Codes(r)

\* AOB and SOB leave C as it was.
StoresKeepingC(r) == result' = r.val /\ cc' = [Codes(r) EXCEPT !.C = cc.C]

Executes(ops) ==
    /\ phase = "fetched" /\ ins.op \in ops
    /\ phase' = "executed"
    /\ UNCHANGED <<ins, taken>>

Arithmetic ==
    /\ Executes({"ADD", "SUB", "MUL", "DIV"})
    /\ Stores(CASE ins.op = "ADD" -> Add(ins.b, ins.a, ins.type)
                [] ins.op = "SUB" -> Sub(ins.b, ins.a, ins.type)
                [] ins.op = "MUL" -> Mul(ins.a, ins.b, ins.type)
                [] ins.op = "DIV" -> Div(ins.b, ins.a, ins.type))

Unary ==
    /\ Executes({"INC", "DEC", "MNEG", "MCOM"})
    /\ Stores(CASE ins.op = "INC" -> Add(ins.a, 1, ins.type)
                [] ins.op = "DEC" -> Sub(ins.a, 1, ins.type)
                [] ins.op = "MNEG" -> Sub(0, ins.a, ins.type)
                [] ins.op = "MCOM" ->
                        Result(BitInvert(ins.a, ins.type), ins.type, FALSE, FALSE))

ShiftOrConvert ==
    \/ /\ Executes({"ASH"})
       /\ Stores(Ash(Sint(ins.a, "B"), ins.b, ins.type))
    \/ /\ Executes({"CVT"})
       /\ Stores(Cvt(ins.a, ins.type, ins.to))

Compare ==
    /\ Executes({"CMP", "TST"})
    /\ cc' = IF ins.op = "CMP" THEN Cmp(ins.a, ins.b, ins.type)
             ELSE Codes(Result(ins.a, ins.type, FALSE, FALSE))
    /\ UNCHANGED result

CaseOf ==
    /\ Executes({"CASE"})
    /\ Stores(Case(ins.a, ins.b, ins.c, ins.type))

\* The index is b, the limit of AOB a.
Loop ==
    /\ Executes({"AOB", "SOB"})
    /\ StoresKeepingC(IF ins.op = "AOB" THEN Add(ins.b, 1, "L") ELSE Sub(ins.b, 1, "L"))

----------------------------------------------------------------------------
(* Branches *)

BranchesOf(N, Z, V, C) ==
    {"BRB"} \cup
    {b \in {"BNEQ", "BEQL", "BGTR", "BLEQ", "BGEQ", "BLSS"} :
        CASE b = "BNEQ" -> ~Z      [] b = "BEQL" -> Z
          [] b = "BGTR" -> ~N /\ ~Z [] b = "BLEQ" -> N \/ Z
          [] b = "BGEQ" -> ~N      [] b = "BLSS" -> N} \cup
    {b \in {"BGTRU", "BLEQU", "BVC", "BVS", "BCC", "BLSSU"} :
        CASE b = "BGTRU" -> ~C /\ ~Z [] b = "BLEQU" -> C \/ Z
          [] b = "BVC" -> ~V        [] b = "BVS" -> V
          [] b = "BCC" -> ~C        [] b = "BLSSU" -> C}

\* The loop instructions branch on the result they have stored.
LoopsOf(N, Z) ==
    CASE ins.op = "AOB" ->
            {b \in {"AOBLSS", "AOBLEQ"} :
                IF b = "AOBLSS" THEN Sint(result, "L") < Sint(ins.a, "L")
                ELSE Sint(result, "L") <= Sint(ins.a, "L")}
      [] ins.op = "SOB" ->
            {b \in {"SOBGEQ", "SOBGTR"} : IF b = "SOBGEQ" THEN ~N ELSE ~N /\ ~Z}
      [] OTHER -> {}

Branch ==
    /\ phase = "executed"
    /\ taken' = BranchesOf(cc.N, cc.Z, cc.V, cc.C) \cup LoopsOf(cc.N, cc.Z)
    /\ phase' = "branched"
    /\ UNCHANGED <<ins, result, cc>>

----------------------------------------------------------------------------

\* The type of the second operand: a shift has a count of a byte, a loop is on longs.
Instructions ==
    UNION {[op : Ops \cap {"ADD", "SUB", "MUL", "DIV", "CMP"}, type : {t}, to : {t},
            a : Values(t), b : Values(t), c : {0}] : t \in Types} \cup
    UNION {[op : Ops \cap {"INC", "DEC", "MNEG", "MCOM", "TST"}, type : {t}, to : {t},
            a : Values(t), b : {0}, c : {0}] : t \in Types} \cup
    UNION {[op : Ops \cap {"CVT"}, type : {t}, to : Types \ {t},
            a : Values(t), b : {0}, c : {0}] : t \in Types} \cup
    UNION {[op : Ops \cap {"CASE"}, type : {t}, to : {t},
            a : Values(t), b : Values(t), c : Values(t)] : t \in {"B", "W"}} \cup
    [op : Ops \cap {"ASH"}, type : {"L"}, to : {"L"}, a : Values("B"), b : Values("L"),
     c : {0}] \cup
    [op : Ops \cap {"AOB", "SOB"}, type : {"L"}, to : {"L"}, a : Values("L"),
     b : Values("L"), c : {0}]

AluInit ==
    /\ ins \in Instructions
    /\ phase = "fetched"
    /\ result = 0
    /\ cc \in [N : {FALSE}, Z : {FALSE}, V : {FALSE}, C : BOOLEAN]
    /\ taken = {}

AluNext == Arithmetic \/ Unary \/ ShiftOrConvert \/ Compare \/ CaseOf \/ Loop \/ Branch

----------------------------------------------------------------------------
(* Properties *)

Done(ops) == phase # "fetched" /\ ins.op \in ops

InRange(n, t) == -(2^(Width(t) - 1)) <= n /\ n < 2^(Width(t) - 1)

\* Every variable has its type.
AluTypeOK ==
    /\ phase \in {"fetched", "executed", "branched"}
    /\ result \in 0..2^Width(ins.to) - (IF ins.op = "CASE" THEN 0 ELSE 1)
    /\ cc \in [N : BOOLEAN, Z : BOOLEAN, V : BOOLEAN, C : BOOLEAN]

\* Opcode.java:2423-2440: the bytes added with their carries are the sum; V says that
\* the sum of the signed numbers does not fit, C that the one of the unsigned does not.
AddIsSum ==
    Done({"ADD", "INC"}) =>
        LET t == ins.type
            y == IF ins.op = "INC" THEN 1 ELSE ins.b
        IN /\ result = IntData(ins.a + y, t)
           /\ cc.V = ~InRange(Sint(ins.a, t) + Sint(y, t), t)
           /\ cc.C = (ins.a + y >= 2^Width(t))

\* Opcode.java:2446-2450: adding the inverse and a carry is subtraction; V says that the
\* difference of the signed numbers does not fit, C that a unit was borrowed.
SubIsDifference ==
    Done({"SUB", "DEC", "MNEG"}) =>
        LET t == ins.type
            x == CASE ins.op = "SUB" -> ins.b [] ins.op = "DEC" -> ins.a [] OTHER -> 0
            y == IF ins.op = "DEC" THEN 1 ELSE ins.a
        IN /\ result = IntData(x - y, t)
           /\ cc.V = ~InRange(Sint(x, t) - Sint(y, t), t)
           /\ cc.C = (x < y)

\* Opcode.java:2465-2479: the quotient is truncated, the remainder has the sign of the
\* dividend; if there is no quotient V is set and the dividend stored.
DivTruncates ==
    Done({"DIV"}) =>
        LET t == ins.type
            x == Sint(ins.b, t)
            y == Sint(ins.a, t)
            q == Sint(result, t)
            rest == x - q * y
        IN \/ /\ cc.V /\ result = ins.b
              /\ y = 0 \/ ~InRange(-x, t)
           \/ /\ ~cc.V /\ y # 0
              /\ rest * rest < y * y
              /\ rest = 0 \/ (rest < 0) = (x < 0)

\* Opcode.java:914-934: a shift to the left by any count is a multiplication, one to the
\* right a division that rounds down.
AshShifts ==
    Done({"ASH"}) =>
        LET count == Sint(ins.a, "B")
            src == Sint(ins.b, "L")
        IN result = IntData(IF count >= 0 THEN src * 2^count ELSE src \div 2^(-count), "L")

\* Opcode.java:1760-1770: a number that fits is the same number after a conversion.
CvtKeepsValue ==
    Done({"CVT"}) /\ InRange(Sint(ins.a, ins.type), ins.to) =>
        Sint(result, ins.to) = Sint(ins.a, ins.type) /\ ~cc.V

\* Opcode.java:1012-1018, 1204-1301: after CMP the signed branches compare the operands as
\* signed numbers.  The unsigned ones compare bytes and words as unsigned numbers; of longs,
\* for which uint is signed (Data.java:40-43), only those of equal sign: of two others they
\* call the negative one the lower.
BranchesCompare ==
    ins.op = "CMP" /\ phase = "branched" =>
        LET t == ins.type
            x == Sint(ins.a, t)
            y == Sint(ins.b, t)
            lower == IF t = "L" /\ IsNeg(ins.a, t) # IsNeg(ins.b, t) THEN IsNeg(ins.a, t)
                     ELSE ins.a < ins.b
        IN taken = {"BRB", "BVC"} \cup
            {IF x = y THEN "BEQL" ELSE "BNEQ", IF x > y THEN "BGTR" ELSE "BLEQ",
             IF x < y THEN "BLSS" ELSE "BGEQ", IF lower THEN "BLSSU" ELSE "BCC",
             IF lower \/ ins.a = ins.b THEN "BLEQU" ELSE "BGTRU"}

\* Opcode.java:1615-1630: CASE takes the entry k of the table if the selector is base + k
\* and k is at most limit, and goes on after the table otherwise.
CaseSelects ==
    Done({"CASE"}) =>
        LET t == ins.type
            entries == {k \in 0..ins.c : IntData(ins.b + k, t) = ins.a}
        IN IF entries = {} THEN result = ins.c + 1 ELSE result \in entries

\* psl.h:7-8: N and Z are those of what has been stored, the dividend included that a
\* division leaves when it fails.
CodesOfResult ==
    Done({"ADD", "SUB", "MUL", "DIV", "INC", "DEC", "MNEG", "MCOM", "ASH", "CVT"}) =>
        /\ cc.N = (Sint(result, ins.to) < 0)
        /\ cc.Z = (Sint(result, ins.to) = 0)

\* Opcode.java:900-950, 1012-1018, 1204-1301, 1615-1630, 1752-1772, 2420-2480: an instruction
\* stores what it computes, in a value of its type, and sets the codes accordingly; the
\* branches after a comparison, and CASE, go where the operands say.
Computes ==
    /\ AluTypeOK
    /\ AddIsSum /\ SubIsDifference /\ DivTruncates /\ AshShifts /\ CvtKeepsValue
    /\ CodesOfResult
    /\ BranchesCompare /\ CaseSelects
=============================================================================
