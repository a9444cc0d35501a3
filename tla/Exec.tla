-------------------------------- MODULE Exec ---------------------------------
(***************************************************************************)
(* exec (sys1.c): the arguments are collected on the swap device, block by *)
(* block, while the old image is there, and read back onto the stack of    *)
(* the new one.  exece, getxfile and setregs; processes that exec at the   *)
(* same time share the swap map, the buffers and the locks of the files.   *)
(***************************************************************************)
EXTENDS Integers, FiniteSets, SequencesExt

CONSTANTS
    Execs, Images,     \* processes; the files they execute
    Vectors,           \* what they pass: [argv, envp], sequences of strings without their 0
    Fault,             \* a byte of a string that fubyte or fuword cannot fetch
    BSIZE, NCARGS,     \* bytes of a block; one more than the bytes exec takes
    USRSTACK,          \* the address the stack grows down from
    MaxExec            \* bound: the number of calls

ASSUME ExecAssumption ==
    /\ IsFiniteSet(Execs) /\ BSIZE \in Nat \ {0} /\ NCARGS \in Nat \ {0}
    /\ USRSTACK \in Nat /\ MaxExec \in Nat

NBPW == 4

\* The pieces malloc gives of swapmap, and the blocks of each.
Areas == 1..Cardinality(Execs)

Blocks == 0..(NCARGS + BSIZE - 1) \div BSIZE - 1

VARIABLES
    swap,       \* the buffers of the blocks: what exec stored, and whether it is being written
    ex,         \* of each process: where it is in exec, and the variables of exece
    execCalls

execVars == <<swap, ex, execCalls>>

NoExec == [pc |-> "user", file |-> "", args |-> [argv |-> <<>>, envp |-> <<>>], todo |-> <<>>,
           bno |-> 0, nc |-> 0, na |-> 0, got |-> <<>>, image |-> "old", stack |-> <<>>]

ExecInit ==
    /\ swap = [a \in Areas |-> [b \in Blocks |-> [data |-> <<>>, writing |-> FALSE]]]
    /\ ex = [e \in Execs |-> NoExec]
    /\ execCalls = 0

FreeAreas == Areas \ {ex[e].bno : e \in Execs}

FileLocked(f) == \E e \in Execs : ex[e].file = f

\* The bytes of the strings in the order they are fetched, each string with its 0.
Stream(v) == FoldLeft(LAMBDA bytes, s : bytes \o s \o <<0>>, <<>>, v.argv \o v.envp)

\* bad: the swap space and the inode are given back, whatever is still being written.
Bad(e, image, stack) ==
    /\ ex' = [ex EXCEPT ![e] = [NoExec EXCEPT !.args = ex[e].args, !.image = image,
                                              !.stack = stack]]
    /\ UNCHANGED <<swap, execCalls>>

\* namei waits for the file's lock; the call goes on if the file may be executed.
Begins(e, f, v) ==
    /\ ex[e].pc = "user" /\ execCalls < MaxExec
    /\ ~FileLocked(f) /\ FreeAreas # {}
    /\ execCalls' = execCalls + 1
    /\ ex' = [ex EXCEPT ![e] =
                 [NoExec EXCEPT !.pc = IF Stream(v) = <<>> THEN "getxfile" ELSE "collect",
                                !.file = f, !.args = v, !.todo = Stream(v),
                                !.bno = CHOOSE a \in FreeAreas : \A b \in FreeAreas : a <= b,
                                !.na = Len(v.argv \o v.envp)]]
    /\ UNCHANGED swap

----------------------------------------------------------------------------
(* The arguments onto the swap device                                      *)

\* The i-th of the bytes still to come cannot be stored: too many, or not there.
Refused(e, i) == ex[e].nc + i - 1 >= NCARGS - 1 \/ ex[e].todo[i] = Fault

\* The bytes that go into the next block.
Chunk(e) ==
    LET ok == {n \in 0..Len(ex[e].todo) : n <= BSIZE /\ \A i \in 1..n : ~Refused(e, i)}
    IN  SubSeq(ex[e].todo, 1, CHOOSE n \in ok : \A m \in ok : m <= n)

\* getblk has waited until nobody writes the block; bytes are stored up to the end of the
\* block or of the arguments, or to the first that is refused.
Collects(e) ==
    /\ ex[e].pc = "collect"
    /\ LET b == ex[e].nc \div BSIZE
           n == Len(Chunk(e))
           rest == SubSeq(ex[e].todo, n + 1, Len(ex[e].todo))
       IN  /\ ~swap[ex[e].bno][b].writing
           /\ IF rest # <<>> /\ Refused(e, n + 1)
              THEN Bad(e, "old", <<>>)
              ELSE /\ swap' = [swap EXCEPT ![ex[e].bno][b] =
                                  [data |-> Chunk(e), writing |-> TRUE]]
                   /\ ex' = [ex EXCEPT ![e].todo = rest, ![e].nc = @ + n,
                                       ![e].pc = IF rest = <<>> THEN "getxfile" ELSE "collect"]
                   /\ UNCHANGED execCalls

\* The end of a write that bawrite began.
AreaWritten(a, b) ==
    /\ swap[a][b].writing
    /\ swap' = [swap EXCEPT ![a][b].writing = FALSE]
    /\ UNCHANGED <<ex, execCalls>>

----------------------------------------------------------------------------
(* getxfile                                                                *)

\* The length, in whole words.
Words(n) == ((n + NBPW - 1) \div NBPW) * NBPW

\* The header is read and checked, the sizes are tried.
HeaderFails(e) ==
    /\ ex[e].pc = "getxfile"
    /\ Bad(e, "old", <<>>)

\* An overlay replaces the text, takes no arguments, and leaves through bad.
Overlays(e) ==
    /\ ex[e].pc = "getxfile" /\ ex[e].nc = 0
    /\ Bad(e, "overlay", <<>>)

\* The old image is given up; the process sleeps in expand and xalloc.
Commits(e) ==
    /\ ex[e].pc = "getxfile"
    /\ ex' = [ex EXCEPT ![e].pc = "load", ![e].image = "gone"]
    /\ UNCHANGED <<swap, execCalls>>

\* The data is read in, or that fails: exec then returns into the image that was to be.
Loads(e) ==
    /\ ex[e].pc = "load"
    /\ ex' = [ex EXCEPT ![e].pc = "args"]
    /\ UNCHANGED <<swap, execCalls>>

LoadFails(e) ==
    /\ ex[e].pc = "load"
    /\ Bad(e, "gone", <<>>)

----------------------------------------------------------------------------
(* The arguments onto the stack                                            *)

Zeros(bytes) == {i \in DOMAIN bytes : bytes[i] = 0}

\* bread of the next block, up to the end of the last string in it, or of the block.
Fetches(e) ==
    /\ ex[e].pc = "args" /\ Cardinality(Zeros(ex[e].got)) < ex[e].na
    /\ LET blk == swap[ex[e].bno][Len(ex[e].got) \div BSIZE]
       IN  /\ ~blk.writing
           /\ ex' = [ex EXCEPT ![e].got = @ \o blk.data]
    /\ UNCHANGED <<swap, execCalls>>

WordsBelowTwo(na) == na * NBPW + 2 * NBPW

\* The words below the strings: argc, a pointer for each string, and a 0 after each list.
WordsBelow(na) == na * NBPW + 3 * NBPW

\* What copyback leaves: the address of the first word and the words, that of the first byte
\* and the bytes.
Stack(e) ==
    LET ucp == USRSTACK - Words(ex[e].nc) - NBPW
        start(i) == ucp + (IF i = 1 THEN 0
                           ELSE CHOOSE z \in Zeros(ex[e].got) :
                                    Cardinality({y \in Zeros(ex[e].got) : y <= z}) = i - 1)
        argc == Len(ex[e].args.argv)
        ptrs(from, to) == [i \in 1..to - from + 1 |-> start(from + i - 1)]
    IN  [sp |-> ucp - WordsBelow(ex[e].na), ucp |-> ucp, bytes |-> ex[e].got,
         words |-> <<argc>> \o ptrs(1, argc) \o <<0>> \o ptrs(argc + 1, ex[e].na) \o <<0>>]

\* Everything is on the stack: setregs, and out through bad.
ExecReturns(e) ==
    /\ ex[e].pc = "args" /\ Cardinality(Zeros(ex[e].got)) = ex[e].na
    /\ Bad(e, "new", <<Stack(e)>>)

----------------------------------------------------------------------------
(* The specification                                                       *)

ExecNext ==
    \/ \E a \in Areas, b \in Blocks : AreaWritten(a, b)
    \/ \E e \in Execs :
          \/ \E f \in Images, v \in Vectors : Begins(e, f, v)
          \/ Collects(e) \/ HeaderFails(e) \/ Overlays(e) \/ Commits(e) \/ Loads(e)
          \/ LoadFails(e) \/ Fetches(e) \/ ExecReturns(e)

ExecSpec == ExecInit /\ [][ExecNext]_execVars

----------------------------------------------------------------------------
(* Properties                                                              *)

\* The string at an address of the new stack, up to its 0.
StringAt(st, addr) ==
    LET from == addr - st.ucp + 1
        end  == CHOOSE z \in Zeros(st.bytes) :
                    z >= from /\ \A y \in Zeros(st.bytes) : y >= from => z <= y
    IN  SubSeq(st.bytes, from, end - 1)

\* Words and bytes do not overlap, nor do they reach past the top of the stack.
Apart(st) ==
    /\ st.sp + NBPW * Len(st.words) <= st.ucp
    /\ st.ucp + Len(st.bytes) + NBPW <= USRSTACK

\* The program that exec started finds, through the pointers on its stack, the arguments and
\* the environment its caller passed, whatever other processes stored meanwhile.
ArgsArrive ==
    \A e \in Execs : ex[e].pc = "user" /\ ex[e].image = "new" =>
        LET st   == Head(ex[e].stack)
            argc == st.words[1]
            envc == Len(st.words) - argc - 3
        IN  /\ Apart(st) /\ st.words[argc + 2] = 0 /\ st.words[Len(st.words)] = 0
            /\ [i \in 1..argc |-> StringAt(st, st.words[i + 1])] = ex[e].args.argv
            /\ [i \in 1..envc |-> StringAt(st, st.words[argc + 2 + i])] = ex[e].args.envp
=============================================================================
