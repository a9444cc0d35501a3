------------------------------- MODULE MCBio -------------------------------
(***************************************************************************)
(* Small instances of the buffer cache.                                    *)
(***************************************************************************)
EXTENDS Bio, TLC

CONSTANTS b1, b2

Pool2 == <<b1, b2>>

\* Processes are interchangeable, and so are the blocks of a device; buffers are not,
\* since the pool is an array.
Symmetry ==
    Permutations(Procs) \cup Permutations(Tape) \cup Permutations(Blocks \ Tape)
=============================================================================
