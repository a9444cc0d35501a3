----------------------------- MODULE MCEmulator -----------------------------
(***************************************************************************)
(* Small instances of the emulator.                                        *)
(***************************************************************************)
EXTENDS Emulator, TLC

CONSTANTS t1, t2, t3, i1, i2

OneStd == <<i1>>

Symmetry == Permutations(Threads \ {First}) \cup Permutations(Items \ {i1})
=============================================================================
