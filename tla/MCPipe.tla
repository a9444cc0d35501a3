------------------------------- MODULE MCPipe -------------------------------
(***************************************************************************)
(* Small instances of the pipe: a PIPSIZ of two, and writes that do not    *)
(* divide it.                                                              *)
(***************************************************************************)
EXTENDS Pipe, TLC

CONSTANTS p1, p2, p3

\* The processes the creator forks are interchangeable.
Symmetry == Permutations(Procs \ {Creator})
=============================================================================
