------------------------------- MODULE MCFiles -------------------------------
(***************************************************************************)
(* Small instances of the inodes and directories.                          *)
(***************************************************************************)
EXTENDS Files, TLC

CONSTANTS p1, p2, d1, d2, a

\* Every call but link; every call by one, and those that make and free inodes by the other.
NoLink == [p \in Procs |-> {"open", "creat", "unlink", "close", "write", "update"}]
LinkByOne == [p \in Procs |-> IF p = p1 THEN NoLink[p] \cup {"link"} ELSE {"creat", "unlink"}]

TwoAndOne == [p \in Procs |-> IF p = p1 THEN 2 ELSE 1]
ThreeAndTwo == [p \in Procs |-> IF p = p1 THEN 3 ELSE 2]
Symmetry == Permutations(Dirs)
==============================================================================
