---------------------------- MODULE MCFileSystem ----------------------------
(***************************************************************************)
(* Small instances of the inodes and directories and, next to them, of the *)
(* contents of one file, and of the channels of a multiplexed file.  The   *)
(* three share no state here: a behaviour is one of one of them, the side, *)
(* and the others stay as they are.                                        *)
(***************************************************************************)
EXTENDS MCFiles, Rdwr, Mx

VARIABLE side

\* Rdwr: two processes that share the descriptor; one direct block, and blocks of two
\* units, which are also two addresses: 15 blocks at most, of 6 on the disk.
SharedFile == [p \in Callers |-> CHOOSE f \in Opened : TRUE]

fileSystemVars == <<side, vars, rdwrVars, mxVars>>

\* The channels are as new, in one group, where they are not the side.
FileSystemInit ==
    /\ side \in {"inodes", "contents", "channels"} /\ Init /\ RdwrInit /\ MxInit
    /\ side # "channels" => mx = Started(FALSE)
    /\ side = "channels" => dir[<<d1, a>>] = 1

FileSystemNext ==
    \/ side = "inodes" /\ Next /\ UNCHANGED <<side, rdwrVars, mxVars>>
    \/ side = "contents" /\ RdwrNext /\ UNCHANGED <<side, vars, mxVars>>
    \/ side = "channels" /\ MxNext /\ UNCHANGED <<side, vars, rdwrVars>>

FileSystemSymmetry == Symmetry \cup Permutations(Clients)

FileSystemSpec == FileSystemInit /\ [][FileSystemNext]_fileSystemVars
=============================================================================
