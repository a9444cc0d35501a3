----------------------------- MODULE BlockStore -----------------------------
(***************************************************************************)
(* What the block cache promises to the file system above it: a store of   *)
(* blocks, each of which one process at a time holds, in which whoever     *)
(* gets a block by reading finds the value that was last put there.        *)
(* Nothing of buffers, delayed writes, read-ahead or the disk is visible.  *)
(***************************************************************************)
CONSTANTS
    Procs,      \* processes
    Blocks,     \* disk blocks
    Values,     \* what a block may hold; 0 to begin with
    Nobody      \* neither a process nor a value

VARIABLES
    store,      \* store[x]: the value of block x
    holder,     \* holder[x]: the process that holds block x
    seen        \* seen[x]: what its holder found in x; Nobody if it did not read

storeVars == <<store, holder, seen>>

StoreInit ==
    /\ store = [x \in Blocks |-> 0]
    /\ holder = [x \in Blocks |-> Nobody]
    /\ seen = [x \in Blocks |-> Nobody]

Grant(p, x, s) ==
    /\ holder[x] = Nobody
    /\ holder' = [holder EXCEPT ![x] = p]
    /\ seen' = [seen EXCEPT ![x] = s]
    /\ UNCHANGED store

\* Getting a block to read it shows its current value.
GrantRead(p, x) == Grant(p, x, store[x])

\* Getting a block to overwrite it shows nothing.
GrantOverwrite(p, x) == Grant(p, x, Nobody)

\* The holder gives the block back, having put v into it.
Put(p, x, v) ==
    /\ holder[x] = p
    /\ store' = [store EXCEPT ![x] = v]
    /\ holder' = [holder EXCEPT ![x] = Nobody]
    /\ seen' = [seen EXCEPT ![x] = Nobody]

\* The holder gives the block back as it was.
Yield(p, x) == Put(p, x, store[x])

StoreNext ==
    \E p \in Procs, x \in Blocks :
        \/ GrantRead(p, x)
        \/ GrantOverwrite(p, x)
        \/ Yield(p, x)
        \/ \E v \in Values : Put(p, x, v)

StoreSpec == StoreInit /\ [][StoreNext]_storeVars

=============================================================================
