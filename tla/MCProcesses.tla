----------------------------- MODULE MCProcesses -----------------------------
(***************************************************************************)
(* Small instances of the processes and of what they share: the swapper,   *)
(* shared text, signals and tracing, exec, open files, mounting, the clock *)
(* and core.  Nothing connects them here: a behaviour is one of one of     *)
(* them, the part, and the others stay as they are.                        *)
(***************************************************************************)
EXTENDS Swap, Text, Procs, Exec, Fio, Mount, Clock, Memory, TLC

CONSTANTS p1, p2, p3, chx, chy, chz

VARIABLE part

Parts == {"swap", "text", "procs", "exec", "fio", "mount", "clock", "memory"}

\* Of the swapper's processes; the properties are all invariants.
Symmetry == Permutations(Procs \ {First})
----------------------------------------------------------------------------
(* Procs: a shell and its child; a tracer and a stopped child; two of      *)
(* them, and the first has just asked.  The terminal is that of the first  *)
(* group, or still has the number of one that is gone.                     *)

Table(procs) ==
    [s \in ProcEntries |->
        IF s = 1 THEN Newborn(1, 0, 0) ELSE IF s \in DOMAIN procs THEN procs[s] ELSE NoProc]

Traced(s, tracer) ==
    [Newborn(s, tracer, s) EXCEPT
        !.stat = "SSTOP", !.at = "stop", !.traced = TRUE, !.sig = {2}]

Families ==
    {[had |-> 0, ipc |-> NoRequest, t_pgrp |-> [t \in Terminals |-> 4],
      table |-> Table([s \in {2, 3} |->
          [Newborn(s, s - 1, 2) EXCEPT !.act[2] = IF s = 2 THEN "ign" ELSE "fun"]])],
     [had |-> 0, ipc |-> NoRequest, t_pgrp |-> [t \in Terminals |-> 2],
      table |-> Table([s \in {2, 3} |-> IF s = 2 THEN Newborn(2, 1, 2) ELSE Traced(3, 2)])],
     [had |-> 1, ipc |-> [lock |-> 4, req |-> <<"read", 0>>],
      t_pgrp |-> [t \in Terminals |-> 0],
      table |-> Table([s \in 2..5 |->
          CASE s = 2 -> SleptHigh([Newborn(2, 1, 2) EXCEPT !.at = "asked"], Ipc)
            [] s = 3 -> Newborn(3, 1, 2)
            [] s = 4 -> [Traced(4, 2) EXCEPT !.stat = "SRUN"]
            [] s = 5 -> Traced(5, 3)])]}
----------------------------------------------------------------------------
(* Exec: a string that ends with a block, one that goes on in the next, an *)
(* empty one, no strings, one that fills the space, one too long, one that *)
(* cannot be fetched after a block is written.                             *)

ExecVectors ==
    {[argv |-> <<<<chx, chy, chz>>, <<chz>>>>, envp |-> <<>>],
     [argv |-> <<<<chx>>>>, envp |-> <<<<chy, chz>>, <<>>>>],
     [argv |-> <<>>, envp |-> <<>>],
     [argv |-> <<<<chy, chx, chy, chx, chy>>>>, envp |-> <<<<chz, chz>>>>],
     [argv |-> <<<<chy, chx, chy, chx, chy>>>>, envp |-> <<<<chz, chz, chx>>>>],
     [argv |-> <<<<chx, chx, chx, chx, Fault>>>>, envp |-> <<>>]}
----------------------------------------------------------------------------
(* Mount: its processes, devices and directories are alike, and so are its *)
(* idle processes at any time.  One that begins a call may then be the one *)
(* chosen, and the first call may name the device and directory chosen: a  *)
(* permutation of any other behaviour is among those that are left.        *)

BeginsAnyCall(p) == at[p].call = "none" /\ at'[p].call # "none"

FirstDev == CHOOSE d \in Devs : TRUE

FirstDir == CHOOSE dir \in Dirs : TRUE

ChosenBegins ==
    \A p \in Mounters :
        BeginsAnyCall(p) =>
            /\ p = (CHOOSE q \in Mounters : at[q].call = "none")
            /\ mountCalls = 0 => /\ at'[p].dev \in {RootDev, FirstDev}
                                 /\ at'[p].want \in {Unnamed, <<RootDev, FirstDir>>}
----------------------------------------------------------------------------
(* The specification *)

\* The processes of Procs are those of the first family where they are not the part.
ProcessesInit ==
    /\ part \in Parts
    /\ Init /\ TextInit /\ ProcsInit /\ ExecInit /\ FioInit
    /\ MountInit /\ ClockInit /\ MemoryInit
    /\ part # "procs" => proc[4] = NoProc /\ ~proc[3].traced

Only(p) ==
    /\ part = p
    /\ p # "swap" => UNCHANGED vars
    /\ p # "text" => UNCHANGED textVars
    /\ p # "procs" => UNCHANGED procsVars
    /\ p # "exec" => UNCHANGED execVars
    /\ p # "fio" => UNCHANGED fioVars
    /\ p # "mount" => UNCHANGED mountVars
    /\ p # "clock" => UNCHANGED clockVars
    /\ p # "memory" => UNCHANGED memoryVars
    /\ UNCHANGED part

ProcessesNext ==
    \/ Only("swap") /\ Next
    \/ Only("text") /\ TextNext
    \/ Only("procs") /\ ProcsNext
    \/ Only("exec") /\ ExecNext
    \/ Only("fio") /\ FioNext
    \/ Only("mount") /\ MountNext /\ ChosenBegins
    \/ Only("clock") /\ ClockNext
    \/ Only("memory") /\ MemoryNext

processVars ==
    <<part, vars, textVars, procsVars, execVars, fioVars, mountVars, clockVars, memoryVars>>

ProcessesSpec == ProcessesInit /\ [][ProcessesNext]_processVars
=============================================================================
