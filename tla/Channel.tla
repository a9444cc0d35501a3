------------------------------ MODULE Channel ------------------------------
(***************************************************************************)
(* What a pipe promises its users: a queue of bytes with two ends.  A      *)
(* writer's bytes go in at once, up to Part at a time; a read takes what   *)
(* is there; end of file is reported only when the queue is empty and      *)
(* nobody can write any more, a broken pipe only when nobody can read.     *)
(* The medium that holds the queue may fail.  Then a byte may turn stale in*)
(* its place, a write may leave its part cut short or stale, and a read may*)
(* lose bytes; but a write that returns "ok" has put in all of its bytes,  *)
(* and a read that returns data has lost none.                             *)
(***************************************************************************)
EXTENDS Integers, Sequences, FiniteSetsExt

CONSTANTS
    Procs,      \* processes
    Part,        \* PIPSIZ: what one write puts in at once
    MaxReq,     \* bound: the largest count of a read or a write
    Failing,    \* the medium that holds the queue may fail
    Stale       \* a byte that the medium has lost

VARIABLES
    buf,        \* the bytes in the queue
    open,       \* open[e]: the end e, "r" or "w", is open
    todo,       \* todo[p]: what p has yet to write
    last,       \* last[p]: the outcome of p's last call, "none" during one
    failed      \* failed[p]: a part of p's write has met a failure

Outcome(w, b) == [what |-> w, bytes |-> b]

cvars == <<buf, open, todo, last, failed>>

ChannelInit ==
    /\ buf = <<>>
    /\ open = [e \in {"r", "w"} |-> TRUE]
    /\ todo = [p \in Procs |-> 0]
    /\ last = [p \in Procs |-> Outcome("none", <<>>)]
    /\ failed = [p \in Procs |-> FALSE]

Chunk(p, good, k) ==
    [i \in 1..k |-> IF i <= good THEN <<p, todo[p] - i + 1>> ELSE Stale]

Ends(p, w, b) ==
    /\ last' = [last EXCEPT ![p] = Outcome(w, b)]
    /\ failed' = [failed EXCEPT ![p] = FALSE]

BeginCall(p) ==
    /\ todo' \in {[todo EXCEPT ![p] = c] : c \in 0..MaxReq}
    /\ last' = [last EXCEPT ![p] = Outcome("none", <<>>)]
    /\ UNCHANGED <<buf, open, failed>>

\* The next part of p's write goes in.
Put(p) ==
    /\ todo[p] > 0 /\ open["r"] /\ Len(buf) < Part /\ ~failed[p]
    /\ LET n == Min({todo[p], Part}) IN
        /\ buf' = buf \o Chunk(p, n, n)
        /\ todo' = [todo EXCEPT ![p] = @ - n]
    /\ UNCHANGED <<open, last, failed>>

\* The medium fails: some good bytes at most go in, and stale ones behind them.
PutFails(p) ==
    /\ Failing
    /\ todo[p] > 0 /\ open["r"] /\ Len(buf) < Part
    /\ LET n == Min({todo[p], Part}) IN
        /\ \E k \in 0..n : \E good \in 0..k :
            /\ good < n /\ (failed[p] => good = 0)
            /\ buf' = buf \o Chunk(p, good, k)
        /\ todo' = [todo EXCEPT ![p] = @ - n]
    /\ failed' = [failed EXCEPT ![p] = TRUE]
    /\ UNCHANGED <<open, last>>

EndWrite(p) ==
    /\ todo[p] = 0
    /\ Ends(p, IF failed[p] THEN "error" ELSE "ok", <<>>)
    /\ UNCHANGED <<buf, open, todo>>

Get(p) ==
    /\ buf # <<>>
    /\ \E k \in 0..Len(buf) :
        /\ Ends(p, "data", SubSeq(buf, 1, k))
        /\ buf' = SubSeq(buf, k + 1, Len(buf))
    /\ UNCHANGED <<open, todo>>

GetFails(p) ==
    /\ Failing /\ buf # <<>>
    /\ \E k \in 0..Len(buf) : buf' = SubSeq(buf, k + 1, Len(buf))
    /\ Ends(p, "error", <<>>)
    /\ UNCHANGED <<open, todo>>

TurnsStale ==
    /\ Failing
    /\ \E i \in 1..Len(buf) : buf' = [buf EXCEPT ![i] = Stale]
    /\ UNCHANGED <<open, todo, last, failed>>

EndOfFile(p) ==
    /\ buf = <<>> /\ ~open["w"]
    /\ Ends(p, "eof", <<>>)
    /\ UNCHANGED <<buf, open, todo>>

BrokenPipe(p) ==
    /\ ~open["r"]
    /\ Ends(p, "EPIPE", <<>>)
    /\ todo' = [todo EXCEPT ![p] = 0]
    /\ UNCHANGED <<buf, open>>

Interrupted(p) ==
    /\ Ends(p, IF failed[p] THEN "error" ELSE "EINTR", <<>>)
    /\ todo' = [todo EXCEPT ![p] = 0]
    /\ UNCHANGED <<buf, open>>

CloseEnd(e) ==
    /\ open[e] /\ open' = [open EXCEPT ![e] = FALSE]
    /\ UNCHANGED <<buf, todo, last, failed>>

Discard ==
    /\ ~open["r"] /\ ~open["w"] /\ buf' = <<>>
    /\ UNCHANGED <<open, todo, last, failed>>

ChannelNext ==
    \/ \E p \in Procs :
        \/ BeginCall(p) \/ Put(p) \/ PutFails(p) \/ EndWrite(p)
        \/ Get(p) \/ GetFails(p) \/ EndOfFile(p)
        \/ BrokenPipe(p) \/ Interrupted(p)
    \/ \E e \in {"r", "w"} : CloseEnd(e)
    \/ TurnsStale \/ Discard

ChannelSpec == ChannelInit /\ [][ChannelNext]_cvars
=============================================================================
