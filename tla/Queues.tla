------------------------------- MODULE Queues -------------------------------
(***************************************************************************)
(* What character lists promise: each is a queue, at the end of which      *)
(* characters are put and from the front of which they are taken.          *)
(***************************************************************************)
EXTENDS SequencesExt

CONSTANT Names

VARIABLE queue

Init == queue = [q \in Names |-> <<>>]

Put(q) == IsPrefix(queue[q], queue'[q])

Take(q) == IsSuffix(queue'[q], queue[q])

Next ==
    \E q \in Names :
        /\ Put(q) \/ Take(q)
        /\ \A r \in Names \ {q} : queue'[r] = queue[r]

Spec == Init /\ [][Next]_queue
=============================================================================
