-------------------------------- MODULE Disk --------------------------------
(***************************************************************************)
(* The disk driver sys/sys/hp.c with its queues, sorted by sys/sys/dsort.c.*)
(*                                                                         *)
(* Each drive has a queue of requests; drives whose heads are in place are *)
(* on the list of the controller, hptab, which transfers for one at a time *)
(* while others search.  The code below runs at spl5; of a call of hpstart *)
(* each turn of its loop is a step, and nothing else moves meanwhile.      *)
(* Sizes of file systems, sectors and statistics are left out.             *)
(***************************************************************************)
EXTENDS Integers, Sequences, SequencesExt

CONSTANTS
    Bufs,       \* buffers that requests are made with
    Units, NoBuf,
    Cylinders,  \* bound: the cylinders that are asked for
    MaxErrcnt,  \* 28: a transfer is given up after so many errors
    MaxRequests,    \* bound: requests
    MaxEvents   \* bound: how often a drive goes off or on line

ASSUME DiskAssumption ==
    /\ IsFiniteSet(Units) /\ NoBuf \notin Units /\ Cylinders \subseteq Nat
    /\ {MaxErrcnt, MaxRequests, MaxEvents} \subseteq Nat

VARIABLES
    req,        \* req[b]: the request made with b: its unit, cylinder, direction, state
    actf,       \* actf[u]: hputab[u].b_actf, the requests for u
    busy,       \* busy: the units whose b_active is set
    tab,        \* hptab: b_actf, b_actl, b_active, b_errcnt
    forw,       \* forw[u]: hputab[u].b_forw
    starting,   \* hpstart is running
    hpdc,       \* hpdc[u]: the cylinder the heads of u are at
    searching,  \* drives that search
    att,        \* drives that ask for attention
    online,     \* drives that are there and on line
    requests, events    \* counters for the bounds

diskVars == <<req, actf, busy, tab, forw, starting, hpdc, searching, att, online, requests,
              events>>

----------------------------------------------------------------------------
(* disksort *)

\* The place in q after the last request of those numbered in C that is farthest in.
Farthest(q, C) ==
    CHOOSE n \in C : \A k \in C : req[q[k]].cylin < req[q[n]].cylin
                                  \/ (req[q[k]].cylin = req[q[n]].cylin /\ k <= n)

\* A read goes among the reads before the first write, or behind that; a write among the
\* writes.  Nothing goes before the first request, which may be under way.
PlaceIn(q, r) ==
    LET write == SelectInSeq(q, LAMBDA b : ~req[b].read)
        last == IF write = 0 \/ ~r.read THEN Len(q) ELSE write - 1
        C == {n \in 1..last : req[q[n]].read = r.read /\ req[q[n]].cylin <= r.cylin}
    IN IF C # {} THEN Farthest(q, C)
       ELSE IF r.read /\ write # 0 THEN write
       ELSE Len(q)

SortedInFront(q, b, r) == InsertAt(q, IF q = <<>> THEN 1 ELSE PlaceIn(q, r), b)

Sorted(q, b, r) == InsertAt(q, IF q = <<>> THEN 1 ELSE PlaceIn(q, r) + 1, b)

----------------------------------------------------------------------------
(* hpustart: what becomes of the driver's state k for unit u *)

\* u goes to the end of hptab's list, even when it is on it.
Ready(k, u) ==
    LET f == [k.forw EXCEPT ![u] = NoBuf]
    IN [k EXCEPT !.tab.actf = IF @ = NoBuf THEN u ELSE @, !.tab.actl = u,
                 !.forw = IF k.tab.actf = NoBuf THEN f ELSE [f EXCEPT ![k.tab.actl] = u]]

\* The heads are moved, unless they are there and the sector is near: inPlace.
hpustart(k, u, inPlace) ==
    IF k.actf[u] = <<>> THEN k
    ELSE IF u \in k.busy THEN Ready(k, u)
    ELSE LET b == [k EXCEPT !.busy = @ \cup {u}]
             cn == req'[Head(k.actf[u])].cylin
         IN IF u \notin online \/ (cn = k.hpdc[u] /\ inPlace) THEN Ready(b, u)
            ELSE [b EXCEPT !.hpdc[u] = cn, !.searching = @ \cup {u}]

Driver == [actf |-> actf, busy |-> busy, tab |-> tab, forw |-> forw, hpdc |-> hpdc,
           searching |-> searching]

DiskBecomes(k) ==
    /\ actf' = k.actf /\ busy' = k.busy /\ tab' = k.tab /\ forw' = k.forw
    /\ hpdc' = k.hpdc /\ searching' = k.searching

\* iodone, with or without B_ERROR.
NoRequest == [unit |-> NoBuf, cylin |-> 0, read |-> FALSE, queued |-> FALSE]

RequestDone(b) == req' = [req EXCEPT ![b] = NoRequest]

----------------------------------------------------------------------------
(* hpstrategy *)

\* A request beyond the end of the file system is done with at once.
Request(b) ==
    /\ ~starting /\ ~req[b].queued /\ requests < MaxRequests
    /\ requests' = requests + 1
    /\ \E u \in Units, c \in Cylinders, r \in BOOLEAN, inRange, inPlace \in BOOLEAN :
        IF ~inRange
          THEN /\ RequestDone(b)
               /\ UNCHANGED <<actf, busy, tab, forw, hpdc, searching, starting>>
          ELSE LET new == [unit |-> u, cylin |-> c, read |-> r, queued |-> TRUE]
                   k == [Driver EXCEPT !.actf[u] = Sorted(@, b, new)]
               IN /\ req' = [req EXCEPT ![b] = new]
                  /\ DiskBecomes(IF u \in busy THEN k ELSE hpustart(k, u, inPlace))
                  /\ starting' = (u \notin busy /\ ~tab.active)
    /\ UNCHANGED <<att, online, events>>

----------------------------------------------------------------------------
(* hpstart *)

\* A unit without requests leaves the list.
StartSkip ==
    /\ starting /\ tab.actf # NoBuf /\ actf[tab.actf] = <<>>
    /\ tab' = [tab EXCEPT !.actf = forw[@]]
    /\ UNCHANGED <<req, actf, busy, forw, starting, hpdc, searching, att, online, requests,
                   events>>

\* The requests for a drive that is off line fail.  It remains marked as active.
StartOffline ==
    LET u == tab.actf IN
    /\ starting /\ u # NoBuf /\ actf[u] # <<>> /\ u \notin online
    /\ RequestDone(Head(actf[u]))
    /\ actf' = [actf EXCEPT ![u] = Tail(@)]
    /\ tab' = [tab EXCEPT !.active = FALSE, !.errcnt = 0]
    /\ UNCHANGED <<busy, forw, starting, hpdc, searching, att, online, requests, events>>

StartTransfer ==
    LET u == tab.actf IN
    /\ starting /\ u # NoBuf /\ actf[u] # <<>> /\ u \in online
    /\ tab' = [tab EXCEPT !.active = TRUE]
    /\ hpdc' = [hpdc EXCEPT ![u] = req[Head(actf[u])].cylin]
    /\ starting' = FALSE
    /\ UNCHANGED <<req, actf, busy, forw, searching, att, online, requests, events>>

StartNothing ==
    /\ starting /\ tab.actf = NoBuf
    /\ starting' = FALSE
    /\ UNCHANGED <<req, actf, busy, tab, forw, hpdc, searching, att, online, requests, events>>

----------------------------------------------------------------------------
(* hpintr *)

\* hpustart for the units that ask for attention, in their order.
Attended(k, us) == FoldLeft(LAMBDA s, u : hpustart(s, u, TRUE), k, SetToSeq(us))

EndsOnList ==
    LET u == tab.actf
        b == Head(actf[u])
        k == [Driver EXCEPT !.tab.active = FALSE, !.tab.errcnt = 0,
                            !.busy = @ \ {u}, !.actf[u] = Tail(@)]
    IN \E inPlace \in BOOLEAN :
        /\ RequestDone(b)
        /\ DiskBecomes(Attended(hpustart(k, u, inPlace), att \ {u}))

\* The end of a transfer without error, with one that is hopeless, or one too many, or one
\* that the data was corrected for.
Ends ==
    LET u == tab.actf
        b == Head(actf[u])
        k == [Driver EXCEPT !.tab.active = FALSE, !.tab.errcnt = 0, !.tab.actf = forw[u],
                            !.busy = @ \ {u}, !.actf[u] = Tail(@)]
    IN \E inPlace \in BOOLEAN :
        /\ RequestDone(b)
        /\ DiskBecomes(Attended(hpustart(k, u, inPlace), att \ {u}))

IntrEnd ==
    /\ ~starting /\ tab.active
    /\ Ends
    /\ starting' = TRUE /\ att' = {}
    /\ UNCHANGED <<online, requests, events>>

\* The transfer is tried again.
DiskRetry ==
    /\ ~starting /\ tab.active /\ tab.errcnt < MaxErrcnt
    /\ DiskBecomes(Attended([Driver EXCEPT !.tab.active = FALSE, !.tab.errcnt = @ + 1],
                        att \ {tab.actf}))
    /\ starting' = TRUE /\ att' = {}
    /\ UNCHANGED <<req, online, requests, events>>

\* Between transfers drives are attended to.
IntrAttention ==
    /\ ~starting /\ ~tab.active /\ att # {}
    /\ DiskBecomes(Attended(Driver, att))
    /\ starting' = TRUE /\ att' = {}
    /\ UNCHANGED <<req, online, requests, events>>

----------------------------------------------------------------------------
(* The drives *)

SearchEnds ==
    /\ ~starting
    /\ \E u \in searching :
        /\ searching' = searching \ {u}
        /\ att' = att \cup {u}
    /\ UNCHANGED <<req, actf, busy, tab, forw, starting, hpdc, online, requests, events>>

\* A drive goes off line, or on line again, and asks for attention.
DriveEvent ==
    /\ ~starting /\ events < MaxEvents
    /\ events' = events + 1
    /\ \E u \in Units :
        /\ online' = IF u \in online THEN online \ {u} ELSE online \cup {u}
        /\ att' = att \cup {u}
        /\ searching' = searching \ {u}
    /\ UNCHANGED <<req, actf, busy, tab, forw, starting, hpdc, requests>>

----------------------------------------------------------------------------

DiskInit ==
    /\ req = [b \in Bufs |-> NoRequest]
    /\ actf = [u \in Units |-> <<>>] /\ busy = {}
    /\ tab = [actf |-> NoBuf, actl |-> NoBuf, active |-> FALSE, errcnt |-> 0]
    /\ forw = [u \in Units |-> NoBuf] /\ starting = FALSE
    /\ hpdc = [u \in Units |-> 0] /\ searching = {} /\ att = {} /\ online = Units
    /\ requests = 0 /\ events = 0

hpstart == StartSkip \/ StartOffline \/ StartTransfer \/ StartNothing

hpintr == IntrEnd \/ DiskRetry \/ IntrAttention

DiskNext == (\E b \in Bufs : Request(b)) \/ hpstart \/ hpintr \/ SearchEnds \/ DriveEvent

\* The driver runs when it is called, transfers and searches end.
DiskFairness == WF_diskVars(hpstart) /\ WF_diskVars(hpintr) /\ WF_diskVars(SearchEnds)

DiskSpec == DiskInit /\ [][DiskNext]_diskVars /\ DiskFairness

----------------------------------------------------------------------------
(* Properties *)

\* A transfer goes on, or is tried again.
UnderWay == tab.active \/ tab.errcnt # 0

\* While a transfer goes on, or is tried again, the request that it is for does not change.
TransfersKeep ==
    [][UnderWay /\ UnderWay' => tab'.actf = tab.actf
                                /\ Head(actf'[tab.actf]) = Head(actf[tab.actf])]_diskVars

\* A request has yet to end, and no drive has gone off line.  (A drive should be on the list,
\* or search, or have no requests.)
RequestPending == events = 0 /\ \E b \in Bufs : req[b].queued
=============================================================================
