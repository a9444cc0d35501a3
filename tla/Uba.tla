-------------------------------- MODULE Uba --------------------------------
(***************************************************************************)
(* The Unibus adapter's map registers and buffered data paths, sys/sys/    *)
(* uba.c, on the resource maps of sys/sys/malloc.c.                        *)
(*                                                                         *)
(* A transfer takes contiguous registers, and then a data path if it asks  *)
(* for one; uballoc sleeps for either at spl6, so that what it finds out   *)
(* and the sleep are one step.  ubafree gives both back.                   *)
(***************************************************************************)
EXTENDS Maps

CONSTANTS
    Xfers,      \* processes that transfer
    NREG, NBDP, \* registers and data paths, counted from 1
    XferSizes,  \* bound: how many registers a transfer takes
    MaxXfers    \* bound: transfers

ASSUME UbaAssumption ==
    {NREG, NBDP, MaxXfers} \subseteq Nat /\ XferSizes \subseteq 1..NREG

VARIABLES
    ubamap, bdpmap, umrwant, bdpwant,
    xat,        \* xat[p]: "idle", in uballoc at "regs" or "path", or in the "transfer"
    asleep,     \* asleep[p]: the map p sleeps on, "" when it does not
    mr,         \* mr[p]: what p has been given: registers, their number, data path
    bdpflg,     \* bdpflg[p]: whether p asks for a data path
    xfers       \* transfers begun

ubaVars == <<ubamap, bdpmap, umrwant, bdpwant, xat, asleep, mr, bdpflg, xfers>>

NoRegs == [regnum |-> 0, nmreg |-> 0, bdp |-> 0]

\* A driver asks for n registers.
Ask(p, n, flg) ==
    /\ xat[p] = "idle" /\ xfers < MaxXfers
    /\ xfers' = xfers + 1
    /\ xat' = [xat EXCEPT ![p] = "regs"]
    /\ mr' = [mr EXCEPT ![p] = [NoRegs EXCEPT !.nmreg = n]]
    /\ bdpflg' = [bdpflg EXCEPT ![p] = flg]
    /\ UNCHANGED <<ubamap, bdpmap, umrwant, bdpwant, asleep>>

XferAt(p, l) == xat[p] = l /\ asleep[p] = ""

\* uballoc: malloc returns 0 when it finds nothing, and the first register has number 0.
TakeRegs(p) ==
    LET n == mr[p].nmreg IN
    /\ XferAt(p, "regs") /\ FirstFit(ubamap, n) # 0
    /\ ubamap' = malloc(ubamap, n)
    /\ mr' = [mr EXCEPT ![p].regnum = Base(ubamap, n) - 1]
    /\ xat' = [xat EXCEPT ![p] = IF bdpflg[p] THEN "path" ELSE "transfer"]
    /\ UNCHANGED <<bdpmap, umrwant, bdpwant, asleep, bdpflg, xfers>>

WaitRegs(p) ==
    /\ XferAt(p, "regs") /\ FirstFit(ubamap, mr[p].nmreg) = 0
    /\ umrwant' = TRUE
    /\ asleep' = [asleep EXCEPT ![p] = "ubamap"]
    /\ UNCHANGED <<ubamap, bdpmap, bdpwant, xat, mr, bdpflg, xfers>>

TakePath(p) ==
    /\ XferAt(p, "path") /\ bdpmap # <<>>
    /\ bdpmap' = malloc(bdpmap, 1)
    /\ mr' = [mr EXCEPT ![p].bdp = Base(bdpmap, 1)]
    /\ xat' = [xat EXCEPT ![p] = "transfer"]
    /\ UNCHANGED <<ubamap, umrwant, bdpwant, asleep, bdpflg, xfers>>

WaitPath(p) ==
    /\ XferAt(p, "path") /\ bdpmap = <<>>
    /\ bdpwant' = TRUE
    /\ asleep' = [asleep EXCEPT ![p] = "bdpmap"]
    /\ UNCHANGED <<ubamap, bdpmap, umrwant, xat, mr, bdpflg, xfers>>

GivenShort(r) == mfree(ubamap, r.nmreg, r.regnum)

WokenForPath(path) ==
    [p \in Xfers |-> IF asleep[p] = "bdpmap" /\ path THEN "" ELSE asleep[p]]

\* ubafree wakes all who wait for what it gives back.
Given(r) == mfree(ubamap, r.nmreg, r.regnum + 1)

WokenOn(path) ==
    [p \in Xfers |-> IF (asleep[p] = "bdpmap" /\ path) \/ (asleep[p] = "ubamap" /\ umrwant)
                       THEN "" ELSE asleep[p]]

ubafree(p) ==
    LET r == mr[p]
        path == r.bdp # 0
    IN
    /\ xat[p] = "transfer"
    /\ bdpmap' = IF path THEN mfree(bdpmap, 1, r.bdp) ELSE bdpmap
    /\ bdpwant' = (bdpwant /\ ~path)
    /\ ubamap' = Given(r)
    /\ umrwant' = FALSE
    /\ asleep' = WokenOn(path /\ bdpwant)
    /\ mr' = [mr EXCEPT ![p] = NoRegs]
    /\ xat' = [xat EXCEPT ![p] = "idle"]
    /\ UNCHANGED <<bdpflg, xfers>>

\* ubainit.
UbaInit ==
    /\ ubamap = mfree(<<>>, NREG, 1) /\ bdpmap = mfree(<<>>, NBDP, 1)
    /\ umrwant = FALSE /\ bdpwant = FALSE
    /\ xat = [p \in Xfers |-> "idle"] /\ asleep = [p \in Xfers |-> ""]
    /\ mr = [p \in Xfers |-> NoRegs] /\ bdpflg = [p \in Xfers |-> FALSE]
    /\ xfers = 0

XferStep(p) == TakeRegs(p) \/ WaitRegs(p) \/ TakePath(p) \/ WaitPath(p) \/ ubafree(p)

UbaNext ==
    \E p \in Xfers : (\E n \in XferSizes, f \in BOOLEAN : Ask(p, n, f)) \/ XferStep(p)

\* Who can run does in the end, and transfers end.
UbaFairness == \A p \in Xfers : WF_ubaVars(XferStep(p))

UbaSpec == UbaInit /\ [][UbaNext]_ubaVars /\ UbaFairness

----------------------------------------------------------------------------
(* Properties *)

Regs(p) == IF xat[p] \in {"path", "transfer"}
             THEN mr[p].regnum + 1 .. mr[p].regnum + mr[p].nmreg ELSE {}

\* The map registers that are not free are those of the transfers, each of one of them,
\* and so are the data paths; what is free is kept in as few entries as can be, so that
\* whatever fits is found.
RegistersAreOwned ==
    /\ Tidy(ubamap) /\ Tidy(bdpmap)
    /\ FreeIn(ubamap) = 1..NREG \ UNION {Regs(p) : p \in Xfers}
    /\ FreeIn(bdpmap) = 1..NBDP \ {mr[p].bdp : p \in Xfers}
    /\ \A p, q \in Xfers : p # q => /\ Regs(p) \cap Regs(q) = {}
                                    /\ mr[p].bdp = mr[q].bdp => mr[p].bdp = 0

\* A transfer that was asked for has yet to be made.  (Who keeps registers while it waits for
\* a data path should wait only for one that keeps both.)
TransferPending == \E p \in Xfers : xat[p] # "idle"
=============================================================================
