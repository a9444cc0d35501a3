--------------------------------- MODULE Ht ---------------------------------
(***************************************************************************)
(* The magnetic tape driver, sys/sys/ht.c, with a drive and a tape.        *)
(*                                                                         *)
(* The tape is a sequence of records and tape marks, and head the number   *)
(* of those behind the head.  The driver keeps in h_blkno where it thinks  *)
(* the head is, and spaces from there to the block that is asked for.      *)
(* Each turn of htstart's loop is a step; nothing else moves meanwhile.    *)
(***************************************************************************)
EXTENDS Integers, Sequences, SequencesExt

CONSTANTS
    Tapes,      \* bound: the tapes that are mounted
    MaxBlkno,   \* bound: blocks that are asked for
    MaxErr,     \* 10: a transfer is given up with that many errors
    MaxIO,      \* bound: requests and opens
    MaxSoft     \* bound: errors

ASSUME HtAssumption ==
    /\ \A s \in Tapes : s \in Seq({"rec", "mark"})
    /\ {MaxBlkno, MaxErr, MaxIO, MaxSoft} \subseteq Nat

INF == 1000000

VARIABLES
    tape, head,
    ht,         \* httab's queue, state and error count, h_openf, h_blkno, h_nxrec, h_flags
    hstart,     \* htstart is running
    opener,     \* the commands that htopen or htclose still gives, or what it has come to
    base,       \* history: where the head was when the tape was opened
    strayed,    \* history: an error, a tape mark on the way to a block, or a read ahead
                \* that the tape has been closed and opened over, after which the driver
                \* does not know where the head is
    ios, softs  \* counters for the bounds

htVars == <<tape, head, ht, hstart, opener, base, strayed, ios, softs>>

\* What follows a record that is written is lost.
WriteAt(x) == SubSeq(tape, 1, head) \o <<x>>

Cmd(com) == [com |-> com, blkno |-> 0, read |-> TRUE]

Bp == Head(ht.q)

IsCmd(bp) == bp.com # "io"

\* htstrategy puts bp at the end of the queue and starts the drive if it is idle.
Enqueued(s, bp) == [s EXCEPT !.q = Append(@, bp)]

----------------------------------------------------------------------------
(* htopen, htclose: hcommand waits for each command *)

htopen ==
    /\ opener = <<"closed">> /\ ~hstart /\ ht.openf = 0
    /\ ios < MaxIO /\ ios' = ios + 1
    /\ ht' = Enqueued([ht EXCEPT !.blkno = 0, !.nxrec = INF, !.written = FALSE], Cmd("NOP"))
    /\ opener' = <<"NOP">>
    /\ hstart' = (ht.active = "none")
    /\ base' = head /\ strayed' = (ht.q # <<>>)
    /\ UNCHANGED <<tape, head, softs>>

Opened ==
    /\ opener = <<"NOP">> /\ ~hstart /\ ht.q = <<>>
    /\ opener' = <<"open">>
    /\ ht' = [ht EXCEPT !.openf = 1]
    /\ UNCHANGED <<tape, head, hstart, base, strayed, ios, softs>>

\* Two tape marks after what was written, or on a tape open for writing only; the second
\* is backed over.
htclose(marks, rewind) ==
    /\ opener = <<"open">> /\ ~hstart
    /\ opener' = <<"close">> \o (IF marks THEN <<"WEOF", "WEOF", "SREV">> ELSE <<>>)
                            \o (IF rewind THEN <<"REW">> ELSE <<>>)
    /\ UNCHANGED <<tape, head, ht, hstart, base, strayed, ios, softs>>

Closing == Head(opener) = "close" /\ ~hstart /\ \A n \in DOMAIN ht.q : ~IsCmd(ht.q[n])

hcommand ==
    /\ Closing /\ Len(opener) > 1
    /\ ht' = Enqueued(ht, Cmd(opener[2]))
    /\ opener' = <<"close">> \o SubSeq(opener, 3, Len(opener))
    /\ hstart' = (ht.active = "none")
    /\ UNCHANGED <<tape, head, base, strayed, ios, softs>>

Closed ==
    /\ Closing /\ Len(opener) = 1
    /\ ht' = [ht EXCEPT !.openf = 0]
    /\ opener' = <<"closed">>
    /\ UNCHANGED <<tape, head, hstart, base, strayed, ios, softs>>

----------------------------------------------------------------------------
(* htstrategy *)

\* Beyond what is known of the tape there is an error, at its end nothing to read.
htstrategy(n, read) ==
    LET bp == [com |-> "io", blkno |-> n, read |-> read] IN
    /\ opener = <<"open">> /\ ~hstart /\ ios < MaxIO
    /\ ios' = ios + 1
    /\ IF n > ht.nxrec \/ (n = ht.nxrec /\ read)
         THEN UNCHANGED <<ht, hstart>>
         ELSE /\ ht' = Enqueued(IF read THEN ht
                                ELSE [ht EXCEPT !.nxrec = n + 1, !.written = TRUE], bp)
              /\ hstart' = (ht.active = "none")
    /\ UNCHANGED <<tape, head, opener, base, strayed, softs>>

----------------------------------------------------------------------------
(* htstart *)

Idle == hstart /\ ht.q = <<>>

StartIdle == Idle /\ hstart' = FALSE
             /\ UNCHANGED <<tape, head, ht, opener, base, strayed, ios, softs>>

Abort == ht.openf < 0 \/ Bp.blkno > ht.nxrec

\* NOP is no command for the drive; a request beyond the end, or after the tape has run
\* out, fails.
StartNext ==
    /\ hstart /\ ht.q # <<>>
    /\ Bp.com = "NOP" \/ (~IsCmd(Bp) /\ Abort)
    /\ ht' = [ht EXCEPT !.q = Tail(@)]
    /\ UNCHANGED <<tape, head, hstart, opener, base, strayed, ios, softs>>

MotionTo(bp) ==
    IF IsCmd(bp) THEN "SCOM"
    ELSE IF ht.blkno <= bp.blkno THEN "SSFOR" ELSE "SSREV"

Motion(bp) ==
    IF IsCmd(bp) THEN "SCOM"
    ELSE IF ht.blkno = bp.blkno THEN "SIO"
    ELSE IF ht.blkno < bp.blkno THEN "SSFOR" ELSE "SSREV"

StartMotion ==
    /\ hstart /\ ht.q # <<>>
    /\ IF IsCmd(Bp) THEN Bp.com # "NOP" ELSE ~Abort
    /\ ht' = [ht EXCEPT !.active = Motion(Bp), !.fc = Bp.blkno - ht.blkno]
    /\ hstart' = FALSE
    /\ UNCHANGED <<tape, head, opener, base, strayed, ios, softs>>

----------------------------------------------------------------------------
(* htintr *)

IntrIn(s) == ~hstart /\ ht.active = s

NothingElse == UNCHANGED <<opener, base, ios>>

NextRequest(s) == [s EXCEPT !.active = "none", !.q = Tail(@), !.errcnt = 0]

\* The end of a request in state SIO or SOK: a block further.
Finished(s) == [NextRequest(s) EXCEPT !.blkno = @ + 1]

AtMarkUncounted(s) == NextRequest([s EXCEPT !.nxrec = Bp.blkno])

\* With TM on, whatever the state: the request finds the end of the file there.
AtMark(s) == Finished([s EXCEPT !.nxrec = Bp.blkno])

IntrRead ==
    /\ IntrIn("SIO") /\ Bp.read /\ head < Len(tape)
    /\ head' = head + 1
    /\ ht' = IF tape[head + 1] = "mark" THEN AtMark(ht) ELSE Finished(ht)
    /\ hstart' = TRUE
    /\ UNCHANGED <<tape, strayed, softs>> /\ NothingElse

IntrWrite ==
    /\ IntrIn("SIO") /\ ~Bp.read
    /\ tape' = WriteAt("rec") /\ head' = head + 1
    /\ ht' = Finished(ht)
    /\ hstart' = TRUE
    /\ UNCHANGED <<strayed, softs>> /\ NothingElse

\* The record is spaced back over before it is tried again.
Retried(s) == [s EXCEPT !.errcnt = @ + 1, !.active = "SRETRY", !.blkno = @ + 1]

IntrSoft ==
    /\ IntrIn("SIO") /\ softs < MaxSoft /\ softs' = softs + 1
    /\ Bp.read => head < Len(tape)
    /\ tape' = IF Bp.read THEN tape ELSE WriteAt("rec")
    /\ IF ht.errcnt + 1 < MaxErr
         THEN ht' = Retried(ht) /\ head' = head /\ UNCHANGED hstart
         ELSE ht' = Finished(ht) /\ head' = head + 1 /\ hstart' = TRUE
    /\ UNCHANGED strayed /\ NothingElse

\* The spacing back has ended; a bad spot is erased before it is written behind.
IntrRetry ==
    /\ IntrIn("SRETRY")
    /\ IF Bp.read
         THEN ht' = [ht EXCEPT !.active = "none", !.blkno = Bp.blkno] /\ hstart' = TRUE
         ELSE ht' = [ht EXCEPT !.active = "SSFOR", !.fc = 0] /\ UNCHANGED hstart
    /\ UNCHANGED <<tape, head, strayed, softs>> /\ NothingElse

\* What lies on the way of ht.fc records.
Way == IF ht.fc >= 0 THEN head + 1 .. head + ht.fc ELSE head + ht.fc + 1 .. head

MarksIn(w) == {n \in w \cap DOMAIN tape : tape[n] = "mark"}

IntrSpaced ==
    /\ IntrIn("SSFOR") \/ IntrIn("SSREV")
    /\ MarksIn(Way) = {} /\ Way \subseteq DOMAIN tape
    /\ head' = head + ht.fc
    /\ ht' = [ht EXCEPT !.active = "none", !.blkno = Bp.blkno]
    /\ hstart' = TRUE
    /\ UNCHANGED <<tape, strayed, softs>> /\ NothingElse

\* The drive stops behind the mark, but the driver takes one step for the whole way.
IntrSpacedMark ==
    /\ IntrIn("SSFOR") \/ IntrIn("SSREV")
    /\ MarksIn(Way) # {}
    /\ head' = IF ht.fc > 0 THEN Min(MarksIn(Way)) ELSE Max(MarksIn(Way)) - 1
    /\ ht' = AtMark(ht)
    /\ strayed' = TRUE
    /\ hstart' = TRUE
    /\ UNCHANGED <<tape, softs>> /\ NothingElse

\* Nothing on the tape, or its end: an error that is not tried again.  After the end of
\* the tape all requests fail.
IntrHard ==
    /\ \/ IntrIn("SIO") /\ Bp.read /\ head = Len(tape)
       \/ (IntrIn("SSFOR") \/ IntrIn("SSREV")) /\ ~(Way \subseteq DOMAIN tape)
            /\ MarksIn(Way) = {}
    /\ head' = IF ht.fc >= 0 THEN Len(tape) ELSE 0
    /\ \E eot \in BOOLEAN :
        ht' = Finished(IF eot THEN [ht EXCEPT !.openf = -1] ELSE ht)
    /\ strayed' = TRUE
    /\ hstart' = TRUE
    /\ UNCHANGED <<tape, softs>> /\ NothingElse

\* A command; tape marks end it as they do a transfer.
IntrCommand ==
    /\ IntrIn("SCOM")
    /\ tape' = IF Bp.com = "WEOF" THEN WriteAt("mark") ELSE tape
    /\ head' = CASE Bp.com = "WEOF" -> head + 1
                 [] Bp.com = "SREV" -> IF head = 0 THEN 0 ELSE head - 1
                 [] OTHER -> 0
    /\ ht' = IF Bp.com = "REW" THEN NextRequest(ht) ELSE AtMark(ht)
    /\ hstart' = TRUE
    /\ strayed' = TRUE
    /\ UNCHANGED softs /\ NothingElse

----------------------------------------------------------------------------

HtInit ==
    /\ tape \in Tapes /\ head = 0
    /\ ht = [q |-> <<>>, active |-> "none", errcnt |-> 0, openf |-> 0, blkno |-> 0, nxrec |-> 0,
             written |-> FALSE, fc |-> 0]
    /\ hstart = FALSE /\ opener = <<"closed">> /\ base = 0 /\ strayed = FALSE
    /\ ios = 0 /\ softs = 0

htstart == StartIdle \/ StartNext \/ StartMotion

htintr ==
    \/ IntrRead \/ IntrWrite \/ IntrSoft \/ IntrRetry \/ IntrSpaced \/ IntrSpacedMark
    \/ IntrHard \/ IntrCommand

HtUser ==
    \/ htopen \/ (\E marks \in {TRUE, ht.written}, rewind \in BOOLEAN : htclose(marks, rewind))
    \/ \E n \in 0..MaxBlkno, read \in BOOLEAN : htstrategy(n, read)

HtWaits == Opened \/ hcommand \/ Closed

HtNext == HtUser \/ HtWaits \/ htstart \/ htintr

\* The driver runs when it is called, what the drive is told to do ends, and so does the
\* wait for it.
HtFairness == WF_htVars(htstart) /\ WF_htVars(htintr) /\ WF_htVars(HtWaits)

HtSpec == HtInit /\ [][HtNext]_htVars /\ HtFairness

----------------------------------------------------------------------------
(* Properties *)

\* Data is transferred only with the head before the block that was asked for, counted from
\* where the tape was opened, through spacing in both directions, retries and tape marks
\* that are read; unless the driver has lost the place.
TransfersInPlace ==
    ht.active = "SIO" /\ ~strayed => head = base + Bp.blkno /\ ht.blkno = Bp.blkno

\* A request has yet to end, whatever errors, retries and tape marks there are.
TapePending == ht.q # <<>>
=============================================================================
