------------------------------ MODULE MCAnswers ------------------------------
(***************************************************************************)
(* What becomes of calls on files and of requests to devices: small        *)
(* instances of the inodes and directories with links and I/O errors, of   *)
(* the devices, and of the registers their transfers take.  Nothing        *)
(* connects them here: a behaviour is one of one of them, the part, and    *)
(* the others stay as they are.                                            *)
(***************************************************************************)
EXTENDS MCFiles, Disk, Uba, RawIO, Ht, Tty

VARIABLE part

\* Blank, and three records, a tape mark and a record.
TwoTapes == {<<>>, <<"rec", "rec", "mark", "rec">>}

\* Cooked without an echo, one character at a time with flow control, and raw.
Modes3 == {{}, {"ECHO", "CBREAK", "TANDEM"}, {"RAW", "ECHO"}}

Parts == {"files", "disk", "uba", "raw", "ht", "tty"}

\* The directories are alike: the file is in the first.  The tape is blank where it is not
\* the part.
AnswersInit ==
    /\ part \in Parts
    /\ Init /\ DiskInit /\ UbaInit /\ RawInit /\ HtInit /\ TtyInit
    /\ dir[<<d1, a>>] = 1
    /\ part # "ht" => tape = <<>>

Only(p) ==
    /\ part = p
    /\ p # "files" => UNCHANGED vars
    /\ p # "disk" => UNCHANGED diskVars
    /\ p # "uba" => UNCHANGED ubaVars
    /\ p # "raw" => UNCHANGED rawVars
    /\ p # "ht" => UNCHANGED htVars
    /\ p # "tty" => UNCHANGED ttyVars
    /\ UNCHANGED part

AnswersNext ==
    \/ Only("files") /\ Next
    \/ Only("disk") /\ DiskNext
    \/ Only("uba") /\ UbaNext
    \/ Only("raw") /\ RawNext
    \/ Only("ht") /\ HtNext
    \/ Only("tty") /\ TtyNext

allVars == <<part, vars, diskVars, ubaVars, rawVars, htVars, ttyVars>>

\* The behaviours of each part are finite: that none of its fair actions stays
\* enabled for ever without being taken is then the same as that they are not all left.
Fair ==
    \/ Only("files") /\ (\E p \in Procs : ProcStep(p))
    \/ Only("disk") /\ (hpstart \/ hpintr \/ SearchEnds)
    \/ Only("uba") /\ (\E p \in Xfers : XferStep(p))
    \/ Only("raw") /\ ((\E p \in Callers : CallerStep(p)) \/ (\E b \in Headers : Iodone(b)))
    \/ Only("ht") /\ (htstart \/ htintr \/ HtWaits)
    \/ Only("tty") /\ ((\E p \in Users : UserStep(p)) \/ Xint \/ Ttrstrt \/ Scan)

AnswersSpec == AnswersInit /\ [][AnswersNext]_allVars /\ WF_allVars(Fair)

\* Whatever order interrupts, processes and errors come in, every call on a file returns and
\* every request to a device is answered: no wakeup is lost, and nobody waits for ever for
\* what another one keeps (iget.c:44, dz.c:267-272, uba.c:18-45, hp.c:164-358,
\* bio.c:420-542, ht.c:177-324).
AllAnswered ==
    []<>~(\/ CallPending \/ RequestPending \/ TransferPending
          \/ RawPending \/ TapePending \/ OutputPending)
=============================================================================
