--------------------------------- MODULE Mx ---------------------------------
(***************************************************************************)
(* Multiplexed files, sys/sys/mx1.c and mx2.c: a process that has made an  *)
(* mpx file, the owner, serves the channels that others open on it.        *)
(*                                                                         *)
(* A group has slots for channels, and g_datq a mark for each slot that    *)
(* has something to read; the slots of a group that was joined to another  *)
(* are reached through a slot of that one.  A step goes from one sleep to  *)
(* the next.  All is in the record mx, and each procedure of the code an   *)
(* operator that takes such a record to the one it leaves behind.  Left    *)
(* out: terminals as channels, channels made and extracted by the owner,   *)
(* signals, and what the data are.                                         *)
(***************************************************************************)
EXTENDS Integers, Sequences, FiniteSets, FiniteSetsExt

CONSTANTS
    Clients, Server,        \* processes; Server is the owner
    NCHANS, NINDEX,         \* channels, and slots of a group, counted from 0
    HighWater,              \* units of data after which a writer waits
    LowWater,               \* units below which it is woken
    MaxMx                   \* bound: calls

ASSUME MxAssumption ==
    /\ Server \notin Clients /\ NCHANS \in Nat \ {0} /\ NINDEX \in Nat \ {0}
    /\ HighWater \in Nat /\ LowWater \in 1..HighWater + 1

VARIABLES
    mx,         \* groups, channels, the descriptors of the clients, where the processes are,
                \* the lock of the mpx inode, whether it is mpxip and MXNBLK
    fate,       \* "up", "spin" when mxread loops for ever, "panic" when it goes through NULL
    astray,     \* history: a channel was freed that had a mark or was still to be used
    mxCalls

mxVars == <<mx, fate, astray, mxCalls>>

Groups == {"top", "sub"}
Chans == 1..NCHANS
Indices == 0..NINDEX - 1
Void == 0             \* an empty slot, a descriptor that is closed
Joined == NCHANS + 1    \* the slot of "top" that leads to "sub"

----------------------------------------------------------------------------
(* sleep and wakeup: a process sleeps on a channel of its own, on one of   *)
(* the five addresses that go with it; pc says on which, and what comes    *)
(* after.                                                                  *)

AtUserMode == [pc |-> "user", c |-> 0, n |-> 0, up |-> TRUE]

Wake(s, pcs, c) ==
    [s EXCEPT !.at = [p \in DOMAIN s.at |->
        IF s.at[p].pc \in pcs /\ s.at[p].c = c THEN [s.at[p] EXCEPT !.up = TRUE] ELSE s.at[p]]]

OnChannel == {"open", "eot"}        \* cp
OnFrom == {"read", "mcwrite"}       \* cy.datq: what comes from the group
OnRoom == {"write"}                 \* cx.datq + 1
OnEmpty == {"flush"}                \* cx.datq + 2

SleepOn(s, p, pc, c, n) == [s EXCEPT !.at[p] = [pc |-> pc, c |-> c, n |-> n, up |-> FALSE]]

Returns(s, p) == [s EXCEPT !.at[p] = AtUserMode]

CanRun(p, pc) == fate = "up" /\ mx.at[p].pc = pc /\ mx.at[p].up

----------------------------------------------------------------------------
(* Marks                                                                   *)

\* The marks by which a channel is found: in its group, and in the one that is joined to.
PathMarks(s, c) ==
    {<<s.chn[c].group, s.chn[c].index>>}
        \cup (IF s.chn[c].group = "sub" THEN {<<"top", 0>>} ELSE {})

IsGroup(s, c) == s.chn[c].group # "none" /\ s.grp[s.chn[c].group].isgrp

\* sdata marks the channel and wakes who reads the outermost group.
Sdata(s, c) ==
    IF ~IsGroup(s, c) THEN s
    ELSE Wake([s EXCEPT !.grp = [g \in Groups |-> [s.grp[g] EXCEPT
                    !.datq = @ \cup {m[2] : m \in {n \in PathMarks(s, c) : n[1] = g}}]]],
              {"mxread"}, 0)

Scontrol(s, c, event) ==
    IF IsGroup(s, c) THEN [Sdata(s, c) EXCEPT !.chn[c].ctl = Append(@, event)] ELSE s

\* rmdata takes the mark away, and that of the group when it was its last.
RmdataOfOne(s, c) == [s EXCEPT !.grp[s.chn[c].group].datq = @ \ {s.chn[c].index}]

Rmdata(s, c) ==
    LET g == s.chn[c].group
        one == [s EXCEPT !.grp[g].datq = @ \ {s.chn[c].index}]
    IN IF g = "sub" /\ one.grp[g].datq = {} THEN [one EXCEPT !.grp["top"].datq = @ \ {0}]
       ELSE one

\* The first mark of g from where g_rot has stopped.
Rotated(s, g) ==
    LET marks == s.grp[g].datq
        from == {i \in marks : i >= s.grp[g].rot}
    IN IF from # {} THEN Min(from) ELSE Min(marks)

\* nextcp: the groups whose marks are looked at, and the slot where it ends.
Looked(s) ==
    IF s.grp["top"].chans[Rotated(s, "top")] = Joined THEN Groups ELSE {"top"}

FoundChan(s) ==
    LET g == IF Looked(s) = Groups THEN "sub" ELSE "top" IN s.grp[g].chans[Rotated(s, g)]

Nextcp(s) ==
    [s EXCEPT !.grp = [g \in Groups |->
        IF g \in Looked(s) THEN [s.grp[g] EXCEPT !.rot = Rotated(s, g)] ELSE s.grp[g]]]

----------------------------------------------------------------------------
(* Names: a channel is known to the owner by the slots that lead to it.    *)

Cpx(s, c) ==
    IF s.chn[c].group = "sub" THEN <<s.grp["top"].index, s.chn[c].index>>
    ELSE <<s.chn[c].index>>

\* The owner's file is that of the outermost group.
Xcp(s, path) ==
    LET first == s.grp["top"].chans[path[1]] IN
    IF Len(path) = 1 THEN first ELSE s.grp["sub"].chans[path[2]]

----------------------------------------------------------------------------
(* Channels come and go                                                    *)

\* addch and challoc; what the last user left in the channel stays there.
FreeIndices(s, g) == {i \in Indices : s.grp[g].chans[i] = Void}
FreeChans(s) == {c \in Chans : s.chn[c].group = "none"}

Addch(s, g, flags) ==
    LET c == Min(FreeChans(s)) i == Min(FreeIndices(s, g)) IN
    [s EXCEPT !.grp[g].chans[i] = c,
              !.chn[c].group = g, !.chn[c].index = i, !.chn[c].flags = flags]

\* chwake drops the messages to the owner, and whoever waits on the channel looks again.
Chwake(s, c) ==
    Wake([s EXCEPT !.chn[c].ctl = <<>>], OnChannel \cup OnFrom \cup OnRoom \cup OnEmpty, c)

\* chdrain without wflush, which sleeps.
Flushed(s, c) == [s EXCEPT !.chn[c].x = 0, !.chn[c].y = 0, !.chn[c].flags = @ \ {"WFLUSH"}]

Chdrain(s, c) == Flushed(Chwake(s, c), c)

\* chfree leaves the mark.
Chfree(s, c) ==
    LET g == s.chn[c].group i == s.chn[c].index IN
    IF g = "none" THEN s
    ELSE [s EXCEPT !.chn[c].group = "none",
                   !.grp[g].chans[i] = IF @ = c THEN Void ELSE @]

\* detach: who has the channel open is told to close it; nothing that was written is left
\* where nobody has.
Detach(s, c) ==
    IF s.chn[c].fy /\ "WCLOSE" \notin s.chn[c].flags
      THEN Chwake([s EXCEPT !.chn[c].flags = @ \cup {"WCLOSE"}], c)
    ELSE Chfree(Chdrain(s, c), c)

\* What a step leaves; astray from when a channel is freed that has its mark set, or that
\* a process takes for its own.
Leaves(s) ==
    /\ mx' = s
    /\ astray' = (astray \/ \E c \in Chans :
        /\ mx.chn[c].group # "none" /\ s.chn[c].group = "none"
        /\ \/ mx.chn[c].index \in s.grp[mx.chn[c].group].datq
           \/ \E p \in Clients : s.file[p] = c
           \/ \E p \in DOMAIN s.at : s.at[p].c = c)

NewCall(p) == CanRun(p, "user") /\ mxCalls < MaxMx /\ mxCalls' = mxCalls + 1

Resumes(p, pc) == CanRun(p, pc) /\ UNCHANGED mxCalls

----------------------------------------------------------------------------
(* The clients                                                             *)

\* mxopen: the owner is told of a new channel, and the client waits for its answer; on the
\* listening file with the inode locked, until the name has been read.
mxopen(p, g) ==
    /\ NewCall(p) /\ mx.file[p] = 0 /\ ~(g = "top" /\ mx.lock) /\ UNCHANGED fate
    /\ IF ~mx.grp[g].isgrp \/ FreeIndices(mx, g) = {} \/ FreeChans(mx) = {} THEN Leaves(mx)
       ELSE LET c == Min(FreeChans(mx))
                named == mx.listens /\ g = "top"
                s == Addch(mx, g, IF named THEN {"NMBUF"} ELSE {})
            IN Leaves(Scontrol(SleepOn([s EXCEPT !.lock = named, !.file[p] = c],
                                      p, "open", c, 0), c, "open"))

\* The answer: WCLOSE says no.  The lock is that of mpxip, which may be NULL by now.
MxopenEnds(p) ==
    LET c == mx.at[p].c
        named == "NMBUF" \in mx.chn[c].flags
        s == IF named THEN [mx EXCEPT !.lock = FALSE] ELSE mx
    IN
    /\ Resumes(p, "open")
    /\ fate' = IF named /\ ~mx.listens THEN "panic" ELSE "up"
    /\ IF "WCLOSE" \in mx.chn[c].flags
         THEN Leaves(Returns(Chfree(Chdrain([s EXCEPT !.file[p] = 0], c), c), p))
         ELSE Leaves(Returns([s EXCEPT !.chn[c].fy = TRUE], p))

\* msread: what there is, k units at most; a mark for the end of file is taken away.
msread(p, k) ==
    LET c == mx.file[p]
        ch == mx.chn[c]
        low == "SIGBLK" \in ch.flags /\ ch.y - Min({k, ch.y}) < LowWater
        s == [mx EXCEPT !.chn[c].y = @ - Min({k, @})]
    IN
    /\ Resumes(p, "read") \/ NewCall(p)
    /\ c # 0 /\ UNCHANGED fate
    /\ Leaves(
         IF ch.y > 0
           THEN Returns(IF low THEN Wake([s EXCEPT !.chn[c].flags = @ \ {"SIGBLK"}], OnFrom, c)
                        ELSE s, p)
         ELSE IF "EOTMARK" \in ch.flags
           THEN Returns(Wake([mx EXCEPT !.chn[c].flags = @ \ {"EOTMARK"}],
                             OnChannel \cup OnFrom, c), p)
         ELSE IF "WCLOSE" \in ch.flags THEN Returns(mx, p)
         ELSE SleepOn(mx, p, "read", c, 0))

\* mswrite of n units, the first without looking at WCLOSE if it has waited for room.
Put(s, c, n) == [s EXCEPT !.chn[c].x = @ + n]

Mswrite(s, p, c, n, waited) ==
    LET ch == s.chn[c]
        room == Max({0, HighWater + 1 - ch.x})
        closed == "WCLOSE" \in ch.flags
    IN IF closed /\ (~waited \/ room = 0 \/ n > 1)
         THEN Returns(Put(s, c, IF waited /\ room > 0 THEN 1 ELSE 0), p)
       ELSE IF n <= room THEN Returns(Sdata(Put(s, c, n), c), p)
       ELSE SleepOn([Sdata(Put(s, c, room), c) EXCEPT !.chn[c].flags = @ \cup {"BLOCK"}],
                  p, "write", c, n - room)

mswrite(p, n) ==
    /\ NewCall(p) /\ mx.file[p] # 0 /\ UNCHANGED fate
    /\ Leaves(Mswrite(mx, p, mx.file[p], n, FALSE))

MswriteGoesOn(p) ==
    /\ Resumes(p, "write") /\ UNCHANGED fate
    /\ Leaves(Mswrite(mx, p, mx.at[p].c, mx.at[p].n, TRUE))

\* mxclose of a channel: wflush waits until the owner has read everything, unless the owner
\* has closed it; then the owner is told, or there is no need to.
CloseEnds(s, p, c) ==
    LET ch == s.chn[c] IN
    IF "WCLOSE" \in ch.flags
      THEN Returns(Chfree(Flushed(s, c), c), p)
    ELSE IF ch.x = 0
      THEN Returns([Scontrol(Flushed(s, c), c, "close")
                        EXCEPT !.chn[c].flags = @ \cup {"WCLOSE"}], p)
    ELSE SleepOn(Sdata([s EXCEPT !.chn[c].flags = @ \cup {"WFLUSH"}], c), p, "flush", c, 0)

mxclose(p) ==
    /\ NewCall(p) /\ mx.file[p] # 0 /\ UNCHANGED fate
    /\ ~(mx.chn[mx.file[p]].group = "top" /\ mx.lock)
    /\ LET c == mx.file[p] s == [mx EXCEPT !.file[p] = 0] IN
       Leaves(IF \E q \in Clients : s.file[q] = c THEN s
               ELSE CloseEnds(Chwake(s, c), p, c))

Wflush(p) ==
    /\ Resumes(p, "flush") /\ UNCHANGED fate
    /\ Leaves(CloseEnds(mx, p, mx.at[p].c))

----------------------------------------------------------------------------
(* The owner                                                               *)

\* A turn of mxread's loop: control messages come first, all at once if there is room;
\* else up to k units of data, or word that there is none.
Mcread(s, c, k) ==
    LET ch == s.chn[c]
        control == ch.ctl # <<>>
        named == control /\ "NMBUF" \in ch.flags
        units == IF control THEN 0 ELSE Min({k, ch.x})
        r == [s EXCEPT !.chn[c].ctl = <<>>, !.chn[c].x = @ - units,
                       !.chn[c].flags = IF control THEN @ \ {"NMBUF"} ELSE @,
                       !.lock = @ /\ ~named]
        more == IF r.chn[c].x > 0 THEN Sdata(r, c) ELSE r
        room == IF units > 0 /\ "BLOCK" \in ch.flags /\ r.chn[c].x < LowWater
                  THEN Wake([more EXCEPT !.chn[c].flags = @ \ {"BLOCK"}], OnRoom, c)
                  ELSE more
    IN IF "WFLUSH" \in ch.flags THEN Wake(room, OnEmpty, c) ELSE room

mxread(k, fits) ==
    /\ Resumes(Server, "mxread") \/ NewCall(Server)
    /\ mx.grp["top"].isgrp
    /\ IF mx.grp["top"].datq = {}
         THEN Leaves(SleepOn(mx, Server, "mxread", 0, 0)) /\ UNCHANGED fate
       ELSE IF FoundChan(mx) = Void
         THEN fate' = "spin" /\ Leaves(mx)
       ELSE LET c == FoundChan(mx)
                s == Returns(Rmdata(Nextcp(mx), c), Server)
            IN /\ Leaves(IF mx.chn[c].ctl # <<>> /\ ~fits THEN Sdata(s, c)
                         ELSE Mcread(s, c, k))
               /\ UNCHANGED fate

\* mxwrite through mcwrite: who reads is woken, and the owner waits for room unless it has
\* asked not to (MXNBLK).
Mcwrite(s, c, n) ==
    LET ch == s.chn[c]
        room == IF "EOTMARK" \in ch.flags THEN 0 ELSE Max({0, HighWater + 1 - ch.y})
        w == Wake([s EXCEPT !.chn[c].y = @ + Min({n, room})], OnFrom, c)
        full == [w EXCEPT !.chn[c].flags = @ \cup {"SIGBLK"}]
    IN IF n <= room THEN Returns(w, Server)
       ELSE IF s.nonblocking THEN Returns(full, Server)
       ELSE SleepOn(full, Server, "mcwrite", c, n - room)

Known(c) == mx.grp["top"].isgrp /\ IsGroup(mx, c) /\ Xcp(mx, Cpx(mx, c)) \in Chans

mxwrite(c, n) ==
    /\ NewCall(Server) /\ Known(c) /\ UNCHANGED fate
    /\ Leaves(Mcwrite(mx, Xcp(mx, Cpx(mx, c)), n))

MxwriteGoesOn ==
    /\ Resumes(Server, "mcwrite") /\ UNCHANGED fate
    /\ Leaves(Mcwrite(mx, mx.at[Server].c, mx.at[Server].n))

\* mxwcontrol: one mark for the end of file at a time.
Eot(s, c) ==
    IF "EOTMARK" \in s.chn[c].flags THEN SleepOn(s, Server, "eot", c, 0)
    ELSE Returns([s EXCEPT !.chn[c].flags = @ \cup {"EOTMARK"}], Server)

mxwcontrol(c) ==
    /\ NewCall(Server) /\ Known(c) /\ UNCHANGED fate
    /\ Leaves(Eot(mx, Xcp(mx, Cpx(mx, c))))

MxwcontrolGoesOn ==
    /\ Resumes(Server, "eot") /\ UNCHANGED fate
    /\ Leaves(Eot(mx, mx.at[Server].c))

\* mpxchan: the owner lets a client in, or shuts a channel.
ATTACH(c) ==
    /\ Resumes(Server, "user") /\ Known(c) /\ UNCHANGED fate
    /\ LET d == Xcp(mx, Cpx(mx, c)) IN
          /\ \E p \in Clients : mx.at[p].pc = "open" /\ mx.at[p].c = d /\ ~mx.at[p].up
          /\ Leaves(Wake(mx, OnChannel, d))

DETACH(c) ==
    /\ Resumes(Server, "user") /\ Known(c) /\ UNCHANGED fate
    /\ Leaves(Detach(mx, Xcp(mx, Cpx(mx, c))))

\* mxioctl.
MXLSTN ==
    /\ NewCall(Server) /\ mx.grp["top"].isgrp /\ ~mx.listens /\ UNCHANGED fate
    /\ Leaves([mx EXCEPT !.listens = TRUE])

MXNBLK ==
    /\ NewCall(Server) /\ mx.grp["top"].isgrp /\ ~mx.nonblocking /\ UNCHANGED fate
    /\ Leaves([mx EXCEPT !.nonblocking = TRUE])

\* mxclose of the group: every channel is detached, and the group is gone.  (A group that
\* another has joined is not closed here.)
CloseGroup ==
    LET chans == {c \in Chans : mx.chn[c].group = "top"}
        s == FoldSet(LAMBDA c, r : Detach(r, c), mx, chans)
    IN
    /\ NewCall(Server) /\ mx.grp["top"].isgrp /\ ~mx.lock /\ ~mx.grp["sub"].isgrp
    /\ UNCHANGED fate
    /\ Leaves([s EXCEPT !.listens = FALSE, !.lock = FALSE,
                         !.grp["top"] = [isgrp |-> FALSE, datq |-> {}, rot |-> 0, index |-> 0,
                                         chans |-> [i \in Indices |-> Void]]])

----------------------------------------------------------------------------
(* The specification                                                       *)

\* mpxchan has made a group, or two and joined one to the other, at slot 0: for another slot
\* cpx makes names that lead elsewhere.
Started(joined) ==
    [grp |-> [g \in Groups |->
        [isgrp |-> g = "top" \/ joined, datq |-> {}, rot |-> 0, index |-> 0,
         chans |-> [i \in Indices |->
             IF joined /\ g = "top" /\ i = 0 THEN Joined ELSE Void]]],
     chn |-> [c \in Chans |-> [group |-> "none", index |-> 0, flags |-> {},
                               fy |-> FALSE, ctl |-> <<>>, x |-> 0, y |-> 0]],
     file |-> [p \in Clients |-> Void],
     at |-> [p \in Clients \cup {Server} |-> AtUserMode],
     lock |-> FALSE, listens |-> FALSE, nonblocking |-> FALSE]

\* The channels are as new, or one has been used before, or one is open.
MxInit ==
    /\ \E joined \in BOOLEAN :
        LET new == Started(joined)
            used == [new EXCEPT !.chn[1].fy = TRUE]
        IN \/ mx \in {new, used}
           \/ \E p \in Clients :
                 mx = [Addch(used, IF joined THEN "sub" ELSE "top", {}) EXCEPT !.file[p] = 1]
    /\ fate = "up" /\ astray = FALSE /\ mxCalls = 0

ClientStep(p) == MxopenEnds(p) \/ MswriteGoesOn(p) \/ Wflush(p)

\* What fits, and what does not.
Amounts == {1, HighWater + 2}

ClientCall(p) ==
    \/ \E g \in Groups : mxopen(p, g)
    \/ \E k \in 1..HighWater + 1 : msread(p, k)
    \/ \E n \in Amounts : mswrite(p, n)
    \/ mxclose(p)

ServerStep == MxwriteGoesOn \/ MxwcontrolGoesOn

ServerCall ==
    \/ \E k \in 1..HighWater + 1, fits \in BOOLEAN : mxread(k, fits)
    \/ \E c \in Chans : \/ ATTACH(c) \/ DETACH(c) \/ mxwcontrol(c)
                        \/ \E n \in Amounts : mxwrite(c, n)
    \/ MXLSTN \/ MXNBLK \/ CloseGroup

MxNext == (\E p \in Clients : ClientStep(p) \/ ClientCall(p)) \/ ServerStep \/ ServerCall

MxSpec == MxInit /\ [][MxNext]_mxVars

----------------------------------------------------------------------------
(* Properties                                                              *)

Marks(g) == mx.grp[g].datq

\* What the owner has not read of a channel that is not closed for good.
Pending(ch) == ch.ctl # <<>> \/ (ch.x > 0 /\ "WCLOSE" \notin ch.flags)

\* The marks lead from the outermost group to each channel with something to read, so that the
\* owner does not sleep while there is, and to nothing but channels and groups with marks,
\* so that nextcp ends.
MarksLead ==
    /\ \A c \in Chans : IsGroup(mx, c) /\ Pending(mx.chn[c]) =>
           \A m \in PathMarks(mx, c) : m[2] \in Marks(m[1])
    /\ \A g \in Groups : \A i \in Marks(g) :
           LET to == mx.grp[g].chans[i] IN to # Void /\ (to = Joined => Marks("sub") # {})

\* Slots and channels agree, and the owner's names lead to the channels they were made for.
NamesLead ==
    \A c \in Chans : IsGroup(mx, c) => Xcp(mx, Cpx(mx, c)) = c

\* A channel has one client, that has it open or is opening or closing it.
IsOf(p, c) == mx.file[p] = c \/ mx.at[p].c = c

OneClient ==
    \A p, q \in Clients : \A c \in Chans : IsOf(p, c) /\ IsOf(q, c) => p = q

\* Who sleeps has told the one that will wake him.
SleepersAnnounced ==
    \A p \in Clients \cup {Server} :
        LET its == mx.at[p]
            ch == IF its.c = 0 THEN [x |-> 0, y |-> 0, flags |-> {}] ELSE mx.chn[its.c]
        IN ~its.up => CASE its.pc = "mxread"  -> Marks("top") = {}
                   [] its.pc = "write"   -> "BLOCK" \in ch.flags /\ ch.x >= LowWater
                   [] its.pc = "flush"   -> "WFLUSH" \in ch.flags /\ ch.x > 0
                   [] its.pc = "read"    -> ch.y = 0
                   [] its.pc = "mcwrite" -> /\ "SIGBLK" \in ch.flags
                                          /\ \/ ch.y >= LowWater
                                             \/ ch.flags \cap {"EOTMARK", "WCLOSE"} # {}
                   [] its.pc = "eot"     -> "EOTMARK" \in ch.flags
                   [] OTHER            -> TRUE

\* mx2.c:743-858: clients and the owner find what each has left for the other, and each other,
\* as long as no channel has been freed too early.
ChannelsOK == ~astray => MarksLead /\ NamesLead /\ OneClient /\ SleepersAnnounced
=============================================================================
