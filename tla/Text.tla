-------------------------------- MODULE Text --------------------------------
(***************************************************************************)
(* Shared text segments: xalloc, xfree, xexpand, xlock, xccdec and xuntext *)
(* (text.c), and what swapping a process in or out (slp.c, text.c) does to *)
(* its text.  A step goes from one sleep to the next: the lock of a slot   *)
(* of the table, the transfers between the swap area and core, and the     *)
(* first reading of a text from its file.                                  *)
(***************************************************************************)
EXTENDS Naturals, FiniteSets

CONSTANTS
    Users,        \* processes
    Programs,     \* inodes of files with a shared text
    Slots,        \* entries of text[]
    Sticky,       \* the programs with ISVTX
    Proc0,        \* process 0
    Unlinker,     \* a process that calls xrele: it has locked the inode
    Unmounter,    \* a process that calls xumount: it has not
    Nil           \* no process, no program, no slot

ASSUME TextAssumption ==
    /\ Sticky \subseteq Programs /\ Users # {} /\ IsFiniteSet(Users)
    /\ Cardinality({Proc0, Unlinker, Unmounter, Nil}) = 4
    /\ {Proc0, Unlinker, Unmounter, Nil} \cap (Users \cup Programs \cup Slots) = {}

VARIABLES
    text,         \* text[]: inode, counts, flags and the process the text is found by
    pflag,        \* SLOAD and SLOCK of each process
    textp,        \* p_textp
    held,         \* the inodes with ILOCK, ITEXT and their references from the table
    itext,
    irefs,
    doing,        \* what each actor does, and the slot, program and process it does it to
    asleep,       \* the actors that sleep in xlock
    panicked,     \* the panic "lost text"
    strayed       \* history: an actor has locked a slot that was freed while it waited, or
                  \* sched has taken a child whose core is still its parent's

textVars == <<text, pflag, textp, held, itext, irefs, doing, asleep, panicked, strayed>>

Doers == Users \cup {Proc0, Unlinker, Unmounter}

Idle == [at |-> "idle", slot |-> Nil, prog |-> Nil, proc |-> Nil]

TextInit ==
    /\ text = [s \in Slots |-> [iptr |-> Nil, count |-> 0, ccount |-> 0, flag |-> {},
                                caddr |-> Nil]]
    /\ pflag = [p \in Users |-> {"SLOAD"}]
    /\ textp = [p \in Users |-> Nil]
    /\ held = {} /\ itext = {}
    /\ irefs = [f \in Programs |-> 0]
    /\ doing = [a \in Doers |-> Idle]
    /\ asleep = {} /\ panicked = FALSE /\ strayed = FALSE

\* Bound: what happens after a panic, with a slot freed under a waiter, or with the core of a
\* parent freed, is not followed.
Steady == ~panicked /\ ~strayed

\* SIDL: newproc goes on as the child of p until the image of the child is written.
Copied(p) == \E q \in Users : doing[q].proc = p

\* A process runs if it is in core; all that can run may.
Runs(a) ==
    /\ Steady /\ a \notin asleep
    /\ a \in Users => "SLOAD" \in pflag[a] /\ ~Copied(a)

At(a, where) == Runs(a) /\ doing[a].at = where

TextSlot(a) == text[doing[a].slot]

Goes(a, where) == doing' = [doing EXCEPT ![a].at = where]

GoesOn(a, where, s) == doing' = [doing EXCEPT ![a].at = where, ![a].slot = s]

\* Lock and unlock a slot, as xlock and xunlock do when they need not sleep.
Locked(x) == [x EXCEPT !.flag = @ \cup {"XLOCK"}]

Unlocked(x) == [x EXCEPT !.flag = @ \ {"XLOCK", "XWANT"}]

\* xfree and xuntext clear XLOCK alone.
Cleared(x) == [x EXCEPT !.flag = @ \ {"XLOCK"}]

\* One more process has the text in core.
TextEntered(x) == [x EXCEPT !.ccount = @ + 1]

\* The frames of the text are found by the page tables of p.
FoundBy(x, p) == [x EXCEPT !.caddr = p]

WakesNobody(s) == UNCHANGED asleep

Wakes(s) == asleep' = asleep \ {a \in Doers : doing[a].slot = s}

LockPoints == {"free", "attach", "swapin", "swapout", "untext"}

\* The slot is locked: sleep in xlock, doing d.
SleepsFor(a, d) ==
    /\ "XLOCK" \in text[d.slot].flag
    /\ asleep' = asleep \cup {a}
    /\ text' = [text EXCEPT ![d.slot].flag = @ \cup {"XWANT"}]
    /\ doing' = [doing EXCEPT ![a] = d]
    /\ UNCHANGED <<pflag, textp, held, itext, irefs, panicked, strayed>>

xlock(a) ==
    /\ Runs(a) /\ doing[a].at \in LockPoints
    /\ SleepsFor(a, doing[a])

\* The lock is free, at once or after a sleep: nothing looks at the inode again.
Gets(s, program) ==
    /\ "XLOCK" \notin text[s].flag
    /\ strayed' = (text[s].iptr # program)

----------------------------------------------------------------------------
(* xccdec: p leaves core, or the text.                                     *)

LeftKeepsLink(x, p) == [x EXCEPT !.ccount = @ - 1]

LeftBy(x, p) == [x EXCEPT !.ccount = @ - 1, !.caddr = IF @ = p THEN Nil ELSE @]

\* The text is no longer found by p.
NotFoundBy(x, p) == [x EXCEPT !.caddr = IF @ = p THEN Nil ELSE @]

\* The last one writes the text to the swap area, if it has not been written.
MustWrite(x) == x.ccount = 1 /\ "XWRIT" \in x.flag

Xccdec(a, p, x, where, next) ==
    \/ /\ x.ccount # 0 /\ MustWrite(x)
       /\ text' = [text EXCEPT ![doing[a].slot] =
              [Locked(x) EXCEPT !.ccount = 0, !.flag = @ \ {"XWRIT"}]]
       /\ Goes(a, where)
       /\ UNCHANGED asleep
    \/ /\ x.ccount # 0 /\ ~MustWrite(x)
       /\ text' = [text EXCEPT ![doing[a].slot] = Unlocked(LeftBy(x, p))]
       /\ Wakes(doing[a].slot)
       /\ next
    \/ /\ x.ccount = 0
       /\ text' = [text EXCEPT ![doing[a].slot] = x]
       /\ UNCHANGED asleep
       /\ next

\* The text is written: the rest of xccdec.
Written(a, p) ==
    /\ text' = [text EXCEPT ![doing[a].slot] = Unlocked(NotFoundBy(@, p))]
    /\ Wakes(doing[a].slot)
    /\ UNCHANGED <<textp, held, itext, irefs, panicked, strayed>>

\* Give up a slot that nobody uses: its swap space, and the reference to the inode.
GiveUp(s) ==
    /\ text' = [text EXCEPT ![s] = [Cleared(@) EXCEPT !.iptr = Nil, !.count = 0]]
    /\ itext' = itext \ {text[s].iptr}
    /\ irefs' = [irefs EXCEPT ![text[s].iptr] = @ - 1]

----------------------------------------------------------------------------
(* exec and exit leave the old text, exec attaches to the new one.         *)

\* exec has locked the inode, exit needs none.  A process that has no text goes on.
Leave(p, f) ==
    /\ At(p, "idle")
    /\ f # Nil => f \notin held
    /\ held' = held \cup ({f} \ {Nil})
    /\ doing' = [doing EXCEPT ![p] =
           [at |-> IF textp[p] # Nil THEN "free" ELSE IF f = Nil THEN "gone" ELSE "search",
            slot |-> textp[p], prog |-> f, proc |-> Nil]]
    /\ UNCHANGED <<text, pflag, textp, itext, irefs, asleep, panicked, strayed>>

Onwards(p) == GoesOn(p, IF doing[p].prog = Nil THEN "gone" ELSE "search", Nil)

\* The last user of a text that is not sticky frees it.
xfree(p) ==
    LET s == doing[p].slot IN
    /\ At(p, "free") /\ Gets(s, text[s].iptr)
    /\ textp' = [textp EXCEPT ![p] = Nil]
    /\ \/ /\ text[s].count = 1 /\ text[s].iptr \notin Sticky
          /\ GiveUp(s)
          /\ Onwards(p)
          /\ UNCHANGED asleep
       \/ /\ text[s].count > 1 \/ text[s].iptr \in Sticky
          /\ Xccdec(p, p, [text[s] EXCEPT !.count = @ - 1], "freewrite", Onwards(p))
          /\ UNCHANGED <<itext, irefs>>
    /\ UNCHANGED <<pflag, held, panicked>>

FreeWritten(p) ==
    /\ At(p, "freewrite")
    /\ Written(p, p)
    /\ Onwards(p)
    /\ UNCHANGED pflag

\* The end of exec: iput unlocks the inode.
Executes(p) ==
    /\ doing' = [doing EXCEPT ![p] = Idle]
    /\ held' = held \ {doing[p].prog}

\* xexpand with the slot locked, for the first user in core of a text that exists.  In core
\* the text is read from the swap area, unless somebody is to read it from the file; without
\* core the process swaps itself out, and sched brings the text with it.
Xexpand(p, s, x) ==
    \/ /\ "XLOAD" \in x.flag
       /\ text' = [text EXCEPT ![s] = Unlocked(TextEntered(FoundBy(x, p)))]
       /\ Executes(p)
       /\ UNCHANGED pflag
    \/ /\ "XLOAD" \notin x.flag
       /\ text' = [text EXCEPT ![s] = FoundBy(Locked(x), p)]
       /\ GoesOn(p, "read", s)
       /\ UNCHANGED <<pflag, held>>
    \/ /\ text' = [text EXCEPT ![s] = Locked(x)]
       /\ GoesOn(p, "xswap", s)
       /\ pflag' = [pflag EXCEPT ![p] = @ \cup {"SLOCK"}]
       /\ UNCHANGED held

\* xalloc finds the slot of the program, takes a free one, or kills the process.
FindText(p) ==
    /\ At(p, "search")
    /\ \E s \in Slots :
        /\ text[s].iptr = doing[p].prog
        /\ SleepsFor(p, [doing[p] EXCEPT !.at = "attach", !.slot = s])

NewText(p) ==
    LET f == doing[p].prog IN
    /\ At(p, "search") /\ \A s \in Slots : text[s].iptr # f
    /\ \E s \in Slots :
        /\ text[s].iptr = Nil
        /\ textp' = [textp EXCEPT ![p] = s]
        /\ itext' = itext \cup {f}
        /\ irefs' = [irefs EXCEPT ![f] = @ + 1]
        /\ \E x \in {[iptr |-> f, count |-> 1, ccount |-> 0, flag |-> {"XLOAD", "XLOCK"},
                      caddr |-> text[s].caddr]} :
            \/ /\ text' = [text EXCEPT ![s] = Unlocked(TextEntered(FoundBy(x, p)))]
               /\ GoesOn(p, "readi", s)
            \/ /\ text' = [text EXCEPT ![s] = x]
               /\ GoesOn(p, "loadswap", s)
    /\ pflag' = [pflag EXCEPT ![p] = @ \cup {"SLOCK"}]
    /\ UNCHANGED <<held, asleep, panicked, strayed>>

OutOfText(p) ==
    /\ At(p, "search")
    /\ \A s \in Slots : text[s].iptr \notin {Nil, doing[p].prog}
    /\ doing' = [doing EXCEPT ![p] = [Idle EXCEPT !.at = "gone"]]
    /\ held' = held \ {doing[p].prog}
    /\ UNCHANGED <<text, pflag, textp, itext, irefs, asleep, panicked, strayed>>

\* The loaded processes by whose page tables the frames of the text can be found.
Holders(s, p) ==
    {q \in Users \ {p} : textp[q] = s /\ {"SLOAD", "SLOCK"} \cap pflag[q] = {"SLOAD"}}

\* The text is in core: find it, and count one more.
Share(s, p, x) ==
    \/ /\ x.caddr # Nil
       /\ text' = [text EXCEPT ![s] = Unlocked(TextEntered(x))]
       /\ UNCHANGED panicked
    \/ /\ x.caddr = Nil
       /\ \E q \in Holders(s, p) :
            text' = [text EXCEPT ![s] = Unlocked(FoundBy(TextEntered(x), q))]
       /\ UNCHANGED panicked
    \/ /\ x.caddr = Nil /\ Holders(s, p) = {}
       /\ panicked' = TRUE
       /\ UNCHANGED text

Attach(p, s) ==
    LET x == [text[s] EXCEPT !.count = @ + 1] IN
    /\ \/ At(p, "attach") /\ s = doing[p].slot
       \/ At(p, "search") /\ text[s].iptr = doing[p].prog
    /\ Gets(s, doing[p].prog)
    /\ textp' = [textp EXCEPT ![p] = s]
    /\ \/ /\ x.ccount = 0
          /\ Xexpand(p, s, x)
          /\ UNCHANGED <<asleep, panicked>>
       \/ /\ x.ccount # 0
          /\ Share(s, p, x)
          /\ Wakes(s)
          /\ Executes(p)
          /\ UNCHANGED pflag
    /\ UNCHANGED <<itext, irefs>>

TextRead(p) ==
    LET s == doing[p].slot IN
    /\ At(p, "read")
    /\ text' = [text EXCEPT ![s] = Unlocked(TextEntered(@))]
    /\ Wakes(s)
    /\ Executes(p)
    /\ UNCHANGED <<pflag, textp, itext, irefs, panicked, strayed>>

FileRead(p) ==
    /\ At(p, "readi")
    /\ text' = [text EXCEPT ![doing[p].slot].flag = {"XWRIT"}]
    /\ pflag' = [pflag EXCEPT ![p] = @ \ {"SLOCK"}]
    /\ Executes(p)
    /\ UNCHANGED <<textp, itext, irefs, asleep, panicked, strayed>>

\* xexpand's process is on the swap area: it unlocks the text and waits for sched.
SwappedItself(p) ==
    LET s == doing[p].slot IN
    /\ Runs(p) /\ doing[p].at \in {"xswap", "loadswap"}
    /\ text' = [text EXCEPT ![s] = Unlocked(@)]
    /\ Wakes(s)
    /\ pflag' = [pflag EXCEPT ![p] = {}]
    /\ Goes(p, IF doing[p].at = "xswap" THEN "back" ELSE "loadback")
    /\ UNCHANGED <<textp, held, itext, irefs, panicked, strayed>>

\* ... and goes on when it is in core: xalloc unlocks the text of others once more, and
\* reads a new one from the file.
Back(p) ==
    LET s == doing[p].slot IN
    /\ At(p, "back")
    /\ text' = [text EXCEPT ![s] = Unlocked(@)]
    /\ Wakes(s)
    /\ Executes(p)
    /\ UNCHANGED <<pflag, textp, itext, irefs, panicked, strayed>>

BackToRead(p) ==
    /\ At(p, "loadback")
    /\ pflag' = [pflag EXCEPT ![p] = @ \cup {"SLOCK"}]
    /\ Goes(p, "readi")
    /\ UNCHANGED <<text, textp, held, itext, irefs, asleep, panicked, strayed>>

\* newproc: the child has its parent's text.  Without core for a copy newproc goes on as the
\* child, with the parent's core, and the child is to leave core.
ForkText(p, q) ==
    LET s == textp[p] IN
    /\ At(p, "idle") /\ doing[q].at = "gone" /\ q \notin asleep
    /\ textp' = [textp EXCEPT ![q] = s]
    /\ text' = IF s = Nil THEN text
               ELSE [text EXCEPT ![s].count = @ + 1, ![s].ccount = @ + 1]
    /\ pflag' = [pflag EXCEPT ![q] = {"SLOAD"}]
    /\ \/ doing' = [doing EXCEPT ![q] = Idle]
       \/ doing' = [doing EXCEPT ![q] =
              [at |-> "mapwait", slot |-> s, prog |-> Nil, proc |-> p]]
    /\ UNCHANGED <<held, itext, irefs, asleep, panicked, strayed>>

\* expand without core: the process is to leave core itself.
ExpandText(p) ==
    /\ At(p, "idle")
    /\ doing' = [doing EXCEPT ![p] = [Idle EXCEPT !.at = "mapwait", !.slot = textp[p]]]
    /\ UNCHANGED <<text, pflag, textp, held, itext, irefs, asleep, panicked, strayed>>

\* xswap of one's own process, once there is a map for it.  A text with users in core is not
\* locked, so that xccdec need not sleep before it counts.
XswapFirst(p) ==
    /\ At(p, "mapwait")
    /\ pflag' = [pflag EXCEPT ![p] = @ \cup {"SLOCK"}]
    /\ \/ /\ doing[p].slot = Nil
          /\ Goes(p, "selfimage")
          /\ UNCHANGED <<text, asleep, strayed>>
       \/ /\ doing[p].slot # Nil /\ Gets(doing[p].slot, TextSlot(p).iptr)
          /\ Xccdec(p, p, TextSlot(p), "selftext", Goes(p, "selfimage"))
    /\ UNCHANGED <<textp, held, itext, irefs, panicked>>

XswapText(p) ==
    /\ At(p, "selftext")
    /\ Written(p, p)
    /\ Goes(p, "selfimage")
    /\ UNCHANGED pflag

\* The image is written; sched will bring it in, and a parent goes on.
XswapImage(p) ==
    /\ At(p, "selfimage")
    /\ pflag' = [pflag EXCEPT ![p] = {}]
    /\ doing' = [doing EXCEPT ![p] = Idle]
    /\ UNCHANGED <<text, textp, held, itext, irefs, asleep, panicked, strayed>>

----------------------------------------------------------------------------
(* sched.                                                                  *)

\* A process is on the swap area, or on its way in.
Out(p) == "SLOAD" \notin pflag[p] /\ doing[p].at # "gone"

Swapper(at, p) == [at |-> at, slot |-> textp[p], prog |-> Nil, proc |-> p]

Mine == doing[Proc0].proc

SwapinWaits(p) ==
    /\ At(Proc0, "idle") /\ Out(p) /\ textp[p] # Nil
    /\ SleepsFor(Proc0, Swapper("swapin", p))

SwapinNoText(p) ==
    /\ At(Proc0, "idle") /\ Out(p) /\ textp[p] = Nil
    /\ doing' = [doing EXCEPT ![Proc0] = Swapper("image", p)]
    /\ UNCHANGED <<text, pflag, textp, held, itext, irefs, asleep, panicked, strayed>>

\* swapin with the text locked; without core nothing is done.
Swapin(p) ==
    LET s == textp[p] IN
    /\ \/ At(Proc0, "idle") /\ Out(p)
       \/ At(Proc0, "swapin") /\ p = Mine
    /\ s # Nil
    /\ Gets(s, text[s].iptr)
    /\ \/ /\ doing' = [doing EXCEPT ![Proc0] = Idle]
          /\ Wakes(s)
          /\ text' = [text EXCEPT ![s] = Unlocked(@)]
          /\ UNCHANGED panicked
       \/ /\ text[s].ccount = 0 /\ "XLOAD" \notin text[s].flag
          /\ text' = [text EXCEPT ![s] = FoundBy(Locked(@), p)]
          /\ doing' = [doing EXCEPT ![Proc0] = Swapper("textin", p)]
          /\ UNCHANGED <<asleep, panicked>>
       \/ /\ text[s].ccount = 0 /\ "XLOAD" \in text[s].flag
          /\ text' = [text EXCEPT ![s] = Unlocked(TextEntered(FoundBy(@, p)))]
          /\ doing' = [doing EXCEPT ![Proc0] = Swapper("image", p)]
          /\ Wakes(s)
          /\ UNCHANGED panicked
       \/ /\ text[s].ccount # 0
          /\ Share(s, p, text[s])
          /\ doing' = [doing EXCEPT ![Proc0] = Swapper("image", p)]
          /\ Wakes(s)
    /\ UNCHANGED <<pflag, textp, held, itext, irefs>>

SwapinText ==
    LET s == doing[Proc0].slot IN
    /\ At(Proc0, "textin")
    /\ text' = [text EXCEPT ![s] = Unlocked(TextEntered(@))]
    /\ Wakes(s)
    /\ Goes(Proc0, "image")
    /\ UNCHANGED <<pflag, textp, held, itext, irefs, panicked, strayed>>

SwapinImage ==
    /\ At(Proc0, "image")
    /\ pflag' = [pflag EXCEPT ![Mine] = {"SLOAD"}]
    /\ doing' = [doing EXCEPT ![Proc0] = Idle]
    /\ UNCHANGED <<text, textp, held, itext, irefs, asleep, panicked, strayed>>

\* sched takes a process out that is not locked in core, nor its text; xswap may sleep
\* before it comes to the text.  Nothing keeps it from one that waits for a map itself: such
\* a process goes on with its own xswap when it is in core again.
Victim(p) ==
    /\ {"SLOAD", "SLOCK"} \cap pflag[p] = {"SLOAD"} /\ doing[p].at # "gone" /\ ~Copied(p)
    /\ textp[p] # Nil => "XLOCK" \notin text[textp[p]].flag

SwapoutFirst(p) ==
    /\ At(Proc0, "idle") /\ Victim(p)
    /\ pflag' = [pflag EXCEPT ![p] = {"SLOCK"}]
    /\ doing' = [doing EXCEPT ![Proc0] =
           Swapper(IF textp[p] = Nil THEN "imageout" ELSE "swapout", p)]
    /\ strayed' = (doing[p].proc # Nil)
    /\ UNCHANGED <<text, textp, held, itext, irefs, asleep, panicked>>

SwapoutVictim ==
    /\ At(Proc0, "swapout") /\ Gets(doing[Proc0].slot, TextSlot(Proc0).iptr)
    /\ Xccdec(Proc0, Mine, TextSlot(Proc0), "textout", Goes(Proc0, "imageout"))
    /\ UNCHANGED <<pflag, textp, held, itext, irefs, panicked>>

SwapoutText ==
    /\ At(Proc0, "textout")
    /\ Written(Proc0, Mine)
    /\ Goes(Proc0, "imageout")
    /\ UNCHANGED pflag

SwapoutImage ==
    /\ At(Proc0, "imageout")
    /\ pflag' = [pflag EXCEPT ![Mine] = {}]
    /\ doing' = [doing EXCEPT ![Proc0] = Idle]
    /\ UNCHANGED <<text, textp, held, itext, irefs, asleep, panicked, strayed>>

----------------------------------------------------------------------------
(* xrele and xumount remove a text nobody uses.                            *)

\* xrele comes with the inode locked.
MayRemove(a, s) ==
    /\ At(a, "idle") /\ text[s].iptr # Nil
    /\ a = Unlinker => text[s].iptr \notin held

RemoveWaits(a, s) ==
    /\ MayRemove(a, s)
    /\ "XLOCK" \in text[s].flag
    /\ asleep' = asleep \cup {a}
    /\ text' = [text EXCEPT ![s].flag = @ \cup {"XWANT"}]
    /\ doing' = [doing EXCEPT ![a] =
           [at |-> "untext", slot |-> s, prog |-> text[s].iptr, proc |-> Nil]]
    /\ held' = IF a = Unlinker THEN held \cup {text[s].iptr} ELSE held
    /\ UNCHANGED <<pflag, textp, itext, irefs, panicked, strayed>>

UnusedInCore(x) == x.ccount = 0

Unused(x) == x.count = 0

xuntext(a, s) ==
    /\ \/ MayRemove(a, s) /\ Gets(s, text[s].iptr)
       \/ At(a, "untext") /\ s = doing[a].slot /\ Gets(s, doing[a].prog)
    /\ doing' = [doing EXCEPT ![a] = Idle]
    /\ held' = IF a = Unlinker THEN held \ {doing[a].prog} ELSE held
    /\ \/ /\ ~Unused(text[s])
          /\ text' = [text EXCEPT ![s] = Unlocked(@)]
          /\ Wakes(s)
          /\ UNCHANGED <<itext, irefs>>
       \/ /\ Unused(text[s]) /\ text[s].iptr # Nil
          /\ GiveUp(s)
          /\ UNCHANGED asleep
       \/ /\ Unused(text[s]) /\ text[s].iptr = Nil
          /\ UNCHANGED <<text, asleep, itext, irefs>>
    /\ UNCHANGED <<pflag, textp, panicked>>

----------------------------------------------------------------------------

UserStep(p) ==
    \/ \E f \in Programs \cup {Nil} : Leave(p, f)
    \/ \E q \in Users : ForkText(p, q)
    \/ \E s \in Slots : Attach(p, s)
    \/ xfree(p) \/ FreeWritten(p) \/ FindText(p) \/ NewText(p) \/ OutOfText(p)
    \/ TextRead(p) \/ FileRead(p) \/ SwappedItself(p) \/ Back(p)
    \/ BackToRead(p) \/ ExpandText(p) \/ XswapFirst(p) \/ XswapText(p) \/ XswapImage(p)

Proc0Step ==
    \/ \E p \in Users : SwapinWaits(p) \/ SwapinNoText(p) \/ Swapin(p) \/ SwapoutFirst(p)
    \/ SwapinText \/ SwapinImage \/ SwapoutVictim \/ SwapoutText \/ SwapoutImage

RemovesText(a, s) == RemoveWaits(a, s) \/ xuntext(a, s)

TextNext ==
    \/ \E p \in Users : UserStep(p)
    \/ \E a \in Doers : xlock(a)
    \/ Proc0Step
    \/ \E a \in {Unlinker, Unmounter}, s \in Slots : RemovesText(a, s)

TextSpec == TextInit /\ [][TextNext]_textVars

----------------------------------------------------------------------------

\* The users of a text whose frames it is in: the loaded ones, from when the text is
\* attached until they have left it, and the one that sched brings in.
InCore(s) ==
    {p \in Users : textp[p] = s /\
        \/ "SLOAD" \in pflag[p] /\ doing[p].at \notin
              {"read", "xswap", "loadswap", "selftext", "selfimage"}
        \/ Mine = p /\ doing[Proc0].at \in {"image", "swapout"}}

\* Whatever was interrupted by what, the counts of a text are those of its users and of
\* its users in core, so that its frames and its swap space are given back when the last
\* one leaves, not before; and a program has one text, which keeps its inode.
TextsCounted ==
    Steady =>
        /\ \A s \in Slots : text[s].iptr # Nil =>
            /\ text[s].count = Cardinality({p \in Users : textp[p] = s})
            /\ text[s].ccount = Cardinality(InCore(s))
        /\ \A f \in Programs :
            LET texts == {s \in Slots : text[s].iptr = f} IN
            /\ irefs[f] = Cardinality(texts) /\ irefs[f] \in {0, 1}
            /\ f \in itext <=> texts # {}

\* x_caddr leads to a process in core with that text: its page tables can be read.
FoundByAUser ==
    Steady => \A s \in Slots :
        text[s].iptr # Nil /\ text[s].ccount > 0 /\ text[s].caddr # Nil =>
            text[s].caddr \in InCore(s)

\* Who has locked a slot and waits for the disk.
Holding == {"freewrite", "read", "xswap", "loadswap", "selftext", "textin", "textout"}

HoldsSlot(a, s) == doing[a].at \in Holding /\ doing[a].slot = s

\* Nobody sleeps for a lock that nobody will unlock, though xfree clears XLOCK alone.
WaitersAreWoken ==
    Steady => \A a \in asleep :
        /\ {"XLOCK", "XWANT"} \subseteq TextSlot(a).flag
        /\ \E b \in Doers : HoldsSlot(b, doing[a].slot)

\* Nobody executes a text that has yet to be read from its file, though xalloc does not ask
\* for XLOAD when it finds the text.
TextsAreRead ==
    Steady => \A p \in Users :
        textp[p] # Nil /\ doing[p].at = "idle" => "XLOAD" \notin text[textp[p]].flag

\* The panics of xalloc and of swapin (text.c:192, slp.c:361): a text in core is found.
TextIsFound == ~panicked

\* text.c:127-365: whoever sleeps for the lock of a slot or for its disk, the slot agrees with
\* the processes and the inode that use it, and who waits for it is woken.
TextOK == TextsCounted /\ FoundByAUser /\ WaitersAreWoken /\ TextsAreRead
=============================================================================
