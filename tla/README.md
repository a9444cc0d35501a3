# TLA+ models of vaxrun

The repository is a "Distribution of VAX Tools" (`README.md:1`): the kernel of
UNIX/32V in C (`src/sys`), a VAX user-mode emulator in Java that replaces that
kernel for programs (`src/src/vax_interpreter`), disassemblers and file system
extractors (`src/src/vaxrun`, `ve3`, `unixv6`, `unixv7`, `vfs`), two commands
(`src/cmd`) and the binaries and headers of the emulated system (`src/root`).
The program's own logic with state to go wrong is in the kernel and in the
emulator. This directory holds TLA+ models of both, the configurations that
model-check them and the theorems that are proved about them.

Paths below such as `bio.c:263` are relative to `src/sys/sys`.

## Inventory

| Part | State | Operations | Interacts with | What is hard | What makes it correct |
|---|---|---|---|---|---|
| Buffer cache (`bio.c`) | buffer headers, the available list, the device queue | getblk, bread, breada, bwrite, bdwrite, brelse, bflush, iodone | file system above, driver and interrupts below | sleeps between search and choice; iodone at interrupt level | one buffer per block, one owner per busy buffer, reads find the last write, no wakeup lost |
| Pipes (`pipe.c`) | an inode used as a queue, three sleep channels | readp, writep, close of an end, update | inodes, files, signals | i_count doubles as "is the other end open" | FIFO, truthful end of file, nobody sleeps for ever |
| Processes and swapping (`slp.c`, `text.c`) | process table, run queue, core, runin, runout | sleep, wakeup, setrun, swtch, sched, newproc, expand, xswap | everything that sleeps | the swapper, growing and forking processes move the same core | nobody runs without core, core conserved, nobody forgotten |
| Inodes and directories (`iget.c`, `alloc.c`, `nami.c`, `sys2.c`, `sys4.c`) | inode table, free inode list, directories | iget, iput, ialloc, ifree, namei, open, creat, link, unlink, close, update | buffer cache, mounting | locks released between name and inode; the list is a hint; errors half way | one copy in core, counts equal references, links cover entries, only unused inodes allocated |
| Free blocks (`alloc.c`) | list in the superblock, chain on disk, s_flock | alloc, free, update of the superblock | buffer cache | the lock is dropped while blocks are cleared; update copies the superblock | no block twice, none lost |
| Block map (`subr.c`, `rdwri.c`) | i_addr, indirect blocks | bmap, readi, writei | alloc, buffer cache | a write that fails half way | a block belongs to one place of one file |
| Mounting (`sys3.c`) | mount table | smount, sumount | inodes, text, update | slots chosen before a sleep | no slot twice, no inode of an unmounted device |
| Shared text (`text.c`) | text table, reference and core counts | xalloc, xfree, xexpand, xccdec, xuntext | swapping, inodes | the slot may be another text after a sleep | counts equal users, text freed once |
| Maps and pages (`malloc.c`) | resource map, free page list | malloc, mfree, memall, memfree | swapping, text | coalescing | what is free is what was freed |
| Clock (`clock.c`) | callout table | timeout, clock | drivers | differences of times; a full table | everything is called once, in order, in time |
| Signals, tracing (`sig.c`) | p_sig, the ipc record | psignal, issig, stop, psig, ptrace, procxmt | sleep, wait | one ipc record for all; stops race with continues | no signal lost, a stopped child is seen |
| exec, exit, wait (`sys1.c`) | process table | exece, exit, wait, fork | signals, inodes, text | exit races with wait and with the parent's exit | a child is waited for once |
| Character lists, terminals (`prim.c`, `tty.c`) | clists, queues | getc, putc, q_to_b, b_to_q; ttread, ttwrite, ttyinput | drivers at interrupt level | priority handling, full lists | FIFO, no block lost |
| Disk (`hp.c`, `dsort.c`), adapters (`uba.c`, `mba.c`) | drive queues, maps | strategy, start, interrupt; uballoc, ubafree | buffer cache | retries, resources held while waiting | every request is done once |
| Raw and swap I/O (`bio.c`) | two swap headers, one per device | swap, physio | driver | errors of parts | errors are reported |
| Multiplexed files (`mx1.c`, `mx2.c`) | groups, channels, their control queue | mpx, attach, detach, open and close of a channel, mxread | inodes, clists | an open waits for the group's answer; channels are used again | nobody waits for a channel that is gone |
| Emulator: system calls (`Kernel.java`, `Context.java`, `FileItem.java`, `Process.java`) | process set, free pids, descriptors, channels | fork, exit, wait, open, creat, close, dup, read, write | one thread per process, one lock | pids used again, reference counts of one byte | children are found by their parents, files close with their last descriptor |
| Emulator: instructions (`Opcode.java`, `Operand.java`, `Data.java`) | registers, memory, condition codes | one method per instruction | | widths, signs, condition codes | results equal the arithmetic definitions |

Every other part (tables, drivers, the disassemblers, the viewer, binaries,
build files) is listed in `PROJECT.json` with the reason it is not modelled.

## How the kernel is modelled

The kernel runs one process at a time and does not preempt it. A process gives
the CPU up only in `sleep` or when its call ends (`slp.c:26-68`,
`slp.c:417-484`), so an action is the code between two places where it may
sleep; the variable `cur` of the modules says who runs, where that matters.
Device interrupts come between actions; where code is not at spl6 the
stretch is cut there. A sleeping process is made runnable by `wakeup` on its
channel and then looks at its condition again where the code loops.

Data are abstracted to what the properties tell apart: a block's contents is
the number of the write that made it, a byte of a pipe says who wrote it, a
file is "free" or "file", a name is a directory and a component.

In each module a few operators are *deliberate errors*, named by what they do
wrong (`ReleasedBusy`, `IputCleanAlways`, ...) and standing before the operator
they pervert. Nothing in the specification uses them: with each of them in the
place of the right one TLC finds the property it belongs to violated, which
shows that the property says something of the code. `PROJECT.json` lists the
pairs under "mutants".

## Modules

### Bio: the buffer cache (`bio.c`)

`flags`, `blk`, `data` are `b_flags`, `b_dev`/`b_blkno` and the contents of each
buffer, `avail` the list through `av_forw`, `wanted` the flag of `bfreelist`,
`queue` what the driver was given, `disk` the medium. `pc`, `want`, `ra`, `ret`,
`bp`, `cand` are the program counter and the locals of each process's call. One
action per stretch of getblk, geteblk, bread, breada, bwrite, bawrite, bdwrite,
brelse, bflush, iowait; `Interrupt` is the device finishing one request and
iodone. The device finishes requests in any order, as disksort may.

`BlockStore` is what the cache promises: a store of blocks, one holder each, in
which a reader finds what was put there last. `ImplementsStore` maps the cache
to it: the value of a block is its buffer's contents if it has one that has been
read or written, else the disk's.

Runs: `bio` (2 buffers for 3 blocks, two of them on a tape, 2 processes, 3 calls:
delayed writes are evicted, a tape's writes stay in order; processes, and the blocks of
a device, are interchangeable) and `bio_faulty` (2 buffers, 2 blocks of a disk, any
transfer may fail; invariants and liveness). Two processes and three blocks suffice for
every pair of routines to meet at every point, and two buffers make each of the cases
"cached", "cached and busy", "free", "free but delayed" and "none free" happen.
`CHECK_DEADLOCK FALSE` in `bio`, because with three blocks two processes in breada can
hold the two buffers and wait for each other for ever (see below); with two blocks
each finds the other's block in core and they cannot, so `bio_faulty` checks deadlock.

Fairness: weak for each process's step, which `swtch` justifies for a machine
whose user programs do not monopolise the CPU (a process in the kernel has a
better priority than any in user mode), and for the interrupt: a device that
was given a transfer ends it.

### Pipe (`pipe.c`, with `fio.c`, `iget.c`, `alloc.c`)

One inode with its contents, `offset`, the lock bits `ilock`, `iwant`, the bits
of its mode by which readers and writers announce that they wait, and
`i_count`; the two file structures; the processes that share them. Signals
interrupt the sleep above PZERO; `update` takes a reference of its own to an
unlocked inode and so changes the count by which readers and writers see
whether the other end is open. `readi` and `writei` transfer what they are
asked, or the disk fails (`Failing`). A `readi` whose block cannot be read sets
`u_error`: the call returns an error, but `f_offset` has gone past what was moved,
the failing block perhaps included. A `writei` whose block cannot be read fills the
buffer and gives it up (rdwri.c:121-125), and `i_size` grows over bytes that are on
no block; `u_error` stays set, so that each later part of the write loses its first
block in the same way. And a delayed write of the pipe's file may fail, of which
nobody hears. What the file then holds is `Stale`.

`Channel` is the abstract pipe: a queue with two ends. `ImplementsChannel` says
that the pipe implements it. What the channel promises while its medium does not
fail is exact: the bytes, their order, parts of a write in one piece. When the medium
fails it still promises places: bytes turn stale where they are, only a write that
returns an error has parts cut short or stale, only a read that returns an error loses
bytes, and none comes twice or out of order.

Runs: `pipe` (a creator and two processes it forks, which are interchangeable, PIPSIZ 2,
writes of up to 3 bytes so that one does not divide PIPSIZ, 2 calls, an update, a
signal, a disk that fails) and `pipe_live` (PIPSIZ 1, a disk that does not fail, with
the assumption that each process closes its descriptors in the end).
`CHECK_DEADLOCK FALSE` because the calls are bounded: a reader may be left with nobody
who still may write.

### Swap: processes, CPU and core (`slp.c`, `text.c`)

`stat`, `flag`, `wchan`, `runq`, `runin`, `runout` are the code's; core is
counted in units (`freemem`, `size`, `core`, `swsize`), and `base[p]` says whose
core p's page table points to, so that a fork's copy can be told from its
parent's core. sched's choice by age and swtch's by priority are left open:
any choice they could make is possible.

Run: a part of `processes` (3 processes, 3 units of core, sizes up to 2, 5 forks,
expansions and exits: the fewest with which both swap maps are in use and a third
process waits for one). `ProcessesOK` joins the form of the table and of the run queue,
the core a running process has, the conservation of core, that nobody waits for a
swapper that sleeps, and that a process is swapped by one.
xswap sleeps for the map before it locks the process (`text.c:47-51`), and while it
sleeps sched may choose the same process, which is described below. `raced`, which the
code does not have, records that it did; from then on three parts of the invariants are
not asked for (a process is swapped by one only, core is not overdrawn, a process that
runs has all of its core), the others hold all the same.

### Inode and Files: inodes, directories, files

`Inode` is the inode table (`number`, `count`, `flag`, `mode`, `nlink`), the
disk inodes (`dmode`, `dnlink`), the superblock's list (`sinode`, `ilock`) and
the procedures iget, iput, iupdat, ialloc, ifree, prele. They are called by
those of `Files`: `cont[p]` is p's stack of return points. `Files` adds the
directories and the calls open, creat, link, unlink, close, a write through a
descriptor, and update. `held[p]`, which the code does not have, records what p
has locked and not released.

A directory's own inode is held by somebody for ever (its processes have it as
current directory), so of it only the lock is kept. Nobody is the super-user:
`access` fails on a freed inode, whose mode is 0.

Runs: a part of `files` (2 processes, 2 directories, 3 inodes, 2 slots of the table so
that it overflows, a list of 2; one process makes three calls and the other two, all
but link: `FilesOK`, `AllocatesUnused`) and of `answers` (one process makes two calls,
link among them, the other a creat or an unlink, with one I/O error: `TableOK` and
liveness). The invariants of `files` do not hold with link and errors, see below.
`CHECK_DEADLOCK FALSE` because the calls are bounded: when they are used up the
system stops.

### Allocator and FreeList: the free list of disk blocks (`alloc.c`)

`Allocator` is the promise: a set of free blocks, from which a block is taken and to
which it is given back; there is no space only when the set is empty. A disk that has
failed may end the promise (`Breaks`). `FreeList` is
the code: `sfree` is `s_free[0..s_nfree-1]`, `link[b]` the part of the list that block
b holds, `flock`, `fmod` and `updlock` the code's flags, `written` what update last
wrote. A process gives up the CPU where it sleeps: for `s_flock`, in bread, getblk and
bwrite. The refinement takes for the free blocks those that are reached from the
superblock (`OnList`) and, while somebody holds `s_flock`, those in the part he is
reading or writing (`FreeBlocks`). `NoBlockTwice` says of the chain, the blocks that
are being moved and those that files have that no block is in two of them.

When the write of a part of the list fails, nobody is told (`FreeWritten`): the block
keeps what it held before, which is `<<>>` in `link` for "no list of ours". When such a
block is read for its list, alloc takes what it finds: no space, or any of the lists in
`Residues`, and from then on the list is `garbled`: blocks that files have may be in
it. The model goes on (a block may be freed by two files, a block that is read holds
anything), and s_flock, the mark for update and the return of every call are as before,
but who has which block is not followed any more: `NoBlockTwice` is asked for, and the abstract
allocator implemented, until then. That this takes a failed disk, and a part whose write
failed, is a part of `FreeListOK`. What else may be in such a block, numbers out of
range and a count above NICFREE, is left out: alloc passes over the numbers (badblock),
and getfs makes the count 0, which is a list of `Residues`.

Run: a part of `blocks` (2 processes, 3 blocks, room for 2 in the superblock, so that parts are
read and written; two I/O errors; a block without a list passes for none, for a list of
one and for a full one; one call begins once the list is garbled, `MaxBegun`, for
otherwise the states are too many). A failed read may lose free blocks, which the abstract
allocator allows (`Left`); without failures there is no space only if none is free.
Fairness is weak for the steps of a process and strong for those who wait for
`s_flock`: wakeup wakes all of them, and nobody keeps the lock for ever; the code does
not exclude that one of them always comes too late, which is assumed.

### Emulator: system calls of the Java emulator (`vax_interpreter/`)

`Emulator` has the processes of `Kernel.java` (`pidFree`, `stat`, `pid`, `ppid`)
and the descriptors of `Context.User` (`ofile`) on the files of `FileItem.java`
(`count`, `open`). Every process is a Java thread (`Process.java`) that holds the
monitor of `Context.class` during an instruction: a system call is one action,
except that `wait` sleeps in the monitor (`pc[t]` is `"wait"`, then `"woken"`) and
that a read of the terminal keeps it (`reading`). An exception nobody catches ends
the thread and releases the monitor; its process stays as it is (`"dead"`).
`f_count` wraps as a Java byte does when `SignBit` is 128. `Seekers` are the open files
on which programs seek. `creator`, which the code does not have, records who forked a
process. What the count of a file should be is the number of descriptors that refer to
it (`Referring`), those of a process that could not fork counted twice (`LeftBehind`):
fork adds the references before it finds that there is no process number.

Runs: a part of `vax` (3 threads and 3 process numbers, 2 descriptors each, 2 open files,
one of them standard input, 3 calls on files; numbers are used again and forks fail when
zombies keep them; a count of 3 bits,
`SignBit` 4, which six descriptors overflow) and
`emulator_live`, which assumes that every program ends and that somebody types (`WF` of
`Input`), and that a thread gets a monitor that is free again and again (`SF`: the Java
scheduler promises no more). It shows that `wait` returns unless a thread has died or a
process has adopted a child (`Broken`). `emulator_adopt` shows the latter: t1 forks t2
(pid 2), t2 forks t3 (pid 3) and exits, t1 collects it, and when the number 2 comes
round t3 forks a process that gets it: t3 is then the child of its child, and if both
call `wait` neither returns. `CHECK_DEADLOCK FALSE` because programs end.

### Alu and Frames: instructions of the Java emulator (`Opcode.java`, `Data.java`)

`Alu` executes one instruction on values kept as unsigned numbers (`IntData`): `ins`
is the instruction with its operands, `result` what it stores, `cc` its condition
codes, `taken` the conditional branches that would then be taken. The number of bits
of a byte and the sizes of words and longs are constants, because TLC's integers do
not hold products of longs; every formula of the code is written in terms of them.
Bytes have 5 bits, words 10, longs 15: the three types differ, and shift counts reach
beyond the width of what is shifted. Operands wider than a byte are those around zero,
the extremes of the three types and what extending the sign of a shorter one makes of
them (`SmallValues`). Results are compared with arithmetic on integers, branches
after CMP with the comparison of the operands. Where the code departs from the
architecture (V after MUL, ASH and CVT) no property says anything of the flag; the
unsigned branches after CMPL, which compare signed numbers in the code (`Uint`), are
stated as they are (`BranchesCompare`); see below.

`Frames` has the stack as longwords at byte addresses (`mem`), a longword that is
partly overwritten being `Junk`. `calls`, which the code does not have, records the
caller's state at each call. Between calls a procedure changes registers, pushes,
and moves the stack pointer, but stays below its frame (`Limit`): what compiled code
does. Two procedures, one that saves both registers, six steps, a stack for two calls.

Run: both are parts of `vax` (`MCVax`), next to the system calls of Emulator: `Computes`
joins the results and the branches, `FramesRight` the arguments and what RET restores.
`CHECK_DEADLOCK FALSE` because it ends after one instruction or six steps.

### Runs of several parts

Components that do not interact share a run: `files` (`MCFileSystem`), `answers`
(`MCAnswers`), `blocks` (`MCBlocks`), `processes` (`MCProcesses`), `vax` (`MCVax`). A
variable `part` or `side` says in the initial state which of them the behaviour is one
of; the variables of the others stay as they are. What holds in such a run holds of each
part by itself. In `answers` the fairness is weak for the disjunction of the fair
actions of the part: every part is finite (calls, requests and errors are bounded) and
no action of it can be repeated for ever, so a behaviour goes on until none of them is
enabled, as with fairness for each. `AllAnswered` then says that no call, request or
transfer is left.

Some properties are conjunctions of several that speak of the same state (`CacheOK`,
`PipeOK`, `ProcessesOK`, `FilesOK`, `TextOK`, `FamiliesOK`, `TtyOK`, `FreeListOK`,
`ClockOK`, `ChannelsOK`, `EmulatorOK`, `Computes`, `FramesRight`); each conjunct has its
own comment in the module.

### Rdwr: the contents of a file (`sys2.c`, `rdwri.c`, `subr.c`)

`addr` is `i_addr`, `block` what the blocks of the disk hold, `unused` the free list,
`offset` the `f_offset` of each descriptor, `holder` who has locked the inode. `bmap`
walks the levels of indirect blocks and allocates on the way; one turn of the loop of
`readi` or `writei` is a step. `rdwr` reads the offset before it waits for the lock, as
`sys2.c:62` does. `file`, history, is what the successful writes have left.

Part of `files`: two processes share a descriptor; one direct block and blocks of two
units, so that a file of 15 blocks has all three levels; six blocks on the disk, so that
writes run out of space in the middle; one block that cannot be read; three calls.

### Fio: descriptors and `file[]` (`fio.c`, `sys2.c`, `sys3.c`)

`ft` has `f_count` and `f_inode` of the entries, `u_ofile` and EXCLOSE of each process,
`i_count`, and who has locked an inode; `busy` where each process is in a call. Part of
`processes`: a parent and a child, a regular file and a device, three entries of
`file[]` and two descriptors each so that both tables fill, six calls. `Broken` says in
which device routines a signal may break off a call: open and close here, where the
counts stay right; in dup and exec they do not, see below. In the proof `Broken` is any
set without these two. An inode is also a place where a process may be, so no inode has
the name of one of the other places (`FioPlaces`), and 0, for nobody, is no process.

### Mount: the mount table (`sys3.c`, `iget.c`, `alloc.c`)

`inodes` and `mounts` are the two tables, `at` where each process is in mount, umount,
sync or in a walk that opens a file across a mount point. smount marks its entry, and
sumount clears its own, only after they have slept. `clashed`, history, is set when two
calls have passed their checks for what only one of them can have: two mounts one entry or
one device, two umounts one entry, or an umount the device of which a directory is about to
be mounted on; `MountsAreFound` is asked for until then. Part of `processes`: three
processes with any calls at once, two devices, two directories, five inodes and three
entries, four calls. `mount_fs` is the run in which a process that walks
across the mount point while it is unmounted comes to `getfs` without an entry, which a
comment says "cannot happen".

### Text: shared text (`text.c`, `slp.c`)

`text` is `text[]`, `pflag` and `textp` what the processes say of it, `itext` and `irefs`
what the inodes do. The lock of a slot, transfers and the first reading are sleeps.
A fork for which there is no core makes the child by swapping a copy of the parent out
(`ForkText`, with the parent in state SIDL: `Copied`), and a process that finds no core to
grow into swaps itself out (`ExpandText`); both wait for the map that xswap needs, then go
through xccdec, write the text if they are its last user in core, and their image
(`XswapFirst`, `XswapText`, `XswapImage`). The swapper may take such a process while it
sleeps there. One that expands goes on with its own xswap after it has been swapped in
again, and the counts stay right. The child of a fork has still its parent's core, which
the swapper frees: that is where the model stops to ask. `strayed`, history, is set then,
and when an actor has locked a slot that was freed while it waited
(`text.c:351`); the counts are asked for until then. `doing` says at which sleep an actor
is: a process that finds no core for a text of others goes from `xswap` to `back`, the
first user of a text, which has still to read the file, from `loadswap` to `loadback` and
`readi`. Such a text has XLOAD, and `xalloc` does not look at that when it finds the text:
`TextsAreRead` says that nobody gets to execute it unread, because `exec` keeps the inode
locked. Part of `processes`: two users, two
programs, one of them sticky, and one slot, so that they compete for it.

### Procs: fork, exit, wait, signals, tracing (`sys1.c`, `slp.c`, `sig.c`, `sys4.c`)

`proc` is the table with what belongs to signals, `ipc` the one request record of
ptrace, `mpid` the last process number, `t_pgrp` the group of each terminal: a process
without a group starts or joins it (`ttyopen`), the last close forgets it, and whoever has
the terminal open keeps it there, though the group is gone; newproc looks for numbers only
in `proc[]` (`slp.c:510`), so the number may be that of a new process when the next one
joins. `byNumber`, history, is set by that and by a process that asks mpx for a group of
others (`npgrp`); until then a number is not that of a group its process is not in. Part of `processes`, from three families
(`Families`): a shell and a child, a tracer and its stopped child, two tracers of which
one has just asked, each with a terminal: one with the number of a group that is gone, the
group's own, or none. Process numbers wrap at 16 (`MaxPid`), 5 entries, two events beyond
the initial state.

### Exec: the arguments of a new image (`sys1.c`)

Strings are collected block by block in the swap area and read back onto the new
stack; two processes do so at once and share the swap map and the buffers. Part of
`processes`: blocks of 4 bytes, at most 9 bytes of strings, and vectors in which a
string ends with a block, goes on in the next, fills the space, does not fit, or cannot
be fetched after a block is written.

### Clock (`clock.c`), Maps and Memory (`malloc.c`)

`callout` is the table with differences of times, `lbolt` and `time` what clock counts;
`ticks`, history, counts all interrupts. Part of `processes`: a periodic function and
another, four entries, five ticks of which two are a second, one process with an alarm.

`Maps` has malloc and mfree as functions from a map to a map, which `Uba` uses. `Memory`
is memall, memfree and meminit: `mem` has the bit map as a set, the stack of free frames
and `freemem`. Part of `processes`: frames 3 to 7, a stack of two, two holders of up to
three frames.

### Clist and Queues (`prim.c`)

`Clist` has the blocks, their links and the heads of the queues with pointers into
blocks; `Queues` is the promise: a queue, at the end of which characters are put and
from the front of which they are taken. `ClistsAreQueues` is the refinement, with the
character that is put. Part of `blocks`: two queues, three blocks of two characters.

### Tty (`tty.c`, `dz.c`)

`t` is the terminal with its three queues, modes and state, `who` who is in the kernel,
`left` the count of each process's call; the line delivers and takes characters and
loses the carrier at interrupt level. wflushtty ends with spl0 before TIOCSETP sets the
modes (tty.c:260, 201) or ttyclose forgets the state (77), so what is typed there is in the
queues when that happens (`FlushEnd`, then `SetpModes` or `CloseForgets`); so is what is
typed before TIOCSETN. `slipped`, history, is set when a flush at interrupt level meets
canon, or canon in raw mode takes a delimiter that was there when the mode was set:
`t_delct` is wrong from then on, until the next flush by a process. `delays` counts the delays that have been asked of `timeout` and have not
ended; a close forgets the state TIMEOUT, not the callout. `stalled`, history, is set when
a character that is not echoed lets stopped output go on without starting it, or a close
forgets an echo under way. A byte 0377 typed in raw mode, which canon would take for a
delimiter in another, is not modelled. Part of
`answers`: two processes, three characters typed, three calls, writes of up to three
characters, in cooked mode without an echo, one character at a time with flow control, and
raw; six characters in all queues together so that they fill.

### Disk (`hp.c`, `dsort.c`), RawIO (`bio.c`), Uba (`uba.c`), Ht (`ht.c`)

`Disk` has the drives' sorted queues and the controller's list, seeks, searches,
attentions, retries and drives that go off line: two drives, two cylinders, three
requests, one event. `TransfersKeep` says that a transfer and its retries are for one
request.

`RawIO` is swap with its two headers and physio with its one: three processes, transfers
of up to two parts, three calls. `Uba` has the maps of registers and data paths: three
transfers of one to three of four registers, one data path. `Ht` is a drive with a tape
of records and marks: `h_blkno` is where the driver thinks the head is; `strayed`,
history, is set when it has lost the place. Two tapes, blank and with a mark in the
middle, four requests or opens, one error.

All are parts of `answers`. Devices answer what they were given, and processes that are
awake go on: weak fairness, as in Bio.

### Mx: multiplexed files (`mx1.c`, `mx2.c`)

`mx` has the groups with their slots and marks (`g_chans`, `g_datq`, `g_rot`), the
channels with flags, control messages and the amounts of data both ways, the channel of
each client's descriptor, where everybody is, and the lock of the listening inode.
`astray`, history, is set when a channel is freed that has its mark set or that somebody
has open, opens or waits on; `fate` when mxread loops for ever or the kernel goes
through NULL. A side of `files`: two clients and an owner, two channels, two slots, one
group or one joined to it, one or two units of data before a writer waits, three calls
after which everybody goes on as far as possible; in the initial state a channel may be
open already. `ChannelsOK` says that, until something goes astray, marks lead to
whatever is to be read, names to the channels they were made for, a channel has one
client, and who sleeps has told the other side.

## Where the code and what is said of it part

The two runs that expect a violation:

- `emulator_adopt` (`ChildrenAreForked`, `src/src/vax_interpreter/Kernel.java:224`):
  p_ppid of an orphan stays the number of its dead parent, which allocPid gives to a new
  process: its wait finds the orphan, collects its status or sleeps until it ends, and
  if the orphan is the one that forked it the two wait for each other for ever; the
  comment on wait says "Search for a terminated (zombie) child, finally lay it to rest,
  and collect its status." (src/sys/sys/sys1.c:399).

- `mount_fs` (`NoFsCannotHappen`, `src/sys/sys/sys3.c:218`): A process that walks across
  the mount point waits in iget for the root inode of the mounted device (iget.c:44-47),
  which another has locked. That one's iput frees the slot (i_number 0) and wakes the
  first. Before it runs, sumount finds no inode of the device in the table
  (sys3.c:218-223), closes the device and clears the entry. The first looks again, finds
  nothing and reads the inode from the device that is no longer mounted; its iupdat,
  alloc or free then calls getfs, which finds no entry and panics. The comment says
  "panic: no fs -- the device is not mounted. this "cannot happen""
  (src/sys/sys/alloc.c:251).

Read from the source while modelling, and not the subject of a run:

- `src/sys/sys/bio.c:104`: breada keeps its own block's buffer busy (bio.c:93) while
  getblk for the read-ahead block sleeps on the free list (bio.c:104), so as many
  concurrent breada calls as there are buffers (NBUF is 32, NPROC 125) each hold one and
  wait for another for ever; the runs have fewer processes that read ahead than buffers.
  bio.c:215-217 says of incore: "See if the block is associated with some buffer (mainly
  to avoid getting hung up on a wait in breada)".

- `src/sys/sys/bio.c:258`: getblk matches b_blkno and b_dev at spl0 (bio.c:258) and
  tests B_BUSY only after spl6 (bio.c:260-261). When the asynchronous transfer of the
  matched buffer fails in between, iodone's brelse sets b_dev = NODEV and clears B_BUSY,
  and getblk returns that buffer. bio.c:234-236 says: "Assign a buffer for the given
  block.  If the appropriate block is already associated, return it; otherwise search
  for the oldest non-busy buffer and reassign it."

- `src/sys/sys/pipe.c:173`: A write of up to PIPSIZ bytes is put at the end of a file of
  up to PIPSIZ-1 bytes, so the file grows to 2*PIPSIZ-1 (8191) bytes, which is what
  FileWithinTwoWrites bounds it by. pipe.c:10-12 says of PIPSIZ: "Max allowable
  buffering per pipe. This is also the max size of the file created to implement the
  pipe."; pipe.c:168-169 knows that "One can therefore get a file > PIPSIZ if write
  sizes do not divide PIPSIZ".

- `src/sys/sys/pipe.c:175`: writep does not look at u_error after writei. When a block
  of the pipe cannot be read (rdwri.c:122), iomove fills the buffer all the same, brelse
  forgets it, and i_size grows over it; u_error stays set, so that of each later part
  the first block goes the same way. The writer is told EIO in the end, but the reader
  gets what the blocks held before, as good data: Stale in Pipe. The reader whose own
  block fails loses it: f_offset goes past it (pipe.c:97) and the next read starts
  behind it.

- `src/sys/sys/slp.c:576`: newproc puts the child into the table as SRUN and SLOAD with
  the parent's page addresses and calls xswap for it; xswap may sleep for a swap map
  (text.c:48-50) before it sets SLOCK (text.c:59), and meanwhile sched may choose the
  child (slp.c:239) and free the core it shares with its parent. slp.c:568-571 says: "If
  there is not enough core for the new process, swap out the current process to generate
  the copy.": the copy is then made of freed core.

- `src/sys/sys/text.c:48`: for the same reason sched may swap out a process that waits
  in expand for a swap map: xswap runs twice for it. With both maps in use, a third
  process must expand and sched look for a victim: two forks and three expansions. The
  run reaches it: `raced` records that it happened, and from then on the run no longer
  asks that a process is swapped by one only, that core is never overdrawn and that a
  process that runs has all of its core; without `raced` TLC finds the first two
  violated, with a fourth process the third too.

- `src/sys/sys/sys2.c:254`: link releases the inode (line 232) and at out gives it up
  with iput(ip) without having locked it again, so that iput's prele clears the ILOCK of
  whoever has it locked by then, and two processes are in the inode at once.
  iget.c:13-15 says of an inode in core: "honor the locking protocol"; the comment at
  sys2.c:224-231 concedes only that the file may be deleted in the meantime.

- `src/sys/sys/iget.c:82`: When the block of an inode cannot be read iget gives the slot
  up with iput before iexpand has filled it in: i_nlink is what the slot held last, 0 in
  a fresh one, so iput takes the last link to be gone, frees the inode of a file that
  has entries and, when the block can be read again, writes it out as free.
  iget.c:117-120 says of iput: "On the last reference, write the inode out and if
  necessary, truncate and deallocate the file."

- `src/sys/sys/alloc.c:194`: ialloc looks at s_ilock only at its beginning; coming back
  from iget or iput it goes to loop, and starts a second scan while one is in progress.
  The first to end clears s_ilock, ifree appends again, and the other scan appends an
  inode before it compares with NICINOD: s_inode overflows. alloc.c:217-219: "The
  algorithm stores up to NICINOD I nodes in the super block and throws away any more."

- `src/src/vax_interpreter/Kernel.java:135`: When all thirty numbers are taken (by
  running processes or by zombies nobody waits for) allocPid calls next() on an empty
  set: the NoSuchElementException ends the thread of the process that forks, after its
  open files have got one reference too many; the assertion before it is "assert
  !pidFreeSet.isEmpty() : "no procs"" (src/src/vax_interpreter/Kernel.java:132); bin/
  runs java without -ea.

- `src/src/vax_interpreter/Kernel.java:155`: exit leaves p_ppid of the children of the
  process alone (the loop that would change it is in a comment), so that a child that
  ends after its parent is a zombie for ever and keeps its number; the comment on SZOMB
  says "intermediate state in process termination"
  (src/src/vax_interpreter/Kernel.java:96), the one on exit in the kernel that is
  emulated says "Wake up parent and init processes," "and dispose of children."
  (src/sys/sys/sys1.c:340).

- `src/src/vax_interpreter/FileItem.java:123`: f_count is a byte: with more than 127
  descriptors on one open file (thirty processes may have 600) it wraps to a negative
  number, and the next close closes the channel while the others use it; their next read
  or write ends their thread with a RuntimeException. The comment on the field says
  "reference count" (src/sys/h/file.h:11).

- `src/src/vax_interpreter/Opcode.java:2459`: Calculator.mul sets V when the high half
  of the product is the sign extension of the low half, that is when the product fits,
  and clears it when it does not (and for bytes and words it compares the bits above 32,
  which say nothing about them). The condition code is called "overflow bit"
  (src/sys/h/psl.h:6).

- `src/src/vax_interpreter/Opcode.java:932`: ASH sets V only if the sign of the result
  differs from the sign of the operand: bits shifted out leave no trace if the sign
  comes out the same, and a count beyond the width gives 0 without V. The condition code
  is called "overflow bit" (src/sys/h/psl.h:6).

- `src/src/vax_interpreter/Opcode.java:1768`: CVT to a shorter type sets V only if the
  sign changes: 256 converted to a byte is 0 with V clear. The condition code is called
  "overflow bit" (src/sys/h/psl.h:6).

- `src/src/vax_interpreter/Opcode.java:1018`: CMPL sets C by a comparison of uint(),
  which for a long is an int of Java masked with all bits
  (src/src/vax_interpreter/Data.java:40-43), hence signed: BLSSU, BLEQU, BGTRU and BCC
  after CMPL take a long with the sign bit for the lower of the two. The mask is there
  to make the value unsigned, as it does for bytes and words. BranchesCompare says what
  is left: after CMPB and CMPW the unsigned branches compare unsigned numbers, after
  CMPL those whose signs are equal.

- `src/sys/sys/alloc.c:300`: update looks at s_flock and s_ilock (line 297), then sleeps
  in getblk for the buffer of the superblock and copies the superblock without looking
  again: the copy that goes to the disk may be the one of a process in the middle of
  alloc or free, whose list is empty while it waits for the disk. The comment on s_flock
  says "lock during free list manipulation" (src/sys/h/filsys.h:11).

- `src/sys/sys/alloc.c:103`: if bwrite of the block that holds the list fails, nobody
  looks at B_ERROR: free returns as if all were well, the block keeps what it held
  before, and a later alloc copies df_nfree and df_free from that (lines 49-54), so that
  blocks that files have can be given out again. The comment on free says "place the
  specified disk block back on the free list of the specified device."
  (src/sys/sys/alloc.c:73-76).

- `src/sys/sys/alloc.c:50`: if the block that holds the next part of the list cannot be
  read, s_nfree stays 0 and alloc goes to nospace: it reports ENOSPC, and all blocks of
  the list are lost although they are free. The comment says "no space on dev x/y --
  when the free list is exhausted." (src/sys/sys/alloc.c:22).

- `src/sys/sys/tty.c:299`: canon leaves its loop when t_delct is not 0, and t_delct may
  say so although the raw queue has no delimiter: when a flush comes between taking a
  delimiter and counting it (lines 309-312), or when canon in raw mode takes a delimiter
  as data, which it does not count (line 308): one that was on the queue when the mode
  was set by TIOCSETN, or that was typed in cooked mode after the flush of TIOCSETP,
  which ends with spl0 (line 260), and before t_flags is set (line 201). In the model
  this is `slipped`. It then returns a line that was not typed to its end, where the
  comment says "It waits until a full line has been typed in cooked mode"
  (src/sys/sys/tty.c:287).

- `src/sys/sys/tty.c:388`: Any character clears TTSTOP, but ttyinput calls ttstart only
  for the stop character itself (385) and after an echo (415). On a line without an
  echo, output that was stopped and is freed by another character is not started: a
  writer or a flush that sleeps until it has drained sleeps on, though the device is
  idle and the output no longer stopped, until somebody writes or types the stop
  character again. A flush that then starts the one character left goes to sleep on an
  empty queue. The comment says of ttstart that it is called "from the interrupt routine
  to transmit the next character" (src/sys/sys/tty.c:571-574). In the model such output
  is `stalled`, and OutputUnderWay excepts it.

- `src/sys/sys/dz.c:110`: dzclose drops the ready line of the modem before ttyclose
  waits for the output to drain (112, tty.c:76): a modem that hangs up on it loses the
  rest of the output, which dzscan flushes.

- `src/sys/sys/tty.c:77`: ttyclose forgets the state after wflushtty has let interrupts
  in again (260): an echo that has begun there is no longer known to be under way, and
  the rest of the queue waits until something is written. In the model it is `stalled`.

- `src/sys/sys/dz.c:82`: dzopen puts HUPCLS into t_flags and dzclose looks for it there,
  while the ioctl commented "Hang up line on last close" (src/sys/sys/tty.c:218) sets it
  in t_state, where nobody looks. In t_flags the bit is one of those of a delay, so
  setting the modes changes whether the line is hung up.

- `src/sys/sys/tty.c:302`: canon returns without carrier at the priority it has raised
  with spl5; q_to_b returns at spl6 if the list is empty (prim.c:65-68).

- `src/sys/sys/cons.c:74`: The console wakes writers when exactly TTLOWAT characters are
  left, or none; a DZ line when there are at most TTLOWAT and somebody waits (dz.c:267).

- `src/sys/sys/clock.c:113`: The seconds count only for processes with p_stat < SZOMB.
  SSTOP is greater (src/sys/h/proc.h), so the alarm clock of a stopped process stands
  still.

- `src/sys/sys/clock.c:168`: timeout looks only whether the new entry would be the last
  of the table. Before others in a full table it fits, and moving them up writes behind
  the table. The comment says "The panic is there because there is nothing intelligent
  to be done if an entry won't fit." (src/sys/sys/clock.c:146): here it does not come.

- `src/sys/sys/uba.c:70`: The comment above ubafree gives bits "0 - 3 : bdp no.", "4 -
  15 : start map reg. no.", "16 - 31 : no. of mapping reg's"; uballoc (19-25) and the
  code of ubafree have them the other way round, at 28-31, 9-17 and 18-27. Both end with
  spl0, whatever the priority was.

- `src/sys/sys/hp.c:258`: A request for a drive that is off line is ended without
  clearing the drive's own b_active, so the next request for the drive waits until an
  attention of the drive comes. An attention of a drive whose queue is already on
  hptab's list puts it there again (lines 218-224), which makes the list circular.

- `src/sys/sys/bio.c:519`: physio goes on while b_error is 0, which the disk driver
  never sets: "devices don't yet return specific errors" (src/sys/sys/bio.c:548). The
  next part begins by assigning b_flags, so an error of any part but the last is not
  reported. A call for no bytes reports B_ERROR and b_resid of the call before (lines
  539-541).

- `src/sys/sys/ht.c:308`: The tests of TM after SSFOR and SSREV are never true: TM
  enters the branch at line 243, which makes the state SOK or SIO. htopen resets h_blkno
  and h_nxrec (91-92) while a read-ahead or an asynchronous write of the last user may
  still be under way.

- `src/sys/sys/text.c:194`: xalloc panics with "lost text" if x_ccount is not 0 and no
  process that is in core and not locked uses the text; the only one may be locked
  because it is being swapped out, and has not called xccdec yet.

- `src/sys/sys/text.c:179`: xalloc chooses a slot by its inode and then waits in xlock;
  the slot may be freed and used for another program meanwhile, and the process attaches
  to that. xfree by the last user and xuntext by xrele or xumount may likewise both find
  the count 0 and free the slot, one after the other (346-365). The comment on xexpand
  says "Text must be locked to keep someone else from freeing it in the meantime."
  (src/sys/sys/text.c:236).

- `src/sys/sys/text.c:335`: ip->i_flag&ITEXT==0 is ip->i_flag&(ITEXT==0), which is 0:
  xrele always searches the table.

- `src/sys/sys/sig.c:143`: psig stops a traced process and then takes the signal its
  tracer left, without asking again whether it is ignored, as issig does: u_signal is 1
  for an ignored signal, which psig takes for the address of a function.

- `src/sys/sys/sys2.c:62`: rdwr copies f_offset to u_offset before it waits for the
  inode and adds to f_offset afterwards: two processes that share a descriptor and write
  at the same time write at the same offset, which then advances twice.

- `src/sys/sys/rdwri.c:114`: writei returns if bmap is negative; for a block number that
  is too large bmap returns 0 with EFBIG (subr.c), and writei goes on and copies into
  the buffer of block 0 before it looks at u_error.

- `src/sys/sys/sys2.c:157`: When the open routine of a device fails, open1 puts an inode
  that prele has unlocked. A signal that breaks off the open routine leaves by longjmp,
  before line 153: the descriptor stays open, on a device whose open did not end.

- `src/sys/sys/sys3.c:122`: dup to a slot in use, and exec (sys1.c:310), close a
  descriptor before they clear or replace it in u_ofile. When a signal breaks off the
  wait in the close routine of the device, the descriptor is left and names an entry of
  file[] that has been given up (fio.c:67): the next open may take the entry, with one
  reference that is two. In Fio this is Broken with "dup" or "exec"; FilesTheorem says
  that nothing else makes the counts wrong.

- `src/sys/sys/iget.c:56`: "panic: no imt -- if the mounted file system is not in the
  mount table. "cannot happen"" (src/sys/sys/iget.c:25): two smounts at once choose the
  same slot, or mount one device twice, because the slot is marked (sys3.c:175-177) only
  after the open routine and bread, which sleep. Two sumounts may likewise both find the
  entry before one has cleared it: the second calls brelse(NULL) and puts a directory
  once more than it was got; and smount may be about to mount on a directory of the
  device that sumount leaves. In Mount each sets clashed.

- `src/sys/sys/sys3.c:211`: sumount calls update to write what is modified, but update
  returns at once if another is under way (alloc.c:291).

- `src/sys/sys/alloc.c:61`: alloc takes the block off the list, then sleeps in getblk,
  and sets s_fmod only afterwards: an update meanwhile believes that the superblock has
  not changed.

- `src/sys/sys/sys1.c:99`: getxfile may fail after the comment "at this point, committed
  to the new image" (src/sys/sys/sys1.c:223), when the text or the data cannot be read;
  exece then returns the error to a program that is gone. It frees the swap space of the
  arguments at once (137-138), although the blocks were written with bawrite and may not
  have been written yet: whoever gets the space may find its block overwritten.

- `src/sys/sys/mx2.c:685`: chfree leaves the mark of the channel in g_datq. The next
  mxread finds an empty slot behind the mark, nextcp returns NULL, and the loop
  `continue`s without end (248-250): fate becomes "spin" in Mx.

- `src/sys/sys/mx1.c:66`: challoc does not reset c_fy. DETACH of a channel whose open
  still waits takes what the last user left there for an open file and tells the one
  that waits to close; in a channel never used it frees the channel under him.

- `src/sys/sys/mx2.c:97`: mxopen releases mpxip after its sleep if the name has not been
  read; mxclose of the group may have set mpxip to NULL meanwhile (175-178), and prele
  goes through it: fate becomes "panic" in Mx.

- `src/sys/sys/mx2.c:660`: The last close of a channel empties what came from the owner,
  after wflush has slept, without a wakeup: an owner that began to wait in mxwrite
  during that sleep waits on.

- `src/sys/sys/mx2.c:571`: The mark for the end of file is set without waking a client
  that already waits in msread.

- `src/sys/sys/mx2.c:498`: SIGBLK and BLKMSG are one bit (src/sys/h/mx.h:83-84):
  mcstart, called after SIGBLK is cleared, never sends M_UBLK (590-592). And ENAMSG,
  which mxioctl sets in g_state (629), is looked for in c_flags (476, 566).

- `src/sys/sys/mx2.c:805`: cpx goes on with g_index of the group that was joined to, not
  of the group it starts from: the name of a channel of a joined group is right only if
  the group is at slot 0, as in Mx.

- `src/sys/sys/mx2.c:524`: signal is called with the signal first; it takes the process
  group first (src/sys/sys/sig.c:42).

- `src/sys/sys/iget.c:83`: An inode that could not be read is given up with iput, which
  looks at i_nlink although iexpand has not set it: with a zero left in the slot by the
  last inode, iput truncates and frees one that has entries.

## What is proved

Every theorem is about the whole specification: any number of processes, buffers,
blocks, descriptors. Each follows from an inductive invariant, one lemma for each
action, and the lemmas about the operators the actions are built from. The
assumptions are the named ASSUMEs of the modules, which the runs evaluate, and the
hypotheses written in the theorem.

| Theorem | Property | Along which invariant |
|---|---|---|
| `Bio_proofs!CacheTheorem` | `CacheOK` | `BioInv` |
| `Bio_proofs!NoLostWakeup` | `SleepersAreMarked` | `BioInv` |
| `Bio_proofs!StoreTheorem` | `ImplementsStore` | `BioInv`, `DataInv` |
| `Bio_proofs!TapeTheorem` | `TapeInOrder` | `BioInv`, `TapeInv` |
| `Bio_proofs!TtyTheorem` | `TtyOK` | `TtyInv` |
| `Pipe_proofs!PipeTheorem` | `PipeOK` | `PipeInv` |
| `Pipe_proofs!SleepTheorem` | `SleepsForAReason` | `PipeInv` |
| `Pipe_proofs!ChannelTheorem` | `ImplementsChannel` | `PipeInv`, `QueueOK` |
| `FreeList_proofs!FreeListTheorem` | `FreeListOK` | `ListInv` |
| `FreeList_proofs!AllocatorTheorem` | `Allocates` | `ListInv` |
| `FreeList_proofs!BlocksTheorem` | `BlocksConserved` | `ClistInv` |
| `FreeList_proofs!ClistTheorem` | `ClistsAreQueues` | `ClistInv` |
| `Emulator_proofs!EmulatorTheorem` | `EmulatorOK` | `EmulatorInv` |
| `Emulator_proofs!ChannelsTheorem` | `ChannelsStayOpen` | `EmulatorInv` |
| `Tables_proofs!FilesTheorem` | `FilesCounted` | `FileInv` |
| `Tables_proofs!SleepTheorem` | `NothingSleptThrough` | `ProcsInv` |
| `Tables_proofs!FamiliesTheorem` | `FamiliesOK` | `ProcsInv` |
| `Devices_proofs!ClockTheorem` | `ClockOK` | `ClockInv` |
| `Devices_proofs!UbaTheorem` | `RegistersAreOwned` | `UbaInv` |
| `Devices_proofs!MemoryTheorem` | `MemoryAccounted` | `MemoryInv` |
| `Devices_proofs!HtTheorem` | `TransfersInPlace` | `HtInv` |
| `Devices_proofs!DiskTheorem` | `TransfersKeep` | `DiskInv` |
| `Mount_proofs!MountTheorem` | `MountsAreFound` | `MountInv` |
| `Mount_proofs!TextTheorem` | `TextOK` | `TextInv` |

`SeqLemmas` has the facts about sequences and numbers the others cite: removal of an
element, appending, injectivity, the least number of a set, what a fold computes.

**Bio.** The properties are not inductive by themselves: that a buffer released by an
interrupt is nobody else's needs that an asynchronous buffer is in the device's queue
and owned by no process; that needs, for every program counter, what the process there
owns and with which flags; and getblk's choice of a free buffer needs that its block has
no buffer at that moment, which holds because nothing sleeps between the search and the
choice. `BioInv` is the conjunction: types, the lists, the associations, exclusive
ownership, the stages of each call, the marks of the sleepers.

For `StoreTheorem` the abstract contents of a block is that of its buffer if the buffer
has been read or written, and that of the disk otherwise. `DataInv` says that the two
agree unless a write is delayed or queued, and what each call has been given. The
theorem has the hypothesis `~Faulty`, as the run has: when the device fails, a buffer
that could not be written is forgotten, and a later bread returns what is on the disk.
`TapeTheorem` needs no such hypothesis. `TapeInv`: no write to a tape is delayed, those
in the queue are in the order of their numbers and newer than all that is on the tape.

**Pipe.** Who holds the lock is determined by the program counters and `update`; the
count is the number of open ends plus update's reference; a reader sleeps only while it
has marked IREAD and the pipe is empty, a writer only while it has marked IWRITE and the
pipe is full; a reader or writer of an end has a descriptor, so the end is open.
`QueueOK` adds, for `ChannelTheorem`, where the bytes of a write that is under way are.

**FreeList.** `ListInv` has two parts. `FormInv` holds whatever the disk does: who has
`s_flock` and at which point of which call; a superblock that has changed is marked, or
the process that changed it will mark it. `FreeInv` holds until the list is garbled: the list in
the superblock and the parts in blocks have no block in common and none twice, and a block
that is being moved is in none of them. That only a failure can end it is `LinkedOK`: as
long as the disk has not failed, a block that is the first of a part holds a list.
`AllocatorTheorem` shows step by step that a block
is taken or given back in exactly one step of alloc or free.

**Clist.** `ClistInv` says that there is a layout (`Laid`): every block has the number of
a place in the free list or in one queue, its link leads to the block with the next
number, and the characters of a queue are those between two places, from the first
block to the last one. Getc and putc move one block between the ends of two lists
(`FreeLinks`, `GiveLinks`), so a layout of the memory before gives one of the memory after
(`GetKeeps`, `PutKeeps`), with the same text but for one character; q_to_b and b_to_q
are folds of them. That the characters found by following the links, of which the
properties speak, are those of the layout is `ContentsAre`; that the links end is a count
of the blocks (`ListIsShort`).

**Tty.** `TtyInv`: one process is in the kernel, and who sleeps is at a place where the code
sleeps; the bits BUSY and TIMEOUT are set only while the device or a callout is about to
answer (`DeviceTold`); nothing that could be started is left on the output queue but
stopped or stalled (`Going`), except while ttwrite puts characters there; who sleeps for room
has ASLEEP set and such output (`Served`), and nobody does between the flush of a last
close and the forgetting of the state; and the lines are counted, in whatever mode they
were typed. Every procedure of
the line discipline takes the terminal from one that has these to one that has (`LineStep`),
so the lemmas about ttstart, ttyoutput, ttyinput and flushtty are chained as the code
chains the procedures, and an action is their composition. To prove it the model had to tell
what a sleeper may wait for: that is how the stalled output was found (see the
divergences at tty.c:388). `CanonTheorem` is an action property from the same invariant.

**Emulator.** `EmulatorInv`: the numbers of the processes and those in `pidFreeSet` are
each there once, counts are the references modulo the width of a byte, and a process
that waits has no zombie. `ChannelsTheorem` is an action property from the same
invariant.

**Fio.** `FileInv` is the types, where each call can be and with which entry
(`CallsOK`), and the property itself. The proof counts *marks*: a reference to an entry
is a mark in a table with a row for each process and a column for each slot, every
action moves, adds or removes marks in one row, and one lemma (`MovePreserves`) says what
this does to the counts. The hypothesis is that no signal breaks off dup or exec: the
code then leaves a descriptor to an entry it has given up.

**Procs.** The invariant is `SoundNow`: `TableSound` of `Procs.tla`, which the starting tables
satisfy by assumption (`StartsAssumption`), but for groups taken by number; `BootIsSound` proves that
the table main leaves does. Its parts: where a process is fits its state (`Placed`); every
process has a parent that is no zombie (`ParentsLive`), which is why an exit finds somebody
to tell; a number is that of one process and, until `byNumber`, of no group it is not in
(`NumbersNow`), which newproc keeps because it looks for a number until none has it, and
ttyopen as long as it finds somebody in the group it joins; a process that sleeps in
wait or pause has been told of every signal and every child (`Heard`); the one ipc record
is that of one tracer, and its child is about to answer or has answered (`OneAsks`); the
others that wait for the record wait for somebody (`OthersWait`). The last two are needed
for `NothingSleptThrough`: a child that procxmt lets go on must not be one that a second
tracer asks, and a child that stops wakes its parent by the number of the parent. Each
action is proved by what it does to the entries (one lemma of fields for psignal, stop,
psig, exit, fork, and so on) and then part by part.

**Mount.** Any calls go on at once. The invariant is `clashed \/ MountInv`: a step by which two
calls clash is the only one that may break `MountInv`, and until then two calls differ in
entry, device or directory (`CallsApart`), so that each step leaves to the others what they
found (`TableFor`). `MountInv`: the count of an inode is the number of calls and of entries of the
table that refer to it (`Counted`), and two calls never have one inode locked. From these
follows what mount relies on: when its directory has a count of 1 at its check, nobody else
comes to have it before mount is done, since the inode stays locked, though walks, opens and
closes go on (`MountingOK`). An entry that is free can still name an inode, of an umount
before; a walk takes the first entry that names the inode, so the invariant says that in
front of an entry in use no other names the same directory (`TableOK`), which mount keeps
because it takes the first free entry, all before it are in use, and none of these has its
directory. While umount sleeps its
device has nothing mounted on it and no walk leads to it (`UmountingOK`).

**Text.** `TextInv` adds to `TextOK` who holds the lock of a slot: exactly one actor that is
at a transfer (`LocksOK`), whose place fits what it has (`DoersOK`); while a slot is locked
no user of it is in core, so the last one that left is writing it or the first one is
reading it (`SlotIs`), and who reads it is the one it will be found by (`ReadersOK`). The
inode that somebody keeps locked in exec or xrele is that of no other (`ProgramsOK`): for
that reason a program never gets two slots though xalloc sleeps after its search, and a
slot with XLOAD has no user but the one that is reading the file (`TextsAreRead`). A process
that swaps itself out is a user that leaves core, like a victim of the swapper, and one of
the actors from its wait for the map on; the child of a fork is one only when its parent
lets it be found. Where the counts end is in the hypotheses of the property itself
(`strayed`): until an actor has locked a slot that was freed under it, or the swapper has
chosen a fork's child that has its parent's core, they are right.

**Clock.** `ClockInv` is the types and the property. What has to be shown is arithmetic
of sums: that the count in `PlaceFor` is the index up to which the sums are no more than
the time asked for, that an entry put there with the rest of its time, and the next made
less by it, leaves every other sum as it was, and that with one less for the first entry
that has time left every sum that is not 0 is one less. A fold of the community modules is a
recursive function on the subsets of a domain. That there is such a function with given
sums, and that it is the only one, is proved without an induction theorem, by the least
number at which it would be otherwise (`LeastNumber`, which rests on `WFMin`).

**Uba and Maps.** `MallocTakes` and `MfreeGives` say of malloc and mfree what is free
afterwards, in each of the cases in which mfree joins its neighbours, and that a tidy map
stays tidy: in order, nothing empty, nothing touching. `UbaInv`: of the registers, and of
the data paths, the map and the transfers have a share each.

**Memory.** `MemoryInv` has the same parts as the property, element by element, and says
that between the calls nothing is got that nobody holds. memall is a fold of `One`, and its
refill a fold over the frames in the order of the search. That the search comes past every
frame once, though it wraps, is arithmetic of remainders (`ScannedAt`, `ScanIsAll`); that a
frame is found whenever `freemem` is more than 0 follows, so `One` never panics
(`OneCounted`), and memall gives as many as it was asked for (`AllFramesTaken`). What a fold
does is shown with `FoldExists` (there is a function that takes the steps) and
`ChainReaches` (what each step keeps, the last value has) of `SeqLemmas`.

**Ht.** `HtInv`: the head is on the tape; a drive that does something does it for the first
request of the queue; and, while the driver has not lost the place, where the head is in
each state of the drive: where `blkno` says when it is idle, before the block when it
transfers or goes back for a retry, and `fc` records from it while it spaces.

**Disk.** `DiskInv`: a transfer, or one that is to be tried again, has a request, the
first of the drive at the front of the controller's list, and hpstart runs only between
transfers. disksort puts nothing before the first request (`SortedKeeps`; that there is a
request that is farthest in is shown by the least number again), and hpustart, also folded
over the drives that ask for attention, changes no queue and not the front of a list that
is not empty (`UnitStarted`).

Only model-checked, and why:

- liveness (`CallsReturn`, `InodeIsFreed`, `Returns` and the like) and ENABLED, on which
  fairness rests, are out of the prover's reach;
- what is defined by recursion over data needs an induction by hand, since the library's
  theorems take an operator as parameter, which the installed provers cannot
  instantiate: done for the sums of `Clock`, the folds of `Memory`, `Disk` and `Clist`
  and the links of `Clist`, not for the search along paths in `Rdwr`;
- `Alu` and `Frames` use bitwise and RECURSIVE operators;
- the other invariants have not been proved yet; see the plan.

## Plan

What is left, the most important first.

To prove: `Swap`, `Files`, and the channels of `Mx`.

To compose: Bio with FreeList (the superblock and the list blocks through the cache),
Files with Mount, Clist with Tty, Swap with Text and Maps.

To model further: of multiplexed files the terminals on channels, CHAN and EXTR, and
groups that are detached; of the emulator the string and field instructions, exec and
signals.
