# Verification of the xv6 kernel with the MLFQ scheduler

TLA+ models of the kernel in `src/srcs` (xv6 for x86 whose round-robin scheduler
was replaced by a four-level feedback queue), TLC configurations that check
them, and TLAPS proofs. The project follows the code at the C level; where a
comment or `src/README.md` says something else, the model has what the code
does, and section 5 says what the difference is.

## 1. The system

### 1.1 Components

| Component | State | Operations | Interacts with |
|---|---|---|---|
| Process table and MLFQ (`proc.c`, `proc.h`) | `ptable`: 64 `struct proc`, four doubly linked lists, `nextpid`; `cpu->proc` | `fork`, `exit`, `wait`, `kill`, `sleep`, `wakeup`, `yield`, `scheduler`, `set_proc_info`; `add_to_queue`, `remove_from_queue`, `demote_process`, `promote_process`, `check_aging` | everything that sleeps; called from `trap` on each processor |
| Traps (`trap.c`) | `ticks` | system-call entry and return, timer, devices, faults | drives the accounting of `proc.c`; `killed` tests |
| Process system calls (`sysproc.c`, `syscall.c`) | none | argument fetch, dispatch, `sys_sleep` | `proc.c`, `ticks` |
| Log (`log.c`) | `struct log`, log area of the disk | `begin_op`, `log_write`, `end_op`, `commit`, recovery | buffer cache, disk, every file-system call |
| Buffer cache (`bio.c`) | LRU list of `NBUF` buffers | `bget`, `bread`, `bwrite`, `brelse` | log, IDE driver, sleep locks |
| IDE driver (`ide.c`) | request queue | `iderw`, `idestart`, `ideintr` | buffers, interrupts |
| Locks (`spinlock.c`, `sleeplock.c`) | lock words, `ncli`, `intena` | `acquire`, `release`, `pushcli`, `popcli`, `acquiresleep`, `releasesleep` | all |
| Pipes (`pipe.c`) | ring of 512 bytes, two counters, two open flags | `pipewrite`, `piperead`, `pipeclose` | `sleep`/`wakeup`, file table |
| Console (`console.c`, `kbd.c`, `uart.c`) | input ring with r/w/e indices | `consoleintr`, `consoleread`, `consolewrite` | interrupts, `sleep`/`wakeup` |
| Files (`file.c`, `sysfile.c`, `sys_lseek.c`) | file table with reference counts, descriptors, offsets | `open`, `close`, `dup`, `pipe`, `read`, `write`, `lseek`, `link`, `unlink`, `mkdir`, `mknod`, `chdir` | pipes, inodes, log |
| Inodes (`fs.c`) | inode cache, bitmap, block maps, directories | `iget`, `iput`, `ilock`, `ialloc`, `balloc`, `bmap`, `itrunc`, `readi`, `writei`, `dirlink`, `namex` | log, buffers |
| Memory (`kalloc.c`, `vm.c`, `exec.c`) | free list, page tables, sizes | `kalloc`, `kfree`, `copyuvm`, `allocuvm`, `deallocuvm`, `freevm`, `exec`, `growproc` | `fork`, `wait`, pipes |
| Shell (`sh.c`) | a tree of commands, descriptors of its processes | `parsecmd`, `runcmd` | `fork`, `exec`, `wait`, `pipe`, the file table |
| Boot (`main.c`, `bootmain.c`, `mp.c`, `lapic.c`, `ioapic.c`, `picirq.c`) | device registers | start of the processors | leaves the initial state |
| User side (`init.c`, tools, `umalloc.c`, tests, `mkfs.c`) | their own | system calls | the kernel |

`PROJECT.json` lists all of them with what is modelled and what is not.

### 1.2 What is hard

* **Processors in parallel.** Each runs `scheduler`, takes its own timer
  interrupts, and runs system calls; `ptable.lock` is held across the context
  switch, so a critical section begins on one stack and ends on another.
  `fork` and the `killed` tests of `trap` work outside the lock.
* **Bookkeeping on many paths.** Six paths make a process RUNNABLE; each must
  link it, once, into the list of its `q_level`.
* **Counters that order the lists** change while processes are linked, and all
  processors charge all processes.
* **Slots are used again** and not everything in them is reset.
* **Sleep and wakeup**: lost wakeups between `exit` and `wait`, `kill` and
  `wait`, `end_op` and `begin_op`.
* **Power loss** between any two disk writes of a commit or of a recovery.
* **Limits**: the space `begin_op` reserves, the buffers it pins, slots of the
  file table and pages of memory that run out in the middle of a call, after
  which everything taken so far has to be given back.
* **Two kinds of reference** to an inode, names on the disk and pointers in
  memory, counted in different places under different locks; `iput` decides on
  both and acts after it has let one lock go.
* **Offsets and sizes** that are no multiple of the block or the page.
* **Copies of descriptors** in a tree of processes: one write end of a pipe that
  nobody closes, and a command line never ends.

### 1.3 What makes each component correct

* *Scheduler*: the lists hold exactly the RUNNABLE processes; a list has the
  processes that waited longest for I/O in front; the best level is served first; levels move by
  one; limits act in the tick they are reached; no process on two processors.
* *Process life*: no orphan, no exited child that its parent sleeps over, no
  killed process asleep in `wait`; a kill reaches the process it names.
* *Log*: a crash leaves a state between two groups of operations; a committed
  group is durable; reservations suffice, also for the log on the disk, and
  `log_write` never panics; sleepers are woken.
* *Pipe*: bytes come out once and in order, end of file only at the end; nobody
  sleeps over something it could use; closing an end frees the other.
* *Buffer cache and driver*: a block has one contents and one owner at a time,
  whatever is recycled or written back; every request is served, once; buffers
  run out only when all of them are in use.
* *Inodes and names*: reference counts are the pointers, link counts the names,
  on every error path; nobody locks an inode that was freed; one copy in memory.
* *File data*: a file is a sequence of bytes and an open file has an offset in
  it, whatever blocks, block maps and transactions do below; no block has two
  owners or none.
* *Descriptors and shell*: the line is parsed as the grammar says, each program
  has the files the line gives it and no others, the prompt comes when the line
  is done, and it comes.
* *Memory*: a page is free or has one use; a process has exactly the pages below
  its size, and keeps their contents through calls that fail.

## 2. Modules

| Module | Role |
|---|---|
| `Mlfq` | process table, queues, `trap`, `NCPU` processors; properties |
| `PrioritySched` | abstract: servers take jobs of the best level |
| `MCMlfq` | values, and the view, for TLC |
| `MlfqProofs` | invariants; `Mlfq` implements `PrioritySched`; proofs about `fork`, `exit`, `wait`, `kill`, the order of the queues, and aging |
| `Log` | write-ahead log over buffers and a disk that loses power |
| `AtomicStore` | abstract: a store that a crash never leaves half-written |
| `MCLog` | symmetry for TLC |
| `LogProofs` | invariant; `Log` implements `AtomicStore` |
| `Pipe` | the ring of a pipe, its readers, writers and the processes that kill them |
| `ByteChannel` | abstract: a bounded first-in first-out channel with two ends |
| `MCPipe` | symmetry for TLC |
| `PipeProofs` | invariant; `Pipe` implements `ByteChannel` |
| `BufCache` | buffer cache, the sleep locks of its buffers, IDE queue and disk |
| `BlockStore` | abstract: one contents and one owner per block |
| `MCBufCache` | symmetry for TLC |
| `BufCacheProofs` | invariant; `BufCache` implements `BlockStore` |
| `Inodes` | inode cache, directories, path names and the system calls that take names |
| `MCInodes` | paths and symmetry for TLC |
| `InodesProofs` | invariants of pointers and the cache, and of names and link counts |
| `FileData` | bitmap, block maps, reading, writing, seeking, truncating |
| `ByteFile` | abstract: files are sequences of bytes, open files have offsets |
| `MCFileData` | open files, offsets and symmetry for TLC |
| `FileDataProofs` | invariant; `FileData` implements `ByteFile` |
| `ShellParser` | the shell's parser over tokens, and the grammar it is compared with |
| `Shell` | `runcmd`, the processes of a line, descriptors and the file table |
| `ShellLine` | `Shell` with its parser and the recursive meaning of a tree |
| `MCShell` | lines and their trees for TLC |
| `ShellProofs` | invariants of descriptors and file references, of forks and waits, and of what programs get |
| `Memory` | free pages, address spaces, `sbrk`, `fork`, `exec`, `exit`, `wait` |
| `MCMemory` | sizes and programs for TLC |
| `MemoryProofs` | invariant of pages and address spaces |

A definition named like `x_late` under a comment "Slip:" is a plausible
mistake; no specification uses it. `PROJECT.json` pairs each with the property
that finds it.

### 2.1 Mlfq

**State.** Each field of `struct proc` that matters is a function of the slot
(`state`, `q_level`, `cpu_burst`, ...). A doubly linked list is the sequence of
its slots (`queue[lv]`). `cproc[c]` is `cpus[c].proc`. Four variables are
control: `pc[p]`, where the process is; `cpc[c]`, the point of `trap` or `exit`
that processor `c` has reached; `wchan[c]`, the argument of the `wakeup1` it is
in; `ptlock`, the processor that holds `ptable.lock` between steps. `np` and
`shell` are the local variables of `fork` and of `init.c`.

**Atomicity.** A critical section of `ptable.lock` without a loop is one action.
The loops of `wakeup1`, `check_aging` and `exit` take a step per process and
keep the lock. Work outside the lock is a step of its own: `ticks++`, the kernel
stack and the copy of the address space in `fork` and its error returns, which
write `state` without the lock, the `killed` tests.

| Code | Actions |
|---|---|
| `scheduler`, `sched` | `Scheduler`; the way back is part of `Sleep`, `TimerYield`, `ExitFinish`, `Wait` |
| `sleep`, `wakeup1`, `wakeup` | `Sleep`; `WakeOne`, `WakeDone` for all callers |
| timer in `trap` | `TimerIntr`, `TickWakeup`, `TimerAcct` or `TimerIdle`, `AgeOne`*, `AgeDone`, then `TimerExit` or `TimerYield`, and `TrapTail` when the process runs again |
| devices and faults | `DeviceIntr`, `Fault` |
| `fork`, `allocproc` | `ForkAlloc`, `ForkKstack`, `ForkCopy`, `ForkFinish`; `ForkUndo` for both error returns |
| `exit` | `SysExit`, `ExitBegin`, `Reparent`, `ExitFinish` |
| `wait` | `Wait` (reap, give up, or sleep) |
| `kill`, `set_proc_info` | `Kill`, `SetProcInfo` |
| calls that sleep | `SysIo`, `Sleep`, `IoReturn` |

**Restrictions**, each an assumption on the constants or on `init`: the level
given to `set_proc_info` is in 0..3 (the code stores any number), nobody kills
pid 1 and `init`'s own `fork` succeeds (otherwise the kernel panics by design:
"init exiting"). What a process sleeps on inside a call is a free choice among
the channels of `IoChan`. A device interrupt that finds nobody asleep changes
nothing and is left out.

**Abstraction.** `PrioritySched` lets a level change by one, down only while the
job runs and up only while it waits, and lets a running job ask for one of the
levels of `Settable`; `Mlfq` gives it the levels among the arguments of
`set_proc_info`, so where these have none the refinement leaves `Demote` as the
only change of a running job.

### 2.2 Log

**State.** The disk is `home`, `logdata` and `head`; a header is the sequence of
its block numbers. Buffers are `cache` with the sets `cached` and `dirty`.
`lh`, `outstanding`, `committing` are `struct log`; `phase` and `tail` say where
`commit` or `recover_from_log` is.

**Actions.** `begin_op`/`begin_sleep`, `log_write` (the change of the buffer
included), `end_op_other`/`end_op_last`/`commit_done`, one step per disk write
(`write_log`, `write_head`, `install_trans`, `clear_head`), `Evict` (a buffer
recycled by `bget`), `PowerLoss`, `read_head` (recovery then uses
`install_trans` and `clear_head`, as the code does). The tests at the top of
`log_write` are made without `log.lock`; taking them together with the append is
harmless where `ReservationSuffices` holds, which bounds what the other
operations can append in between. Where they fail, `log_write` panics: the
operation is at "panic" for ever. `log_size` is `log.size`, the blocks of the log
on the disk with its header; `mkfs` makes it LOGSIZE, so the disk has room for
LOGSIZE - 1 blocks while `begin_op` counts on LOGSIZE. `OpBlocks` is what one
call writes at most; that it leaves two of its MAXOPBLOCKS places (`LogAssumption`)
is what `OpFits` of `FileData` says of the kernel's largest calls. The disk writes a block entirely or not at all, and `iderw`
waits for each write.

### 2.3 Pipe

**State.** `struct pipe` as it is, with `nread` and `nwrite` modulo `Wrap`
(2^32 in the code); `holder` is `p->lock`; `fds` are the processes that have not
closed their end; `pc`, `n`, `i` the calls in progress. `last` and `eof` record
what readers are given.

**Actions.** A byte at a time under `p->lock`. `WriteWaits`/`ReadWaits` make the
`killed` test, `GoToSleep` is the rest of `sleep`; `Kill`, which `p->lock` does
not hold off, can come between. `Close` is `fileclose` with the `pipeclose` of
the last holder: the reference it drops before it takes `p->lock` is read by
nobody else. A killed process makes no more calls, it only closes. `hushed`
records that a write failed after it had stored bytes, and that nobody has
woken the readers since: it is the one case in which `ReaderSleepsOnEmpty` lets a
reader sleep over bytes.

### 2.4 BufCache

**State.** The fields of `struct buf`, the LRU list and `idequeue` as sequences
of buffers, `command` (what the disk was told) and `disk`.

`lost` records the blocks of which a read has failed, `panicked` that `bget` has
found no buffer. A member of `User` is one use of the cache, from `bread` to
`brelse`; a process that has two buffers at a time, as `write_log`,
`install_trans` and `bmap` do, is two users.

**Actions.** `BgetHit`, `BgetMiss`, `BgetPanic`, `AcquireSleep`, `iderw`,
`ideintr`, `IoWait`, `ReleaseSleep` and `brelse`, one per critical section;
`LogWrite` and `bwrite` are what an owner may do; `KillWakes` wakes a sleeper
early, whose loop must test again. After `BgetPanic`, `bcache.lock` is never
released, so no step that takes it is possible any more; the others go on. The
disk is external: it executes `command` and interrupts; a read may fail. The
environment pins at most `MaxDirty` buffers, which stands for the log's
reservation.

### 2.5 Inodes

**State.** `dtype`, `dnlink`, `dent`, `dotdot` are the inodes and directories on
the disk; `icache` and `lock` the cache and its sleep locks. A process has its
call (`req`), the rest of the path, the inode of `namex` (`w`), the other inode
of the call (`ip`), and the ones it has still to `iput` (`puts`, with `iph` for
the point in `iput`).

**Atomicity.** What lies between two waits for a sleep lock is one step. `iput`
is four: the tests, freeing, clearing `valid`, and dropping the reference. When
a call holds one inode and waits for another it holds the lock across steps,
which is where deadlocks come from. A call runs in one transaction of `Log`, so
crashes are not repeated here. Contents of files are in `FileData`; `"."` is
implicit and `".."` a function, since they are written once and read by name.

**Restrictions.** `ialloc` and `iget` find room (the panics for it stop the
machine by design). `".."` is a path element like any other. `astray` records
that a process was about to look `".."` up in a directory without a name
(`~DotDotNamed`); see `NoTypePanic` and section 5.

### 2.6 FileData

**State.** `used` is the bitmap, `cell` the contents of blocks, where a cell is a
byte or a block number and nothing tells them apart, as on the disk: a block
that `balloc` does not clear, or frees too early, is read as block numbers.
`inode` and `dinode` are the inodes in memory and on the disk.

**Actions.** `Call`, `Read`, `WriteBegin`, `WriteBlock` (one turn of `writei`
with its `bmap`), `WriteEnd`, `WriteFails`, `Lseek`; `Remove`, `TruncBlock`,
`TruncEnd` for the last `iput` of a file. Processes on different inodes
interleave at every block, since only the bitmap's buffer is shared. `op`
collects the blocks of the transaction. Open files of one inode may share it or
its offset. The mapping to `ByteFile` counts a chunk as written from the moment
it can no longer fail.

### 2.7 ShellParser, Shell and ShellLine

A line is a sequence of tokens: a word, and the symbols `| & ; ( ) < > +` (with
`+` for `>>`). `parsecmd` follows the functions of `sh.c` one by one, each
returning the tree and the rest of the line; `Grammar` says what tree a line
has, by splitting it at the loosest symbol, and knows nothing of reading from
the left.

`Shell` runs the tree. `runcmd(cmd)` is the list of system calls that `runcmd`
makes for a command, `todo[q]` what process `q` has still to do. Each call is a
step; `pipe` is two, so that the file table can run out between them. The file
table (`ref`, `what`) and the descriptors (`ofile`) are those of `file.c` and
`sysfile.c`. `fork`, `exec`, `open` and `pipe` fail when a table is full, and
`open` and `exec` also at will. A program reads its standard input to the end
and exits, as `cat` does. `fork`, `exit` and `wait` are those of `Mlfq` with
their inner steps left out: what happens inside them is checked there.

`Shell` takes what `parsecmd` makes of a line as a constant operator (`tree`),
with the trees in it (`Command`); `TreeAssumption` says that a tree has the
fields of its type (`IsCommand`, the structs of `sh.c`). So it does not reach the
recursive parser, and what is proved of it holds for any trees. In the same way
`Wire` says which programs a tree has, with their input and output: `Shell` has
the equations of this meaning (`Programs`, one case per type of command) and
`WireAssumption` that `Wire` satisfies them. `ShellLine` puts the parser in the
place of `tree` and the recursive `Wired` in that of `Wire`, and compares the
parser with the grammar.

### 2.8 Memory

**State.** `free`; for each process the address space `as` (directory, page
tables of the kernel's and of the user's part, user pages), `sz`, `kstack`; for
a call in progress the space it builds (`wk`), the page it has just got (`mem`)
and where its loop is.

**Actions.** Every `kalloc` is a step, in which it may find no page; the step
that fails (`Fail`) gives back what the call has taken. `LoopPage`, `LoopTable`,
`LoopMap`, `LoopDone` are the loops of `allocuvm` and `copyuvm`, for `sbrk`,
`fork` and `exec`. Sizes are modulo 2^`Width`, as the sum in `growproc` is.
`init` neither exits nor calls `sbrk` (`init.c`), and a process whose first page
is gone only faults.
`Holder` and `Held` name everything that can own pages; `PagesPartitioned` says
that the free list and the holders divide the pages among them.

## 3. Runs

| Run | Instance | States | Shows |
|---|---|---|---|
| `mlfq` | 2 processors with timers, 3 slots, pids to 3, kill of the shell, 1 tick, counters to 1, aging after 1 tick, `set_proc_info(0, 0, 0, 0, -1)` | 2.3M | `TypeOK`, `QueuesExact`, `QueueSorted`, `RunningOnOneCpu`, `NoLostChild`, `ParentAlive`, `KillReachesWait`, `AgingPrompt`, the refinement `ServesBestLevel` |
| `log_crash` | 2 operations of up to 2 blocks with MAXOPBLOCKS 4, 2 blocks, 2 values, LOGSIZE 8 and a log of 8 blocks with its header, 2 crashes, fairness | 112k | `CommittedIsDurable`, `ReservationSuffices`, the refinement `CrashAtomic`, `SleepersWoken` |
| `pipe_fifo` | 2 writers and 2 readers, all of whom may be killed, ring of 2, counters modulo 4, one call each of up to 3 bytes | 1.3M | `TypeOK`, `WriterSleepsOnFull`, `ReaderSleepsOnEmpty`, the refinement `IsChannel` |
| `buf_store` | 2 users with 2 breads each, 3 buffers, 4 blocks, 2 contents, up to 2 pinned, 1 failed read | 518k | `References`, `RequestsExact`, `SleepersHaveReason`, `PanicMeansFull`, the refinement `IsBlockStore` |
| `names` | 2 processes, 3 calls of 8 kinds on 6 paths, `a/..` among them, 4 inodes, a file of the image | 2.2M | `RefsExact`, `CacheExact`, `NoTypePanic`, `LinksExact` |
| `filedata` | 2 processes, 3 calls, 3 open files of 2 inodes, blocks of 2 bytes, 2 direct blocks, 7 blocks, MAXOPBLOCKS 8 | 105k | `BlocksExact`, `InodeExact`, `OpFits`, the refinement `IsByteFile` |
| `shell` | all lines of up to 3 tokens and six longer ones, 6 processes, 5 files, 5 descriptors, fairness; the parse of these and of all lines of up to 5 tokens | 135k | `ParsesAsGrammar`, `FileRefs`, `Wiring`, `PromptMeansDone`, `LineEnds` |
| `memory` | 3 processes, 4 calls, 16 pages of 2 bytes, 6 user pages in 2 tables | 361k | `PagesPartitioned`, `SizeMapped`, `DataStays` |
| `mlfq_fifo` | 1 processor, 2 processes, 1 tick | | *violated*: equals in the order of their entry (README.md:135); the one that enters later goes in front |
| `mlfq_quantum` | 2 processors | | *violated*: a process that has used its quantum moves down (README.md:122); charged by the other processor's timer it sleeps and is queued again at its level |
| `mlfq_shell_level` | 1 processor | | *violated*: INIT and SHELL always in queue 3 (README.md:146); `type` survives in a reused slot |
| `fs_deadlock` | 2 processes create and unlink one name | | *violated*: `NoLockCycle`, which the test `linkunlink` looks for (usertests.c:855); `create` and `unlink` wait for each other |

Where a module's `TypeOK` is not listed it is the first conjunct of a property:
of `ReservationSuffices`, `References`, `RefsExact`, `BlocksExact`, `FileRefs`
and `SizeMapped`.

**Bounds.** Three slots hold init, the shell and a process the shell forks; the
shell exits, or is killed, while it has a child or is inside `fork`, is reaped,
and init forks pid 3 into its slot. Quanta 1, 2, 2, 2 and aging after 1 tick have
the order of 10, 20, 40, 80 and 250: the timers of
both processors may be under way at once, so that a process the first demotes
is charged by the second, queued meanwhile, and promoted again. `MaxPid`, `MaxTicks` and `MaxCount`
only stop the environment. These bounds are small because two processors and the
clock are checked together, which is where the properties are hard; each property of
`mlfq` is also a theorem for all values of the constants. The branch of the
timer for a reached `end_time` is not in this run (`end_time` stays -1); the
theorems cover it. In
`log_crash` an operation that begins while the other has logged a block has to
wait for space (1 + 2 x 4 > 8), and one that begins during a commit waits for
that; a second crash can hit recovery. `log_size` is LOGSIZE, as `mkfs` has it.
The reservation is tight on the disk when one call fills the log alone; with two
calls each leaves two places, so the exact limit is a matter for
`ReservationHolds`. The pipe's counters wrap after four bytes and the writers move
up to six; a write of three bytes does not fit the ring, so writers sleep in the
middle of a call. Four breads of four blocks make three buffers be recycled,
pinned ones among the candidates; with two pinned and one in use the second
user finds none, as with the NBUF = LOGSIZE of the kernel.
The blocks start with equal contents, and writes make them differ.
In `names` three calls are enough for a name to be made, removed and used by
another process meanwhile, for a directory to be removed while somebody is in
it, and for an inode to be freed and given out again; no run of three calls
exhausts the inodes or the cache. A directory is removed while another process
walks `a/..`, which sets `astray`; the panic itself takes six calls (section 5).
In `filedata` writes of 1, 3 and 7 bytes start
anywhere in blocks of 2, so that they cross blocks, reach the indirect block,
are split into chunks of `max` and exceed the largest file; 7 blocks do
not hold two full files, so removed blocks are used again. The longest
pipe of `shell` needs more processes and files than there are, so that both
tables run out, at different places for different interleavings. In `memory` a process of the
smallest program takes seven pages with its tables and kernel stack, so that 16 pages run out in
the middle of a second `fork` or `exec`, at every `kalloc` of it.
Processes that have made their last call may stop: the runs of `names`,
`filedata` and `memory` do not check for deadlock for that reason (`fs_deadlock`
asks the question for inode locks).

**View and symmetry.** `MCView` leaves out fields that are overwritten before
they are read again (the scheduling fields of a slot without a live process,
which `allocproc` sets; `queue_entry_time` of a process in no list, which
`add_to_queue` sets; `chan` of a process that does not sleep; `pc` of one that
has not started, which `ForkFinish` sets; `killed` of a ZOMBIE, which `wait`
clears), so two states with the same view have the same future.
In `pipe_fifo`, `buf_store`, `names` and `filedata` processes, blocks, bytes,
contents and open files of one inode are interchangeable wherever `Init` allows
each of them. `log_crash` and `shell` check liveness and use no symmetry.

**Fairness.** `log_crash` and `shell` assume it. In `log_crash`: weak fairness of the steps of the
commit, of recovery, and of `end_op` of an operation that is open. The process
that executes them is runnable, or waits for a disk write that completes; it
holds no lock that another step needs. `begin_op` itself has no fairness, and
nothing bounds the number of crashes but `MaxCrash`. In `shell`: weak fairness of
each process and of `init`'s `wait`. The work of a line is finite and nobody
else competes for the processor, so the scheduler comes to every process that
is RUNNABLE, and what a waiting process waits for is another step of the model.
For `Pipe` and `BufCache`
the absence of lost wakeups is stated as safety: no process sleeps without the
reason for which it went to sleep.

## 4. Proofs

The theorems hold for every value of the constants that satisfies the named
assumptions of the modules: any number of processes, processors, buffers,
blocks, pages, any sizes and any bounds on the environment. What the
assumptions ask for is what the code has: sizes that are positive, counters
whose range the ring divides (`PipeAssumption`), LOGSIZE at least MAXOPBLOCKS,
a log on the disk of LOGSIZE blocks and calls that leave two of their places
(`LogAssumption`), finitely many processes and names (`LogAssumption`,
`BufAssumption`, `InodesAssumption`), MAXOPBLOCKS at least 8 of the
kernel's 10, so that the smallest chunk of `filewrite` leaves two places
(`FileDataAssumption`), at least three descriptors and
trees with the fields of their type (`ShellAssumption`, `TreeAssumption`), a
meaning of trees that satisfies its equations (`WireAssumption`), at least two
user pages, of a space whose size fits the addresses (`MemoryAssumption`), and constants for "nothing" that are different from things.

Each module states its inductive invariant at its beginning, as a conjunction of
named parts; `Init` implies it, `Next` keeps it (one lemma per action, with one
step per part that the action can disturb), and the listed theorems follow from
it. Lemmas about sequences, lists, cardinalities, remainders and address spaces
come before the actions that use them.

**Process table** (`MlfqProofs`).

* `Invariance`: `Spec => []IInv`, where `IInv` is `TypeOK`, `QueuesExact`,
  `RunningOnOneCpu` and three facts that make them inductive:
  - `CpuInv`: a processor inside the accounting or inside `exit` still has its
    process, so the steps that use `cproc[c]` speak of a real slot that is
    RUNNING, hence in no list;
  - `ForkInv`: the child a `fork` works on is an EMBRYO of that fork only.
    Without it the unlocked write of `state` in `ForkUndo` or the enqueueing in
    `ForkFinish` could hit a process that is linked;
  - `StackInv`: a live process has a kernel stack, which `scheduler` tests and
    `RunningOnOneCpu` needs.
* `TypeCorrect`, `QueuesAreExact`, `OneCpuPerProcess` follow from it.
* `MlfqServesBestLevel`: `Spec => ServesBestLevel`. The initial state maps to
  one of `PrioritySched`, and under `IInv` each action maps to an abstract
  action or a stutter. For `Scheduler` this needs `QueuesExact`: the head of the
  first list that is not empty has the least `q_level` of all RUNNABLE
  processes, because every RUNNABLE process is in the list of its level.

**Families** (`MlfqProofs`). `LInv`, next to `IInv`, gives `NoChildIsLost`,
`ParentsAreAlive` and `KillIsSeen`. `NoLostChild` speaks of states in which
`ptable.lock` is free, and `exit` takes several steps with the lock held, so the
invariant follows `exit`: `LockInv` (who is at a locked point has the lock),
`ExitInv` (the parent is woken first and cannot sleep in `wait` again before the
lock is free; after `Reparent` there is no child left), and `ZombieInv` (the one
process that may still sleep over a ZOMBIE is `init`, while `exit` is about to
wake it). `ParentAlive` needs `ChildInv`, that the parent of a
child that starts is the process inside `fork`, and that `init` never exits
(`InitInv`).

**Order and aging** (`MlfqProofs`).

* `QueuesStaySorted`: `QueueSorted` is not inductive, since the loop of
  `add_to_queue` stops at the first process it precedes by either key.
  `ListOrder` is the whole order the code keeps, falling `io_wait_time` and
  falling `queue_entry_time` among equals (which is the opposite of what
  README.md:135 says, see `mlfq_fifo`), and `EntryInv` that no entry time is in
  the future. An insertion is sorted because an entry time of now is not
  below those of the others; a charge of `io_wait_time` is harmless because it
  is made for processes that are in no list.
* `AgingIsPrompt`: `AgeInv` says that a process is overdue only while it is
  queued and a processor is in `check_aging`; the scan leaves none behind, for
  any number of processors. It assumes `WaitArgsInBounds`: `set_proc_info`
  writes the `cpu_wait` it is given, so a call with a wait at the limit makes an
  overdue process by itself.

**Pipe** (`PipeProofs`).

* `TypeCorrect`, `WritersAreWoken`, `ReadersAreWoken` from `Invariant`. A sleeper
  is woken by a step that comes after the one that moved a byte, so `WriterInv`
  and `ReaderInv` say "full, or a reader is in its copy loop", "empty, or a
  writer is in its loop"; `LockInv` makes the exceptions vanish when `p->lock`
  is free. `EofInv` is what a read of 0 relies on.
* `ReadersAreWoken` holds whoever is killed and when. `ReaderInv` has a third
  case, `hushed`: a writer that is killed fails at the full pipe without the
  `wakeup` (section 5). The theorem says that this is the only way to sleep over
  bytes, and that the next write, wait or last close ends it.
* `PipeIsChannel`: the ring with its wrapping counters implements `ByteChannel`.
  The lemmas about remainders show that, while `nwrite - nread` modulo `Wrap` is
  at most `PIPESIZE`, no two bytes of the pipe share a place in the ring, also
  where a counter wraps; this is where `Wrap` has to be a multiple of `PIPESIZE`.

**Log** (`LogProofs`).

* `ReservationHolds`: `RoomInv` counts, for each operation in progress, the
  places it has not used (`Reserved`). It needs `WroteInv` (what an operation has
  written is logged: a block absorbed uses a place of the operation, and not of
  the log) and `CtlInv` (`outstanding` is the number of operations, which
  `begin_op` multiplies by MAXOPBLOCKS). A call that may still write has two
  reserved places it does not use, so `Len(lh)` is below LOGSIZE - 1, the limit on
  the disk, whenever `log_write` makes its test: it never panics. With only one
  place to spare it would, since the test comes before absorption.
* `LogIsAtomic`: `Spec => CrashAtomic`. `HeadInv` says in which phases the header
  names a transaction, and which; `BufInv` that only blocks in `log.lh` that are
  not installed differ from the disk; `CopyInv` how far `write_log` and
  `install_trans` have come. The write of the header is the abstract commit; a
  crash before it falls back to the disk as it was, one after it, or during
  recovery, finds the same transaction, since installing a block again changes
  nothing.
* `CommitIsDurable`: from `HeadInv` and `BufInv`.

**Buffer cache** (`BufCacheProofs`).

* `ReferencesExact`, `QueueIsExact`, `NoLostSleeper` from `Invariant`. `UseInv`
  ties the buffer of a process, its place in the code and the sleep lock
  together; `FlagInv` says what B_VALID and B_DIRTY mean by where the owner is,
  so that a process in `iderw` either has its request in the queue or finds it
  finished, and no buffer of the queue is free for `bget`.
* `PanicOnlyWhenFull`: when `bget` panics every buffer is pinned (`PinInv`) or has
  a user (`References`), and no step possible after the panic gives one back.
  `PanicNeedsUsers` counts: at most `MaxDirty` are pinned, so at least
  NBUF - `MaxDirty` users have a buffer. That says how much concurrency the panic
  takes; it does not exclude it, since NBUF and LOGSIZE are both 30 (section 5).
* `CacheIsBlockStore`: `Spec => IsBlockStore`. `DataInv` (a clean valid buffer
  holds what the disk holds) makes recycling a stutter, and `BlockInv` makes the
  contents of a block well defined.

**Memory** (`MemoryProofs`).

* `PagesStayPartitioned`: `Held` maps each holder (kernel stack, page in hand,
  address space and space under construction of each process) to its pages.
  Each action is one of four moves on this map (`Take` from the free list, `Move`
  from one holder to another, `Give` back, `Replace` a space by another), which
  are proved to keep a partition once and for all; `ForkInv` and `CallOf` say
  that the holder on the receiving side was empty.
* `SizesAreMapped`: `LoopOf` is the invariant of the loops of `allocuvm` and
  `copyuvm`: the pages below `at[p]`, a multiple of the page, are mapped and no
  others. It needs arithmetic of rounding to pages (`Multiples`, `PageDiv`,
  `RoundUp`), as sizes are any numbers of bytes.
* `DataIsKept`: `Spec => DataStays`, an action property, from the same invariant.

**File data** (`FileDataProofs`).

* `Invariance`: `Spec => []IInv`. `CallInv` says what a process between two
  steps of `writei` or `itrunc` can rely on because it has the lock; `MapInv`
  that the bitmap has exactly the blocks kept at the places `itrunc` has not yet
  been at, no block at two places; `SizeInv` that the mapped blocks are those
  below the size, or below what the writer has reached; `OpInv` bounds the
  blocks of a transaction by the ones a chunk can touch; `WrittenInv` says that
  the bytes of the write in progress are where they belong.
* `Blocks`, `InodesOnDisk`, `Transactions` follow from it. `Transactions` is where
  the arithmetic of `filewrite`'s `max` is used: a chunk that starts inside a
  block touches one block more than its length says.
* `FilesAreBytes`: `Spec => IsByteFile`. A chunk counts as written in the step
  after which it cannot fail any more. That the other files keep their bytes
  comes from `MapInv`: a block that is written or cleared is kept at one place.

**Inodes** (`InodesProofs`), in two layers.

* `Invariance`: `Spec => []PInv`, for all paths, `".."` included. `CallInv` says
  which inodes a process has at each point of a call, `LockInv` which of them it
  has locked, `RefInv` counts the pointers, `CacheInv` compares the cache with
  the disk. One case is excepted there (`Inval`): `iput` frees an inode and
  clears `valid` in the next step, and in between `ialloc` may give the inode to
  somebody else. The entry is locked and nobody reads it, so `References` and
  `Cache` hold as stated.
* `NamesInvariance`, `NoPanic`, `LinkCounts`: `NInv` adds `LinkInv` (links are the
  names, the subdirectories, and what `link` and `unlink` have counted ahead of
  or after the entry), `TreeInv` (a directory has one name, in the directory of
  its `".."`) and `UseInv` (what is wanted is allocated; the inode that `create`
  has just made, or `iput` is about to free, is nobody else's). `NInv` holds until
  a process follows the `".."` of a directory that has lost its name:
  `Spec => [](astray \/ NInv)`. The exception is needed: that `".."` may be an inode
  that was freed since (section 5). `NoPanic` is `Spec => []NoTypePanic`, so it is
  the only way to the panic; `LinkCounts` is `Spec => [](astray \/ LinksExact)`,
  while the run `names` checks `LinksExact` without the exception.
* `WithoutDotDot`: if no path has `".."`, `astray` stays FALSE, and `NoTypePanic`
  and `LinksExact` hold in every reachable state.

**Shell** (`ShellProofs`), for any lines and trees.

* `References`: `FInv` is `TypeOK`, `CallInv` (the calls to come are those that
  `runcmd` makes), `IdleInv` (a process that does not run has no descriptor) and
  the count itself. `fork` and `exit` change it by all descriptors of a process
  at once; lemmas on counting do this row by row.
* `PromptComesLast`: from `ForksAreAwaited`. `WaitInv` says of each process in the
  foreground that its forks to come and its children there are as many as its
  waits to come; `BackInv` and `ParentInv` that what a background command starts
  is in the background; `TreeInv` that nobody is their own ancestor. When the
  shell has nothing left to do it has no child in the foreground, and a process
  in the foreground whose parents run up to the shell cannot exist. `TreeInv` is
  stated with sets of processes (every nonempty set has a member whose parent is
  outside), so that no induction over ancestors is needed.
* `ProgramsAreWired` (`Wiring`): from `DescriptorsFollowTheLine`. `WireInv` lists
  the shapes in which a process of a line can be: the calls it has still to make
  (a suffix of what `runcmd` makes for a command), what it sees at each descriptor
  (`Sees`: closed, or what the file there is) and its `p`, for a command whose
  programs are among those of the line (`Means`). Each call leads from one shape
  to another, so `dup` and `open` get the descriptor that was closed just before,
  and `pipe` gets 3 and 4; a call that fails leads to `exit`. `ProgInv` is what
  `exec` leaves. The views of the other processes stay because a file that
  somebody has open keeps a reference (`FInv`), so `close` and `exit` clear no
  file in use (`OpenInv`), `open` takes none, and the first file of a half made
  pipe is nobody else's (`HalfInv`).

**Only model-checked.** `ParsesAsGrammar` compares two recursive definitions, and
the prover accepts no `RECURSIVE` operator. Liveness under fairness
(`SleepersWoken`, `LineEnds`), `ENABLED` and induction over data are out of the
prover's reach and stay with TLC. `EqualsAreFifo`,
`QuantumDemotes`, `ShellStaysAtBottom` and `NoLockCycle` are violated.

## 5. Not modelled, and what the models show beside the properties

**Components.** Spin locks (used through the atomicity of critical sections),
the console (a ring under one lock; key maps and device access), boot,
interrupt controllers, the user library and `umalloc`, the tools and the tests.
`PROJECT.json` gives the reason for each.

**Inside the modelled files.** The link pointers of the lists (a list is a
sequence), `procdump`, `print_queues`, `forkret`'s one-time initialisation,
saved registers, contents and permission bits of pages, the text of path names
(`skipelem`) and of command lines (`gettoken`'s characters, `nulterminate`),
`fstat`, device files below `readi`/`writei`, argument fetching, ELF images
(`exec` may find any of them bad); wrap-around of `ticks` and of the counters of
`Mlfq`. The shell's `cd` changes no state of `Shell`.

**Observations.** Behaviour of the code that was met while modelling, that a
reader of the properties should know of, and that is in the models:

*Scheduler and processes.* Equal processes are taken last in, first out, since
the insertion goes before an equal entry; README.md:135 says FIFO (`mlfq_fifo`).
With two processors, the number the Makefile builds for, a process may use more
than its quantum without a demotion, since each timer charges all processes and
checks its own (`mlfq_quantum`). `kill(0)` marks a free
slot, and `allocproc` does not clear `killed`, so the next process in it is
killed at birth.

*Sleeping and killing.* A kill that comes between the `killed` test of
`pipewrite` or `piperead` and `sleep` finds the process RUNNING and wakes
nobody: in `Pipe`, `Kill` between `ReadWaits` and `GoToSleep` leaves a killed
process asleep until somebody writes or closes (pipe.c:87, 107; `sys_sleep` and
`consoleread` have the same shape). A `pipewrite` that gives up because it was
killed does not wake the readers of the bytes it has put into the pipe (pipe.c:86-88):
they sleep over a full pipe until somebody writes or closes (`hushed`).

*Disk.* `begin_op` admits LOGSIZE blocks in memory, but the log on the disk,
whose first block is the header, has room for one less with the sizes of `mkfs`
(mkfs.c:25), and `log_write` panics there (log.c:218). The panic is not reached
only because no call of the kernel uses more than 7 of its 10 places (`OpFits`,
`ReservationHolds`).
`bget` panics when all NBUF buffers are in use or pinned. A full log pins up to
LOGSIZE = NBUF blocks, so a few users are enough; `buf_store` reaches the panic,
and `PanicNeedsUsers` says how many users it takes.
After a read error `ideintr` sets `B_VALID` although nothing was read
(ide.c:118-122): `BlockStore` has `AcquireLost` for it, and promises nothing of
the contents of such a block afterwards.

*Files and names.* Two processes that `iput` the last two references of a file
without names at once can both read `ref` 2 (fs.c:337), and neither frees it:
the inode stays allocated without a name. A file created in a directory that was
removed meanwhile stays allocated the same way, and one linked into it keeps a
link too many (`stray` in `LinksExact`), since `create` and `dirlink` do not look
at the directory's link count. `link(f, "d/.")` waits for the lock it holds.
After the parent of a removed current directory is gone too, a path that begins
with `".."` ends in the panic "ilock: no type", as `".."` holds no reference and
counts no link once the directory is removed: `mkdir a`, `mkdir a/b`, `chdir a/b`
in one process, `unlink a/b`, `unlink a` in another, and then any `".."` in the
first. `NoPanic` shows that there is no other way to it; a run that reaches it
would need six calls on inodes, twice the bound of `names`. In `cmd < a < b` the first redirection wins, as the last one parsed
is the outermost.

*Memory.* `sbrk(-sz)` frees all pages, reports failure and leaves `sz` as it was
(growproc takes the new size 0 for an error); a more negative argument wraps
above the size, changes nothing and reports success.

## 6. Plan

Done, in this order: `Mlfq` with its runs, its invariant and its refinement;
`Log`; `Pipe`; `BufCache`; `Inodes`; `FileData`; `ShellParser` and `Shell`;
`Memory`; the proofs about `Pipe`, `Log`, `BufCache`, families and queues of
`Mlfq`, `Memory`, `FileData`, `Inodes` and `Shell`. What would come next:

1. Starvation under the scheduler, with waits measured; `sys_sleep` with wrapping
   `ticks`.
2. The doubly linked lists of the queues with their pointers, implementing
   insertion and removal on sequences; `umalloc` as an algorithm.
3. Inode locks with their order, so that the cycle of `fs_deadlock` can be
   compared with an order that has none.
