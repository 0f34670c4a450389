--------------------------------- MODULE Log ---------------------------------
(***************************************************************************)
(* The write-ahead log of the file system (srcs/log.c) over a buffer cache *)
(* (srcs/bio.c) and a disk that may lose power between any two writes.     *)
(*                                                                         *)
(* A critical section of log.lock is one step; every bwrite of commit and  *)
(* of recovery is a step of its own.  iderw returns only when the disk has *)
(* the block, so writes reach the disk in program order, and the disk      *)
(* writes one block, the header included, entirely or not at all.          *)
(***************************************************************************)
EXTENDS Integers, FiniteSets, SequencesExt

CONSTANTS Op,           \* processes that make file-system calls
          Block,        \* home blocks
          Val,          \* contents of a block
          MAXOPBLOCKS,  \* places that begin_op reserves for one call
          OpBlocks,     \* blocks that one call really writes at most
          LOGSIZE,      \* length of logheader.block
          log_size,     \* log.size: blocks of the on-disk log with its header
          MaxCrash      \* bound: number of crashes

\* mkfs gives the log LOGSIZE blocks, one of them for the header: a block less
\* than begin_op counts on.  A call must leave that one unused, and a second one
\* because log_write makes its test before it looks for absorption, so that
\* writing a block again needs room as well.  Of the MAXOPBLOCKS = 10 of the
\* kernel a call uses 7 (FileData, OpFits).
ASSUME LogAssumption ==
  /\ MAXOPBLOCKS \in Nat \ {0}
  /\ LOGSIZE \in Nat /\ LOGSIZE >= MAXOPBLOCKS
  /\ log_size \in Nat /\ log_size >= LOGSIZE
  /\ OpBlocks \in Nat /\ OpBlocks + 2 <= MAXOPBLOCKS
  /\ MaxCrash \in Nat
  /\ Val # {} /\ IsFiniteSet(Op)

VARIABLES
  \* on the disk
  home,         \* [Block -> Val]
  logdata,      \* the log blocks
  head,         \* the header block: the block numbers, n is the length
  \* in memory
  cache,        \* contents of the buffers
  cached,       \* blocks that have a buffer
  dirty,        \* blocks whose buffer has B_DIRTY
  lh,           \* log.lh: the block numbers, n is the length
  outstanding, committing,
  op,           \* where each process is
  wrote,        \* the blocks it has written in this operation
  phase,        \* where commit or recover_from_log is
  tail,         \* the loop variable of write_log and install_trans
  crashes

disk == <<home, logdata, head>>
bufs == <<cache, cached, dirty>>
ctl  == <<outstanding, committing, op, wrote>>
vars == <<disk, bufs, ctl, lh, phase, tail, crashes>>

Phases == {"up", "wlog", "install", "done", "down", "rinstall"}
OpPoints == {"idle", "begin", "asleep", "in", "commit", "panic"}

Init ==
  /\ home \in [Block -> Val] /\ \A a, b \in Block : home[a] = home[b]
  /\ logdata = [i \in 1 .. log_size - 1 |-> CHOOSE v \in Val : TRUE]
  /\ head = << >>
  /\ cache = home /\ cached = {} /\ dirty = {}
  /\ lh = << >> /\ outstanding = 0 /\ committing = FALSE
  /\ op = [o \in Op |-> "idle"] /\ wrote = [o \in Op |-> {}]
  /\ phase = "up" /\ tail = 0 /\ crashes = 0

-----------------------------------------------------------------------------
\* bread: the buffer's contents, or the disk's if there is no buffer.
bread(b) == IF b \in cached THEN cache[b] ELSE home[b]

\* bget recycles a buffer that is not B_DIRTY.
recyclable == cached \ dirty

Evict(b) ==
  /\ b \in recyclable
  /\ cached' = cached \ {b}
  /\ UNCHANGED <<disk, cache, dirty, ctl, lh, phase, tail, crashes>>

\* wakeup(&log)
Woken(f) == [o \in Op |-> IF f[o] = "asleep" THEN "begin" ELSE f[o]]

Running == phase \notin {"down", "rinstall"}

\* Slip: begin_op reserves space for the others, not for its own operation.
begin_may_late ==
  /\ ~committing
  /\ Len(lh) + outstanding * MAXOPBLOCKS <= LOGSIZE

\* The conditions of begin_op's loop.
begin_may ==
  /\ ~committing
  /\ Len(lh) + (outstanding + 1) * MAXOPBLOCKS <= LOGSIZE

\* begin_op goes on, or sleeps on &log.
begin_op(o) ==
  /\ Running /\ op[o] \in {"idle", "begin"}
  /\ begin_may
  /\ outstanding' = outstanding + 1
  /\ op' = [op EXCEPT ![o] = "in"]
  /\ wrote' = [wrote EXCEPT ![o] = {}]
  /\ UNCHANGED <<disk, bufs, committing, lh, phase, tail, crashes>>

begin_sleep(o) ==
  /\ Running /\ op[o] \in {"idle", "begin"}
  /\ ~begin_may
  /\ op' = [op EXCEPT ![o] = "asleep"]
  /\ UNCHANGED <<disk, bufs, outstanding, committing, wrote, lh, phase, tail,
                 crashes>>

\* Operation o may still write block b.
MayWrite(o, b) == op[o] = "in" /\ Cardinality(wrote[o] \cup {b}) <= OpBlocks

\* The tests before log_write's panics.  The code makes them before it takes
\* log.lock; another operation may log a block in between, but by
\* ReservationSuffices their outcome is the same wherever they are made.
log_write_ok ==
  /\ ~(Len(lh) >= LOGSIZE \/ Len(lh) >= log_size - 1)
  /\ ~(outstanding < 1)

\* The absorption loop of log_write.
logged(b) == IF b \in ToSet(lh) THEN lh ELSE Append(lh, b)

\* An operation changes the buffer of b, under its sleep lock, and calls
\* log_write.  After a panic it is in the operation for ever, with the buffer
\* locked, so that nobody reads what it has changed.
log_write(o, b, v) ==
  /\ MayWrite(o, b)
  /\ IF log_write_ok
     THEN /\ cache' = [cache EXCEPT ![b] = v]
          /\ cached' = cached \cup {b}
          /\ dirty' = dirty \cup {b}
          /\ lh' = logged(b)
          /\ wrote' = [wrote EXCEPT ![o] = @ \cup {b}]
          /\ UNCHANGED op
     ELSE /\ op' = [op EXCEPT ![o] = "panic"]
          /\ UNCHANGED <<bufs, lh, wrote>>
  /\ UNCHANGED <<disk, outstanding, committing, phase, tail, crashes>>

\* end_op, when other operations are in progress: the reserved space shrinks.
end_op_other(o) ==
  /\ op[o] = "in" /\ outstanding > 1
  /\ outstanding' = outstanding - 1
  /\ op' = Woken([op EXCEPT ![o] = "idle"])
  /\ UNCHANGED <<disk, bufs, committing, wrote, lh, phase, tail, crashes>>

\* end_op of the last operation: commit, which does nothing if nothing was
\* logged.
end_op_last(o) ==
  /\ op[o] = "in" /\ outstanding = 1
  /\ outstanding' = 0
  /\ committing' = TRUE
  /\ op' = [op EXCEPT ![o] = "commit"]
  /\ phase' = IF Len(lh) > 0 THEN "wlog" ELSE "done"
  /\ tail' = 0
  /\ UNCHANGED <<disk, bufs, wrote, lh, crashes>>

\* write_log: one block from the cache to the log.
write_log ==
  /\ phase = "wlog" /\ tail < Len(lh)
  /\ logdata' = [logdata EXCEPT ![tail + 1] = bread(lh[tail + 1])]
  /\ tail' = tail + 1
  /\ UNCHANGED <<home, head, bufs, ctl, lh, phase, crashes>>

\* Slip: the header is written when the log blocks are not all there.
write_log_ended_early == TRUE

\* write_log's loop is over.
write_log_ended == tail = Len(lh)

\* write_head, the commit point.
write_head ==
  /\ phase = "wlog" /\ write_log_ended
  /\ head' = lh
  /\ phase' = "install" /\ tail' = 0
  /\ UNCHANGED <<home, logdata, bufs, ctl, lh, crashes>>

\* install_trans: one block from the log to its home, through its buffer.
install_trans ==
  /\ phase \in {"install", "rinstall"} /\ tail < Len(lh)
  /\ LET b == lh[tail + 1] IN
     /\ home' = [home EXCEPT ![b] = logdata[tail + 1]]
     /\ cache' = [cache EXCEPT ![b] = logdata[tail + 1]]
     /\ cached' = cached \cup {b}
     /\ dirty' = dirty \ {b}
  /\ tail' = tail + 1
  /\ UNCHANGED <<logdata, head, ctl, lh, phase, crashes>>

\* Slip: the header is cleared before the blocks are home.
install_ended_early == TRUE

\* install_trans's loop is over.
install_ended == tail = Len(lh)

\* log.lh.n = 0 and write_head, which erases the transaction.
clear_head ==
  /\ phase \in {"install", "rinstall"} /\ install_ended
  /\ lh' = << >>
  /\ head' = << >>
  /\ phase' = IF phase = "install" THEN "done" ELSE "up"
  /\ tail' = 0
  /\ UNCHANGED <<home, logdata, bufs, ctl, crashes>>

\* Slip: the end_op that commits does not call wakeup(&log).
commit_wakes_not(f) == f

\* The wakeup(&log) after commit.
commit_wakes(f) == Woken(f)

\* end_op after commit.
commit_done(o) ==
  /\ phase = "done" /\ op[o] = "commit"
  /\ committing' = FALSE
  /\ op' = commit_wakes([op EXCEPT ![o] = "idle"])
  /\ phase' = "up"
  /\ UNCHANGED <<disk, bufs, outstanding, wrote, lh, tail, crashes>>

-----------------------------------------------------------------------------
\* Power is lost: memory is gone, the disk stays.
PowerLoss ==
  /\ crashes < MaxCrash
  /\ crashes' = crashes + 1
  /\ cache' = home /\ cached' = {} /\ dirty' = {}
  /\ lh' = << >> /\ outstanding' = 0 /\ committing' = FALSE
  /\ op' = [o \in Op |-> "idle"] /\ wrote' = [o \in Op |-> {}]
  /\ phase' = "down" /\ tail' = 0
  /\ UNCHANGED disk

\* initlog: recover_from_log reads the header; install_trans and clear_head
\* do the rest.
read_head ==
  /\ phase = "down"
  /\ lh' = head
  /\ phase' = "rinstall" /\ tail' = 0
  /\ UNCHANGED <<disk, bufs, ctl, crashes>>

Next ==
  \/ \E o \in Op : \/ begin_op(o) \/ begin_sleep(o)
                   \/ end_op_other(o) \/ end_op_last(o) \/ commit_done(o)
                   \/ \E b \in Block, v \in Val : log_write(o, b, v)
  \/ \E b \in Block : Evict(b)
  \/ write_log \/ write_head \/ install_trans \/ clear_head
  \/ PowerLoss \/ read_head

Spec == Init /\ [][Next]_vars

\* Operations end, the commit makes progress, recovery ends, and a process
\* that has been woken runs: none of them waits for anything but the disk.
Fairness ==
  /\ WF_vars(write_log) /\ WF_vars(write_head) /\ WF_vars(install_trans)
  /\ WF_vars(clear_head) /\ WF_vars(read_head)
  /\ \A o \in Op : /\ WF_vars(commit_done(o))
                   /\ WF_vars(end_op_other(o) \/ end_op_last(o))

LiveSpec == Spec /\ Fairness

-----------------------------------------------------------------------------
\* Type correctness of the disk, the cache and struct log; a block is logged at
\* most once, and every logged block has a log block on the disk.
TypeOK ==
  /\ home \in [Block -> Val] /\ logdata \in [1 .. log_size - 1 -> Val]
  /\ head \in Seq(Block) /\ Len(head) <= log_size - 1
  /\ cache \in [Block -> Val] /\ cached \in SUBSET Block
  /\ dirty \in SUBSET Block
  /\ lh \in Seq(Block) /\ Len(lh) <= log_size - 1 /\ IsInjective(lh)
  /\ outstanding \in Nat /\ committing \in BOOLEAN
  /\ op \in [Op -> OpPoints] /\ wrote \in [Op -> SUBSET Block]
  /\ phase \in Phases /\ tail \in 0 .. log_size - 1
  /\ crashes \in 0 .. MaxCrash

\* What recover_from_log would make of the disk.
Recovered ==
  [b \in Block |-> IF b \in ToSet(head)
                   THEN logdata[CHOOSE i \in DOMAIN head : head[i] = b]
                   ELSE home[b]]

\* What the file system sees, before and after the machine is up.
View == IF Running THEN [b \in Block |-> bread(b)] ELSE Recovered

\* The log makes groups of operations atomic: see AtomicStore.
Store == INSTANCE AtomicStore WITH
  Client   <- Op,
  stable   <- Recovered,
  volatile <- View,
  open     <- {o \in Op : op[o] \in {"in", "panic"}}

CrashAtomic == Store!ASpec

\* When the commit of the last end_op is over, what the operations wrote
\* survives a crash: the disk alone holds it, without the log.
CommittedIsDurable ==
  Running /\ lh = << >> => home = View /\ head = << >>

\* The places that begin_op has reserved and no operation has used.
Reserved ==
  {r \in Op \X (1 .. MAXOPBLOCKS) :
     op[r[1]] = "in" /\ r[2] > Cardinality(wrote[r[1]])}

\* begin_op's reservation: what is logged and what is still reserved fit into
\* log.lh together, what is logged fits into the log on the disk, which is one
\* block shorter (in TypeOK), and log_write never panics, whether blocks are
\* absorbed or not and whenever others begin and end.
ReservationSuffices ==
  /\ TypeOK
  /\ Len(lh) + Cardinality(Reserved) <= LOGSIZE
  /\ \A o \in Op : op[o] # "panic"

\* begin_op against end_op: a process that sleeps on &log is woken, although
\* the last end_op may have looked for sleepers before it went to sleep.
SleepersWoken == \A o \in Op : op[o] = "asleep" ~> op[o] # "asleep"
=============================================================================
