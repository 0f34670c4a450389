------------------------------ MODULE BufCache ------------------------------
(***************************************************************************)
(* The buffer cache (srcs/bio.c) with the sleep locks of its buffers       *)
(* (srcs/sleeplock.c) and the IDE driver under it (srcs/ide.c).            *)
(*                                                                         *)
(* A critical section of bcache.lock, of idelock, or of the spin lock      *)
(* inside a sleep lock is one step.  Sleep and the release of the spin     *)
(* lock are one step (see Mlfq), so no wakeup falls between them.          *)
(***************************************************************************)
EXTENDS Integers, FiniteSets, SequencesExt

CONSTANTS User,        \* uses of the cache, each from bread to brelse: what a
                       \* process does with one buffer.  One that has two at a
                       \* time (write_log, install_trans, bmap) is two users.
          Block, Val,
          NBUF,
          MaxDirty,    \* blocks the log pins at a time: the log's reservation
          MaxOps,      \* bound: breads of one user
          MaxLost,     \* bound: blocks of which a read fails
          None

Buf == 1 .. NBUF

ASSUME BufAssumption ==
  /\ NBUF \in Nat \ {0} /\ MaxDirty \in Nat /\ MaxOps \in Nat
  /\ MaxLost \in Nat
  /\ IsFiniteSet(User)
  /\ None \notin User \cup Block \cup Val \cup Buf

VARIABLES
  \* struct buf
  blockno, valid, dirty, lock, refcnt, bdata,
  lru,        \* the list from bcache.head: the most recently used first
  idequeue,   \* the requests, the active one first
  command,    \* what the disk has been told to do: a record, or None
  disk,       \* [Block -> Val]
  pc, buf,    \* where each user is, and the buffer it is about
  ops,        \* breads made so far
  lost,       \* blocks of which a read has failed
  panicked    \* a bget has panicked, with bcache.lock held

flags  == <<blockno, valid, dirty>>
device == <<idequeue, command, disk>>
vars == <<flags, lock, refcnt, bdata, lru, device, pc, buf, ops, lost, panicked>>

\* "lock": in acquiresleep.  "rw": calls iderw.  "iowait": in the loop of iderw.
\* "held": back from bread or bwrite.  "unref": in brelse after releasesleep.
Points == {"idle", "lock", "locksleep", "rw", "iowait", "iosleep", "held",
           "unref"}

\* binit, over a disk whose blocks all hold the same.
Init ==
  /\ blockno = [b \in Buf |-> None]
  /\ valid = [b \in Buf |-> FALSE] /\ dirty = [b \in Buf |-> FALSE]
  /\ lock = [b \in Buf |-> None] /\ refcnt = [b \in Buf |-> 0]
  /\ \E v \in Val : disk = [k \in Block |-> v] /\ bdata = [b \in Buf |-> v]
  /\ lru = [k \in Buf |-> NBUF + 1 - k]
  /\ idequeue = << >> /\ command = None
  /\ pc = [p \in User |-> "idle"] /\ buf = [p \in User |-> None]
  /\ ops = [p \in User |-> 0] /\ lost = {}
  /\ panicked = FALSE

-----------------------------------------------------------------------------
BufsOf(k) == {b \in Buf : blockno[b] = k}

\* Slip: bget recycles a buffer that the log has pinned.
recyclable_dirty(b) == refcnt[b] = 0

recyclable(b) == refcnt[b] = 0 /\ ~dirty[b]

\* Slip: brelse forgets the reference.
dropped_not(r) == r

\* refcnt-- of brelse.
dropped(r) == r - 1

\* bread(k) enters bget, which finds the block.
BgetHit(p, k) ==
  /\ pc[p] = "idle" /\ ops[p] < MaxOps /\ ~panicked
  /\ \E b \in BufsOf(k) :
       /\ refcnt' = [refcnt EXCEPT ![b] = @ + 1]
       /\ buf' = [buf EXCEPT ![p] = b]
  /\ pc' = [pc EXCEPT ![p] = "lock"]
  /\ ops' = [ops EXCEPT ![p] = @ + 1]
  /\ UNCHANGED <<flags, lock, bdata, lru, device, lost, panicked>>

\* Slip: bget looks for the block again only in the buffers in use.
bget_missed_unreferenced(k) == \A b \in BufsOf(k) : refcnt[b] = 0

\* The first loop of bget has found nothing.
bget_missed(k) == BufsOf(k) = {}

\* The places in the list that bget may recycle; with none it panics.
Free == {j \in Buf : recyclable(lru[j])}

\* bget recycles the least recently used buffer that it may.
BgetMiss(p, k) ==
  /\ pc[p] = "idle" /\ ops[p] < MaxOps /\ ~panicked
  /\ bget_missed(k) /\ Free # {}
  /\ LET b == lru[Max(Free)] IN
     /\ blockno' = [blockno EXCEPT ![b] = k]
     /\ valid' = [valid EXCEPT ![b] = FALSE]
     /\ dirty' = [dirty EXCEPT ![b] = FALSE]
     /\ refcnt' = [refcnt EXCEPT ![b] = 1]
     /\ buf' = [buf EXCEPT ![p] = b]
  /\ pc' = [pc EXCEPT ![p] = "lock"]
  /\ ops' = [ops EXCEPT ![p] = @ + 1]
  /\ UNCHANGED <<lock, bdata, lru, device, lost, panicked>>

\* bget: no buffers.  bcache.lock is never released.
BgetPanic(p, k) ==
  /\ pc[p] = "idle" /\ ops[p] < MaxOps /\ ~panicked
  /\ bget_missed(k) /\ Free = {}
  /\ panicked' = TRUE
  /\ UNCHANGED <<flags, lock, refcnt, bdata, lru, device, pc, buf, ops, lost>>

\* acquiresleep: take the lock, or sleep until it is released.  bread then reads
\* the block if the buffer is not valid.
AcquireSleep(p) ==
  /\ pc[p] = "lock"
  /\ LET b == buf[p] IN
     \/ /\ lock[b] = None
        /\ lock' = [lock EXCEPT ![b] = p]
        /\ pc' = [pc EXCEPT ![p] = IF valid[b] THEN "held" ELSE "rw"]
     \/ /\ lock[b] # None
        /\ pc' = [pc EXCEPT ![p] = "locksleep"]
        /\ UNCHANGED lock
  /\ UNCHANGED <<flags, refcnt, bdata, lru, device, buf, ops, lost, panicked>>

\* idestart(b): the command for the disk, with the data of a write.
idestart(b) ==
  [block |-> blockno[b], write |-> dirty[b], data |-> bdata[b]]

\* iderw: append the request, start the disk if it is the first, and sleep.
iderw(p) ==
  /\ pc[p] = "rw"
  /\ idequeue' = Append(idequeue, buf[p])
  /\ command' = IF idequeue = << >> THEN idestart(buf[p]) ELSE command
  /\ pc' = [pc EXCEPT ![p] = "iosleep"]
  /\ UNCHANGED <<flags, lock, refcnt, bdata, lru, disk, buf, ops, lost, panicked>>

\* Slip: ideintr leaves the next request to the next iderw.
next_command_none(q) == None

\* The command that ideintr starts when the queue is now q.
next_command(q) == IF q = << >> THEN None ELSE idestart(Head(q))

\* The disk has executed its command and ideintr runs.  After a read error the
\* buffer keeps the data it had.
ideintr ==
  /\ command # None
  /\ LET b == Head(idequeue) IN
     /\ disk' = IF command.write
                THEN [disk EXCEPT ![command.block] = command.data] ELSE disk
     /\ \/ /\ ~dirty[b]
           /\ bdata' = [bdata EXCEPT ![b] = disk[command.block]]
           /\ UNCHANGED lost
        \/ /\ ~dirty[b] /\ Cardinality(lost) < MaxLost
           /\ lost' = lost \cup {command.block}
           /\ UNCHANGED bdata
        \/ /\ dirty[b]
           /\ UNCHANGED <<bdata, lost>>
     /\ valid' = [valid EXCEPT ![b] = TRUE]
     /\ dirty' = [dirty EXCEPT ![b] = FALSE]
     /\ pc' = [p \in User |-> IF pc[p] = "iosleep" /\ buf[p] = b
                                 THEN "iowait" ELSE pc[p]]
  /\ idequeue' = Tail(idequeue)
  /\ command' = next_command(Tail(idequeue))
  /\ UNCHANGED <<blockno, lock, refcnt, lru, buf, ops, panicked>>

\* iderw's loop, when its user runs again.
IoWait(p) ==
  /\ pc[p] = "iowait"
  /\ pc' = [pc EXCEPT ![p] = IF valid[buf[p]] /\ ~dirty[buf[p]] THEN "held"
                                                                ELSE "iosleep"]
  /\ UNCHANGED <<flags, lock, refcnt, bdata, lru, device, buf, ops, lost, panicked>>

\* kill makes a sleeper RUNNABLE, whatever it waits for.
KillWakes(p) ==
  /\ pc[p] \in {"locksleep", "iosleep"}
  /\ pc' = [pc EXCEPT ![p] = IF @ = "locksleep" THEN "lock" ELSE "iowait"]
  /\ UNCHANGED <<flags, lock, refcnt, bdata, lru, device, buf, ops, lost, panicked>>

-----------------------------------------------------------------------------
\* The owner of a buffer changes it and calls log_write, which pins it ...
LogWrite(p, v) ==
  /\ pc[p] = "held"
  /\ dirty[buf[p]] \/ Cardinality({b \in Buf : dirty[b]}) < MaxDirty
  /\ bdata' = [bdata EXCEPT ![buf[p]] = v]
  /\ dirty' = [dirty EXCEPT ![buf[p]] = TRUE]
  /\ UNCHANGED <<blockno, valid, lock, refcnt, lru, device, pc, buf, ops,
                 lost, panicked>>

\* ... or changes it and calls bwrite, as the log does itself.
bwrite(p, v) ==
  /\ pc[p] = "held"
  /\ bdata' = [bdata EXCEPT ![buf[p]] = v]
  /\ dirty' = [dirty EXCEPT ![buf[p]] = TRUE]
  /\ pc' = [pc EXCEPT ![p] = "rw"]
  /\ UNCHANGED <<blockno, valid, lock, refcnt, lru, device, buf, ops, lost, panicked>>

\* Slip: releasesleep wakes only the user that releases.
release_wakes_self(p) == {p}

\* The sleepers of wakeup(lk) in releasesleep.
release_wakes(p) ==
  {q \in User : pc[q] = "locksleep" /\ buf[q] = buf[p]}

\* brelse: releasesleep ...
ReleaseSleep(p) ==
  /\ pc[p] = "held"
  /\ lock' = [lock EXCEPT ![buf[p]] = None]
  /\ pc' = [q \in User |-> IF q = p THEN "unref"
                              ELSE IF q \in release_wakes(p) THEN "lock"
                              ELSE pc[q]]
  /\ UNCHANGED <<flags, refcnt, bdata, lru, device, buf, ops, lost, panicked>>

\* The buffer leaves its place in the list for the one after bcache.head.
relinked(b) ==
  LET j == CHOOSE j \in Buf : lru[j] = b
  IN  [k \in Buf |-> IF k = 1 THEN b ELSE IF k <= j THEN lru[k - 1] ELSE lru[k]]

\* ... then the reference, and the place in the list if it was the last one.
brelse(p) ==
  /\ pc[p] = "unref" /\ ~panicked
  /\ LET b == buf[p] IN
     /\ refcnt' = [refcnt EXCEPT ![b] = dropped(@)]
     /\ lru' = IF dropped(refcnt[b]) = 0 THEN relinked(b) ELSE lru
  /\ pc' = [pc EXCEPT ![p] = "idle"]
  /\ buf' = [buf EXCEPT ![p] = None]
  /\ UNCHANGED <<flags, lock, bdata, device, ops, lost, panicked>>

\* All users have made their calls, or the kernel has stopped.
Over ==
  /\ panicked \/ \A p \in User : pc[p] = "idle" /\ ops[p] = MaxOps
  /\ UNCHANGED vars

Next ==
  \/ \E p \in User :
       \/ \E k \in Block : BgetHit(p, k) \/ BgetMiss(p, k) \/ BgetPanic(p, k)
       \/ AcquireSleep(p) \/ iderw(p) \/ IoWait(p) \/ KillWakes(p)
       \/ \E v \in Val : LogWrite(p, v) \/ bwrite(p, v)
       \/ ReleaseSleep(p) \/ brelse(p)
  \/ ideintr
  \/ Over

Spec == Init /\ [][Next]_vars

-----------------------------------------------------------------------------
\* Type correctness of the cache and the driver.
TypeOK ==
  /\ blockno \in [Buf -> Block \cup {None}]
  /\ valid \in [Buf -> BOOLEAN] /\ dirty \in [Buf -> BOOLEAN]
  /\ lock \in [Buf -> User \cup {None}] /\ refcnt \in [Buf -> Nat]
  /\ bdata \in [Buf -> Val]
  /\ lru \in Seq(Buf) /\ Len(lru) = NBUF
  /\ idequeue \in Seq(Buf)
  /\ command = None \/ command \in [block : Block, write : BOOLEAN, data : Val]
  /\ disk \in [Block -> Val]
  /\ pc \in [User -> Points] /\ buf \in [User -> Buf \cup {None}]
  /\ ops \in [User -> 0 .. MaxOps] /\ lost \in SUBSET Block
  /\ panicked \in BOOLEAN

\* bget: a block never has two buffers, although users miss at the same
\* time and buffers are recycled; refcnt counts the users between bget and
\* the end of brelse, so bget never recycles a buffer that somebody waits for;
\* the list keeps every buffer.
References ==
  /\ TypeOK
  /\ \A k \in Block : Cardinality(BufsOf(k)) <= 1
  /\ \A b \in Buf : refcnt[b] = Cardinality({p \in User : buf[p] = b})
  /\ ToSet(lru) = Buf

\* iderw and ideintr: a buffer is in the queue once, while the user that owns
\* it sleeps or has been woken early, and the disk works on the first of them.
RequestsExact ==
  /\ IsInjective(idequeue)
  /\ \A b \in ToSet(idequeue) :
       /\ lock[b] # None /\ buf[lock[b]] = b
       /\ pc[lock[b]] \in {"iosleep", "iowait"}
  /\ command = IF idequeue = << >> THEN None ELSE idestart(Head(idequeue))

\* bget panics only when it must: every buffer is then one that somebody uses,
\* between bget and the end of brelse, or that the log has pinned.  No lost
\* reference and no flag that is left behind makes a buffer unusable, and after
\* the panic none becomes free.
PanicMeansFull ==
  panicked => \A b \in Buf : dirty[b] \/ \E p \in User : buf[p] = b

\* releasesleep and ideintr against the sleeps of acquiresleep and iderw: a
\* user sleeps on a buffer's lock only while another one has it, and for the
\* disk only while its request is in the queue.
SleepersHaveReason ==
  \A p \in User :
    /\ pc[p] = "locksleep" => lock[buf[p]] \notin {None, p}
    /\ pc[p] = "iosleep" => buf[p] \in ToSet(idequeue)

\* What a block holds: its buffer if it has a valid one, or else the disk.
Content ==
  [k \in Block |->
     IF k \in lost THEN None
     ELSE IF \E b \in BufsOf(k) : valid[b]
     THEN bdata[CHOOSE b \in BufsOf(k) : valid[b]]
     ELSE disk[k]]

Store == INSTANCE BlockStore WITH
  content <- Content,
  owned   <- {o \in User \X Block :
                \E b \in Buf : /\ lock[b] = o[1] /\ blockno[b] = o[2]
                              /\ valid[b]}

\* The cache and the driver implement a store of blocks: recycling, reading and
\* writing back never change what a block holds, and one user has it at a
\* time.  A failed read, which ideintr does not report, is the only exception.
IsBlockStore == Store!SSpec
=============================================================================
