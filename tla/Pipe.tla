-------------------------------- MODULE Pipe --------------------------------
(***************************************************************************)
(* A pipe (srcs/pipe.c) between processes that share its two ends.         *)
(*                                                                         *)
(* p->lock is held from one sleep to the next, a byte at a time.  What     *)
(* only ptable.lock protects (kill, and sleep's change of state) is not    *)
(* covered by p->lock: the killed test and the sleep that follows it are   *)
(* two steps, and kill can come between them.                              *)
(***************************************************************************)
EXTENDS Integers, Sequences

CONSTANTS Writer, Reader,   \* processes that hold the write end, the read end
          Byte,
          PIPESIZE,
          Wrap,             \* 2^32: nread and nwrite are unsigned
          MaxLen,           \* bound: the longest read or write
          MaxCalls,         \* bound: reads or writes of one process
          Killable,         \* processes that somebody kills
          Nobody            \* p->lock is free

ASSUME PipeAssumption ==
  /\ Writer \cap Reader = {} /\ Nobody \notin Writer \cup Reader
  /\ PIPESIZE \in Nat \ {0}
  /\ Wrap \in Nat /\ Wrap >= 2 * PIPESIZE /\ Wrap % PIPESIZE = 0
  /\ MaxLen \in Nat /\ MaxCalls \in Nat
  /\ Killable \subseteq Writer \cup Reader
  /\ Byte # {}

Proc == Writer \cup Reader

VARIABLES data, nread, nwrite, readopen, writeopen,   \* struct pipe
          holder,   \* who holds p->lock
          fds,      \* processes that have not closed their end
          killed,
          pc,       \* where the process is
          n,        \* bytes the call has still to move
          i,        \* bytes it has moved
          last,     \* addr[i] of the last read
          eof,      \* some read of n > 0 bytes has returned 0
          calls,    \* calls made so far
          hushed    \* history: a write has failed after it stored bytes, and
                    \* nobody has called wakeup(&p->nread) since

ring == <<data, nread, nwrite>>
ends == <<readopen, writeopen, fds>>
vars == <<ring, ends, holder, killed, pc, n, i, last, eof, calls, hushed>>

\* "acquire": spins for p->lock.  "loop": in the loop of pipewrite or the first
\* loop of piperead.  "copy": in the second loop of piperead.  "presleep":
\* after the killed test.  "asleep": SLEEPING, a writer on &p->nwrite and a
\* reader on &p->nread.
Points == {"user", "acquire", "loop", "copy", "presleep", "asleep"}

Init ==
  /\ \E b \in Byte : data = [k \in 0 .. PIPESIZE - 1 |-> b] /\ last = b
  /\ nread = 0 /\ nwrite = 0
  /\ readopen = TRUE /\ writeopen = TRUE
  /\ holder = Nobody
  /\ fds = Proc
  /\ killed = [p \in Proc |-> FALSE]
  /\ pc = [p \in Proc |-> "user"]
  /\ n = [p \in Proc |-> 0] /\ i = [p \in Proc |-> 0]
  /\ eof = FALSE
  /\ calls = [p \in Proc |-> 0]
  /\ hushed = FALSE

-----------------------------------------------------------------------------
\* Slip: one byte more than there is room for.
pipe_full_late == nwrite = (nread + PIPESIZE + 1) % Wrap

\* Slip: the counters are compared as if they did not wrap.
pipe_full_plain == nwrite >= nread + PIPESIZE

\* nwrite == nread + PIPESIZE, in 32 bits.
pipe_full == nwrite = (nread + PIPESIZE) % Wrap

pipe_empty == nread = nwrite

\* wakeup of a channel: all its sleepers go for p->lock again.
Woken(f, S) == [p \in Proc |-> IF p \in S /\ f[p] = "asleep" THEN "acquire"
                                                             ELSE f[p]]

\* The call of p is over: its local variables and p->lock are gone.
Return(p) ==
  /\ holder' = Nobody
  /\ n' = [n EXCEPT ![p] = 0] /\ i' = [i EXCEPT ![p] = 0]

\* sys_read or sys_write; trap has tested killed.
Call(p) ==
  /\ pc[p] = "user" /\ p \in fds /\ ~killed[p] /\ calls[p] < MaxCalls
  /\ \E len \in 0 .. MaxLen : n' = [n EXCEPT ![p] = len]
  /\ calls' = [calls EXCEPT ![p] = @ + 1]
  /\ pc' = [pc EXCEPT ![p] = "acquire"]
  /\ UNCHANGED <<ring, ends, holder, killed, i, last, eof, hushed>>

\* acquire(&p->lock), at the start and at the end of sleep.
Acquire(p) ==
  /\ pc[p] = "acquire" /\ holder = Nobody
  /\ holder' = p
  /\ pc' = [pc EXCEPT ![p] = "loop"]
  /\ UNCHANGED <<ring, ends, killed, n, i, last, eof, calls, hushed>>

\* pipewrite stores one byte.
WriteByte(p) ==
  /\ p \in Writer /\ pc[p] = "loop" /\ i[p] < n[p] /\ ~pipe_full
  /\ \E b \in Byte : data' = [data EXCEPT ![nwrite % PIPESIZE] = b]
  /\ nwrite' = (nwrite + 1) % Wrap
  /\ i' = [i EXCEPT ![p] = @ + 1]
  /\ UNCHANGED <<nread, ends, holder, killed, pc, n, last, eof, calls, hushed>>

\* The pipe is full: pipewrite returns -1 and wakes nobody, or it wakes the
\* readers and sleeps.
WriteFails(p) ==
  /\ p \in Writer /\ pc[p] = "loop" /\ i[p] < n[p] /\ pipe_full
  /\ ~readopen \/ killed[p]
  /\ Return(p)
  /\ pc' = [pc EXCEPT ![p] = "user"]
  /\ hushed' = (hushed \/ i[p] > 0)
  /\ UNCHANGED <<ring, ends, killed, last, eof, calls>>

WriteWaits(p) ==
  /\ p \in Writer /\ pc[p] = "loop" /\ i[p] < n[p] /\ pipe_full
  /\ readopen /\ ~killed[p]
  /\ pc' = Woken([pc EXCEPT ![p] = "presleep"], Reader)
  /\ hushed' = FALSE
  /\ UNCHANGED <<ring, ends, holder, killed, n, i, last, eof, calls>>

\* Slip: pipewrite returns without wakeup(&p->nread).
write_wakes_not(f) == f

\* wakeup(&p->nread) at the end of pipewrite.
write_wakes(f) == Woken(f, Reader)

WriteReturns(p) ==
  /\ p \in Writer /\ pc[p] = "loop" /\ i[p] = n[p]
  /\ Return(p)
  /\ pc' = write_wakes([pc EXCEPT ![p] = "user"])
  /\ hushed' = FALSE
  /\ UNCHANGED <<ring, ends, killed, last, eof, calls>>

\* The rest of sleep(chan, &p->lock): SLEEPING and the lock released, with no
\* wakeup in between.
GoToSleep(p) ==
  /\ pc[p] = "presleep"
  /\ holder' = Nobody
  /\ pc' = [pc EXCEPT ![p] = "asleep"]
  /\ UNCHANGED <<ring, ends, killed, n, i, last, eof, calls, hushed>>

\* The condition of piperead's first loop.
read_must_wait == pipe_empty /\ writeopen

ReadFails(p) ==
  /\ p \in Reader /\ pc[p] = "loop" /\ read_must_wait /\ killed[p]
  /\ Return(p)
  /\ pc' = [pc EXCEPT ![p] = "user"]
  /\ UNCHANGED <<ring, ends, killed, last, eof, calls, hushed>>

ReadWaits(p) ==
  /\ p \in Reader /\ pc[p] = "loop" /\ read_must_wait /\ ~killed[p]
  /\ pc' = [pc EXCEPT ![p] = "presleep"]
  /\ UNCHANGED <<ring, ends, holder, killed, n, i, last, eof, calls, hushed>>

ReadStarts(p) ==
  /\ p \in Reader /\ pc[p] = "loop" /\ ~read_must_wait
  /\ pc' = [pc EXCEPT ![p] = "copy"]
  /\ UNCHANGED <<ring, ends, holder, killed, n, i, last, eof, calls, hushed>>

ReadByte(p) ==
  /\ pc[p] = "copy" /\ i[p] < n[p] /\ ~pipe_empty
  /\ last' = data[nread % PIPESIZE]
  /\ nread' = (nread + 1) % Wrap
  /\ i' = [i EXCEPT ![p] = @ + 1]
  /\ UNCHANGED <<data, nwrite, ends, holder, killed, pc, n, eof, calls, hushed>>

\* Slip: a read wakes the readers.
read_wakes_readers(f) == Woken(f, Reader)

\* wakeup(&p->nwrite) at the end of piperead.
read_wakes(f) == Woken(f, Writer)

\* The return of i, which is 0 at the end of the file.
ReadReturns(p) ==
  /\ pc[p] = "copy" /\ (i[p] = n[p] \/ pipe_empty)
  /\ Return(p)
  /\ pc' = read_wakes([pc EXCEPT ![p] = "user"])
  /\ eof' = (eof \/ (n[p] > 0 /\ i[p] = 0))
  /\ UNCHANGED <<ring, ends, killed, last, calls, hushed>>

\* The end whose sleepers pipeclose wakes.
close_wakes(p) == IF p \in Writer THEN Reader ELSE Writer

\* fileclose, by the program or by exit.  The last process to close an end
\* calls pipeclose.
Close(p) ==
  /\ pc[p] = "user" /\ p \in fds
  /\ fds' = fds \ {p}
  /\ LET end    == IF p \in Writer THEN Writer ELSE Reader
         closes == end \cap fds = {p}
     IN  /\ closes => holder = Nobody
         /\ writeopen' = (writeopen /\ ~(closes /\ p \in Writer))
         /\ readopen' = (readopen /\ ~(closes /\ p \in Reader))
         /\ pc' = IF closes THEN Woken(pc, close_wakes(p)) ELSE pc
         /\ hushed' = (hushed /\ ~(closes /\ p \in Writer))
  /\ UNCHANGED <<ring, holder, killed, n, i, last, eof, calls>>

\* kill: the mark, and a sleeper is made RUNNABLE.
Kill(p) ==
  /\ p \in Killable /\ ~killed[p]
  /\ killed' = [killed EXCEPT ![p] = TRUE]
  /\ pc' = Woken(pc, {p})
  /\ UNCHANGED <<ring, ends, holder, n, i, last, eof, calls, hushed>>

\* What a process does in the kernel once it has started a call.
Step(p) ==
  \/ Acquire(p) \/ GoToSleep(p)
  \/ WriteByte(p) \/ WriteFails(p) \/ WriteWaits(p) \/ WriteReturns(p)
  \/ ReadFails(p) \/ ReadWaits(p) \/ ReadStarts(p) \/ ReadByte(p)
  \/ ReadReturns(p)

\* Everybody has closed the pipe.
Over == fds = {} /\ UNCHANGED vars

Next ==
  \/ \E p \in Proc : Call(p) \/ Step(p) \/ Close(p) \/ Kill(p)
  \/ Over

Spec == Init /\ [][Next]_vars

-----------------------------------------------------------------------------
\* Type correctness of the pipe and of the calls.
TypeOK ==
  /\ data \in [0 .. PIPESIZE - 1 -> Byte]
  /\ nread \in 0 .. Wrap - 1 /\ nwrite \in 0 .. Wrap - 1
  /\ (nwrite - nread) % Wrap <= PIPESIZE
  /\ readopen \in BOOLEAN /\ writeopen \in BOOLEAN
  /\ holder \in Proc \cup {Nobody} /\ fds \in SUBSET Proc
  /\ killed \in [Proc -> BOOLEAN] /\ pc \in [Proc -> Points]
  /\ n \in [Proc -> 0 .. MaxLen] /\ i \in [Proc -> 0 .. MaxLen]
  /\ last \in Byte /\ eof \in BOOLEAN /\ calls \in [Proc -> 0 .. MaxCalls]
  /\ hushed \in BOOLEAN

\* The bytes between nread and nwrite.
Contents ==
  [k \in 1 .. (nwrite - nread) % Wrap |-> data[(nread + k - 1) % PIPESIZE]]

Channel == INSTANCE ByteChannel WITH
  Size <- PIPESIZE, contents <- Contents, wopen <- writeopen,
  ropen <- readopen

\* The ring is a bounded channel: bytes come out once and in order although the
\* counters wrap and several readers and writers take turns in the middle of a
\* call, and a read returns 0 only at the end of the file.
IsChannel == Channel!BSpec

\* pipewrite, piperead and pipeclose: when p->lock is free, a writer sleeps
\* only over a full pipe that somebody may read.
WriterSleepsOnFull ==
  holder = Nobody =>
    \A p \in Writer : pc[p] = "asleep" => pipe_full /\ readopen

\* The mark "pipe-empty" on piperead's sleep: when p->lock is free, a reader
\* sleeps only where somebody may write, and over an empty pipe.  One exception
\* is in the code, and this is all of it: a writer that is killed in the middle
\* of its call fails at the full pipe without a wakeup, and the readers sleep
\* over its bytes until the next write or close wakes them.
ReaderSleepsOnEmpty ==
  holder = Nobody =>
    \A p \in Reader : pc[p] = "asleep" => writeopen /\ (pipe_empty \/ hushed)
=============================================================================
