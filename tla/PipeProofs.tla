----------------------------- MODULE PipeProofs -----------------------------
(***************************************************************************)
(* Proofs about Pipe, for every number of readers and writers, every       *)
(* PIPESIZE, every width of the counters that it divides, and every bound. *)
(***************************************************************************)
EXTENDS Pipe, SequenceTheorems, TLAPS

(***************************************************************************)
(* Remainders.                                                             *)
(***************************************************************************)

\* A multiple of P strictly between -P and P is 0.
LEMMA SmallMultiple ==
  ASSUME NEW P \in Nat \ {0}, NEW k \in Int, 0 - P < P * k, P * k < P
  PROVE  k = 0
<1>1. CASE k >= 1
  <2>1. P * k >= P
    BY <1>1
  <2> QED BY <2>1
<1>2. CASE k <= 0 - 1
  <2>1. P * k <= 0 - P
    BY <1>2
  <2> QED BY <2>1
<1> QED BY <1>1, <1>2

\* Division with remainder.
LEMMA Division ==
  ASSUME NEW P \in Nat \ {0}, NEW x \in Int
  PROVE  \E q \in Int : x = P * q + (x % P) /\ x % P \in 0 .. P - 1
<1>1. x \div P \in Int /\ x = P * (x \div P) + (x % P)
  OBVIOUS
<1>2. x % P \in 0 .. P - 1
  OBVIOUS
<1> QED BY <1>1, <1>2

\* The remainder is unique.
LEMMA UniqueRemainder ==
  ASSUME NEW P \in Nat \ {0}, NEW q \in Int, NEW r \in 0 .. P - 1,
         NEW x \in Int, x = P * q + r
  PROVE  x % P = r
<1>1. PICK k \in Int : x = P * k + (x % P) /\ x % P \in 0 .. P - 1
  BY Division
<1> DEFINE s == x % P
<1>2. s \in 0 .. P - 1 /\ x = P * k + s
  BY <1>1
<1> HIDE DEF s
<1>3. P * (k - q) = r - s
  <2>1. P * (k - q) = P * k - P * q
    OBVIOUS
  <2> QED BY <1>2, <2>1
<1>4. k - q = 0
  BY <1>2, <1>3, k - q \in Int, SmallMultiple
<1> QED BY <1>2, <1>4 DEF s

\* A multiple of P does not change the remainder.
LEMMA RemainderOfShift ==
  ASSUME NEW P \in Nat \ {0}, NEW W \in Nat, W % P = 0, NEW j \in Int
  PROVE  (j + W) % P = j % P
<1>1. PICK k \in Int : j = P * k + (j % P) /\ j % P \in 0 .. P - 1
  BY Division
<1>2. PICK m \in Int : W = P * m + (W % P)
  BY W \in Int, Division
<1> DEFINE s == j % P
<1>3. s \in 0 .. P - 1 /\ j = P * k + s /\ W = P * m
  BY <1>1, <1>2
<1> HIDE DEF s
<1>4. j + W = P * (m + k) + s
  <2>1. P * (m + k) = P * m + P * k
    OBVIOUS
  <2> QED BY <1>3, <2>1
<1>5. (j + W) % P = s
  BY <1>3, <1>4, UniqueRemainder, m + k \in Int, j + W \in Int
<1> QED BY <1>5 DEF s

\* Numbers less than P apart have different remainders.
LEMMA RemaindersDiffer ==
  ASSUME NEW P \in Nat \ {0}, NEW x \in Int, NEW y \in Int, x < y, y < x + P
  PROVE  x % P # y % P
<1>1. PICK k \in Int : x = P * k + (x % P) /\ x % P \in 0 .. P - 1
  BY Division
<1>2. PICK m \in Int : y = P * m + (y % P) /\ y % P \in 0 .. P - 1
  BY Division
<1> SUFFICES ASSUME x % P = y % P PROVE FALSE
  OBVIOUS
<1> DEFINE s == x % P
<1>3. s \in 0 .. P - 1 /\ x = P * k + s /\ y = P * m + s
  BY <1>1, <1>2
<1> HIDE DEF s
<1>4. P * (m - k) = P * m - P * k
  OBVIOUS
<1>5. m - k = 0
  BY <1>3, <1>4, m - k \in Int, SmallMultiple
<1> QED BY <1>3, <1>5

\* Remainders next to the range 0 .. W - 1.
LEMMA NearRemainder ==
  ASSUME NEW W \in Nat \ {0}, NEW x \in Int
  PROVE  /\ x \in 0 .. W - 1 => x % W = x
         /\ x \in W .. 2 * W - 1 => x % W = x - W
         /\ x \in (0 - W) .. (0 - 1) => x % W = x + W
<1>1. x \in 0 .. W - 1 => x % W = x
  OBVIOUS
<1>2. x \in W .. 2 * W - 1 => x % W = x - W
  BY UniqueRemainder, x = W * 1 + (x - W)
<1>3. x \in (0 - W) .. (0 - 1) => x % W = x + W
  BY UniqueRemainder, x = W * (0 - 1) + (x + W)
<1> QED BY <1>1, <1>2, <1>3

\* The distance from one counter to another, without the remainder.
LEMMA Distance ==
  ASSUME NEW W \in Nat \ {0}, NEW r \in 0 .. W - 1, NEW w \in 0 .. W - 1
  PROVE  (w - r) % W = IF r <= w THEN w - r ELSE w - r + W
<1>1. w - r \in Int
  OBVIOUS
<1>2. CASE r <= w
  <2>1. w - r \in 0 .. W - 1
    BY <1>2
  <2> QED BY <1>1, <1>2, <2>1, NearRemainder
<1>3. CASE ~(r <= w)
  <2>1. w - r \in (0 - W) .. (0 - 1)
    BY <1>3
  <2> QED BY <1>1, <1>3, <2>1, NearRemainder
<1> QED BY <1>2, <1>3

\* A sum that exceeds W by less than W.
LEMMA Sum ==
  ASSUME NEW W \in Nat \ {0}, NEW x \in 0 .. W - 1, NEW d \in 0 .. W
  PROVE  (x + d) % W = IF x + d < W THEN x + d ELSE x + d - W
<1>1. x + d \in Int
  OBVIOUS
<1>2. CASE x + d < W
  <2>1. x + d \in 0 .. W - 1
    BY <1>2
  <2> QED BY <1>1, <1>2, <2>1, NearRemainder
<1>3. CASE ~(x + d < W)
  <2>1. x + d \in W .. 2 * W - 1
    BY <1>3
  <2> QED BY <1>1, <1>3, <2>1, NearRemainder
<1> QED BY <1>2, <1>3

-----------------------------------------------------------------------------
(***************************************************************************)
(* The ring.                                                               *)
(***************************************************************************)

\* How many bytes are in the pipe.
Count == (nwrite - nread) % Wrap

\* The counters are in range and at most PIPESIZE apart.
RingOK ==
  /\ nread \in 0 .. Wrap - 1 /\ nwrite \in 0 .. Wrap - 1
  /\ Count <= PIPESIZE

\* The assumption, for the provers.
LEMMA Sizes ==
  /\ PIPESIZE \in Nat /\ PIPESIZE > 0 /\ PIPESIZE \in Nat \ {0}
  /\ Wrap \in Nat /\ Wrap > PIPESIZE /\ Wrap \in Nat \ {0}
  /\ Wrap >= 2 * PIPESIZE /\ Wrap % PIPESIZE = 0
  BY PipeAssumption

\* The number of bytes, without the remainder.
LEMMA CountIs ==
  ASSUME RingOK
  PROVE  /\ Count \in 0 .. PIPESIZE
         /\ Count = IF nread <= nwrite THEN nwrite - nread
                                       ELSE nwrite - nread + Wrap
<1>1. Count = IF nread <= nwrite THEN nwrite - nread
                                 ELSE nwrite - nread + Wrap
  BY Sizes, Distance DEF RingOK, Count
<1> QED BY <1>1, Sizes DEF RingOK

\* pipe_full and pipe_empty mean what they say.
LEMMA FullEmpty ==
  ASSUME RingOK
  PROVE  /\ pipe_full <=> Count = PIPESIZE
         /\ pipe_empty <=> Count = 0
<1>1. PIPESIZE \in 0 .. Wrap
  BY Sizes
<1>2. (nread + PIPESIZE) % Wrap = IF nread + PIPESIZE < Wrap
                                  THEN nread + PIPESIZE
                                  ELSE nread + PIPESIZE - Wrap
  BY <1>1, Sizes, Sum DEF RingOK
<1> QED BY <1>2, CountIs, Sizes DEF RingOK, pipe_full, pipe_empty

\* nwrite++ and nread++, modulo Wrap.
LEMMA Advance ==
  ASSUME NEW x \in 0 .. Wrap - 1
  PROVE  (x + 1) % Wrap = IF x = Wrap - 1 THEN 0 ELSE x + 1
<1>1. 1 \in 0 .. Wrap
  BY Sizes
<1>2. (x + 1) % Wrap = IF x + 1 < Wrap THEN x + 1 ELSE x + 1 - Wrap
  BY <1>1, Sizes, Sum
<1> QED BY <1>2, Sizes

\* A write makes the pipe one byte longer.
LEMMA CountWrite ==
  ASSUME RingOK, ~pipe_full, nread' = nread, nwrite' = (nwrite + 1) % Wrap
  PROVE  RingOK' /\ Count' = Count + 1 /\ Count < PIPESIZE
<1>1. Count \in 0 .. PIPESIZE - 1
  BY CountIs, FullEmpty, Sizes
<1>2. nwrite' = IF nwrite = Wrap - 1 THEN 0 ELSE nwrite + 1
  BY Advance DEF RingOK
<1>3. nwrite' \in 0 .. Wrap - 1 /\ nread' \in 0 .. Wrap - 1
  BY <1>2, Sizes DEF RingOK
<1>4. Count' = IF nread' <= nwrite' THEN nwrite' - nread'
                                    ELSE nwrite' - nread' + Wrap
  BY <1>3, Sizes, Distance DEF Count
<1>5. Count' = Count + 1
  BY <1>1, <1>2, <1>4, CountIs, Sizes DEF RingOK
<1> QED BY <1>1, <1>3, <1>5, Sizes DEF RingOK

\* A read makes the pipe one byte shorter.
LEMMA CountRead ==
  ASSUME RingOK, ~pipe_empty, nwrite' = nwrite, nread' = (nread + 1) % Wrap
  PROVE  RingOK' /\ Count' = Count - 1 /\ Count > 0
<1>1. Count \in 1 .. PIPESIZE
  BY CountIs, FullEmpty, Sizes
<1>2. nread' = IF nread = Wrap - 1 THEN 0 ELSE nread + 1
  BY Advance DEF RingOK
<1>3. nwrite' \in 0 .. Wrap - 1 /\ nread' \in 0 .. Wrap - 1
  BY <1>2, Sizes DEF RingOK
<1>4. Count' = IF nread' <= nwrite' THEN nwrite' - nread'
                                    ELSE nwrite' - nread' + Wrap
  BY <1>3, Sizes, Distance DEF Count
<1>5. Count' = Count - 1
  BY <1>1, <1>2, <1>4, CountIs, Sizes DEF RingOK
<1> QED BY <1>1, <1>3, <1>5, Sizes DEF RingOK

-----------------------------------------------------------------------------
(***************************************************************************)
(* The inductive invariant.                                                *)
(***************************************************************************)

\* A call starts with nothing moved and moves at most what it was asked to.
CallInv ==
  \A p \in Proc : i[p] <= n[p] /\ (pc[p] = "user" => i[p] = 0)

\* p->lock is held by the process that is in one of the loops, and only a
\* reader is in the second loop of piperead.
LockInv ==
  \A p \in Proc :
    /\ (pc[p] \in {"loop", "copy", "presleep"}) <=> (holder = p)
    /\ pc[p] = "copy" => p \in Reader

\* Only a process that has its end open is in a call, and an end that somebody
\* has is open.
EndInv ==
  /\ \A p \in Proc : p \notin fds => pc[p] = "user"
  /\ \A p \in Writer : p \in fds => writeopen
  /\ \A p \in Reader : p \in fds => readopen

\* Past the first loop of piperead, nothing read and nothing to read means that
\* nobody can write any more.
EofInv ==
  \A p \in Reader : pc[p] = "copy" /\ i[p] = 0 /\ pipe_empty => ~writeopen

\* A writer sleeps over a full pipe, or a reader has made room and is going to
\* wake it.
WriterInv ==
  \A p \in Writer :
    /\ pc[p] = "presleep" => pipe_full /\ readopen
    /\ pc[p] = "asleep" =>
         readopen /\ (pipe_full \/ \E r \in Reader : pc[r] = "copy")

\* A reader sleeps over an empty pipe, or a writer has stored something and is
\* going to wake it, or has stored something and failed.
ReaderInv ==
  \A p \in Reader :
    /\ pc[p] = "presleep" => pipe_empty /\ writeopen
    /\ pc[p] = "asleep" =>
         /\ writeopen
         /\ \/ pipe_empty
            \/ hushed
            \/ \E w \in Writer : pc[w] = "loop" /\ i[w] > 0

IInv ==
  TypeOK /\ CallInv /\ LockInv /\ EndInv /\ EofInv /\ WriterInv /\ ReaderInv

-----------------------------------------------------------------------------
\* What the invariant says of the counters.
LEMMA RingFromType ==
  ASSUME TypeOK PROVE RingOK
  BY DEF TypeOK, RingOK, Count

\* A step that leaves the ring alone.
LEMMA SameRing ==
  ASSUME UNCHANGED ring
  PROVE  pipe_full' = pipe_full /\ pipe_empty' = pipe_empty
         /\ (read_must_wait' <=> (pipe_empty /\ writeopen'))
  BY DEF ring, pipe_full, pipe_empty, read_must_wait

\* The initial states satisfy the invariant.
LEMMA InitIInv ==
  ASSUME Init PROVE IInv
<1>0. (nwrite - nread) % Wrap = 0
  <2>1. 0 \in 0 .. Wrap - 1 /\ nwrite - nread = 0
    BY Sizes DEF Init
  <2> QED BY <2>1, Sizes, NearRemainder
<1>1. TypeOK
  <2>1. data \in [0 .. PIPESIZE - 1 -> Byte] /\ last \in Byte
    BY DEF Init
  <2>2. /\ nread \in 0 .. Wrap - 1 /\ nwrite \in 0 .. Wrap - 1
        /\ (nwrite - nread) % Wrap <= PIPESIZE
    BY <1>0, Sizes DEF Init
  <2>3. /\ n \in [Proc -> 0 .. MaxLen] /\ i \in [Proc -> 0 .. MaxLen]
        /\ calls \in [Proc -> 0 .. MaxCalls]
    BY PipeAssumption DEF Init
  <2> QED BY <2>1, <2>2, <2>3 DEF Init, TypeOK, Points
<1> QED BY <1>1, PipeAssumption
     DEF Init, IInv, CallInv, LockInv, EndInv, EofInv, WriterInv, ReaderInv,
         Proc

USE DEF ends, Points

\* Call preserves the invariant.
LEMMA CallIInv ==
  ASSUME IInv, NEW p \in Proc, Call(p)
  PROVE  IInv'
<1>0. UNCHANGED ring /\ pipe_full' = pipe_full /\ pipe_empty' = pipe_empty
  BY SameRing DEF Call
<1>1. TypeOK'
  BY <1>0, PipeAssumption DEF IInv, TypeOK, CallInv, ring, Proc, Call
<1>2. CallInv'
  BY PipeAssumption DEF IInv, TypeOK, CallInv, Proc, Call
<1>3. LockInv'
  BY PipeAssumption DEF IInv, TypeOK, LockInv, Proc, Call
<1>4. EndInv'
  BY PipeAssumption DEF IInv, TypeOK, EndInv, Proc, Call
<1>5. EofInv'
  BY <1>0, PipeAssumption DEF IInv, TypeOK, EofInv, LockInv, Proc, Call
<1>6. WriterInv'
  BY <1>0, PipeAssumption
     DEF IInv, TypeOK, WriterInv, LockInv, EndInv, Proc, Call
<1>7. ReaderInv'
  BY <1>0, PipeAssumption
     DEF IInv, TypeOK, ReaderInv, LockInv, EndInv, Proc, Call
<1> QED BY <1>1, <1>2, <1>3, <1>4, <1>5, <1>6, <1>7 DEF IInv

\* Acquire preserves the invariant.
LEMMA AcquireIInv ==
  ASSUME IInv, NEW p \in Proc, Acquire(p)
  PROVE  IInv'
<1>0. UNCHANGED ring /\ pipe_full' = pipe_full /\ pipe_empty' = pipe_empty
  BY SameRing DEF Acquire
<1>1. TypeOK'
  BY <1>0, PipeAssumption DEF IInv, TypeOK, CallInv, ring, Proc, Acquire
<1>2. CallInv'
  BY PipeAssumption DEF IInv, TypeOK, CallInv, Proc, Acquire
<1>3. LockInv'
  BY PipeAssumption DEF IInv, TypeOK, LockInv, Proc, Acquire
<1>4. EndInv'
  BY PipeAssumption DEF IInv, TypeOK, EndInv, Proc, Acquire
<1>5. EofInv'
  BY <1>0, PipeAssumption DEF IInv, TypeOK, EofInv, LockInv, Proc, Acquire
<1>6. WriterInv'
  BY <1>0, PipeAssumption
     DEF IInv, TypeOK, WriterInv, LockInv, EndInv, Proc, Acquire
<1>7. ReaderInv'
  BY <1>0, PipeAssumption
     DEF IInv, TypeOK, ReaderInv, LockInv, EndInv, Proc, Acquire
<1> QED BY <1>1, <1>2, <1>3, <1>4, <1>5, <1>6, <1>7 DEF IInv

\* WriteFails preserves the invariant.
LEMMA WriteFailsIInv ==
  ASSUME IInv, NEW p \in Proc, WriteFails(p)
  PROVE  IInv'
<1>0. UNCHANGED ring /\ pipe_full' = pipe_full /\ pipe_empty' = pipe_empty
  BY SameRing DEF WriteFails
<1>1. TypeOK'
  BY <1>0, PipeAssumption DEF IInv, TypeOK, CallInv, ring, Proc, WriteFails, Return
<1>2. CallInv'
  BY PipeAssumption DEF IInv, TypeOK, CallInv, Proc, WriteFails, Return
<1>3. LockInv'
  BY PipeAssumption DEF IInv, TypeOK, LockInv, Proc, WriteFails, Return
<1>4. EndInv'
  BY PipeAssumption DEF IInv, TypeOK, EndInv, Proc, WriteFails, Return
<1>5. EofInv'
  BY <1>0, PipeAssumption DEF IInv, TypeOK, EofInv, LockInv, Proc, WriteFails, Return
<1>6. WriterInv'
  BY <1>0, PipeAssumption
     DEF IInv, TypeOK, WriterInv, LockInv, EndInv, Proc, WriteFails, Return
<1>7. ReaderInv'
  BY <1>0, PipeAssumption
     DEF IInv, TypeOK, ReaderInv, LockInv, EndInv, Proc, WriteFails, Return
<1> QED BY <1>1, <1>2, <1>3, <1>4, <1>5, <1>6, <1>7 DEF IInv

\* WriteWaits preserves the invariant.
LEMMA WriteWaitsIInv ==
  ASSUME IInv, NEW p \in Proc, WriteWaits(p)
  PROVE  IInv'
<1>0. UNCHANGED ring /\ pipe_full' = pipe_full /\ pipe_empty' = pipe_empty
  BY SameRing DEF WriteWaits
<1>1. TypeOK'
  BY <1>0, PipeAssumption DEF IInv, TypeOK, CallInv, ring, Proc, WriteWaits, Woken
<1>2. CallInv'
  BY PipeAssumption DEF IInv, TypeOK, CallInv, Proc, WriteWaits, Woken
<1>3. LockInv'
  BY PipeAssumption DEF IInv, TypeOK, LockInv, Proc, WriteWaits, Woken
<1>4. EndInv'
  BY PipeAssumption DEF IInv, TypeOK, EndInv, Proc, WriteWaits, Woken
<1>5. EofInv'
  BY <1>0, PipeAssumption DEF IInv, TypeOK, EofInv, LockInv, Proc, WriteWaits, Woken
<1>6. WriterInv'
  BY <1>0, PipeAssumption
     DEF IInv, TypeOK, WriterInv, LockInv, EndInv, Proc, WriteWaits, Woken
<1>7. ReaderInv'
  BY <1>0, PipeAssumption
     DEF IInv, TypeOK, ReaderInv, LockInv, EndInv, Proc, WriteWaits, Woken
<1> QED BY <1>1, <1>2, <1>3, <1>4, <1>5, <1>6, <1>7 DEF IInv

\* WriteReturns preserves the invariant.
LEMMA WriteReturnsIInv ==
  ASSUME IInv, NEW p \in Proc, WriteReturns(p)
  PROVE  IInv'
<1>0. UNCHANGED ring /\ pipe_full' = pipe_full /\ pipe_empty' = pipe_empty
  BY SameRing DEF WriteReturns
<1>1. TypeOK'
  <2>1. pc' \in [Proc -> Points]
    BY DEF IInv, TypeOK, Points, WriteReturns, write_wakes, Woken
  <2>2. n' \in [Proc -> 0 .. MaxLen] /\ i' \in [Proc -> 0 .. MaxLen]
    BY PipeAssumption DEF IInv, TypeOK, WriteReturns, Return
  <2>3. hushed' \in BOOLEAN /\ holder' \in Proc \cup {Nobody}
    BY DEF WriteReturns, Return
  <2> QED BY <1>0, <2>1, <2>2, <2>3
          DEF IInv, TypeOK, ring, ends, WriteReturns, Return
<1>2. CallInv'
  BY PipeAssumption DEF IInv, TypeOK, CallInv, Proc, WriteReturns, Return, write_wakes, Woken
<1>3. LockInv'
  BY PipeAssumption DEF IInv, TypeOK, LockInv, Proc, WriteReturns, Return, write_wakes, Woken
<1>4. EndInv'
  BY PipeAssumption DEF IInv, TypeOK, EndInv, Proc, WriteReturns, Return, write_wakes, Woken
<1>5. EofInv'
  BY <1>0, PipeAssumption DEF IInv, TypeOK, EofInv, LockInv, Proc, WriteReturns, Return, write_wakes, Woken
<1>6. WriterInv'
  BY <1>0, PipeAssumption
     DEF IInv, TypeOK, WriterInv, LockInv, EndInv, Proc, WriteReturns, Return, write_wakes, Woken
<1>7. ReaderInv'
  BY <1>0, PipeAssumption
     DEF IInv, TypeOK, ReaderInv, LockInv, EndInv, Proc, WriteReturns, Return, write_wakes, Woken
<1> QED BY <1>1, <1>2, <1>3, <1>4, <1>5, <1>6, <1>7 DEF IInv

\* GoToSleep preserves the invariant.
LEMMA GoToSleepIInv ==
  ASSUME IInv, NEW p \in Proc, GoToSleep(p)
  PROVE  IInv'
<1>0. UNCHANGED ring /\ pipe_full' = pipe_full /\ pipe_empty' = pipe_empty
  BY SameRing DEF GoToSleep
<1>1. TypeOK'
  BY <1>0, PipeAssumption DEF IInv, TypeOK, CallInv, ring, Proc, GoToSleep
<1>2. CallInv'
  BY PipeAssumption DEF IInv, TypeOK, CallInv, Proc, GoToSleep
<1>3. LockInv'
  BY PipeAssumption DEF IInv, TypeOK, LockInv, Proc, GoToSleep
<1>4. EndInv'
  BY PipeAssumption DEF IInv, TypeOK, EndInv, Proc, GoToSleep
<1>5. EofInv'
  BY <1>0, PipeAssumption DEF IInv, TypeOK, EofInv, LockInv, Proc, GoToSleep
<1>6. WriterInv'
  BY <1>0, PipeAssumption
     DEF IInv, TypeOK, WriterInv, LockInv, EndInv, Proc, GoToSleep
<1>7. ReaderInv'
  BY <1>0, PipeAssumption
     DEF IInv, TypeOK, ReaderInv, LockInv, EndInv, Proc, GoToSleep
<1> QED BY <1>1, <1>2, <1>3, <1>4, <1>5, <1>6, <1>7 DEF IInv

\* ReadFails preserves the invariant.
LEMMA ReadFailsIInv ==
  ASSUME IInv, NEW p \in Proc, ReadFails(p)
  PROVE  IInv'
<1>0. UNCHANGED ring /\ pipe_full' = pipe_full /\ pipe_empty' = pipe_empty
  BY SameRing DEF ReadFails
<1>1. TypeOK'
  BY <1>0, PipeAssumption DEF IInv, TypeOK, CallInv, ring, Proc, ReadFails, Return, read_must_wait
<1>2. CallInv'
  BY PipeAssumption DEF IInv, TypeOK, CallInv, Proc, ReadFails, Return, read_must_wait
<1>3. LockInv'
  BY PipeAssumption DEF IInv, TypeOK, LockInv, Proc, ReadFails, Return, read_must_wait
<1>4. EndInv'
  BY PipeAssumption DEF IInv, TypeOK, EndInv, Proc, ReadFails, Return, read_must_wait
<1>5. EofInv'
  BY <1>0, PipeAssumption DEF IInv, TypeOK, EofInv, LockInv, Proc, ReadFails, Return, read_must_wait
<1>6. WriterInv'
  BY <1>0, PipeAssumption
     DEF IInv, TypeOK, WriterInv, LockInv, EndInv, Proc, ReadFails, Return, read_must_wait
<1>7. ReaderInv'
  BY <1>0, PipeAssumption
     DEF IInv, TypeOK, ReaderInv, LockInv, EndInv, Proc, ReadFails, Return, read_must_wait
<1> QED BY <1>1, <1>2, <1>3, <1>4, <1>5, <1>6, <1>7 DEF IInv

\* ReadWaits preserves the invariant.
LEMMA ReadWaitsIInv ==
  ASSUME IInv, NEW p \in Proc, ReadWaits(p)
  PROVE  IInv'
<1>0. UNCHANGED ring /\ pipe_full' = pipe_full /\ pipe_empty' = pipe_empty
  BY SameRing DEF ReadWaits
<1>1. TypeOK'
  BY <1>0, PipeAssumption DEF IInv, TypeOK, CallInv, ring, Proc, ReadWaits, read_must_wait
<1>2. CallInv'
  BY PipeAssumption DEF IInv, TypeOK, CallInv, Proc, ReadWaits, read_must_wait
<1>3. LockInv'
  BY PipeAssumption DEF IInv, TypeOK, LockInv, Proc, ReadWaits, read_must_wait
<1>4. EndInv'
  BY PipeAssumption DEF IInv, TypeOK, EndInv, Proc, ReadWaits, read_must_wait
<1>5. EofInv'
  BY <1>0, PipeAssumption DEF IInv, TypeOK, EofInv, LockInv, Proc, ReadWaits, read_must_wait
<1>6. WriterInv'
  BY <1>0, PipeAssumption
     DEF IInv, TypeOK, WriterInv, LockInv, EndInv, Proc, ReadWaits, read_must_wait
<1>7. ReaderInv'
  BY <1>0, PipeAssumption
     DEF IInv, TypeOK, ReaderInv, LockInv, EndInv, Proc, ReadWaits, read_must_wait
<1> QED BY <1>1, <1>2, <1>3, <1>4, <1>5, <1>6, <1>7 DEF IInv

\* ReadStarts preserves the invariant.
LEMMA ReadStartsIInv ==
  ASSUME IInv, NEW p \in Proc, ReadStarts(p)
  PROVE  IInv'
<1>0. UNCHANGED ring /\ pipe_full' = pipe_full /\ pipe_empty' = pipe_empty
  BY SameRing DEF ReadStarts
<1>1. TypeOK'
  BY <1>0, PipeAssumption DEF IInv, TypeOK, CallInv, ring, Proc, ReadStarts, read_must_wait
<1>2. CallInv'
  BY PipeAssumption DEF IInv, TypeOK, CallInv, Proc, ReadStarts, read_must_wait
<1>3. LockInv'
  BY PipeAssumption DEF IInv, TypeOK, LockInv, Proc, ReadStarts, read_must_wait
<1>4. EndInv'
  BY PipeAssumption DEF IInv, TypeOK, EndInv, Proc, ReadStarts, read_must_wait
<1>5. EofInv'
  BY <1>0, PipeAssumption DEF IInv, TypeOK, EofInv, LockInv, Proc, ReadStarts, read_must_wait
<1>6. WriterInv'
  BY <1>0, PipeAssumption
     DEF IInv, TypeOK, WriterInv, LockInv, EndInv, Proc, ReadStarts, read_must_wait
<1>7. ReaderInv'
  BY <1>0, PipeAssumption
     DEF IInv, TypeOK, ReaderInv, LockInv, EndInv, Proc, ReadStarts, read_must_wait
<1> QED BY <1>1, <1>2, <1>3, <1>4, <1>5, <1>6, <1>7 DEF IInv

\* ReadReturns preserves the invariant.
LEMMA ReadReturnsIInv ==
  ASSUME IInv, NEW p \in Proc, ReadReturns(p)
  PROVE  IInv'
<1>0. UNCHANGED ring /\ pipe_full' = pipe_full /\ pipe_empty' = pipe_empty
  BY SameRing DEF ReadReturns
<1>1. TypeOK'
  BY <1>0, PipeAssumption DEF IInv, TypeOK, CallInv, ring, Proc, ReadReturns, Return, read_wakes, Woken
<1>2. CallInv'
  BY PipeAssumption DEF IInv, TypeOK, CallInv, Proc, ReadReturns, Return, read_wakes, Woken
<1>3. LockInv'
  BY PipeAssumption DEF IInv, TypeOK, LockInv, Proc, ReadReturns, Return, read_wakes, Woken
<1>4. EndInv'
  BY PipeAssumption DEF IInv, TypeOK, EndInv, Proc, ReadReturns, Return, read_wakes, Woken
<1>5. EofInv'
  BY <1>0, PipeAssumption DEF IInv, TypeOK, EofInv, LockInv, Proc, ReadReturns, Return, read_wakes, Woken
<1>6. WriterInv'
  BY <1>0, PipeAssumption
     DEF IInv, TypeOK, WriterInv, LockInv, EndInv, Proc, ReadReturns, Return, read_wakes, Woken
<1>7. ReaderInv'
  BY <1>0, PipeAssumption
     DEF IInv, TypeOK, ReaderInv, LockInv, EndInv, Proc, ReadReturns, Return, read_wakes, Woken
<1> QED BY <1>1, <1>2, <1>3, <1>4, <1>5, <1>6, <1>7 DEF IInv

\* Close preserves the invariant.
LEMMA CloseIInv ==
  ASSUME IInv, NEW p \in Proc, Close(p)
  PROVE  IInv'
<1>0. UNCHANGED ring /\ pipe_full' = pipe_full /\ pipe_empty' = pipe_empty
  BY SameRing DEF Close
<1>1. TypeOK'
  BY <1>0, PipeAssumption DEF IInv, TypeOK, CallInv, ring, Proc, Close, Woken, close_wakes
<1>2. CallInv'
  BY PipeAssumption DEF IInv, TypeOK, CallInv, Proc, Close, Woken, close_wakes
<1>3. LockInv'
  BY PipeAssumption DEF IInv, TypeOK, LockInv, Proc, Close, Woken, close_wakes
<1>4. EndInv'
  BY PipeAssumption DEF IInv, TypeOK, EndInv, Proc, Close, Woken, close_wakes
<1>5. EofInv'
  BY <1>0, PipeAssumption DEF IInv, TypeOK, EofInv, LockInv, Proc, Close, Woken, close_wakes
<1>6. WriterInv'
  BY <1>0, PipeAssumption
     DEF IInv, TypeOK, WriterInv, LockInv, EndInv, Proc, Close, Woken, close_wakes
<1>7. ReaderInv'
  BY <1>0, PipeAssumption
     DEF IInv, TypeOK, ReaderInv, LockInv, EndInv, Proc, Close, Woken, close_wakes
<1> QED BY <1>1, <1>2, <1>3, <1>4, <1>5, <1>6, <1>7 DEF IInv

\* Kill preserves the invariant.
LEMMA KillIInv ==
  ASSUME IInv, NEW p \in Proc, Kill(p)
  PROVE  IInv'
<1>0. UNCHANGED ring /\ pipe_full' = pipe_full /\ pipe_empty' = pipe_empty
  BY SameRing DEF Kill
<1>1. TypeOK'
  BY <1>0, PipeAssumption DEF IInv, TypeOK, CallInv, ring, Proc, Kill, Woken
<1>2. CallInv'
  BY PipeAssumption DEF IInv, TypeOK, CallInv, Proc, Kill, Woken
<1>3. LockInv'
  BY PipeAssumption DEF IInv, TypeOK, LockInv, Proc, Kill, Woken
<1>4. EndInv'
  BY PipeAssumption DEF IInv, TypeOK, EndInv, Proc, Kill, Woken
<1>5. EofInv'
  BY <1>0, PipeAssumption DEF IInv, TypeOK, EofInv, LockInv, Proc, Kill, Woken
<1>6. WriterInv'
  BY <1>0, PipeAssumption
     DEF IInv, TypeOK, WriterInv, LockInv, EndInv, Proc, Kill, Woken
<1>7. ReaderInv'
  BY <1>0, PipeAssumption
     DEF IInv, TypeOK, ReaderInv, LockInv, EndInv, Proc, Kill, Woken
<1> QED BY <1>1, <1>2, <1>3, <1>4, <1>5, <1>6, <1>7 DEF IInv

\* WriteByte preserves the invariant.  Only the holder of p->lock stores a byte,
\* so no reader is copying and no writer can have been asleep.
LEMMA WriteByteIInv ==
  ASSUME IInv, NEW p \in Proc, WriteByte(p)
  PROVE  IInv'
<1>0. RingOK /\ RingOK'
  BY RingFromType, CountWrite DEF IInv, WriteByte
<1>1. TypeOK'
  <2>1. (nwrite' - nread') % Wrap <= PIPESIZE
    BY <1>0 DEF RingOK, Count
  <2>2. nread' \in 0 .. Wrap - 1 /\ nwrite' \in 0 .. Wrap - 1
    BY <1>0 DEF RingOK
  <2>3. data' \in [0 .. PIPESIZE - 1 -> Byte]
    BY DEF IInv, TypeOK, WriteByte
  <2>4. i' \in [Proc -> 0 .. MaxLen]
    BY PipeAssumption DEF IInv, TypeOK, WriteByte
  <2> QED BY <2>1, <2>2, <2>3, <2>4 DEF IInv, TypeOK, WriteByte
<1>2. CallInv'
  BY PipeAssumption DEF IInv, TypeOK, CallInv, WriteByte
<1>3. LockInv'
  BY DEF IInv, LockInv, WriteByte
<1>4. EndInv'
  BY DEF IInv, EndInv, WriteByte
<1>5. holder = p /\ p \in Writer /\ p \notin Reader /\ pc[p] = "loop"
  BY PipeAssumption DEF IInv, LockInv, WriteByte
<1>6. \A q \in Proc : pc[q] \notin {"copy", "presleep"}
  BY <1>5, PipeAssumption DEF IInv, LockInv
<1>7. EofInv'
  BY <1>6 DEF EofInv, WriteByte, Proc
<1>8. WriterInv'
  <2>1. \A q \in Writer : pc[q] # "asleep"
    BY <1>6 DEF IInv, WriterInv, WriteByte, Proc
  <2> QED BY <1>6, <2>1 DEF WriterInv, WriteByte, Proc
<1>9. ReaderInv'
  <2>1. p \in Writer /\ pc'[p] = "loop" /\ i'[p] > 0
    BY <1>5, PipeAssumption DEF IInv, TypeOK, WriteByte
  <2>2. \A q \in Reader : pc'[q] = pc[q] /\ pc[q] # "presleep"
    BY <1>6 DEF WriteByte, Proc
  <2>3. UNCHANGED writeopen
    BY DEF WriteByte, ends
  <2> QED BY <2>1, <2>2, <2>3 DEF IInv, ReaderInv
<1> QED BY <1>1, <1>2, <1>3, <1>4, <1>7, <1>8, <1>9 DEF IInv

\* ReadByte preserves the invariant.  Only the holder of p->lock takes a byte,
\* so no writer is in its loop: a reader that sleeps over the bytes does so
\* because of a write that failed.
LEMMA ReadByteIInv ==
  ASSUME IInv, NEW p \in Proc, ReadByte(p)
  PROVE  IInv'
<1>0. RingOK /\ RingOK'
  BY RingFromType, CountRead DEF IInv, ReadByte
<1>1. TypeOK'
  <2>1. (nwrite' - nread') % Wrap <= PIPESIZE
    BY <1>0 DEF RingOK, Count
  <2>2. nread' \in 0 .. Wrap - 1 /\ nwrite' \in 0 .. Wrap - 1
    BY <1>0 DEF RingOK
  <2>3. last' \in Byte
    <3>1. nread % PIPESIZE \in 0 .. PIPESIZE - 1
      BY Sizes DEF IInv, TypeOK
    <3> QED BY <3>1 DEF IInv, TypeOK, ReadByte
  <2>4. i' \in [Proc -> 0 .. MaxLen]
    BY PipeAssumption DEF IInv, TypeOK, ReadByte
  <2> QED BY <2>1, <2>2, <2>3, <2>4 DEF IInv, TypeOK, ReadByte
<1>2. CallInv'
  BY PipeAssumption DEF IInv, TypeOK, CallInv, ReadByte
<1>3. LockInv'
  BY DEF IInv, LockInv, ReadByte
<1>4. EndInv'
  BY DEF IInv, EndInv, ReadByte
<1>5. holder = p /\ p \in Reader /\ pc[p] = "copy"
  BY DEF IInv, LockInv, ReadByte
<1>6. \A q \in Proc : pc[q] \notin {"loop", "presleep"} /\ (pc[q] = "copy" => q = p)
  BY <1>5, PipeAssumption DEF IInv, LockInv
<1>7. EofInv'
  <2>1. i'[p] > 0
    BY DEF IInv, TypeOK, ReadByte
  <2> QED BY <1>6, <2>1 DEF EofInv, ReadByte, Proc
<1>8. WriterInv'
  BY <1>5, <1>6 DEF IInv, WriterInv, ReadByte, Proc
<1>9. ReaderInv'
  BY <1>5, <1>6 DEF IInv, ReaderInv, ReadByte, Proc
<1> QED BY <1>1, <1>2, <1>3, <1>4, <1>7, <1>8, <1>9 DEF IInv

\* Every step preserves the invariant.
LEMMA NextIInv ==
  ASSUME IInv, [Next]_vars
  PROVE  IInv'
<1>1. ASSUME NEW p \in Proc, Step(p)
      PROVE  IInv'
  BY <1>1, AcquireIInv, GoToSleepIInv, WriteByteIInv, WriteFailsIInv,
     WriteWaitsIInv, WriteReturnsIInv, ReadFailsIInv, ReadWaitsIInv,
     ReadStartsIInv, ReadByteIInv, ReadReturnsIInv
     DEF Step
<1>2. CASE UNCHANGED vars
  BY <1>2 DEF vars, ring, IInv, TypeOK, CallInv, LockInv, EndInv, EofInv,
              WriterInv, ReaderInv, pipe_full, pipe_empty
<1>3. CASE Next
  BY <1>1, <1>2, <1>3, CallIInv, CloseIInv, KillIInv DEF Next, Over
<1> QED BY <1>2, <1>3

\* The invariant holds in every reachable state.
THEOREM Invariant == Spec => []IInv
  BY InitIInv, NextIInv, PTL DEF Spec

\* The counters, the flags and the local variables of the calls stay in their
\* types: in particular pipewrite never gets more than PIPESIZE ahead, wherever
\* the counters have wrapped.
THEOREM TypeCorrect == Spec => []TypeOK
<1>1. IInv => TypeOK
  BY DEF IInv
<1> QED BY <1>1, Invariant, PTL

\* pipewrite's sleep is never left without a wakeup: when p->lock is free, a
\* sleeping writer waits for room that there really is not, and somebody can
\* still make it.
THEOREM WritersAreWoken == Spec => []WriterSleepsOnFull
<1>1. IInv => WriterSleepsOnFull
  BY PipeAssumption
     DEF IInv, LockInv, WriterInv, WriterSleepsOnFull, Proc
<1> QED BY <1>1, Invariant, PTL

\* piperead's sleep: when p->lock is free, a sleeping reader waits for bytes
\* that there really are not, and somebody can still write them, whoever is
\* killed and when, unless a killed writer failed in the middle of its call and
\* nobody has written or closed the write end since.
THEOREM ReadersAreWoken == Spec => []ReaderSleepsOnEmpty
<1>1. IInv => ReaderSleepsOnEmpty
  BY PipeAssumption
     DEF IInv, LockInv, ReaderInv, ReaderSleepsOnEmpty, Proc
<1> QED BY <1>1, Invariant, PTL

-----------------------------------------------------------------------------
(***************************************************************************)
(* Pipe implements ByteChannel.                                            *)
(***************************************************************************)

\* The bytes at c places of d, from r on.
BytesAt(d, r, c) == [k \in 1 .. c |-> d[(r + k - 1) % PIPESIZE]]

\* They are a sequence.
LEMMA BytesFrom ==
  ASSUME NEW d \in [0 .. PIPESIZE - 1 -> Byte], NEW r \in Nat, NEW c \in Nat
  PROVE  /\ BytesAt(d, r, c) \in Seq(Byte) /\ Len(BytesAt(d, r, c)) = c
         /\ \A k \in 1 .. c :
              BytesAt(d, r, c)[k] = d[(r + k - 1) % PIPESIZE]
<1>1. ASSUME NEW k \in 1 .. c
      PROVE  d[(r + k - 1) % PIPESIZE] \in Byte
  <2>1. (r + k - 1) % PIPESIZE \in 0 .. PIPESIZE - 1
    BY r + k - 1 \in Int, Sizes
  <2> QED BY <2>1
<1> QED BY <1>1 DEF BytesAt

\* Contents is a sequence of Count bytes.
LEMMA ContentsType ==
  ASSUME IInv
  PROVE  /\ Count \in 0 .. PIPESIZE /\ Count \in Nat
         /\ Contents \in Seq(Byte) /\ Len(Contents) = Count
         /\ \A k \in 1 .. Count :
              Contents[k] = data[(nread + k - 1) % PIPESIZE]
<1>1. Count \in 0 .. PIPESIZE /\ Count \in Nat
  BY CountIs, RingFromType, Sizes DEF IInv
<1>2. Contents = BytesAt(data, nread, Count)
  BY DEF Contents, Count, BytesAt
<1>3. data \in [0 .. PIPESIZE - 1 -> Byte] /\ nread \in Nat
  BY DEF IInv, TypeOK
<1> QED BY <1>1, <1>2, <1>3, BytesFrom

\* The place of the next byte to write.
LEMMA NextPlace ==
  ASSUME RingOK
  PROVE  nwrite % PIPESIZE = (nread + Count) % PIPESIZE
<1>1. nread + Count = nwrite \/ nread + Count = nwrite + Wrap
  BY CountIs, Sizes DEF RingOK
<1>2. (nwrite + Wrap) % PIPESIZE = nwrite % PIPESIZE
  <2>1. nwrite \in Int
    BY DEF RingOK
  <2> QED BY <2>1, Sizes, RemainderOfShift
<1> QED BY <1>1, <1>2

\* Storing a byte is Put: the places of the bytes in the pipe are all different
\* from the place that is written.
LEMMA WriteBytePuts ==
  ASSUME IInv, NEW p \in Proc, WriteByte(p)
  PROVE  Channel!Put
<1>1. IInv' /\ RingOK
  BY WriteByteIInv, RingFromType DEF IInv
<1>2. Count' = Count + 1 /\ Count < PIPESIZE
  BY <1>1, CountWrite DEF WriteByte
<1>3. PICK b \in Byte : data' = [data EXCEPT ![nwrite % PIPESIZE] = b]
  BY DEF WriteByte
<1>4. Count \in Nat /\ Len(Contents) = Count
  BY ContentsType, Sizes
<1>5. nwrite % PIPESIZE \in 0 .. PIPESIZE - 1
  BY Sizes DEF IInv, TypeOK
<1> DEFINE new == Contents'
           put == Append(Contents, b)
<1>6. /\ new \in Seq(Byte) /\ Len(new) = Count + 1
      /\ \A k \in 1 .. Count + 1 : new[k] = data'[(nread + k - 1) % PIPESIZE]
  <2>1. new = BytesAt(data', nread, Count + 1)
    BY <1>2 DEF Contents, Count, WriteByte, BytesAt
  <2>2. data' \in [0 .. PIPESIZE - 1 -> Byte] /\ nread \in Nat
    BY <1>1 DEF IInv, TypeOK
  <2> HIDE DEF new
  <2>3. Count + 1 \in Nat
    BY <1>4
  <2> QED BY <2>1, <2>2, <2>3, BytesFrom
<1>7. put \in Seq(Byte) /\ Len(put) = Count + 1
      /\ put[Count + 1] = b /\ \A k \in 1 .. Count : put[k] = Contents[k]
  BY <1>4, ContentsType, AppendProperties
<1> HIDE DEF new, put
<1>8. ASSUME NEW k \in 1 .. Count + 1
      PROVE  new[k] = put[k]
  <2>2. CASE k = Count + 1
    <3>1. nread + k - 1 = nread + Count
      BY <1>4, <2>2 DEF IInv, TypeOK
    <3>2. new[k] = b
      BY <1>1, <1>3, <1>5, <1>6, <3>1, NextPlace DEF IInv, TypeOK
    <3> QED BY <1>7, <2>2, <3>2
  <2>3. CASE k # Count + 1
    <3> DEFINE x == nread + k - 1
               y == nread + Count
    <3>1. k \in 1 .. Count
      BY <1>4, <2>3
    <3>2. x \in Int /\ y \in Int /\ x < y /\ y < x + PIPESIZE
      BY <1>2, <1>4, <3>1, Sizes DEF IInv, TypeOK
    <3>3. x % PIPESIZE # nwrite % PIPESIZE
      <4> HIDE DEF x, y
      <4>1. x % PIPESIZE # y % PIPESIZE
        BY <3>2, Sizes, RemaindersDiffer
      <4> QED BY <1>1, <4>1, NextPlace DEF y
    <3>4. x % PIPESIZE \in 0 .. PIPESIZE - 1
      BY <3>2, Sizes
    <3>5. new[k] = data[x % PIPESIZE]
      BY <1>3, <1>6, <3>3, <3>4 DEF IInv, TypeOK
    <3>6. Contents[k] = data[x % PIPESIZE]
      BY <3>1, ContentsType
    <3> QED BY <1>7, <3>1, <3>5, <3>6
  <2> QED BY <2>2, <2>3
<1>9. new = put
  BY <1>6, <1>7, <1>8, SeqEqual
<1>10. writeopen
  BY DEF IInv, EndInv, WriteByte
<1> QED BY <1>2, <1>4, <1>9, <1>10 DEF Channel!Put, WriteByte, new, put

\* Taking a byte is Get: the places of the others are counted from the next
\* nread, wherever it wraps.
LEMMA ReadByteGets ==
  ASSUME IInv, NEW p \in Proc, ReadByte(p)
  PROVE  Channel!Get
<1>1. IInv' /\ RingOK
  BY ReadByteIInv, RingFromType DEF IInv
<1>2. Count' = Count - 1 /\ Count > 0
  BY <1>1, CountRead DEF ReadByte
<1>3. Count \in Nat /\ Count - 1 \in Nat /\ Len(Contents) = Count
      /\ nread \in Nat
  BY <1>2, ContentsType DEF IInv, TypeOK
<1> DEFINE new == Contents'
           rest == Tail(Contents)
<1>4. /\ new \in Seq(Byte) /\ Len(new) = Count - 1
      /\ \A k \in 1 .. Count - 1 : new[k] = data[(nread' + k - 1) % PIPESIZE]
  <2>1. new = BytesAt(data, nread', Count - 1)
    BY <1>2 DEF Contents, Count, ReadByte, BytesAt
  <2>2. data \in [0 .. PIPESIZE - 1 -> Byte] /\ nread' \in Nat
    BY <1>1 DEF IInv, TypeOK, ReadByte
  <2> HIDE DEF new
  <2> QED BY <1>3, <2>1, <2>2, BytesFrom
<1>5. /\ Contents # << >>
      /\ rest \in Seq(Byte) /\ Len(rest) = Count - 1
      /\ \A k \in 1 .. Count - 1 : rest[k] = Contents[k + 1]
  BY <1>2, <1>3, ContentsType, HeadTailProperties
<1> HIDE DEF new, rest
<1>6. ASSUME NEW k \in 1 .. Count - 1
      PROVE  new[k] = rest[k]
  <2>1. k \in Int /\ k + 1 \in 1 .. Count
    BY <1>3
  <2>2. rest[k] = data[(nread + k) % PIPESIZE]
    <3>1. nread + (k + 1) - 1 = nread + k
      BY <1>3, <2>1
    <3> QED BY <1>5, <2>1, <3>1, ContentsType
  <2>3. (nread' + k - 1) % PIPESIZE = (nread + k) % PIPESIZE
    <3>1. nread' = IF nread = Wrap - 1 THEN 0 ELSE nread + 1
      BY <1>1, Advance DEF RingOK, ReadByte
    <3>2. CASE nread = Wrap - 1
      <4>1. k - 1 \in Int /\ (k - 1) + Wrap = nread + k
            /\ nread' + k - 1 = k - 1
        BY <2>1, <3>1, <3>2, Sizes
      <4>2. ((k - 1) + Wrap) % PIPESIZE = (k - 1) % PIPESIZE
        BY <4>1, Sizes, RemainderOfShift
      <4> QED BY <4>1, <4>2
    <3>3. CASE nread # Wrap - 1
      <4>1. nread' + k - 1 = nread + k
        BY <1>3, <2>1, <3>1, <3>3
      <4> QED BY <4>1
    <3> QED BY <3>2, <3>3
  <2> QED BY <1>4, <2>2, <2>3
<1>7. new = rest
  BY <1>4, <1>5, <1>6, SeqEqual
<1>8. last' = Head(Contents)
  <2>1. Head(Contents) = data[(nread + 1 - 1) % PIPESIZE]
    BY <1>2, <1>3, <1>5, ContentsType
  <2>2. nread + 1 - 1 = nread
    BY <1>3
  <2> QED BY <2>1, <2>2 DEF ReadByte
<1>9. readopen
  BY DEF IInv, EndInv, LockInv, ReadByte
<1> QED BY <1>5, <1>7, <1>8, <1>9 DEF Channel!Get, ReadByte, new, rest

\* A step that moves no byte and closes nothing is a stutter of the channel.
LEMMA ChannelStutter ==
  ASSUME UNCHANGED <<ring, readopen, writeopen, last, eof>>
  PROVE  UNCHANGED Channel!bvars
  BY DEF ring, Channel!bvars, Contents

\* The return of a read is SeeEnd if it returns 0 for n > 0, else a stutter.
LEMMA ReadReturnsSees ==
  ASSUME IInv, NEW p \in Proc, ReadReturns(p)
  PROVE  [Channel!BNext]_(Channel!bvars)
<1>1. CASE n[p] > 0 /\ i[p] = 0
  <2>1. pipe_empty /\ p \in Reader
    BY <1>1 DEF IInv, LockInv, TypeOK, ReadReturns
  <2>2. ~writeopen /\ readopen
    BY <1>1, <2>1 DEF IInv, EofInv, EndInv, ReadReturns
  <2>3. Contents = << >>
    BY <2>1, ContentsType, FullEmpty, RingFromType DEF IInv
  <2>4. Contents' = Contents
    BY DEF ReadReturns, ring, Contents
  <2>5. Channel!SeeEnd
    BY <1>1, <2>2, <2>3, <2>4 DEF Channel!SeeEnd, ReadReturns
  <2> QED BY <2>5 DEF Channel!BNext
<1>2. CASE ~(n[p] > 0 /\ i[p] = 0)
  <2>1. eof' = eof
    BY <1>2 DEF ReadReturns, IInv, TypeOK
  <2> QED BY <2>1, ChannelStutter DEF ReadReturns
<1> QED BY <1>1, <1>2

\* A close is the close of an end if p is the last to have it, else a stutter.
LEMMA CloseCloses ==
  ASSUME IInv, NEW p \in Proc, Close(p)
  PROVE  [Channel!BNext]_(Channel!bvars)
<1> DEFINE end == IF p \in Writer THEN Writer ELSE Reader
           closes == end \cap fds = {p}
<1>0. Contents' = Contents
  BY DEF Close, ring, Contents
<1>1. CASE ~closes
  <2>1. UNCHANGED <<ring, readopen, writeopen, last, eof>>
    BY <1>1 DEF Close, IInv, TypeOK
  <2> QED BY <2>1, ChannelStutter
<1>2. CASE closes /\ p \in Writer
  <2>1. writeopen /\ writeopen' = FALSE /\ readopen' = readopen
    BY <1>2, PipeAssumption DEF Close, IInv, TypeOK, EndInv
  <2>2. Channel!CloseWriteEnd
    BY <1>0, <2>1 DEF Channel!CloseWriteEnd, Close
  <2> QED BY <2>2 DEF Channel!BNext
<1>3. CASE closes /\ p \notin Writer
  <2>1. readopen /\ readopen' = FALSE /\ writeopen' = writeopen
    BY <1>3, PipeAssumption DEF Close, IInv, TypeOK, EndInv, Proc
  <2>2. Channel!CloseReadEnd
    BY <1>0, <2>1 DEF Channel!CloseReadEnd, Close
  <2> QED BY <2>2 DEF Channel!BNext
<1> QED BY <1>1, <1>2, <1>3

\* Every step of the pipe is a step of the channel or a stutter.
LEMMA ChannelStep ==
  ASSUME IInv, [Next]_vars
  PROVE  [Channel!BNext]_(Channel!bvars)
<1>1. CASE UNCHANGED vars
  BY <1>1, ChannelStutter DEF vars
<1>2. ASSUME NEW p \in Proc, Step(p)
      PROVE  [Channel!BNext]_(Channel!bvars)
  <2>1. CASE WriteByte(p) \/ ReadByte(p)
    BY <2>1, WriteBytePuts, ReadByteGets DEF Channel!BNext
  <2>2. CASE ReadReturns(p)
    BY <2>2, ReadReturnsSees
  <2>3. CASE \/ Acquire(p) \/ GoToSleep(p) \/ WriteFails(p) \/ WriteWaits(p)
             \/ WriteReturns(p) \/ ReadFails(p) \/ ReadWaits(p)
             \/ ReadStarts(p)
    <3>1. UNCHANGED <<ring, readopen, writeopen, last, eof>>
      BY <2>3 DEF Acquire, GoToSleep, WriteFails, WriteWaits, WriteReturns,
                  ReadFails, ReadWaits, ReadStarts
    <3> QED BY <3>1, ChannelStutter
  <2> QED BY <1>2, <2>1, <2>2, <2>3 DEF Step
<1>3. ASSUME NEW p \in Proc, Call(p) \/ Kill(p)
      PROVE  [Channel!BNext]_(Channel!bvars)
  <2>1. UNCHANGED <<ring, readopen, writeopen, last, eof>>
    BY <1>3 DEF Call, Kill
  <2> QED BY <2>1, ChannelStutter
<1> QED BY <1>1, <1>2, <1>3, CloseCloses DEF Next, Over

\* The initial pipe is an empty channel.
LEMMA ChannelInit ==
  ASSUME Init PROVE Channel!BInit
<1>1. Contents = << >>
  <2>1. IInv /\ pipe_empty
    BY InitIInv DEF Init, pipe_empty
  <2> QED BY <2>1, ContentsType, FullEmpty, RingFromType DEF IInv
<1> QED BY <1>1 DEF Init, Channel!BInit

\* The pipe implements the bounded channel, for any number of readers and
\* writers that take turns in the middle of their calls and any width of the
\* counters: bytes come out once and in order, and a read returns 0 only after
\* the last writer has closed and the last byte has been read.
THEOREM PipeIsChannel == Spec => IsChannel
<1>1. Init => Channel!BInit
  BY ChannelInit
<1>2. IInv /\ [Next]_vars => [Channel!BNext]_(Channel!bvars)
  BY ChannelStep
<1> QED BY <1>1, <1>2, Invariant, PTL DEF Spec, IsChannel, Channel!BSpec
=============================================================================
