--------------------------- MODULE BufCacheProofs ---------------------------
(***************************************************************************)
(* Proofs about BufCache, for every number of users, blocks, values        *)
(* and buffers, and every bound.                                           *)
(***************************************************************************)
EXTENDS BufCache, FiniteSetTheorems, FunctionTheorems, SequenceTheorems,
        WellFoundedInduction, TLAPS

\* The users between bget and the end of brelse of b.
Users(b) == {p \in User : buf[p] = b}

\* The points at which a user has the sleep lock of its buffer.
Owning == {"rw", "iosleep", "iowait", "held"}

\* The buffers that the log has pinned: B_DIRTY, and nobody is writing them.
Pinned ==
  {b \in Buf : dirty[b] /\ (lock[b] = None \/ pc[lock[b]] = "held")}

(***************************************************************************)
(* The inductive invariant.                                                *)
(***************************************************************************)

\* No two buffers of a block.
BlockInv == \A a, b \in Buf : blockno[a] = blockno[b] /\ blockno[a] # None => a = b

\* refcnt counts the users.
RefInv == \A b \in Buf : refcnt[b] = Cardinality(Users(b))

\* The list is a permutation of the buffers.
LruInv ==
  /\ lru \in [Buf -> Buf]
  /\ \A j, k \in Buf : lru[j] = lru[k] => j = k
  /\ \A b \in Buf : \E k \in Buf : lru[k] = b

\* A user is about a buffer, which has a block, from bget to brelse, and has
\* its sleep lock from acquiresleep to releasesleep.
UseInv ==
  \A p \in User :
    /\ buf[p] = None <=> pc[p] = "idle"
    /\ buf[p] # None => blockno[buf[p]] # None
    /\ \A b \in Buf : lock[b] = p <=> pc[p] \in Owning /\ buf[p] = b

\* What B_VALID and B_DIRTY say, by where the owner is.  A buffer that is not
\* in iderw is valid while it is owned.
FlagInv ==
  /\ \A b \in Buf : dirty[b] => valid[b]
  /\ \A p \in User :
       /\ pc[p] = "held" => valid[buf[p]]
       /\ pc[p] = "rw" => ~valid[buf[p]] \/ dirty[buf[p]]
       /\ pc[p] = "iosleep" => \E k \in 1 .. Len(idequeue) : idequeue[k] = buf[p]
       /\ pc[p] = "iowait" => \/ \E k \in 1 .. Len(idequeue) : idequeue[k] = buf[p]
                              \/ valid[buf[p]] /\ ~dirty[buf[p]]
       /\ pc[p] = "locksleep" => lock[buf[p]] # None

\* The requests are different buffers, each one's owner is in iderw, and they
\* have something to read or to write.
QueueInv ==
  /\ \A j, k \in 1 .. Len(idequeue) : idequeue[j] = idequeue[k] => j = k
  /\ \A k \in 1 .. Len(idequeue) :
       /\ lock[idequeue[k]] # None
       /\ pc[lock[idequeue[k]]] \in {"iosleep", "iowait"}
       /\ ~valid[idequeue[k]] \/ dirty[idequeue[k]]
  /\ command = IF idequeue = << >> THEN None ELSE idestart(Head(idequeue))

\* A clean valid buffer holds what the disk holds, unless a read failed.
DataInv ==
  \A b \in Buf : valid[b] /\ ~dirty[b] /\ blockno[b] \notin lost
                   => blockno[b] # None /\ bdata[b] = disk[blockno[b]]

\* The log pins at most MaxDirty buffers.
PinInv == Cardinality(Pinned) <= MaxDirty

IInv ==
  /\ TypeOK /\ BlockInv /\ RefInv /\ LruInv /\ UseInv /\ FlagInv /\ QueueInv
  /\ DataInv /\ PinInv

-----------------------------------------------------------------------------
(***************************************************************************)
(* Counting, and the list.                                                 *)
(***************************************************************************)

\* Sets of users and sets of buffers are finite.
LEMMA FiniteSets1 ==
  /\ \A S \in SUBSET User : IsFiniteSet(S) /\ Cardinality(S) \in Nat
  /\ \A S \in SUBSET Buf : IsFiniteSet(S) /\ Cardinality(S) \in Nat
<1>1. IsFiniteSet(Buf)
  BY BufAssumption, FS_Interval DEF Buf
<1> QED BY <1>1, BufAssumption, FS_Subset, FS_CardinalityType

\* A set of buffers has a last one.
LEMMA LastBuf ==
  ASSUME NEW S \in SUBSET Buf, S # {}
  PROVE  Max(S) \in S
<1> DEFINE T == {NBUF - x : x \in S}
           R == {ss \in Nat \X Nat : ss[1] < ss[2]}
<1>0. NBUF \in Nat /\ \A x \in S : x \in 1 .. NBUF
  BY BufAssumption DEF Buf
<1>1. T \in SUBSET Nat /\ T # {}
  BY <1>0
<1>2. IsWellFoundedOn(R, Nat)
  BY NatLessThanWellFounded DEF OpToRel
<1>3. PICK t \in T : \A u \in T : ~(<<u, t>> \in R)
  <2> HIDE DEF R, T
  <2> QED BY <1>1, <1>2, WFMin
<1>4. PICK x \in S : t = NBUF - x
  OBVIOUS
<1>5. ASSUME NEW y \in S
      PROVE  x >= y
  <2>1. NBUF - y \in T /\ NBUF - y \in Nat /\ t \in Nat
    BY <1>1
  <2>2. ~(NBUF - y < t)
    BY <1>3, <2>1
  <2> QED BY <1>4, <2>1, <2>2, BufAssumption DEF Buf
<1> QED BY <1>5 DEF Max

\* Moving a buffer to the head of the list keeps every buffer in it once.
LEMMA Relinked ==
  ASSUME IInv, NEW b \in Buf, lru' = lru \/ lru' = relinked(b)
  PROVE  LruInv'
<1> DEFINE j == CHOOSE j \in Buf : lru[j] = b
           new == [k \in Buf |-> IF k = 1 THEN b
                                 ELSE IF k <= j THEN lru[k - 1] ELSE lru[k]]
<1>0. NBUF \in Nat /\ Buf = 1 .. NBUF
  BY BufAssumption DEF Buf
<1>1. /\ lru \in [Buf -> Buf] /\ \A x, y \in Buf : lru[x] = lru[y] => x = y
      /\ \A c \in Buf : \E k \in Buf : lru[k] = c
  BY DEF IInv, LruInv
<1>2. j \in Buf /\ lru[j] = b
  BY <1>1
<1> HIDE DEF j
<1>3. new \in [Buf -> Buf]
  <2>1. ASSUME NEW k \in Buf, k # 1
        PROVE  k - 1 \in Buf
    BY <1>0, <2>1
  <2>2. \A k \in Buf : k # 1 => lru[k - 1] \in Buf /\ lru[k] \in Buf
    BY <1>1, <2>1
  <2> QED BY <2>2
<1>4. ASSUME NEW x \in Buf, NEW y \in Buf, new[x] = new[y]
      PROVE  x = y
  <2> DEFINE at(k) == IF k = 1 THEN j ELSE IF k <= j THEN k - 1 ELSE k
  <2>1. \A k \in Buf : at(k) \in Buf /\ new[k] = lru[at(k)]
    BY <1>0, <1>2
  <2>2. at(x) = at(y)
    BY <1>1, <1>4, <2>1
  <2> QED BY <1>0, <1>2, <2>2
<1>5. ASSUME NEW c \in Buf
      PROVE  \E k \in Buf : new[k] = c
  <2>1. PICK k \in Buf : lru[k] = c
    BY <1>1
  <2>2. CASE k = j
    BY <1>0, <1>2, <2>1, <2>2
  <2>3. CASE k < j
    <3>1. k + 1 \in Buf /\ k + 1 # 1 /\ k + 1 <= j /\ (k + 1) - 1 = k
      BY <1>0, <1>2, <2>3
    <3> QED BY <2>1, <3>1
  <2>4. CASE k > j
    <3>1. k # 1 /\ ~(k <= j)
      BY <1>0, <1>2, <2>4
    <3> QED BY <2>1, <3>1
  <2> QED BY <1>0, <1>2, <2>2, <2>3, <2>4
<1>6. relinked(b) = new
  BY DEF relinked, new, j
<1> HIDE DEF new
<1>7. CASE lru' = lru
  BY <1>1, <1>7 DEF LruInv
<1>8. CASE lru' = new
  <2>1. \A x, y \in Buf : new[x] = new[y] => x = y
    BY <1>4
  <2>2. \A c \in Buf : \E k \in Buf : new[k] = c
    BY <1>5
  <2> QED BY <1>3, <1>8, <2>1, <2>2 DEF LruInv
<1> QED BY <1>6, <1>7, <1>8

\* Nobody uses or owns a buffer whose refcnt is 0.
LEMMA Unreferenced ==
  ASSUME IInv, NEW b \in Buf, refcnt[b] = 0
  PROVE  /\ Users(b) = {} /\ \A p \in User : buf[p] # b
         /\ lock[b] = None
<1>1. Users(b) \in SUBSET User
  BY DEF Users
<1>2. Users(b) = {}
  BY <1>1, FiniteSets1, FS_EmptySet DEF IInv, RefInv
<1>3. \A p \in User : buf[p] # b
  BY <1>2 DEF Users
<1> QED BY <1>2, <1>3 DEF IInv, TypeOK, UseInv

\* The buffer that a user is about.
LEMMA BufOf ==
  ASSUME IInv, NEW p \in User, pc[p] # "idle"
  PROVE  /\ buf[p] \in Buf /\ buf[p] # None /\ blockno[buf[p]] \in Block
  BY DEF IInv, TypeOK, UseInv

\* The owner of a sleep lock.
LEMMA Owner ==
  ASSUME IInv, NEW b \in Buf, lock[b] # None
  PROVE  /\ lock[b] \in User /\ buf[lock[b]] = b
         /\ pc[lock[b]] \in Owning
<1>1. lock[b] \in User
  BY DEF IInv, TypeOK
<1> QED BY <1>1 DEF IInv, UseInv

\* The requests are buffers, and are not what anybody else owns.
LEMMA Requests ==
  ASSUME IInv
  PROVE  /\ Len(idequeue) \in Nat
         /\ \A k \in 1 .. Len(idequeue) :
              /\ idequeue[k] \in Buf /\ lock[idequeue[k]] \in User
              /\ buf[lock[idequeue[k]]] = idequeue[k]
              /\ \A p \in User : pc[p] \in {"held", "rw"} => buf[p] # idequeue[k]
<1>1. Len(idequeue) \in Nat /\ \A k \in 1 .. Len(idequeue) : idequeue[k] \in Buf
  BY DEF IInv, TypeOK
<1>2. ASSUME NEW k \in 1 .. Len(idequeue)
      PROVE  /\ lock[idequeue[k]] \in User
             /\ buf[lock[idequeue[k]]] = idequeue[k]
             /\ \A p \in User :
                  pc[p] \in {"held", "rw"} => buf[p] # idequeue[k]
  <2> DEFINE b == idequeue[k]
  <2>1. b \in Buf /\ lock[b] # None /\ pc[lock[b]] \in {"iosleep", "iowait"}
    BY <1>1 DEF IInv, QueueInv
  <2> HIDE DEF b
  <2>2. lock[b] \in User
    BY <2>1 DEF IInv, TypeOK
  <2>3. buf[lock[b]] = b
    BY <2>1, <2>2 DEF IInv, UseInv
  <2>4. ASSUME NEW p \in User, pc[p] \in {"held", "rw"}, buf[p] = b
        PROVE  FALSE
    <3>1. lock[b] = p
      BY <2>1, <2>4 DEF IInv, UseInv, Owning
    <3> QED BY <2>1, <2>4, <3>1
  <2> QED BY <2>2, <2>3, <2>4 DEF b
<1> QED BY <1>1, <1>2

\* A step that leaves the requests, their buffers and their owners alone.
LEMMA SameQueue ==
  ASSUME IInv, UNCHANGED <<idequeue, command>>,
         \A b \in Buf : lock[b] # None /\ pc[lock[b]] \in {"iosleep", "iowait"} =>
           /\ lock'[b] = lock[b] /\ pc'[lock[b]] \in {"iosleep", "iowait"}
           /\ blockno'[b] = blockno[b] /\ valid'[b] = valid[b]
           /\ dirty'[b] = dirty[b] /\ bdata'[b] = bdata[b]
  PROVE  QueueInv'
<1>1. ASSUME NEW k \in 1 .. Len(idequeue)
      PROVE  LET b == idequeue[k] IN
             /\ lock[b] # None /\ pc[lock[b]] \in {"iosleep", "iowait"}
             /\ lock'[b] = lock[b] /\ pc'[lock[b]] \in {"iosleep", "iowait"}
             /\ idestart(b)' = idestart(b)
             /\ ~valid'[b] \/ dirty'[b]
  <2> DEFINE b == idequeue[k]
  <2>1. b \in Buf /\ lock[b] # None /\ pc[lock[b]] \in {"iosleep", "iowait"}
        /\ (~valid[b] \/ dirty[b])
    BY Requests DEF IInv, QueueInv
  <2>2. b' = b
    OBVIOUS
  <2> HIDE DEF b
  <2> QED BY <2>1, <2>2 DEF idestart, b
<1>2. idequeue # << >> => Head(idequeue) = idequeue[1]
                          /\ 1 \in 1 .. Len(idequeue)
  BY DEF IInv, TypeOK
<1>3. command' = IF idequeue' = << >> THEN None ELSE idestart(Head(idequeue))'
  <2>1. CASE idequeue = << >>
    BY <2>1 DEF IInv, QueueInv
  <2>2. CASE idequeue # << >>
    <3>1. idestart(idequeue[1])' = idestart(idequeue[1])
      BY <1>1, <1>2, <2>2
    <3> QED BY <1>2, <2>2, <3>1 DEF IInv, QueueInv, idestart
  <2> QED BY <2>1, <2>2
<1> QED BY <1>1, <1>3 DEF IInv, QueueInv

\* A step that keeps the places of the list.
LEMMA SameUsers ==
  ASSUME buf' = buf
  PROVE  \A b \in Buf : Users(b)' = Users(b)
  BY DEF Users

\* Fewer pinned buffers.
LEMMA FewerPinned ==
  ASSUME IInv, Pinned' \subseteq Pinned
  PROVE  PinInv'
<1>1. Pinned \in SUBSET Buf /\ Pinned' \in SUBSET Buf
  BY DEF Pinned
<1>2. IsFiniteSet(Pinned) /\ Cardinality(Pinned) \in Nat
      /\ Cardinality(Pinned') \in Nat
  BY <1>1, FiniteSets1
<1>3. Cardinality(Pinned') <= Cardinality(Pinned)
  BY <1>2, FS_Subset
<1> QED BY <1>2, <1>3, BufAssumption DEF IInv, PinInv

-----------------------------------------------------------------------------
(***************************************************************************)
(* The invariant is inductive.                                             *)
(***************************************************************************)

USE DEF flags, device

\* BgetHit preserves the invariant.
LEMMA BgetHitIInv ==
  ASSUME IInv, NEW p \in User, NEW k \in Block, BgetHit(p, k)
  PROVE  IInv'
<1>0. PICK b \in Buf :
        /\ blockno[b] = k /\ refcnt' = [refcnt EXCEPT ![b] = @ + 1]
        /\ buf' = [buf EXCEPT ![p] = b]
  BY DEF BgetHit, BufsOf
<1>1. TypeOK'
  <2>1. refcnt' \in [Buf -> Nat] /\ ops' \in [User -> 0 .. MaxOps]
    BY <1>0, BufAssumption DEF IInv, TypeOK, BgetHit
  <2> QED BY <1>0, <2>1 DEF IInv, TypeOK, Points, BgetHit
<1>2. BlockInv'
  BY DEF IInv, BlockInv, BgetHit, BufsOf
<1>3. RefInv'
  <2>1. ASSUME NEW c \in Buf
        PROVE  refcnt'[c] = Cardinality(Users(c)')
    <3>1. Users(c) \in SUBSET User /\ buf[p] = None /\ c # None
      BY BufAssumption DEF Users, BgetHit, IInv, UseInv
    <3>2. CASE c = b
      <4>1. Users(c)' = Users(c) \cup {p} /\ p \notin Users(c)
        BY <1>0, <3>1, <3>2 DEF Users, IInv, TypeOK
      <4>2. Cardinality(Users(c)') = Cardinality(Users(c)) + 1
        BY <3>1, <4>1, FiniteSets1, FS_AddElement
      <4> QED BY <1>0, <3>2, <4>2 DEF IInv, TypeOK, RefInv
    <3>3. CASE c # b
      <4>1. Users(c)' = Users(c)
        BY <1>0, <3>1, <3>3 DEF Users, IInv, TypeOK
      <4> QED BY <1>0, <3>3, <4>1 DEF IInv, TypeOK, RefInv
    <3> QED BY <3>2, <3>3
  <2> QED BY <2>1 DEF RefInv
<1>4. LruInv'
  BY DEF IInv, LruInv, BgetHit, BufsOf
<1>5. UseInv'
  BY <1>0, BufAssumption DEF IInv, TypeOK, UseInv, Owning, BgetHit
<1>6. FlagInv'
  BY <1>0, BufAssumption
     DEF IInv, TypeOK, UseInv, FlagInv, Owning, BgetHit
<1>7. QueueInv'
  BY SameQueue
     DEF IInv, TypeOK, UseInv, Owning, BgetHit
<1>8. DataInv'
  BY DEF IInv, TypeOK, DataInv, BgetHit, BufsOf
<1>9. PinInv'
  <2>1. Pinned' \subseteq Pinned
    BY BufAssumption DEF IInv, TypeOK, UseInv, FlagInv, Owning, Pinned, BgetHit, BufsOf
  <2> QED BY <2>1, FewerPinned
<1> QED BY <1>1, <1>2, <1>3, <1>4, <1>5, <1>6, <1>7, <1>8, <1>9 DEF IInv

\* BgetMiss preserves the invariant.
LEMMA BgetMissIInv ==
  ASSUME IInv, NEW p \in User, NEW k \in Block, BgetMiss(p, k)
  PROVE  IInv'
<1> DEFINE b == lru[Max(Free)]
<1>0. /\ b \in Buf /\ refcnt[b] = 0 /\ ~dirty[b] /\ lock[b] = None
      /\ Users(b) = {} /\ \A q \in User : buf[q] # b
  <2>1. Max(Free) \in Free /\ Free \in SUBSET Buf
    BY LastBuf DEF Free, BgetMiss
  <2>2. b \in Buf /\ refcnt[b] = 0 /\ ~dirty[b]
    BY <2>1 DEF Free, recyclable, IInv, LruInv
  <2> HIDE DEF b
  <2> QED BY <2>2, Unreferenced
<1>00. /\ blockno' = [blockno EXCEPT ![b] = k]
       /\ valid' = [valid EXCEPT ![b] = FALSE]
       /\ dirty' = [dirty EXCEPT ![b] = FALSE]
       /\ refcnt' = [refcnt EXCEPT ![b] = 1]
       /\ buf' = [buf EXCEPT ![p] = b]
       /\ pc' = [pc EXCEPT ![p] = "lock"]
       /\ ops' = [ops EXCEPT ![p] = @ + 1]
       /\ pc[p] = "idle" /\ ops[p] < MaxOps
       /\ \A c \in Buf : blockno[c] # k
       /\ UNCHANGED <<lock, bdata, lru, device, lost, panicked>>
  BY DEF BgetMiss, BufsOf, bget_missed
<1> HIDE DEF b
<1>1. TypeOK'
  <2>1. refcnt' \in [Buf -> Nat] /\ ops' \in [User -> 0 .. MaxOps]
    <3>1. refcnt' \in [Buf -> Nat]
      BY <1>00 DEF IInv, TypeOK
    <3>2. MaxOps \in Nat /\ ops \in [User -> 0 .. MaxOps] /\ ops[p] < MaxOps
      BY <1>00, BufAssumption DEF IInv, TypeOK
    <3> QED BY <1>00, <3>1, <3>2
  <2>2. /\ blockno' \in [Buf -> Block \cup {None}]
        /\ buf' \in [User -> Buf \cup {None}]
        /\ pc' \in [User -> Points]
    BY <1>0, <1>00 DEF IInv, TypeOK, Points
  <2> QED BY <1>00, <2>1, <2>2 DEF IInv, TypeOK
<1>2. BlockInv'
  BY <1>0, <1>00 DEF IInv, TypeOK, BlockInv
<1>3. RefInv'
  <2>1. ASSUME NEW c \in Buf
        PROVE  refcnt'[c] = Cardinality(Users(c)')
    <3>1. buf[p] = None /\ c # None
      BY <1>00, BufAssumption DEF IInv, UseInv
    <3>2. CASE c = b
      <4>1. Users(c)' = {p}
        BY <1>0, <1>00, <3>2 DEF Users, IInv, TypeOK
      <4> QED BY <1>00, <3>2, <4>1, FS_Singleton DEF IInv, TypeOK
    <3>3. CASE c # b
      <4>1. Users(c)' = Users(c)
        BY <1>00, <3>1, <3>3 DEF Users, IInv, TypeOK
      <4> QED BY <1>00, <3>3, <4>1 DEF IInv, TypeOK, RefInv
    <3> QED BY <3>2, <3>3
  <2> QED BY <2>1 DEF RefInv
<1>4. LruInv'
  BY <1>00 DEF IInv, LruInv
<1>5. UseInv'
  BY <1>0, <1>00, BufAssumption DEF IInv, TypeOK, UseInv, Owning
<1>6. FlagInv'
  BY <1>0, <1>00, BufAssumption DEF IInv, TypeOK, UseInv, FlagInv, Owning
<1>7. QueueInv'
  <2>1. ASSUME NEW c \in Buf, lock[c] # None
        PROVE  /\ lock[c] \in User /\ lock[c] # p /\ c # b
               /\ pc'[lock[c]] = pc[lock[c]]
    <3>1. lock[c] \in User /\ lock[c] # p
      BY <1>00, <2>1, Owner DEF Owning
    <3> QED BY <1>0, <1>00, <2>1, <3>1 DEF IInv, TypeOK
  <2> QED BY <1>00, <2>1, SameQueue DEF IInv, TypeOK
<1>8. DataInv'
  BY <1>0, <1>00 DEF IInv, TypeOK, DataInv
<1>9. PinInv'
  <2>1. Pinned' \subseteq Pinned
    BY <1>0, <1>00 DEF IInv, TypeOK, UseInv, Pinned
  <2> QED BY <2>1, FewerPinned
<1> QED BY <1>1, <1>2, <1>3, <1>4, <1>5, <1>6, <1>7, <1>8, <1>9 DEF IInv

\* AcquireSleep preserves the invariant.
LEMMA AcquireIInv ==
  ASSUME IInv, NEW p \in User, AcquireSleep(p)
  PROVE  IInv'
<1> DEFINE b == buf[p]
<1>0. b \in Buf /\ pc[p] = "lock" /\ b # None /\ buf' = buf
  BY BufOf DEF AcquireSleep
<1>00. \/ /\ lock[b] = None /\ lock' = [lock EXCEPT ![b] = p]
          /\ pc' = [pc EXCEPT ![p] = IF valid[b] THEN "held" ELSE "rw"]
       \/ /\ lock[b] # None /\ lock' = lock
          /\ pc' = [pc EXCEPT ![p] = "locksleep"]
  BY DEF AcquireSleep
<1>1. TypeOK'
  <2>1. lock' \in [Buf -> User \cup {None}] /\ pc' \in [User -> Points]
    <3> HIDE DEF b
    <3>1. CASE lock[b] = None
      <4>1. (IF valid[b] THEN "held" ELSE "rw") \in Points
        BY DEF Points
      <4>2. /\ lock' = [lock EXCEPT ![b] = p]
            /\ pc' = [pc EXCEPT ![p] = IF valid[b] THEN "held" ELSE "rw"]
        BY <1>00, <3>1
      <4>3. lock' \in [Buf -> User \cup {None}]
        BY <4>2 DEF IInv, TypeOK
      <4>4. pc \in [User -> Points]
        BY DEF IInv, TypeOK
      <4> QED BY <4>1, <4>2, <4>3, <4>4
    <3>2. CASE lock[b] # None
      BY <1>0, <1>00, <3>2 DEF IInv, TypeOK, Points
    <3> QED BY <3>1, <3>2
  <2> QED BY <2>1 DEF IInv, TypeOK, AcquireSleep
<1>2. BlockInv'
  BY DEF IInv, BlockInv, AcquireSleep
<1>3. RefInv'
  BY SameUsers DEF IInv, RefInv, AcquireSleep
<1>4. LruInv'
  BY DEF IInv, LruInv, AcquireSleep
<1>5. UseInv'
  <2>0. blockno' = blockno /\ buf[p] = b
    BY DEF AcquireSleep
  <2> HIDE DEF b
  <2>1. CASE lock[b] = None
    <3>1. /\ lock'[b] = p /\ \A c \in Buf : c # b => lock'[c] = lock[c]
          /\ pc'[p] \in {"held", "rw"}
          /\ \A q \in User : q # p => pc'[q] = pc[q]
      BY <1>0, <1>00, <2>1 DEF IInv, TypeOK
    <3> QED BY <1>0, <2>0, <2>1, <3>1, BufAssumption DEF IInv, UseInv, Owning
  <2>2. CASE lock[b] # None
    <3>1. /\ lock' = lock /\ pc'[p] = "locksleep"
          /\ \A q \in User : q # p => pc'[q] = pc[q]
      BY <1>0, <1>00, <2>2 DEF IInv, TypeOK
    <3> QED BY <1>0, <2>0, <3>1 DEF IInv, UseInv, Owning
  <2> QED BY <2>1, <2>2
<1>6. FlagInv'
  BY BufAssumption
     DEF IInv, TypeOK, UseInv, FlagInv, Owning, AcquireSleep
<1>7. QueueInv'
  <2>1. ASSUME NEW c \in Buf, lock[c] # None
        PROVE  /\ lock'[c] = lock[c] /\ lock[c] \in User /\ lock[c] # p
               /\ pc'[lock[c]] = pc[lock[c]]
    <3>1. lock[c] \in User /\ lock[c] # p
      BY <1>0, <2>1, Owner DEF Owning
    <3> QED BY <1>0, <1>00, <2>1, <3>1 DEF IInv, TypeOK
  <2> QED BY <2>1, SameQueue DEF IInv, TypeOK, AcquireSleep
<1>8. DataInv'
  BY DEF IInv, TypeOK, DataInv, AcquireSleep
<1>9. PinInv'
  <2>1. Pinned' \subseteq Pinned
    BY BufAssumption DEF IInv, TypeOK, UseInv, FlagInv, Owning, Pinned, AcquireSleep
  <2> QED BY <2>1, FewerPinned
<1> QED BY <1>1, <1>2, <1>3, <1>4, <1>5, <1>6, <1>7, <1>8, <1>9 DEF IInv

\* iderw preserves the invariant.
LEMMA IderwIInv ==
  ASSUME IInv, NEW p \in User, iderw(p)
  PROVE  IInv'
<1> DEFINE b == buf[p]
<1>0. /\ b \in Buf /\ pc[p] = "rw" /\ b # None /\ buf' = buf /\ lock[b] = p
      /\ blockno[b] \in Block
  BY BufOf DEF iderw, IInv, UseInv, Owning
<1>00. /\ idequeue' \in Seq(Buf) /\ Len(idequeue') = Len(idequeue) + 1
       /\ idequeue' # << >> /\ Len(idequeue) \in Nat
       /\ idequeue'[Len(idequeue) + 1] = b
       /\ \A k \in 1 .. Len(idequeue) : idequeue'[k] = idequeue[k]
  BY <1>0, AppendProperties DEF iderw, IInv, TypeOK
<1>000. \A k \in 1 .. Len(idequeue) :
          idequeue[k] # b /\ idequeue[k] \in Buf /\ lock[idequeue[k]] \in User
  BY <1>0, Requests
<1>1. TypeOK'
  <2>1. command' = None \/ command' \in [block : Block, write : BOOLEAN, data : Val]
    BY <1>0 DEF IInv, TypeOK, iderw, idestart
  <2>2. pc' \in [User -> Points]
    BY DEF IInv, TypeOK, Points, iderw
  <2> QED BY <1>00, <2>1, <2>2 DEF IInv, TypeOK, iderw
<1>2. BlockInv'
  BY DEF IInv, BlockInv, iderw
<1>3. RefInv'
  BY SameUsers DEF IInv, RefInv, iderw
<1>4. LruInv'
  BY DEF IInv, LruInv, iderw
<1>5. UseInv'
  BY BufAssumption DEF IInv, TypeOK, UseInv, Owning, iderw
<1>6. FlagInv'
  <2>1. \A c \in Buf : (\E k \in 1 .. Len(idequeue) : idequeue[k] = c)
                       => \E k \in 1 .. Len(idequeue') : idequeue'[k] = c
    BY <1>00
  <2>2. \E k \in 1 .. Len(idequeue') : idequeue'[k] = b
    BY <1>00
  <2>3. \A q \in User : pc[q] \in {"iosleep", "iowait"} => buf[q] \in Buf
    BY BufOf
  <2> QED BY <1>0, <2>1, <2>2, <2>3 DEF IInv, TypeOK, FlagInv, iderw
<1>7. QueueInv'
  <2>1. \A j, k \in 1 .. Len(idequeue') : idequeue'[j] = idequeue'[k] => j = k
    BY <1>00, <1>000 DEF IInv, QueueInv
  <2>2. ASSUME NEW k \in 1 .. Len(idequeue')
        PROVE  /\ lock[idequeue'[k]] # None
               /\ pc'[lock[idequeue'[k]]] \in {"iosleep", "iowait"}
               /\ ~valid[idequeue'[k]] \/ dirty[idequeue'[k]]
    <3>1. CASE k = Len(idequeue) + 1
      BY <1>0, <1>00, <3>1, BufAssumption DEF IInv, TypeOK, FlagInv, iderw
    <3>2. CASE k # Len(idequeue) + 1
      <4>1. k \in 1 .. Len(idequeue) /\ idequeue'[k] = idequeue[k]
        BY <1>00, <3>2
      <4> QED BY <1>0, <1>000, <4>1 DEF IInv, TypeOK, QueueInv, iderw
    <3> QED BY <3>1, <3>2
  <2>3. command' = idestart(Head(idequeue))'
    <3>0. Head(idequeue') = idequeue'[1]
      BY <1>00
    <3>1. CASE idequeue = << >>
      <4>1. Head(idequeue') = b
        BY <1>00, <3>0, <3>1
      <4>2. command' = idestart(b)
        BY <3>1 DEF iderw
      <4> QED BY <4>1, <4>2 DEF idestart, iderw
    <3>2. CASE idequeue # << >>
      <4>1. 1 \in 1 .. Len(idequeue) /\ Head(idequeue) = idequeue[1]
        BY <3>2 DEF IInv, TypeOK
      <4>2. Head(idequeue') = Head(idequeue)
        BY <1>00, <3>0, <4>1
      <4> QED BY <3>2, <4>2 DEF IInv, QueueInv, idestart, iderw
    <3> QED BY <3>1, <3>2
  <2> QED BY <1>00, <2>1, <2>2, <2>3 DEF QueueInv, iderw
<1>8. DataInv'
  BY DEF IInv, TypeOK, DataInv, iderw
<1>9. PinInv'
  <2>1. Pinned' \subseteq Pinned
    BY BufAssumption DEF IInv, TypeOK, UseInv, FlagInv, Owning, Pinned, iderw
  <2> QED BY <2>1, FewerPinned
<1> QED BY <1>1, <1>2, <1>3, <1>4, <1>5, <1>6, <1>7, <1>8, <1>9 DEF IInv

\* ideintr preserves the invariant.
LEMMA IdeintrIInv ==
  ASSUME IInv, ideintr
  PROVE  IInv'
<1> DEFINE b == Head(idequeue)
           n == Len(idequeue) - 1
<1>0. /\ idequeue # << >> /\ idequeue \in Seq(Buf) /\ Len(idequeue) \in Nat
      /\ 1 \in 1 .. Len(idequeue) /\ b = idequeue[1] /\ b \in Buf
      /\ command = [block |-> blockno[b], write |-> dirty[b], data |-> bdata[b]]
  <2>1. idequeue # << >> /\ idequeue \in Seq(Buf)
    BY DEF ideintr, IInv, TypeOK, QueueInv
  <2> QED BY <2>1 DEF ideintr, IInv, QueueInv, idestart
<1>00. /\ idequeue' = Tail(idequeue) /\ idequeue' \in Seq(Buf)
       /\ Len(idequeue') = n /\ n \in Nat
       /\ \A k \in 1 .. n : idequeue'[k] = idequeue[k + 1]
  BY <1>0, HeadTailProperties DEF ideintr
<1>01. /\ lock[b] \in User /\ buf[lock[b]] = b
       /\ pc[lock[b]] \in {"iosleep", "iowait"}
       /\ blockno[b] \in Block /\ (~valid[b] \/ dirty[b])
  <2>1. lock[b] \in User /\ buf[lock[b]] = b
        /\ pc[lock[b]] \in {"iosleep", "iowait"} /\ (~valid[b] \/ dirty[b])
    BY <1>0, Requests DEF IInv, QueueInv
  <2> HIDE DEF b
  <2>2. pc[lock[b]] # "idle"
    BY <2>1
  <2> QED BY <2>1, <2>2, BufOf
<1> HIDE DEF b, n
<1>02. /\ disk' = IF dirty[b] THEN [disk EXCEPT ![blockno[b]] = bdata[b]] ELSE disk
       /\ \/ /\ ~dirty[b] /\ bdata' = [bdata EXCEPT ![b] = disk[blockno[b]]]
             /\ lost' = lost
          \/ ~dirty[b] /\ lost' = lost \cup {blockno[b]} /\ bdata' = bdata
          \/ dirty[b] /\ bdata' = bdata /\ lost' = lost
       /\ valid' = [valid EXCEPT ![b] = TRUE]
       /\ dirty' = [dirty EXCEPT ![b] = FALSE]
       /\ pc' = [p \in User |-> IF pc[p] = "iosleep" /\ buf[p] = b
                                   THEN "iowait" ELSE pc[p]]
       /\ command' = next_command(Tail(idequeue))
       /\ UNCHANGED <<blockno, lock, refcnt, lru, buf, ops, panicked>>
  BY <1>0 DEF ideintr, b
<1>03. \A p \in User : pc'[p] = pc[p] \/ (pc[p] = "iosleep" /\ pc'[p] = "iowait")
  BY <1>02
<1>04. \A k \in 1 .. n : /\ k + 1 \in 1 .. Len(idequeue) /\ idequeue'[k] \in Buf
                        /\ idequeue'[k] # b /\ lock[idequeue'[k]] \in User
  <2>1. ASSUME NEW k \in 1 .. n
        PROVE  /\ k + 1 \in 1 .. Len(idequeue) /\ idequeue'[k] \in Buf
               /\ idequeue'[k] # b /\ lock[idequeue'[k]] \in User
    <3>1. k + 1 \in 1 .. Len(idequeue) /\ k + 1 # 1
      BY <1>0 DEF n
    <3>2. idequeue'[k] = idequeue[k + 1]
      BY <1>00
    <3>3. idequeue[k + 1] # idequeue[1]
      BY <1>0, <3>1 DEF IInv, QueueInv
    <3> QED BY <1>0, <3>1, <3>2, <3>3, Requests
  <2> QED BY <2>1
<1>1. TypeOK'
  <2>1. command' = None \/ command' \in [block : Block, write : BOOLEAN, data : Val]
    <3>1. CASE idequeue' = << >>
      BY <1>00, <1>02, <3>1 DEF next_command
    <3>2. CASE idequeue' # << >>
      <4> DEFINE c == Head(idequeue')
      <4>1. c = idequeue'[1] /\ 1 \in 1 .. n
        BY <1>00, <3>2
      <4>2. lock[c] \in User /\ lock[c] # None /\ c \in Buf
        BY <1>04, <4>1, BufAssumption
      <4> HIDE DEF c
      <4>3. blockno[c] \in Block
        BY <4>2, Owner, BufOf DEF Owning
      <4>4. command' = idestart(c)
        BY <1>00, <1>02, <3>2 DEF next_command, c
      <4> QED BY <4>2, <4>3, <4>4 DEF idestart, IInv, TypeOK
    <3> QED BY <3>1, <3>2
  <2>2. disk' \in [Block -> Val] /\ bdata' \in [Buf -> Val]
    BY <1>0, <1>01, <1>02 DEF IInv, TypeOK
  <2>3. lost' \in SUBSET Block
    BY <1>01, <1>02 DEF IInv, TypeOK
  <2>4. pc' \in [User -> Points]
    BY <1>02 DEF IInv, TypeOK, Points
  <2> QED BY <1>00, <1>02, <2>1, <2>2, <2>3, <2>4 DEF IInv, TypeOK
<1>2. BlockInv'
  BY <1>02 DEF IInv, BlockInv
<1>3. RefInv'
  BY <1>02, SameUsers DEF IInv, RefInv
<1>4. LruInv'
  BY <1>02 DEF IInv, LruInv
<1>5. UseInv'
  BY <1>02, <1>03 DEF IInv, UseInv, Owning
<1>6. FlagInv'
  <2>1. ASSUME NEW c \in Buf, c # b,
               \E k \in 1 .. Len(idequeue) : idequeue[k] = c
        PROVE  \E k \in 1 .. n : idequeue'[k] = c
    <3>1. PICK k \in 1 .. Len(idequeue) : idequeue[k] = c
      BY <2>1
    <3>2. k # 1
      BY <1>0, <2>1, <3>1
    <3>3. k - 1 \in 1 .. n /\ (k - 1) + 1 = k
      BY <1>0, <3>2 DEF n
    <3> QED BY <1>00, <3>1, <3>3
  <2>2. \A c \in Buf : dirty'[c] => valid'[c]
    BY <1>02 DEF IInv, TypeOK, FlagInv
  <2>3. ASSUME NEW p \in User
        PROVE  /\ pc'[p] = "held" => valid'[buf[p]]
               /\ pc'[p] = "rw" => ~valid'[buf[p]] \/ dirty'[buf[p]]
               /\ pc'[p] = "locksleep" => lock[buf[p]] # None
    <3>1. pc'[p] \in {"held", "rw", "locksleep"} => pc'[p] = pc[p] /\ buf[p] \in Buf
      BY <1>03, BufOf
    <3>2. pc[p] = "rw" => buf[p] # b
      BY <1>0, Requests
    <3> QED BY <1>02, <3>1, <3>2 DEF IInv, TypeOK, FlagInv
  <2>4. ASSUME NEW p \in User, pc'[p] \in {"iosleep", "iowait"}
        PROVE  IF buf[p] = b THEN pc'[p] = "iowait" /\ valid'[b] /\ ~dirty'[b]
               ELSE /\ pc'[p] = "iosleep" =>
                         \E k \in 1 .. n : idequeue'[k] = buf[p]
                    /\ \/ \E k \in 1 .. n : idequeue'[k] = buf[p]
                       \/ valid'[buf[p]] /\ ~dirty'[buf[p]]
    <3>1. pc[p] \in {"iosleep", "iowait"}
      BY <1>03, <2>4
    <3>2. buf[p] \in Buf
      BY <3>1, BufOf
    <3>3. CASE buf[p] = b
      BY <1>0, <1>02, <2>4, <3>3 DEF IInv, TypeOK
    <3>4. CASE buf[p] # b
      <4>1. pc'[p] = pc[p] /\ valid'[buf[p]] = valid[buf[p]]
            /\ dirty'[buf[p]] = dirty[buf[p]]
        BY <1>02, <3>2, <3>4 DEF IInv, TypeOK
      <4> QED BY <2>1, <3>1, <3>2, <3>4, <4>1 DEF IInv, FlagInv
    <3> QED BY <3>3, <3>4
  <2> QED BY <1>00, <1>02, <2>2, <2>3, <2>4 DEF FlagInv
<1>7. QueueInv'
  <2>1. ASSUME NEW j \in 1 .. n, NEW k \in 1 .. n, idequeue'[j] = idequeue'[k]
        PROVE  j = k
    <3>1. idequeue[j + 1] = idequeue[k + 1]
      BY <1>00, <2>1
    <3>2. j + 1 = k + 1
      BY <1>04, <3>1 DEF IInv, QueueInv
    <3> QED BY <1>00, <3>2
  <2>2. ASSUME NEW k \in 1 .. n
        PROVE  /\ lock[idequeue'[k]] # None
               /\ pc'[lock[idequeue'[k]]] \in {"iosleep", "iowait"}
               /\ ~valid'[idequeue'[k]] \/ dirty'[idequeue'[k]]
    <3> DEFINE c == idequeue'[k]
    <3>1. /\ c \in Buf /\ c # b /\ lock[c] \in User /\ lock[c] # None
          /\ pc[lock[c]] \in {"iosleep", "iowait"} /\ (~valid[c] \/ dirty[c])
      BY <1>00, <1>04 DEF IInv, QueueInv
    <3> HIDE DEF c
    <3>2. pc'[lock[c]] \in {"iosleep", "iowait"}
      BY <1>03, <3>1
    <3>3. ~valid'[c] \/ dirty'[c]
      BY <1>02, <3>1 DEF IInv, TypeOK
    <3> QED BY <3>1, <3>2, <3>3 DEF c
  <2>3. command' = IF idequeue' = << >> THEN None ELSE idestart(Head(idequeue))'
    <3>1. CASE idequeue' = << >>
      BY <1>00, <1>02, <3>1 DEF next_command
    <3>2. CASE idequeue' # << >>
      <4> DEFINE c == Head(idequeue')
      <4>1. c = idequeue'[1] /\ 1 \in 1 .. n
        BY <1>00, <3>2
      <4>2. c # b /\ c \in Buf
        BY <1>04, <4>1
      <4> HIDE DEF c
      <4>3. blockno'[c] = blockno[c] /\ dirty'[c] = dirty[c] /\ bdata'[c] = bdata[c]
        BY <1>02, <4>2 DEF IInv, TypeOK
      <4>4. command' = idestart(c)
        BY <1>00, <1>02, <3>2 DEF next_command, c
      <4> QED BY <3>2, <4>3, <4>4 DEF idestart, c
    <3> QED BY <3>1, <3>2
  <2> QED BY <1>00, <1>02, <2>1, <2>2, <2>3 DEF QueueInv
<1>8. DataInv'
  <2>1. ASSUME NEW c \in Buf, valid'[c], ~dirty'[c], blockno[c] \notin lost'
        PROVE  blockno[c] # None /\ bdata'[c] = disk'[blockno[c]]
    <3>1. CASE c = b
      <4>1. CASE dirty[b]
        BY <1>01, <1>02, <3>1, <4>1, BufAssumption DEF IInv, TypeOK
      <4>2. CASE ~dirty[b]
        BY <1>01, <1>02, <2>1, <3>1, <4>2, BufAssumption DEF IInv, TypeOK
      <4> QED BY <4>1, <4>2
    <3>2. CASE c # b
      <4>1. /\ valid[c] /\ ~dirty[c] /\ bdata'[c] = bdata[c]
            /\ blockno[c] \notin lost
        BY <1>02, <2>1, <3>2 DEF IInv, TypeOK
      <4>2. blockno[c] # None /\ bdata[c] = disk[blockno[c]] /\ blockno[c] \in Block
        BY <4>1 DEF IInv, TypeOK, DataInv
      <4>3. blockno[c] # blockno[b]
        BY <1>0, <3>2, <4>2 DEF IInv, BlockInv
      <4>4. disk'[blockno[c]] = disk[blockno[c]]
        BY <1>02, <4>2, <4>3 DEF IInv, TypeOK
      <4> QED BY <4>1, <4>2, <4>4
    <3> QED BY <3>1, <3>2
  <2> QED BY <1>02, <2>1 DEF DataInv
<1>9. PinInv'
  <2>1. Pinned' \subseteq Pinned
    BY <1>02, <1>03 DEF IInv, TypeOK, Pinned
  <2> QED BY <2>1, FewerPinned
<1> QED BY <1>1, <1>2, <1>3, <1>4, <1>5, <1>6, <1>7, <1>8, <1>9 DEF IInv

\* IoWait preserves the invariant.
LEMMA IoWaitIInv ==
  ASSUME IInv, NEW p \in User, IoWait(p)
  PROVE  IInv'
<1>1. TypeOK'
  BY BufAssumption DEF IInv, TypeOK, Points, IoWait
<1>2. BlockInv'
  BY DEF IInv, BlockInv, IoWait
<1>3. RefInv'
  BY SameUsers DEF IInv, RefInv, IoWait
<1>4. LruInv'
  BY DEF IInv, LruInv, IoWait
<1>5. UseInv'
  BY BufAssumption DEF IInv, TypeOK, UseInv, Owning, IoWait
<1>6. FlagInv'
  BY BufAssumption
     DEF IInv, TypeOK, UseInv, FlagInv, Owning, IoWait
<1>7. QueueInv'
  BY Requests
     DEF IInv, TypeOK, UseInv, QueueInv, Owning, idestart, IoWait
<1>8. DataInv'
  BY DEF IInv, TypeOK, DataInv, IoWait
<1>9. PinInv'
  <2>1. Pinned' \subseteq Pinned
    BY BufAssumption DEF IInv, TypeOK, UseInv, FlagInv, Owning, Pinned, IoWait
  <2> QED BY <2>1, FewerPinned
<1> QED BY <1>1, <1>2, <1>3, <1>4, <1>5, <1>6, <1>7, <1>8, <1>9 DEF IInv

\* KillWakes preserves the invariant.
LEMMA KillIInv ==
  ASSUME IInv, NEW p \in User, KillWakes(p)
  PROVE  IInv'
<1>1. TypeOK'
  BY BufAssumption DEF IInv, TypeOK, Points, KillWakes
<1>2. BlockInv'
  BY DEF IInv, BlockInv, KillWakes
<1>3. RefInv'
  BY SameUsers DEF IInv, RefInv, KillWakes
<1>4. LruInv'
  BY DEF IInv, LruInv, KillWakes
<1>5. UseInv'
  BY BufAssumption DEF IInv, TypeOK, UseInv, Owning, KillWakes
<1>6. FlagInv'
  BY BufAssumption
     DEF IInv, TypeOK, UseInv, FlagInv, Owning, KillWakes
<1>7. QueueInv'
  BY Requests
     DEF IInv, TypeOK, UseInv, QueueInv, Owning, idestart, KillWakes
<1>8. DataInv'
  BY DEF IInv, TypeOK, DataInv, KillWakes
<1>9. PinInv'
  <2>1. Pinned' \subseteq Pinned
    BY BufAssumption DEF IInv, TypeOK, UseInv, FlagInv, Owning, Pinned, KillWakes
  <2> QED BY <2>1, FewerPinned
<1> QED BY <1>1, <1>2, <1>3, <1>4, <1>5, <1>6, <1>7, <1>8, <1>9 DEF IInv

\* LogWrite preserves the invariant.
LEMMA LogWriteIInv ==
  ASSUME IInv, NEW p \in User, NEW v \in Val, LogWrite(p, v)
  PROVE  IInv'
<1>0. /\ buf[p] \in Buf /\ lock[buf[p]] = p /\ pc[p] = "held" /\ valid[buf[p]]
  BY BufOf DEF LogWrite, IInv, UseInv, FlagInv, Owning
<1>1. TypeOK'
  BY BufAssumption DEF IInv, TypeOK, Points, LogWrite
<1>2. BlockInv'
  BY DEF IInv, BlockInv, LogWrite
<1>3. RefInv'
  BY SameUsers DEF IInv, RefInv, LogWrite
<1>4. LruInv'
  BY DEF IInv, LruInv, LogWrite
<1>5. UseInv'
  BY BufAssumption DEF IInv, TypeOK, UseInv, Owning, LogWrite
<1>6. FlagInv'
  BY BufAssumption
     DEF IInv, TypeOK, UseInv, FlagInv, Owning, LogWrite
<1>7. QueueInv'
  <2>1. ASSUME NEW c \in Buf, lock[c] # None,
               pc[lock[c]] \in {"iosleep", "iowait"}
        PROVE  c # buf[p] /\ lock[c] # p
    BY <1>0, <2>1
  <2> QED BY <1>0, <2>1, SameQueue, Owner DEF IInv, TypeOK, LogWrite
<1>8. DataInv'
  BY DEF IInv, TypeOK, DataInv, LogWrite
<1>9. PinInv'
  <2> DEFINE b == buf[p]
             D == {c \in Buf : dirty[c]}
  <2>1. CASE dirty[b]
    <3>1. Pinned' \subseteq Pinned
      BY <1>0, <2>1 DEF IInv, TypeOK, Pinned, LogWrite
    <3> QED BY <3>1, FewerPinned
  <2>2. CASE ~dirty[b]
    <3>1. Pinned' \subseteq D \cup {b} /\ b \notin D
      BY <2>2 DEF IInv, TypeOK, Pinned, LogWrite
    <3>2. D \in SUBSET Buf /\ Pinned' \in SUBSET Buf
      BY DEF Pinned
    <3>3. Cardinality(D) < MaxDirty
      BY <2>2 DEF LogWrite
    <3> HIDE DEF D, b
    <3>4. IsFiniteSet(D) /\ Cardinality(D) \in Nat /\ Cardinality(Pinned') \in Nat
      BY <3>2, FiniteSets1
    <3>5. IsFiniteSet(D \cup {b}) /\ Cardinality(D \cup {b}) = Cardinality(D) + 1
      BY <3>1, <3>4, FS_AddElement
    <3>6. Cardinality(Pinned') <= Cardinality(D) + 1
      BY <3>1, <3>5, FS_Subset
    <3> QED BY <3>3, <3>4, <3>6, BufAssumption DEF PinInv
  <2> QED BY <2>1, <2>2
<1> QED BY <1>1, <1>2, <1>3, <1>4, <1>5, <1>6, <1>7, <1>8, <1>9 DEF IInv

\* bwrite preserves the invariant.
LEMMA BwriteIInv ==
  ASSUME IInv, NEW p \in User, NEW v \in Val, bwrite(p, v)
  PROVE  IInv'
<1>0. /\ buf[p] \in Buf /\ lock[buf[p]] = p /\ pc[p] = "held" /\ valid[buf[p]]
  BY BufOf DEF bwrite, IInv, UseInv, FlagInv, Owning
<1>1. TypeOK'
  BY BufAssumption DEF IInv, TypeOK, Points, bwrite
<1>2. BlockInv'
  BY DEF IInv, BlockInv, bwrite
<1>3. RefInv'
  BY SameUsers DEF IInv, RefInv, bwrite
<1>4. LruInv'
  BY DEF IInv, LruInv, bwrite
<1>5. UseInv'
  BY BufAssumption DEF IInv, TypeOK, UseInv, Owning, bwrite
<1>6. FlagInv'
  BY BufAssumption
     DEF IInv, TypeOK, UseInv, FlagInv, Owning, bwrite
<1>7. QueueInv'
  <2>1. ASSUME NEW c \in Buf, lock[c] # None,
               pc[lock[c]] \in {"iosleep", "iowait"}
        PROVE  c # buf[p] /\ lock[c] # p
    BY <1>0, <2>1
  <2> QED BY <1>0, <2>1, SameQueue, Owner DEF IInv, TypeOK, bwrite
<1>8. DataInv'
  BY DEF IInv, TypeOK, DataInv, bwrite
<1>9. PinInv'
  <2>1. Pinned' \subseteq Pinned
    BY BufAssumption DEF IInv, TypeOK, UseInv, FlagInv, Owning, Pinned, bwrite
  <2> QED BY <2>1, FewerPinned
<1> QED BY <1>1, <1>2, <1>3, <1>4, <1>5, <1>6, <1>7, <1>8, <1>9 DEF IInv

\* ReleaseSleep preserves the invariant.
LEMMA ReleaseIInv ==
  ASSUME IInv, NEW p \in User, ReleaseSleep(p)
  PROVE  IInv'
<1>1. TypeOK'
  BY BufAssumption DEF IInv, TypeOK, Points, ReleaseSleep, release_wakes
<1>2. BlockInv'
  BY DEF IInv, BlockInv, ReleaseSleep, release_wakes
<1>3. RefInv'
  BY SameUsers DEF IInv, RefInv, ReleaseSleep, release_wakes
<1>4. LruInv'
  BY DEF IInv, LruInv, ReleaseSleep, release_wakes
<1>5. UseInv'
  BY BufAssumption DEF IInv, TypeOK, UseInv, Owning, ReleaseSleep, release_wakes
<1>6. FlagInv'
  BY BufAssumption
     DEF IInv, TypeOK, UseInv, FlagInv, Owning, ReleaseSleep, release_wakes
<1>7. QueueInv'
  BY Requests
     DEF IInv, TypeOK, UseInv, QueueInv, Owning, idestart, ReleaseSleep, release_wakes
<1>8. DataInv'
  BY DEF IInv, TypeOK, DataInv, ReleaseSleep, release_wakes
<1>9. PinInv'
  <2>1. Pinned' \subseteq Pinned
    BY BufAssumption DEF IInv, TypeOK, UseInv, FlagInv, Owning, Pinned, ReleaseSleep, release_wakes
  <2> QED BY <2>1, FewerPinned
<1> QED BY <1>1, <1>2, <1>3, <1>4, <1>5, <1>6, <1>7, <1>8, <1>9 DEF IInv

\* brelse preserves the invariant.
LEMMA BrelseIInv ==
  ASSUME IInv, NEW p \in User, brelse(p)
  PROVE  IInv'
<1> DEFINE b == buf[p]
<1>0. b \in Buf /\ pc[p] = "unref" /\ b # None
  BY BufOf DEF brelse
<1>00. /\ refcnt' = [refcnt EXCEPT ![b] = @ - 1]
       /\ lru' = IF refcnt[b] - 1 = 0 THEN relinked(b) ELSE lru
       /\ pc' = [pc EXCEPT ![p] = "idle"] /\ buf' = [buf EXCEPT ![p] = None]
       /\ UNCHANGED <<flags, lock, bdata, device, ops, lost, panicked>>
  BY DEF brelse, dropped
<1> HIDE DEF b
<1>01. LruInv'
  BY <1>0, <1>00, Relinked DEF IInv
<1>02. /\ p \in Users(b)
       /\ \A c \in Buf : Users(c)' = IF c = b THEN Users(c) \ {p} ELSE Users(c)
  BY <1>0, <1>00, BufAssumption DEF Users, b, IInv, TypeOK
<1>03. /\ refcnt[b] = Cardinality(Users(b)) /\ refcnt[b] - 1 \in Nat
       /\ Cardinality(Users(b) \ {p}) = refcnt[b] - 1
  <2>1. Users(b) \in SUBSET User
    BY DEF Users
  <2>2. IsFiniteSet(Users(b)) /\ Cardinality(Users(b)) \in Nat
    BY <2>1, FiniteSets1
  <2>3. Cardinality(Users(b)) # 0
    BY <1>02, <2>2, FS_EmptySet
  <2>4. refcnt[b] = Cardinality(Users(b))
    BY <1>0 DEF IInv, RefInv
  <2>5. Cardinality(Users(b) \ {p}) = Cardinality(Users(b)) - 1
    BY <1>02, <2>2, FS_RemoveElement
  <2> QED BY <2>2, <2>3, <2>4, <2>5
<1>1. TypeOK'
  <2>1. refcnt' \in [Buf -> Nat]
    BY <1>0, <1>00, <1>03 DEF IInv, TypeOK
  <2>2. lru' \in Seq(Buf) /\ Len(lru') = NBUF
    <3>1. lru' \in [1 .. NBUF -> Buf] /\ NBUF \in Nat
      BY <1>01, BufAssumption DEF LruInv, Buf
    <3> QED BY <3>1
  <2> QED BY <1>00, <2>1, <2>2 DEF IInv, TypeOK, Points
<1>2. BlockInv'
  BY <1>00 DEF IInv, BlockInv
<1>3. RefInv'
  <2>1. ASSUME NEW c \in Buf
        PROVE  refcnt'[c] = Cardinality(Users(c)')
    <3>1. CASE c = b
      BY <1>00, <1>02, <1>03, <3>1 DEF IInv, TypeOK
    <3>2. CASE c # b
      BY <1>00, <1>02, <3>2 DEF IInv, TypeOK, RefInv
    <3> QED BY <3>1, <3>2
  <2> QED BY <2>1 DEF RefInv
<1>4. LruInv'
  BY <1>01
<1>5. UseInv'
  BY <1>0, <1>00, BufAssumption DEF IInv, TypeOK, UseInv, Owning
<1>6. FlagInv'
  BY <1>0, <1>00 DEF IInv, TypeOK, FlagInv
<1>7. QueueInv'
  <2>1. ASSUME NEW c \in Buf, lock[c] # None
        PROVE  lock[c] \in User /\ lock[c] # p /\ pc'[lock[c]] = pc[lock[c]]
    <3>1. lock[c] \in User /\ lock[c] # p
      BY <1>0, <2>1, Owner DEF Owning
    <3> QED BY <1>00, <3>1 DEF IInv, TypeOK
  <2> QED BY <1>00, <2>1, SameQueue
<1>8. DataInv'
  BY <1>00 DEF IInv, DataInv
<1>9. PinInv'
  <2>1. Pinned' \subseteq Pinned
    BY <1>0, <1>00 DEF IInv, TypeOK, UseInv, Owning, Pinned
  <2> QED BY <2>1, FewerPinned
<1> QED BY <1>1, <1>2, <1>3, <1>4, <1>5, <1>6, <1>7, <1>8, <1>9 DEF IInv

\* A step that changes nothing but panicked.
LEMMA PanicIInv ==
  ASSUME IInv, panicked' \in BOOLEAN,
         UNCHANGED <<flags, lock, refcnt, bdata, lru, device, pc, buf, ops, lost>>
  PROVE  IInv'
<1>1. TypeOK' /\ BlockInv' /\ LruInv' /\ UseInv' /\ FlagInv'
  BY DEF IInv, TypeOK, BlockInv, LruInv, UseInv, FlagInv
<1>2. QueueInv' /\ DataInv'
  BY DEF IInv, QueueInv, DataInv, idestart
<1>3. RefInv' /\ PinInv'
  BY DEF IInv, RefInv, PinInv, Users, Pinned
<1> QED BY <1>1, <1>2, <1>3 DEF IInv

\* Every step preserves the invariant.
LEMMA NextIInv ==
  ASSUME IInv, [Next]_vars
  PROVE  IInv'
<1>1. CASE UNCHANGED vars
  BY <1>1, PanicIInv DEF vars, IInv, TypeOK
<1>2. ASSUME NEW p \in User, NEW k \in Block, BgetPanic(p, k)
      PROVE  IInv'
  BY <1>2, PanicIInv DEF BgetPanic
<1>3. CASE Next
  BY <1>1, <1>2, <1>3, BgetHitIInv, BgetMissIInv, AcquireIInv, IderwIInv,
     IdeintrIInv, IoWaitIInv, KillIInv, LogWriteIInv, BwriteIInv, ReleaseIInv,
     BrelseIInv
     DEF Next, Over
<1> QED BY <1>1, <1>3

\* The initial states satisfy the invariant.
LEMMA InitIInv ==
  ASSUME Init PROVE IInv
<1>0. NBUF \in Nat /\ NBUF >= 1 /\ None \notin Buf
  BY BufAssumption
<1>1. LruInv
  BY <1>0 DEF Init, LruInv, Buf
<1>2. TypeOK
  <2>1. lru \in Seq(Buf) /\ Len(lru) = NBUF
    <3>1. lru \in [1 .. NBUF -> Buf] /\ NBUF \in Nat
      BY <1>0, <1>1 DEF LruInv, Buf
    <3> QED BY <3>1
  <2>2. disk \in [Block -> Val] /\ bdata \in [Buf -> Val]
    BY DEF Init
  <2>3. ops \in [User -> 0 .. MaxOps]
    BY BufAssumption DEF Init
  <2>4. panicked \in BOOLEAN
    <3>1. panicked = FALSE
      BY DEF Init
    <3> QED BY <3>1, Zenon
  <2> QED BY <2>1, <2>2, <2>3, <2>4 DEF Init, TypeOK, Points
<1>3. RefInv
  <2>1. \A b \in Buf : Users(b) = {}
    BY <1>0 DEF Init, Users
  <2> QED BY <2>1, FS_EmptySet DEF Init, RefInv
<1>4. PinInv
  <2>1. Pinned = {}
    BY DEF Init, Pinned
  <2> QED BY <2>1, FS_EmptySet, BufAssumption DEF PinInv
<1>5. BlockInv /\ UseInv /\ FlagInv /\ DataInv
  BY BufAssumption DEF Init, BlockInv, UseInv, FlagInv, DataInv, Owning
<1>6. QueueInv
  BY DEF Init, QueueInv
<1> QED BY <1>1, <1>2, <1>3, <1>4, <1>5, <1>6 DEF IInv

\* The invariant holds in every reachable state.
THEOREM Invariant == Spec => []IInv
  BY InitIInv, NextIInv, PTL DEF Spec

-----------------------------------------------------------------------------
(***************************************************************************)
(* What the invariant says.                                                *)
(***************************************************************************)

\* bget: a block never has two buffers, refcnt counts the users from bget to
\*  the end of brelse, and brelse keeps every buffer in the list.
THEOREM ReferencesExact == Spec => []References
<1>1. ASSUME IInv PROVE References
  <2>1. TypeOK
    BY <1>1 DEF IInv
  <2>2. ASSUME NEW k \in Block PROVE Cardinality(BufsOf(k)) <= 1
    <3>1. CASE BufsOf(k) = {}
      BY <3>1, FS_EmptySet
    <3>2. CASE BufsOf(k) # {}
      <4>1. PICK b \in Buf : blockno[b] = k
        BY <3>2 DEF BufsOf
      <4>2. BufsOf(k) = {b}
        BY <1>1, <4>1, BufAssumption DEF BufsOf, IInv, BlockInv
      <4> QED BY <4>2, FS_Singleton
    <3> QED BY <3>1, <3>2
  <2>3. \A b \in Buf : refcnt[b] = Cardinality({p \in User : buf[p] = b})
    BY <1>1 DEF IInv, RefInv, Users
  <2>4. ToSet(lru) = Buf
    <3>1. DOMAIN lru = Buf
      BY <1>1 DEF IInv, LruInv
    <3> QED BY <1>1, <3>1 DEF IInv, LruInv, ToSet
  <2> QED BY <2>1, <2>2, <2>3, <2>4 DEF References
<1> QED BY <1>1, Invariant, PTL

\* iderw and ideintr: every request is in the queue once and its owner waits for
\* it, and the disk works on the first one.
THEOREM QueueIsExact == Spec => []RequestsExact
<1>1. ASSUME IInv PROVE RequestsExact
  <2>1. DOMAIN idequeue = 1 .. Len(idequeue)
    BY <1>1 DEF IInv, TypeOK
  <2>2. ASSUME NEW b \in ToSet(idequeue)
        PROVE  /\ lock[b] # None /\ buf[lock[b]] = b
               /\ pc[lock[b]] \in {"iosleep", "iowait"}
    <3>1. PICK k \in 1 .. Len(idequeue) : idequeue[k] = b
      BY <2>1 DEF ToSet
    <3> QED BY <1>1, <3>1, Requests DEF IInv, QueueInv
  <2>3. IsInjective(idequeue)
    BY <1>1, <2>1 DEF IInv, QueueInv, IsInjective
  <2>4. command = IF idequeue = << >> THEN None ELSE idestart(Head(idequeue))
    BY <1>1 DEF IInv, QueueInv
  <2> QED BY <2>2, <2>3, <2>4 DEF RequestsExact
<1> QED BY <1>1, Invariant, PTL

\* acquiresleep and iderw: nobody sleeps without the event that wakes it to
\* come: another user has the lock, or the request is in the queue.
THEOREM NoLostSleeper == Spec => []SleepersHaveReason
<1>1. ASSUME IInv PROVE SleepersHaveReason
  <2>1. DOMAIN idequeue = 1 .. Len(idequeue)
    BY <1>1 DEF IInv, TypeOK
  <2>2. ASSUME NEW p \in User, pc[p] = "locksleep"
        PROVE  lock[buf[p]] \notin {None, p}
    <3>1. buf[p] \in Buf
      BY <1>1, <2>2, BufOf
    <3>2. lock[buf[p]] # p
      BY <1>1, <2>2, <3>1 DEF IInv, UseInv, Owning
    <3> QED BY <1>1, <2>2, <3>2 DEF IInv, FlagInv
  <2>3. ASSUME NEW p \in User, pc[p] = "iosleep"
        PROVE  buf[p] \in ToSet(idequeue)
    BY <1>1, <2>1, <2>3 DEF IInv, FlagInv, ToSet
  <2> QED BY <2>2, <2>3 DEF SleepersHaveReason
<1> QED BY <1>1, Invariant, PTL

\* A buffer that bget may not recycle is in use by a user, or pinned.
LEMMA NotFree ==
  ASSUME IInv, NEW b \in Buf, ~recyclable(b)
  PROVE  b \in Pinned \/ \E p \in User : pc[p] # "idle" /\ buf[p] = b
<1>1. CASE refcnt[b] # 0
  <2>1. Users(b) # {}
    BY <1>1, FS_EmptySet DEF IInv, RefInv
  <2>2. PICK p \in User : buf[p] = b
    BY <2>1 DEF Users
  <2> QED BY <2>2, BufAssumption DEF IInv, UseInv
<1>2. CASE refcnt[b] = 0
  BY <1>2, Unreferenced DEF recyclable, Pinned
<1> QED BY <1>1, <1>2

\* The step at which bget panics is at a full cache.
LEMMA PanicFull ==
  ASSUME IInv, NEW p \in User, NEW k \in Block, BgetPanic(p, k)
  PROVE  PanicMeansFull'
<1>1. \A b \in Buf : ~recyclable(b)
  BY DEF BgetPanic, Free, IInv, LruInv
<1>2. \A b \in Buf : dirty[b] \/ \E q \in User : buf[q] = b
  BY <1>1, NotFree DEF Pinned
<1> QED BY <1>2 DEF BgetPanic, PanicMeansFull

\* A step that changes no buffer's user and clears no B_DIRTY of a buffer
\* without one.
LEMMA StaysFull ==
  ASSUME PanicMeansFull, UNCHANGED <<buf, panicked>>,
         \A b \in Buf : dirty[b] => dirty'[b] \/ \E p \in User : buf[p] = b
  PROVE  PanicMeansFull'
  BY DEF PanicMeansFull

\* bget panics only when every buffer is in use or pinned, and from then on
\* none becomes free: what ideintr writes back has an owner.
THEOREM PanicOnlyWhenFull == Spec => []PanicMeansFull
<1>1. Init => PanicMeansFull
  BY DEF Init, PanicMeansFull
<1>2. ASSUME IInv, PanicMeansFull, [Next]_vars
      PROVE  PanicMeansFull'
  <2>1. ASSUME NEW p \in User,
               \/ \E k \in Block : BgetHit(p, k) \/ BgetMiss(p, k)
               \/ brelse(p)
        PROVE  PanicMeansFull'
    BY <2>1 DEF BgetHit, BgetMiss, brelse, PanicMeansFull
  <2>2. ASSUME NEW p \in User,
               \/ AcquireSleep(p) \/ iderw(p) \/ IoWait(p) \/ KillWakes(p)
               \/ ReleaseSleep(p)
        PROVE  PanicMeansFull'
    <3>1. UNCHANGED <<dirty, buf, panicked>>
      BY <2>2 DEF AcquireSleep, iderw, IoWait, KillWakes, ReleaseSleep
    <3> QED BY <1>2, <3>1, StaysFull
  <2>3. ASSUME NEW p \in User, NEW v \in Val, LogWrite(p, v) \/ bwrite(p, v)
        PROVE  PanicMeansFull'
    <3>1. UNCHANGED <<buf, panicked>> /\ dirty' = [dirty EXCEPT ![buf[p]] = TRUE]
      BY <2>3 DEF LogWrite, bwrite
    <3>2. \A b \in Buf : dirty[b] => dirty'[b]
      BY <1>2, <3>1 DEF IInv, TypeOK
    <3> QED BY <1>2, <3>1, <3>2, StaysFull
  <2>4. CASE ideintr
    <3> DEFINE b == Head(idequeue)
    <3>1. UNCHANGED <<buf, panicked>> /\ dirty' = [dirty EXCEPT ![b] = FALSE]
          /\ command # None
      BY <2>4 DEF ideintr
    <3>2. b = idequeue[1] /\ 1 \in 1 .. Len(idequeue)
      BY <1>2, <3>1 DEF IInv, TypeOK, QueueInv
    <3>3. \E p \in User : buf[p] = b
      BY <1>2, <3>2, Requests
    <3> HIDE DEF b
    <3>4. \A c \in Buf : dirty[c] => dirty'[c] \/ \E p \in User : buf[p] = c
      BY <1>2, <3>1, <3>3 DEF IInv, TypeOK
    <3> QED BY <1>2, <3>1, <3>4, StaysFull
  <2>5. CASE UNCHANGED vars
    BY <1>2, <2>5, StaysFull DEF vars
  <2> QED BY <1>2, <2>1, <2>2, <2>3, <2>4, <2>5, PanicFull DEF Next, Over
<1> QED BY <1>1, <1>2, Invariant, PTL DEF Spec

\* How many users a panic takes: one for every buffer but those that the log
\* pins, which are at most MaxDirty.
THEOREM PanicNeedsUsers ==
  Spec => [](panicked => Cardinality({p \in User : buf[p] # None})
                           >= NBUF - MaxDirty)
<1>1. ASSUME IInv, PanicMeansFull, panicked
      PROVE  Cardinality({p \in User : buf[p] # None}) >= NBUF - MaxDirty
  <2> DEFINE Busy == {p \in User : buf[p] # None}
             Used == {b \in Buf : \E q \in Busy : buf[q] = b}
             user == [b \in Used |-> CHOOSE q \in Busy : buf[q] = b]
  <2>1. Buf = Used \cup Pinned
    <3>1. ASSUME NEW b \in Buf, \A q \in Busy : buf[q] # b
          PROVE  b \in Pinned
      <4>1. \A q \in User : buf[q] # b
        BY <3>1, BufAssumption
      <4>2. dirty[b]
        BY <1>1, <4>1 DEF PanicMeansFull
      <4>3. lock[b] = None
        BY <1>1, <4>1, Owner
      <4> QED BY <4>2, <4>3 DEF Pinned
    <3> QED BY <3>1 DEF Pinned
  <2>3. user \in Injection(Used, Busy)
    <3>1. ASSUME NEW b \in Used PROVE user[b] \in Busy /\ buf[user[b]] = b
      OBVIOUS
    <3>2. user \in [Used -> Busy] /\ \A a, b \in Used : user[a] = user[b] => a = b
      BY <3>1
    <3> QED BY <3>2 DEF Injection, IsInjective
  <2>4. /\ IsFiniteSet(Busy) /\ IsFiniteSet(Used)
        /\ IsFiniteSet(Pinned) /\ IsFiniteSet(Used \cap Pinned)
    <3>1. /\ Busy \in SUBSET User /\ Used \in SUBSET Buf /\ Pinned \in SUBSET Buf
          /\ Used \cap Pinned \in SUBSET Buf
      BY DEF Pinned
    <3> QED BY <3>1, FiniteSets1
  <2>5. Cardinality(Used) <= Cardinality(Busy)
    <3> HIDE DEF Used, user, Busy
    <3> QED BY <2>3, <2>4, FS_Injection
  <2>7. Cardinality(Buf) = NBUF
    <3>1. 1 \in Int /\ NBUF \in Int /\ 1 <= NBUF
      BY BufAssumption
    <3>2. Cardinality(1 .. NBUF) = IF 1 > NBUF THEN 0 ELSE NBUF - 1 + 1
      BY <3>1, FS_Interval
    <3> QED BY <3>1, <3>2 DEF Buf
  <2>8. Cardinality(Buf)
          = Cardinality(Used) + Cardinality(Pinned) - Cardinality(Used \cap Pinned)
    <3> HIDE DEF Used
    <3> QED BY <2>1, <2>4, FS_Union
  <2>9. /\ Cardinality(Busy) \in Nat
        /\ Cardinality(Used) \in Nat /\ Cardinality(Pinned) \in Nat
        /\ Cardinality(Used \cap Pinned) \in Nat
    BY <2>4, FS_CardinalityType
  <2>10. Cardinality(Pinned) <= MaxDirty /\ MaxDirty \in Nat /\ NBUF \in Nat
    BY <1>1, BufAssumption DEF IInv, PinInv
  <2> HIDE DEF Used, Busy
  <2>11. Cardinality(Busy) >= NBUF - MaxDirty
    BY <2>5, <2>7, <2>8, <2>9, <2>10
  <2> QED BY <2>11 DEF Busy
<1> QED BY <1>1, Invariant, PanicOnlyWhenFull, PTL

-----------------------------------------------------------------------------
(***************************************************************************)
(* The cache implements BlockStore.  What BlockStore sees, as operators of *)
(* the cache's state, so that the same lemma serves before and after.      *)
(***************************************************************************)

Held(lk, bn, va) ==
  {o \in User \X Block :
     \E b \in Buf : /\ lk[b] = o[1] /\ bn[b] = o[2]
                   /\ va[b]}

Contents(bn, va, bd, dk, ls) ==
  [k \in Block |->
     IF k \in ls THEN None
     ELSE IF \E b \in {b \in Buf : bn[b] = k} : va[b]
     THEN bd[CHOOSE b \in {b \in Buf : bn[b] = k} : va[b]]
     ELSE dk[k]]

\* The contents of a block, by its one buffer or by the disk.
LEMMA ContentsAt ==
  ASSUME NEW bn, NEW va, NEW bd, NEW dk, NEW ls, NEW k \in Block,
         \A a, b \in Buf : bn[a] = bn[b] /\ bn[a] # None => a = b
  PROVE  /\ k \in ls => Contents(bn, va, bd, dk, ls)[k] = None
         /\ k \notin ls => \A b \in Buf : bn[b] = k =>
              Contents(bn, va, bd, dk, ls)[k] = IF va[b] THEN bd[b] ELSE dk[k]
         /\ k \notin ls /\ (\A b \in Buf : bn[b] # k) =>
              Contents(bn, va, bd, dk, ls)[k] = dk[k]
<1>1. k # None
  BY BufAssumption
<1>2. ASSUME NEW b \in Buf, bn[b] = k, va[b]
      PROVE  (CHOOSE c \in {c \in Buf : bn[c] = k} : va[c]) = b
  <2>1. b \in {c \in Buf : bn[c] = k} /\ va[b]
    BY <1>2
  <2>2. \A c \in {c \in Buf : bn[c] = k} : c = b
    BY <1>1, <1>2
  <2> QED BY <2>1, <2>2
<1>3. ASSUME NEW b \in Buf, bn[b] = k, ~va[b]
      PROVE  ~ \E c \in {c \in Buf : bn[c] = k} : va[c]
  BY <1>1, <1>3
<1> QED BY <1>2, <1>3 DEF Contents

\* A user gets a block that nobody has.
LEMMA HeldMore ==
  ASSUME NEW lk, NEW lk2, NEW bn, NEW va, NEW va2, NEW b \in Buf,
         NEW p \in User, bn[b] \in Block,
         \A a, c \in Buf : bn[a] = bn[c] /\ bn[a] # None => a = c,
         lk[b] = None \/ ~va[b], lk2[b] = p, va2[b],
         \A c \in Buf : c # b => lk2[c] = lk[c] /\ va2[c] = va[c]
  PROVE  /\ \A q \in User : <<q, bn[b]>> \notin Held(lk, bn, va)
         /\ Held(lk2, bn, va2) = Held(lk, bn, va) \cup {<<p, bn[b]>>}
<1>0. None \notin User /\ None \notin Block
  BY BufAssumption
<1>1. ASSUME NEW q \in User, <<q, bn[b]>> \in Held(lk, bn, va)
      PROVE  FALSE
  <2>1. PICK c \in Buf : lk[c] = q /\ bn[c] = bn[b] /\ va[c]
    BY <1>1 DEF Held
  <2> QED BY <1>0, <2>1
<1>2. ASSUME NEW q \in User, NEW k \in Block
      PROVE  <<q, k>> \in Held(lk2, bn, va2)
               <=> <<q, k>> \in Held(lk, bn, va) \/ (q = p /\ k = bn[b])
  <2>1. \A x, y, z : <<q, k>> \in Held(x, y, z)
                       <=> \E c \in Buf : x[c] = q /\ y[c] = k /\ z[c]
    BY DEF Held
  <2>2. CASE k = bn[b]
    BY <1>0, <2>1, <2>2
  <2>3. CASE k # bn[b]
    BY <2>1, <2>3
  <2> QED BY <2>2, <2>3
<1>3. /\ Held(lk2, bn, va2) \subseteq User \X Block
      /\ Held(lk, bn, va) \subseteq User \X Block
      /\ {<<p, bn[b]>>} \subseteq User \X Block
  BY DEF Held
<1>4. ASSUME NEW o \in User \X Block
      PROVE  o \in Held(lk2, bn, va2) <=> o \in Held(lk, bn, va) \/ o = <<p, bn[b]>>
  <2>1. o = <<o[1], o[2]>> /\ o[1] \in User /\ o[2] \in Block
    OBVIOUS
  <2> QED BY <1>2, <2>1
<1> QED BY <1>1, <1>3, <1>4

\* A user lets go of a block.
LEMMA HeldLess ==
  ASSUME NEW lk, NEW lk2, NEW bn, NEW va, NEW b \in Buf, NEW p \in User,
         bn[b] \in Block,
         \A a, c \in Buf : bn[a] = bn[c] /\ bn[a] # None => a = c,
         lk[b] = p, lk2[b] = None,
         \A c \in Buf : c # b => lk2[c] = lk[c]
  PROVE  Held(lk2, bn, va) = Held(lk, bn, va) \ {<<p, bn[b]>>}
<1>0. None \notin User /\ None \notin Block
  BY BufAssumption
<1>2. ASSUME NEW q \in User, NEW k \in Block
      PROVE  <<q, k>> \in Held(lk2, bn, va)
               <=> <<q, k>> \in Held(lk, bn, va) /\ ~(q = p /\ k = bn[b])
  <2>1. \A x, y, z : <<q, k>> \in Held(x, y, z)
                       <=> \E c \in Buf : x[c] = q /\ y[c] = k /\ z[c]
    BY DEF Held
  <2>2. CASE k = bn[b]
    BY <1>0, <2>1, <2>2
  <2>3. CASE k # bn[b]
    BY <2>1, <2>3
  <2> QED BY <2>2, <2>3
<1>3. /\ Held(lk2, bn, va) \subseteq User \X Block
      /\ Held(lk, bn, va) \subseteq User \X Block
  BY DEF Held
<1>4. ASSUME NEW o \in User \X Block
      PROVE  o \in Held(lk2, bn, va) <=> o \in Held(lk, bn, va) /\ o # <<p, bn[b]>>
  <2>1. o = <<o[1], o[2]>> /\ o[1] \in User /\ o[2] \in Block
    OBVIOUS
  <2> QED BY <1>2, <2>1
<1> QED BY <1>3, <1>4

\* What BlockStore sees before and after a step.
LEMMA Seen ==
  /\ Content = Contents(blockno, valid, bdata, disk, lost)
  /\ Content' = Contents(blockno', valid', bdata', disk', lost')
  BY DEF Content, Contents, BufsOf

\* The contents that BlockStore sees of a block.
LEMMA SeenAt ==
  ASSUME IInv, IInv', NEW k \in Block
  PROVE  /\ k \in lost => Content[k] = None
         /\ k \notin lost => \A b \in Buf : blockno[b] = k =>
              Content[k] = IF valid[b] THEN bdata[b] ELSE disk[k]
         /\ k \notin lost /\ (\A b \in Buf : blockno[b] # k) => Content[k] = disk[k]
         /\ k \in lost' => Content'[k] = None
         /\ k \notin lost' => \A b \in Buf : blockno'[b] = k =>
              Content'[k] = IF valid'[b] THEN bdata'[b] ELSE disk'[k]
         /\ k \notin lost' /\ (\A b \in Buf : blockno'[b] # k)
              => Content'[k] = disk'[k]
<1>1. /\ \A a, b \in Buf : blockno[a] = blockno[b] /\ blockno[a] # None => a = b
      /\ \A a, b \in Buf : blockno'[a] = blockno'[b] /\ blockno'[a] # None => a = b
  BY DEF IInv, BlockInv
<1> QED BY <1>1, Seen, ContentsAt

\* A step that keeps the locks, the flags and the data is no step of BlockStore.
LEMMA Unseen ==
  ASSUME UNCHANGED <<blockno, valid, bdata, disk, lost, lock>>
  PROVE  UNCHANGED Store!svars
  BY DEF Store!svars, Content, BufsOf

\* A step of BlockStore, in the terms of the lemmas above.
LEMMA StoreStep ==
  ASSUME NEW p \in User, NEW k \in Block,
         LET c  == Content
             c2 == Content'
             o  == Held(lock, blockno, valid)
             o2 == Held(lock', blockno', valid')
         IN  \/ /\ \A q \in User : <<q, k>> \notin o
                /\ o2 = o \cup {<<p, k>>} /\ (c2 = c \/ c2 = [c EXCEPT ![k] = None])
             \/ /\ <<p, k>> \in o /\ c[k] # None /\ o2 = o
                /\ \E v \in Val : c2 = [c EXCEPT ![k] = v]
             \/ <<p, k>> \in o /\ o2 = o \ {<<p, k>>} /\ c2 = c
  PROVE  Store!SNext
<1> DEFINE o == {x \in User \X Block :
                   \E b \in Buf : /\ lock[b] = x[1] /\ blockno[b] = x[2]
                                 /\ valid[b]}
<1>1. o = Held(lock, blockno, valid) /\ o' = Held(lock', blockno', valid')
  BY DEF Held
<1> HIDE DEF o
<1>2. CASE /\ \A q \in User : <<q, k>> \notin o
           /\ o' = o \cup {<<p, k>>} /\ Content' = Content
  <2>1. Store!Acquire(p, k)
    BY <1>2 DEF Store!Acquire, o
  <2> QED BY <2>1 DEF Store!SNext
<1>3. CASE /\ \A q \in User : <<q, k>> \notin o
           /\ o' = o \cup {<<p, k>>} /\ Content' = [Content EXCEPT ![k] = None]
  <2>1. Store!AcquireLost(p, k)
    BY <1>3 DEF Store!AcquireLost, o
  <2> QED BY <2>1 DEF Store!SNext
<1>4. CASE <<p, k>> \in o /\ Content[k] # None /\ o' = o
           /\ \E v \in Val : Content' = [Content EXCEPT ![k] = v]
  <2>1. PICK v \in Val : Content' = [Content EXCEPT ![k] = v]
    BY <1>4
  <2>2. Store!Update(p, k, v)
    BY <1>4, <2>1 DEF Store!Update, o
  <2> QED BY <2>2 DEF Store!SNext
<1>5. CASE <<p, k>> \in o /\ o' = o \ {<<p, k>>} /\ Content' = Content
  <2>1. Store!Release(p, k)
    BY <1>5 DEF Store!Release, o
  <2> QED BY <2>1 DEF Store!SNext
<1> QED BY <1>1, <1>2, <1>3, <1>4, <1>5

\* Recycling a buffer: what it held is on the disk.
LEMMA MissUnseen ==
  ASSUME IInv, IInv', NEW p \in User, NEW k \in Block, BgetMiss(p, k)
  PROVE  UNCHANGED Store!svars
<1>1. PICK b \in Buf :
        /\ refcnt[b] = 0 /\ ~dirty[b]
        /\ blockno' = [blockno EXCEPT ![b] = k]
        /\ valid' = [valid EXCEPT ![b] = FALSE]
  <2>1. Max(Free) \in Free /\ Free \in SUBSET Buf
    BY LastBuf DEF Free, BgetMiss
  <2>2. lru[Max(Free)] \in Buf /\ refcnt[lru[Max(Free)]] = 0 /\ ~dirty[lru[Max(Free)]]
    BY <2>1 DEF Free, recyclable, IInv, LruInv
  <2> QED BY <2>2 DEF BgetMiss
<1>2. /\ \A c \in Buf : blockno[c] # k
      /\ UNCHANGED <<lock, bdata, disk, lost>>
  BY DEF BgetMiss, bget_missed, BufsOf
<1>3. lock[b] = None
  BY <1>1, Unreferenced
<1>4. /\ \A c \in Buf : c # b => blockno'[c] = blockno[c] /\ valid'[c] = valid[c]
      /\ blockno'[b] = k /\ ~valid'[b]
  BY <1>1 DEF IInv, TypeOK
<1>5. Content' = Content
  <2>1. ASSUME NEW m \in Block PROVE Content'[m] = Content[m]
    <3>3. CASE m \in lost
      BY <1>2, <3>3, SeenAt
    <3>4. CASE m \notin lost /\ m = k
      BY <1>2, <1>4, <3>4, SeenAt
    <3>5. CASE m \notin lost /\ m = blockno[b] /\ m # k
      <4>1. Content'[m] = disk[m]
        <5>1. \A c \in Buf : blockno'[c] # m
          BY <1>4, <3>5, BufAssumption DEF IInv, BlockInv
        <5> QED BY <1>2, <3>5, <5>1, SeenAt
      <4>2. valid[b] => bdata[b] = disk[m]
        BY <1>1, <3>5 DEF IInv, DataInv
      <4> QED BY <3>5, <4>1, <4>2, SeenAt
    <3>6. CASE m \notin lost /\ m # blockno[b] /\ m # k
      BY <1>2, <1>4, <3>6, SeenAt
    <3> QED BY <3>3, <3>4, <3>5, <3>6
  <2> QED BY <2>1 DEF Content
<1>6. \A q \in User : \A c \in Buf :
        lock'[c] = q => c # b /\ blockno'[c] = blockno[c] /\ valid'[c] = valid[c]
  BY <1>2, <1>3, <1>4, BufAssumption
<1>7. \A q \in User, m \in Block : \A c \in Buf :
        (lock'[c] = q /\ blockno'[c] = m /\ valid'[c])
          <=> (lock[c] = q /\ blockno[c] = m /\ valid[c])
  BY <1>2, <1>6
<1> QED BY <1>5, <1>7 DEF Store!svars

\* A user that finds the block valid acquires it.
LEMMA AcquireStep ==
  ASSUME IInv, IInv', NEW p \in User, AcquireSleep(p)
  PROVE  Store!SNext \/ UNCHANGED Store!svars
<1>1. PICK b \in Buf : b = buf[p] /\ blockno[b] \in Block
  BY BufOf DEF AcquireSleep
<1>2. UNCHANGED <<blockno, valid, bdata, disk, lost>>
  BY DEF AcquireSleep
<1>3. CASE lock[b] # None
  <2>1. lock' = lock
    BY <1>1, <1>3 DEF AcquireSleep
  <2> QED BY <1>2, <2>1, Unseen
<1>4. CASE lock[b] = None
  <2>1. lock' = [lock EXCEPT ![b] = p]
    BY <1>1, <1>4 DEF AcquireSleep
  <2>2. lock'[b] = p /\ \A c \in Buf : c # b => lock'[c] = lock[c]
    BY <2>1 DEF IInv, TypeOK
  <2>3. Content' = Content
    BY <1>2 DEF Content, BufsOf
  <2>4. CASE valid[b]
    <3>1. /\ \A q \in User : <<q, blockno[b]>> \notin Held(lock, blockno, valid)
          /\ Held(lock', blockno, valid)
               = Held(lock, blockno, valid) \cup {<<p, blockno[b]>>}
      <4>1. \A a, c \in Buf : blockno[a] = blockno[c] /\ blockno[a] # None => a = c
        BY DEF IInv, BlockInv
      <4> QED BY <1>1, <1>4, <2>2, <2>4, <4>1, HeldMore
    <3> QED BY <1>1, <1>2, <2>3, <3>1, StoreStep
  <2>5. CASE ~valid[b]
    <3>1. \A q \in User, m \in Block : \A c \in Buf :
            (lock'[c] = q /\ blockno'[c] = m /\ valid'[c])
              <=> (lock[c] = q /\ blockno[c] = m /\ valid[c])
      BY <1>2, <2>2, <2>5
    <3> QED BY <2>3, <3>1 DEF Store!svars
  <2> QED BY <2>4, <2>5
<1> QED BY <1>3, <1>4

\* The owner of a block changes it, unless the block was lost.
LEMMA WriteStep ==
  ASSUME IInv, IInv', NEW p \in User, NEW v \in Val,
         LogWrite(p, v) \/ bwrite(p, v)
  PROVE  Store!SNext \/ UNCHANGED Store!svars
<1>1. PICK b \in Buf : b = buf[p] /\ blockno[b] \in Block
  BY BufOf DEF LogWrite, bwrite
<1>2. /\ UNCHANGED <<blockno, valid, lock, disk, lost>> /\ pc[p] = "held"
      /\ bdata' = [bdata EXCEPT ![b] = v]
  BY <1>1 DEF LogWrite, bwrite
<1>3. lock[b] = p /\ valid[b]
  BY <1>1, <1>2 DEF IInv, UseInv, FlagInv, Owning
<1>4. bdata'[b] = v /\ \A c \in Buf : c # b => bdata'[c] = bdata[c]
  BY <1>2 DEF IInv, TypeOK
<1>5. \A m \in Block : m # blockno[b] => Content'[m] = Content[m]
  <2>1. ASSUME NEW m \in Block, m # blockno[b]
        PROVE  Content'[m] = Content[m]
    <3>1. CASE \E c \in Buf : blockno[c] = m
      BY <1>2, <1>4, <2>1, <3>1, SeenAt
    <3>2. CASE ~ \E c \in Buf : blockno[c] = m
      BY <1>2, <3>2, SeenAt
    <3> QED BY <3>1, <3>2
  <2> QED BY <2>1
<1>6. CASE blockno[b] \in lost
  <2>1. Content'[blockno[b]] = Content[blockno[b]]
    BY <1>1, <1>2, <1>6, SeenAt
  <2>2. Content' = Content
    BY <1>5, <2>1 DEF Content
  <2> QED BY <1>2, <2>2 DEF Store!svars
<1>7. CASE blockno[b] \notin lost
  <2>1. Content'[blockno[b]] = v /\ Content[blockno[b]] = bdata[b]
    BY <1>1, <1>2, <1>3, <1>4, <1>7, SeenAt
  <2>2. Content' = [Content EXCEPT ![blockno[b]] = v]
    <3>1. /\ Content = [m \in Block |-> Content[m]]
          /\ Content' = [m \in Block |-> Content'[m]]
      BY DEF Content
    <3>2. \A m \in Block :
            Content'[m] = IF m = blockno[b] THEN v ELSE Content[m]
      BY <1>5, <2>1
    <3> QED BY <3>1, <3>2
  <2>3. Content[blockno[b]] # None
    BY <2>1, BufAssumption DEF IInv, TypeOK
  <2>4. <<p, blockno[b]>> \in Held(lock, blockno, valid)
    BY <1>1, <1>3 DEF Held
  <2> QED BY <1>1, <1>2, <2>2, <2>3, <2>4, StoreStep
<1> QED BY <1>6, <1>7

\* releasesleep gives the block back.
LEMMA ReleaseStep ==
  ASSUME IInv, IInv', NEW p \in User, ReleaseSleep(p)
  PROVE  Store!SNext
<1>1. PICK b \in Buf : b = buf[p] /\ blockno[b] \in Block
  BY BufOf DEF ReleaseSleep
<1>2. /\ UNCHANGED <<blockno, valid, bdata, disk, lost>> /\ pc[p] = "held"
      /\ lock' = [lock EXCEPT ![b] = None]
  BY <1>1 DEF ReleaseSleep
<1>3. lock[b] = p /\ valid[b]
  BY <1>1, <1>2 DEF IInv, UseInv, FlagInv, Owning
<1>4. lock'[b] = None /\ \A c \in Buf : c # b => lock'[c] = lock[c]
  BY <1>2 DEF IInv, TypeOK
<1>5. Content' = Content
  BY <1>2 DEF Content, BufsOf
<1>6. /\ <<p, blockno[b]>> \in Held(lock, blockno, valid)
      /\ Held(lock', blockno, valid)
           = Held(lock, blockno, valid) \ {<<p, blockno[b]>>}
  <2>1. \A a, c \in Buf : blockno[a] = blockno[c] /\ blockno[a] # None => a = c
    BY DEF IInv, BlockInv
  <2>2. /\ lock[b] = p /\ valid[b] /\ blockno[b] \in Block /\ lock'[b] = None
        /\ \A c \in Buf : c # b => lock'[c] = lock[c]
    BY <1>1, <1>3, <1>4
  <2>3. <<p, blockno[b]>> \in Held(lock, blockno, valid)
    BY <2>2 DEF Held
  <2>4. Held(lock', blockno, valid)
          = Held(lock, blockno, valid) \ {<<p, blockno[b]>>}
    BY <2>1, <2>2, HeldLess
  <2> QED BY <2>3, <2>4
<1> QED BY <1>1, <1>2, <1>5, <1>6, StoreStep

\* The end of a read gives the block to the user that reads it; the end of a
\* write does not show.
LEMMA IdeintrStep ==
  ASSUME IInv, IInv', ideintr
  PROVE  Store!SNext \/ UNCHANGED Store!svars
<1>1. PICK b \in Buf : /\ b = Head(idequeue) /\ b = idequeue[1]
                       /\ 1 \in 1 .. Len(idequeue)
                       /\ command = idestart(b)
  <2>1. idequeue # << >>
    BY DEF ideintr, IInv, QueueInv
  <2>2. Head(idequeue) = idequeue[1] /\ 1 \in 1 .. Len(idequeue)
    BY <2>1 DEF IInv, TypeOK
  <2> QED BY <2>1, <2>2, Requests DEF IInv, QueueInv
<1>2. PICK p \in User : lock[b] = p /\ buf[p] = b /\ pc[p] # "idle"
  <2>1. /\ lock[b] \in User /\ buf[lock[b]] = b
        /\ pc[lock[b]] \in {"iosleep", "iowait"}
    BY <1>1, Requests DEF IInv, QueueInv
  <2> QED BY <2>1
<1>3. ~valid[b] \/ dirty[b]
  BY <1>1 DEF IInv, QueueInv
<1>4. PICK k \in Block : k = blockno[b]
  BY <1>2, BufOf
<1>5. /\ command.block = k /\ command.write = dirty[b] /\ command.data = bdata[b]
  BY <1>1, <1>4 DEF idestart
<1>6. /\ UNCHANGED <<blockno, lock>> /\ valid' = [valid EXCEPT ![b] = TRUE]
      /\ disk' = IF dirty[b] THEN [disk EXCEPT ![k] = bdata[b]] ELSE disk
      /\ \/ /\ ~dirty[b] /\ bdata' = [bdata EXCEPT ![b] = disk[k]] /\ lost' = lost
         \/ /\ ~dirty[b] /\ lost' = lost \cup {k} /\ bdata' = bdata
         \/ /\ dirty[b] /\ bdata' = bdata /\ lost' = lost
  BY <1>1, <1>5 DEF ideintr
<1>7. valid'[b] /\ \A c \in Buf : c # b => valid'[c] = valid[c]
  BY <1>6 DEF IInv, TypeOK
<1>8. \A c \in Buf : c # b => bdata'[c] = bdata[c] /\ blockno[c] # k
  BY <1>4, <1>6, BufAssumption DEF IInv, TypeOK, BlockInv
<1>9. \A m \in Block : m # k => disk'[m] = disk[m] /\ (m \in lost' <=> m \in lost)
  BY <1>6 DEF IInv, TypeOK
<1>10. ASSUME NEW m \in Block, m # k
       PROVE  Content'[m] = Content[m]
  <2>1. CASE \E c \in Buf : blockno[c] = m
    BY <1>4, <1>6, <1>7, <1>8, <1>9, <1>10, <2>1, SeenAt
  <2>2. CASE ~ \E c \in Buf : blockno[c] = m
    BY <1>6, <1>9, <1>10, <2>2, SeenAt
  <2> QED BY <2>1, <2>2
<1>11. CASE dirty[b]
  <2>1. valid' = valid
    BY <1>6, <1>11 DEF IInv, TypeOK, FlagInv
  <2>2. lost' = lost /\ bdata' = bdata /\ valid[b]
    BY <1>6, <1>7, <1>11, <2>1
  <2>3. Content'[k] = Content[k]
    BY <1>4, <1>6, <2>1, <2>2, SeenAt
  <2>4. Content' = Content
    BY <1>10, <2>3 DEF Content
  <2> QED BY <1>6, <2>1, <2>4 DEF Store!svars
<1>12. CASE ~dirty[b]
  <2>1. /\ \A q \in User : <<q, k>> \notin Held(lock, blockno, valid)
        /\ Held(lock', blockno', valid') = Held(lock, blockno, valid) \cup {<<p, k>>}
    <3>1. \A a, c \in Buf : blockno[a] = blockno[c] /\ blockno[a] # None => a = c
      BY DEF IInv, BlockInv
    <3>2. /\ lock[b] = None \/ ~valid[b]
          /\ lock'[b] = p /\ valid'[b] /\ blockno[b] \in Block
          /\ \A c \in Buf : c # b => lock'[c] = lock[c] /\ valid'[c] = valid[c]
      BY <1>2, <1>3, <1>4, <1>6, <1>7, <1>12
    <3>3. /\ \A q \in User :
               <<q, blockno[b]>> \notin Held(lock, blockno, valid)
          /\ Held(lock', blockno, valid')
               = Held(lock, blockno, valid) \cup {<<p, blockno[b]>>}
      BY <3>1, <3>2, HeldMore
    <3> QED BY <1>4, <1>6, <3>3
  <2>2. Content'[k] = Content[k] \/ Content'[k] = None
    <3>1. CASE lost' = lost \cup {k}
      BY <3>1, SeenAt
    <3>2. CASE bdata' = [bdata EXCEPT ![b] = disk[k]] /\ lost' = lost
      <4>1. bdata'[b] = disk[k]
        BY <3>2 DEF IInv, TypeOK
      <4> QED BY <1>3, <1>4, <1>6, <1>7, <1>12, <3>2, <4>1, SeenAt
    <3> QED BY <1>6, <1>12, <3>1, <3>2
  <2>3. Content' = Content \/ Content' = [Content EXCEPT ![k] = None]
    BY <1>10, <2>2 DEF Content
  <2> QED BY <2>1, <2>3, StoreStep
<1> QED BY <1>11, <1>12

\* Every step of the cache is a step of BlockStore, or none.
LEMMA StepStore ==
  ASSUME IInv, IInv', [Next]_vars
  PROVE  [Store!SNext]_(Store!svars)
<1>1. CASE UNCHANGED vars
  BY <1>1, Unseen DEF vars
<1>2. ASSUME NEW p \in User, NEW k \in Block, BgetHit(p, k) \/ BgetPanic(p, k)
      PROVE  UNCHANGED Store!svars
  BY <1>2, Unseen DEF BgetHit, BgetPanic
<1>3. ASSUME NEW p \in User,
             iderw(p) \/ IoWait(p) \/ KillWakes(p) \/ brelse(p)
      PROVE  UNCHANGED Store!svars
  BY <1>3, Unseen DEF iderw, IoWait, KillWakes, brelse
<1>4. CASE Next
  BY <1>1, <1>2, <1>3, <1>4, MissUnseen, AcquireStep, WriteStep, ReleaseStep,
     IdeintrStep
     DEF Next, Over
<1> QED BY <1>1, <1>4

\* The cache, its sleep locks and the driver implement a store of blocks:
\* recycling, reading and writing back never change what a block holds, one
\* user has a block at a time, and only a failed read loses its contents.
THEOREM CacheIsBlockStore == Spec => IsBlockStore
<1>1. Init => Store!SInit
  <2> SUFFICES ASSUME Init PROVE Store!SInit
    OBVIOUS
  <2>2. Content \in [Block -> Val]
    <3>1. \A k \in Block : BufsOf(k) = {}
      BY BufAssumption DEF Init, BufsOf
    <3> QED BY <3>1 DEF Init, Content
  <2> QED BY <2>2 DEF Init, Store!SInit
<1>2. IInv /\ IInv' /\ [Next]_vars => [Store!SNext]_(Store!svars)
  BY StepStore
<1> QED BY <1>1, <1>2, Invariant, PTL DEF Spec, IsBlockStore, Store!SSpec

=============================================================================
