--------------------------- MODULE FileDataProofs ---------------------------
(***************************************************************************)
(* Proofs about FileData, for every number of processes, inodes and open   *)
(* files, every size of the disk, of a block and of a transaction, and     *)
(* every bound: no block is shared or lost, the inode on the disk is the   *)
(* one in memory, transactions fit, and files are sequences of bytes.      *)
(***************************************************************************)
EXTENDS FileData, FiniteSetTheorems, SequenceTheorems, WellFoundedInduction,
        TLAPS

(***************************************************************************)
(* The inductive invariant.                                                *)
(***************************************************************************)

\* Process p is in a call on the inode i.
On(p, i) == pc[p] # "user" /\ ino(fd[p]) = i

\* What a process that is between two steps of a call can rely on: its file
\* stays as the tests of writei found it, because it has the lock.
WriteInv(p) ==
  /\ lock[ino(fd[p])] = p /\ done[p] < cnt[p] /\ tot[p] <= chunk(p)
  /\ off[fd[p]] <= inode[ino(fd[p])].size
  /\ off[fd[p]] + chunk(p) <= MAXFILE * BSIZE

TruncInv(p) ==
  /\ lock[ino(fd[p])] = p /\ tot[p] <= MAXFILE
  /\ \A q \in Process : On(q, ino(fd[p])) => q = p
  /\ \A k \in 0 .. NDIRECT - 1 : k < tot[p] => inode[ino(fd[p])].addrs[k] = 0

CallOf(p) ==
  /\ pc[p] # "user" => fd[p] \in File
  /\ pc[p] \in {"user", "read", "write"} => tot[p] = 0 /\ op[p] = {}
  /\ pc[p] \in {"user", "itrunc"} => done[p] = 0
  /\ pc[p] = "write" => done[p] < cnt[p]
  /\ pc[p] = "writei" => WriteInv(p)
  /\ pc[p] = "itrunc" => TruncInv(p)
CallInv == \A p \in Process : CallOf(p)

LockInv ==
  \A i \in Inode : lock[i] # None =>
    pc[lock[i]] \in {"writei", "itrunc"} /\ ino(fd[lock[i]]) = i

\* itrunc has freed the block that is kept at l.
Freed(l) == \E p \in Process : pc[p] = "itrunc" /\ ino(fd[p]) = l[1] /\ l[2] < tot[p]
LivePlaces == {l \in Places : kept(l) # 0 /\ ~Freed(l)}

\* At every moment the bitmap has exactly the blocks that are kept at the
\* places itrunc has not been at, and no two places keep the same block.
MapInv ==
  /\ used = {kept(l) : l \in LivePlaces}
  /\ \A l, m \in LivePlaces : kept(l) = kept(m) => l = m

\* The bytes that the blocks of i are for: the file, and what the writer of i
\* has added to it so far.
Reach(i) ==
  LET p == lock[i]
      o == off[fd[p]] + tot[p]
  IN  IF p # None /\ pc[p] = "writei" /\ o > inode[i].size THEN o ELSE inode[i].size

\* Unless i is being truncated, its blocks are the ones below Reach(i), and the
\* inode on the disk is the one in memory as long as the file has not grown.
SizeInv ==
  \A i \in Inode :
    (lock[i] # None => pc[lock[i]] = "writei") =>
      /\ \A bn \in 0 .. MAXFILE - 1 :
           (mapped(inode[i], cell, bn) # 0) <=> (bn * BSIZE < Reach(i))
      /\ Reach(i) = inode[i].size => dinode[i] = inode[i]

\* Data blocks that a chunk of a write can touch.
NTouch == (MAXOPBLOCKS - 4) \div 2
Touched(p) ==
  {mapped(inode[ino(fd[p])], cell, bn) :
     bn \in {k \in 0 .. MAXFILE - 1 :
               k \in off[fd[p]] \div BSIZE .. off[fd[p]] \div BSIZE + NTouch}}

OpInv ==
  \A p \in Process :
    /\ pc[p] = "writei" =>
         op[p] \subseteq {BITMAP, inode[ino(fd[p])].addrs[NDIRECT]} \cup Touched(p)
    /\ pc[p] = "itrunc" => op[p] \subseteq {BITMAP}

\* Byte number q of the inode i, from 0.
At(i, q) ==
  LET b == mapped(inode[i], cell, q \div BSIZE)
  IN  IF b \in Block THEN cell[b][q % BSIZE] ELSE 0

\* The writer's bytes are where it has written them.
WrittenInv ==
  \A p \in Process : pc[p] = "writei" =>
    \A k \in 0 .. tot[p] - 1 :
      At(ino(fd[p]), off[fd[p]] + k) = byte(p, done[p] + k)

IInv ==
  /\ TypeOK /\ CallInv /\ LockInv /\ MapInv /\ SizeInv /\ OpInv /\ WrittenInv

-----------------------------------------------------------------------------
(* Arithmetic of blocks and offsets *)

\* The first byte of block number bn.
Start(bn) == bn * BSIZE

LEMMA Sizes ==
  /\ BSIZE \in Nat /\ BSIZE > 0 /\ NDIRECT \in Nat /\ NDIRECT > 0
  /\ MAXFILE \in Nat /\ MAXFILE = NDIRECT + BSIZE /\ NBlock \in Nat /\ NBlock > 0
  /\ MAXFILE * BSIZE \in Nat /\ MaxOff = MAXFILE * BSIZE + 1 /\ MaxOff \in Nat
  /\ NTouch \in Nat /\ NTouch >= 1 /\ NTouch + 6 <= MAXOPBLOCKS
  /\ MAXOPBLOCKS \in Nat
<1>1. BSIZE \in Nat /\ BSIZE > 0 /\ NDIRECT \in Nat /\ NDIRECT > 0
      /\ MAXFILE \in Nat /\ MAXFILE = NDIRECT + BSIZE /\ NBlock \in Nat /\ NBlock > 0
  BY FileDataAssumption DEF MAXFILE, NINDIRECT
<1> DEFINE m == MAXFILE
<1>2. m \in Nat
  BY <1>1
<1>3. m * BSIZE \in Nat
  <2> HIDE DEF m
  <2> QED BY <1>1, <1>2
<1>4. MaxOff = MAXFILE * BSIZE + 1 /\ MaxOff \in Nat
  BY <1>3 DEF MaxOff
<1>5. MAXOPBLOCKS \in Nat /\ MAXOPBLOCKS >= 8
  BY FileDataAssumption
<1>6. NTouch \in Nat /\ NTouch >= 1 /\ NTouch + 6 <= MAXOPBLOCKS
  BY <1>5 DEF NTouch
<1> QED BY <1>1, <1>3, <1>4, <1>5, <1>6

\* A byte is in its block.
LEMMA DivMod ==
  ASSUME NEW q \in Nat
  PROVE  /\ q \div BSIZE \in Nat /\ q % BSIZE \in 0 .. BSIZE - 1
         /\ q = Start(q \div BSIZE) + (q % BSIZE)
         /\ Start(q \div BSIZE) \in Nat
         /\ Start(q \div BSIZE) <= q /\ q < Start(q \div BSIZE) + BSIZE
<1> DEFINE n == BSIZE
<1>1. n \in Nat /\ n > 0
  BY Sizes
<1> HIDE DEF n
<1>2. q = n * (q \div n) + (q % n) /\ q % n \in 0 .. n - 1 /\ q \div n \in Int
  BY <1>1
<1> DEFINE d == q \div n
           r == q % n
<1>3. q = n * d + r /\ r \in 0 .. n - 1 /\ d \in Int
  BY <1>2
<1> HIDE DEF d, r
<1>4. d \in Nat
  BY <1>1, <1>3
<1>5. d \in Nat /\ r \in 0 .. n - 1 /\ q = d * n + r /\ d * n \in Nat
  BY <1>1, <1>3, <1>4
<1>6. n = BSIZE /\ Start(d) = d * n
  BY DEF n, Start
<1>7. d \in Nat /\ r \in 0 .. n - 1 /\ q = Start(d) + r /\ Start(d) \in Nat
      /\ Start(d) <= q /\ q < Start(d) + n
  BY <1>1, <1>5, <1>6
<1> QED BY <1>7, <1>1 DEF d, r, n

\* Blocks follow one another.
LEMMA StartMono ==
  ASSUME NEW k \in Nat, NEW m \in Nat
  PROVE  /\ Start(k) \in Nat /\ Start(m) \in Nat
         /\ k < m => Start(k) + BSIZE <= Start(m)
<1> DEFINE n == BSIZE
<1>1. n \in Nat /\ n > 0
  BY Sizes
<1> HIDE DEF n
<1>2. k * n \in Nat /\ m * n \in Nat
  BY <1>1
<1>3. ASSUME k < m PROVE k * n + n <= m * n
  <2> DEFINE d == m - k - 1
  <2>1. d \in Nat /\ m = k + 1 + d
    BY <1>3
  <2> HIDE DEF d
  <2>2. d * n \in Nat
    BY <1>1, <2>1
  <2>3. m * n = k * n + n + d * n
    BY <1>1, <2>1
  <2> QED BY <1>1, <1>2, <2>2, <2>3
<1> QED BY <1>2, <1>3 DEF n, Start

\* Where a byte below the largest size is.
LEMMA DivBelow ==
  ASSUME NEW q \in Nat, q < MAXFILE * BSIZE
  PROVE  q \div BSIZE \in 0 .. MAXFILE - 1
<1>1. q \div BSIZE \in Nat /\ Start(q \div BSIZE) <= q /\ Start(q \div BSIZE) \in Nat
  BY DivMod, Sizes
<1>2. Start(MAXFILE) = MAXFILE * BSIZE
  BY DEF Start
<1>3. ~(MAXFILE < q \div BSIZE)
  <2> DEFINE d == q \div BSIZE
  <2>1. d \in Nat /\ Start(d) <= q
    BY <1>1
  <2> HIDE DEF d
  <2>2. MAXFILE < d => Start(MAXFILE) + BSIZE <= Start(d)
    BY <2>1, StartMono, Sizes
  <2>3. ~(MAXFILE < d)
    BY <2>1, <2>2, <1>2, Sizes, StartMono
  <2> QED BY <2>3 DEF d
<1>4. MAXFILE # q \div BSIZE
  BY <1>1, <1>2, Sizes
<1> QED BY <1>1, <1>3, <1>4, Sizes

\* q is in block number bn iff it is at or after its start and before the next.
LEMMA InBlock ==
  ASSUME NEW q \in Nat, NEW bn \in Nat
  PROVE  /\ q \div BSIZE = bn <=> Start(bn) <= q /\ q < Start(bn) + BSIZE
         /\ q \div BSIZE < bn <=> q < Start(bn)
<1> DEFINE d == q \div BSIZE
<1>1. d \in Nat /\ Start(d) \in Nat /\ Start(d) <= q /\ q < Start(d) + BSIZE
  BY DivMod, Sizes
<1> HIDE DEF d
<1>2. /\ Start(bn) \in Nat /\ d < bn => Start(d) + BSIZE <= Start(bn)
      /\ bn < d => Start(bn) + BSIZE <= Start(d)
  BY <1>1, StartMono
<1>3. /\ d = bn <=> Start(bn) <= q /\ q < Start(bn) + BSIZE
      /\ d < bn <=> q < Start(bn)
  BY <1>1, <1>2, StartMono, Sizes
<1> QED BY <1>3 DEF d

-----------------------------------------------------------------------------
(* Blocks *)

LEMMA LeastOf ==
  ASSUME NEW T \in SUBSET Nat, T # {}
  PROVE  Min(T) \in T
<1> DEFINE R == {ss \in Nat \X Nat : ss[1] < ss[2]}
<1>1. IsWellFoundedOn(R, Nat)
  BY NatLessThanWellFounded DEF OpToRel
<1>2. PICK x \in T : \A y \in T : ~(<<y, x>> \in R)
  <2> HIDE DEF R
  <2> QED BY <1>1, WFMin
<1>3. \A y \in T : ~(y < x)
  BY <1>2
<1>4. \A y \in T : x =< y
  BY <1>3
<1> QED BY <1>4 DEF Min

\* The first free block is a free block.
LEMMA Balloc ==
  ASSUME NEW st, Block \ st.u # {}
  PROVE  balloc(st) \in Block \ st.u
<1>1. Block \ st.u \in SUBSET Nat
  BY Sizes DEF Block
<1> QED BY <1>1, LeastOf DEF balloc

\* The count of the blocks in use tells whether one is left, or two are.
LEMMA OneLeft ==
  ASSUME NEW u \in SUBSET Block, Cardinality(u) + 1 <= NBlock
  PROVE  Block \ u # {} /\ IsFiniteSet(u)
<1>1. IsFiniteSet(Block) /\ Cardinality(Block) = NBlock
  BY FS_Interval, Sizes DEF Block
<1>2. IsFiniteSet(u) /\ Cardinality(u) \in Nat
  BY <1>1, FS_Subset, FS_CardinalityType
<1>3. u # Block
  BY <1>1, <1>2, Sizes
<1> QED BY <1>2, <1>3

LEMMA TwoLeft ==
  ASSUME NEW u \in SUBSET Block, Cardinality(u) + 2 <= NBlock, NEW b \in Block \ u
  PROVE  Block \ (u \cup {b}) # {}
<1>1. IsFiniteSet(Block) /\ Cardinality(Block) = NBlock
  BY FS_Interval, Sizes DEF Block
<1>2. IsFiniteSet(u) /\ Cardinality(u) \in Nat
  BY <1>1, FS_Subset, FS_CardinalityType
<1>3. Cardinality(u \cup {b}) = Cardinality(u) + 1
  BY <1>2, FS_AddElement
<1>4. u \cup {b} \in SUBSET Block /\ Cardinality(u \cup {b}) + 1 <= NBlock
  BY <1>2, <1>3, Sizes
<1> QED BY <1>4, OneLeft

LEMMA Direct == NDIRECT \in Nat /\ NDIRECT > 0 /\ NDIRECT \in 0 .. NDIRECT
  BY FileDataAssumption

LEMMA AddrFacts == /\ Addr = 0 .. NBlock /\ Block \subseteq Addr /\ 0 \notin Block
                   /\ Addr \ {0} = Block /\ Block \subseteq Nat
  BY Sizes DEF Addr, Block

\* Block numbers are block numbers.
LEMMA MappedType ==
  ASSUME TypeOK, NEW i \in Inode, NEW bn \in 0 .. MAXFILE - 1
  PROVE  mapped(inode[i], cell, bn) \in Addr
<1>1. inode[i] \in Dinode
  BY DEF TypeOK
<1>2. CASE bn < NDIRECT
  BY <1>1, <1>2, Sizes DEF mapped, Dinode
<1>3. CASE ~(bn < NDIRECT)
  <2>1. bn - NDIRECT \in 0 .. NINDIRECT - 1
    BY <1>3, Sizes DEF NINDIRECT
  <2> QED BY <1>3, <2>1, Sizes DEF mapped, TypeOK, Addr
<1> QED BY <1>2, <1>3

LEMMA KeptType ==
  ASSUME TypeOK, NEW l \in Places
  PROVE  kept(l) \in Addr
<1>1. l[1] \in Inode /\ l[2] \in 0 .. MAXFILE
  BY DEF Places
<1>2. CASE l[2] = MAXFILE
  <2>1. inode[l[1]] \in Dinode
    BY <1>1 DEF TypeOK
  <2> QED BY <1>2, <2>1, Sizes DEF kept, Dinode
<1>3. CASE l[2] # MAXFILE
  <2>1. l[2] \in 0 .. MAXFILE - 1
    BY <1>1, <1>3, Sizes
  <2> QED BY <1>1, <1>3, <2>1, MappedType DEF kept
<1> QED BY <1>2, <1>3

-----------------------------------------------------------------------------
(* One turn of writei's loop *)

\* The inode, the offset and the block number that the writer is at, and the
\* block that is there already.
Target(p) == ino(fd[p])
Point(p)  == off[fd[p]] + tot[p]
Number(p) == Point(p) \div BSIZE
Old(p)    == mapped(inode[Target(p)], cell, Number(p))
Indirect(p) == Number(p) >= NDIRECT
Fresh(p)  == Indirect(p) /\ inode[Target(p)].addrs[NDIRECT] = 0

\* The bytes of the turn in its block.
Turn(p) == {k \in 0 .. BSIZE - 1 :
              k \in Point(p) % BSIZE .. (Point(p) % BSIZE) + turn(p, Point(p)) - 1}

\* The inode and the bitmap after a turn that writes block b and for which balloc
\* has taken the blocks N.
TurnMap(p, e, b, N) ==
  /\ used' = used \cup N /\ N \subseteq Block \ used /\ b \in Block
  /\ inode' = [inode EXCEPT ![Target(p)] = e]
  /\ e \in Dinode /\ e.size = inode[Target(p)].size
  /\ \A k \in 0 .. NDIRECT : k # Number(p) /\ k # NDIRECT =>
       e.addrs[k] = inode[Target(p)].addrs[k]
  /\ ~Indirect(p) => e.addrs[Number(p)] = b
  /\ Indirect(p) => e.addrs[NDIRECT] \in Block
  /\ ~Fresh(p) => e.addrs[NDIRECT] = inode[Target(p)].addrs[NDIRECT]
  /\ Old(p) # 0 => N = {} /\ e = inode[Target(p)] /\ b = Old(p)
  /\ Old(p) = 0 => b \in N /\ b # e.addrs[NDIRECT]
                   /\ N \ {b} \subseteq {e.addrs[NDIRECT]}
  /\ Fresh(p) => e.addrs[NDIRECT] \in N

\* The contents and the blocks logged.
TurnData(p, e, b) ==
  /\ cell' \in [Block -> [0 .. BSIZE - 1 -> Nat]]
  /\ \A x \in Block : x # b => cell'[x] =
       IF Old(p) = 0 /\ Indirect(p) /\ x = e.addrs[NDIRECT]
       THEN [k \in 0 .. BSIZE - 1 |-> IF k = Number(p) - NDIRECT THEN b
                                      ELSE IF Fresh(p) THEN 0 ELSE cell[x][k]]
       ELSE cell[x]
  /\ \A k \in 0 .. BSIZE - 1 : cell'[b][k] =
       IF k \in Turn(p) THEN byte(p, done[p] + tot[p] + k - (Point(p) % BSIZE))
       ELSE IF Old(p) # 0 THEN cell[b][k] ELSE 0
  /\ op' = [op EXCEPT ![p] = op'[p]]
  /\ op'[p] \subseteq op[p] \cup {BITMAP, b, e.addrs[NDIRECT]}

\* Where the writer is.
LEMMA WriterFacts ==
  ASSUME TypeOK, CallInv, NEW p \in Process, pc[p] = "writei", tot[p] < chunk(p)
  PROVE  /\ fd[p] \in File /\ Target(p) \in Inode /\ inode[Target(p)] \in Dinode
         /\ off[fd[p]] \in Nat /\ tot[p] \in Nat /\ Point(p) \in Nat
         /\ chunk(p) \in Nat /\ done[p] \in Nat /\ cnt[p] \in Nat
         /\ Point(p) < MAXFILE * BSIZE /\ Number(p) \in 0 .. MAXFILE - 1
         /\ Old(p) \in Addr
         /\ Point(p) % BSIZE \in 0 .. BSIZE - 1
         /\ turn(p, Point(p)) \in 1 .. BSIZE /\ tot[p] + turn(p, Point(p)) <= chunk(p)
         /\ turn(p, Point(p)) <= BSIZE - (Point(p) % BSIZE)
         /\ val[p] \in Nat
<1>1. fd[p] \in File /\ WriteInv(p)
  BY DEF CallInv, CallOf
<1>2. Target(p) \in Inode /\ inode[Target(p)] \in Dinode
  BY <1>1, FileDataAssumption DEF TypeOK, Target
<1>3. /\ off[fd[p]] \in Nat /\ tot[p] \in Nat /\ done[p] \in Nat /\ cnt[p] \in Nat
      /\ val[p] \in Nat
  BY <1>1, Sizes DEF TypeOK
<1>4. max \in Nat
  <2> DEFINE k == (MAXOPBLOCKS - 1 - 1 - 2) \div 2
  <2>1. k \in Nat
    BY Sizes, FileDataAssumption
  <2> HIDE DEF k
  <2>2. k * BSIZE \in Nat
    BY <2>1, Sizes
  <2> QED BY <2>2 DEF max, k
<1>5. chunk(p) \in Nat /\ Point(p) \in Nat
  BY <1>1, <1>3, <1>4 DEF WriteInv, chunk, Least, Point
<1>6. Point(p) < MAXFILE * BSIZE
  BY <1>1, <1>3, <1>5, Sizes DEF WriteInv, Point
<1>7. Number(p) \in 0 .. MAXFILE - 1
  BY <1>5, <1>6, DivBelow DEF Number
<1>8. Old(p) \in Addr
  BY <1>2, <1>7, MappedType DEF Old
<1>9. Point(p) % BSIZE \in 0 .. BSIZE - 1
  BY <1>5, DivMod
<1> DEFINE r == Point(p) % BSIZE
<1>10. r \in 0 .. BSIZE - 1 /\ turn(p, Point(p)) = Least(chunk(p) - tot[p], BSIZE - r)
  BY <1>9 DEF turn
<1> HIDE DEF r
<1>11. /\ turn(p, Point(p)) \in 1 .. BSIZE /\ tot[p] + turn(p, Point(p)) <= chunk(p)
       /\ turn(p, Point(p)) <= BSIZE - r
  BY <1>3, <1>5, <1>10, Sizes DEF Least
<1> QED BY <1>2, <1>3, <1>1, <1>5, <1>6, <1>7, <1>8, <1>9, <1>11 DEF r

\* What WriteBlock does with what bmap returned.
Wrote(p, e, u, c, L) ==
  LET b == mapped(e, c, Number(p)) IN
  /\ inode' = [inode EXCEPT ![Target(p)] = e]
  /\ used' = u
  /\ cell' = [c EXCEPT ![b] =
       [k \in 0 .. BSIZE - 1 |->
          IF k \in Point(p) % BSIZE .. (Point(p) % BSIZE) + turn(p, Point(p)) - 1
          THEN byte(p, done[p] + tot[p] + k - (Point(p) % BSIZE)) ELSE c[b][k]]]
  /\ op' = [op EXCEPT ![p] = L \cup {b}]

Before(p) == [u |-> used, c |-> cell, l |-> op[p]]

LEMMA WriteBlockWrote ==
  ASSUME NEW p \in Process, WriteBlock(p)
  PROVE  /\ LET r == bmap(inode[Target(p)], Number(p), Before(p))
            IN  Wrote(p, r[1], r[2].u, r[2].c, r[2].l)
         /\ enough(inode[Target(p)], Number(p))
         /\ pc[p] = "writei" /\ tot[p] < chunk(p)
  BY DEF WriteBlock, Wrote, Target, Number, Point, Before

\* The contents after a turn that writes block b where they were c.
TurnCell(p, c, b) ==
  /\ cell' \in [Block -> [0 .. BSIZE - 1 -> Nat]]
  /\ \A x \in Block : x # b => cell'[x] = c[x]
  /\ \A k \in 0 .. BSIZE - 1 : cell'[b][k] =
       IF k \in Turn(p) THEN byte(p, done[p] + tot[p] + k - (Point(p) % BSIZE))
       ELSE c[b][k]

\* The numbers of the writer are numbers.
WriterNat(p) ==
  /\ val[p] \in Nat /\ done[p] \in Nat /\ tot[p] \in Nat
  /\ Point(p) % BSIZE \in 0 .. BSIZE - 1 /\ turn(p, Point(p)) \in Nat

\* A turn in a state of the bitmap u, with the contents c, after bmap.
Turns(p, e, u, c, L, b) ==
  /\ Wrote(p, e, u, c, L) /\ WriterNat(p)
  /\ c \in [Block -> [0 .. BSIZE - 1 -> Nat]]
  /\ b \in Block /\ mapped(e, c, Number(p)) = b

Turned(p, e, u, c, L, b) ==
  /\ inode' = [inode EXCEPT ![Target(p)] = e] /\ used' = u
  /\ op' = [op EXCEPT ![p] = L \cup {b}]
  /\ TurnCell(p, c, b)

LEMMA WroteCell ==
  ASSUME NEW p \in Process, NEW e, NEW u, NEW c, NEW L, NEW b,
         Turns(p, e, u, c, L, b)
  PROVE  Turned(p, e, u, c, L, b)
<1> USE DEF WriterNat, Turns
<1> DEFINE at == Point(p) % BSIZE
           t == turn(p, Point(p))
           B(k) == byte(p, done[p] + tot[p] + k - at)
           F == [k \in 0 .. BSIZE - 1 |-> IF k \in at .. at + t - 1 THEN B(k) ELSE c[b][k]]
<1>1. /\ inode' = [inode EXCEPT ![Target(p)] = e] /\ used' = u
      /\ op' = [op EXCEPT ![p] = L \cup {b}]
      /\ cell' = [c EXCEPT ![b] = F]
  BY DEF Wrote
<1>2. ASSUME NEW k \in 0 .. BSIZE - 1, k \in at .. at + t - 1
      PROVE  B(k) \in Nat
  <2> DEFINE j == val[p] + (done[p] + tot[p] + k - at)
             n == NByte
  <2>0. n \in Nat /\ n > 0
    BY FileDataAssumption
  <2>1. j \in Nat
    <3>1. PICK a \in Nat, h \in Nat : a = at /\ h = t
      OBVIOUS
    <3>2. k \in Nat /\ k >= a
      BY <1>2, <3>1
    <3>3. PICK x \in Nat, y \in Nat, z \in Nat : x = val[p] /\ y = done[p] /\ z = tot[p]
      OBVIOUS
    <3>4. x + (y + z + k - a) \in Nat
      BY ONLY a \in Nat, x \in Nat, y \in Nat, z \in Nat, <3>2
    <3> QED BY <3>1, <3>3, <3>4
  <2> HIDE DEF j, n
  <2>2. 1 + (j % n) \in Nat
    BY <2>0, <2>1
  <2> QED BY <2>2 DEF j, n, byte
<1> HIDE DEF B
<1>3. F \in [0 .. BSIZE - 1 -> Nat]
  BY <1>2
<1>4. \A k \in 0 .. BSIZE - 1 : F[k] = IF k \in Turn(p) THEN B(k) ELSE c[b][k]
  BY DEF Turn
<1> HIDE DEF F
<1>5. /\ cell' \in [Block -> [0 .. BSIZE - 1 -> Nat]] /\ cell'[b] = F
      /\ \A x \in Block : x # b => cell'[x] = c[x]
  BY <1>1, <1>3
<1> QED BY <1>1, <1>4, <1>5 DEF B, TurnCell, Turned

\* The block is there.
LEMMA TurnOld ==
  ASSUME TypeOK, CallInv, NEW p \in Process, WriteBlock(p), Old(p) # 0,
         Old(p) \in used
  PROVE  \E e, b, N : TurnMap(p, e, b, N) /\ TurnData(p, e, b)
<1>e. PICK e, b, c, u, L :
        e = inode[Target(p)] /\ b = Old(p) /\ c = cell /\ u = used /\ L = op[p]
  OBVIOUS
<1>1. Wrote(p, e, u, c, L) /\ pc[p] = "writei" /\ tot[p] < chunk(p)
  BY <1>e, WriteBlockWrote DEF bmap, Old, Before
<1>f. /\ e \in Dinode /\ b \in Block /\ Target(p) \in Inode
      /\ WriterNat(p) /\ Number(p) \in 0 .. MAXFILE - 1
  <2>1. /\ e \in Dinode /\ b \in Addr /\ Target(p) \in Inode
        /\ Number(p) \in 0 .. MAXFILE - 1
    BY <1>1, <1>e, WriterFacts
  <2>2. WriterNat(p)
    BY <1>1, WriterFacts, Sizes DEF WriterNat
  <2> QED BY <1>e, <2>1, <2>2, AddrFacts
<1>c. c \in [Block -> [0 .. BSIZE - 1 -> Nat]] /\ mapped(e, c, Number(p)) = b
  BY <1>e DEF TypeOK, Old
<1>t. Turns(p, e, u, c, L, b)
  BY <1>f, <1>c, <1>1 DEF Turns
<1>2. Turned(p, e, u, c, L, b)
  BY <1>t, WroteCell
<1>3. TurnData(p, e, b)
  <2>1. op' = [op EXCEPT ![p] = op'[p]] /\ op'[p] = op[p] \cup {b}
    BY <1>2, <1>e DEF Turned, TypeOK
  <2>2. \A x \in Block : x # b => cell'[x] = cell[x]
    BY <1>2, <1>e DEF Turned, TurnCell
  <2>3. \A k \in 0 .. BSIZE - 1 : cell'[b][k] =
          IF k \in Turn(p) THEN byte(p, done[p] + tot[p] + k - (Point(p) % BSIZE))
          ELSE cell[b][k]
    BY <1>2, <1>e DEF Turned, TurnCell
  <2>4. Old(p) # 0 /\ cell' \in [Block -> [0 .. BSIZE - 1 -> Nat]]
    BY <1>2 DEF Turned, TurnCell
  <2> QED BY <2>1, <2>2, <2>3, <2>4 DEF TurnData
<1>4. /\ ~Indirect(p) => e.addrs[Number(p)] = b
      /\ Indirect(p) => e.addrs[NDIRECT] # 0
  <2>1. b # 0
    BY <1>e
  <2>2. Number(p) \in Nat
    BY <1>f
  <2>3. Indirect(p) => ~(Number(p) < NDIRECT)
    BY <2>2, Direct DEF Indirect
  <2>4. ~Indirect(p) => Number(p) < NDIRECT
    BY <2>2, Direct DEF Indirect
  <2> QED BY <1>c, <2>1, <2>3, <2>4 DEF mapped
<1>5. e.addrs[NDIRECT] \in Addr
  BY <1>f, Direct DEF Dinode
<1>6. TurnMap(p, e, b, {})
  BY <1>2, <1>f, <1>e, <1>4, <1>5, AddrFacts DEF TurnMap, Fresh, Turned
<1> QED BY <1>3, <1>6

\* An inode with one address changed.
LEMMA SetAddr ==
  ASSUME NEW e \in Dinode, NEW k \in 0 .. NDIRECT, NEW b \in Addr
  PROVE  /\ [e EXCEPT !.addrs[k] = b] \in Dinode
         /\ [e EXCEPT !.addrs[k] = b].size = e.size
         /\ [e EXCEPT !.addrs[k] = b].addrs[k] = b
         /\ \A j \in 0 .. NDIRECT : j # k => [e EXCEPT !.addrs[k] = b].addrs[j] = e.addrs[j]
<1>1. e = [size |-> e.size, addrs |-> e.addrs] /\ e.size \in 0 .. MAXFILE * BSIZE
      /\ e.addrs \in [0 .. NDIRECT -> Addr]
  BY DEF Dinode
<1> DEFINE d == [e EXCEPT !.addrs[k] = b]
<1>2. d = [size |-> e.size, addrs |-> [e.addrs EXCEPT ![k] = b]]
  BY <1>1
<1>3. [e.addrs EXCEPT ![k] = b] \in [0 .. NDIRECT -> Addr]
  BY <1>1
<1> HIDE DEF d
<1>4. /\ d \in Dinode /\ d.size = e.size /\ d.addrs[k] = b
      /\ \A j \in 0 .. NDIRECT : j # k => d.addrs[j] = e.addrs[j]
  BY <1>1, <1>2, <1>3 DEF Dinode
<1> QED BY <1>4 DEF d

\* A direct block is not there yet.
LEMMA TurnDirect ==
  ASSUME TypeOK, CallInv, NEW p \in Process, WriteBlock(p), Old(p) = 0, ~Indirect(p),
         inode[Target(p)].addrs[NDIRECT] \in used \cup {0}
  PROVE  \E e, b, N : TurnMap(p, e, b, N) /\ TurnData(p, e, b)
<1>1. /\ pc[p] = "writei" /\ tot[p] < chunk(p)
      /\ enough(inode[Target(p)], Number(p))
  BY WriteBlockWrote
<1>f. /\ inode[Target(p)] \in Dinode /\ Target(p) \in Inode
      /\ WriterNat(p) /\ Number(p) \in 0 .. MAXFILE - 1
      /\ Number(p) \in 0 .. NDIRECT - 1
  BY <1>1, WriterFacts, Sizes DEF WriterNat, Indirect
<1>u. used \in SUBSET Block /\ cell \in [Block -> [0 .. BSIZE - 1 -> Nat]]
  BY DEF TypeOK
<1>n. balloc(Before(p)) \in Block \ used
  <2>1. Cardinality(used) + 1 <= NBlock
    BY <1>1, <1>f, Sizes DEF enough, Old
  <2>2. Block \ used # {}
    BY <1>u, <2>1, OneLeft
  <2> QED BY <2>2, Balloc DEF Before
<1>e. PICK e, b, c, u, L :
        /\ b = balloc(Before(p)) /\ e = [inode[Target(p)] EXCEPT !.addrs[Number(p)] = b]
        /\ c = [cell EXCEPT ![b] = Zero] /\ u = used \cup {b}
        /\ L = op[p] \cup {BITMAP, b}
  OBVIOUS
<1>m. bmap(inode[Target(p)], Number(p), Before(p)) = <<e, [u |-> u, c |-> c, l |-> L]>>
  <2>1. mapped(inode[Target(p)], Before(p).c, Number(p)) = 0
    BY DEF Before, Old
  <2>2. balloced(Before(p)) = [u |-> u, c |-> c, l |-> L]
    BY <1>e DEF balloced, Before, bzero
  <2>3. Number(p) < NDIRECT
    BY <1>f, Sizes
  <2>4. mapping(inode[Target(p)], Number(p), Before(p)) = <<e, balloced(Before(p))>>
    BY <2>3, <1>e DEF mapping
  <2> QED BY <2>1, <2>2, <2>4 DEF bmap
<1>w. Wrote(p, e, u, c, L)
  BY <1>m, WriteBlockWrote
<1>z. Zero \in [0 .. BSIZE - 1 -> Nat] /\ \A k \in 0 .. BSIZE - 1 : Zero[k] = 0
  BY DEF Zero
<1>c. /\ c \in [Block -> [0 .. BSIZE - 1 -> Nat]] /\ c[b] = Zero
      /\ \A x \in Block : x # b => c[x] = cell[x]
  BY <1>e, <1>u, <1>n, <1>z
<1>d. /\ e.addrs[Number(p)] = b /\ e \in Dinode /\ e.size = inode[Target(p)].size
      /\ \A k \in 0 .. NDIRECT : k # Number(p) => e.addrs[k] = inode[Target(p)].addrs[k]
  <2>1. Number(p) \in 0 .. NDIRECT
    BY <1>f, Direct
  <2>2. b \in Addr
    BY <1>n, <1>e, AddrFacts
  <2> QED BY <1>e, <1>f, <2>1, <2>2, SetAddr
<1>t. Turns(p, e, u, c, L, b)
  <2>1. mapped(e, c, Number(p)) = b
    BY <1>d, <1>f, Sizes DEF mapped
  <2> QED BY <1>f, <1>c, <1>w, <1>e, <1>n, <2>1 DEF Turns
<1>2. Turned(p, e, u, c, L, b)
  BY <1>t, WroteCell
<1>3. TurnData(p, e, b)
  <2>1. op' = [op EXCEPT ![p] = op'[p]] /\ op'[p] = op[p] \cup {BITMAP, b}
    BY <1>2, <1>e DEF Turned, TypeOK
  <2>2. \A x \in Block : x # b => cell'[x] = cell[x]
    BY <1>2, <1>c DEF Turned, TurnCell
  <2>3. \A k \in 0 .. BSIZE - 1 : cell'[b][k] =
          IF k \in Turn(p) THEN byte(p, done[p] + tot[p] + k - (Point(p) % BSIZE))
          ELSE 0
    BY <1>2, <1>c, <1>z DEF Turned, TurnCell
  <2>4. cell' \in [Block -> [0 .. BSIZE - 1 -> Nat]]
    BY <1>2 DEF Turned, TurnCell
  <2> QED BY <2>1, <2>2, <2>3, <2>4 DEF TurnData
<1>5. b # e.addrs[NDIRECT] /\ e.addrs[NDIRECT] = inode[Target(p)].addrs[NDIRECT]
  <2>1. NDIRECT # Number(p)
    BY <1>f, Direct
  <2>2. e.addrs[NDIRECT] = inode[Target(p)].addrs[NDIRECT]
    BY <1>d, <2>1, Direct
  <2> QED BY <1>e, <1>f, <1>n, <2>2, AddrFacts
<1>6. TurnMap(p, e, b, {b})
  BY <1>2, <1>f, <1>e, <1>d, <1>n, <1>5, AddrFacts, Sizes DEF TurnMap, Fresh, Indirect, Turned
<1> QED BY <1>3, <1>6

\* The contents after the number of block b has been put into the indirect block.
Entered(c, ind, k, b) == [bzero(c, b) EXCEPT ![ind][k] = b]

LEMMA EnteredCell ==
  ASSUME NEW c \in [Block -> [0 .. BSIZE - 1 -> Nat]], NEW ind \in Block, NEW b \in Block,
         ind # b, NEW k \in 0 .. BSIZE - 1
  PROVE  /\ Entered(c, ind, k, b) \in [Block -> [0 .. BSIZE - 1 -> Nat]]
         /\ Entered(c, ind, k, b)[b] = Zero
         /\ Entered(c, ind, k, b)[ind] = [c[ind] EXCEPT ![k] = b]
         /\ \A x \in Block \ {b, ind} : Entered(c, ind, k, b)[x] = c[x]
<1>1. Zero \in [0 .. BSIZE - 1 -> Nat] /\ b \in Nat
  BY AddrFacts DEF Zero
<1>2. PICK d : d = [c EXCEPT ![b] = Zero]
  OBVIOUS
<1>3. /\ d \in [Block -> [0 .. BSIZE - 1 -> Nat]] /\ d[b] = Zero /\ d[ind] = c[ind]
      /\ \A x \in Block \ {b} : d[x] = c[x]
  BY <1>1, <1>2
<1>4. PICK g : g = [d[ind] EXCEPT ![k] = b]
  OBVIOUS
<1>5. g \in [0 .. BSIZE - 1 -> Nat]
  BY <1>1, <1>3, <1>4
<1>6. Entered(c, ind, k, b) = [d EXCEPT ![ind] = g]
  BY <1>2, <1>4 DEF Entered, bzero
<1> QED BY <1>3, <1>4, <1>5, <1>6

\* bmap where the indirect block is there, and where it is not.
LEMMA MappingIndirect ==
  ASSUME NEW e, NEW bn \in Nat, NEW u, NEW c, NEW L, bn >= NDIRECT, e.addrs[NDIRECT] # 0,
         NEW b, b = balloc([u |-> u, c |-> c, l |-> L])
  PROVE  mapping(e, bn, [u |-> u, c |-> c, l |-> L]) =
           <<[e EXCEPT !.addrs[NDIRECT] = e.addrs[NDIRECT]],
             [u |-> u \cup {b}, c |-> Entered(c, e.addrs[NDIRECT], bn - NDIRECT, b),
              l |-> L \cup {BITMAP, b} \cup {e.addrs[NDIRECT]}]>>
<1>1. ~(bn < NDIRECT)
  BY Sizes
<1>2. balloced([u |-> u, c |-> c, l |-> L]) =
        [u |-> u \cup {b}, c |-> bzero(c, b), l |-> L \cup {BITMAP, b}]
  BY DEF balloced
<1>3. PICK s : s = balloced([u |-> u, c |-> c, l |-> L])
  OBVIOUS
<1>4. mapping(e, bn, [u |-> u, c |-> c, l |-> L]) =
        <<[e EXCEPT !.addrs[NDIRECT] = e.addrs[NDIRECT]],
          [u |-> s.u, c |-> [s.c EXCEPT ![e.addrs[NDIRECT]][bn - NDIRECT] = b],
           l |-> s.l \cup {e.addrs[NDIRECT]}]>>
  BY <1>1, <1>3 DEF mapping
<1>5. s.u = u \cup {b} /\ s.c = bzero(c, b) /\ s.l = L \cup {BITMAP, b}
  BY <1>2, <1>3
<1> QED BY <1>4, <1>5 DEF Entered

\* The two blocks that balloc gives, and what is known after it.
FreshBlocks(u, c, L, ind, b) ==
  /\ ind = balloc([u |-> u, c |-> c, l |-> L])
  /\ b = balloc([u |-> u \cup {ind}, c |-> bzero(c, ind), l |-> L \cup {BITMAP, ind}])
FreshState(u, c, L, ind, b, k) ==
  [u |-> u \cup {ind} \cup {b}, c |-> Entered(bzero(c, ind), ind, k, b),
   l |-> L \cup {BITMAP, ind} \cup {BITMAP, b} \cup {ind}]

LEMMA MappingFresh ==
  ASSUME NEW e, NEW bn \in Nat, NEW u, NEW c, NEW L, NEW ind, NEW b,
         bn >= NDIRECT, e.addrs[NDIRECT] = 0, FreshBlocks(u, c, L, ind, b)
  PROVE  mapping(e, bn, [u |-> u, c |-> c, l |-> L]) =
           <<[e EXCEPT !.addrs[NDIRECT] = ind],
             FreshState(u, c, L, ind, b, bn - NDIRECT)>>
<1> USE DEF FreshBlocks, FreshState
<1>1. ~(bn < NDIRECT)
  BY Sizes
<1>2. balloced([u |-> u, c |-> c, l |-> L]) =
        [u |-> u \cup {ind}, c |-> bzero(c, ind), l |-> L \cup {BITMAP, ind}]
  BY DEF balloced
<1>3. balloced([u |-> u \cup {ind}, c |-> bzero(c, ind), l |-> L \cup {BITMAP, ind}]) =
        [u |-> u \cup {ind} \cup {b}, c |-> bzero(bzero(c, ind), b),
         l |-> L \cup {BITMAP, ind} \cup {BITMAP, b}]
  BY DEF balloced
<1>4. PICK s, t : /\ s = balloced([u |-> u, c |-> c, l |-> L])
                  /\ t = balloced(s)
  OBVIOUS
<1>5. /\ s = [u |-> u \cup {ind}, c |-> bzero(c, ind), l |-> L \cup {BITMAP, ind}]
      /\ b = balloc(s)
  BY <1>2, <1>4
<1>6. mapping(e, bn, [u |-> u, c |-> c, l |-> L]) =
        <<[e EXCEPT !.addrs[NDIRECT] = ind],
          [u |-> t.u, c |-> [t.c EXCEPT ![ind][bn - NDIRECT] = b], l |-> t.l \cup {ind}]>>
  BY <1>1, <1>4, <1>5 DEF mapping
<1>7. /\ t.u = u \cup {ind} \cup {b} /\ t.c = bzero(bzero(c, ind), b)
      /\ t.l = L \cup {BITMAP, ind} \cup {BITMAP, b}
  <2>1. t = [u |-> s.u \cup {b}, c |-> bzero(s.c, b), l |-> s.l \cup {BITMAP, b}]
    BY <1>4, <1>5 DEF balloced
  <2>2. s.u = u \cup {ind} /\ s.c = bzero(c, ind) /\ s.l = L \cup {BITMAP, ind}
    BY <1>5
  <2> QED BY <2>1, <2>2
<1> QED BY <1>6, <1>7 DEF Entered

\* The indirect block is there, the block is not.
LEMMA TurnIndirect ==
  ASSUME TypeOK, CallInv, NEW p \in Process, WriteBlock(p), Old(p) = 0, Indirect(p),
         ~Fresh(p), inode[Target(p)].addrs[NDIRECT] \in used \cup {0}
  PROVE  \E e, b, N : TurnMap(p, e, b, N) /\ TurnData(p, e, b)
<1>1. /\ pc[p] = "writei" /\ tot[p] < chunk(p)
      /\ enough(inode[Target(p)], Number(p))
  BY WriteBlockWrote
<1>f. /\ inode[Target(p)] \in Dinode /\ Target(p) \in Inode
      /\ WriterNat(p) /\ Number(p) \in 0 .. MAXFILE - 1 /\ Number(p) >= NDIRECT
      /\ Number(p) - NDIRECT \in 0 .. BSIZE - 1
  BY <1>1, WriterFacts, Sizes DEF WriterNat, Indirect
<1>u. used \in SUBSET Block /\ cell \in [Block -> [0 .. BSIZE - 1 -> Nat]]
  BY DEF TypeOK
<1>i. PICK ind : ind = inode[Target(p)].addrs[NDIRECT] /\ ind \in used /\ ind \in Block /\ ind # 0
  BY <1>u DEF Fresh
<1>n. balloc(Before(p)) \in Block \ used
  <2>1. Cardinality(used) + 1 <= NBlock
    BY <1>1, <1>f, <1>i, Sizes DEF enough, Old
  <2>2. Block \ used # {}
    BY <1>u, <2>1, OneLeft
  <2> QED BY <2>2, Balloc DEF Before
<1>a. PICK e0, c0, u0, L0, k, b :
        /\ e0 = inode[Target(p)] /\ c0 = cell /\ u0 = used /\ L0 = op[p]
        /\ k = Number(p) - NDIRECT /\ b = balloc(Before(p))
  OBVIOUS
<1>b. PICK e, c, u, L :
        /\ e = [e0 EXCEPT !.addrs[NDIRECT] = ind] /\ c = Entered(c0, ind, k, b)
        /\ u = u0 \cup {b} /\ L = L0 \cup {BITMAP, b} \cup {ind}
  OBVIOUS
<1>e. /\ e0 = inode[Target(p)] /\ c0 = cell /\ u0 = used /\ L0 = op[p]
      /\ k = Number(p) - NDIRECT /\ b = balloc(Before(p))
      /\ e = [e0 EXCEPT !.addrs[NDIRECT] = ind] /\ c = Entered(c0, ind, k, b)
      /\ u = u0 \cup {b} /\ L = L0 \cup {BITMAP, b} \cup {ind}
  BY <1>a, <1>b
<1>m. bmap(inode[Target(p)], Number(p), Before(p)) = <<e, [u |-> u, c |-> c, l |-> L]>>
  <2>1. mapped(inode[Target(p)], Before(p).c, Number(p)) = 0
    BY DEF Before, Old
  <2>2. Before(p) = [u |-> u0, c |-> c0, l |-> L0] /\ ind = e0.addrs[NDIRECT] /\ ind # 0
    BY <1>e, <1>i DEF Before
  <2>3. b = balloc([u |-> u0, c |-> c0, l |-> L0])
    BY <1>e, <2>2
  <2>4. PICK bn \in Nat : bn = Number(p) /\ bn >= NDIRECT
    BY <1>f, Sizes
  <2>5. mapping(e0, bn, [u |-> u0, c |-> c0, l |-> L0]) = <<e, [u |-> u, c |-> c, l |-> L]>>
    BY <2>2, <2>3, <2>4, <1>e, MappingIndirect
  <2> QED BY <2>1, <2>2, <2>4, <2>5, <1>e DEF bmap
<1>w. Wrote(p, e, u, c, L)
  BY <1>m, WriteBlockWrote
<1>z. \A j \in 0 .. BSIZE - 1 : Zero[j] = 0
  BY DEF Zero
<1>c. /\ c \in [Block -> [0 .. BSIZE - 1 -> Nat]] /\ c[b] = Zero
      /\ c[ind] = [c0[ind] EXCEPT ![k] = b]
      /\ \A x \in Block \ {b, ind} : c[x] = c0[x]
  <2>1. /\ c0 \in [Block -> [0 .. BSIZE - 1 -> Nat]] /\ b \in Block /\ ind # b
        /\ k \in 0 .. BSIZE - 1
    BY <1>e, <1>u, <1>n, <1>f, <1>i
  <2> QED BY <1>e, <1>i, <2>1, EnteredCell
<1>d. /\ e.addrs[NDIRECT] = ind /\ e \in Dinode /\ e.size = inode[Target(p)].size
      /\ \A j \in 0 .. NDIRECT : j # NDIRECT => e.addrs[j] = inode[Target(p)].addrs[j]
  <2>1. NDIRECT \in 0 .. NDIRECT
    BY Sizes
  <2>2. ind \in Addr
    BY <1>i, AddrFacts
  <2>3. e0 \in Dinode
    BY <1>f, <1>a
  <2> QED BY <1>e, <2>1, <2>2, <2>3, SetAddr
<1>t. Turns(p, e, u, c, L, b)
  <2>1. c[ind][k] = b
    <3>1. k \in DOMAIN c0[ind]
      BY <1>e, <1>u, <1>i, <1>f
    <3> QED BY <1>c, <3>1
  <2>2. mapped(e, c, Number(p)) = b
    BY <2>1, <1>d, <1>e, <1>f, <1>i, Sizes DEF mapped
  <2> QED BY <1>f, <1>c, <1>w, <1>e, <1>n, <2>2 DEF Turns
<1>2. Turned(p, e, u, c, L, b)
  BY <1>t, WroteCell
<1>3. TurnData(p, e, b)
  <2>1. op' = [op EXCEPT ![p] = op'[p]] /\ op'[p] = op[p] \cup {BITMAP, b} \cup {ind} \cup {b}
    BY <1>2, <1>e DEF Turned, TypeOK
  <2>2. cell'[ind] = [j \in 0 .. BSIZE - 1 |-> IF j = Number(p) - NDIRECT THEN b ELSE cell[ind][j]]
    <3>1. cell'[ind] = c[ind] /\ cell[ind] \in [0 .. BSIZE - 1 -> Nat]
      BY <1>2, <1>i, <1>n, <1>e, <1>u DEF Turned, TurnCell
    <3> QED BY <3>1, <1>c, <1>e
  <2>3. \A x \in Block : x # b /\ x # ind => cell'[x] = cell[x]
    BY <1>2, <1>c, <1>e DEF Turned, TurnCell
  <2>4. \A j \in 0 .. BSIZE - 1 : cell'[b][j] =
          IF j \in Turn(p) THEN byte(p, done[p] + tot[p] + j - (Point(p) % BSIZE))
          ELSE 0
    BY <1>2, <1>c, <1>z DEF Turned, TurnCell
  <2>5. cell' \in [Block -> [0 .. BSIZE - 1 -> Nat]]
    BY <1>2 DEF Turned, TurnCell
  <2>6. op'[p] \subseteq op[p] \cup {BITMAP, b, e.addrs[NDIRECT]}
    BY <2>1, <1>d
  <2> QED BY <2>1, <2>2, <2>3, <2>4, <2>5, <2>6, <1>d DEF TurnData
<1>6. TurnMap(p, e, b, {b})
  BY <1>2, <1>f, <1>e, <1>d, <1>i, <1>n, AddrFacts, Sizes DEF TurnMap, Turned
<1> QED BY <1>3, <1>6

\* Neither block is there.
LEMMA TurnFresh ==
  ASSUME TypeOK, CallInv, NEW p \in Process, WriteBlock(p), Old(p) = 0, Indirect(p),
         Fresh(p)
  PROVE  \E e, b, N : TurnMap(p, e, b, N) /\ TurnData(p, e, b)
<1>1. /\ pc[p] = "writei" /\ tot[p] < chunk(p)
      /\ enough(inode[Target(p)], Number(p))
  BY WriteBlockWrote
<1>f. /\ inode[Target(p)] \in Dinode /\ Target(p) \in Inode
      /\ WriterNat(p) /\ Number(p) \in 0 .. MAXFILE - 1 /\ Number(p) >= NDIRECT
      /\ Number(p) - NDIRECT \in 0 .. BSIZE - 1
  BY <1>1, WriterFacts, Sizes DEF WriterNat, Indirect
<1>u. used \in SUBSET Block /\ cell \in [Block -> [0 .. BSIZE - 1 -> Nat]]
  BY DEF TypeOK
<1>q. Cardinality(used) + 2 <= NBlock
  BY <1>1, <1>f, Sizes DEF enough, Old, Fresh
<1>h. PICK s, ind : s = Before(p) /\ ind = balloc(s)
  OBVIOUS
<1>i. ind \in Block \ used /\ ind # 0
  <2>1. Cardinality(used) + 1 <= NBlock
    <3>1. Cardinality(used) \in Nat
      <4>1. IsFiniteSet(Block)
        BY FS_Interval, Sizes DEF Block
      <4> QED BY <1>u, <4>1, FS_Subset, FS_CardinalityType
    <3> QED BY <1>q, <3>1, Sizes
  <2>2. Block \ used # {}
    BY <1>u, <2>1, OneLeft
  <2>3. ind \in Block \ used
    BY <1>h, <2>2, Balloc DEF Before
  <2> QED BY <2>3, AddrFacts
<1>a. PICK e0, c0, u0, L0, k :
        /\ e0 = inode[Target(p)] /\ c0 = cell /\ u0 = used /\ L0 = op[p]
        /\ k = Number(p) - NDIRECT
  OBVIOUS
<1>j. PICK b : b = balloc([u |-> u0 \cup {ind}, c |-> bzero(c0, ind), l |-> L0 \cup {BITMAP, ind}])
  OBVIOUS
<1>n. b \in Block \ (used \cup {ind})
  <2>1. Block \ (u0 \cup {ind}) # {}
    BY <1>u, <1>q, <1>i, <1>a, TwoLeft
  <2> QED BY <1>a, <1>j, <2>1, Balloc
<1>b. PICK e, c, u, L :
        /\ e = [e0 EXCEPT !.addrs[NDIRECT] = ind]
        /\ c = Entered(bzero(c0, ind), ind, k, b)
        /\ u = u0 \cup {ind} \cup {b}
        /\ L = L0 \cup {BITMAP, ind} \cup {BITMAP, b} \cup {ind}
  OBVIOUS
<1>m. bmap(inode[Target(p)], Number(p), Before(p)) = <<e, [u |-> u, c |-> c, l |-> L]>>
  <2>1. mapped(inode[Target(p)], Before(p).c, Number(p)) = 0
    BY DEF Before, Old
  <2>2. Before(p) = [u |-> u0, c |-> c0, l |-> L0] /\ e0.addrs[NDIRECT] = 0
    BY <1>a DEF Before, Fresh
  <2>3. ind = balloc([u |-> u0, c |-> c0, l |-> L0])
    BY <1>h, <2>2
  <2>4. PICK bn \in Nat : bn = Number(p) /\ bn >= NDIRECT
    BY <1>f, Sizes
  <2>5. mapping(e0, bn, [u |-> u0, c |-> c0, l |-> L0]) = <<e, [u |-> u, c |-> c, l |-> L]>>
    <3>1. mapping(e0, bn, [u |-> u0, c |-> c0, l |-> L0]) =
            <<[e0 EXCEPT !.addrs[NDIRECT] = ind],
              FreshState(u0, c0, L0, ind, b, bn - NDIRECT)>>
      <4>1. FreshBlocks(u0, c0, L0, ind, b)
        BY <2>3, <1>j DEF FreshBlocks
      <4> QED BY <2>2, <2>4, <4>1, MappingFresh
    <3>2. bn - NDIRECT = k
      BY <1>a, <2>4
    <3> QED BY <3>1, <3>2, <1>b DEF FreshState
  <2> QED BY <2>1, <2>2, <2>4, <2>5, <1>a DEF bmap
<1>w. Wrote(p, e, u, c, L)
  BY <1>m, WriteBlockWrote
<1>z. \A j \in 0 .. BSIZE - 1 : Zero[j] = 0
  BY DEF Zero
<1>y. /\ bzero(c0, ind) \in [Block -> [0 .. BSIZE - 1 -> Nat]]
      /\ bzero(c0, ind)[ind] = Zero /\ Zero \in [0 .. BSIZE - 1 -> Nat]
      /\ \A x \in Block \ {ind} : bzero(c0, ind)[x] = c0[x]
  <2>1. Zero \in [0 .. BSIZE - 1 -> Nat]
    BY DEF Zero
  <2> QED BY <1>a, <1>u, <1>i, <2>1 DEF bzero
<1>c. /\ c \in [Block -> [0 .. BSIZE - 1 -> Nat]] /\ c[b] = Zero
      /\ c[ind] = [Zero EXCEPT ![k] = b]
      /\ \A x \in Block \ {b, ind} : c[x] = c0[x]
  <2>1. PICK z : z = bzero(c0, ind)
    OBVIOUS
  <2>2. /\ z \in [Block -> [0 .. BSIZE - 1 -> Nat]] /\ b \in Block /\ ind # b
        /\ k \in 0 .. BSIZE - 1 /\ ind \in Block
    BY <1>a, <1>n, <1>f, <1>i, <1>y, <2>1
  <2>3. c = Entered(z, ind, k, b)
    BY <1>b, <2>1
  <2>4. /\ c \in [Block -> [0 .. BSIZE - 1 -> Nat]] /\ c[b] = Zero
        /\ c[ind] = [z[ind] EXCEPT ![k] = b]
        /\ \A x \in Block \ {b, ind} : c[x] = z[x]
    BY <2>2, <2>3, EnteredCell
  <2> QED BY <2>1, <2>4, <1>y
<1>d. /\ e.addrs[NDIRECT] = ind /\ e \in Dinode /\ e.size = inode[Target(p)].size
      /\ \A j \in 0 .. NDIRECT : j # NDIRECT => e.addrs[j] = inode[Target(p)].addrs[j]
  <2>1. NDIRECT \in 0 .. NDIRECT
    BY Sizes
  <2>2. ind \in Addr
    BY <1>i, AddrFacts
  <2>3. e0 \in Dinode
    BY <1>f, <1>a
  <2> QED BY <1>a, <1>b, <2>1, <2>2, <2>3, SetAddr
<1>t. Turns(p, e, u, c, L, b)
  <2>1. c[ind][k] = b
    <3>1. k \in DOMAIN Zero
      BY <1>a, <1>y, <1>f
    <3> QED BY <1>c, <3>1
  <2>2. mapped(e, c, Number(p)) = b
    BY <2>1, <1>d, <1>a, <1>f, <1>i, Sizes DEF mapped
  <2> QED BY <1>f, <1>c, <1>w, <1>n, <2>2 DEF Turns
<1>2. Turned(p, e, u, c, L, b)
  BY <1>t, WroteCell
<1>3. TurnData(p, e, b)
  <2>1. /\ op' = [op EXCEPT ![p] = op'[p]]
        /\ op'[p] = op[p] \cup {BITMAP, ind} \cup {BITMAP, b} \cup {ind} \cup {b}
    BY <1>2, <1>a, <1>b DEF Turned, TypeOK
  <2>2. cell'[ind] = [j \in 0 .. BSIZE - 1 |-> IF j = Number(p) - NDIRECT THEN b ELSE 0]
    <3>1. cell'[ind] = c[ind]
      BY <1>2, <1>i, <1>n DEF Turned, TurnCell
    <3> QED BY <3>1, <1>c, <1>a, <1>y, <1>z
  <2>3. \A x \in Block : x # b /\ x # ind => cell'[x] = cell[x]
    BY <1>2, <1>c, <1>a DEF Turned, TurnCell
  <2>4. \A j \in 0 .. BSIZE - 1 : cell'[b][j] =
          IF j \in Turn(p) THEN byte(p, done[p] + tot[p] + j - (Point(p) % BSIZE))
          ELSE 0
    BY <1>2, <1>c, <1>z DEF Turned, TurnCell
  <2>5. cell' \in [Block -> [0 .. BSIZE - 1 -> Nat]]
    BY <1>2 DEF Turned, TurnCell
  <2>6. op'[p] \subseteq op[p] \cup {BITMAP, b, e.addrs[NDIRECT]}
    BY <2>1, <1>d
  <2> QED BY <2>1, <2>2, <2>3, <2>4, <2>5, <2>6, <1>d DEF TurnData
<1>6. TurnMap(p, e, b, {ind, b})
  <2>1. /\ used' = used \cup {ind, b} /\ inode' = [inode EXCEPT ![Target(p)] = e]
    BY <1>2, <1>a, <1>b DEF Turned
  <2> QED BY <2>1, <1>f, <1>d, <1>i, <1>n, AddrFacts, Sizes DEF TurnMap
<1> QED BY <1>3, <1>6

-----------------------------------------------------------------------------
(* What a turn does to the block maps *)

LEMMA KeptAt ==
  ASSUME NEW i \in Inode
  PROVE  /\ \A k \in 0 .. MAXFILE - 1 :
              <<i, k>> \in Places /\ kept(<<i, k>>) = mapped(inode[i], cell, k)
         /\ <<i, MAXFILE>> \in Places
         /\ kept(<<i, MAXFILE>>) = inode[i].addrs[NDIRECT]
  BY Sizes DEF Places, kept

LEMMA PlaceForm ==
  ASSUME NEW l \in Places
  PROVE  /\ l[1] \in Inode /\ l[2] \in 0 .. MAXFILE /\ l = <<l[1], l[2]>>
         /\ l[2] # MAXFILE => l[2] \in 0 .. MAXFILE - 1
  BY Sizes DEF Places

\* Nothing is freed of an inode that is not being truncated ...
LEMMA NotFreed ==
  ASSUME TypeOK, CallInv, NEW i \in Inode, lock[i] # None => pc[lock[i]] # "itrunc",
         NEW l \in Places, l[1] = i
  PROVE  ~Freed(l)
<1> SUFFICES ASSUME NEW q \in Process, pc[q] = "itrunc", ino(fd[q]) = i
             PROVE  FALSE
  BY DEF Freed
<1>1. lock[i] = q
  BY DEF CallInv, CallOf, TruncInv
<1> QED BY <1>1, FileDataAssumption

\* ... and an indirect block is there until the end.
LEMMA IndirectLive ==
  ASSUME TypeOK, CallInv, NEW i \in Inode, inode[i].addrs[NDIRECT] # 0
  PROVE  <<i, MAXFILE>> \in LivePlaces
<1>1. <<i, MAXFILE>> \in Places /\ kept(<<i, MAXFILE>>) # 0
  BY KeptAt
<1>2. ~Freed(<<i, MAXFILE>>)
  BY Sizes DEF Freed, CallInv, CallOf, TruncInv, TypeOK
<1> QED BY <1>1, <1>2 DEF LivePlaces

LEMMA LiveUsed ==
  ASSUME TypeOK, MapInv, NEW l \in LivePlaces
  PROVE  /\ kept(l) \in used /\ kept(l) \in Block
         /\ \A m \in LivePlaces : kept(l) = kept(m) => l = m
  BY DEF MapInv, TypeOK

\* The block of the writer is a place of its own.
LEMMA OldLive ==
  ASSUME TypeOK, CallInv, NEW p \in Process, pc[p] = "writei", tot[p] < chunk(p),
         Old(p) # 0
  PROVE  <<Target(p), Number(p)>> \in LivePlaces /\ kept(<<Target(p), Number(p)>>) = Old(p)
<1>1. /\ Target(p) \in Inode /\ Number(p) \in 0 .. MAXFILE - 1
      /\ lock[Target(p)] = p
  BY WriterFacts DEF CallInv, CallOf, WriteInv, Target
<1>2. <<Target(p), Number(p)>> \in Places /\ kept(<<Target(p), Number(p)>>) = Old(p)
  BY <1>1, KeptAt DEF Old
<1>3. ~Freed(<<Target(p), Number(p)>>)
  BY <1>1, <1>2, NotFreed
<1> QED BY <1>2, <1>3 DEF LivePlaces

LEMMA TurnFacts ==
  ASSUME TypeOK, CallInv, MapInv, NEW p \in Process, WriteBlock(p)
  PROVE  \E e, b, N : TurnMap(p, e, b, N) /\ TurnData(p, e, b)
<1>1. pc[p] = "writei" /\ tot[p] < chunk(p)
  BY WriteBlockWrote
<1>2. Old(p) # 0 => Old(p) \in used
  BY <1>1, OldLive, LiveUsed
<1>3. Target(p) \in Inode
  BY <1>1, WriterFacts
<1>4. inode[Target(p)].addrs[NDIRECT] \in used \cup {0}
  <2>1. CASE inode[Target(p)].addrs[NDIRECT] # 0
    BY <1>3, <2>1, IndirectLive, LiveUsed, KeptAt
  <2> QED BY <2>1
<1>5. CASE Old(p) # 0
  BY <1>2, <1>5, TurnOld
<1>6. CASE Old(p) = 0 /\ ~Indirect(p)
  BY <1>4, <1>6, TurnDirect
<1>7. CASE Old(p) = 0 /\ Indirect(p) /\ ~Fresh(p)
  BY <1>4, <1>7, TurnIndirect
<1>8. CASE Old(p) = 0 /\ Indirect(p) /\ Fresh(p)
  BY <1>8, TurnFresh
<1> QED BY <1>5, <1>6, <1>7, <1>8

\* The blocks that a turn writes are not those of other places.
LEMMA TurnApart ==
  ASSUME TypeOK, CallInv, MapInv, NEW p \in Process, WriteBlock(p),
         NEW e, NEW b, NEW N, TurnMap(p, e, b, N), NEW l \in LivePlaces
  PROVE  /\ l # <<Target(p), Number(p)>> => kept(l) # b
         /\ l # <<Target(p), MAXFILE>> => kept(l) # e.addrs[NDIRECT]
<1>1. pc[p] = "writei" /\ tot[p] < chunk(p)
  BY WriteBlockWrote
<1>2. kept(l) \in used /\ kept(l) # 0
  BY LiveUsed, AddrFacts
<1>3. Target(p) \in Inode
  BY <1>1, WriterFacts
<1>4. ASSUME l # <<Target(p), Number(p)>> PROVE kept(l) # b
  <2>1. CASE Old(p) # 0
    <3>1. b = Old(p)
      BY <2>1 DEF TurnMap
    <3> QED BY <1>1, <1>4, <2>1, <3>1, OldLive, LiveUsed
  <2>2. CASE Old(p) = 0
    BY <1>2, <2>2 DEF TurnMap
  <2> QED BY <2>1, <2>2
<1>5. ASSUME l # <<Target(p), MAXFILE>> PROVE kept(l) # e.addrs[NDIRECT]
  <2>1. CASE Fresh(p)
    BY <1>2, <2>1 DEF TurnMap
  <2>2. CASE ~Fresh(p) /\ inode[Target(p)].addrs[NDIRECT] # 0
    <3>1. e.addrs[NDIRECT] = inode[Target(p)].addrs[NDIRECT]
      BY <2>2 DEF TurnMap
    <3> QED BY <1>3, <1>5, <2>2, <3>1, IndirectLive, LiveUsed, KeptAt
  <2>3. CASE ~Fresh(p) /\ inode[Target(p)].addrs[NDIRECT] = 0
    BY <1>2, <2>3 DEF TurnMap
  <2> QED BY <2>1, <2>2, <2>3
<1> QED BY <1>4, <1>5

\* A turn changes no place but the two of its block.
LEMMA TurnInode ==
  ASSUME TypeOK, CallInv, NEW p \in Process, WriteBlock(p),
         NEW e, NEW b, NEW N, TurnMap(p, e, b, N)
  PROVE  /\ Target(p) \in Inode /\ Number(p) \in 0 .. MAXFILE - 1
         /\ inode'[Target(p)] = e
         /\ \A j \in Inode : j # Target(p) => inode'[j] = inode[j]
<1>1. pc[p] = "writei" /\ tot[p] < chunk(p)
  BY WriteBlockWrote
<1>2. Target(p) \in Inode /\ Number(p) \in 0 .. MAXFILE - 1
  BY <1>1, WriterFacts
<1>3. inode' = [inode EXCEPT ![Target(p)] = e] /\ inode \in [Inode -> Dinode]
  BY DEF TurnMap, TypeOK
<1> QED BY <1>2, <1>3

\* Another inode.
LEMMA TurnOther ==
  ASSUME TypeOK, CallInv, MapInv, NEW p \in Process, WriteBlock(p),
         NEW e, NEW b, NEW N, TurnMap(p, e, b, N), TurnData(p, e, b),
         NEW j \in Inode, j # Target(p)
  PROVE  /\ \A k \in 0 .. MAXFILE - 1 :
              mapped(inode'[j], cell', k) = mapped(inode[j], cell, k)
         /\ inode'[j].addrs[NDIRECT] # 0 =>
              cell'[inode'[j].addrs[NDIRECT]] = cell[inode[j].addrs[NDIRECT]]
<1>1. inode'[j] = inode[j]
  BY TurnInode
<1>2. CASE inode[j].addrs[NDIRECT] = 0
  BY <1>1, <1>2 DEF mapped
<1>3. CASE inode[j].addrs[NDIRECT] # 0
  <2>1. PICK x : x = inode[j].addrs[NDIRECT]
    OBVIOUS
  <2>2. <<j, MAXFILE>> \in LivePlaces /\ kept(<<j, MAXFILE>>) = x
    BY <1>3, <2>1, IndirectLive, KeptAt
  <2>3. <<j, MAXFILE>> # <<Target(p), Number(p)>> /\ <<j, MAXFILE>> # <<Target(p), MAXFILE>>
    OBVIOUS
  <2>4. x # b /\ x # e.addrs[NDIRECT] /\ x \in Block
    BY <2>2, <2>3, TurnApart, LiveUsed
  <2>5. cell'[x] = cell[x]
    BY <2>4 DEF TurnData
  <2> QED BY <1>1, <2>1, <2>5 DEF mapped
<1> QED BY <1>2, <1>3

\* The inode of the writer.
LEMMA TurnOwn ==
  ASSUME TypeOK, CallInv, MapInv, NEW p \in Process, WriteBlock(p),
         NEW e, NEW b, NEW N, TurnMap(p, e, b, N), TurnData(p, e, b)
  PROVE  /\ mapped(e, cell', Number(p)) = b
         /\ \A k \in 0 .. MAXFILE - 1 : k # Number(p) =>
              mapped(e, cell', k) = mapped(inode[Target(p)], cell, k)
         /\ e.addrs[NDIRECT] # 0 =>
              \A k \in 0 .. BSIZE - 1 : cell'[e.addrs[NDIRECT]][k] \in Addr
<1>0. pc[p] = "writei" /\ tot[p] < chunk(p)
  BY WriteBlockWrote
<1>1. PICK i, bn, e0, x, y :
        /\ i = Target(p) /\ bn = Number(p) /\ e0 = inode[Target(p)]
        /\ x = inode[Target(p)].addrs[NDIRECT] /\ y = e.addrs[NDIRECT]
  OBVIOUS
<1>2. i \in Inode /\ bn \in 0 .. MAXFILE - 1 /\ b \in Block /\ e \in Dinode
  BY <1>1, TurnInode DEF TurnMap
<1>3. \A k \in 0 .. NDIRECT : k # bn /\ k # NDIRECT => e.addrs[k] = e0.addrs[k]
  BY <1>1 DEF TurnMap
<1>4. x # 0 => /\ \A k \in 0 .. BSIZE - 1 : cell[x][k] \in Addr
               /\ x \in used /\ x \in Block /\ x # b
  <2> SUFFICES ASSUME x # 0 PROVE /\ \A k \in 0 .. BSIZE - 1 : cell[x][k] \in Addr
                                  /\ x \in used /\ x \in Block /\ x # b
    OBVIOUS
  <2>1. \A k \in 0 .. BSIZE - 1 : cell[x][k] \in Addr
    BY <1>1, <1>2 DEF TypeOK, NINDIRECT
  <2>2. <<i, MAXFILE>> \in LivePlaces /\ kept(<<i, MAXFILE>>) = x
    BY <1>1, <1>2, IndirectLive, KeptAt
  <2>3. <<i, MAXFILE>> # <<i, bn>>
    BY <1>2, Sizes
  <2> QED BY <1>1, <2>1, <2>2, <2>3, TurnApart, LiveUsed
<1>m. \A k \in 0 .. MAXFILE - 1 :
        /\ k < NDIRECT => /\ mapped(e, cell', k) = e.addrs[k]
                          /\ mapped(e0, cell, k) = e0.addrs[k]
        /\ k >= NDIRECT => /\ mapped(e, cell', k) = IF y = 0 THEN 0 ELSE cell'[y][k - NDIRECT]
                           /\ mapped(e0, cell, k) = IF x = 0 THEN 0 ELSE cell[x][k - NDIRECT]
                           /\ k - NDIRECT \in 0 .. BSIZE - 1
  BY <1>1, Sizes DEF mapped
<1>5. CASE Old(p) # 0
  <2>1. e = e0 /\ y = x /\ b = Old(p) /\ mapped(e0, cell, bn) = b
    BY <1>1, <1>5 DEF TurnMap, Old
  <2>2. x # 0 => cell'[x] = cell[x]
    BY <1>4, <1>5 DEF TurnData
  <2>3. \A k \in 0 .. MAXFILE - 1 : mapped(e, cell', k) = mapped(e0, cell, k)
    BY <1>m, <2>1, <2>2, Sizes
  <2> QED BY <1>1, <1>2, <1>4, <2>1, <2>2, <2>3
<1>6. CASE Old(p) = 0 /\ ~Indirect(p)
  <2>1. bn < NDIRECT /\ e.addrs[bn] = b /\ y = x
    BY <1>1, <1>2, <1>6, Sizes DEF TurnMap, Indirect, Fresh
  <2>2. x # 0 => cell'[x] = cell[x]
    BY <1>4, <1>6 DEF TurnData
  <2>3. mapped(e, cell', bn) = b
    BY <1>2, <1>m, <2>1
  <2>4. ASSUME NEW k \in 0 .. MAXFILE - 1, k # bn
        PROVE  mapped(e, cell', k) = mapped(e0, cell, k)
    BY <1>m, <1>3, <2>1, <2>2, <2>4, Sizes
  <2> QED BY <1>1, <1>4, <2>1, <2>2, <2>3, <2>4
<1>7. CASE Old(p) = 0 /\ Indirect(p)
  <2>1. /\ bn >= NDIRECT /\ y \in Block /\ y # b /\ y # 0
        /\ x # 0 => y = x
        /\ Fresh(p) <=> (x = 0)
    BY <1>1, <1>7, AddrFacts DEF TurnMap, Indirect, Fresh
  <2>2. cell'[y] = [k \in 0 .. BSIZE - 1 |-> IF k = bn - NDIRECT THEN b
                                      ELSE IF Fresh(p) THEN 0 ELSE cell[y][k]]
    BY <1>1, <1>7, <2>1 DEF TurnData
  <2>3. mapped(e, cell', bn) = b
    BY <1>2, <1>m, <2>1, <2>2
  <2>4. ASSUME NEW k \in 0 .. MAXFILE - 1, k # bn
        PROVE  mapped(e, cell', k) = mapped(e0, cell, k)
    <3>1. CASE k < NDIRECT
      BY <1>m, <1>3, <2>4, <3>1, Sizes
    <3>2. CASE k >= NDIRECT
      <4>1. k - NDIRECT # bn - NDIRECT
        BY <1>2, <2>4, Sizes
      <4>2. k - NDIRECT \in 0 .. BSIZE - 1 /\ mapped(e, cell', k) = cell'[y][k - NDIRECT]
        BY <1>m, <2>1, <3>2
      <4>3. cell'[y][k - NDIRECT] = IF Fresh(p) THEN 0 ELSE cell[y][k - NDIRECT]
        BY <2>2, <4>1, <4>2
      <4>4. mapped(e0, cell, k) = IF x = 0 THEN 0 ELSE cell[x][k - NDIRECT]
        BY <1>m, <3>2
      <4> QED BY <2>1, <4>2, <4>3, <4>4
    <3> QED BY <3>1, <3>2, Sizes
  <2>5. \A k \in 0 .. BSIZE - 1 : cell'[y][k] \in Addr
    BY <1>2, <1>4, <2>1, <2>2, AddrFacts DEF Addr
  <2> QED BY <1>1, <2>3, <2>4, <2>5
<1> QED BY <1>5, <1>6, <1>7

LEMMA TurnPlaces ==
  ASSUME TypeOK, CallInv, MapInv, NEW p \in Process, WriteBlock(p),
         NEW e, NEW b, NEW N, TurnMap(p, e, b, N), TurnData(p, e, b),
         NEW i, i = Target(p), NEW bn, bn = Number(p)
  PROVE  /\ kept(<<i, bn>>)' = b /\ kept(<<i, MAXFILE>>)' = e.addrs[NDIRECT]
         /\ \A l \in Places : l # <<i, bn>> /\ l # <<i, MAXFILE>> => kept(l)' = kept(l)
<1>1. /\ i \in Inode /\ bn \in 0 .. MAXFILE - 1 /\ inode'[i] = e
      /\ \A j \in Inode : j # i => inode'[j] = inode[j]
  BY TurnInode
<1>2. kept(<<i, bn>>)' = b /\ kept(<<i, MAXFILE>>)' = e.addrs[NDIRECT]
  BY <1>1, TurnOwn, Sizes DEF kept
<1>3. ASSUME NEW l \in Places, l # <<i, bn>>, l # <<i, MAXFILE>>
      PROVE  kept(l)' = kept(l)
  <2>1. PICK j \in Inode, k \in 0 .. MAXFILE :
          j = l[1] /\ k = l[2] /\ l = <<j, k>> /\ (k # MAXFILE => k \in 0 .. MAXFILE - 1)
    BY PlaceForm
  <2>2. CASE k = MAXFILE
    <3>1. j # i
      BY <1>3, <2>1, <2>2
    <3> QED BY <1>1, <2>1, <2>2, <3>1 DEF kept
  <2>3. CASE k # MAXFILE /\ j # i
    <3>1. mapped(inode'[j], cell', k) = mapped(inode[j], cell, k)
      BY <2>1, <2>3, TurnOther
    <3> QED BY <2>1, <2>3, <3>1 DEF kept
  <2>4. CASE k # MAXFILE /\ j = i
    <3>1. k # bn /\ k \in 0 .. MAXFILE - 1
      BY <1>3, <2>1, <2>4
    <3>2. mapped(e, cell', k) = mapped(inode[i], cell, k)
      BY <3>1, TurnOwn
    <3> QED BY <1>1, <2>1, <2>4, <3>2 DEF kept
  <2> QED BY <2>2, <2>3, <2>4
<1> QED BY <1>2, <1>3

\* The data of other places is left alone.
LEMMA TurnBytes ==
  ASSUME TypeOK, CallInv, MapInv, NEW p \in Process, WriteBlock(p),
         NEW e, NEW b, NEW N, TurnMap(p, e, b, N), TurnData(p, e, b),
         NEW l \in LivePlaces, l # <<Target(p), Number(p)>>, l[2] # MAXFILE
  PROVE  cell'[kept(l)] = cell[kept(l)] /\ kept(l) \in Block
<1>1. l # <<Target(p), MAXFILE>>
  OBVIOUS
<1>2. kept(l) # b /\ kept(l) # e.addrs[NDIRECT]
  BY <1>1, TurnApart
<1>3. kept(l) \in Block
  BY LiveUsed
<1> QED BY <1>2, <1>3 DEF TurnData

-----------------------------------------------------------------------------
(* The type invariant *)

LEMMA InitType == Init => TypeOK
<1> SUFFICES ASSUME Init PROVE TypeOK
  OBVIOUS
<1>1. Empty \in Dinode /\ Empty.addrs[NDIRECT] = 0
  BY Sizes DEF Empty, Dinode, Addr
<1>2. Zero \in [0 .. BSIZE - 1 -> Nat]
  BY DEF Zero
<1> QED BY <1>1, <1>2, Sizes DEF Init, TypeOK

\* Back gives the call of p up.
LEMMA BackType ==
  ASSUME TypeOK, NEW p \in Process, Back(p)
  PROVE  /\ pc' \in [Process -> {"user", "read", "write", "writei", "itrunc"}]
         /\ fd' \in [Process -> File \cup {None}]
         /\ {val', cnt', done', tot'} \subseteq [Process -> Nat]
         /\ op' \in [Process -> SUBSET (Addr \cup {IBLOCK})]
  BY DEF TypeOK, Back

LEMMA CallType ==
  ASSUME TypeOK, NEW p \in Process, Call(p) PROVE TypeOK'
<1>1. PICK c \in {"read", "write"}, f \in File, n \in Counts :
        /\ pc' = [pc EXCEPT ![p] = c] /\ fd' = [fd EXCEPT ![p] = f]
        /\ cnt' = [cnt EXCEPT ![p] = n]
  BY DEF Call
<1>2. n \in Nat
  BY FileDataAssumption
<1>3. /\ val' = [val EXCEPT ![p] = calls] /\ calls' = calls + 1
      /\ UNCHANGED <<used, cell, inode, dinode, lock, off, done, tot, op, got>>
  BY DEF Call, store
<1> QED BY <1>1, <1>2, <1>3 DEF TypeOK

LEMMA BytesType ==
  ASSUME TypeOK, NEW i \in Inode, NEW o \in Nat, NEW n \in Nat,
         o + n <= inode[i].size
  PROVE  bytes(i, o, n) \in Seq(Nat)
<1>1. ASSUME NEW k \in 1 .. n PROVE bytes(i, o, n)[k] \in Nat
  <2>1. PICK q \in Nat : q = o + k - 1
    BY Sizes
  <2>2. q % BSIZE \in 0 .. BSIZE - 1
    BY DivMod
  <2>3. PICK b : b = mapped(inode[i], cell, q \div BSIZE)
    OBVIOUS
  <2>4. bytes(i, o, n)[k] = IF b \in Block THEN cell[b][q % BSIZE] ELSE 0
    BY <2>1, <2>3 DEF bytes
  <2>5. cell \in [Block -> [0 .. BSIZE - 1 -> Nat]]
    BY DEF TypeOK
  <2>6. PICK r \in 0 .. BSIZE - 1 : r = q % BSIZE
    BY <2>2
  <2>7. b \in Block => cell[b][r] \in Nat
    BY <2>5
  <2> QED BY <2>4, <2>6, <2>7
<1>2. DOMAIN bytes(i, o, n) = 1 .. n /\ bytes(i, o, n) = [k \in 1 .. n |-> bytes(i, o, n)[k]]
  BY DEF bytes
<1>3. bytes(i, o, n) \in [1 .. n -> Nat]
  BY <1>1, <1>2
<1> QED BY <1>3, SeqDef

\* What readi gives.
LEMMA ReadFacts ==
  ASSUME TypeOK, CallInv, NEW p \in Process, pc[p] = "read", NEW n,
         n = readi(ino(fd[p]), off[fd[p]], cnt[p])
  PROVE  /\ fd[p] \in File /\ ino(fd[p]) \in Inode
         /\ n \in Nat /\ off[fd[p]] \in Nat
         /\ inode[ino(fd[p])].size \in Nat
         /\ inode[ino(fd[p])].size <= MAXFILE * BSIZE
         /\ n > 0 => off[fd[p]] + n <= inode[ino(fd[p])].size
<1>1. fd[p] \in File /\ ino(fd[p]) \in Inode
  BY FileDataAssumption DEF CallInv, CallOf
<1>2. inode[ino(fd[p])] \in Dinode /\ off[fd[p]] \in Nat /\ cnt[p] \in Nat
  BY <1>1, Sizes DEF TypeOK
<1>3. inode[ino(fd[p])].size \in 0 .. MAXFILE * BSIZE
  BY <1>2 DEF Dinode
<1> QED BY <1>1, <1>2, <1>3, Sizes DEF readi, Least

LEMMA ReadType ==
  ASSUME TypeOK, CallInv, NEW p \in Process, Read(p) PROVE TypeOK'
<1>1. pc[p] = "read" /\ Back(p) /\ UNCHANGED <<used, cell, inode, dinode, lock, calls>>
  BY DEF Read
<1>2. PICK n, i, o : i = ino(fd[p]) /\ o = off[fd[p]] /\ n = readi(i, o, cnt[p])
  OBVIOUS
<1>3. /\ fd[p] \in File /\ i \in Inode /\ n \in Nat /\ o \in Nat
      /\ inode[i].size \in Nat /\ inode[i].size <= MAXFILE * BSIZE
      /\ n > 0 => o + n <= inode[i].size
  BY <1>1, <1>2, ReadFacts
<1>4. off' \in [File -> 0 .. MaxOff] /\ got' \in [Process -> Seq(Nat)]
  <2>1. CASE n > 0
    <3>1. got' = [got EXCEPT ![p] = bytes(i, o, n)] /\ off' = [off EXCEPT ![fd[p]] = o + n]
      BY <1>2, <2>1 DEF Read
    <3>2. o + n \in 0 .. MaxOff
      BY <1>3, <2>1, Sizes
    <3>3. bytes(i, o, n) \in Seq(Nat)
      BY <1>3, <2>1, BytesType
    <3> QED BY <1>3, <3>1, <3>2, <3>3 DEF TypeOK
  <2>2. CASE n = 0
    BY <1>2, <2>2 DEF Read, TypeOK
  <2> QED BY <1>3, <2>1, <2>2
<1> QED BY <1>1, <1>4, BackType DEF TypeOK

LEMMA FailsType ==
  ASSUME TypeOK, NEW p \in Process, WriteFails(p) PROVE TypeOK'
<1>1. Back(p) /\ UNCHANGED <<store, got, calls>>
  BY DEF WriteFails
<1> QED BY <1>1, BackType DEF TypeOK, store

LEMMA BeginType ==
  ASSUME TypeOK, CallInv, NEW p \in Process, WriteBegin(p) PROVE TypeOK'
<1>1. ino(fd[p]) \in Inode
  BY FileDataAssumption DEF CallInv, CallOf, WriteBegin
<1> QED BY <1>1 DEF TypeOK, WriteBegin, call

LEMMA BlockType ==
  ASSUME TypeOK, CallInv, MapInv, NEW p \in Process, WriteBlock(p) PROVE TypeOK'
<1>0. pc[p] = "writei" /\ tot[p] < chunk(p)
  BY WriteBlockWrote
<1>1. PICK e, b, N : TurnMap(p, e, b, N) /\ TurnData(p, e, b)
  BY TurnFacts
<1>2. /\ used' \subseteq Block /\ cell' \in [Block -> [0 .. BSIZE - 1 -> Nat]]
      /\ inode' \in [Inode -> Dinode]
  BY <1>1 DEF TurnMap, TurnData, TypeOK
<1>3. ASSUME NEW i \in Inode, inode'[i].addrs[NDIRECT] # 0
      PROVE  \A j \in 0 .. NINDIRECT - 1 : cell'[inode'[i].addrs[NDIRECT]][j] \in Addr
  <2>1. CASE i = Target(p)
    BY <1>1, <1>3, <2>1, TurnInode, TurnOwn DEF NINDIRECT
  <2>2. CASE i # Target(p)
    <3>1. /\ inode'[i] = inode[i]
          /\ cell'[inode'[i].addrs[NDIRECT]] = cell[inode[i].addrs[NDIRECT]]
      BY <1>1, <1>3, <2>2, TurnInode, TurnOther
    <3> QED BY <1>3, <3>1 DEF TypeOK
  <2> QED BY <2>1, <2>2
<1>4. op' \in [Process -> SUBSET (Addr \cup {IBLOCK})]
  <2>1. e.addrs[NDIRECT] \in Addr /\ b \in Addr /\ BITMAP \in Addr
    BY <1>1, AddrFacts, Sizes DEF TurnMap, Dinode, BITMAP
  <2>2. op' = [op EXCEPT ![p] = op'[p]] /\ op'[p] \subseteq op[p] \cup {BITMAP, b, e.addrs[NDIRECT]}
    BY <1>1 DEF TurnData
  <2>3. op'[p] \in SUBSET (Addr \cup {IBLOCK})
    BY <2>1, <2>2 DEF TypeOK
  <2> QED BY <2>2, <2>3 DEF TypeOK
<1>5. tot' \in [Process -> Nat]
  <2>1. turn(p, Point(p)) \in Nat /\ tot[p] \in Nat
    BY <1>0, WriterFacts
  <2>2. tot' = [tot EXCEPT ![p] = tot[p] + turn(p, Point(p))]
    BY DEF WriteBlock, Point
  <2> QED BY <2>1, <2>2 DEF TypeOK
<1>6. UNCHANGED <<dinode, lock, off, pc, fd, val, cnt, done, got, calls>>
  BY DEF WriteBlock, call
<1> QED BY <1>2, <1>3, <1>4, <1>5, <1>6 DEF TypeOK

\* The end of a chunk.
LEMMA EndFacts ==
  ASSUME TypeOK, CallInv, NEW p \in Process, WriteEnd(p)
  PROVE  /\ pc[p] = "writei" /\ tot[p] = chunk(p) /\ fd[p] \in File
         /\ ino(fd[p]) \in Inode /\ inode[ino(fd[p])] \in Dinode
         /\ WriteInv(p) /\ off[fd[p]] \in Nat /\ tot[p] \in Nat
         /\ off[fd[p]] + tot[p] \in 0 .. MAXFILE * BSIZE
         /\ inode[ino(fd[p])].size \in 0 .. MAXFILE * BSIZE
         /\ done[p] \in Nat /\ cnt[p] \in Nat /\ done[p] + tot[p] <= cnt[p]
<1>1. pc[p] = "writei" /\ tot[p] = chunk(p)
  BY DEF WriteEnd
<1>2. fd[p] \in File /\ WriteInv(p)
  BY <1>1 DEF CallInv, CallOf
<1>3. ino(fd[p]) \in Inode /\ inode[ino(fd[p])] \in Dinode
  BY <1>2, FileDataAssumption DEF TypeOK
<1>4. off[fd[p]] \in Nat /\ tot[p] \in Nat /\ done[p] \in Nat /\ cnt[p] \in Nat
  BY <1>2, Sizes DEF TypeOK
<1>5. inode[ino(fd[p])].size \in 0 .. MAXFILE * BSIZE
  BY <1>3 DEF Dinode
<1>m. max \in Nat
  <2> DEFINE k == (MAXOPBLOCKS - 1 - 1 - 2) \div 2
  <2>1. k \in Nat
    BY Sizes, FileDataAssumption
  <2> HIDE DEF k
  <2>2. k * BSIZE \in Nat
    BY <2>1, Sizes
  <2> QED BY <2>2 DEF max, k
<1>6. tot[p] <= cnt[p] - done[p]
  BY <1>1, <1>2, <1>4, <1>m DEF chunk, Least, WriteInv
<1> QED BY <1>1, <1>2, <1>3, <1>4, <1>5, <1>6, Sizes DEF WriteInv

\* The inode with a new size.
Sized(e, n) == [e EXCEPT !.size = n]

LEMMA SizedType ==
  ASSUME NEW e \in Dinode, NEW n \in 0 .. MAXFILE * BSIZE
  PROVE  Sized(e, n) \in Dinode /\ Sized(e, n).size = n /\ Sized(e, n).addrs = e.addrs
  BY DEF Dinode, Sized

LEMMA EndStore ==
  ASSUME TypeOK, CallInv, NEW p \in Process, WriteEnd(p), NEW i, i = ino(fd[p]),
         NEW f, f = fd[p], NEW o, o = off[f] + tot[p]
  PROVE  /\ used' = used /\ cell' = cell /\ lock' = [lock EXCEPT ![i] = None]
         /\ off' = [off EXCEPT ![f] = o]
         /\ o > inode[i].size => /\ inode' = [inode EXCEPT ![i] = Sized(inode[i], o)]
                                 /\ dinode' = [dinode EXCEPT ![i] = Sized(inode[i], o)]
         /\ ~(o > inode[i].size) => inode' = inode /\ dinode' = dinode
         /\ got' = got /\ calls' = calls
  BY DEF WriteEnd, grows, Sized

LEMMA EndType ==
  ASSUME TypeOK, CallInv, NEW p \in Process, WriteEnd(p) PROVE TypeOK'
<1>1. PICK i, f, o, e : i = ino(fd[p]) /\ f = fd[p] /\ o = off[f] + tot[p] /\ e = Sized(inode[i], o)
  OBVIOUS
<1>2. /\ f \in File /\ i \in Inode /\ inode[i] \in Dinode /\ o \in 0 .. MAXFILE * BSIZE
      /\ done[p] \in Nat /\ tot[p] \in Nat
  BY <1>1, EndFacts
<1>3. e \in Dinode /\ e.addrs = inode[i].addrs
  BY <1>1, <1>2, SizedType
<1>4. /\ used' = used /\ cell' = cell /\ lock' = [lock EXCEPT ![i] = None]
      /\ off' = [off EXCEPT ![f] = o] /\ got' = got /\ calls' = calls
      /\ \/ inode' = [inode EXCEPT ![i] = e] /\ dinode' = [dinode EXCEPT ![i] = e]
         \/ inode' = inode /\ dinode' = dinode
  BY <1>1, EndStore
<1>5. /\ inode' \in [Inode -> Dinode] /\ dinode' \in [Inode -> Dinode]
      /\ \A j \in Inode : inode'[j].addrs = inode[j].addrs
  BY <1>2, <1>3, <1>4 DEF TypeOK
<1>6. lock' \in [Inode -> Process \cup {None}] /\ off' \in [File -> 0 .. MaxOff]
  BY <1>2, <1>4, Sizes DEF TypeOK
<1>7. /\ pc' \in [Process -> {"user", "read", "write", "writei", "itrunc"}]
      /\ fd' \in [Process -> File \cup {None}]
      /\ {val', cnt', done', tot'} \subseteq [Process -> Nat]
      /\ op' \in [Process -> SUBSET (Addr \cup {IBLOCK})]
  <2>1. CASE done[p] + tot[p] < cnt[p]
    <3>1. /\ pc' = [pc EXCEPT ![p] = "write"] /\ done' = [done EXCEPT ![p] = done[p] + tot[p]]
          /\ tot' = [tot EXCEPT ![p] = 0] /\ op' = [op EXCEPT ![p] = {}]
          /\ UNCHANGED <<fd, val, cnt>>
      BY <2>1 DEF WriteEnd, call
    <3> QED BY <1>2, <3>1 DEF TypeOK
  <2>2. CASE ~(done[p] + tot[p] < cnt[p])
    BY <2>2, BackType DEF WriteEnd
  <2> QED BY <2>1, <2>2
<1> QED BY <1>4, <1>5, <1>6, <1>7 DEF TypeOK

LEMMA LseekType ==
  ASSUME TypeOK, NEW p \in Process, Lseek(p) PROVE TypeOK'
<1>1. PICK f \in File, o \in Offsets, whence \in {"SEEK_SET", "SEEK_CUR", "SEEK_END"} :
        /\ valid_offset(sought(f, o, whence)) /\ sought(f, o, whence) <= MaxOff
        /\ off' = [off EXCEPT ![f] = sought(f, o, whence)]
  BY DEF Lseek
<1>2. off[f] \in Int /\ inode[ino(f)] \in Dinode /\ o \in Int
  BY FileDataAssumption, Sizes DEF TypeOK
<1>3. inode[ino(f)].size \in Int
  BY <1>2, Sizes DEF Dinode
<1>4. sought(f, o, whence) \in Int
  BY <1>2, <1>3 DEF sought
<1>5. off' \in [File -> 0 .. MaxOff]
  BY <1>1, <1>4, Sizes DEF valid_offset, TypeOK
<1>6. calls' = calls + 1
      /\ UNCHANGED <<used, cell, inode, dinode, lock, pc, fd, val, cnt, done, tot, op, got>>
  BY DEF Lseek, call
<1> QED BY <1>5, <1>6 DEF TypeOK

LEMMA RemoveType ==
  ASSUME TypeOK, NEW p \in Process, Remove(p) PROVE TypeOK'
<1>1. PICK f \in File :
        /\ fd' = [fd EXCEPT ![p] = f] /\ lock' = [lock EXCEPT ![ino(f)] = p]
        /\ off' = [g \in File |-> IF ino(g) = ino(f) THEN 0 ELSE off[g]]
  BY DEF Remove
<1>2. ino(f) \in Inode
  BY FileDataAssumption
<1>3. off' \in [File -> 0 .. MaxOff]
  BY <1>1, Sizes DEF TypeOK
<1>4. /\ pc' = [pc EXCEPT ![p] = "itrunc"] /\ calls' = calls + 1
      /\ UNCHANGED <<used, cell, inode, dinode, val, cnt, done, tot, op, got>>
  BY DEF Remove
<1> QED BY <1>1, <1>2, <1>3, <1>4 DEF TypeOK

\* itrunc at work.
LEMMA TruncFacts ==
  ASSUME TypeOK, CallInv, NEW p \in Process, pc[p] = "itrunc"
  PROVE  /\ fd[p] \in File /\ ino(fd[p]) \in Inode /\ inode[ino(fd[p])] \in Dinode
         /\ TruncInv(p) /\ tot[p] \in 0 .. MAXFILE
<1>1. fd[p] \in File /\ TruncInv(p)
  BY DEF CallInv, CallOf
<1>2. ino(fd[p]) \in Inode /\ inode[ino(fd[p])] \in Dinode
  BY <1>1, FileDataAssumption DEF TypeOK
<1>3. tot[p] \in 0 .. MAXFILE
  BY <1>1, Sizes DEF TruncInv, TypeOK
<1> QED BY <1>1, <1>2, <1>3

\* The step of itrunc, with the inode after it.
Cut(e, k) == [e EXCEPT !.addrs[k] = 0]

LEMMA TruncStep ==
  ASSUME TypeOK, CallInv, NEW p \in Process, TruncBlock(p),
         NEW i, i = ino(fd[p]), NEW k, k = tot[p], NEW b, b = mapped(inode[i], cell, k)
  PROVE  /\ i \in Inode /\ k \in 0 .. MAXFILE - 1 /\ inode[i] \in Dinode /\ b \in Addr
         /\ used' = used \ {b} /\ cell' = cell
         /\ k < NDIRECT => inode' = [inode EXCEPT ![i] = Cut(inode[i], k)]
         /\ ~(k < NDIRECT) => inode' = inode
         /\ op' = [op EXCEPT ![p] = IF b # 0 THEN op[p] \cup {BITMAP} ELSE op[p]]
         /\ tot' = [tot EXCEPT ![p] = k + 1]
         /\ UNCHANGED <<dinode, lock, off, pc, fd, val, cnt, done, got, calls>>
<1>1. pc[p] = "itrunc" /\ tot[p] < MAXFILE
  BY DEF TruncBlock, trunc_count
<1>2. i \in Inode /\ inode[i] \in Dinode /\ k \in 0 .. MAXFILE
  BY <1>1, TruncFacts
<1>3. k \in 0 .. MAXFILE - 1
  BY <1>1, <1>2, Sizes
<1>4. b \in Addr
  BY <1>2, <1>3, MappedType
<1> QED BY <1>2, <1>3, <1>4 DEF TruncBlock, bfree, Cut, call

\* Where the inode changes, the addresses of other numbers do not.
LEMMA CutFacts ==
  ASSUME NEW e \in Dinode, NEW k \in 0 .. NDIRECT
  PROVE  /\ Cut(e, k) \in Dinode /\ Cut(e, k).size = e.size /\ Cut(e, k).addrs[k] = 0
         /\ \A j \in 0 .. NDIRECT : j # k => Cut(e, k).addrs[j] = e.addrs[j]
<1>1. 0 \in Addr
  BY AddrFacts, Sizes
<1> QED BY <1>1, SetAddr DEF Cut

LEMMA TruncBlockType ==
  ASSUME TypeOK, CallInv, NEW p \in Process, TruncBlock(p) PROVE TypeOK'
<1>1. PICK i, k, b : i = ino(fd[p]) /\ k = tot[p] /\ b = mapped(inode[i], cell, k)
  OBVIOUS
<1>2. /\ i \in Inode /\ k \in 0 .. MAXFILE - 1 /\ inode[i] \in Dinode /\ b \in Addr
      /\ used' = used \ {b} /\ cell' = cell
      /\ k < NDIRECT => inode' = [inode EXCEPT ![i] = Cut(inode[i], k)]
      /\ ~(k < NDIRECT) => inode' = inode
      /\ op' = [op EXCEPT ![p] = IF b # 0 THEN op[p] \cup {BITMAP} ELSE op[p]]
      /\ tot' = [tot EXCEPT ![p] = k + 1]
      /\ UNCHANGED <<dinode, lock, off, pc, fd, val, cnt, done, got, calls>>
  BY <1>1, TruncStep
<1>3. /\ inode' \in [Inode -> Dinode]
      /\ \A j \in Inode : inode'[j].addrs[NDIRECT] = inode[j].addrs[NDIRECT]
  <2>1. CASE k < NDIRECT
    <3>1. k \in 0 .. NDIRECT /\ NDIRECT \in 0 .. NDIRECT /\ NDIRECT # k
      BY <1>2, <2>1, Sizes
    <3>2. /\ Cut(inode[i], k) \in Dinode
          /\ Cut(inode[i], k).addrs[NDIRECT] = inode[i].addrs[NDIRECT]
      BY <1>2, <3>1, CutFacts
    <3> QED BY <1>2, <2>1, <3>2 DEF TypeOK
  <2>2. CASE ~(k < NDIRECT)
    BY <1>2, <2>2 DEF TypeOK
  <2> QED BY <2>1, <2>2
<1>4. op' \in [Process -> SUBSET (Addr \cup {IBLOCK})]
  BY <1>2, AddrFacts, Sizes DEF TypeOK, BITMAP
<1>5. tot' \in [Process -> Nat]
  BY <1>2, Sizes DEF TypeOK
<1>6. used' \subseteq Block
  BY <1>2 DEF TypeOK
<1>7. \A j \in Inode : inode'[j].addrs[NDIRECT] # 0 =>
        \A m \in 0 .. NINDIRECT - 1 : cell'[inode'[j].addrs[NDIRECT]][m] \in Addr
  BY <1>2, <1>3 DEF TypeOK
<1> QED BY <1>2, <1>3, <1>4, <1>5, <1>6, <1>7 DEF TypeOK

\* The end of itrunc.
Emptied(e) == [size |-> 0, addrs |-> [e.addrs EXCEPT ![NDIRECT] = 0]]

LEMMA EmptiedFacts ==
  ASSUME NEW e \in Dinode
  PROVE  /\ Emptied(e) \in Dinode /\ Emptied(e).size = 0 /\ Emptied(e).addrs[NDIRECT] = 0
         /\ \A j \in 0 .. NDIRECT : j # NDIRECT => Emptied(e).addrs[j] = e.addrs[j]
<1>1. e = [size |-> e.size, addrs |-> e.addrs] /\ e.addrs \in [0 .. NDIRECT -> Addr]
  BY DEF Dinode
<1>2. PICK a : a = [e.addrs EXCEPT ![NDIRECT] = 0]
  OBVIOUS
<1>3. /\ a \in [0 .. NDIRECT -> Addr] /\ a[NDIRECT] = 0
      /\ \A j \in 0 .. NDIRECT : j # NDIRECT => a[j] = e.addrs[j]
  <2>1. 0 \in Addr /\ NDIRECT \in 0 .. NDIRECT
    BY Direct DEF Addr
  <2> QED BY <1>1, <1>2, <2>1
<1>4. Emptied(e) = [size |-> 0, addrs |-> a]
  BY <1>1, <1>2 DEF Emptied
<1>5. 0 \in 0 .. MAXFILE * BSIZE
  BY Sizes
<1> QED BY <1>3, <1>4, <1>5 DEF Dinode

LEMMA TruncLast ==
  ASSUME TypeOK, CallInv, NEW p \in Process, TruncEnd(p),
         NEW i, i = ino(fd[p]), NEW b, b = inode[i].addrs[NDIRECT]
  PROVE  /\ i \in Inode /\ inode[i] \in Dinode /\ pc[p] = "itrunc" /\ tot[p] = MAXFILE
         /\ b \in Addr /\ used' = used \ {b} /\ cell' = cell
         /\ inode' = [inode EXCEPT ![i] = Emptied(inode[i])]
         /\ dinode' = [dinode EXCEPT ![i] = Emptied(inode[i])]
         /\ lock' = [lock EXCEPT ![i] = None] /\ Back(p)
         /\ UNCHANGED <<off, got, calls>>
<1>1. pc[p] = "itrunc" /\ tot[p] = MAXFILE
  BY DEF TruncEnd, trunc_count
<1>2. i \in Inode /\ inode[i] \in Dinode
  BY <1>1, TruncFacts
<1>3. b \in Addr
  BY <1>2, Sizes DEF Dinode
<1>4. inode' = [inode EXCEPT ![i] = Emptied(inode[i])]
  BY DEF TruncEnd, Emptied
<1>5. inode'[i] = Emptied(inode[i])
  BY <1>2, <1>4 DEF TypeOK
<1> QED BY <1>1, <1>2, <1>3, <1>4, <1>5 DEF TruncEnd, bfree

LEMMA TruncEndType ==
  ASSUME TypeOK, CallInv, NEW p \in Process, TruncEnd(p) PROVE TypeOK'
<1>1. PICK i, b, e : i = ino(fd[p]) /\ b = inode[i].addrs[NDIRECT] /\ e = Emptied(inode[i])
  OBVIOUS
<1>2. /\ i \in Inode /\ inode[i] \in Dinode /\ used' = used \ {b} /\ cell' = cell
      /\ inode' = [inode EXCEPT ![i] = e] /\ dinode' = [dinode EXCEPT ![i] = e]
      /\ lock' = [lock EXCEPT ![i] = None] /\ Back(p) /\ UNCHANGED <<off, got, calls>>
  BY <1>1, TruncLast
<1>3. e \in Dinode /\ e.addrs[NDIRECT] = 0
  BY <1>1, <1>2, EmptiedFacts
<1>4. /\ inode' \in [Inode -> Dinode] /\ dinode' \in [Inode -> Dinode]
      /\ lock' \in [Inode -> Process \cup {None}] /\ used' \subseteq Block
  BY <1>2, <1>3 DEF TypeOK
<1>5. \A j \in Inode : inode'[j].addrs[NDIRECT] # 0 =>
        \A m \in 0 .. NINDIRECT - 1 : cell'[inode'[j].addrs[NDIRECT]][m] \in Addr
  BY <1>2, <1>3 DEF TypeOK
<1> QED BY <1>2, <1>4, <1>5, BackType DEF TypeOK

-----------------------------------------------------------------------------
(* Calls and locks *)

\* A step of p changes nothing of the calls of the others.
Same(q) ==
  /\ pc'[q] = pc[q] /\ fd'[q] = fd[q] /\ val'[q] = val[q] /\ cnt'[q] = cnt[q]
  /\ done'[q] = done[q] /\ tot'[q] = tot[q] /\ op'[q] = op[q]

LEMMA BackSame ==
  ASSUME TypeOK, NEW p \in Process, Back(p)
  PROVE  /\ \A q \in Process \ {p} : Same(q)
         /\ pc'[p] = "user" /\ tot'[p] = 0 /\ done'[p] = 0 /\ op'[p] = {}
  BY DEF TypeOK, Back, Same

LEMMA OthersSame ==
  ASSUME TypeOK, CallInv, MapInv, NEW p \in Process,
         \/ Call(p) \/ Read(p) \/ Lseek(p)
         \/ WriteFails(p) \/ WriteBegin(p) \/ WriteBlock(p) \/ WriteEnd(p)
         \/ Remove(p) \/ TruncBlock(p) \/ TruncEnd(p)
  PROVE  \A q \in Process \ {p} : Same(q)
<1>1. CASE Call(p)
  BY <1>1 DEF Call, TypeOK, Same
<1>2. CASE Read(p)
  BY <1>2, BackSame DEF Read
<1>3. CASE Lseek(p)
  BY <1>3 DEF Lseek, Same, call
<1>4. CASE WriteFails(p)
  BY <1>4, BackSame DEF WriteFails
<1>5. CASE WriteBegin(p)
  BY <1>5 DEF WriteBegin, TypeOK, Same, call
<1>6. CASE WriteBlock(p)
  BY <1>6 DEF WriteBlock, TypeOK, Same, call
<1>7. CASE WriteEnd(p)
  <2>1. CASE done[p] + tot[p] < cnt[p]
    BY <1>7, <2>1 DEF WriteEnd, TypeOK, Same, call
  <2>2. CASE ~(done[p] + tot[p] < cnt[p])
    BY <1>7, <2>2, BackSame DEF WriteEnd
  <2> QED BY <2>1, <2>2
<1>8. CASE Remove(p)
  BY <1>8 DEF Remove, TypeOK, Same
<1>9. CASE TruncBlock(p)
  BY <1>9 DEF TruncBlock, TypeOK, Same, call
<1>10. CASE TruncEnd(p)
  BY <1>10, BackSame DEF TruncEnd
<1> QED BY <1>1, <1>2, <1>3, <1>4, <1>5, <1>6, <1>7, <1>8, <1>9, <1>10

\* The file of a process that has a lock is left alone.
Spared(q) ==
  /\ lock'[ino(fd[q])] = lock[ino(fd[q])] /\ off'[fd[q]] = off[fd[q]]
  /\ inode'[ino(fd[q])] = inode[ino(fd[q])]

\* What holds of another process goes on to hold.
LEMMA OtherKeeps ==
  ASSUME TypeOK, CallInv, NEW p \in Process, \A q \in Process \ {p} : Same(q),
         NEW q \in Process, q # p,
         pc[q] \in {"writei", "itrunc"} => Spared(q),
         pc[q] = "itrunc" => ~(pc'[p] # "user" /\ ino(fd'[p]) = ino(fd[q]))
  PROVE  CallOf(q)'
<1>1. CallOf(q) /\ Same(q)
  BY DEF CallInv
<1>2. CASE pc[q] = "writei"
  <2>1. WriteInv(q)'
    BY <1>1, <1>2 DEF CallOf, WriteInv, Same, Spared, chunk
  <2> QED BY <1>1, <1>2, <2>1 DEF CallOf, Same
<1>3. CASE pc[q] = "itrunc"
  <2>1. TruncInv(q) /\ Spared(q)
    BY <1>1, <1>3 DEF CallOf
  <2>2. \A r \in Process : (pc'[r] # "user" /\ ino(fd'[r]) = ino(fd[q])) => r = q
    <3> SUFFICES ASSUME NEW r \in Process, pc'[r] # "user", ino(fd'[r]) = ino(fd[q])
                 PROVE  r = q
      OBVIOUS
    <3>1. r # p
      BY <1>3
    <3>2. Same(r)
      BY <3>1
    <3> QED BY <2>1, <3>2 DEF TruncInv, On, Same
  <2>3. TruncInv(q)'
    BY <1>1, <2>1, <2>2 DEF TruncInv, On, Same, Spared
  <2> QED BY <1>1, <1>3, <2>3 DEF CallOf, Same
<1>4. CASE pc[q] \notin {"writei", "itrunc"}
  BY <1>1, <1>4 DEF CallOf, Same
<1> QED BY <1>2, <1>3, <1>4

\* A process that has a lock is the only one that changes its inode.
LEMMA Holder ==
  ASSUME TypeOK, CallInv, NEW q \in Process, pc[q] \in {"writei", "itrunc"}
  PROVE  lock[ino(fd[q])] = q /\ q # None /\ fd[q] \in File /\ ino(fd[q]) \in Inode
  BY FileDataAssumption DEF CallInv, CallOf, WriteInv, TruncInv

\* What LockInv says of i.
LockOf(i) ==
  lock[i] # None => pc[lock[i]] \in {"writei", "itrunc"} /\ ino(fd[lock[i]]) = i

LEMMA LockKeeps ==
  ASSUME TypeOK, LockInv, NEW p \in Process, \A q \in Process \ {p} : Same(q),
         NEW i \in Inode, lock'[i] = lock[i], lock[i] # p
  PROVE  LockOf(i)'
<1>1. CASE lock[i] = None
  BY <1>1 DEF LockOf
<1>2. CASE lock[i] # None
  <2>1. lock[i] \in Process \ {p}
    BY <1>2 DEF TypeOK
  <2>2. PICK q \in Process \ {p} : q = lock[i]
    BY <2>1
  <2> QED BY <1>2, <2>2 DEF LockInv, LockOf, Same
<1> QED BY <1>1, <1>2

\* A step that touches no lock, by a process without one.
LEMMA LockSame ==
  ASSUME TypeOK, LockInv, NEW p \in Process, \A q \in Process \ {p} : Same(q),
         lock' = lock, pc[p] \notin {"writei", "itrunc"}
  PROVE  LockInv'
<1>1. ASSUME NEW i \in Inode PROVE LockOf(i)'
  <2>1. lock[i] # p
    BY FileDataAssumption DEF LockInv
  <2> QED BY <2>1, LockKeeps
<1> QED BY <1>1 DEF LockInv, LockOf

LEMMA CallCalls ==
  ASSUME TypeOK, CallInv, LockInv, MapInv, NEW p \in Process, Call(p)
  PROVE  CallInv' /\ LockInv'
<1>1. \A q \in Process \ {p} : Same(q)
  BY OthersSame
<1>2. PICK c \in {"read", "write"}, f \in File, n \in Counts :
        /\ IsOpen(f) /\ pc' = [pc EXCEPT ![p] = c]
        /\ fd' = [fd EXCEPT ![p] = f] /\ cnt' = [cnt EXCEPT ![p] = n]
  BY DEF Call
<1>3. /\ pc[p] = "user" /\ UNCHANGED <<inode, lock, off, done, tot, op>>
  BY DEF Call, store
<1>4. /\ pc'[p] = c /\ fd'[p] = f /\ cnt'[p] = n /\ n > 0 /\ n \in Nat
      /\ CallOf(p)
  BY <1>2, FileDataAssumption DEF TypeOK, CallInv
<1>5. CallOf(p)'
  BY <1>3, <1>4 DEF CallOf
<1>6. ASSUME NEW q \in Process, q # p PROVE CallOf(q)'
  <2>1. Spared(q)
    BY <1>3 DEF Spared
  <2>2. pc[q] = "itrunc" => ~(pc'[p] # "user" /\ ino(fd'[p]) = ino(fd[q]))
    BY <1>2, <1>4 DEF IsOpen
  <2> QED BY <1>1, <1>6, <2>1, <2>2, OtherKeeps
<1>7. CallInv'
  BY <1>5, <1>6 DEF CallInv
<1>8. LockInv'
  BY <1>1, <1>3, LockSame
<1> QED BY <1>7, <1>8

\* Read and WriteFails: the call is over.
LEMMA BackCalls ==
  ASSUME TypeOK, CallInv, LockInv, NEW p \in Process, Back(p), inode' = inode, lock' = lock,
         pc[p] \notin {"writei", "itrunc"},
         \A q \in Process \ {p} : pc[q] \in {"writei", "itrunc"} => off'[fd[q]] = off[fd[q]]
  PROVE  CallInv' /\ LockInv'
<1>1. /\ \A q \in Process \ {p} : Same(q)
      /\ pc'[p] = "user" /\ tot'[p] = 0 /\ done'[p] = 0 /\ op'[p] = {}
  BY BackSame
<1>2. CallOf(p)'
  BY <1>1 DEF CallOf
<1>3. ASSUME NEW q \in Process, q # p PROVE CallOf(q)'
  <2>1. pc[q] \in {"writei", "itrunc"} => Spared(q)
    BY <1>3 DEF Spared
  <2> QED BY <1>1, <1>3, <2>1, OtherKeeps
<1>4. CallInv'
  BY <1>2, <1>3 DEF CallInv
<1>5. LockInv'
  BY <1>1, LockSame
<1> QED BY <1>4, <1>5

LEMMA ReadCalls ==
  ASSUME TypeOK, CallInv, LockInv, NEW p \in Process, Read(p)
  PROVE  CallInv' /\ LockInv'
<1>1. /\ pc[p] = "read" /\ lock[ino(fd[p])] = None /\ Back(p) /\ inode' = inode /\ lock' = lock
      /\ \/ off' = off
         \/ \E n : off' = [off EXCEPT ![fd[p]] = n]
  BY DEF Read
<1>2. \A q \in Process \ {p} : pc[q] \in {"writei", "itrunc"} => off'[fd[q]] = off[fd[q]]
  <2> SUFFICES ASSUME NEW q \in Process \ {p}, pc[q] \in {"writei", "itrunc"}
               PROVE  off'[fd[q]] = off[fd[q]]
    OBVIOUS
  <2>1. lock[ino(fd[q])] = q /\ q # None /\ fd[q] \in File
    BY Holder
  <2>2. fd[q] # fd[p]
    BY <1>1, <2>1
  <2> QED BY <1>1, <2>1, <2>2 DEF TypeOK
<1> QED BY <1>1, <1>2, BackCalls

LEMMA FailsCalls ==
  ASSUME TypeOK, CallInv, LockInv, NEW p \in Process, WriteFails(p)
  PROVE  CallInv' /\ LockInv'
<1>1. pc[p] = "write" /\ Back(p) /\ inode' = inode /\ lock' = lock /\ off' = off
  BY DEF WriteFails, store
<1> QED BY <1>1, BackCalls

LEMMA LseekCalls ==
  ASSUME TypeOK, CallInv, LockInv, MapInv, NEW p \in Process, Lseek(p)
  PROVE  CallInv' /\ LockInv'
<1>1. \A q \in Process \ {p} : Same(q)
  BY OthersSame
<1>2. PICK f \in File : lock[ino(f)] = None /\ \E o : off' = [off EXCEPT ![f] = o]
  BY DEF Lseek
<1>3. pc[p] = "user" /\ UNCHANGED <<inode, lock, pc, fd, cnt, done, tot, op>>
  BY DEF Lseek, call
<1>4. CallOf(p)'
  BY <1>3 DEF CallInv, CallOf
<1>5. ASSUME NEW q \in Process, q # p PROVE CallOf(q)'
  <2>1. pc[q] \in {"writei", "itrunc"} => Spared(q)
    <3> SUFFICES ASSUME pc[q] \in {"writei", "itrunc"} PROVE Spared(q)
      OBVIOUS
    <3>1. lock[ino(fd[q])] = q /\ q # None /\ fd[q] \in File
      BY Holder
    <3>2. fd[q] # f
      BY <1>2, <3>1
    <3> QED BY <1>2, <1>3, <3>1, <3>2 DEF TypeOK, Spared
  <2> QED BY <1>1, <1>3, <1>5, <2>1, OtherKeeps
<1>6. CallInv'
  BY <1>4, <1>5 DEF CallInv
<1>7. LockInv'
  BY <1>1, <1>3, LockSame
<1> QED BY <1>6, <1>7

\* Nobody else is at work on an inode that is being truncated ...
LEMMA AloneInTrunc ==
  ASSUME CallInv, NEW p \in Process, NEW q \in Process, q # p, pc[q] = "itrunc",
         pc[p] # "user"
  PROVE  ino(fd[p]) # ino(fd[q])
  BY DEF CallInv, CallOf, TruncInv, On

\* ... and a step of p on its inode spares the others that have a lock.
LEMMA SparedByLock ==
  ASSUME TypeOK, CallInv, NEW p \in Process, NEW q \in Process, q # p,
         pc[q] \in {"writei", "itrunc"}, NEW i \in Inode, lock[i] \in {None, p},
         \A j \in Inode \ {i} : lock'[j] = lock[j] /\ inode'[j] = inode[j],
         \A f \in File : ino(f) # i => off'[f] = off[f]
  PROVE  Spared(q) /\ ino(fd[q]) # i
<1>1. lock[ino(fd[q])] = q /\ q # None /\ fd[q] \in File /\ ino(fd[q]) \in Inode
  BY Holder
<1>2. ino(fd[q]) # i
  BY <1>1
<1> QED BY <1>1, <1>2 DEF Spared

\* The locks after a step of p at the lock of i.
LEMMA LockAt ==
  ASSUME TypeOK, LockInv, NEW p \in Process, \A q \in Process \ {p} : Same(q),
         NEW i \in Inode, \A j \in Inode \ {i} : lock'[j] = lock[j],
         \A j \in Inode : lock[j] = p => j = i,
         LockOf(i)'
  PROVE  LockInv'
<1>1. ASSUME NEW j \in Inode PROVE LockOf(j)'
  <2>1. CASE j = i
    BY <2>1
  <2>2. CASE j # i
    BY <2>2, LockKeeps
  <2> QED BY <2>1, <2>2
<1> QED BY <1>1 DEF LockInv, LockOf

LEMMA OneLock ==
  ASSUME TypeOK, LockInv, NEW p \in Process, NEW i, i = ino(fd[p])
  PROVE  \A j \in Inode : lock[j] = p => j = i
  BY FileDataAssumption DEF LockInv

LEMMA ChunkNat ==
  ASSUME TypeOK, NEW p \in Process, done[p] < cnt[p]
  PROVE  chunk(p) \in Nat /\ chunk(p) >= 1 /\ chunk(p) <= max /\ max \in Nat
<1> DEFINE k == NTouch
<1>1. k \in Nat /\ k >= 1
  BY Sizes
<1>2. max = k * BSIZE
  <2>1. MAXOPBLOCKS - 1 - 1 - 2 = MAXOPBLOCKS - 4
    BY Sizes
  <2> QED BY <2>1 DEF max, NTouch
<1> HIDE DEF k
<1>3. k * BSIZE \in Nat /\ k * BSIZE >= 1
  BY <1>1, Sizes
<1>4. done[p] \in Nat /\ cnt[p] \in Nat
  BY DEF TypeOK
<1> QED BY <1>2, <1>3, <1>4 DEF chunk, Least

LEMMA BeginCalls ==
  ASSUME TypeOK, CallInv, LockInv, MapInv, NEW p \in Process, WriteBegin(p)
  PROVE  CallInv' /\ LockInv'
<1>1. \A q \in Process \ {p} : Same(q)
  BY OthersSame
<1>2. PICK i : i = ino(fd[p])
  OBVIOUS
<1>3. /\ pc[p] = "write" /\ lock[i] = None /\ ~refused(p)
      /\ lock' = [lock EXCEPT ![i] = p] /\ pc' = [pc EXCEPT ![p] = "writei"]
      /\ UNCHANGED <<inode, off, fd, val, cnt, done, tot, op>>
  BY <1>2 DEF WriteBegin, call
<1>4. CallOf(p) /\ fd[p] \in File /\ i \in Inode
  BY <1>2, <1>3, FileDataAssumption DEF CallInv, CallOf
<1>5. lock'[i] = p /\ pc'[p] = "writei" /\ \A j \in Inode \ {i} : lock'[j] = lock[j]
  BY <1>3, <1>4 DEF TypeOK
<1>6. CallOf(p)'
  <2>1. done[p] < cnt[p] /\ tot[p] = 0 /\ chunk(p) \in Nat
    BY <1>3, <1>4, ChunkNat DEF CallOf
  <2>2. inode[i] \in Dinode /\ off[fd[p]] \in Nat
    BY <1>4, Sizes DEF TypeOK
  <2>3. inode[i].size \in Nat
    BY <2>2, Sizes DEF Dinode
  <2>4. off[fd[p]] <= inode[i].size /\ off[fd[p]] + chunk(p) <= MAXFILE * BSIZE
    BY <1>2, <1>3, <2>1, <2>2, <2>3, Sizes DEF refused
  <2>5. WriteInv(p)'
    BY <1>2, <1>3, <1>5, <2>1, <2>4 DEF WriteInv, chunk
  <2> QED BY <1>3, <1>4, <1>5, <2>5 DEF CallOf
<1>7. ASSUME NEW q \in Process, q # p PROVE CallOf(q)'
  <2>1. pc[q] \in {"writei", "itrunc"} => Spared(q)
    BY <1>3, <1>4, <1>5, <1>7, SparedByLock
  <2>2. pc[q] = "itrunc" => ino(fd'[p]) # ino(fd[q])
    BY <1>3, <1>7, AloneInTrunc
  <2> QED BY <1>1, <1>7, <2>1, <2>2, OtherKeeps
<1>8. CallInv'
  BY <1>6, <1>7 DEF CallInv
<1>9. LockInv'
  <2>1. LockOf(i)'
    BY <1>2, <1>3, <1>5 DEF LockOf
  <2>2. \A j \in Inode : lock[j] = p => j = i
    BY <1>2, OneLock
  <2> QED BY <1>1, <1>4, <1>5, <2>1, <2>2, LockAt
<1> QED BY <1>8, <1>9

LEMMA BlockCalls ==
  ASSUME TypeOK, CallInv, LockInv, MapInv, NEW p \in Process, WriteBlock(p)
  PROVE  CallInv' /\ LockInv'
<1>0. pc[p] = "writei" /\ tot[p] < chunk(p)
  BY WriteBlockWrote
<1>1. \A q \in Process \ {p} : Same(q)
  BY OthersSame
<1>2. PICK e, b, N : TurnMap(p, e, b, N) /\ TurnData(p, e, b)
  BY TurnFacts
<1>3. PICK i : i = Target(p)
  OBVIOUS
<1>4. /\ i \in Inode /\ inode'[i] = e /\ e.size = inode[i].size
      /\ \A j \in Inode \ {i} : inode'[j] = inode[j]
  <2>1. e.size = inode[i].size
    BY <1>2, <1>3 DEF TurnMap
  <2> QED BY <1>2, <1>3, <2>1, TurnInode
<1>5. /\ tot' = [tot EXCEPT ![p] = tot[p] + turn(p, Point(p))]
      /\ UNCHANGED <<dinode, lock, off, pc, fd, val, cnt, done, got, calls>>
  BY DEF WriteBlock, Point, call
<1>6. tot[p] + turn(p, Point(p)) <= chunk(p) /\ tot'[p] = tot[p] + turn(p, Point(p))
  BY <1>0, <1>5, WriterFacts DEF TypeOK
<1>7. lock[i] = p /\ CallOf(p) /\ WriteInv(p)
  BY <1>0, <1>3 DEF CallInv, CallOf, WriteInv, Target
<1>8. CallOf(p)'
  <2>1. WriteInv(p)'
    BY <1>3, <1>4, <1>5, <1>6, <1>7 DEF WriteInv, chunk, Target
  <2> QED BY <1>0, <1>5, <1>7, <2>1 DEF CallOf
<1>9. ASSUME NEW q \in Process, q # p PROVE CallOf(q)'
  <2>1. pc[q] \in {"writei", "itrunc"} => Spared(q)
    BY <1>4, <1>5, <1>7, <1>9, SparedByLock
  <2>2. pc[q] = "itrunc" => ino(fd'[p]) # ino(fd[q])
    BY <1>0, <1>5, <1>9, AloneInTrunc
  <2> QED BY <1>1, <1>9, <2>1, <2>2, OtherKeeps
<1>10. LockInv'
  BY <1>5 DEF LockInv
<1> QED BY <1>8, <1>9, <1>10 DEF CallInv

LEMMA EndCalls ==
  ASSUME TypeOK, CallInv, LockInv, MapInv, NEW p \in Process, WriteEnd(p)
  PROVE  CallInv' /\ LockInv'
<1>1. \A q \in Process \ {p} : Same(q)
  BY OthersSame
<1>2. PICK i, f, o : i = ino(fd[p]) /\ f = fd[p] /\ o = off[f] + tot[p]
  OBVIOUS
<1>3. /\ pc[p] = "writei" /\ f \in File /\ i \in Inode /\ ino(f) = i /\ lock[i] = p
      /\ done[p] \in Nat /\ tot[p] \in Nat /\ cnt[p] \in Nat
  BY <1>2, EndFacts DEF WriteInv
<1>4. /\ lock' = [lock EXCEPT ![i] = None] /\ off' = [off EXCEPT ![f] = o]
      /\ \A j \in Inode \ {i} : inode'[j] = inode[j]
  <2>1. /\ lock' = [lock EXCEPT ![i] = None] /\ off' = [off EXCEPT ![f] = o]
        /\ \/ inode' = [inode EXCEPT ![i] = Sized(inode[i], o)]
           \/ inode' = inode
    BY <1>2, EndStore
  <2> QED BY <2>1 DEF TypeOK
<1>5. /\ lock'[i] = None /\ \A j \in Inode \ {i} : lock'[j] = lock[j]
      /\ \A g \in File : ino(g) # i => off'[g] = off[g]
  BY <1>3, <1>4 DEF TypeOK
<1>6. CallOf(p)' /\ (pc'[p] # "user" => fd'[p] = fd[p])
  <2>1. CASE done[p] + tot[p] < cnt[p]
    <3>1. /\ pc' = [pc EXCEPT ![p] = "write"] /\ done' = [done EXCEPT ![p] = done[p] + tot[p]]
          /\ tot' = [tot EXCEPT ![p] = 0] /\ op' = [op EXCEPT ![p] = {}]
          /\ UNCHANGED <<fd, cnt>>
      BY <2>1 DEF WriteEnd, call
    <3>2. /\ pc'[p] = "write" /\ done'[p] = done[p] + tot[p] /\ tot'[p] = 0 /\ op'[p] = {}
          /\ fd'[p] = f /\ cnt'[p] = cnt[p]
      BY <1>2, <3>1 DEF TypeOK
    <3> QED BY <1>2, <1>3, <2>1, <3>2 DEF CallOf
  <2>2. CASE ~(done[p] + tot[p] < cnt[p])
    <3>1. pc'[p] = "user" /\ tot'[p] = 0 /\ done'[p] = 0 /\ op'[p] = {}
      BY <2>2, BackSame DEF WriteEnd
    <3> QED BY <3>1 DEF CallOf
  <2> QED BY <2>1, <2>2
<1>7. ASSUME NEW q \in Process, q # p PROVE CallOf(q)'
  <2>1. pc[q] \in {"writei", "itrunc"} => Spared(q)
    BY <1>3, <1>4, <1>5, <1>7, SparedByLock
  <2>2. pc[q] = "itrunc" => ~(pc'[p] # "user" /\ ino(fd'[p]) = ino(fd[q]))
    BY <1>3, <1>6, <1>7, AloneInTrunc
  <2> QED BY <1>1, <1>7, <2>1, <2>2, OtherKeeps
<1>8. LockInv'
  <2>1. LockOf(i)'
    BY <1>5 DEF LockOf
  <2>2. \A j \in Inode : lock[j] = p => j = i
    BY <1>2, OneLock
  <2> QED BY <1>1, <1>3, <1>5, <2>1, <2>2, LockAt
<1> QED BY <1>6, <1>7, <1>8 DEF CallInv

LEMMA RemoveCalls ==
  ASSUME TypeOK, CallInv, LockInv, MapInv, NEW p \in Process, Remove(p)
  PROVE  CallInv' /\ LockInv'
<1>1. \A q \in Process \ {p} : Same(q)
  BY OthersSame
<1>2. PICK f \in File :
        /\ \A q \in Process : pc[q] = "user" \/ ino(fd[q]) # ino(f)
        /\ fd' = [fd EXCEPT ![p] = f] /\ lock' = [lock EXCEPT ![ino(f)] = p]
        /\ off' = [g \in File |-> IF ino(g) = ino(f) THEN 0 ELSE off[g]]
  BY DEF Remove
<1>3. PICK i \in Inode : i = ino(f)
  BY FileDataAssumption
<1>4. /\ pc[p] = "user" /\ pc' = [pc EXCEPT ![p] = "itrunc"]
      /\ UNCHANGED <<inode, cnt, done, tot, op>>
  BY DEF Remove
<1>5. /\ pc'[p] = "itrunc" /\ fd'[p] = f /\ lock'[i] = p
      /\ \A j \in Inode \ {i} : lock'[j] = lock[j]
      /\ \A g \in File : ino(g) # i => off'[g] = off[g]
  BY <1>2, <1>3, <1>4 DEF TypeOK
<1>6. lock[i] = None
  <2> SUFFICES ASSUME lock[i] # None PROVE FALSE
    OBVIOUS
  <2>1. PICK q \in Process : q = lock[i]
    BY DEF TypeOK
  <2>2. pc[q] \in {"writei", "itrunc"} /\ ino(fd[q]) = i
    BY <2>1 DEF LockInv
  <2> QED BY <1>2, <1>3, <2>2
<1>7. CallOf(p)'
  <2>1. CallOf(p) /\ tot[p] = 0 /\ done[p] = 0
    BY <1>4 DEF CallInv, CallOf
  <2>2. \A q \in Process : (pc'[q] # "user" /\ ino(fd'[q]) = i) => q = p
    BY <1>1, <1>2, <1>3 DEF Same
  <2>3. TruncInv(p)'
    BY <1>3, <1>4, <1>5, <2>1, <2>2, Sizes DEF TruncInv, On
  <2> QED BY <1>4, <1>5, <2>1, <2>3 DEF CallOf
<1>8. ASSUME NEW q \in Process, q # p PROVE CallOf(q)'
  <2>1. pc[q] \in {"writei", "itrunc"} => Spared(q)
    BY <1>4, <1>5, <1>6, <1>8, SparedByLock
  <2>2. pc[q] = "itrunc" => ino(fd'[p]) # ino(fd[q])
    BY <1>2, <1>5
  <2> QED BY <1>1, <1>8, <2>1, <2>2, OtherKeeps
<1>9. LockInv'
  <2>1. LockOf(i)'
    BY <1>3, <1>5 DEF LockOf
  <2>2. \A j \in Inode : lock[j] = p => j = i
    BY <1>4, FileDataAssumption DEF LockInv
  <2> QED BY <1>1, <1>5, <2>1, <2>2, LockAt
<1> QED BY <1>7, <1>8, <1>9 DEF CallInv

LEMMA TruncBlockCalls ==
  ASSUME TypeOK, CallInv, LockInv, MapInv, NEW p \in Process, TruncBlock(p)
  PROVE  CallInv' /\ LockInv'
<1>1. \A q \in Process \ {p} : Same(q)
  BY OthersSame
<1>2. PICK i, k, b : i = ino(fd[p]) /\ k = tot[p] /\ b = mapped(inode[i], cell, k)
  OBVIOUS
<1>3. /\ i \in Inode /\ k \in 0 .. MAXFILE - 1 /\ inode[i] \in Dinode
      /\ k < NDIRECT => inode' = [inode EXCEPT ![i] = Cut(inode[i], k)]
      /\ ~(k < NDIRECT) => inode' = inode
      /\ tot' = [tot EXCEPT ![p] = k + 1]
      /\ UNCHANGED <<dinode, lock, off, pc, fd, val, cnt, done, got, calls>>
  BY <1>2, TruncStep
<1>4. pc[p] = "itrunc" /\ CallOf(p) /\ TruncInv(p) /\ lock[i] = p
  BY <1>2 DEF TruncBlock, CallInv, CallOf, TruncInv
<1>5. \A j \in Inode \ {i} : inode'[j] = inode[j]
  BY <1>3 DEF TypeOK
<1>6. CallOf(p)'
  <2>1. \A q \in Process : (pc'[q] # "user" /\ ino(fd'[q]) = i) => q = p
    BY <1>2, <1>3, <1>4 DEF TruncInv, On
  <2>2. \A m \in 0 .. NDIRECT - 1 : m < k + 1 => inode'[i].addrs[m] = 0
    <3> SUFFICES ASSUME NEW m \in 0 .. NDIRECT - 1, m < k + 1 PROVE inode'[i].addrs[m] = 0
      OBVIOUS
    <3>1. m < k => inode[i].addrs[m] = 0
      BY <1>2, <1>4 DEF TruncInv
    <3>2. CASE k < NDIRECT
      <4>1. k \in 0 .. NDIRECT /\ m \in 0 .. NDIRECT
        BY <1>3, <3>2, Sizes
      <4>2. inode'[i] = Cut(inode[i], k)
        BY <1>3, <3>2 DEF TypeOK
      <4>3. m = k => Cut(inode[i], k).addrs[m] = 0
        BY <1>3, <4>1, CutFacts
      <4>4. m # k => Cut(inode[i], k).addrs[m] = inode[i].addrs[m]
        BY <1>3, <4>1, CutFacts
      <4>5. m # k => m < k
        BY <1>3, Sizes
      <4> QED BY <3>1, <4>2, <4>3, <4>4, <4>5
    <3>3. CASE ~(k < NDIRECT)
      BY <1>3, <3>1, <3>3, Sizes
    <3> QED BY <3>2, <3>3
  <2>3. tot'[p] = k + 1 /\ k + 1 <= MAXFILE
    BY <1>3, Sizes DEF TypeOK
  <2>4. TruncInv(p)'
    BY <1>2, <1>3, <1>4, <2>1, <2>2, <2>3 DEF TruncInv, On
  <2> QED BY <1>3, <1>4, <2>4 DEF CallOf
<1>7. ASSUME NEW q \in Process, q # p PROVE CallOf(q)'
  <2>1. pc[q] \in {"writei", "itrunc"} => Spared(q)
    BY <1>3, <1>4, <1>5, <1>7, SparedByLock
  <2>2. pc[q] = "itrunc" => ino(fd'[p]) # ino(fd[q])
    BY <1>3, <1>4, <1>7, AloneInTrunc
  <2> QED BY <1>1, <1>7, <2>1, <2>2, OtherKeeps
<1>8. LockInv'
  BY <1>3 DEF LockInv
<1> QED BY <1>6, <1>7, <1>8 DEF CallInv

LEMMA TruncEndCalls ==
  ASSUME TypeOK, CallInv, LockInv, MapInv, NEW p \in Process, TruncEnd(p)
  PROVE  CallInv' /\ LockInv'
<1>1. \A q \in Process \ {p} : Same(q)
  BY OthersSame
<1>2. PICK i, b, e : i = ino(fd[p]) /\ b = inode[i].addrs[NDIRECT] /\ e = Emptied(inode[i])
  OBVIOUS
<1>3. /\ i \in Inode /\ pc[p] = "itrunc" /\ inode' = [inode EXCEPT ![i] = e]
      /\ lock' = [lock EXCEPT ![i] = None] /\ Back(p) /\ off' = off
  BY <1>2, TruncLast
<1>4. /\ lock'[i] = None /\ \A j \in Inode \ {i} : lock'[j] = lock[j] /\ inode'[j] = inode[j]
  BY <1>3 DEF TypeOK
<1>5. lock[i] = p
  BY <1>2, <1>3, Holder
<1>6. CallOf(p)' /\ pc'[p] = "user"
  BY <1>3, BackSame DEF CallOf
<1>7. ASSUME NEW q \in Process, q # p PROVE CallOf(q)'
  <2>1. pc[q] \in {"writei", "itrunc"} => Spared(q)
    BY <1>3, <1>4, <1>5, <1>7, SparedByLock
  <2> QED BY <1>1, <1>6, <1>7, <2>1, OtherKeeps
<1>8. LockInv'
  <2>1. LockOf(i)'
    BY <1>4 DEF LockOf
  <2>2. \A j \in Inode : lock[j] = p => j = i
    BY <1>2, OneLock
  <2> QED BY <1>1, <1>3, <1>4, <2>1, <2>2, LockAt
<1> QED BY <1>6, <1>7, <1>8 DEF CallInv

-----------------------------------------------------------------------------
(* The bitmap and the block maps *)

LEMMA InitMap == Init => MapInv
<1> SUFFICES ASSUME Init PROVE MapInv
  OBVIOUS
<1>1. ASSUME NEW l \in Places PROVE kept(l) = 0
  <2>1. l[1] \in Inode /\ l[2] \in 0 .. MAXFILE /\ inode[l[1]] = Empty
    BY PlaceForm DEF Init
  <2>2. \A k \in 0 .. NDIRECT : Empty.addrs[k] = 0
    BY DEF Empty
  <2> QED BY <2>1, <2>2, Sizes DEF kept, mapped
<1>2. LivePlaces = {}
  BY <1>1 DEF LivePlaces
<1> QED BY <1>2 DEF MapInv, Init

LEMMA FreedSame ==
  ASSUME NEW p \in Process, \A q \in Process \ {p} : Same(q),
         pc[p] # "itrunc", pc'[p] # "itrunc", NEW l \in Places
  PROVE  Freed(l)' <=> Freed(l)
  BY DEF Freed, Same

LEMMA MapSame ==
  ASSUME MapInv, used' = used,
         \A l \in Places : kept(l)' = kept(l) /\ (Freed(l)' <=> Freed(l))
  PROVE  MapInv'
<1>1. LivePlaces' = LivePlaces /\ \A l \in LivePlaces : kept(l)' = kept(l)
  BY DEF LivePlaces
<1> QED BY <1>1 DEF MapInv

LEMMA KeptSame ==
  ASSUME inode' = inode, cell' = cell
  PROVE  \A l \in Places : kept(l)' = kept(l)
  BY DEF kept

\* Only the addresses count.
LEMMA KeptSized ==
  ASSUME \A j \in Inode : inode'[j].addrs = inode[j].addrs, cell' = cell
  PROVE  /\ \A l \in Places : kept(l)' = kept(l)
         /\ \A j \in Inode, bn \in 0 .. MAXFILE - 1 :
              mapped(inode'[j], cell', bn) = mapped(inode[j], cell, bn)
  BY PlaceForm DEF kept, mapped

\* Every step but those of WriteBlock and itrunc.
LEMMA QuietMap ==
  ASSUME TypeOK, CallInv, LockInv, MapInv, NEW p \in Process,
         \/ Call(p) \/ Read(p) \/ Lseek(p) \/ WriteFails(p) \/ WriteBegin(p)
  PROVE  MapInv'
<1>1. \A q \in Process \ {p} : Same(q)
  BY OthersSame
<1>2. /\ used' = used /\ inode' = inode /\ cell' = cell /\ pc[p] # "itrunc"
  BY DEF Call, Read, Lseek, WriteFails, WriteBegin, store
<1>3. pc'[p] # "itrunc"
  <2>1. CASE Call(p)
    BY <2>1 DEF Call, TypeOK
  <2>2. CASE Read(p)
    BY <2>2, BackSame DEF Read
  <2>3. CASE Lseek(p)
    BY <2>3, <1>2 DEF Lseek
  <2>4. CASE WriteFails(p)
    BY <2>4, BackSame DEF WriteFails
  <2>5. CASE WriteBegin(p)
    BY <2>5 DEF WriteBegin, TypeOK
  <2> QED BY <2>1, <2>2, <2>3, <2>4, <2>5
<1>4. \A l \in Places : kept(l)' = kept(l) /\ (Freed(l)' <=> Freed(l))
  BY <1>1, <1>2, <1>3, FreedSame, KeptSame
<1> QED BY <1>2, <1>4, MapSame

LEMMA RemoveMap ==
  ASSUME TypeOK, CallInv, LockInv, MapInv, NEW p \in Process, Remove(p)
  PROVE  MapInv'
<1>1. \A q \in Process \ {p} : Same(q)
  BY OthersSame
<1>2. used' = used /\ inode' = inode /\ cell' = cell /\ pc[p] = "user" /\ tot' = tot
  BY DEF Remove
<1>3. tot[p] = 0
  BY <1>2 DEF CallInv, CallOf
<1>4. ASSUME NEW l \in Places PROVE Freed(l)' <=> Freed(l)
  <2>1. ~(l[2] < tot'[p])
    BY <1>2, <1>3, PlaceForm
  <2> QED BY <1>1, <1>2, <2>1 DEF Freed, Same
<1> QED BY <1>2, <1>4, MapSame, KeptSame

LEMMA EndSame ==
  ASSUME TypeOK, CallInv, NEW p \in Process, WriteEnd(p)
  PROVE  /\ used' = used /\ cell' = cell /\ \A j \in Inode : inode'[j].addrs = inode[j].addrs
         /\ pc'[p] \in {"user", "write"} /\ pc[p] = "writei"
<1>2. PICK i, f, o : i = ino(fd[p]) /\ f = fd[p] /\ o = off[f] + tot[p]
  OBVIOUS
<1>3. i \in Inode /\ inode[i] \in Dinode /\ o \in 0 .. MAXFILE * BSIZE /\ pc[p] = "writei"
  BY <1>2, EndFacts
<1>4. /\ used' = used /\ cell' = cell
      /\ \/ inode' = [inode EXCEPT ![i] = Sized(inode[i], o)]
         \/ inode' = inode
  BY <1>2, EndStore
<1>5. Sized(inode[i], o).addrs = inode[i].addrs
  BY <1>3, SizedType
<1>6. \A j \in Inode : inode'[j].addrs = inode[j].addrs
  BY <1>3, <1>4, <1>5 DEF TypeOK
<1>7. pc'[p] \in {"user", "write"}
  <2>1. CASE done[p] + tot[p] < cnt[p]
    BY <2>1 DEF WriteEnd, TypeOK
  <2>2. CASE ~(done[p] + tot[p] < cnt[p])
    BY <2>2, BackSame DEF WriteEnd
  <2> QED BY <2>1, <2>2
<1> QED BY <1>3, <1>4, <1>6, <1>7

LEMMA EndMap ==
  ASSUME TypeOK, CallInv, LockInv, MapInv, NEW p \in Process, WriteEnd(p)
  PROVE  MapInv'
<1>1. \A q \in Process \ {p} : Same(q)
  BY OthersSame
<1>2. /\ used' = used /\ cell' = cell /\ \A j \in Inode : inode'[j].addrs = inode[j].addrs
      /\ pc'[p] \in {"user", "write"} /\ pc[p] = "writei"
  BY EndSame
<1>3. \A l \in Places : kept(l)' = kept(l) /\ (Freed(l)' <=> Freed(l))
  BY <1>1, <1>2, FreedSame, KeptSized
<1> QED BY <1>2, <1>3, MapSame

\* The block of the turn and the indirect block are different ones.
LEMMA TurnTwo ==
  ASSUME TypeOK, CallInv, MapInv, NEW p \in Process, WriteBlock(p),
         NEW e, NEW b, NEW N, TurnMap(p, e, b, N)
  PROVE  /\ b # e.addrs[NDIRECT] /\ b \in used \cup N /\ b \in Block
         /\ e.addrs[NDIRECT] \in used \cup N \cup {0}
         /\ e.addrs[NDIRECT] # 0 => e.addrs[NDIRECT] \in Block
<1>1. pc[p] = "writei" /\ tot[p] < chunk(p)
  BY WriteBlockWrote
<1>2. PICK i, bn, y : i = Target(p) /\ bn = Number(p) /\ y = e.addrs[NDIRECT]
  OBVIOUS
<1>3. i \in Inode /\ bn \in 0 .. MAXFILE - 1 /\ b \in Block /\ e \in Dinode
  BY <1>2, TurnInode DEF TurnMap
<1>4. CASE Fresh(p)
  <2>1. y \in N /\ y \in Block
    BY <1>2, <1>4 DEF TurnMap
  <2>2. Old(p) = 0
    <3>1. ~(Number(p) < NDIRECT)
      BY <1>2, <1>3, <1>4, Sizes DEF Fresh, Indirect
    <3> QED BY <3>1, <1>4 DEF Fresh, Old, mapped
  <2>3. b \in N /\ b # y
    BY <1>2, <2>2 DEF TurnMap
  <2> QED BY <1>2, <1>3, <2>1, <2>3
<1>5. CASE ~Fresh(p)
  <2>1. y = inode[i].addrs[NDIRECT]
    BY <1>2, <1>5 DEF TurnMap
  <2>2. y # 0 => <<i, MAXFILE>> \in LivePlaces /\ kept(<<i, MAXFILE>>) = y
    BY <1>3, <2>1, IndirectLive, KeptAt
  <2>3. y # 0 => y \in used /\ y \in Block /\ y # b
    <3>1. <<i, MAXFILE>> # <<i, bn>>
      BY <1>3, Sizes
    <3> QED BY <1>2, <2>2, <3>1, LiveUsed, TurnApart
  <2>4. b \in used \cup N
    <3>1. CASE Old(p) = 0
      BY <3>1 DEF TurnMap
    <3>2. CASE Old(p) # 0
      <4>1. b = Old(p)
        BY <3>2 DEF TurnMap
      <4>2. Old(p) \in used
        <5>1. /\ <<Target(p), Number(p)>> \in LivePlaces
              /\ kept(<<Target(p), Number(p)>>) = Old(p)
          BY <1>1, <3>2, OldLive
        <5>2. PICK l : l = <<Target(p), Number(p)>>
          OBVIOUS
        <5> QED BY <5>1, <5>2, LiveUsed
      <4> QED BY <4>1, <4>2
    <3> QED BY <3>1, <3>2
  <2> QED BY <1>2, <1>3, <2>3, <2>4, AddrFacts
<1> QED BY <1>4, <1>5

LEMMA BlockMap ==
  ASSUME TypeOK, CallInv, LockInv, MapInv, NEW p \in Process, WriteBlock(p)
  PROVE  MapInv'
<1>1. \A q \in Process \ {p} : Same(q)
  BY OthersSame
<1>2. pc[p] = "writei" /\ tot[p] < chunk(p) /\ pc' = pc
  <2>1. UNCHANGED <<dinode, lock, off, pc, fd, val, cnt, done, got, calls>>
    BY DEF WriteBlock, call
  <2> QED BY <2>1, WriteBlockWrote
<1>3. PICK e, b, N : TurnMap(p, e, b, N) /\ TurnData(p, e, b)
  BY TurnFacts
<1>4. PICK i, bn, y : i = Target(p) /\ bn = Number(p) /\ y = e.addrs[NDIRECT]
  OBVIOUS
<1>5. i \in Inode /\ bn \in 0 .. MAXFILE - 1 /\ lock[i] = p
  BY <1>2, <1>3, <1>4, TurnInode, Holder DEF Target
<1>6. PICK l1, l2 : l1 = <<i, bn>> /\ l2 = <<i, MAXFILE>>
  OBVIOUS
<1>7. l1 \in Places /\ l2 \in Places /\ l1 # l2
  BY <1>5, <1>6, KeptAt, Sizes
<1>8. /\ kept(l1)' = b /\ kept(l2)' = y
      /\ \A l \in Places : l # l1 /\ l # l2 => kept(l)' = kept(l)
  BY <1>3, <1>4, <1>6, TurnPlaces
<1>9. \A l \in Places : Freed(l)' <=> Freed(l)
  BY <1>1, <1>2, FreedSame
<1>10. ~Freed(l1) /\ ~Freed(l2)
  BY <1>2, <1>5, <1>6, <1>7, NotFreed
<1>11. /\ b # y /\ b \in used \cup N /\ b \in Block /\ b # 0
       /\ y \in used \cup N \cup {0}
  BY <1>3, <1>4, TurnTwo, AddrFacts
<1>12. /\ l1 \in LivePlaces' /\ (l2 \in LivePlaces' <=> y # 0)
       /\ \A l \in Places : l # l1 /\ l # l2 => (l \in LivePlaces' <=> l \in LivePlaces)
  BY <1>7, <1>8, <1>9, <1>10, <1>11 DEF LivePlaces
<1>13. used' = used \cup N
  BY <1>3 DEF TurnMap
<1>14. \A l \in LivePlaces : /\ kept(l) \in used
                             /\ l # l1 => kept(l) # b
                             /\ l # l2 => kept(l) # y
  BY <1>3, <1>4, <1>6, TurnApart, LiveUsed
<1>15. ASSUME NEW l \in LivePlaces' PROVE kept(l)' \in used'
  <2>1. l \in Places /\ kept(l)' # 0
    BY DEF LivePlaces
  <2> QED BY <1>8, <1>11, <1>12, <1>13, <1>14, <2>1
<1>16. ASSUME NEW x \in used' PROVE \E l \in LivePlaces' : x = kept(l)'
  <2>1. CASE x \in N
    <3>1. Old(p) = 0
      BY <1>3, <2>1 DEF TurnMap
    <3>2. x = b \/ x = y
      BY <1>3, <1>4, <2>1, <3>1 DEF TurnMap
    <3>3. x # 0
      BY <1>3, <2>1, AddrFacts DEF TurnMap
    <3> QED BY <1>8, <1>12, <3>2, <3>3
  <2>2. CASE x \in used
    <3>1. PICK l \in LivePlaces : x = kept(l)
      BY <2>2 DEF MapInv
    <3>2. l \in Places /\ x # 0
      BY <3>1 DEF LivePlaces
    <3>3. CASE l = l1
      <4>1. Old(p) = x
        BY <1>4, <1>5, <1>6, <3>1, <3>3, KeptAt DEF Old
      <4>2. b = x
        BY <1>3, <3>2, <4>1 DEF TurnMap
      <4> QED BY <1>8, <1>12, <4>2
    <3>4. CASE l = l2
      <4>1. inode[i].addrs[NDIRECT] = x
        BY <1>5, <1>6, <3>1, <3>4, KeptAt
      <4>2. ~Fresh(p)
        BY <1>4, <3>2, <4>1 DEF Fresh
      <4>3. y = x
        BY <1>3, <1>4, <4>1, <4>2 DEF TurnMap
      <4> QED BY <1>8, <1>12, <3>2, <4>3
    <3>5. CASE l # l1 /\ l # l2
      BY <1>8, <1>12, <3>1, <3>2, <3>5
    <3> QED BY <3>3, <3>4, <3>5
  <2> QED BY <1>13, <2>1, <2>2
<1>17. ASSUME NEW l \in LivePlaces', NEW m \in LivePlaces', kept(l)' = kept(m)'
       PROVE  l = m
  <2>1. l \in Places /\ m \in Places /\ kept(l)' # 0
    BY DEF LivePlaces
  <2>2. CASE l # l1 /\ l # l2 /\ m # l1 /\ m # l2
    <3>1. l \in LivePlaces /\ m \in LivePlaces /\ kept(l) = kept(m)
      BY <1>8, <1>12, <1>17, <2>1, <2>2
    <3> QED BY <3>1 DEF MapInv
  <2>3. CASE l \in {l1, l2} /\ m \in {l1, l2}
    BY <1>8, <1>11, <1>17, <2>3
  <2>4. CASE l \in {l1, l2} /\ m \notin {l1, l2}
    BY <1>8, <1>12, <1>14, <1>17, <2>1, <2>4
  <2>5. CASE l \notin {l1, l2} /\ m \in {l1, l2}
    BY <1>8, <1>12, <1>14, <1>17, <2>1, <2>5
  <2> QED BY <2>2, <2>3, <2>4, <2>5
<1>18. used' = {kept(l)' : l \in LivePlaces'}
  BY <1>15, <1>16
<1> QED BY <1>17, <1>18 DEF MapInv

\* itrunc gives up the place l0 and frees the block b that is kept there.
LEMMA MapRemove ==
  ASSUME TypeOK, MapInv, NEW l0 \in Places, NEW b, used' = used \ {b},
         b # 0 => l0 \in LivePlaces /\ kept(l0) = b,
         b = 0 => l0 \notin LivePlaces,
         l0 \notin LivePlaces',
         \A l \in Places \ {l0} : l \in LivePlaces' <=> l \in LivePlaces,
         \A l \in LivePlaces \ {l0} : kept(l)' = kept(l)
  PROVE  MapInv'
<1>1. LivePlaces' = LivePlaces \ {l0}
  BY DEF LivePlaces, Places
<1>2. 0 \notin used
  BY AddrFacts DEF TypeOK
<1>3. \A l, m \in LivePlaces : kept(l) = kept(m) => l = m
  BY DEF MapInv
<1>4. used = {kept(l) : l \in LivePlaces}
  BY DEF MapInv
<1>5. CASE b = 0
  <2>1. used' = used /\ LivePlaces' = LivePlaces /\ \A l \in LivePlaces : kept(l)' = kept(l)
    BY <1>1, <1>2, <1>5
  <2> QED BY <1>3, <1>4, <2>1 DEF MapInv
<1>6. CASE b # 0
  <2>1. l0 \in LivePlaces /\ kept(l0) = b
    BY <1>6
  <2>2. used' = {kept(l)' : l \in LivePlaces'}
    <3>1. ASSUME NEW l \in LivePlaces' PROVE kept(l)' \in used'
      <4>1. l \in LivePlaces /\ l # l0 /\ kept(l)' = kept(l)
        BY <1>1
      <4> QED BY <1>3, <1>4, <2>1, <4>1
    <3>2. ASSUME NEW x \in used' PROVE \E l \in LivePlaces' : x = kept(l)'
      <4>1. PICK l \in LivePlaces : x = kept(l)
        BY <1>4
      <4>2. l # l0
        BY <2>1, <4>1
      <4> QED BY <1>1, <4>1, <4>2
    <3> QED BY <3>1, <3>2
  <2>3. \A l, m \in LivePlaces' : kept(l)' = kept(m)' => l = m
    BY <1>1, <1>3
  <2> QED BY <2>2, <2>3 DEF MapInv
<1> QED BY <1>5, <1>6

\* What is freed of the inode that p truncates is what p has been at.
LEMMA FreedByOne ==
  ASSUME TypeOK, CallInv, NEW p \in Process, pc[p] = "itrunc", NEW l \in Places,
         l[1] = ino(fd[p])
  PROVE  Freed(l) <=> l[2] < tot[p]
<1>1. \A q \in Process : (pc[q] = "itrunc" /\ ino(fd[q]) = l[1]) => q = p
  BY DEF CallInv, CallOf, TruncInv, On
<1> QED BY <1>1 DEF Freed

LEMMA TruncBlockMap ==
  ASSUME TypeOK, CallInv, LockInv, MapInv, NEW p \in Process, TruncBlock(p)
  PROVE  MapInv'
<1>1. \A q \in Process \ {p} : Same(q)
  BY OthersSame
<1>2. PICK i, k, b : i = ino(fd[p]) /\ k = tot[p] /\ b = mapped(inode[i], cell, k)
  OBVIOUS
<1>3. /\ i \in Inode /\ k \in 0 .. MAXFILE - 1 /\ inode[i] \in Dinode
      /\ used' = used \ {b} /\ cell' = cell
      /\ k < NDIRECT => inode' = [inode EXCEPT ![i] = Cut(inode[i], k)]
      /\ ~(k < NDIRECT) => inode' = inode
      /\ tot' = [tot EXCEPT ![p] = k + 1]
      /\ UNCHANGED <<dinode, lock, off, pc, fd, val, cnt, done, got, calls>>
  BY <1>2, TruncStep
<1>4. pc[p] = "itrunc" /\ pc'[p] = "itrunc" /\ fd'[p] = fd[p] /\ tot'[p] = k + 1
  BY <1>3 DEF TruncBlock, TypeOK
<1>t. TypeOK' /\ CallInv'
  BY TruncBlockType, TruncBlockCalls
<1>5. PICK l0 : l0 = <<i, k>>
  OBVIOUS
<1>6. l0 \in Places /\ kept(l0) = b /\ l0[1] = i /\ l0[2] = k
  BY <1>2, <1>3, <1>5, KeptAt
\* Only the place l0 becomes free ...
<1>7. ASSUME NEW l \in Places \ {l0} PROVE Freed(l)' <=> Freed(l)
  <2>1. CASE l[1] = i
    <3>1. Freed(l) <=> l[2] < k
      BY <1>2, <1>4, <2>1, FreedByOne
    <3>2. Freed(l)' <=> l[2] < k + 1
      <4>1. \A q \in Process : (pc'[q] = "itrunc" /\ ino(fd'[q]) = l[1]) => q = p
        BY <1>t, <1>2, <1>4, <2>1 DEF CallInv, CallOf, TruncInv, On
      <4> QED BY <1>2, <1>4, <2>1, <4>1 DEF Freed
    <3>3. l[2] # k /\ l[2] \in 0 .. MAXFILE
      BY <1>5, <2>1, PlaceForm
    <3> QED BY <1>3, <3>1, <3>2, <3>3, Sizes
  <2>2. CASE l[1] # i
    BY <1>1, <1>2, <1>4, <2>2 DEF Freed, Same
  <2> QED BY <2>1, <2>2
<1>8. ~Freed(l0) /\ Freed(l0)'
  <2>1. ~Freed(l0)
    BY <1>2, <1>3, <1>4, <1>6, FreedByOne
  <2>2. k < k + 1
    BY <1>3
  <2> QED BY <1>2, <1>4, <1>6, <2>1, <2>2 DEF Freed
\* ... and no other place changes.
<1>9. ASSUME NEW l \in Places \ {l0} PROVE kept(l)' = kept(l)
  <2>1. PICK j \in Inode, m \in 0 .. MAXFILE :
          j = l[1] /\ m = l[2] /\ l = <<j, m>> /\ (m # MAXFILE => m \in 0 .. MAXFILE - 1)
    BY PlaceForm
  <2>2. CASE k < NDIRECT /\ j = i
    <3>1. inode'[i] = Cut(inode[i], k) /\ m # k
      BY <1>3, <1>5, <2>1, <2>2 DEF TypeOK
    <3>2. \A a \in 0 .. NDIRECT : a # k => inode'[i].addrs[a] = inode[i].addrs[a]
      <4>1. k \in 0 .. NDIRECT
        BY <1>3, <2>2, Sizes
      <4> QED BY <1>3, <3>1, <4>1, CutFacts
    <3>3. inode'[i].addrs[NDIRECT] = inode[i].addrs[NDIRECT]
      BY <1>3, <2>2, <3>2, Sizes
    <3>4. m < NDIRECT => inode'[i].addrs[m] = inode[i].addrs[m]
      BY <2>1, <3>1, <3>2, Sizes
    <3> QED BY <1>3, <2>1, <2>2, <3>3, <3>4, Sizes DEF kept, mapped
  <2>3. CASE ~(k < NDIRECT /\ j = i)
    <3>1. inode'[j] = inode[j]
      BY <1>3, <2>1, <2>3 DEF TypeOK
    <3> QED BY <1>3, <2>1, <3>1 DEF kept
  <2> QED BY <2>2, <2>3
<1>10. \A l \in Places \ {l0} : l \in LivePlaces' <=> l \in LivePlaces
  BY <1>7, <1>9 DEF LivePlaces
<1>11. \A l \in LivePlaces \ {l0} : kept(l)' = kept(l)
  BY <1>9 DEF LivePlaces
<1>12. /\ b # 0 => l0 \in LivePlaces /\ kept(l0) = b
       /\ b = 0 => l0 \notin LivePlaces
       /\ l0 \notin LivePlaces'
  BY <1>6, <1>8 DEF LivePlaces
<1> QED BY <1>3, <1>6, <1>10, <1>11, <1>12, MapRemove

LEMMA TruncEndMap ==
  ASSUME TypeOK, CallInv, LockInv, MapInv, NEW p \in Process, TruncEnd(p)
  PROVE  MapInv'
<1>1. \A q \in Process \ {p} : Same(q)
  BY OthersSame
<1>2. PICK i, b, e : i = ino(fd[p]) /\ b = inode[i].addrs[NDIRECT] /\ e = Emptied(inode[i])
  OBVIOUS
<1>3. /\ i \in Inode /\ inode[i] \in Dinode /\ pc[p] = "itrunc" /\ tot[p] = MAXFILE
      /\ used' = used \ {b} /\ cell' = cell /\ inode' = [inode EXCEPT ![i] = e]
      /\ Back(p)
  BY <1>2, TruncLast
<1>4. pc'[p] = "user" /\ TruncInv(p)
  BY <1>3, BackSame, TruncFacts
<1>5. /\ inode'[i] = e /\ e.addrs[NDIRECT] = 0
      /\ \A k \in 0 .. NDIRECT - 1 : e.addrs[k] = 0
      /\ \A j \in Inode \ {i} : inode'[j] = inode[j]
  <2>1. \A k \in 0 .. NDIRECT - 1 : inode[i].addrs[k] = 0
    BY <1>2, <1>3, <1>4, Sizes DEF TruncInv
  <2>2. inode'[i] = e /\ \A j \in Inode \ {i} : inode'[j] = inode[j]
    BY <1>3 DEF TypeOK
  <2>3. /\ e.addrs[NDIRECT] = 0
        /\ \A k \in 0 .. NDIRECT : k # NDIRECT => e.addrs[k] = inode[i].addrs[k]
    BY <1>2, <1>3, EmptiedFacts
  <2> QED BY <2>1, <2>2, <2>3, Sizes
<1>6. PICK l0 : l0 = <<i, MAXFILE>>
  OBVIOUS
<1>7. l0 \in Places /\ kept(l0) = b
  BY <1>2, <1>3, <1>6, KeptAt
<1>8. ASSUME NEW l \in Places, l[1] = i PROVE kept(l)' = 0
  <2>1. l[2] \in 0 .. MAXFILE
    BY PlaceForm
  <2> QED BY <1>5, <1>8, <2>1, Sizes DEF kept, mapped
<1>9. ASSUME NEW l \in Places, l[1] = i, l # l0 PROVE l \notin LivePlaces
  <2>1. l[2] < tot[p]
    BY <1>3, <1>6, <1>9, PlaceForm, Sizes
  <2> QED BY <1>2, <1>3, <1>9, <2>1 DEF LivePlaces, Freed
<1>10. ASSUME NEW l \in Places, l[1] # i
       PROVE  kept(l)' = kept(l) /\ (Freed(l)' <=> Freed(l))
  <2>1. inode'[l[1]] = inode[l[1]]
    BY <1>5, <1>10, PlaceForm
  <2>2. kept(l)' = kept(l)
    BY <1>3, <2>1 DEF kept
  <2>3. Freed(l)' <=> Freed(l)
    BY <1>1, <1>2, <1>4, <1>10 DEF Freed, Same
  <2> QED BY <2>2, <2>3
<1>11. /\ \A l \in Places \ {l0} : l \in LivePlaces' <=> l \in LivePlaces
       /\ \A l \in LivePlaces \ {l0} : kept(l)' = kept(l)
  <2>1. ASSUME NEW l \in Places, l[1] = i PROVE l \notin LivePlaces'
    BY <1>8, <2>1 DEF LivePlaces
  <2>2. ASSUME NEW l \in Places, l[1] # i PROVE l \in LivePlaces' <=> l \in LivePlaces
    BY <1>10, <2>2 DEF LivePlaces
  <2>3. \A l \in LivePlaces : l \in Places
    BY DEF LivePlaces
  <2> QED BY <1>9, <1>10, <2>1, <2>2, <2>3
<1>12. /\ b # 0 => l0 \in LivePlaces /\ kept(l0) = b
       /\ b = 0 => l0 \notin LivePlaces
       /\ l0 \notin LivePlaces'
  <2>1. b # 0 => l0 \in LivePlaces
    BY <1>2, <1>3, <1>6, IndirectLive
  <2>2. b = 0 => l0 \notin LivePlaces
    BY <1>7 DEF LivePlaces
  <2>3. kept(l0)' = 0
    BY <1>6, <1>7, <1>8
  <2> QED BY <1>7, <2>1, <2>2, <2>3 DEF LivePlaces
<1> QED BY <1>3, <1>7, <1>11, <1>12, MapRemove

-----------------------------------------------------------------------------
(* Sizes and the inodes on the disk *)

\* What SizeInv says of i.
SizeOf(i) ==
  (lock[i] # None => pc[lock[i]] = "writei") =>
    /\ \A bn \in 0 .. MAXFILE - 1 :
         (mapped(inode[i], cell, bn) # 0) <=> (Start(bn) < Reach(i))
    /\ Reach(i) = inode[i].size => dinode[i] = inode[i]

LEMMA SizeEach == SizeInv <=> \A i \in Inode : SizeOf(i)
  BY DEF SizeInv, SizeOf, Start

LEMMA SizeEachPrime == SizeInv' <=> \A i \in Inode : SizeOf(i)'
  BY DEF SizeInv, SizeOf, Start

LEMMA InitSize == Init => SizeInv
<1> SUFFICES ASSUME Init, NEW i \in Inode PROVE SizeOf(i)
  BY SizeEach
<1>1. inode[i] = Empty /\ lock[i] = None /\ dinode[i] = inode[i]
  BY DEF Init
<1>2. Empty.size = 0 /\ \A k \in 0 .. NDIRECT : Empty.addrs[k] = 0
  BY DEF Empty
<1>3. Reach(i) = 0
  BY <1>1, <1>2 DEF Reach
<1>4. ASSUME NEW bn \in 0 .. MAXFILE - 1
      PROVE  mapped(inode[i], cell, bn) = 0 /\ ~(Start(bn) < Reach(i))
  <2>1. mapped(inode[i], cell, bn) = 0
    BY <1>1, <1>2, Sizes DEF mapped
  <2>2. Start(bn) \in Nat
    BY StartMono, Sizes
  <2> QED BY <1>3, <2>1, <2>2
<1> QED BY <1>1, <1>4 DEF SizeOf

\* An inode that the step of p leaves alone.
LEMMA SizeOther ==
  ASSUME TypeOK, CallInv, LockInv, SizeInv, NEW p \in Process,
         \A q \in Process \ {p} : Same(q),
         NEW j \in Inode, lock[j] # p, lock'[j] = lock[j],
         inode'[j] = inode[j], dinode'[j] = dinode[j],
         \A bn \in 0 .. MAXFILE - 1 :
           mapped(inode'[j], cell', bn) = mapped(inode[j], cell, bn),
         lock[j] # None => \A f \in File : ino(f) = j => off'[f] = off[f]
  PROVE  SizeOf(j)' /\ Reach(j)' = Reach(j)
<1>1. SizeOf(j)
  BY SizeEach
<1>2. CASE lock[j] = None
  <2>1. Reach(j) = inode[j].size /\ Reach(j)' = inode[j].size
    BY <1>2 DEF Reach
  <2> QED BY <1>1, <1>2, <2>1 DEF SizeOf
<1>3. CASE lock[j] # None
  <2>1. PICK q \in Process \ {p} : q = lock[j]
    BY <1>3 DEF TypeOK
  <2>2. pc[q] \in {"writei", "itrunc"} /\ ino(fd[q]) = j /\ q # None
    BY <1>3, <2>1 DEF LockInv
  <2>3. Same(q) /\ fd[q] \in File
    BY <2>2, Holder
  <2>4. pc'[q] = pc[q] /\ fd'[q] = fd[q] /\ tot'[q] = tot[q] /\ off'[fd[q]] = off[fd[q]]
    BY <1>3, <2>2, <2>3 DEF Same
  <2>5. Reach(j)' = Reach(j)
    BY <2>1, <2>4 DEF Reach
  <2> QED BY <1>1, <2>1, <2>4, <2>5 DEF SizeOf
<1> QED BY <1>2, <1>3

LEMMA QuietSize ==
  ASSUME TypeOK, CallInv, LockInv, MapInv, SizeInv, NEW p \in Process,
         Call(p) \/ Read(p) \/ Lseek(p) \/ WriteFails(p)
  PROVE  SizeInv'
<1>1. \A q \in Process \ {p} : Same(q)
  BY OthersSame
<1>2. /\ inode' = inode /\ dinode' = dinode /\ cell' = cell /\ lock' = lock
      /\ pc[p] \notin {"writei", "itrunc"}
  BY DEF Call, Read, Lseek, WriteFails, store
<1>3. \A f \in File : lock[ino(f)] # None => off'[f] = off[f]
  <2>1. CASE Call(p) \/ WriteFails(p)
    BY <2>1 DEF Call, WriteFails, store
  <2>2. CASE Read(p)
    <3>1. lock[ino(fd[p])] = None
          /\ (off' = off \/ \E n : off' = [off EXCEPT ![fd[p]] = n])
      BY <2>2 DEF Read
    <3> QED BY <3>1 DEF TypeOK
  <2>3. CASE Lseek(p)
    <3>1. \E g \in File : lock[ino(g)] = None /\ \E n : off' = [off EXCEPT ![g] = n]
      BY <2>3 DEF Lseek
    <3> QED BY <3>1 DEF TypeOK
  <2> QED BY <2>1, <2>2, <2>3
<1>4. ASSUME NEW j \in Inode PROVE SizeOf(j)'
  <2>1. lock[j] # p
    BY <1>2, FileDataAssumption DEF LockInv
  <2> QED BY <1>1, <1>2, <1>3, <2>1, SizeOther
<1> QED BY <1>4, SizeEachPrime

LEMMA BeginSize ==
  ASSUME TypeOK, CallInv, LockInv, MapInv, SizeInv, NEW p \in Process, WriteBegin(p)
  PROVE  SizeInv'
<1>1. \A q \in Process \ {p} : Same(q)
  BY OthersSame
<1>2. PICK i : i = ino(fd[p])
  OBVIOUS
<1>3. /\ pc[p] = "write" /\ lock[i] = None
      /\ lock' = [lock EXCEPT ![i] = p] /\ pc' = [pc EXCEPT ![p] = "writei"]
      /\ UNCHANGED <<inode, dinode, cell, off, fd, tot>>
  BY <1>2 DEF WriteBegin, call
<1>4. i \in Inode /\ fd[p] \in File
  BY <1>2, <1>3, FileDataAssumption DEF CallInv, CallOf
<1>5. lock'[i] = p /\ pc'[p] = "writei" /\ \A j \in Inode \ {i} : lock'[j] = lock[j]
  BY <1>3, <1>4 DEF TypeOK
<1>6. SizeOf(i)'
  <2>1. off[fd[p]] <= inode[i].size /\ tot[p] = 0 /\ off[fd[p]] \in Nat /\ inode[i].size \in Nat
    <3>1. CallOf(p)' /\ TypeOK'
      BY BeginCalls, BeginType DEF CallInv
    <3>2. WriteInv(p)'
      BY <1>5, <3>1 DEF CallOf
    <3>3. off[fd[p]] <= inode[i].size
      BY <1>2, <1>3, <3>2 DEF WriteInv
    <3>4. tot[p] = 0
      BY <1>3 DEF CallInv, CallOf
    <3>5. inode[i] \in Dinode /\ off[fd[p]] \in Nat
      BY <1>4, Sizes DEF TypeOK
    <3> QED BY <3>3, <3>4, <3>5, Sizes DEF Dinode
  <2>2. Reach(i)' = inode[i].size
    BY <1>3, <1>5, <2>1 DEF Reach
  <2>3. Reach(i) = inode[i].size
    BY <1>3 DEF Reach
  <2>4. SizeOf(i)
    BY <1>4, SizeEach
  <2> QED BY <1>3, <2>2, <2>3, <2>4 DEF SizeOf
<1>7. ASSUME NEW j \in Inode, j # i PROVE SizeOf(j)'
  <2>1. lock[j] # p
    BY <1>2, <1>7, OneLock
  <2> QED BY <1>1, <1>3, <1>5, <1>7, <2>1, SizeOther
<1> QED BY <1>6, <1>7, SizeEachPrime

LEMMA RemoveSize ==
  ASSUME TypeOK, CallInv, LockInv, MapInv, SizeInv, NEW p \in Process, Remove(p)
  PROVE  SizeInv'
<1>1. \A q \in Process \ {p} : Same(q)
  BY OthersSame
<1>2. PICK f \in File :
        /\ lock' = [lock EXCEPT ![ino(f)] = p]
        /\ off' = [g \in File |-> IF ino(g) = ino(f) THEN 0 ELSE off[g]]
  BY DEF Remove
<1>3. PICK i \in Inode : i = ino(f)
  BY FileDataAssumption
<1>4. /\ pc[p] = "user" /\ pc' = [pc EXCEPT ![p] = "itrunc"]
      /\ UNCHANGED <<inode, dinode, cell>>
  BY DEF Remove
<1>5. /\ pc'[p] = "itrunc" /\ lock'[i] = p
      /\ \A j \in Inode \ {i} : lock'[j] = lock[j]
      /\ \A g \in File : ino(g) # i => off'[g] = off[g]
  BY <1>2, <1>3, <1>4 DEF TypeOK
<1>6. SizeOf(i)'
  BY <1>5, FileDataAssumption DEF SizeOf
<1>7. ASSUME NEW j \in Inode, j # i PROVE SizeOf(j)'
  <2>1. lock[j] # p
    BY <1>4, FileDataAssumption DEF LockInv
  <2> QED BY <1>1, <1>4, <1>5, <1>7, <2>1, SizeOther
<1> QED BY <1>6, <1>7, SizeEachPrime

LEMMA TruncBlockSize ==
  ASSUME TypeOK, CallInv, LockInv, MapInv, SizeInv, NEW p \in Process, TruncBlock(p)
  PROVE  SizeInv'
<1>1. \A q \in Process \ {p} : Same(q)
  BY OthersSame
<1>2. PICK i, k, b : i = ino(fd[p]) /\ k = tot[p] /\ b = mapped(inode[i], cell, k)
  OBVIOUS
<1>3. /\ i \in Inode /\ cell' = cell
      /\ k < NDIRECT => inode' = [inode EXCEPT ![i] = Cut(inode[i], k)]
      /\ ~(k < NDIRECT) => inode' = inode
      /\ UNCHANGED <<dinode, lock, off, pc, fd, val, cnt, done, got, calls>>
  BY <1>2, TruncStep
<1>4. pc[p] = "itrunc" /\ lock[i] = p
  BY <1>2, Holder DEF TruncBlock
<1>5. \A j \in Inode \ {i} : inode'[j] = inode[j]
  BY <1>3 DEF TypeOK
<1>6. SizeOf(i)'
  BY <1>3, <1>4, FileDataAssumption DEF SizeOf
<1>7. ASSUME NEW j \in Inode, j # i PROVE SizeOf(j)'
  <2>1. lock[j] # p
    BY <1>2, <1>7, OneLock
  <2> QED BY <1>1, <1>3, <1>5, <1>7, <2>1, SizeOther
<1> QED BY <1>6, <1>7, SizeEachPrime

LEMMA TruncEndSize ==
  ASSUME TypeOK, CallInv, LockInv, MapInv, SizeInv, NEW p \in Process, TruncEnd(p)
  PROVE  SizeInv'
<1>1. \A q \in Process \ {p} : Same(q)
  BY OthersSame
<1>2. PICK i, b, e : i = ino(fd[p]) /\ b = inode[i].addrs[NDIRECT] /\ e = Emptied(inode[i])
  OBVIOUS
<1>3. /\ i \in Inode /\ inode[i] \in Dinode /\ pc[p] = "itrunc" /\ tot[p] = MAXFILE
      /\ cell' = cell /\ inode' = [inode EXCEPT ![i] = e]
      /\ dinode' = [dinode EXCEPT ![i] = e] /\ lock' = [lock EXCEPT ![i] = None]
      /\ off' = off
  BY <1>2, TruncLast
<1>4. TruncInv(p)
  BY <1>3, TruncFacts
<1>5. /\ inode'[i] = e /\ dinode'[i] = e /\ lock'[i] = None
      /\ \A j \in Inode \ {i} : inode'[j] = inode[j] /\ dinode'[j] = dinode[j]
                                /\ lock'[j] = lock[j]
  BY <1>3 DEF TypeOK
<1>6. e.size = 0 /\ e.addrs[NDIRECT] = 0 /\ \A k \in 0 .. NDIRECT - 1 : e.addrs[k] = 0
  <2>1. \A k \in 0 .. NDIRECT - 1 : inode[i].addrs[k] = 0
    BY <1>2, <1>3, <1>4, Sizes DEF TruncInv
  <2>2. /\ e.size = 0 /\ e.addrs[NDIRECT] = 0
        /\ \A k \in 0 .. NDIRECT : k # NDIRECT => e.addrs[k] = inode[i].addrs[k]
    BY <1>2, <1>3, EmptiedFacts
  <2> QED BY <2>1, <2>2, Sizes
<1>7. SizeOf(i)'
  <2>1. Reach(i)' = 0
    BY <1>5, <1>6 DEF Reach
  <2>2. ASSUME NEW bn \in 0 .. MAXFILE - 1
        PROVE  mapped(e, cell', bn) = 0 /\ ~(Start(bn) < 0)
    <3>1. mapped(e, cell', bn) = 0
      BY <1>6, Sizes DEF mapped
    <3>2. Start(bn) \in Nat
      BY StartMono, Sizes
    <3> QED BY <3>1, <3>2
  <2> QED BY <1>5, <2>1, <2>2 DEF SizeOf
<1>8. ASSUME NEW j \in Inode, j # i PROVE SizeOf(j)'
  <2>1. lock[j] # p
    BY <1>2, <1>8, OneLock
  <2>2. \A bn \in 0 .. MAXFILE - 1 : mapped(inode'[j], cell', bn) = mapped(inode[j], cell, bn)
    BY <1>3, <1>5, <1>8
  <2> QED BY <1>1, <1>3, <1>5, <1>8, <2>1, <2>2, SizeOther
<1> QED BY <1>7, <1>8, SizeEachPrime

\* What the writer of i reaches.
LEMMA WriterReach ==
  ASSUME TypeOK, CallInv, NEW p \in Process, pc[p] = "writei", NEW i, i = ino(fd[p])
  PROVE  /\ i \in Inode /\ inode[i].size \in Nat /\ Point(p) \in Nat /\ lock[i] = p
         /\ p # None /\ fd[p] \in File
         /\ Reach(i) = IF Point(p) > inode[i].size THEN Point(p) ELSE inode[i].size
<1>1. lock[i] = p /\ p # None /\ fd[p] \in File /\ i \in Inode
  BY Holder
<1>2. inode[i] \in Dinode /\ off[fd[p]] \in Nat /\ tot[p] \in Nat
  BY <1>1, Sizes DEF TypeOK
<1>3. inode[i].size \in Nat /\ Point(p) \in Nat
  BY <1>2, Sizes DEF Dinode, Point
<1> QED BY <1>1, <1>3 DEF Reach, Point

LEMMA EndSize ==
  ASSUME TypeOK, CallInv, LockInv, MapInv, SizeInv, NEW p \in Process, WriteEnd(p)
  PROVE  SizeInv'
<1>1. \A q \in Process \ {p} : Same(q)
  BY OthersSame
<1>2. PICK i, f, o : i = ino(fd[p]) /\ f = fd[p] /\ o = off[f] + tot[p]
  OBVIOUS
<1>3. /\ pc[p] = "writei" /\ i \in Inode /\ inode[i] \in Dinode /\ lock[i] = p /\ f \in File
      /\ o \in 0 .. MAXFILE * BSIZE
  BY <1>2, EndFacts DEF WriteInv
<1>4. /\ cell' = cell /\ lock' = [lock EXCEPT ![i] = None]
      /\ off' = [off EXCEPT ![f] = o]
      /\ o > inode[i].size => /\ inode' = [inode EXCEPT ![i] = Sized(inode[i], o)]
                              /\ dinode' = [dinode EXCEPT ![i] = Sized(inode[i], o)]
      /\ ~(o > inode[i].size) => inode' = inode /\ dinode' = dinode
  BY <1>2, EndStore
<1>5. /\ lock'[i] = None
      /\ \A j \in Inode \ {i} : inode'[j] = inode[j] /\ dinode'[j] = dinode[j]
                                /\ lock'[j] = lock[j]
      /\ \A g \in File : ino(g) # i => off'[g] = off[g]
  BY <1>2, <1>3, <1>4 DEF TypeOK
<1>6. Reach(i) = IF o > inode[i].size THEN o ELSE inode[i].size
  BY <1>2, <1>3, WriterReach DEF Point
<1>7. SizeOf(i)
  BY <1>3, SizeEach
<1>8. SizeOf(i)'
  <2>1. Reach(i)' = inode'[i].size
    BY <1>5 DEF Reach
  <2>2. CASE o > inode[i].size
    <3>1. inode'[i] = Sized(inode[i], o) /\ dinode'[i] = inode'[i]
      BY <1>3, <1>4, <2>2 DEF TypeOK
    <3>2. inode'[i].size = o /\ inode'[i].addrs = inode[i].addrs
      BY <1>3, <3>1, SizedType
    <3>3. \A bn \in 0 .. MAXFILE - 1 : mapped(inode'[i], cell', bn) = mapped(inode[i], cell, bn)
      BY <1>4, <3>2 DEF mapped
    <3>4. Reach(i)' = Reach(i)
      BY <1>6, <2>1, <2>2, <3>2
    <3> QED BY <1>3, <1>7, <3>1, <3>3, <3>4 DEF SizeOf
  <2>3. CASE ~(o > inode[i].size)
    <3>1. inode'[i] = inode[i] /\ dinode'[i] = dinode[i] /\ Reach(i) = inode[i].size
      BY <1>4, <1>6, <2>3
    <3> QED BY <1>3, <1>4, <1>7, <2>1, <3>1 DEF SizeOf
  <2> QED BY <2>2, <2>3
<1>9. ASSUME NEW j \in Inode, j # i PROVE SizeOf(j)'
  <2>1. lock[j] # p
    BY <1>2, <1>9, OneLock
  <2>2. \A bn \in 0 .. MAXFILE - 1 : mapped(inode'[j], cell', bn) = mapped(inode[j], cell, bn)
    BY <1>4, <1>5, <1>9
  <2> QED BY <1>1, <1>5, <1>9, <2>1, <2>2, SizeOther
<1> QED BY <1>8, <1>9, SizeEachPrime

\* What a turn reaches: the rest of its block at most.
LEMMA TurnReach ==
  ASSUME TypeOK, CallInv, MapInv, NEW p \in Process, WriteBlock(p), NEW i, i = Target(p)
  PROVE  /\ tot' = [tot EXCEPT ![p] = tot[p] + turn(p, Point(p))]
         /\ UNCHANGED <<dinode, lock, off, pc, fd, val, cnt, done, got, calls>>
         /\ Point(p)' = Point(p) + turn(p, Point(p))
         /\ turn(p, Point(p)) \in 1 .. BSIZE /\ Point(p) \in Nat
         /\ Start(Number(p)) <= Point(p) /\ Point(p)' <= Start(Number(p)) + BSIZE
         /\ inode'[i].size = inode[i].size
         /\ Reach(i)' = IF Point(p)' > inode[i].size THEN Point(p)' ELSE inode[i].size
<1>0. pc[p] = "writei" /\ tot[p] < chunk(p)
  BY WriteBlockWrote
<1>1. /\ tot' = [tot EXCEPT ![p] = tot[p] + turn(p, Point(p))]
      /\ UNCHANGED <<dinode, lock, off, pc, fd, val, cnt, done, got, calls>>
  BY DEF WriteBlock, Point, call
<1>2. /\ turn(p, Point(p)) \in 1 .. BSIZE /\ Point(p) \in Nat /\ tot[p] \in Nat
      /\ off[fd[p]] \in Nat /\ Point(p) % BSIZE \in 0 .. BSIZE - 1
      /\ turn(p, Point(p)) <= BSIZE - (Point(p) % BSIZE)
  BY <1>0, WriterFacts
<1>3. tot'[p] = tot[p] + turn(p, Point(p))
  BY <1>1 DEF TypeOK
<1>4. Point(p)' = Point(p) + turn(p, Point(p))
  BY <1>1, <1>2, <1>3, Sizes DEF Point
<1>5. /\ Start(Number(p)) <= Point(p) /\ Start(Number(p)) \in Nat
      /\ Point(p) = Start(Number(p)) + (Point(p) % BSIZE)
  BY <1>2, DivMod DEF Number
<1>6. Point(p)' <= Start(Number(p)) + BSIZE
  <2>1. PICK r, s, t, o : /\ r = Point(p) % BSIZE /\ s = Start(Number(p))
                          /\ t = turn(p, Point(p)) /\ o = Point(p)
    OBVIOUS
  <2>2. o + t <= s + BSIZE
    BY <1>2, <1>5, <2>1, Sizes
  <2> QED BY <1>4, <2>1, <2>2
<1>7. PICK e, b, N : TurnMap(p, e, b, N) /\ TurnData(p, e, b)
  BY TurnFacts
<1>8. inode'[i] = e /\ e.size = inode[i].size
  <2>1. e.size = inode[i].size
    BY <1>7 DEF TurnMap
  <2> QED BY <1>7, <2>1, TurnInode
<1>9. lock[i] = p /\ p # None
  BY <1>0, Holder DEF Target
<1>10. Reach(i)' = IF Point(p)' > inode[i].size THEN Point(p)' ELSE inode[i].size
  BY <1>0, <1>1, <1>8, <1>9 DEF Reach, Point
<1> QED BY <1>1, <1>2, <1>4, <1>5, <1>6, <1>8, <1>10

LEMMA BlockSize ==
  ASSUME TypeOK, CallInv, LockInv, MapInv, SizeInv, NEW p \in Process, WriteBlock(p)
  PROVE  SizeInv'
<1>0. pc[p] = "writei" /\ tot[p] < chunk(p)
  BY WriteBlockWrote
<1>1. \A q \in Process \ {p} : Same(q)
  BY OthersSame
<1>2. PICK e, b, N : TurnMap(p, e, b, N) /\ TurnData(p, e, b)
  BY TurnFacts
<1>3. PICK i, nb, o, t : i = Target(p) /\ nb = Number(p) /\ o = Point(p) /\ t = turn(p, Point(p))
  OBVIOUS
<1>4. /\ i \in Inode /\ nb \in 0 .. MAXFILE - 1 /\ inode'[i] = e
      /\ \A j \in Inode : j # i => inode'[j] = inode[j]
  BY <1>2, <1>3, TurnInode
<1>5. PICK s : s = inode[i].size
  OBVIOUS
<1>6. /\ s \in Nat /\ o \in Nat /\ lock[i] = p /\ p # None
      /\ Reach(i) = IF o > s THEN o ELSE s
  BY <1>0, <1>3, <1>5, WriterReach DEF Target
<1>7. /\ UNCHANGED <<dinode, lock, off, pc, fd, val, cnt, done, got, calls>>
      /\ t \in 1 .. BSIZE /\ Start(nb) <= o /\ o + t <= Start(nb) + BSIZE
      /\ e.size = s
      /\ Reach(i)' = IF o + t > s THEN o + t ELSE s
  BY <1>3, <1>4, <1>5, TurnReach
<1>8. /\ mapped(e, cell', nb) = b /\ b # 0
      /\ \A k \in 0 .. MAXFILE - 1 : k # nb =>
           mapped(e, cell', k) = mapped(inode[i], cell, k)
  <2>1. b # 0
    BY <1>2, AddrFacts DEF TurnMap
  <2> QED BY <1>2, <1>3, <2>1, TurnOwn
<1>9. /\ \A bn \in 0 .. MAXFILE - 1 : (mapped(inode[i], cell, bn) # 0) <=> (Start(bn) < Reach(i))
      /\ Reach(i) = s => dinode[i] = inode[i]
  <2>1. SizeOf(i)
    BY <1>4, SizeEach
  <2> QED BY <1>0, <1>5, <1>6, <2>1 DEF SizeOf
<1>10. ASSUME NEW bn \in 0 .. MAXFILE - 1
       PROVE  (mapped(e, cell', bn) # 0) <=> (Start(bn) < Reach(i)')
  <2>1. /\ Start(bn) \in Nat /\ Start(nb) \in Nat
        /\ bn < nb => Start(bn) + BSIZE <= Start(nb)
        /\ nb < bn => Start(nb) + BSIZE <= Start(bn)
    BY <1>4, StartMono, Sizes
  <2>2. CASE bn = nb
    BY <1>6, <1>7, <1>8, <2>1, <2>2, Sizes
  <2>3. CASE bn # nb
    <3>1. (Start(bn) < Reach(i)') <=> (Start(bn) < Reach(i))
      BY <1>4, <1>6, <1>7, <2>1, <2>3, Sizes
    <3> QED BY <1>8, <1>9, <2>3, <3>1
  <2> QED BY <2>2, <2>3
<1>11. ASSUME Reach(i)' = e.size PROVE dinode'[i] = e
  <2>1. o + t <= s /\ o < s /\ Reach(i) = s
    BY <1>6, <1>7, <1>11, Sizes
  <2>2. Start(nb) < Reach(i)
    BY <1>4, <1>6, <1>7, <2>1, StartMono, Sizes
  <2>3. mapped(inode[i], cell, nb) # 0
    BY <1>4, <1>9, <2>2
  <2>4. e = inode[i]
    BY <1>2, <1>3, <2>3 DEF TurnMap, Old
  <2> QED BY <1>7, <1>9, <2>1, <2>4
<1>12. SizeOf(i)'
  BY <1>4, <1>10, <1>11 DEF SizeOf
<1>13. ASSUME NEW j \in Inode, j # i PROVE SizeOf(j)'
  <2>1. lock[j] # p
    BY <1>3, <1>13, OneLock DEF Target
  <2>2. \A bn \in 0 .. MAXFILE - 1 : mapped(inode'[j], cell', bn) = mapped(inode[j], cell, bn)
    BY <1>2, <1>3, <1>13, TurnOther
  <2> QED BY <1>1, <1>4, <1>7, <1>13, <2>1, <2>2, SizeOther
<1> QED BY <1>12, <1>13, SizeEachPrime

-----------------------------------------------------------------------------
(* The blocks of a transaction *)

\* What OpInv says of p.
OpOf(p) ==
  /\ pc[p] = "writei" =>
       op[p] \subseteq {BITMAP, inode[ino(fd[p])].addrs[NDIRECT]} \cup Touched(p)
  /\ pc[p] = "itrunc" => op[p] \subseteq {BITMAP}

LEMMA InitOp == Init => OpInv
  BY DEF Init, OpInv

\* The block maps of the files that processes other than p are writing.
OtherMaps(p) ==
  \A q \in Process \ {p} : pc[q] = "writei" =>
    /\ Spared(q)
    /\ \A bn \in 0 .. MAXFILE - 1 :
         mapped(inode'[ino(fd[q])], cell', bn) = mapped(inode[ino(fd[q])], cell, bn)

LEMMA OpStep ==
  ASSUME OpInv, NEW p \in Process, \A q \in Process \ {p} : Same(q), OtherMaps(p),
         OpOf(p)'
  PROVE  OpInv'
<1>1. ASSUME NEW q \in Process, q # p PROVE OpOf(q)'
  <2>1. OpOf(q) /\ Same(q)
    BY <1>1 DEF OpInv, OpOf
  <2>2. CASE pc[q] = "writei"
    <3>1. /\ pc'[q] = "writei" /\ op'[q] = op[q] /\ fd'[q] = fd[q]
          /\ inode'[ino(fd[q])] = inode[ino(fd[q])] /\ off'[fd[q]] = off[fd[q]]
      BY <1>1, <2>1, <2>2 DEF Same, OtherMaps, Spared
    <3>2. \A bn \in 0 .. MAXFILE - 1 :
            mapped(inode'[ino(fd[q])], cell', bn) = mapped(inode[ino(fd[q])], cell, bn)
      BY <1>1, <2>2 DEF OtherMaps
    <3>3. Touched(q)' = Touched(q)
      BY <3>1, <3>2 DEF Touched
    <3> QED BY <2>1, <2>2, <3>1, <3>3 DEF OpOf
  <2>3. CASE pc[q] # "writei"
    BY <2>1, <2>3 DEF OpOf, Same
  <2> QED BY <2>2, <2>3
<1>2. \A q \in Process : OpOf(q)'
  BY <1>1
<1> QED BY <1>2 DEF OpInv, OpOf

\* A step of p that does not touch the contents of blocks, on the inode i.
LEMMA MapsByLock ==
  ASSUME TypeOK, CallInv, NEW p \in Process, NEW i \in Inode, lock[i] \in {None, p},
         cell' = cell,
         \A j \in Inode \ {i} : lock'[j] = lock[j] /\ inode'[j] = inode[j],
         \A f \in File : ino(f) # i => off'[f] = off[f]
  PROVE  OtherMaps(p)
<1> SUFFICES ASSUME NEW q \in Process \ {p}, pc[q] = "writei"
             PROVE  Spared(q) /\ inode'[ino(fd[q])] = inode[ino(fd[q])]
  BY DEF OtherMaps
<1>1. Spared(q)
  BY SparedByLock
<1> QED BY <1>1 DEF Spared

\* A step that touches no inode.
LEMMA MapsQuiet ==
  ASSUME TypeOK, CallInv, NEW p \in Process, cell' = cell, inode' = inode, lock' = lock,
         \A f \in File : lock[ino(f)] # None => off'[f] = off[f]
  PROVE  OtherMaps(p)
<1> SUFFICES ASSUME NEW q \in Process \ {p}, pc[q] = "writei"
             PROVE  Spared(q)
  BY DEF OtherMaps
<1>1. lock[ino(fd[q])] = q /\ q # None /\ fd[q] \in File
  BY Holder
<1> QED BY <1>1 DEF Spared

LEMMA BlockMaps ==
  ASSUME TypeOK, CallInv, MapInv, NEW p \in Process, WriteBlock(p)
  PROVE  OtherMaps(p)
<1>1. PICK e, b, N : TurnMap(p, e, b, N) /\ TurnData(p, e, b)
  BY TurnFacts
<1>2. PICK i : i = Target(p)
  OBVIOUS
<1>3. i \in Inode /\ \A j \in Inode \ {i} : inode'[j] = inode[j]
  BY <1>1, <1>2, TurnInode
<1>4. UNCHANGED <<dinode, lock, off, pc, fd, val, cnt, done, got, calls>>
  BY <1>2, TurnReach
<1>5. lock[i] = p
  BY <1>2, Holder, WriteBlockWrote DEF Target
<1> SUFFICES ASSUME NEW q \in Process \ {p}, pc[q] = "writei"
             PROVE  /\ Spared(q)
                    /\ \A bn \in 0 .. MAXFILE - 1 :
                         mapped(inode'[ino(fd[q])], cell', bn) = mapped(inode[ino(fd[q])], cell, bn)
  BY DEF OtherMaps
<1>6. Spared(q) /\ ino(fd[q]) # i
  BY <1>3, <1>4, <1>5, SparedByLock
<1>7. PICK j \in Inode : j = ino(fd[q])
  BY Holder
<1>8. \A bn \in 0 .. MAXFILE - 1 : mapped(inode'[j], cell', bn) = mapped(inode[j], cell, bn)
  BY <1>1, <1>2, <1>6, <1>7, TurnOther
<1> QED BY <1>6, <1>7, <1>8

\* Every action spares the files that others are writing.
LEMMA StepMaps ==
  ASSUME TypeOK, CallInv, LockInv, MapInv, NEW p \in Process,
         \/ Call(p) \/ Read(p) \/ Lseek(p)
         \/ WriteFails(p) \/ WriteBegin(p) \/ WriteBlock(p) \/ WriteEnd(p)
         \/ Remove(p) \/ TruncBlock(p) \/ TruncEnd(p)
  PROVE  OtherMaps(p)
<1>1. CASE Call(p) \/ WriteFails(p)
  BY <1>1, MapsQuiet DEF Call, WriteFails, store
<1>2. CASE Read(p)
  <2>1. /\ lock[ino(fd[p])] = None /\ cell' = cell /\ inode' = inode /\ lock' = lock
        /\ (off' = off \/ \E n : off' = [off EXCEPT ![fd[p]] = n])
    BY <1>2 DEF Read
  <2>2. \A f \in File : lock[ino(f)] # None => off'[f] = off[f]
    BY <2>1 DEF TypeOK
  <2> QED BY <2>1, <2>2, MapsQuiet
<1>3. CASE Lseek(p)
  <2>1. /\ cell' = cell /\ inode' = inode /\ lock' = lock
        /\ \E g \in File : lock[ino(g)] = None /\ \E n : off' = [off EXCEPT ![g] = n]
    BY <1>3 DEF Lseek
  <2>2. \A f \in File : lock[ino(f)] # None => off'[f] = off[f]
    BY <2>1 DEF TypeOK
  <2> QED BY <2>1, <2>2, MapsQuiet
<1>4. CASE WriteBegin(p)
  <2>1. PICK i : i = ino(fd[p])
    OBVIOUS
  <2>2. /\ pc[p] = "write" /\ lock[i] = None /\ lock' = [lock EXCEPT ![i] = p]
        /\ UNCHANGED <<inode, cell, off>>
    BY <1>4, <2>1 DEF WriteBegin
  <2>3. i \in Inode
    BY <2>1, <2>2, FileDataAssumption DEF CallInv, CallOf
  <2>4. \A j \in Inode \ {i} : lock'[j] = lock[j]
    BY <2>2 DEF TypeOK
  <2> QED BY <2>2, <2>3, <2>4, MapsByLock
<1>5. CASE WriteBlock(p)
  BY <1>5, BlockMaps
<1>6. CASE WriteEnd(p)
  <2>2. PICK i, f, o : i = ino(fd[p]) /\ f = fd[p] /\ o = off[f] + tot[p]
    OBVIOUS
  <2>3. i \in Inode /\ lock[i] = p /\ f \in File /\ ino(f) = i
    BY <1>6, <2>2, EndFacts DEF WriteInv
  <2>4. /\ cell' = cell /\ lock' = [lock EXCEPT ![i] = None]
        /\ off' = [off EXCEPT ![f] = o]
        /\ (inode' = [inode EXCEPT ![i] = Sized(inode[i], o)] \/ inode' = inode)
    BY <1>6, <2>2, EndStore
  <2>5. /\ \A j \in Inode \ {i} : lock'[j] = lock[j] /\ inode'[j] = inode[j]
        /\ \A g \in File : ino(g) # i => off'[g] = off[g]
    BY <2>3, <2>4 DEF TypeOK
  <2> QED BY <2>3, <2>4, <2>5, MapsByLock
<1>7. CASE Remove(p)
  <2>1. PICK f \in File :
          /\ \A q \in Process : pc[q] = "user" \/ ino(fd[q]) # ino(f)
          /\ lock' = [lock EXCEPT ![ino(f)] = p]
          /\ off' = [g \in File |-> IF ino(g) = ino(f) THEN 0 ELSE off[g]]
    BY <1>7 DEF Remove
  <2>2. cell' = cell /\ inode' = inode
    BY <1>7 DEF Remove
  <2>3. PICK i \in Inode : i = ino(f)
    BY FileDataAssumption
  <2>4. lock[i] = None
    BY <2>1, <2>3 DEF LockInv, TypeOK
  <2>5. /\ \A j \in Inode \ {i} : lock'[j] = lock[j]
        /\ \A g \in File : ino(g) # i => off'[g] = off[g]
    BY <2>1, <2>3 DEF TypeOK
  <2> QED BY <2>2, <2>4, <2>5, MapsByLock
<1>8. CASE TruncBlock(p)
  <2>1. PICK i, k, b : i = ino(fd[p]) /\ k = tot[p] /\ b = mapped(inode[i], cell, k)
    OBVIOUS
  <2>2. /\ i \in Inode /\ cell' = cell
        /\ k < NDIRECT => inode' = [inode EXCEPT ![i] = Cut(inode[i], k)]
        /\ ~(k < NDIRECT) => inode' = inode
        /\ UNCHANGED <<dinode, lock, off, pc, fd, val, cnt, done, got, calls>>
    BY <1>8, <2>1, TruncStep
  <2>3. lock[i] = p
    BY <1>8, <2>1, Holder DEF TruncBlock
  <2>4. \A j \in Inode \ {i} : inode'[j] = inode[j]
    BY <2>2 DEF TypeOK
  <2> QED BY <2>2, <2>3, <2>4, MapsByLock
<1>9. CASE TruncEnd(p)
  <2>1. PICK i, b, e : i = ino(fd[p]) /\ b = inode[i].addrs[NDIRECT] /\ e = Emptied(inode[i])
    OBVIOUS
  <2>2. /\ i \in Inode /\ cell' = cell /\ inode' = [inode EXCEPT ![i] = e]
        /\ lock' = [lock EXCEPT ![i] = None] /\ off' = off /\ pc[p] = "itrunc"
    BY <1>9, <2>1, TruncLast
  <2>3. lock[i] = p
    BY <2>1, <2>2, Holder
  <2>4. \A j \in Inode \ {i} : inode'[j] = inode[j] /\ lock'[j] = lock[j]
    BY <2>2 DEF TypeOK
  <2> QED BY <2>2, <2>3, <2>4, MapsByLock
<1> QED BY <1>1, <1>2, <1>3, <1>4, <1>5, <1>6, <1>7, <1>8, <1>9

\* The block of a turn is one of those that the chunk can touch.
LEMMA NumberTouched ==
  ASSUME TypeOK, CallInv, NEW p \in Process, pc[p] = "writei", tot[p] < chunk(p)
  PROVE  Number(p) \in off[fd[p]] \div BSIZE .. off[fd[p]] \div BSIZE + NTouch
<1>1. /\ off[fd[p]] \in Nat /\ tot[p] \in Nat /\ Point(p) \in Nat /\ chunk(p) \in Nat
      /\ Number(p) \in 0 .. MAXFILE - 1
  BY WriterFacts
<1>2. done[p] < cnt[p]
  BY DEF CallInv, CallOf, WriteInv
<1>3. chunk(p) <= max
  BY <1>2, ChunkNat
<1>4. PICK o, n, d, m : o = off[fd[p]] /\ n = Point(p) /\ d = o \div BSIZE /\ m = n \div BSIZE
  OBVIOUS
<1>5. o \in Nat /\ n \in Nat /\ o <= n /\ m = Number(p) /\ n < o + max
  BY <1>1, <1>3, <1>4, ChunkNat, <1>2 DEF Point, Number
<1>6. d \in Nat /\ m \in Nat /\ Start(d) <= o /\ o < Start(d) + BSIZE /\ Start(d) \in Nat
  BY <1>4, <1>5, DivMod
<1>7. Start(d + NTouch + 1) = Start(d) + max + BSIZE /\ max \in Nat
  <2> DEFINE t == NTouch
  <2>1. t \in Nat
    BY Sizes
  <2>2. max = t * BSIZE
    <3>1. MAXOPBLOCKS - 1 - 1 - 2 = MAXOPBLOCKS - 4
      BY Sizes
    <3> QED BY <3>1 DEF max, NTouch
  <2> HIDE DEF t
  <2>3. (d + t + 1) * BSIZE = d * BSIZE + t * BSIZE + BSIZE
    BY <1>6, <2>1, Sizes
  <2>4. t * BSIZE \in Nat
    BY <2>1, Sizes
  <2> QED BY <2>2, <2>3, <2>4 DEF Start, t
<1>8. n < Start(d + NTouch + 1)
  BY <1>5, <1>6, <1>7, Sizes
<1>9. d + NTouch + 1 \in Nat
  BY <1>6, Sizes
<1>10. m < d + NTouch + 1
  BY <1>4, <1>5, <1>8, <1>9, InBlock
<1>11. ~(m < d)
  BY <1>4, <1>5, <1>6, InBlock
<1> QED BY <1>4, <1>5, <1>6, <1>10, <1>11, Sizes

LEMMA BlockOp ==
  ASSUME TypeOK, CallInv, LockInv, MapInv, OpInv, NEW p \in Process, WriteBlock(p)
  PROVE  OpOf(p)'
<1>0. pc[p] = "writei" /\ tot[p] < chunk(p)
  BY WriteBlockWrote
<1>2. PICK e, b, N : TurnMap(p, e, b, N) /\ TurnData(p, e, b)
  BY TurnFacts
<1>3. PICK i, nb, x, y : /\ i = Target(p) /\ nb = Number(p)
                         /\ x = inode[i].addrs[NDIRECT] /\ y = e.addrs[NDIRECT]
  OBVIOUS
<1>4. i \in Inode /\ nb \in 0 .. MAXFILE - 1 /\ inode'[i] = e
  BY <1>2, <1>3, TurnInode
<1>5. UNCHANGED <<dinode, lock, off, pc, fd, val, cnt, done, got, calls>>
  BY <1>3, TurnReach
<1>6. /\ mapped(e, cell', nb) = b
      /\ \A k \in 0 .. MAXFILE - 1 : k # nb =>
           mapped(e, cell', k) = mapped(inode[i], cell, k)
  BY <1>2, <1>3, TurnOwn
<1>7. op'[p] \subseteq op[p] \cup {BITMAP, b, y}
  BY <1>2, <1>3 DEF TurnData
<1>8. op[p] \subseteq {BITMAP, x} \cup Touched(p)
  BY <1>0, <1>3 DEF OpInv, Target
<1>9. x = BITMAP \/ x = y
  <2>1. x # 0 => ~Fresh(p)
    BY <1>3 DEF Fresh
  <2>2. ~Fresh(p) => x = y
    BY <1>2, <1>3 DEF TurnMap
  <2> QED BY <2>1, <2>2 DEF BITMAP
<1>10. b \in Touched(p)'
  <2>1. nb \in off[fd[p]] \div BSIZE .. off[fd[p]] \div BSIZE + NTouch
    BY <1>0, <1>3, NumberTouched
  <2> QED BY <1>3, <1>4, <1>5, <1>6, <2>1 DEF Touched, Target
<1>11. ASSUME NEW z \in Touched(p) PROVE z \in Touched(p)' \cup {BITMAP}
  <2>1. PICK k \in 0 .. MAXFILE - 1 :
          /\ k \in off[fd[p]] \div BSIZE .. off[fd[p]] \div BSIZE + NTouch
          /\ z = mapped(inode[i], cell, k)
    BY <1>3 DEF Touched, Target
  <2>2. CASE k = nb
    <3>1. z = Old(p)
      BY <1>3, <2>1, <2>2 DEF Old
    <3>2. z # 0 => z = b
      BY <1>2, <3>1 DEF TurnMap
    <3> QED BY <1>10, <3>2 DEF BITMAP
  <2>3. CASE k # nb
    <3>1. z = mapped(e, cell', k)
      BY <1>6, <2>1, <2>3
    <3> QED BY <1>3, <1>4, <1>5, <2>1, <3>1 DEF Touched, Target
  <2> QED BY <2>2, <2>3
<1>12. op'[p] \subseteq {BITMAP, y} \cup Touched(p)'
  BY <1>7, <1>8, <1>9, <1>10, <1>11
<1>13. pc'[p] = "writei" /\ inode'[ino(fd'[p])].addrs[NDIRECT] = y
  BY <1>0, <1>3, <1>4, <1>5 DEF Target
<1> QED BY <1>12, <1>13 DEF OpOf

LEMMA NextOp ==
  ASSUME TypeOK, CallInv, LockInv, MapInv, OpInv, NEW p \in Process,
         \/ Call(p) \/ Read(p) \/ Lseek(p)
         \/ WriteFails(p) \/ WriteBegin(p) \/ WriteBlock(p) \/ WriteEnd(p)
         \/ Remove(p) \/ TruncBlock(p) \/ TruncEnd(p)
  PROVE  OpInv'
<1>1. \A q \in Process \ {p} : Same(q)
  BY OthersSame
<1>2. OtherMaps(p)
  BY StepMaps
<1>3. OpOf(p)'
  <2>1. CASE Call(p)
    BY <2>1 DEF Call, TypeOK, OpOf
  <2>2. CASE Read(p)
    BY <2>2, BackSame DEF Read, OpOf
  <2>3. CASE Lseek(p)
    BY <2>3 DEF Lseek, OpOf
  <2>4. CASE WriteFails(p)
    BY <2>4, BackSame DEF WriteFails, OpOf
  <2>5. CASE WriteBegin(p)
    <3>1. op' = op /\ op[p] = {}
      BY <2>5 DEF WriteBegin, CallInv, CallOf
    <3> QED BY <3>1 DEF OpOf
  <2>6. CASE WriteBlock(p)
    BY <2>6, BlockOp
  <2>7. CASE WriteEnd(p)
    BY <2>7, EndSame DEF OpOf
  <2>8. CASE Remove(p)
    <3>1. op' = op /\ op[p] = {}
      BY <2>8 DEF Remove, CallInv, CallOf
    <3> QED BY <3>1 DEF OpOf
  <2>9. CASE TruncBlock(p)
    <3>1. /\ pc[p] = "itrunc" /\ pc' = pc
          /\ op'[p] = op[p] \/ op'[p] = op[p] \cup {BITMAP}
      BY <2>9 DEF TruncBlock, TypeOK
    <3> QED BY <3>1 DEF OpOf, OpInv
  <2>10. CASE TruncEnd(p)
    BY <2>10, BackSame DEF TruncEnd, OpOf
  <2> QED BY <2>1, <2>2, <2>3, <2>4, <2>5, <2>6, <2>7, <2>8, <2>9, <2>10
<1> QED BY <1>1, <1>2, <1>3, OpStep

-----------------------------------------------------------------------------
(* The bytes of files *)

\* A byte of a file that is not being truncated is in a block that is in use.
LEMMA BytePlace ==
  ASSUME TypeOK, CallInv, NEW j \in Inode, lock[j] # None => pc[lock[j]] # "itrunc",
         NEW bn \in 0 .. MAXFILE - 1, mapped(inode[j], cell, bn) # 0
  PROVE  <<j, bn>> \in LivePlaces /\ kept(<<j, bn>>) = mapped(inode[j], cell, bn)
<1>1. <<j, bn>> \in Places /\ kept(<<j, bn>>) = mapped(inode[j], cell, bn)
  BY KeptAt
<1>2. ~Freed(<<j, bn>>)
  BY <1>1, NotFreed
<1> QED BY <1>1, <1>2 DEF LivePlaces

\* Where the block of a byte stays and its contents do, so does the byte.
LEMMA AtSame ==
  ASSUME NEW j \in Inode, NEW n \in Nat, NEW bn, bn = n \div BSIZE,
         NEW x, x = mapped(inode[j], cell, bn), mapped(inode'[j], cell', bn) = x,
         x \in Block => cell'[x][n % BSIZE] = cell[x][n % BSIZE]
  PROVE  At(j, n)' = At(j, n)
  BY DEF At

LEMMA AtQuiet ==
  ASSUME cell' = cell, NEW j \in Inode, inode'[j].addrs = inode[j].addrs
  PROVE  \A n : At(j, n)' = At(j, n)
  BY DEF At, mapped

\* A turn changes the bytes that it writes and no others.
LEMMA TurnAtOther ==
  ASSUME TypeOK, CallInv, LockInv, MapInv, NEW p \in Process, WriteBlock(p),
         NEW j \in Inode, j # Target(p), lock[j] # None => pc[lock[j]] # "itrunc",
         NEW n \in Nat, n < MAXFILE * BSIZE
  PROVE  At(j, n)' = At(j, n)
<1>1. PICK e, b, N : TurnMap(p, e, b, N) /\ TurnData(p, e, b)
  BY TurnFacts
<1>2. PICK bn \in 0 .. MAXFILE - 1 : bn = n \div BSIZE
  BY DivBelow
<1>3. PICK x : x = mapped(inode[j], cell, bn)
  OBVIOUS
<1>4. mapped(inode'[j], cell', bn) = x
  BY <1>1, <1>2, <1>3, TurnOther
<1>5. x \in Block => cell'[x] = cell[x]
  <2> SUFFICES ASSUME x \in Block PROVE cell'[x] = cell[x]
    OBVIOUS
  <2>1. x # 0
    BY AddrFacts
  <2>2. PICK l : l = <<j, bn>>
    OBVIOUS
  <2>3. l \in LivePlaces /\ kept(l) = x
    BY <1>3, <2>1, <2>2, BytePlace
  <2>4. l # <<Target(p), Number(p)>> /\ l[2] # MAXFILE
    BY <1>2, <2>2, Sizes
  <2> QED BY <1>1, <2>3, <2>4, TurnBytes
<1> QED BY <1>2, <1>3, <1>4, <1>5, AtSame

LEMMA TurnAtOwn ==
  ASSUME TypeOK, CallInv, LockInv, MapInv, NEW p \in Process, WriteBlock(p),
         NEW i, i = Target(p), NEW n \in Nat, n < MAXFILE * BSIZE
  PROVE  At(i, n)' = IF n \in Point(p) .. Point(p) + turn(p, Point(p)) - 1
                     THEN byte(p, done[p] + (n - off[fd[p]])) ELSE At(i, n)
<1>0. pc[p] = "writei" /\ tot[p] < chunk(p)
  BY WriteBlockWrote
<1>1. PICK e, b, N : TurnMap(p, e, b, N) /\ TurnData(p, e, b)
  BY TurnFacts
<1>2. PICK bn \in 0 .. MAXFILE - 1 : bn = n \div BSIZE
  BY DivBelow
<1>3. PICK x, nb, o, t : /\ x = mapped(inode[i], cell, bn) /\ nb = Number(p)
                         /\ o = Point(p) /\ t = turn(p, Point(p))
  OBVIOUS
<1>4. /\ i \in Inode /\ nb \in 0 .. MAXFILE - 1 /\ inode'[i] = e
  BY <1>1, <1>3, TurnInode
<1>5. /\ t \in 1 .. BSIZE /\ o \in Nat /\ Start(nb) <= o /\ o + t <= Start(nb) + BSIZE
  BY <1>3, TurnReach
<1>6. /\ mapped(e, cell', nb) = b /\ b \in Block
      /\ \A k \in 0 .. MAXFILE - 1 : k # nb => mapped(e, cell', k) = mapped(inode[i], cell, k)
  <2>1. b \in Block
    BY <1>1 DEF TurnMap
  <2> QED BY <1>1, <1>3, <2>1, TurnOwn
<1>7. PICK r, s : r = n % BSIZE /\ s = Start(bn)
  OBVIOUS
<1>8. s \in Nat /\ r \in 0 .. BSIZE - 1 /\ n = s + r
  BY <1>2, <1>7, DivMod
<1>9. CASE bn # nb
  <2>1. mapped(inode'[i], cell', bn) = x
    BY <1>3, <1>4, <1>6, <1>9
  <2>2. x \in Block => cell'[x] = cell[x]
    <3> SUFFICES ASSUME x \in Block PROVE cell'[x] = cell[x]
      OBVIOUS
    <3>1. x # 0 /\ lock[i] = p
      BY <1>0, <1>3, AddrFacts, Holder DEF Target
    <3>2. PICK l : l = <<i, bn>>
      OBVIOUS
    <3>3. l \in LivePlaces /\ kept(l) = x
      BY <1>0, <1>3, <1>4, <3>1, <3>2, BytePlace
    <3>4. l # <<Target(p), Number(p)>> /\ l[2] # MAXFILE
      BY <1>2, <1>3, <1>9, <3>2, Sizes
    <3> QED BY <1>1, <3>3, <3>4, TurnBytes
  <2>3. At(i, n)' = At(i, n)
    BY <1>2, <1>3, <1>4, <2>1, <2>2, AtSame
  <2>4. n \notin o .. o + t - 1
    <3>1. /\ Start(nb) \in Nat
          /\ bn < nb => s + BSIZE <= Start(nb)
          /\ nb < bn => Start(nb) + BSIZE <= s
      BY <1>4, <1>7, StartMono, Sizes
    <3> QED BY <1>4, <1>5, <1>8, <1>9, <3>1, Sizes
  <2> QED BY <1>3, <2>3, <2>4
<1>10. CASE bn = nb
  <2>1. PICK a : a = o % BSIZE
    OBVIOUS
  <2>2. a \in 0 .. BSIZE - 1 /\ o = s + a /\ t <= BSIZE - a
    <3>1. o \div BSIZE = bn
      BY <1>3, <1>10 DEF Number
    <3>2. a \in 0 .. BSIZE - 1 /\ o = s + a
      BY <1>5, <1>7, <2>1, <3>1, DivMod
    <3> QED BY <1>5, <1>7, <1>8, <1>10, <3>2, Sizes
  <2>3. At(i, n)' = cell'[b][r]
    BY <1>2, <1>4, <1>6, <1>7, <1>10 DEF At
  <2>4. (r \in Turn(p)) <=> (n \in o .. o + t - 1)
    BY <1>3, <1>5, <1>8, <2>1, <2>2, Sizes DEF Turn
  <2>5. cell'[b][r] =
          IF r \in Turn(p) THEN byte(p, done[p] + tot[p] + r - (Point(p) % BSIZE))
          ELSE IF Old(p) # 0 THEN cell[b][r] ELSE 0
    BY <1>1, <1>8 DEF TurnData
  <2>6. x = Old(p)
    BY <1>3, <1>10 DEF Old
  <2>7. At(i, n) = IF x \in Block THEN cell[x][r] ELSE 0
    BY <1>2, <1>3, <1>7 DEF At
  <2>8. (IF Old(p) # 0 THEN cell[b][r] ELSE 0) = At(i, n)
    <3>1. Old(p) # 0 => b = x
      BY <1>1, <2>6 DEF TurnMap
    <3> QED BY <1>6, <2>6, <2>7, <3>1, AddrFacts
  <2>9. done[p] + tot[p] + r - (Point(p) % BSIZE) = done[p] + (n - off[fd[p]])
    <3>1. done[p] \in Nat /\ tot[p] \in Nat /\ off[fd[p]] \in Nat /\ o = off[fd[p]] + tot[p]
      BY <1>0, <1>3, WriterFacts DEF Point
    <3>2. PICK d, m, h : d = done[p] /\ m = tot[p] /\ h = off[fd[p]]
      OBVIOUS
    <3>3. d \in Nat /\ m \in Nat /\ h \in Nat /\ o = h + m
      BY <3>1, <3>2
    <3>4. d + m + r - a = d + (n - h)
      BY <1>8, <2>2, <3>3, Sizes
    <3> QED BY <1>3, <2>1, <3>2, <3>4
  <2> QED BY <1>3, <2>3, <2>4, <2>5, <2>8, <2>9
<1> QED BY <1>9, <1>10

-----------------------------------------------------------------------------
(* What has been written of a chunk *)

WrittenOf(p) ==
  pc[p] = "writei" =>
    \A k \in 0 .. tot[p] - 1 :
      At(ino(fd[p]), off[fd[p]] + k) = byte(p, done[p] + k)

LEMMA InitWritten == Init => WrittenInv
  BY DEF Init, WrittenInv

\* The bytes of other writers are left alone.
OtherBytes(p) ==
  \A q \in Process \ {p} : pc[q] = "writei" =>
    \A j \in Inode, o \in Nat : j = ino(fd[q]) /\ o = off[fd[q]] =>
      \A k \in 0 .. tot[q] - 1 : At(j, o + k)' = At(j, o + k)

LEMMA BytesIn ==
  ASSUME TypeOK, CallInv, NEW q \in Process, pc[q] = "writei", NEW k \in 0 .. tot[q] - 1
  PROVE  off[fd[q]] + k \in Nat /\ off[fd[q]] + k < MAXFILE * BSIZE
<1>1. fd[q] \in File /\ WriteInv(q)
  BY DEF CallInv, CallOf
<1>2. off[fd[q]] \in Nat /\ tot[q] \in Nat /\ chunk(q) \in Nat
  <2>1. off[fd[q]] \in Nat /\ tot[q] \in Nat /\ done[q] < cnt[q]
    BY <1>1, Sizes DEF TypeOK, WriteInv
  <2> QED BY <2>1, ChunkNat
<1> QED BY <1>1, <1>2, Sizes DEF WriteInv

LEMMA WrittenStep ==
  ASSUME TypeOK, CallInv, WrittenInv, NEW p \in Process, \A q \in Process \ {p} : Same(q),
         OtherMaps(p), OtherBytes(p), WrittenOf(p)'
  PROVE  WrittenInv'
<1>1. ASSUME NEW q \in Process, q # p PROVE WrittenOf(q)'
  <2>1. WrittenOf(q) /\ Same(q)
    BY <1>1 DEF WrittenInv, WrittenOf
  <2>2. CASE pc[q] = "writei"
    <3>1. fd[q] \in File /\ ino(fd[q]) \in Inode
      BY <2>2, Holder
    <3>2. PICK j \in Inode, o \in Nat : j = ino(fd[q]) /\ o = off[fd[q]]
      BY <3>1, Sizes DEF TypeOK
    <3>3. \A k \in 0 .. tot[q] - 1 : At(j, o + k)' = At(j, o + k)
      BY <1>1, <2>2, <3>2 DEF OtherBytes
    <3>4. /\ fd'[q] = fd[q] /\ val'[q] = val[q] /\ done'[q] = done[q] /\ tot'[q] = tot[q]
          /\ off'[fd[q]] = o /\ ino(fd'[q]) = j
      BY <1>1, <2>1, <2>2, <3>2 DEF Same, OtherMaps, Spared
    <3>5. \A k \in 0 .. tot[q] - 1 : At(j, o + k) = byte(q, done[q] + k)
      BY <2>1, <2>2, <3>2 DEF WrittenOf
    <3>6. \A k \in 0 .. tot'[q] - 1 : At(j, o + k)' = byte(q, done[q] + k)'
      BY <3>3, <3>4, <3>5 DEF byte
    <3> QED BY <3>2, <3>4, <3>6 DEF WrittenOf
  <2>3. CASE pc[q] # "writei"
    BY <2>1, <2>3 DEF WrittenOf, Same
  <2> QED BY <2>2, <2>3
<1>2. \A q \in Process : WrittenOf(q)'
  BY <1>1
<1> QED BY <1>2 DEF WrittenInv, WrittenOf

LEMMA QuietBytes ==
  ASSUME NEW p \in Process, OtherMaps(p), cell' = cell
  PROVE  OtherBytes(p)
<1> SUFFICES ASSUME NEW q \in Process \ {p}, pc[q] = "writei", NEW j \in Inode, j = ino(fd[q]),
                    NEW n
             PROVE  At(j, n)' = At(j, n)
  BY DEF OtherBytes
<1>1. inode'[j] = inode[j]
  BY DEF OtherMaps, Spared
<1> QED BY <1>1, AtQuiet

LEMMA BlockBytes ==
  ASSUME TypeOK, CallInv, LockInv, MapInv, NEW p \in Process, WriteBlock(p)
  PROVE  OtherBytes(p)
<1> SUFFICES ASSUME NEW q \in Process \ {p}, pc[q] = "writei", NEW j \in Inode, j = ino(fd[q]),
                    NEW o \in Nat, o = off[fd[q]], NEW k \in 0 .. tot[q] - 1
             PROVE  At(j, o + k)' = At(j, o + k)
  BY DEF OtherBytes
<1>1. o + k \in Nat /\ o + k < MAXFILE * BSIZE
  BY BytesIn
<1>2. PICK n \in Nat : n = o + k
  BY <1>1
<1>3. lock[j] = q /\ lock[Target(p)] = p
  BY Holder, WriteBlockWrote DEF Target
<1>4. At(j, n)' = At(j, n)
  BY <1>1, <1>2, <1>3, TurnAtOther
<1> QED BY <1>2, <1>4

LEMMA BlockWritten ==
  ASSUME TypeOK, CallInv, LockInv, MapInv, WrittenInv, NEW p \in Process, WriteBlock(p)
  PROVE  WrittenOf(p)'
<1>0. pc[p] = "writei" /\ tot[p] < chunk(p)
  BY WriteBlockWrote
<1>1. PICK i, h, m, t : i = Target(p) /\ h = off[fd[p]] /\ m = tot[p] /\ t = turn(p, Point(p))
  OBVIOUS
<1>2. /\ tot' = [tot EXCEPT ![p] = m + t]
      /\ UNCHANGED <<dinode, lock, off, pc, fd, val, cnt, done, got, calls>>
  BY <1>1, TurnReach
<1>3. tot'[p] = m + t
  BY <1>2 DEF TypeOK
<1>4. /\ h \in Nat /\ m \in Nat /\ t \in 1 .. BSIZE /\ Point(p) = h + m /\ m + t <= chunk(p)
      /\ done[p] \in Nat
  BY <1>0, <1>1, WriterFacts DEF Point
<1>5. h + chunk(p) <= MAXFILE * BSIZE /\ chunk(p) \in Nat
  <2>1. WriteInv(p)
    BY <1>0 DEF CallInv, CallOf
  <2> QED BY <1>0, <1>1, <2>1, WriterFacts DEF WriteInv
<1>6. ASSUME NEW k \in 0 .. m + t - 1 PROVE At(i, h + k)' = byte(p, done[p] + k)
  <2>1. PICK n \in Nat : n = h + k
    BY <1>4
  <2>2. n < MAXFILE * BSIZE
    BY <1>4, <1>5, <2>1, Sizes
  <2>3. At(i, n)' = IF n \in h + m .. h + m + t - 1 THEN byte(p, done[p] + (n - h)) ELSE At(i, n)
    BY <1>1, <1>4, <2>2, TurnAtOwn
  <2>4. n - h = k
    BY <1>4, <2>1
  <2>5. CASE k < m
    <3>1. At(i, h + k) = byte(p, done[p] + k)
      BY <1>0, <1>1, <1>4, <2>5 DEF WrittenInv, Target
    <3>2. n \notin h + m .. h + m + t - 1
      BY <1>4, <2>1, <2>5
    <3> QED BY <2>1, <2>3, <3>1, <3>2
  <2>6. CASE k >= m
    <3>1. n \in h + m .. h + m + t - 1
      BY <1>4, <2>1, <2>6, Sizes
    <3> QED BY <2>1, <2>3, <2>4, <3>1
  <2> QED BY <1>4, <2>5, <2>6
<1>7. ino(fd'[p]) = i /\ off'[fd'[p]] = h /\ val'[p] = val[p] /\ done'[p] = done[p]
  BY <1>1, <1>2 DEF Target
<1> SUFFICES ASSUME NEW k \in 0 .. tot'[p] - 1
             PROVE  At(ino(fd[p]), off[fd[p]] + k)' = byte(p, done[p] + k)'
  BY DEF WrittenOf
<1>8. At(i, h + k)' = byte(p, done[p] + k)
  BY <1>3, <1>4, <1>6
<1>9. byte(p, done[p] + k)' = byte(p, done[p] + k)
  BY <1>7 DEF byte
<1>10. At(ino(fd[p]), off[fd[p]] + k)' = At(i, h + k)'
  BY <1>7 DEF At
<1> QED BY <1>8, <1>9, <1>10

LEMMA NextWritten ==
  ASSUME TypeOK, CallInv, LockInv, MapInv, WrittenInv, NEW p \in Process,
         \/ Call(p) \/ Read(p) \/ Lseek(p)
         \/ WriteFails(p) \/ WriteBegin(p) \/ WriteBlock(p) \/ WriteEnd(p)
         \/ Remove(p) \/ TruncBlock(p) \/ TruncEnd(p)
  PROVE  WrittenInv'
<1>1. \A q \in Process \ {p} : Same(q)
  BY OthersSame
<1>2. OtherMaps(p)
  BY StepMaps
<1>3. WrittenOf(p)'
  <2>1. CASE Call(p)
    BY <2>1 DEF Call, TypeOK, WrittenOf
  <2>2. CASE Read(p)
    BY <2>2, BackSame DEF Read, WrittenOf
  <2>3. CASE Lseek(p)
    BY <2>3 DEF Lseek, WrittenOf
  <2>4. CASE WriteFails(p)
    BY <2>4, BackSame DEF WriteFails, WrittenOf
  <2>5. CASE WriteBegin(p)
    <3>1. tot' = tot /\ tot[p] = 0
      BY <2>5 DEF WriteBegin, CallInv, CallOf
    <3> QED BY <3>1 DEF WrittenOf
  <2>6. CASE WriteBlock(p)
    BY <2>6, BlockWritten
  <2>7. CASE WriteEnd(p)
    BY <2>7, EndSame DEF WrittenOf
  <2>8. CASE Remove(p)
    BY <2>8 DEF Remove, WrittenOf, TypeOK
  <2>9. CASE TruncBlock(p)
    BY <2>9 DEF TruncBlock, WrittenOf
  <2>10. CASE TruncEnd(p)
    BY <2>10, BackSame DEF TruncEnd, WrittenOf
  <2> QED BY <2>1, <2>2, <2>3, <2>4, <2>5, <2>6, <2>7, <2>8, <2>9, <2>10
<1>4. OtherBytes(p)
  <2>1. CASE WriteBlock(p)
    BY <2>1, BlockBytes
  <2>2. CASE ~WriteBlock(p)
    <3>1. cell' = cell
      BY <2>2, EndSame
      DEF Call, Read, Lseek, WriteFails, WriteBegin, Remove, TruncBlock, TruncEnd, store
    <3> QED BY <1>2, <3>1, QuietBytes
  <2> QED BY <2>1, <2>2
<1> QED BY <1>1, <1>2, <1>3, <1>4, WrittenStep

-----------------------------------------------------------------------------
(* The inductive invariant *)

LEMMA InitCalls == Init => CallInv /\ LockInv
  BY DEF Init, CallInv, CallOf, LockInv

LEMMA InitInv == Init => IInv
  BY InitType, InitCalls, InitMap, InitSize, InitOp, InitWritten DEF IInv

LEMMA NextType ==
  ASSUME TypeOK, CallInv, MapInv, NEW p \in Process,
         \/ Call(p) \/ Read(p) \/ Lseek(p)
         \/ WriteFails(p) \/ WriteBegin(p) \/ WriteBlock(p) \/ WriteEnd(p)
         \/ Remove(p) \/ TruncBlock(p) \/ TruncEnd(p)
  PROVE  TypeOK'
  BY CallType, ReadType, LseekType, FailsType, BeginType, BlockType, EndType,
     RemoveType, TruncBlockType, TruncEndType

LEMMA NextCalls ==
  ASSUME TypeOK, CallInv, LockInv, MapInv, NEW p \in Process,
         \/ Call(p) \/ Read(p) \/ Lseek(p)
         \/ WriteFails(p) \/ WriteBegin(p) \/ WriteBlock(p) \/ WriteEnd(p)
         \/ Remove(p) \/ TruncBlock(p) \/ TruncEnd(p)
  PROVE  CallInv' /\ LockInv'
  BY CallCalls, ReadCalls, LseekCalls, FailsCalls, BeginCalls, BlockCalls, EndCalls,
     RemoveCalls, TruncBlockCalls, TruncEndCalls

LEMMA NextMap ==
  ASSUME TypeOK, CallInv, LockInv, MapInv, NEW p \in Process,
         \/ Call(p) \/ Read(p) \/ Lseek(p)
         \/ WriteFails(p) \/ WriteBegin(p) \/ WriteBlock(p) \/ WriteEnd(p)
         \/ Remove(p) \/ TruncBlock(p) \/ TruncEnd(p)
  PROVE  MapInv'
  BY QuietMap, BlockMap, EndMap, RemoveMap, TruncBlockMap, TruncEndMap

LEMMA NextSize ==
  ASSUME TypeOK, CallInv, LockInv, MapInv, SizeInv, NEW p \in Process,
         \/ Call(p) \/ Read(p) \/ Lseek(p)
         \/ WriteFails(p) \/ WriteBegin(p) \/ WriteBlock(p) \/ WriteEnd(p)
         \/ Remove(p) \/ TruncBlock(p) \/ TruncEnd(p)
  PROVE  SizeInv'
  BY QuietSize, BeginSize, BlockSize, EndSize, RemoveSize, TruncBlockSize, TruncEndSize

LEMMA Stutter ==
  ASSUME IInv, UNCHANGED vars PROVE IInv'
<1>1. UNCHANGED <<used, cell, inode, dinode, lock, off, pc, fd, val, cnt, done, tot, op,
                  got, calls>>
  BY DEF vars, store, call
<1>2. TypeOK'
  BY <1>1 DEF IInv, TypeOK
<1>3. CallInv' /\ LockInv'
  BY <1>1 DEF IInv, CallInv, CallOf, WriteInv, TruncInv, On, chunk, LockInv
<1>4. MapInv'
  BY <1>1 DEF IInv, MapInv, LivePlaces, kept, Freed
<1>5. SizeInv'
  BY <1>1 DEF IInv, SizeInv, Reach
<1>6. OpInv'
  BY <1>1 DEF IInv, OpInv, Touched
<1>7. WrittenInv'
  BY <1>1 DEF IInv, WrittenInv, At, byte
<1> QED BY <1>2, <1>3, <1>4, <1>5, <1>6, <1>7 DEF IInv

\* Every step of the reads, writes, seeks and removals of processes keeps it.
THEOREM Invariance == Spec => []IInv
<1>1. Init => IInv
  BY InitInv
<1>2. IInv /\ [Next]_vars => IInv'
  <2> SUFFICES ASSUME IInv, [Next]_vars PROVE IInv'
    OBVIOUS
  <2>1. CASE Next
    <3>1. PICK p \in Process :
            \/ Call(p) \/ Read(p) \/ Lseek(p)
            \/ WriteFails(p) \/ WriteBegin(p) \/ WriteBlock(p) \/ WriteEnd(p)
            \/ Remove(p) \/ TruncBlock(p) \/ TruncEnd(p)
      BY <2>1 DEF Next
    <3>2. TypeOK /\ CallInv /\ LockInv /\ MapInv /\ SizeInv /\ OpInv /\ WrittenInv
      BY DEF IInv
    <3>3. TypeOK'
      BY <3>1, <3>2, NextType
    <3>4. CallInv' /\ LockInv'
      BY <3>1, <3>2, NextCalls
    <3>5. MapInv'
      BY <3>1, <3>2, NextMap
    <3>6. SizeInv'
      BY <3>1, <3>2, NextSize
    <3>7. OpInv'
      BY <3>1, <3>2, NextOp
    <3>8. WrittenInv'
      BY <3>1, <3>2, NextWritten
    <3> QED BY <3>3, <3>4, <3>5, <3>6, <3>7, <3>8 DEF IInv
  <2>2. CASE UNCHANGED vars
    BY <2>2, Stutter
  <2> QED BY <2>1, <2>2
<1> QED BY <1>1, <1>2, PTL DEF Spec

-----------------------------------------------------------------------------
(* What follows from it *)

\* Places that keep different blocks are as many as the blocks.
LEMMA AsMany ==
  ASSUME NEW S, NEW f, DOMAIN f = S, \A x, y \in S : f[x] = f[y] => x = y,
         NEW T, T = {f[x] : x \in S}, IsFiniteSet(T)
  PROVE  Cardinality(T) = Cardinality(S)
<1>1. PICK g : g = [x \in S |-> f[x]]
  OBVIOUS
<1>2. g \in [S -> T] /\ \A x \in S : g[x] = f[x]
  BY <1>1
<1>3. g \in Injection(S, T)
  BY <1>2 DEF Injection, IsInjective
<1>4. g \in Surjection(S, T)
  BY <1>2 DEF Surjection
<1> QED BY <1>3, <1>4, FS_Injection

\* The bitmap has the blocks of all files, no block is at two places, and
\* nothing leaks: whatever processes on different inodes allocate and free.
THEOREM Blocks == Spec => []BlocksExact
<1>1. IInv => BlocksExact
  <2> SUFFICES ASSUME IInv PROVE BlocksExact
    OBVIOUS
  <2>0. TypeOK /\ MapInv
    BY DEF IInv
  <2>1. \A l \in InPlace : l \in LivePlaces
    BY DEF InPlace, LivePlaces, Freed, Truncated
  <2>2. PICK B, S, f : /\ S = InPlace /\ B = {kept(l) : l \in S}
                       /\ f = [l \in S |-> kept(l)]
    OBVIOUS
  <2>3. B \subseteq used /\ used \subseteq Block
    BY <2>0, <2>1, <2>2 DEF MapInv, TypeOK
  <2>4. IsFiniteSet(B)
    <3>1. IsFiniteSet(Block)
      BY FS_Interval, Sizes DEF Block
    <3> QED BY <2>3, <3>1, FS_Subset
  <2>5. Cardinality(B) = Cardinality(S)
    <3>1. \A x, y \in S : f[x] = f[y] => x = y
      BY <2>0, <2>1, <2>2 DEF MapInv
    <3>2. DOMAIN f = S /\ B = {f[x] : x \in S}
      BY <2>2
    <3> QED BY <2>4, <3>1, <3>2, AsMany
  <2>6. ASSUME \A p \in Process : pc[p] = "user" PROVE used = B
    <3>1. LivePlaces = InPlace
      BY <2>1, <2>6 DEF InPlace, LivePlaces, Freed, Truncated
    <3> QED BY <2>0, <2>2, <3>1 DEF MapInv
  <2> QED BY <2>0, <2>2, <2>3, <2>5, <2>6 DEF BlocksExact
<1> QED BY <1>1, Invariance, PTL

\* An inode whose lock is free is the one on the disk, and has exactly the
\* blocks below its size, so that readi allocates nothing.
THEOREM InodesOnDisk == Spec => []InodeExact
<1>1. IInv => InodeExact
  <2> SUFFICES ASSUME IInv, NEW i \in Inode, lock[i] = None
               PROVE  /\ dinode[i] = inode[i]
                      /\ \A bn \in 0 .. MAXFILE - 1 :
                           (mapped(inode[i], cell, bn) # 0) <=> (bn * BSIZE < inode[i].size)
    BY DEF InodeExact
  <2>1. Reach(i) = inode[i].size
    BY DEF Reach
  <2>2. SizeInv
    BY DEF IInv
  <2> QED BY <2>1, <2>2 DEF SizeInv
<1> QED BY <1>1, Invariance, PTL

\* The blocks that a chunk can touch, counted.
LEMMA TouchedCount ==
  ASSUME TypeOK, NEW p \in Process, fd[p] \in File
  PROVE  IsFiniteSet(Touched(p)) /\ Cardinality(Touched(p)) <= NTouch + 1
<1>1. PICK a : a = off[fd[p]] \div BSIZE
  OBVIOUS
<1>2. a \in Nat
  <2>1. off[fd[p]] \in Nat
    BY Sizes DEF TypeOK
  <2> QED BY <1>1, <2>1, DivMod
<1>3. /\ IsFiniteSet(a .. a + NTouch) /\ Cardinality(a .. a + NTouch) = NTouch + 1
  <2>1. PICK m : m = a + NTouch
    OBVIOUS
  <2>2. a \in Int /\ m \in Int /\ ~(a > m) /\ m - a + 1 = NTouch + 1
    BY <1>2, <2>1, Sizes
  <2>3. IsFiniteSet(a .. m) /\ Cardinality(a .. m) = NTouch + 1
    BY <2>2, FS_Interval
  <2> QED BY <2>1, <2>3
<1>4. PICK K : K = {k \in 0 .. MAXFILE - 1 : k \in a .. a + NTouch}
  OBVIOUS
<1>5. IsFiniteSet(K) /\ Cardinality(K) <= NTouch + 1 /\ Cardinality(K) \in Nat
  <2>1. K \in SUBSET (a .. a + NTouch)
    BY <1>4
  <2> QED BY <1>3, <2>1, FS_Subset, FS_CardinalityType
<1>6. PICK f : f = [bn \in K |-> mapped(inode[ino(fd[p])], cell, bn)]
  OBVIOUS
<1>7. Touched(p) = {f[bn] : bn \in K}
  BY <1>1, <1>4, <1>6 DEF Touched
<1>8. f \in Surjection(K, Touched(p))
  BY <1>6, <1>7 DEF Surjection
<1>9. IsFiniteSet(Touched(p)) /\ Cardinality(Touched(p)) <= Cardinality(K)
  BY <1>5, <1>8, FS_Surjection
<1>10. Cardinality(Touched(p)) \in Nat
  BY <1>9, FS_CardinalityType
<1> QED BY <1>5, <1>9, <1>10, Sizes

\* An element more is at most one more.
LEMMA OneMore ==
  ASSUME NEW S, IsFiniteSet(S), NEW x, NEW n \in Nat, Cardinality(S) <= n
  PROVE  IsFiniteSet(S \cup {x}) /\ Cardinality(S \cup {x}) <= n + 1
<1>1. Cardinality(S) \in Nat
  BY FS_CardinalityType
<1> QED BY <1>1, FS_AddElement

\* A transaction of filewrite or of the last iput leaves two of the blocks that
\* begin_op reserved for it, wherever in a block the write starts.
THEOREM Transactions == Spec => []OpFits
<1>1. IInv => OpFits
  <2> SUFFICES ASSUME IInv, NEW p \in Process
               PROVE  Cardinality(op[p] \cup {IBLOCK}) + 2 <= MAXOPBLOCKS
    BY DEF OpFits
  <2>0. TypeOK /\ CallInv /\ OpInv
    BY DEF IInv
  <2>1. CASE pc[p] = "writei"
    <3>1. PICK x, T : x = inode[ino(fd[p])].addrs[NDIRECT] /\ T = Touched(p)
      OBVIOUS
    <3>2. fd[p] \in File
      BY <2>0, <2>1 DEF CallInv, CallOf
    <3>3. IsFiniteSet(T) /\ Cardinality(T) <= NTouch + 1
      BY <2>0, <3>1, <3>2, TouchedCount
    <3>4. IsFiniteSet(T \cup {x}) /\ Cardinality(T \cup {x}) <= NTouch + 2
      <4>1. NTouch + 1 \in Nat /\ NTouch + 1 + 1 = NTouch + 2
        BY Sizes
      <4> QED BY <3>3, <4>1, OneMore
    <3>5. PICK U : U = T \cup {x}
      OBVIOUS
    <3>6. IsFiniteSet(U \cup {BITMAP}) /\ Cardinality(U \cup {BITMAP}) <= NTouch + 3
      <4>1. NTouch + 2 \in Nat /\ NTouch + 2 + 1 = NTouch + 3
        BY Sizes
      <4> QED BY <3>4, <3>5, <4>1, OneMore
    <3>7. PICK V : V = U \cup {BITMAP}
      OBVIOUS
    <3>8. IsFiniteSet(V \cup {IBLOCK}) /\ Cardinality(V \cup {IBLOCK}) <= NTouch + 4
      <4>1. NTouch + 3 \in Nat /\ NTouch + 3 + 1 = NTouch + 4
        BY Sizes
      <4> QED BY <3>6, <3>7, <4>1, OneMore
    <3>9. op[p] \cup {IBLOCK} \in SUBSET (V \cup {IBLOCK})
      BY <2>0, <2>1, <3>1, <3>5, <3>7 DEF OpInv
    <3>10. /\ Cardinality(op[p] \cup {IBLOCK}) <= Cardinality(V \cup {IBLOCK})
           /\ IsFiniteSet(op[p] \cup {IBLOCK})
      BY <3>8, <3>9, FS_Subset
    <3>11. Cardinality(op[p] \cup {IBLOCK}) \in Nat /\ Cardinality(V \cup {IBLOCK}) \in Nat
      BY <3>8, <3>10, FS_CardinalityType
    <3> QED BY <3>8, <3>10, <3>11, Sizes
  <2>2. CASE pc[p] # "writei"
    <3>1. op[p] \cup {IBLOCK} \in SUBSET ({IBLOCK} \cup {BITMAP})
      BY <2>0, <2>2 DEF CallInv, CallOf, OpInv, TypeOK
    <3>2. IsFiniteSet({IBLOCK}) /\ Cardinality({IBLOCK}) = 1
      BY FS_Singleton
    <3>3. IsFiniteSet({IBLOCK} \cup {BITMAP}) /\ Cardinality({IBLOCK} \cup {BITMAP}) <= 2
      BY <3>2, FS_AddElement
    <3>4. /\ Cardinality(op[p] \cup {IBLOCK}) <= Cardinality({IBLOCK} \cup {BITMAP})
          /\ IsFiniteSet(op[p] \cup {IBLOCK})
      BY <3>1, <3>3, FS_Subset
    <3>5. /\ Cardinality(op[p] \cup {IBLOCK}) \in Nat
          /\ Cardinality({IBLOCK} \cup {BITMAP}) \in Nat
      BY <3>3, <3>4, FS_CardinalityType
    <3>6. MAXOPBLOCKS \in Nat /\ MAXOPBLOCKS >= 8
      BY FileDataAssumption
    <3> QED BY <3>3, <3>4, <3>5, <3>6
  <2> QED BY <2>1, <2>2
<1> QED BY <1>1, Invariance, PTL

-----------------------------------------------------------------------------
(* Files are sequences of bytes *)

\* The contents of the file i, by what the holder of its lock is doing.
Chars(i) == [k \in 1 .. inode[i].size |-> At(i, k - 1)]
Under(i, q) ==
  LET o == off[fd[q]]
      n == chunk(q)
      m == inode[i].size
  IN  [k \in 1 .. (IF m > o + n THEN m ELSE o + n) |->
         IF k \in o + 1 .. o + n THEN byte(q, done[q] + (k - o) - 1) ELSE At(i, k - 1)]
FileOf(i) ==
  IF lock[i] = None THEN Chars(i)
  ELSE IF pc[lock[i]] = "itrunc" THEN << >> ELSE Under(i, lock[i])

OffOf(f) ==
  LET q == lock[ino(f)]
  IN  IF q # None /\ pc[q] = "writei" /\ fd[q] = f THEN off[f] + chunk(q) ELSE off[f]

LEMMA LenOf ==
  ASSUME NEW n \in Nat, NEW s, DOMAIN s = 1 .. n, s = [k \in 1 .. n |-> s[k]]
  PROVE  Len(s) = n
<1>1. s \in [1 .. n -> {s[k] : k \in 1 .. n}]
  OBVIOUS
<1>2. s \in Seq({s[k] : k \in 1 .. n})
  BY <1>1, SeqDef
<1>3. Len(s) \in Nat /\ DOMAIN s = 1 .. Len(s)
  BY <1>2, LenProperties
<1> QED BY <1>3

LEMMA CharsIs ==
  ASSUME TypeOK, NEW i \in Inode
  PROVE  /\ bytes(i, 0, inode[i].size) = Chars(i) /\ inode[i].size \in Nat
         /\ Len(Chars(i)) = inode[i].size
<1>1. inode[i].size \in Nat
  <2>1. inode[i] \in Dinode
    BY DEF TypeOK
  <2> QED BY <2>1, Sizes DEF Dinode
<1>2. PICK n \in Nat : n = inode[i].size
  BY <1>1
<1>3. ASSUME NEW k \in 1 .. n PROVE bytes(i, 0, n)[k] = At(i, k - 1)
  <2>1. 0 + k - 1 = k - 1
    OBVIOUS
  <2> QED BY <2>1 DEF bytes, At
<1>4. bytes(i, 0, n) = [k \in 1 .. n |-> bytes(i, 0, n)[k]]
  BY DEF bytes
<1>5. bytes(i, 0, n) = Chars(i)
  BY <1>2, <1>3, <1>4 DEF Chars
<1>6. DOMAIN Chars(i) = 1 .. n /\ Chars(i) = [k \in 1 .. n |-> Chars(i)[k]]
  BY <1>2 DEF Chars
<1> QED BY <1>2, <1>5, <1>6, LenOf

\* The writer of i is the holder of its lock, and so is the one that truncates it.
LEMMA WriterIs ==
  ASSUME TypeOK, CallInv, LockInv, NEW i \in Inode
  PROVE  /\ i \in Truncated <=> lock[i] # None /\ pc[lock[i]] = "itrunc"
         /\ Writer(i) = IF lock[i] # None /\ pc[lock[i]] = "writei" THEN {lock[i]} ELSE {}
<1>1. \A q \in Process : pc[q] \in {"writei", "itrunc"} /\ ino(fd[q]) = i => lock[i] = q /\ q # None
  BY Holder
<1>2. lock[i] # None => lock[i] \in Process /\ ino(fd[lock[i]]) = i
  BY DEF LockInv, TypeOK
<1>3. i \in Truncated <=> lock[i] # None /\ pc[lock[i]] = "itrunc"
  BY <1>1, <1>2 DEF Truncated
<1>4. Writer(i) = IF lock[i] # None /\ pc[lock[i]] = "writei" THEN {lock[i]} ELSE {}
  BY <1>1, <1>2 DEF Writer
<1> QED BY <1>3, <1>4

LEMMA ContentIs ==
  ASSUME TypeOK, CallInv, LockInv
  PROVE  content = [i \in Inode |-> FileOf(i)]
<1>1. ASSUME NEW i \in Inode PROVE content[i] = FileOf(i)
  <2>0. bytes(i, 0, inode[i].size) = Chars(i) /\ Len(Chars(i)) = inode[i].size
        /\ inode[i].size \in Nat
    BY CharsIs
  <2>1. CASE lock[i] = None
    <3>1. i \notin Truncated /\ Writer(i) = {}
      BY <2>1, WriterIs
    <3> QED BY <2>0, <2>1, <3>1 DEF content, FileOf
  <2>2. CASE lock[i] # None /\ pc[lock[i]] = "itrunc"
    <3>1. i \in Truncated
      BY <2>2, WriterIs
    <3> QED BY <2>2, <3>1 DEF content, FileOf
  <2>3. CASE lock[i] # None /\ pc[lock[i]] # "itrunc"
    <3>1. pc[lock[i]] = "writei" /\ lock[i] \in Process /\ ino(fd[lock[i]]) = i
      BY <2>3 DEF LockInv, TypeOK
    <3>2. PICK q \in Process : q = lock[i]
      BY <3>1
    <3>3. i \notin Truncated /\ Writer(i) = {q}
      BY <2>3, <3>1, <3>2, WriterIs
    <3>4. (CHOOSE x \in Writer(i) : TRUE) = q
      BY <3>3
    <3>5. PICK o, n, m : o = off[fd[q]] /\ n = chunk(q) /\ m = inode[i].size
      OBVIOUS
    <3>6. o \in Nat /\ n \in Nat /\ m \in Nat
      <4>1. fd[q] \in File /\ WriteInv(q)
        BY <3>1, <3>2 DEF CallInv, CallOf
      <4>2. off[fd[q]] \in Nat /\ done[q] < cnt[q]
        BY <4>1, Sizes DEF TypeOK, WriteInv
      <4> QED BY <2>0, <3>5, <4>2, ChunkNat
    <3>6a. o <= m
      BY <3>1, <3>2, <3>5 DEF CallInv, CallOf, WriteInv
    <3>7. PICK bs : bs = [k \in 1 .. n |-> byte(q, done[q] + k - 1)]
      OBVIOUS
    <3>8. Len(bs) = n /\ \A k \in 1 .. n : bs[k] = byte(q, done[q] + k - 1)
      <4>1. DOMAIN bs = 1 .. n /\ bs = [k \in 1 .. n |-> bs[k]]
        BY <3>7
      <4> QED BY <3>6, <3>7, <4>1, LenOf
    <3>9. content[i] = Overlay(Chars(i), o, bs)
      BY <2>0, <3>3, <3>4, <3>5, <3>7 DEF content
    <3>10. Overlay(Chars(i), o, bs) =
             [k \in 1 .. (IF m > o + n THEN m ELSE o + n) |->
                IF k \in o + 1 .. o + n THEN bs[k - o] ELSE Chars(i)[k]]
      BY <2>0, <3>5, <3>8 DEF Overlay
    <3>11. ASSUME NEW k \in 1 .. (IF m > o + n THEN m ELSE o + n)
           PROVE  (IF k \in o + 1 .. o + n THEN bs[k - o] ELSE Chars(i)[k]) =
                  (IF k \in o + 1 .. o + n THEN byte(q, done[q] + (k - o) - 1) ELSE At(i, k - 1))
      <4>1. CASE k \in o + 1 .. o + n
        <5>1. k - o \in 1 .. n
          BY <3>6, <4>1
        <5> QED BY <3>8, <4>1, <5>1
      <4>2. CASE k \notin o + 1 .. o + n
        <5>1. k \in 1 .. m
          BY <3>6, <3>6a, <4>2
        <5>2. Chars(i)[k] = At(i, k - 1)
          BY <3>5, <5>1 DEF Chars
        <5> QED BY <4>2, <5>2
      <4> QED BY <4>1, <4>2
    <3>12. Under(i, q) = [k \in 1 .. (IF m > o + n THEN m ELSE o + n) |->
             IF k \in o + 1 .. o + n THEN byte(q, done[q] + (k - o) - 1) ELSE At(i, k - 1)]
      BY <3>5 DEF Under
    <3>13. content[i] = Under(i, q)
      BY <3>9, <3>10, <3>11, <3>12
    <3> QED BY <2>3, <3>2, <3>13 DEF FileOf
  <2> QED BY <2>1, <2>2, <2>3
<1>2. content = [i \in Inode |-> content[i]]
  BY DEF content
<1> QED BY <1>1, <1>2

LEMMA OffsetIs ==
  ASSUME TypeOK, CallInv, LockInv
  PROVE  offset = [f \in File |-> OffOf(f)]
<1>1. ASSUME NEW f \in File PROVE offset[f] = OffOf(f)
  <2>0. PICK i \in Inode : i = ino(f)
    BY FileDataAssumption
  <2>1. CASE lock[i] # None /\ pc[lock[i]] = "writei" /\ fd[lock[i]] = f
    <3>1. PICK q : q = lock[i]
      OBVIOUS
    <3>2. Writer(i) = {q} /\ fd[q] = f
      BY <2>1, <3>1, WriterIs
    <3>3. (CHOOSE x \in Writer(ino(f)) : fd[x] = f) = q
      BY <2>0, <3>2
    <3> QED BY <2>0, <2>1, <3>1, <3>2, <3>3 DEF offset, OffOf
  <2>2. CASE ~(lock[i] # None /\ pc[lock[i]] = "writei" /\ fd[lock[i]] = f)
    <3>1. ~ \E q \in Writer(ino(f)) : fd[q] = f
      BY <2>0, <2>2, WriterIs
    <3> QED BY <2>0, <2>2, <3>1 DEF offset, OffOf
  <2> QED BY <2>1, <2>2
<1>2. offset = [f \in File |-> offset[f]]
  BY DEF offset
<1> QED BY <1>1, <1>2

\* Both views, in the form of one state predicate that can be primed.
Views ==
  /\ content = [i \in Inode |-> FileOf(i)]
  /\ offset = [f \in File |-> OffOf(f)]

LEMMA ViewsHold == IInv => Views
  BY ContentIs, OffsetIs DEF IInv, Views

LEMMA ViewsNext == IInv' => Views'
  BY ViewsHold, PTL

\* A file whose lock p does not hold shows nothing of a step that leaves its
\* bytes alone.
LEMMA FileSame ==
  ASSUME TypeOK, CallInv, LockInv, NEW p \in Process, \A q \in Process \ {p} : Same(q),
         NEW j \in Inode, lock[j] # p, lock'[j] = lock[j], inode'[j].size = inode[j].size,
         lock[j] # None => \A f \in File : ino(f) = j => off'[f] = off[f],
         (lock[j] # None => pc[lock[j]] # "itrunc") =>
           \A n \in Nat : n < MAXFILE * BSIZE => At(j, n)' = At(j, n)
  PROVE  FileOf(j)' = FileOf(j)
<1>0. inode[j].size \in Nat /\ inode[j].size <= MAXFILE * BSIZE
  <2>1. inode[j] \in Dinode
    BY DEF TypeOK
  <2> QED BY <2>1, Sizes DEF Dinode
<1>1. CASE lock[j] = None
  <2>1. \A k \in 1 .. inode[j].size : At(j, k - 1)' = At(j, k - 1)
    <3> SUFFICES ASSUME NEW k \in 1 .. inode[j].size PROVE At(j, k - 1)' = At(j, k - 1)
      OBVIOUS
    <3>1. PICK n \in Nat : n = k - 1
      OBVIOUS
    <3>2. n < MAXFILE * BSIZE
      BY <1>0, <3>1, Sizes
    <3> QED BY <1>1, <3>1, <3>2
  <2>2. Chars(j)' = Chars(j)
    BY <2>1 DEF Chars
  <2> QED BY <1>1, <2>2 DEF FileOf
<1>2. CASE lock[j] # None
  <2>1. PICK q \in Process \ {p} : q = lock[j]
    BY <1>2 DEF TypeOK
  <2>2. pc[q] \in {"writei", "itrunc"} /\ ino(fd[q]) = j /\ q # None
    BY <1>2, <2>1 DEF LockInv
  <2>3. Same(q) /\ fd[q] \in File
    BY <2>2, Holder
  <2>4. /\ pc'[q] = pc[q] /\ fd'[q] = fd[q] /\ tot'[q] = tot[q] /\ off'[fd[q]] = off[fd[q]]
        /\ done'[q] = done[q] /\ cnt'[q] = cnt[q] /\ val'[q] = val[q]
    BY <1>2, <2>2, <2>3 DEF Same
  <2>5. CASE pc[q] = "itrunc"
    BY <1>2, <2>1, <2>4, <2>5 DEF FileOf
  <2>6. CASE pc[q] = "writei"
    <3>1. PICK o, n, m : o = off[fd[q]] /\ n = chunk(q) /\ m = inode[j].size
      OBVIOUS
    <3>2. chunk(q)' = n /\ off'[fd'[q]] = o /\ inode'[j].size = m
      BY <2>4, <3>1 DEF chunk
    <3>3. /\ o \in Nat /\ n \in Nat /\ m \in Nat /\ m <= MAXFILE * BSIZE
          /\ o + n <= MAXFILE * BSIZE
      <4>1. WriteInv(q)
        BY <2>6 DEF CallInv, CallOf
      <4>2. off[fd[q]] \in Nat /\ done[q] < cnt[q]
        BY <2>3, <4>1, Sizes DEF TypeOK, WriteInv
      <4>3. n \in Nat
        BY <3>1, <4>2, ChunkNat
      <4> QED BY <1>0, <3>1, <4>1, <4>2, <4>3 DEF WriteInv
    <3>4. ASSUME NEW k \in 1 .. (IF m > o + n THEN m ELSE o + n)
          PROVE  /\ At(j, k - 1)' = At(j, k - 1)
                 /\ byte(q, done[q] + (k - o) - 1)' = byte(q, done[q] + (k - o) - 1)
      <4>1. PICK c \in Nat : c = k - 1
        OBVIOUS
      <4>2. c < MAXFILE * BSIZE
        BY <3>3, <4>1, Sizes
      <4>3. At(j, k - 1)' = At(j, k - 1)
        BY <2>1, <2>6, <4>1, <4>2
      <4>4. byte(q, done[q] + (k - o) - 1)' = byte(q, done[q] + (k - o) - 1)
        BY <2>4 DEF byte
      <4> QED BY <4>3, <4>4
    <3>5. Under(j, q)' = Under(j, q)
      BY <2>4, <3>1, <3>2, <3>4 DEF Under
    <3> QED BY <1>2, <2>1, <2>4, <2>6, <3>5 DEF FileOf
  <2> QED BY <2>2, <2>5, <2>6
<1> QED BY <1>1, <1>2

LEMMA OffSame ==
  ASSUME TypeOK, CallInv, LockInv, NEW p \in Process, \A q \in Process \ {p} : Same(q),
         NEW f \in File, lock[ino(f)] # p, lock'[ino(f)] = lock[ino(f)], off'[f] = off[f]
  PROVE  OffOf(f)' = OffOf(f)
<1>1. CASE lock[ino(f)] = None
  BY <1>1 DEF OffOf
<1>2. CASE lock[ino(f)] # None
  <2>1. PICK q \in Process \ {p} : q = lock[ino(f)]
    BY <1>2, FileDataAssumption DEF TypeOK
  <2>2. pc'[q] = pc[q] /\ fd'[q] = fd[q] /\ chunk(q)' = chunk(q)
    BY DEF Same, chunk
  <2> QED BY <2>1, <2>2 DEF OffOf
<1> QED BY <1>1, <1>2

\* A stutter of ByteFile.
LEMMA NoShow ==
  ASSUME Views, Views', got' = got,
         \A i \in Inode : FileOf(i)' = FileOf(i), \A f \in File : OffOf(f)' = OffOf(f)
  PROVE  UNCHANGED Promise!vars
<1>1. content' = content
  BY DEF Views
<1>2. offset' = offset
  BY DEF Views
<1> QED BY <1>1, <1>2 DEF Promise!vars

\* Steps of processes that do not hold a lock and take none.
LEMMA QuietFiles ==
  ASSUME TypeOK, CallInv, LockInv, MapInv, NEW p \in Process,
         Call(p) \/ Read(p) \/ Lseek(p) \/ WriteFails(p)
  PROVE  \A i \in Inode : FileOf(i)' = FileOf(i)
<1>1. \A q \in Process \ {p} : Same(q)
  BY OthersSame
<1>2. /\ inode' = inode /\ cell' = cell /\ lock' = lock
      /\ pc[p] \notin {"writei", "itrunc"}
  BY DEF Call, Read, Lseek, WriteFails, store
<1>3. \A f \in File : lock[ino(f)] # None => off'[f] = off[f]
  <2>1. CASE Call(p) \/ WriteFails(p)
    BY <2>1 DEF Call, WriteFails, store
  <2>2. CASE Read(p)
    <3>1. lock[ino(fd[p])] = None
          /\ (off' = off \/ \E n : off' = [off EXCEPT ![fd[p]] = n])
      BY <2>2 DEF Read
    <3> QED BY <3>1 DEF TypeOK
  <2>3. CASE Lseek(p)
    <3>1. \E g \in File : lock[ino(g)] = None /\ \E n : off' = [off EXCEPT ![g] = n]
      BY <2>3 DEF Lseek
    <3> QED BY <3>1 DEF TypeOK
  <2> QED BY <2>1, <2>2, <2>3
<1> SUFFICES ASSUME NEW j \in Inode PROVE FileOf(j)' = FileOf(j)
  OBVIOUS
<1>4. lock[j] # p
  BY <1>2, FileDataAssumption DEF LockInv
<1>5. \A n : At(j, n)' = At(j, n)
  BY <1>2, AtQuiet
<1> QED BY <1>1, <1>2, <1>3, <1>4, <1>5, FileSame

LEMMA NotHolder ==
  ASSUME LockInv, NEW p \in Process, pc[p] \notin {"writei", "itrunc"}
  PROVE  \A j \in Inode : lock[j] # p
  BY FileDataAssumption DEF LockInv

\* Call and WriteFails, and a read at the end of the file, do not show.
LEMMA CallShows ==
  ASSUME IInv, IInv', NEW p \in Process, Call(p) \/ WriteFails(p)
  PROVE  UNCHANGED Promise!vars
<1>0. TypeOK /\ CallInv /\ LockInv /\ MapInv
  BY DEF IInv
<1>1. \A i \in Inode : FileOf(i)' = FileOf(i)
  BY <1>0, QuietFiles
<1>2. \A q \in Process \ {p} : Same(q)
  BY <1>0, OthersSame
<1>3. off' = off /\ lock' = lock /\ got' = got /\ pc[p] \notin {"writei", "itrunc"}
  BY DEF Call, WriteFails, store
<1>4. ASSUME NEW f \in File PROVE OffOf(f)' = OffOf(f)
  <2>1. lock[ino(f)] # p
    BY <1>0, <1>3, NotHolder, FileDataAssumption
  <2> QED BY <1>0, <1>2, <1>3, <2>1, OffSame
<1> QED BY <1>1, <1>3, <1>4, ViewsHold, ViewsNext, NoShow

\* fileread gives the bytes at the offset.
LEMMA ReadGets ==
  ASSUME TypeOK, NEW i \in Inode, NEW o \in Nat, NEW n \in Nat, n > 0,
         o + n <= inode[i].size
  PROVE  bytes(i, o, n) = SubSeq(Chars(i), o + 1, o + n)
<1>1. inode[i].size \in Nat
  BY CharsIs
<1>2. ASSUME NEW k \in o + 1 .. o + n PROVE Chars(i)[k] = At(i, k - 1)
  BY <1>1 DEF Chars
<1>3. PICK S : S = {At(i, k - 1) : k \in o + 1 .. o + n}
  OBVIOUS
<1>4. PICK a, m, s : a = o + 1 /\ m = o + n /\ s = Chars(i)
  OBVIOUS
<1>5. a \in Int /\ m \in Int /\ \A k \in a .. m : s[k] \in S
  BY <1>2, <1>3, <1>4
<1>6. /\ SubSeq(s, a, m) \in Seq(S)
      /\ Len(SubSeq(s, a, m)) = IF a <= m THEN m - a + 1 ELSE 0
      /\ \A k \in 1 .. m - a + 1 : SubSeq(s, a, m)[k] = s[a + k - 1]
  BY <1>5, SubSeqProperties
<1>7. Len(SubSeq(s, a, m)) = n /\ m - a + 1 = n
  BY <1>4, <1>6
<1>8. DOMAIN SubSeq(s, a, m) = 1 .. n
  BY <1>6, <1>7, LenProperties
<1>9. ASSUME NEW k \in 1 .. n PROVE SubSeq(s, a, m)[k] = bytes(i, o, n)[k]
  <2>1. SubSeq(s, a, m)[k] = s[a + k - 1]
    BY <1>6, <1>7
  <2>2. a + k - 1 \in o + 1 .. o + n /\ a + k - 1 - 1 = o + k - 1
    BY <1>4
  <2>3. SubSeq(s, a, m)[k] = At(i, o + k - 1)
    BY <1>2, <1>4, <2>1, <2>2
  <2>4. bytes(i, o, n)[k] = At(i, o + k - 1)
    BY DEF bytes, At
  <2> QED BY <2>3, <2>4
<1>10. bytes(i, o, n) = [k \in 1 .. n |-> bytes(i, o, n)[k]]
  BY DEF bytes
<1>11. SubSeq(s, a, m) = [k \in 1 .. n |-> SubSeq(s, a, m)[k]]
  BY <1>6, <1>8
<1> QED BY <1>4, <1>9, <1>10, <1>11

LEMMA ReadShows ==
  ASSUME IInv, IInv', NEW p \in Process, Read(p)
  PROVE  [Promise!Next]_(Promise!vars)
<1>0. TypeOK /\ CallInv /\ LockInv /\ MapInv /\ Views /\ Views'
  BY ViewsHold, ViewsNext DEF IInv
<1>1. \A i \in Inode : FileOf(i)' = FileOf(i)
  BY <1>0, QuietFiles
<1>2. \A q \in Process \ {p} : Same(q)
  BY <1>0, OthersSame
<1>3. PICK n, i, o, f : /\ f = fd[p] /\ i = ino(f) /\ o = off[f]
                        /\ n = readi(i, o, cnt[p])
  OBVIOUS
<1>4. pc[p] = "read" /\ lock[i] = None /\ lock' = lock
  BY <1>3 DEF Read
<1>5. /\ f \in File /\ i \in Inode /\ n \in Nat /\ o \in Nat /\ inode[i].size \in Nat
      /\ n > 0 => o + n <= inode[i].size
  BY <1>0, <1>3, <1>4, ReadFacts
<1>6. ASSUME NEW g \in File, off'[g] = off[g] PROVE OffOf(g)' = OffOf(g)
  <2>1. lock[ino(g)] # p
    BY <1>0, <1>4, NotHolder, FileDataAssumption
  <2> QED BY <1>0, <1>2, <1>4, <1>6, <2>1, OffSame
<1>7. CASE n = 0
  <2>1. off' = off /\ got' = got
    BY <1>3, <1>7 DEF Read
  <2> QED BY <1>0, <1>1, <1>6, <2>1, NoShow
<1>8. CASE n > 0
  <2>1. got' = [got EXCEPT ![p] = bytes(i, o, n)] /\ off' = [off EXCEPT ![f] = o + n]
    BY <1>3, <1>8 DEF Read
  <2>2. off'[f] = o + n /\ \A g \in File : g # f => off'[g] = off[g]
    BY <1>0, <1>5, <2>1 DEF TypeOK
  <2>3. OffOf(f) = o /\ OffOf(f)' = o + n
    BY <1>3, <1>4, <2>2 DEF OffOf
  <2>4. offset' = [offset EXCEPT ![f] = o + n] /\ offset[f] = o
    <3>1. offset = [g \in File |-> OffOf(g)] /\ offset' = [g \in File |-> OffOf(g)']
      BY <1>0 DEF Views
    <3>2. \A g \in File : g # f => OffOf(g)' = OffOf(g)
      BY <1>6, <2>2
    <3> QED BY <1>5, <2>3, <3>1, <3>2
  <2>5. content' = content /\ content[i] = Chars(i)
    <3>1. content = [j \in Inode |-> FileOf(j)] /\ content' = [j \in Inode |-> FileOf(j)']
      BY <1>0 DEF Views
    <3>2. FileOf(i) = Chars(i)
      BY <1>4 DEF FileOf
    <3> QED BY <1>1, <1>5, <3>1, <3>2
  <2>6. Len(content[i]) = inode[i].size
    BY <1>0, <1>5, <2>5, CharsIs
  <2>7. got' = [got EXCEPT ![p] = SubSeq(content[i], o + 1, o + n)]
    BY <1>0, <1>5, <1>8, <2>1, <2>5, ReadGets
  <2>8. n \in 1 .. Len(content[i]) - o /\ o <= Len(content[i])
    BY <1>5, <1>8, <2>6
  <2>9. Promise!Read(p, f)
    BY <1>3, <2>4, <2>5, <2>7, <2>8 DEF Promise!Read
  <2> QED BY <1>5, <2>9 DEF Promise!Next
<1> QED BY <1>5, <1>7, <1>8

LEMMA LseekShows ==
  ASSUME IInv, IInv', NEW p \in Process, Lseek(p)
  PROVE  [Promise!Next]_(Promise!vars)
<1>0. TypeOK /\ CallInv /\ LockInv /\ MapInv /\ Views /\ Views' /\ TypeOK'
  BY ViewsHold, ViewsNext DEF IInv
<1>1. \A i \in Inode : FileOf(i)' = FileOf(i)
  BY <1>0, QuietFiles
<1>2. \A q \in Process \ {p} : Same(q)
  BY <1>0, OthersSame
<1>3. PICK f \in File : lock[ino(f)] = None /\ \E o : off' = [off EXCEPT ![f] = o]
  BY DEF Lseek
<1>4. PICK o : off' = [off EXCEPT ![f] = o]
  BY <1>3
<1>5. off'[f] = o /\ \A g \in File : g # f => off'[g] = off[g]
  BY <1>0, <1>4 DEF TypeOK
<1>6. o \in 0 .. MaxOff
  BY <1>0, <1>5 DEF TypeOK
<1>7. lock' = lock /\ got' = got /\ pc[p] = "user"
  BY DEF Lseek
<1>8. ASSUME NEW g \in File, g # f PROVE OffOf(g)' = OffOf(g)
  <2>1. lock[ino(g)] # p
    BY <1>0, <1>7, NotHolder, FileDataAssumption
  <2> QED BY <1>0, <1>2, <1>5, <1>7, <1>8, <2>1, OffSame
<1>9. OffOf(f)' = o
  BY <1>3, <1>5, <1>7 DEF OffOf
<1>10. offset' = [offset EXCEPT ![f] = o] /\ content' = content
  <2>1. /\ offset = [g \in File |-> OffOf(g)] /\ offset' = [g \in File |-> OffOf(g)']
        /\ content = [j \in Inode |-> FileOf(j)] /\ content' = [j \in Inode |-> FileOf(j)']
    BY <1>0 DEF Views
  <2>2. offset' = [offset EXCEPT ![f] = o]
    BY <1>8, <1>9, <2>1
  <2> QED BY <1>1, <2>1, <2>2
<1>11. Promise!Seek(f)
  BY <1>6, <1>7, <1>10 DEF Promise!Seek
<1> QED BY <1>11 DEF Promise!Next

\* What a step of p on the inode i leaves alone of the others, if they are not
\* being truncated.
LEMMA OthersShow ==
  ASSUME TypeOK, CallInv, LockInv, NEW p \in Process, \A q \in Process \ {p} : Same(q),
         NEW i \in Inode, \A j \in Inode : lock[j] = p => j = i,
         \A j \in Inode \ {i} : lock'[j] = lock[j] /\ inode'[j] = inode[j],
         \A f \in File : ino(f) # i => off'[f] = off[f],
         \A j \in Inode \ {i} : (lock[j] # None => pc[lock[j]] # "itrunc") =>
            \A n \in Nat : n < MAXFILE * BSIZE => At(j, n)' = At(j, n)
  PROVE  /\ \A j \in Inode \ {i} : FileOf(j)' = FileOf(j)
         /\ \A f \in File : ino(f) # i => OffOf(f)' = OffOf(f)
<1>1. ASSUME NEW j \in Inode, j # i PROVE FileOf(j)' = FileOf(j)
  BY <1>1, FileSame
<1>2. ASSUME NEW f \in File, ino(f) # i PROVE OffOf(f)' = OffOf(f)
  <2>1. ino(f) \in Inode
    BY FileDataAssumption
  <2> QED BY <1>2, <2>1, OffSame
<1> QED BY <1>1, <1>2

\* The same where no contents change.
LEMMA OthersQuiet ==
  ASSUME TypeOK, CallInv, LockInv, NEW p \in Process, \A q \in Process \ {p} : Same(q),
         NEW i \in Inode, \A j \in Inode : lock[j] = p => j = i, cell' = cell,
         \A j \in Inode \ {i} : lock'[j] = lock[j] /\ inode'[j] = inode[j],
         \A f \in File : ino(f) # i => off'[f] = off[f]
  PROVE  /\ \A j \in Inode \ {i} : FileOf(j)' = FileOf(j)
         /\ \A f \in File : ino(f) # i => OffOf(f)' = OffOf(f)
<1>1. \A j \in Inode \ {i} : \A n : At(j, n)' = At(j, n)
  BY AtQuiet
<1> QED BY <1>1, OthersShow

\* A chunk counts as written when the tests of writei have passed.
LEMMA BeginShows ==
  ASSUME IInv, IInv', NEW p \in Process, WriteBegin(p)
  PROVE  [Promise!Next]_(Promise!vars)
<1>0. TypeOK /\ CallInv /\ LockInv /\ MapInv /\ Views /\ Views' /\ TypeOK' /\ CallInv'
  BY ViewsHold, ViewsNext DEF IInv
<1>1. \A q \in Process \ {p} : Same(q)
  BY <1>0, OthersSame
<1>2. PICK f, i, o, n : f = fd[p] /\ i = ino(f) /\ o = off[f] /\ n = chunk(p)
  OBVIOUS
<1>3. /\ pc[p] = "write" /\ lock[i] = None
      /\ lock' = [lock EXCEPT ![i] = p] /\ pc' = [pc EXCEPT ![p] = "writei"]
      /\ UNCHANGED <<inode, cell, off, fd, val, cnt, done, tot, op, got>>
  BY <1>2 DEF WriteBegin, call
<1>4. /\ f \in File /\ i \in Inode /\ done[p] < cnt[p]
  BY <1>0, <1>2, <1>3, FileDataAssumption DEF CallInv, CallOf
<1>5. /\ lock'[i] = p /\ pc'[p] = "writei" /\ p # None
      /\ \A j \in Inode \ {i} : lock'[j] = lock[j]
  BY <1>0, <1>3, <1>4, FileDataAssumption DEF TypeOK
<1>6. PICK m : m = inode[i].size
  OBVIOUS
<1>7. /\ o \in Nat /\ n \in Nat /\ n >= 1 /\ m \in Nat /\ o <= m /\ o + n <= MAXFILE * BSIZE
      /\ done[p] \in Nat /\ val[p] \in Nat
  <2>1. WriteInv(p)'
    BY <1>0, <1>5 DEF CallInv, CallOf
  <2>2. o <= m /\ o + chunk(p)' <= MAXFILE * BSIZE
    BY <1>2, <1>3, <1>6, <2>1 DEF WriteInv
  <2>3. chunk(p)' = n
    BY <1>2, <1>3 DEF chunk
  <2>4. o \in Nat /\ m \in Nat /\ done[p] \in Nat /\ val[p] \in Nat
    <3>1. inode[i].size \in Nat
      BY <1>0, <1>4, CharsIs
    <3> QED BY <1>0, <1>2, <1>4, <1>6, <3>1, Sizes DEF TypeOK
  <2>5. n \in Nat /\ n >= 1
    BY <1>0, <1>2, <1>4, ChunkNat
  <2> QED BY <2>2, <2>3, <2>4, <2>5
<1>8. PICK bs : bs = [k \in 1 .. n |-> byte(p, done[p] + k - 1)]
  OBVIOUS
<1>9. Len(bs) = n /\ bs \in [1 .. n -> 1 .. NByte]
  <2>1. DOMAIN bs = 1 .. n /\ bs = [k \in 1 .. n |-> bs[k]]
    BY <1>8
  <2>2. Len(bs) = n
    BY <1>7, <2>1, LenOf
  <2>3. ASSUME NEW k \in 1 .. n PROVE byte(p, done[p] + k - 1) \in 1 .. NByte
    <3>1. PICK x \in Nat : x = val[p] + (done[p] + k - 1)
      BY <1>7
    <3>2. NByte \in Nat /\ NByte > 0
      BY FileDataAssumption
    <3>3. x % NByte \in 0 .. NByte - 1
      BY <3>2
    <3> QED BY <3>1, <3>2, <3>3 DEF byte
  <2> QED BY <1>8, <2>2, <2>3
<1>10. \A j \in Inode : lock[j] # p
  BY <1>0, <1>3, NotHolder
<1>11. /\ \A j \in Inode \ {i} : FileOf(j)' = FileOf(j)
       /\ \A g \in File : ino(g) # i => OffOf(g)' = OffOf(g)
  BY <1>0, <1>1, <1>3, <1>4, <1>5, <1>10, OthersQuiet
<1>12. FileOf(i) = Chars(i) /\ Len(Chars(i)) = m
  BY <1>0, <1>3, <1>4, <1>6, CharsIs DEF FileOf
<1>13. PICK L : L = IF m > o + n THEN m ELSE o + n
  OBVIOUS
<1>14. Promise!Overlay(Chars(i), o, bs) =
         [k \in 1 .. L |-> IF k \in o + 1 .. o + n THEN bs[k - o] ELSE Chars(i)[k]]
  BY <1>9, <1>12, <1>13 DEF Promise!Overlay, Promise!Longer
<1>15. FileOf(i)' = Under(i, p)'
  BY <1>5 DEF FileOf
<1>16. Under(i, p)' = [k \in 1 .. L |->
          IF k \in o + 1 .. o + n THEN byte(p, done[p] + (k - o) - 1) ELSE At(i, k - 1)]
  <2>1. /\ chunk(p)' = n /\ off'[fd'[p]] = o /\ inode'[i].size = m
    BY <1>2, <1>3, <1>6 DEF chunk
  <2>2. \A k : /\ At(i, k - 1)' = At(i, k - 1)
               /\ byte(p, done[p] + (k - o) - 1)' = byte(p, done[p] + (k - o) - 1)
    BY <1>3 DEF At, byte
  <2> QED BY <1>13, <2>1, <2>2 DEF Under
<1>17. Under(i, p)' = Promise!Overlay(Chars(i), o, bs)
  <2>1. ASSUME NEW k \in 1 .. L
        PROVE  (IF k \in o + 1 .. o + n THEN bs[k - o] ELSE Chars(i)[k]) =
               (IF k \in o + 1 .. o + n THEN byte(p, done[p] + (k - o) - 1) ELSE At(i, k - 1))
    <3>1. CASE k \in o + 1 .. o + n
      <4>1. k - o \in 1 .. n
        BY <1>7, <3>1
      <4> QED BY <1>8, <3>1, <4>1
    <3>2. CASE k \notin o + 1 .. o + n
      <4>1. k \in 1 .. m
        BY <1>7, <1>13, <3>2
      <4>2. Chars(i)[k] = At(i, k - 1)
        BY <1>6, <4>1 DEF Chars
      <4> QED BY <3>2, <4>2
    <3> QED BY <3>1, <3>2
  <2> QED BY <1>14, <1>16, <2>1
<1>18. content' = [content EXCEPT ![i] = Promise!Overlay(Chars(i), o, bs)]
       /\ content[i] = Chars(i)
  <2>1. content = [j \in Inode |-> FileOf(j)] /\ content' = [j \in Inode |-> FileOf(j)']
    BY <1>0 DEF Views
  <2> QED BY <1>4, <1>11, <1>12, <1>15, <1>17, <2>1
<1>19. OffOf(f) = o /\ OffOf(f)' = o + n
  <2>1. chunk(p)' = n
    BY <1>2, <1>3 DEF chunk
  <2> QED BY <1>2, <1>3, <1>5, <2>1 DEF OffOf
<1>20. ASSUME NEW g \in File, g # f, ino(g) = i PROVE OffOf(g)' = OffOf(g)
  BY <1>2, <1>3, <1>5, <1>20 DEF OffOf
<1>21. offset' = [offset EXCEPT ![f] = o + n] /\ offset[f] = o
  <2>1. offset = [g \in File |-> OffOf(g)] /\ offset' = [g \in File |-> OffOf(g)']
    BY <1>0 DEF Views
  <2> QED BY <1>4, <1>11, <1>19, <1>20, <2>1
<1>22. Promise!Write(f)
  <2>0. PICK z \in Nat : z = MAXFILE * BSIZE
    BY Sizes
  <2>1. o <= Len(content[i]) /\ n \in 1 .. MAXFILE * BSIZE - o
    <3>1. o + n <= z
      BY <1>7, <2>0
    <3>2. n \in 1 .. z - o
      BY <1>7, <3>1
    <3> QED BY <1>7, <1>12, <1>18, <2>0, <3>2
  <2>2. got' = got
    BY <1>3
  <2> QED BY <1>2, <1>9, <1>18, <1>21, <2>1, <2>2 DEF Promise!Write
<1> QED BY <1>4, <1>22 DEF Promise!Next

\* The turns of writei's loop do not show: they write what counts already.
LEMMA BlockShows ==
  ASSUME IInv, IInv', NEW p \in Process, WriteBlock(p)
  PROVE  UNCHANGED Promise!vars
<1>0. TypeOK /\ CallInv /\ LockInv /\ MapInv /\ Views /\ Views'
  BY ViewsHold, ViewsNext DEF IInv
<1>1. \A q \in Process \ {p} : Same(q)
  BY <1>0, OthersSame
<1>2. pc[p] = "writei" /\ tot[p] < chunk(p)
  BY WriteBlockWrote
<1>3. PICK f, i, o, n : f = fd[p] /\ i = Target(p) /\ o = off[f] /\ n = chunk(p)
  OBVIOUS
<1>4. PICK m, t, d : m = inode[i].size /\ t = turn(p, Point(p)) /\ d = tot[p]
  OBVIOUS
<1>5. /\ UNCHANGED <<dinode, lock, off, pc, fd, val, cnt, done, got, calls>>
      /\ inode'[i].size = m
  BY <1>0, <1>3, <1>4, TurnReach
<1>6. /\ f \in File /\ i \in Inode /\ lock[i] = p /\ p # None /\ ino(f) = i
  BY <1>0, <1>2, <1>3, Holder DEF Target
<1>7. /\ o \in Nat /\ n \in Nat /\ m \in Nat /\ m <= MAXFILE * BSIZE /\ o + n <= MAXFILE * BSIZE
      /\ t \in 1 .. BSIZE /\ d \in Nat /\ d + t <= n /\ Point(p) = o + d
  <2>1. WriteInv(p)
    BY <1>0, <1>2 DEF CallInv, CallOf
  <2>2. /\ o \in Nat /\ n \in Nat /\ t \in 1 .. BSIZE /\ d \in Nat /\ d + t <= n
        /\ Point(p) = o + d
    BY <1>0, <1>2, <1>3, <1>4, WriterFacts DEF Point
  <2>3. m \in Nat /\ m <= MAXFILE * BSIZE
    <3>1. inode[i] \in Dinode
      BY <1>0, <1>6 DEF TypeOK
    <3> QED BY <1>4, <3>1, Sizes DEF Dinode
  <2> QED BY <1>3, <1>4, <2>1, <2>2, <2>3 DEF WriteInv, Target
<1>8. ASSUME NEW k \in 1 .. (IF m > o + n THEN m ELSE o + n), k \notin o + 1 .. o + n
      PROVE  At(i, k - 1)' = At(i, k - 1)
  <2>1. PICK c \in Nat : c = k - 1
    OBVIOUS
  <2>2. c < MAXFILE * BSIZE
    BY <1>7, <2>1, Sizes
  <2>3. c \notin o + d .. o + d + t - 1
    BY <1>7, <1>8, <2>1, Sizes
  <2>4. At(i, c)' = At(i, c)
    <3>1. At(i, c)' = IF c \in Point(p) .. Point(p) + turn(p, Point(p)) - 1
                      THEN byte(p, done[p] + (c - off[fd[p]])) ELSE At(i, c)
      BY <1>0, <1>3, <2>2, TurnAtOwn
    <3> QED BY <1>4, <1>7, <2>3, <3>1
  <2> QED BY <2>1, <2>4
<1>9. Under(i, p)' = Under(i, p)
  <2>1. /\ chunk(p)' = n /\ off'[fd'[p]] = o
    BY <1>3, <1>5 DEF chunk
  <2>2. \A k : byte(p, done[p] + (k - o) - 1)' = byte(p, done[p] + (k - o) - 1)
    <3>1. val'[p] = val[p] /\ done'[p] = done[p]
      BY <1>5
    <3> QED BY <3>1 DEF byte
  <2> QED BY <1>3, <1>4, <1>5, <1>8, <2>1, <2>2 DEF Under
<1>10. FileOf(i)' = FileOf(i)
  BY <1>2, <1>5, <1>6, <1>9 DEF FileOf
<1>11. PICK e, b, N : TurnMap(p, e, b, N) /\ TurnData(p, e, b)
  BY <1>0, TurnFacts
<1>12. \A j \in Inode \ {i} : inode'[j] = inode[j]
  BY <1>0, <1>3, <1>11, TurnInode
<1>13. \A j \in Inode \ {i} : (lock[j] # None => pc[lock[j]] # "itrunc") =>
         \A c \in Nat : c < MAXFILE * BSIZE => At(j, c)' = At(j, c)
  BY <1>0, <1>3, TurnAtOther
<1>14. \A j \in Inode : lock[j] = p => j = i
  BY <1>0, <1>3, OneLock DEF Target
<1>15. /\ \A j \in Inode \ {i} : FileOf(j)' = FileOf(j)
       /\ \A g \in File : ino(g) # i => OffOf(g)' = OffOf(g)
  BY <1>0, <1>1, <1>5, <1>6, <1>12, <1>13, <1>14, OthersShow
<1>16. ASSUME NEW g \in File, ino(g) = i PROVE OffOf(g)' = OffOf(g)
  <2>1. chunk(p)' = chunk(p)
    BY <1>5 DEF chunk
  <2> QED BY <1>5, <1>6, <1>16, <2>1 DEF OffOf
<1>17. got' = got
  BY <1>5
<1> QED BY <1>0, <1>10, <1>15, <1>16, <1>17, NoShow

\* When the chunk is written, the file is what counted from WriteBegin on.
LEMMA EndShows ==
  ASSUME IInv, IInv', NEW p \in Process, WriteEnd(p)
  PROVE  UNCHANGED Promise!vars
<1>0. TypeOK /\ CallInv /\ LockInv /\ MapInv /\ WrittenInv /\ Views /\ Views'
  BY ViewsHold, ViewsNext DEF IInv
<1>1. \A q \in Process \ {p} : Same(q)
  BY <1>0, OthersSame
<1>2. PICK f, i, o, n : f = fd[p] /\ i = ino(f) /\ o = off[f] /\ n = chunk(p)
  OBVIOUS
<1>3. PICK m, z : m = inode[i].size /\ z = o + n
  OBVIOUS
<1>4. /\ pc[p] = "writei" /\ tot[p] = n /\ f \in File /\ i \in Inode
      /\ inode[i] \in Dinode /\ o \in Nat /\ n \in Nat /\ z \in 0 .. MAXFILE * BSIZE
      /\ m \in 0 .. MAXFILE * BSIZE /\ done[p] \in Nat /\ o <= m
  <2>1. /\ pc[p] = "writei" /\ tot[p] = chunk(p) /\ fd[p] \in File
        /\ ino(fd[p]) \in Inode /\ inode[ino(fd[p])] \in Dinode
        /\ WriteInv(p) /\ off[fd[p]] \in Nat /\ tot[p] \in Nat
        /\ off[fd[p]] + tot[p] \in 0 .. MAXFILE * BSIZE
        /\ inode[ino(fd[p])].size \in 0 .. MAXFILE * BSIZE
        /\ done[p] \in Nat
    BY <1>0, EndFacts
  <2>2. off[fd[p]] <= inode[ino(fd[p])].size
    BY <2>1 DEF WriteInv
  <2> QED BY <1>2, <1>3, <2>1, <2>2
<1>5. /\ lock[i] = p /\ p # None
  BY <1>0, <1>2, <1>4, Holder
<1>6. /\ cell' = cell /\ lock' = [lock EXCEPT ![i] = None] /\ off' = [off EXCEPT ![f] = z]
      /\ z > m => inode' = [inode EXCEPT ![i] = Sized(inode[i], z)]
      /\ ~(z > m) => inode' = inode
      /\ got' = got
  <2>1. z = off[f] + tot[p]
    BY <1>2, <1>3, <1>4
  <2> QED BY <1>0, <1>2, <1>3, <2>1, EndStore
<1>7. /\ lock'[i] = None /\ off'[f] = z /\ \A g \in File : g # f => off'[g] = off[g]
      /\ \A j \in Inode \ {i} : lock'[j] = lock[j] /\ inode'[j] = inode[j]
  BY <1>0, <1>4, <1>6 DEF TypeOK
<1>8. PICK L : L = IF m > z THEN m ELSE z
  OBVIOUS
<1>9. inode'[i].size = L
  <2>1. CASE z > m
    <3>1. inode'[i] = Sized(inode[i], z)
      BY <1>0, <1>4, <1>6, <2>1 DEF TypeOK
    <3> QED BY <1>4, <1>8, <2>1, <3>1, SizedType
  <2>2. CASE ~(z > m)
    BY <1>3, <1>4, <1>6, <1>8, <2>2
  <2> QED BY <2>1, <2>2
<1>10. \A k : At(i, k)' = At(i, k)
  <2>1. inode'[i].addrs = inode[i].addrs
    BY <1>0, <1>4, EndSame
  <2> QED BY <1>4, <1>6, <2>1, AtQuiet
<1>11. ASSUME NEW k \in o + 1 .. o + n
       PROVE  At(i, k - 1) = byte(p, done[p] + (k - o) - 1)
  <2>1. PICK c \in 0 .. n - 1 : c = k - 1 - o
    BY <1>4
  <2>2. At(i, o + c) = byte(p, done[p] + c)
    BY <1>0, <1>2, <1>4, <2>1 DEF WrittenInv
  <2>3. o + c = k - 1 /\ done[p] + c = done[p] + (k - o) - 1
    BY <1>4, <2>1
  <2> QED BY <2>2, <2>3
<1>12. Chars(i)' = Under(i, p)
  <2>1. Chars(i)' = [k \in 1 .. L |-> At(i, k - 1)]
    BY <1>9, <1>10 DEF Chars
  <2>2. Under(i, p) = [k \in 1 .. L |->
          IF k \in o + 1 .. o + n THEN byte(p, done[p] + (k - o) - 1) ELSE At(i, k - 1)]
    BY <1>2, <1>3, <1>8 DEF Under
  <2> QED BY <1>11, <2>1, <2>2
<1>13. FileOf(i)' = FileOf(i)
  BY <1>4, <1>5, <1>7, <1>12 DEF FileOf
<1>14. \A j \in Inode : lock[j] = p => j = i
  BY <1>0, <1>2, OneLock
<1>15. /\ \A j \in Inode \ {i} : FileOf(j)' = FileOf(j)
       /\ \A g \in File : ino(g) # i => OffOf(g)' = OffOf(g)
  <2>1. \A g \in File : ino(g) # i => off'[g] = off[g]
    BY <1>2, <1>7
  <2> QED BY <1>0, <1>1, <1>4, <1>6, <1>7, <1>14, <2>1, OthersQuiet
<1>16. ASSUME NEW g \in File, ino(g) = i PROVE OffOf(g)' = OffOf(g)
  <2>1. OffOf(g)' = off'[g]
    BY <1>7, <1>16 DEF OffOf
  <2>2. CASE g = f
    BY <1>2, <1>3, <1>4, <1>5, <1>7, <2>1, <2>2 DEF OffOf
  <2>3. CASE g # f
    BY <1>2, <1>5, <1>7, <1>16, <2>1, <2>3 DEF OffOf
  <2> QED BY <2>2, <2>3
<1> QED BY <1>0, <1>6, <1>13, <1>15, <1>16, NoShow

\* The last iput empties the file at once.
LEMMA RemoveShows ==
  ASSUME IInv, IInv', NEW p \in Process, Remove(p)
  PROVE  [Promise!Next]_(Promise!vars)
<1>0. TypeOK /\ CallInv /\ LockInv /\ MapInv /\ Views /\ Views'
  BY ViewsHold, ViewsNext DEF IInv
<1>1. \A q \in Process \ {p} : Same(q)
  BY <1>0, OthersSame
<1>2. PICK f \in File :
        /\ \A q \in Process : pc[q] = "user" \/ ino(fd[q]) # ino(f)
        /\ lock' = [lock EXCEPT ![ino(f)] = p]
        /\ off' = [g \in File |-> IF ino(g) = ino(f) THEN 0 ELSE off[g]]
  BY DEF Remove
<1>3. PICK i \in Inode : i = ino(f)
  BY FileDataAssumption
<1>4. /\ pc[p] = "user" /\ pc'[p] = "itrunc" /\ inode' = inode /\ cell' = cell /\ got' = got
  BY <1>0 DEF Remove, TypeOK
<1>5. /\ lock'[i] = p /\ p # None /\ \A j \in Inode \ {i} : lock'[j] = lock[j]
      /\ \A g \in File : off'[g] = IF ino(g) = i THEN 0 ELSE off[g]
  BY <1>0, <1>2, <1>3, FileDataAssumption DEF TypeOK
<1>6. \A j \in Inode : lock[j] # p
  BY <1>0, <1>4, NotHolder
<1>7. /\ \A j \in Inode \ {i} : FileOf(j)' = FileOf(j)
      /\ \A g \in File : ino(g) # i => OffOf(g)' = OffOf(g)
  BY <1>0, <1>1, <1>4, <1>5, <1>6, OthersQuiet
<1>8. FileOf(i)' = << >>
  BY <1>4, <1>5 DEF FileOf
<1>9. ASSUME NEW g \in File, ino(g) = i PROVE OffOf(g)' = 0
  BY <1>4, <1>5, <1>9 DEF OffOf
<1>10. content' = [content EXCEPT ![i] = << >>]
  <2>1. content = [j \in Inode |-> FileOf(j)] /\ content' = [j \in Inode |-> FileOf(j)']
    BY <1>0 DEF Views
  <2> QED BY <1>7, <1>8, <2>1
<1>11. offset' = [g \in File |-> IF ino(g) = i THEN 0 ELSE offset[g]]
  <2>1. offset = [g \in File |-> OffOf(g)] /\ offset' = [g \in File |-> OffOf(g)']
    BY <1>0 DEF Views
  <2> QED BY <1>7, <1>9, <2>1
<1>12. Promise!Remove(i)
  BY <1>4, <1>10, <1>11 DEF Promise!Remove
<1> QED BY <1>12 DEF Promise!Next

\* itrunc does not show: the file was empty from Remove on.
LEMMA TruncShows ==
  ASSUME IInv, IInv', NEW p \in Process, TruncBlock(p) \/ TruncEnd(p)
  PROVE  UNCHANGED Promise!vars
<1>0. TypeOK /\ CallInv /\ LockInv /\ MapInv /\ Views /\ Views' /\ TypeOK'
  BY ViewsHold, ViewsNext DEF IInv
<1>1. \A q \in Process \ {p} : Same(q)
  BY <1>0, OthersSame
<1>2. PICK i : i = ino(fd[p])
  OBVIOUS
<1>3. pc[p] = "itrunc" /\ cell' = cell /\ off' = off /\ got' = got
  BY DEF TruncBlock, TruncEnd
<1>4. i \in Inode /\ lock[i] = p /\ p # None
  BY <1>0, <1>2, <1>3, Holder
<1>5. \A j \in Inode \ {i} : lock'[j] = lock[j] /\ inode'[j] = inode[j]
  BY <1>0, <1>2, <1>4 DEF TruncBlock, TruncEnd, TypeOK
<1>6. \A j \in Inode : lock[j] = p => j = i
  BY <1>0, <1>2, OneLock
<1>7. /\ \A j \in Inode \ {i} : FileOf(j)' = FileOf(j)
      /\ \A g \in File : ino(g) # i => OffOf(g)' = OffOf(g)
  BY <1>0, <1>1, <1>3, <1>4, <1>5, <1>6, OthersQuiet
<1>8. FileOf(i) = << >>
  BY <1>3, <1>4 DEF FileOf
<1>9. (lock'[i] = p /\ pc'[p] = "itrunc") \/ (lock'[i] = None /\ inode'[i].size = 0)
  <2>1. CASE TruncBlock(p)
    <3>1. lock' = lock /\ pc' = pc
      BY <2>1 DEF TruncBlock
    <3> QED BY <1>3, <1>4, <3>1
  <2>2. CASE TruncEnd(p)
    BY <1>0, <1>2, <1>4, <2>2 DEF TruncEnd, TypeOK
  <2> QED BY <2>1, <2>2
<1>10. FileOf(i)' = << >>
  <2>1. CASE lock'[i] = p /\ pc'[p] = "itrunc"
    BY <1>4, <2>1 DEF FileOf
  <2>2. CASE lock'[i] = None /\ inode'[i].size = 0
    <3>1. FileOf(i)' = Chars(i)'
      BY <2>2 DEF FileOf
    <3>2. Chars(i)' = [k \in 1 .. 0 |-> At(i, k - 1)']
      BY <2>2 DEF Chars
    <3>3. [k \in 1 .. 0 |-> At(i, k - 1)'] = << >>
      BY EmptySeq
    <3> QED BY <3>1, <3>2, <3>3
  <2> QED BY <1>9, <2>1, <2>2
<1>11. ASSUME NEW g \in File, ino(g) = i PROVE OffOf(g)' = OffOf(g)
  <2>1. OffOf(g) = off[g]
    BY <1>3, <1>4, <1>11 DEF OffOf
  <2>2. OffOf(g)' = off'[g]
    BY <1>4, <1>9, <1>11 DEF OffOf
  <2> QED BY <1>3, <2>1, <2>2
<1> QED BY <1>0, <1>3, <1>7, <1>8, <1>10, <1>11, NoShow

LEMMA InitShows == Init => Promise!Init
<1> SUFFICES ASSUME Init PROVE Promise!Init
  OBVIOUS
<1>0. IInv /\ Views
  BY InitInv, ViewsHold
<1>1. /\ lock = [i \in Inode |-> None] /\ off = [f \in File |-> 0]
      /\ inode = [i \in Inode |-> Empty] /\ got = [p \in Process |-> << >>]
  BY DEF Init
<1>2. ASSUME NEW i \in Inode PROVE FileOf(i) = << >>
  <2>1. lock[i] = None /\ inode[i].size = 0
    BY <1>1 DEF Empty
  <2>2. FileOf(i) = [k \in 1 .. 0 |-> At(i, k - 1)]
    BY <2>1 DEF FileOf, Chars
  <2>3. [k \in 1 .. 0 |-> At(i, k - 1)] = << >>
    BY EmptySeq
  <2> QED BY <2>2, <2>3
<1>3. ASSUME NEW f \in File PROVE OffOf(f) = 0
  BY <1>1, FileDataAssumption DEF OffOf
<1>4. content = [i \in Inode |-> << >>] /\ offset = [f \in File |-> 0]
  BY <1>0, <1>2, <1>3 DEF Views
<1> QED BY <1>1, <1>4 DEF Promise!Init

LEMMA StutterShows ==
  ASSUME UNCHANGED vars PROVE UNCHANGED Promise!vars
<1>1. UNCHANGED <<used, cell, inode, dinode, lock, off, pc, fd, val, cnt, done, tot, op, got, calls>>
  BY DEF vars, store, call
<1>2. content' = content
  BY <1>1 DEF content, Truncated, bytes, mapped, Writer, Overlay, chunk, byte
<1>3. offset' = offset
  BY <1>1 DEF offset, Writer, chunk
<1> QED BY <1>1, <1>2, <1>3 DEF Promise!vars

\* Programs see the files of ByteFile: fileread, filewrite, sys_lseek and the
\* last iput do to the bytes and the offset what ByteFile says, each in one step,
\* for every interleaving with bmap, balloc, bfree and writei of other processes.
THEOREM FilesAreBytes == Spec => IsByteFile
<1>1. Init => Promise!Init
  BY InitShows
<1>2. IInv /\ IInv' /\ [Next]_vars => [Promise!Next]_(Promise!vars)
  <2> SUFFICES ASSUME IInv, IInv', [Next]_vars PROVE [Promise!Next]_(Promise!vars)
    OBVIOUS
  <2>1. CASE UNCHANGED vars
    BY <2>1, StutterShows
  <2>2. CASE Next
    <3>1. PICK p \in Process :
            \/ Call(p) \/ Read(p) \/ Lseek(p)
            \/ WriteFails(p) \/ WriteBegin(p) \/ WriteBlock(p) \/ WriteEnd(p)
            \/ Remove(p) \/ TruncBlock(p) \/ TruncEnd(p)
      BY <2>2 DEF Next
    <3>2. CASE Call(p) \/ WriteFails(p)
      BY <3>2, CallShows
    <3>3. CASE Read(p)
      BY <3>3, ReadShows
    <3>4. CASE Lseek(p)
      BY <3>4, LseekShows
    <3>5. CASE WriteBegin(p)
      BY <3>5, BeginShows
    <3>6. CASE WriteBlock(p)
      BY <3>6, BlockShows
    <3>7. CASE WriteEnd(p)
      BY <3>7, EndShows
    <3>8. CASE Remove(p)
      BY <3>8, RemoveShows
    <3>9. CASE TruncBlock(p) \/ TruncEnd(p)
      BY <3>9, TruncShows
    <3> QED BY <3>1, <3>2, <3>3, <3>4, <3>5, <3>6, <3>7, <3>8, <3>9
  <2> QED BY <2>1, <2>2
<1> QED BY <1>1, <1>2, Invariance, PTL DEF Spec, IsByteFile, Promise!Spec
=============================================================================
