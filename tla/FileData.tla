------------------------------ MODULE FileData ------------------------------
(***************************************************************************)
(* The data of files: blocks and their bitmap, block maps, and reading and *)
(* writing at an offset (srcs/fs.c, srcs/file.c, srcs/sys_lseek.c).        *)
(*                                                                         *)
(* A process holds the lock of the inode through readi, a chunk of a write *)
(* or itrunc.  Processes on different inodes share the bitmap, which they  *)
(* use one block at a time.  A block is BSIZE cells; a cell is a byte of   *)
(* data or, in an indirect block, a block number, and nothing tells them   *)
(* apart.                                                                  *)
(***************************************************************************)
EXTENDS Integers, Sequences, FiniteSetsExt

CONSTANTS Process,
          Inode,
          File,            \* open files; ino(f) is the inode of f
          ino(_),
          NBlock,          \* data blocks of the disk
          BSIZE, NDIRECT,
          MAXOPBLOCKS,
          NByte,           \* bytes of data are 1 .. NByte
          Counts,          \* bound: the sizes that read and write are called with
          Offsets,         \* bound: the offsets that lseek is called with
          MaxCalls,        \* bound: calls of all processes
          None

NINDIRECT == BSIZE
MAXFILE   == NDIRECT + NINDIRECT

ASSUME FileDataAssumption ==
  /\ NBlock \in Nat \ {0} /\ BSIZE \in Nat \ {0} /\ NDIRECT \in Nat \ {0}
  /\ MAXOPBLOCKS \in Nat /\ MAXOPBLOCKS >= 8
  /\ NByte \in Nat \ {0} /\ Counts \subseteq Nat \ {0} /\ Offsets \subseteq Int
  /\ MaxCalls \in Nat
  /\ \A f \in File : ino(f) \in Inode
  /\ None \notin Process

Block == 1 .. NBlock
Least(m, n) == IF m < n THEN m ELSE n
MaxOff == MAXFILE * BSIZE + 1      \* bound: lseek goes no further

\* Slip: filewrite does not split what it is given.
max_all == MAXFILE * BSIZE

\* Bytes of one transaction of filewrite.
max == ((MAXOPBLOCKS - 1 - 1 - 2) \div 2) * BSIZE

VARIABLES
  used,        \* the bitmap
  cell,        \* what the blocks hold
  inode,       \* the inodes in memory: [size, addrs]
  dinode,      \* the inodes on the disk
  lock,        \* the sleep locks of the inodes
  off,         \* the offsets of the open files
  \* each process: the call, its file, the byte it writes first, its size, how
  \* much is done of it and of the chunk, the blocks of the transaction, what it read
  pc, fd, val, cnt, done, tot, op, got,
  calls

store == <<used, cell, inode, dinode, lock, off>>
call  == <<fd, val, cnt>>
vars == <<store, pc, call, done, tot, op, got, calls>>

Empty == [size |-> 0, addrs |-> [k \in 0 .. NDIRECT |-> 0]]
Zero  == [k \in 0 .. BSIZE - 1 |-> 0]

Init ==
  /\ used = {}
  /\ cell = [b \in Block |-> Zero]
  /\ inode = [i \in Inode |-> Empty] /\ dinode = inode
  /\ lock = [i \in Inode |-> None]
  /\ off = [f \in File |-> 0]
  /\ pc = [p \in Process |-> "user"] /\ fd = [p \in Process |-> None]
  /\ val = [p \in Process |-> 0] /\ cnt = [p \in Process |-> 0]
  /\ done = [p \in Process |-> 0] /\ tot = [p \in Process |-> 0]
  /\ op = [p \in Process |-> {}] /\ got = [p \in Process |-> << >>]
  /\ calls = 0

-----------------------------------------------------------------------------
(* Blocks and block maps *)

\* Block number bn of the inode e, or 0, in blocks with the contents c.
mapped(e, c, bn) ==
  IF bn < NDIRECT THEN e.addrs[bn]
  ELSE IF e.addrs[NDIRECT] = 0 THEN 0
  ELSE c[e.addrs[NDIRECT]][bn - NDIRECT]

\* Slip: the block is not cleared.
bzero_not(c, b) == c

bzero(c, b) == [c EXCEPT ![b] = Zero]

\* The bitmap after bfree(b); 0 is no block.
bfree(u, b) == u \ {b}

\* The bitmap and the inode among the blocks of a transaction.
BITMAP == 0
IBLOCK == -1

\* balloc takes the first free block: the state [u, c, l] of the bitmap, the
\* contents and the blocks logged, after it.
balloc(st) == Min(Block \ st.u)
balloced(st) ==
  [u |-> st.u \cup {balloc(st)}, c |-> bzero(st.c, balloc(st)),
   l |-> st.l \cup {BITMAP, balloc(st)}]

\* bmap(e, bn) where the block is not mapped yet: <<e, st>> after it.
mapping(e, bn, st) ==
  LET direct  == bn < NDIRECT
      fresh   == ~direct /\ e.addrs[NDIRECT] = 0
      ind     == IF fresh THEN balloc(st) ELSE e.addrs[NDIRECT]
      st1     == IF fresh THEN balloced(st) ELSE st
      b       == balloc(st1)
      st2     == balloced(st1)
  IN  IF direct THEN <<[e EXCEPT !.addrs[bn] = b], st2>>
      ELSE <<[e EXCEPT !.addrs[NDIRECT] = ind],
             [u |-> st2.u, c |-> [st2.c EXCEPT ![ind][bn - NDIRECT] = b],
              l |-> st2.l \cup {ind}]>>

\* The block for bn and the state after bmap.
bmap(e, bn, st) ==
  IF mapped(e, st.c, bn) # 0 THEN <<e, st>> ELSE mapping(e, bn, st)

\* balloc has what it needs ("balloc: out of blocks" stops the machine).
enough(e, bn) ==
  mapped(e, cell, bn) = 0 =>
    Cardinality(used) + (IF bn >= NDIRECT /\ e.addrs[NDIRECT] = 0 THEN 2 ELSE 1)
      <= NBlock

-----------------------------------------------------------------------------
(* Calls *)

\* Process p returns.
Back(p) ==
  /\ pc' = [pc EXCEPT ![p] = "user"] /\ fd' = [fd EXCEPT ![p] = None]
  /\ val' = [val EXCEPT ![p] = 0] /\ cnt' = [cnt EXCEPT ![p] = 0]
  /\ done' = [done EXCEPT ![p] = 0] /\ tot' = [tot EXCEPT ![p] = 0]
  /\ op' = [op EXCEPT ![p] = {}]

\* No process is removing the file of f.
IsOpen(f) == \A p \in Process : pc[p] = "itrunc" => ino(fd[p]) # ino(f)

\* sys_read and sys_write.
Call(p) ==
  /\ pc[p] = "user" /\ calls < MaxCalls
  /\ \E c \in {"read", "write"}, f \in File, n \in Counts :
       /\ IsOpen(f)
       /\ pc' = [pc EXCEPT ![p] = c]
       /\ fd' = [fd EXCEPT ![p] = f]
       /\ cnt' = [cnt EXCEPT ![p] = n]
  /\ val' = [val EXCEPT ![p] = calls]
  /\ calls' = calls + 1
  /\ UNCHANGED <<store, done, tot, op, got>>

\* The bytes at o .. o + n - 1 of the inode i.
bytes(i, o, n) ==
  [k \in 1 .. n |->
     LET q == o + k - 1
         b == mapped(inode[i], cell, q \div BSIZE)
     IN  IF b \in Block THEN cell[b][q % BSIZE] ELSE 0]

\* How much readi gives of n bytes at offset o: nothing past the end.
readi(i, o, n) ==
  IF o > inode[i].size THEN 0 ELSE Least(n, inode[i].size - o)

\* fileread, with the lock.
Read(p) ==
  LET f == fd[p]  i == ino(f)  n == readi(i, off[f], cnt[p]) IN
  /\ pc[p] = "read" /\ lock[i] = None
  /\ \/ /\ n > 0
        /\ got' = [got EXCEPT ![p] = bytes(i, off[f], n)]
        /\ off' = [off EXCEPT ![f] = @ + n]
     \/ n = 0 /\ UNCHANGED <<off, got>>
  /\ Back(p)
  /\ UNCHANGED <<used, cell, inode, dinode, lock, calls>>

\* Bytes of the chunk that filewrite is at.
chunk(p) == Least(cnt[p] - done[p], max)

\* Byte k (from 0) of what process p writes.
byte(p, k) == 1 + ((val[p] + k) % NByte)

\* writei refuses the chunk.
refused(p) ==
  \/ off[fd[p]] > inode[ino(fd[p])].size
  \/ off[fd[p]] + chunk(p) > MAXFILE * BSIZE

\* begin_op, ilock and the tests of writei: the chunk is refused and the call
\* fails, or its loop is entered.
WriteFails(p) ==
  /\ pc[p] = "write" /\ lock[ino(fd[p])] = None /\ refused(p)
  /\ Back(p)
  /\ UNCHANGED <<store, got, calls>>

WriteBegin(p) ==
  /\ pc[p] = "write" /\ lock[ino(fd[p])] = None /\ ~refused(p)
  /\ lock' = [lock EXCEPT ![ino(fd[p])] = p]
  /\ pc' = [pc EXCEPT ![p] = "writei"]
  /\ UNCHANGED <<used, cell, inode, dinode, off, call, done, tot, op, got, calls>>

\* Bytes of one turn of writei's loop, at offset o.
\* Slip: as if o were the first byte of a block.
turn_aligned(p, o) == Least(chunk(p) - tot[p], BSIZE)

turn(p, o) == Least(chunk(p) - tot[p], BSIZE - (o % BSIZE))

WriteBlock(p) ==
  LET f == fd[p]  i == ino(f)  o == off[f] + tot[p]
      bn == o \div BSIZE
      at == o % BSIZE
      r == bmap(inode[i], bn, [u |-> used, c |-> cell, l |-> op[p]])
      e == r[1]  st == r[2]
      b == mapped(e, st.c, bn)
  IN
  /\ pc[p] = "writei" /\ tot[p] < chunk(p) /\ enough(inode[i], bn)
  /\ inode' = [inode EXCEPT ![i] = e]
  /\ used' = st.u
  /\ cell' = [st.c EXCEPT ![b] =
       [k \in 0 .. BSIZE - 1 |->
          IF k \in at .. at + turn(p, o) - 1
          THEN byte(p, done[p] + tot[p] + k - at) ELSE @[k]]]
  /\ op' = [op EXCEPT ![p] = st.l \cup {b}]
  /\ tot' = [tot EXCEPT ![p] = @ + turn(p, o)]
  /\ UNCHANGED <<dinode, lock, off, pc, call, done, got, calls>>

\* Slip: iupdate is for a write that starts past the end only.
grows_late(p) == off[fd[p]] > inode[ino(fd[p])].size

grows(p) == off[fd[p]] + tot[p] > inode[ino(fd[p])].size

\* The new size, iupdate, the offset, iunlock and end_op; the next chunk.
WriteEnd(p) ==
  LET f == fd[p]  i == ino(f)
      e == [inode[i] EXCEPT !.size = off[f] + tot[p]]
  IN
  /\ pc[p] = "writei" /\ tot[p] = chunk(p)
  /\ inode' = IF grows(p) THEN [inode EXCEPT ![i] = e] ELSE inode
  /\ dinode' = IF grows(p) THEN [dinode EXCEPT ![i] = e] ELSE dinode
  /\ off' = [off EXCEPT ![f] = @ + tot[p]]
  /\ lock' = [lock EXCEPT ![i] = None]
  /\ IF done[p] + tot[p] < cnt[p]
     THEN /\ pc' = [pc EXCEPT ![p] = "write"]
          /\ done' = [done EXCEPT ![p] = @ + tot[p]]
          /\ tot' = [tot EXCEPT ![p] = 0]
          /\ op' = [op EXCEPT ![p] = {}]
          /\ UNCHANGED call
     ELSE Back(p)
  /\ UNCHANGED <<used, cell, got, calls>>

\* sys_lseek.  An offset below 0 is refused, one past the end is not.
sought(f, o, whence) ==
  CASE whence = "SEEK_SET" -> o
    [] whence = "SEEK_CUR" -> off[f] + o
    [] whence = "SEEK_END" -> inode[ino(f)].size + o

\* lseek accepts the offset.
valid_offset(o) == o >= 0

Lseek(p) ==
  /\ pc[p] = "user" /\ calls < MaxCalls
  /\ \E f \in File, o \in Offsets,
        whence \in {"SEEK_SET", "SEEK_CUR", "SEEK_END"} :
       /\ IsOpen(f) /\ lock[ino(f)] = None
       /\ valid_offset(sought(f, o, whence)) /\ sought(f, o, whence) <= MaxOff
       /\ off' = [off EXCEPT ![f] = sought(f, o, whence)]
  /\ calls' = calls + 1
  /\ UNCHANGED <<used, cell, inode, dinode, lock, pc, call, done, tot, op, got>>

\* The last iput of a file without names, and the tail of it: the inode is
\* that of a new file, opened again.
Remove(p) ==
  /\ pc[p] = "user" /\ calls < MaxCalls
  /\ \E f \in File :
       /\ \A q \in Process : pc[q] = "user" \/ ino(fd[q]) # ino(f)
       /\ fd' = [fd EXCEPT ![p] = f]
       /\ lock' = [lock EXCEPT ![ino(f)] = p]
       /\ off' = [g \in File |-> IF ino(g) = ino(f) THEN 0 ELSE off[g]]
  /\ pc' = [pc EXCEPT ![p] = "itrunc"]
  /\ calls' = calls + 1
  /\ UNCHANGED <<used, cell, inode, dinode, val, cnt, done, tot, op, got>>

\* The blocks that itrunc goes through.
trunc_count == MAXFILE

\* itrunc frees block number tot[p], if there is one ...
TruncBlock(p) ==
  LET i == ino(fd[p])
      b == mapped(inode[i], cell, tot[p])
  IN
  /\ pc[p] = "itrunc" /\ tot[p] < trunc_count
  /\ used' = bfree(used, b)
  /\ inode' = IF tot[p] < NDIRECT
              THEN [inode EXCEPT ![i].addrs[tot[p]] = 0] ELSE inode
  /\ op' = [op EXCEPT ![p] = IF b # 0 THEN @ \cup {BITMAP} ELSE @]
  /\ tot' = [tot EXCEPT ![p] = @ + 1]
  /\ UNCHANGED <<cell, dinode, lock, off, pc, call, done, got, calls>>

\* ... and at last the indirect block; iupdate.
TruncEnd(p) ==
  LET i == ino(fd[p]) IN
  /\ pc[p] = "itrunc" /\ tot[p] = trunc_count
  /\ used' = bfree(used, inode[i].addrs[NDIRECT])
  /\ inode' = [inode EXCEPT ![i] =
       [size |-> 0, addrs |-> [@.addrs EXCEPT ![NDIRECT] = 0]]]
  /\ dinode' = [dinode EXCEPT ![i] = inode'[i]]
  /\ lock' = [lock EXCEPT ![i] = None]
  /\ Back(p)
  /\ UNCHANGED <<cell, off, got, calls>>

-----------------------------------------------------------------------------
Next ==
  \E p \in Process :
    \/ Call(p) \/ Read(p) \/ Lseek(p)
    \/ WriteFails(p) \/ WriteBegin(p) \/ WriteBlock(p) \/ WriteEnd(p)
    \/ Remove(p) \/ TruncBlock(p) \/ TruncEnd(p)

Spec == Init /\ [][Next]_vars

-----------------------------------------------------------------------------
(* Properties *)

Addr == Block \cup {0}

Dinode == [size : 0 .. MAXFILE * BSIZE, addrs : [0 .. NDIRECT -> Addr]]

TypeOK ==
  /\ used \subseteq Block /\ cell \in [Block -> [0 .. BSIZE - 1 -> Nat]]
  /\ inode \in [Inode -> Dinode] /\ dinode \in [Inode -> Dinode]
  /\ \A i \in Inode : inode[i].addrs[NDIRECT] # 0 =>
       \A j \in 0 .. NINDIRECT - 1 : cell[inode[i].addrs[NDIRECT]][j] \in Addr
  /\ lock \in [Inode -> Process \cup {None}]
  /\ off \in [File -> 0 .. MaxOff]
  /\ pc \in [Process -> {"user", "read", "write", "writei", "itrunc"}]
  /\ fd \in [Process -> File \cup {None}]
  /\ {val, cnt, done, tot} \subseteq [Process -> Nat]
  /\ op \in [Process -> SUBSET (Addr \cup {IBLOCK})]
  /\ got \in [Process -> Seq(Nat)]
  /\ calls \in Nat

\* Where block numbers are kept, and the one kept there.
Places == Inode \X (0 .. MAXFILE)
kept(l) == IF l[2] = MAXFILE THEN inode[l[1]].addrs[NDIRECT]
           ELSE mapped(inode[l[1]], cell, l[2])
Truncated == {ino(fd[p]) : p \in {q \in Process : pc[q] = "itrunc"}}
InPlace == {l \in Places : l[1] \notin Truncated /\ kept(l) # 0}

\* No block is in two files, twice in one, or data and indirect block at once,
\* and every one is taken in the bitmap, whatever processes on other inodes
\* allocate and free meanwhile.  (A block that is not cleared by balloc, or
\* freed too early, breaks it much later.)  Nothing leaks: when no call is in
\* progress, the bitmap has exactly the blocks of the files.
BlocksExact ==
  LET blocks == {kept(l) : l \in InPlace} IN
  /\ TypeOK
  /\ blocks \subseteq used /\ Cardinality(blocks) = Cardinality(InPlace)
  /\ (\A p \in Process : pc[p] = "user") => used = blocks

\* Whenever its lock is free, the inode on the disk is the one in memory, block
\* numbers included, so that it may be dropped from the cache and read again;
\* and its blocks are the ones below its size: readi, which is not in a
\* transaction, never makes bmap allocate.
InodeExact ==
  \A i \in Inode : lock[i] = None =>
    /\ dinode[i] = inode[i]
    /\ \A bn \in 0 .. MAXFILE - 1 :
         (mapped(inode[i], cell, bn) # 0) <=> (bn * BSIZE < inode[i].size)

\* A transaction of filewrite, or of the last iput, writes two blocks fewer than
\* begin_op reserves for it, wherever in a block the write starts: with them no
\* log_write panics, although the log on the disk is a block short (see Log).
OpFits == \A p \in Process : Cardinality(op[p] \cup {IBLOCK}) + 2 <= MAXOPBLOCKS

\* The writer of i, once the tests of writei have passed.
Writer(i) == {p \in Process : pc[p] = "writei" /\ ino(fd[p]) = i}
Overlay(c, o, bs) ==
  [k \in 1 .. (IF Len(c) > o + Len(bs) THEN Len(c) ELSE o + Len(bs)) |->
     IF k \in o + 1 .. o + Len(bs) THEN bs[k - o] ELSE c[k]]

\* A chunk counts as written from the moment it cannot fail any more.
content ==
  [i \in Inode |->
     IF i \in Truncated THEN << >>
     ELSE LET now == bytes(i, 0, inode[i].size) IN
          IF Writer(i) = {} THEN now
          ELSE LET p == CHOOSE q \in Writer(i) : TRUE IN
               Overlay(now, off[fd[p]],
                       [k \in 1 .. chunk(p) |-> byte(p, done[p] + k - 1)])]
offset ==
  [f \in File |->
     IF \E p \in Writer(ino(f)) : fd[p] = f
     THEN off[f] + chunk(CHOOSE p \in Writer(ino(f)) : fd[p] = f) ELSE off[f]]

Promise == INSTANCE ByteFile
  WITH content <- content, off <- offset, got <- got, Byte <- 1 .. NByte,
       MaxLen <- MAXFILE * BSIZE, MaxOff <- MaxOff

\* Open files are sequences of bytes with offsets: block maps, the allocation
\* of blocks, the splitting of writes into transactions and what other
\* processes do to the same file or the same offset do not show through.
IsByteFile == Promise!Spec
=============================================================================
