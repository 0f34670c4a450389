------------------------------ MODULE LogProofs ------------------------------
(***************************************************************************)
(* Proofs about Log, for every number of processes, blocks and values,     *)
(* every LOGSIZE, MAXOPBLOCKS and OpBlocks, and any number of crashes.     *)
(***************************************************************************)
EXTENDS Log, FiniteSetTheorems, SequenceTheorems, TLAPS

\* The operations in progress.
Inside == {o \in Op : op[o] \in {"in", "panic"}}

(***************************************************************************)
(* The inductive invariant.                                                *)
(***************************************************************************)

\* log.outstanding counts the operations in progress, committing is set while
\* the last of them commits, and no operation is in progress during a commit
\* or a recovery.
CtlInv ==
  /\ outstanding = Cardinality(Inside)
  /\ committing <=> phase \in {"wlog", "install", "done"}
  /\ Inside # {} => phase = "up"

\* Whether the header on the disk names a transaction, and which.
HeadInv ==
  /\ IsInjective(head)
  /\ phase \in {"up", "wlog", "done"} => head = << >>
  /\ phase \in {"done", "down"} => lh = << >>
  /\ phase \in {"install", "rinstall"} => head = lh
  /\ tail <= Len(lh)

\* A buffer differs from the disk only while it is B_DIRTY, and the blocks that
\* are B_DIRTY are those of log.lh that have not been installed.
BufInv ==
  /\ \A b \in cached \ dirty : cache[b] = home[b]
  /\ \A b \in dirty : \E k \in 1 .. Len(lh) :
       lh[k] = b /\ (phase = "install" => k > tail)
  /\ phase \in {"down", "rinstall"} => dirty = {}

\* How far write_log and install_trans have come.
CopyInv ==
  /\ phase = "wlog" => \A k \in 1 .. tail : logdata[k] = bread(lh[k])
  /\ phase = "install" => \A k \in 1 .. Len(lh) : logdata[k] = bread(lh[k])
  /\ phase = "rinstall" => \A k \in 1 .. tail : home[lh[k]] = logdata[k]

\* What an operation in progress has written is logged, within its bound, and
\* none has panicked.
WroteInv ==
  \A o \in Op :
    /\ IsFiniteSet(wrote[o])
    /\ op[o] = "in" => /\ \A b \in wrote[o] : \E k \in 1 .. Len(lh) : lh[k] = b
                       /\ Cardinality(wrote[o]) <= OpBlocks
    /\ op[o] # "panic"

\* The blocks that are logged and the places that are reserved fit into log.lh.
RoomInv ==
  /\ Len(lh) + Cardinality(Reserved) <= LOGSIZE
  /\ Len(head) <= LOGSIZE

IInv ==
  TypeOK /\ CtlInv /\ HeadInv /\ BufInv /\ CopyInv /\ WroteInv /\ RoomInv

-----------------------------------------------------------------------------
(***************************************************************************)
(* Counting the operations and the places they have reserved.              *)
(***************************************************************************)

\* Sets of operations are finite.
LEMMA FiniteOps ==
  ASSUME NEW S \in SUBSET Op
  PROVE  IsFiniteSet(S) /\ Cardinality(S) \in Nat
  BY LogAssumption, FS_Subset, FS_CardinalityType

\* Sets of places are finite.
LEMMA FinitePlaces ==
  ASSUME NEW R \in SUBSET (Op \X (1 .. MAXOPBLOCKS))
  PROVE  IsFiniteSet(R) /\ Cardinality(R) \in Nat
<1>1. IsFiniteSet(1 .. MAXOPBLOCKS)
  BY LogAssumption, FS_Interval
<1>2. IsFiniteSet(Op \X (1 .. MAXOPBLOCKS))
  BY <1>1, LogAssumption, FS_Product
<1> QED BY <1>2, FS_Subset, FS_CardinalityType

\* The operations in progress and the reserved places are finitely many.
LEMMA Finite ==
  /\ IsFiniteSet(Inside) /\ Cardinality(Inside) \in Nat
  /\ IsFiniteSet(Reserved) /\ Cardinality(Reserved) \in Nat
<1>1. Inside \in SUBSET Op
  BY DEF Inside
<1>2. Reserved \in SUBSET (Op \X (1 .. MAXOPBLOCKS))
  BY DEF Reserved
<1> QED BY <1>1, <1>2, FiniteOps, FinitePlaces

\* A step that leaves op and wrote alone.
LEMMA SameOps ==
  ASSUME UNCHANGED <<op, wrote>>
  PROVE  Inside' = Inside /\ Reserved' = Reserved
  BY DEF Inside, Reserved

\* Each operation has reserved at most MAXOPBLOCKS places.
LEMMA ReservedBound ==
  ASSUME NEW S \in SUBSET Op, NEW R \in SUBSET (S \X (1 .. MAXOPBLOCKS))
  PROVE  Cardinality(R) <= Cardinality(S) * MAXOPBLOCKS
<1>1. IsFiniteSet(S)
  BY LogAssumption, FS_Subset
<1>2. IsFiniteSet(1 .. MAXOPBLOCKS)
      /\ Cardinality(1 .. MAXOPBLOCKS) = MAXOPBLOCKS
  BY LogAssumption, FS_Interval
<1>3. IsFiniteSet(S \X (1 .. MAXOPBLOCKS))
      /\ Cardinality(S \X (1 .. MAXOPBLOCKS))
           = Cardinality(S) * Cardinality(1 .. MAXOPBLOCKS)
  BY <1>1, <1>2, FS_Product
<1>4. Cardinality(R) <= Cardinality(S \X (1 .. MAXOPBLOCKS))
  BY <1>3, FS_Subset
<1> QED BY <1>2, <1>3, <1>4

\* Without operations nothing is reserved.
LEMMA NoOps ==
  ASSUME IInv, phase # "up"
  PROVE  /\ Inside = {} /\ Reserved = {} /\ Cardinality(Reserved) = 0
         /\ \A o \in Op : op[o] \notin {"in", "panic"}
<1>1. Inside = {} /\ \A o \in Op : op[o] \notin {"in", "panic"}
  BY DEF IInv, CtlInv, Inside
<1>2. Reserved = {}
  BY <1>1 DEF Reserved
<1> QED BY <1>1, <1>2, FS_EmptySet

\* The empty header.
LEMMA EmptyHead == IsInjective(<< >>) /\ << >> \in Seq(Block) /\ Len(<< >>) = 0
  BY DEF IsInjective

-----------------------------------------------------------------------------
(***************************************************************************)
(* The invariant is inductive.                                             *)
(***************************************************************************)

\* The initial states satisfy the invariant.
LEMMA InitIInv ==
  ASSUME Init PROVE IInv
<1>1. TypeOK
  <2>1. logdata \in [1 .. log_size - 1 -> Val]
    BY LogAssumption DEF Init
  <2>2. tail \in 0 .. log_size - 1 /\ crashes \in 0 .. MaxCrash
    BY LogAssumption DEF Init
  <2>3. home \in [Block -> Val] /\ cache \in [Block -> Val]
    BY DEF Init
  <2>4. op \in [Op -> OpPoints] /\ wrote \in [Op -> SUBSET Block]
    BY DEF Init, OpPoints
  <2>5. /\ head \in Seq(Block) /\ Len(head) <= log_size - 1
        /\ lh \in Seq(Block) /\ Len(lh) <= log_size - 1 /\ IsInjective(lh)
    BY LogAssumption, EmptyHead DEF Init
  <2>6. phase \in Phases
    BY DEF Init, Phases
  <2> QED BY <2>1, <2>2, <2>3, <2>4, <2>5, <2>6 DEF Init, TypeOK
<1>2. Inside = {} /\ Reserved = {}
  BY DEF Init, Inside, Reserved
<1>3. CtlInv
  BY <1>2, FS_EmptySet DEF Init, CtlInv
<1>4. RoomInv
  BY <1>2, FS_EmptySet, LogAssumption DEF Init, RoomInv
<1>5. WroteInv
  BY FS_EmptySet DEF Init, WroteInv
<1>6. HeadInv
  BY EmptyHead DEF Init, HeadInv
<1>7. BufInv /\ CopyInv
  BY DEF Init, BufInv, CopyInv
<1> QED BY <1>1, <1>3, <1>4, <1>5, <1>6, <1>7 DEF IInv

USE DEF disk, bufs, ctl

\* begin_op preserves the invariant.
LEMMA BeginIInv ==
  ASSUME IInv, NEW o \in Op, begin_op(o)
  PROVE  IInv'
<1>1. TypeOK'
  BY LogAssumption DEF IInv, TypeOK, Phases, OpPoints, begin_op
<1>2. CtlInv'
  <2>1. Inside' = Inside \cup {o} /\ o \notin Inside
    BY DEF IInv, TypeOK, Inside, begin_op
  <2>2. Cardinality(Inside') = Cardinality(Inside) + 1
    BY <2>1, Finite, FS_AddElement
  <2>3. phase = "up"
    BY DEF IInv, TypeOK, Phases, CtlInv, begin_op, begin_may, Running
  <2> QED BY <2>2, <2>3 DEF IInv, CtlInv, begin_op
<1>3. HeadInv'
  BY EmptyHead DEF IInv, TypeOK, HeadInv, begin_op
<1>4. BufInv'
  BY DEF IInv, TypeOK, BufInv, HeadInv, begin_op
<1>5. CopyInv'
  BY DEF IInv, TypeOK, CopyInv, BufInv, HeadInv, bread, begin_op
<1>6. WroteInv'
  BY FS_EmptySet, LogAssumption DEF IInv, TypeOK, WroteInv, begin_op
<1>7. RoomInv'
  <2>1. Inside' \in SUBSET Op
        /\ Reserved' \in SUBSET (Inside' \X (1 .. MAXOPBLOCKS))
    BY DEF Inside, Reserved
  <2>2. Cardinality(Reserved') <= Cardinality(Inside') * MAXOPBLOCKS
    BY <2>1, ReservedBound
  <2>3. Cardinality(Inside') = outstanding + 1
    BY <1>2 DEF CtlInv, begin_op
  <2>4. Reserved' \in SUBSET (Op \X (1 .. MAXOPBLOCKS))
    BY DEF Reserved
  <2>5. Cardinality(Reserved') \in Nat
    BY <2>4, FinitePlaces
  <2>6. Len(lh) + Cardinality(Reserved') <= LOGSIZE
    BY <2>2, <2>3, <2>5, LogAssumption DEF begin_op, begin_may, IInv, TypeOK
  <2> QED BY <2>6 DEF IInv, RoomInv, begin_op
<1> QED BY <1>1, <1>2, <1>3, <1>4, <1>5, <1>6, <1>7 DEF IInv

\* begin_sleep preserves the invariant.
LEMMA SleepIInv ==
  ASSUME IInv, NEW o \in Op, begin_sleep(o)
  PROVE  IInv'
<1>0. Inside' = Inside /\ Reserved' = Reserved
  BY DEF IInv, TypeOK, Inside, Reserved, begin_sleep
<1>1. TypeOK'
  BY LogAssumption DEF IInv, TypeOK, Phases, OpPoints, begin_sleep
<1>2. CtlInv'
  BY <1>0 DEF IInv, CtlInv, begin_sleep
<1>3. HeadInv'
  BY EmptyHead DEF IInv, TypeOK, HeadInv, begin_sleep
<1>4. BufInv'
  BY DEF IInv, TypeOK, BufInv, HeadInv, begin_sleep
<1>5. CopyInv'
  BY DEF IInv, TypeOK, CopyInv, BufInv, HeadInv, bread, begin_sleep
<1>6. WroteInv'
  BY DEF IInv, TypeOK, WroteInv, begin_sleep
<1>7. RoomInv'
  BY <1>0 DEF IInv, RoomInv, begin_sleep
<1> QED BY <1>1, <1>2, <1>3, <1>4, <1>5, <1>6, <1>7 DEF IInv

\* end_op_other preserves the invariant.
LEMMA EndOtherIInv ==
  ASSUME IInv, NEW o \in Op, end_op_other(o)
  PROVE  IInv'
<1>0. /\ Inside' = Inside \ {o} /\ o \in Inside
      /\ Reserved' \subseteq Reserved
  BY DEF IInv, TypeOK, Inside, Reserved, end_op_other, Woken
<1>1. TypeOK'
  BY LogAssumption DEF IInv, TypeOK, Phases, OpPoints, end_op_other, Woken
<1>2. CtlInv'
  <2>1. Cardinality(Inside') = Cardinality(Inside) - 1
    BY <1>0, Finite, FS_RemoveElement
  <2>2. phase = "up"
    BY <1>0 DEF IInv, CtlInv
  <2> QED BY <1>0, <2>1, <2>2 DEF IInv, CtlInv, end_op_other, Woken
<1>3. HeadInv'
  BY EmptyHead DEF IInv, TypeOK, HeadInv, end_op_other, Woken
<1>4. BufInv'
  BY DEF IInv, TypeOK, BufInv, HeadInv, end_op_other, Woken
<1>5. CopyInv'
  BY DEF IInv, TypeOK, CopyInv, BufInv, HeadInv, bread, end_op_other, Woken
<1>6. WroteInv'
  BY DEF IInv, TypeOK, WroteInv, end_op_other, Woken
<1>7. RoomInv'
  <2>1. Cardinality(Reserved') <= Cardinality(Reserved)
    BY <1>0, Finite, FS_Subset
  <2> QED BY <2>1, <1>0, Finite, FS_Subset, FS_CardinalityType, LogAssumption DEF IInv, TypeOK, RoomInv, end_op_other, Woken
<1> QED BY <1>1, <1>2, <1>3, <1>4, <1>5, <1>6, <1>7 DEF IInv

\* end_op_last preserves the invariant.
LEMMA EndLastIInv ==
  ASSUME IInv, NEW o \in Op, end_op_last(o)
  PROVE  IInv'
<1>0. /\ Inside' = Inside \ {o} /\ o \in Inside
      /\ Reserved' \subseteq Reserved
  BY DEF IInv, TypeOK, Inside, Reserved, end_op_last
<1>1. TypeOK'
  BY LogAssumption DEF IInv, TypeOK, Phases, OpPoints, end_op_last
<1>2. CtlInv'
  <2>1. Cardinality(Inside') = Cardinality(Inside) - 1
    BY <1>0, Finite, FS_RemoveElement
  <2>2. phase = "up"
    BY <1>0 DEF IInv, CtlInv
  <2>3. Inside' \in SUBSET Op
    BY DEF Inside
  <2>4. Inside' = {}
    BY <2>1, <2>3, FiniteOps, FS_EmptySet DEF IInv, CtlInv, end_op_last
  <2> QED BY <2>4, <2>1, <2>2, <2>3 DEF IInv, CtlInv, end_op_last
<1>3. HeadInv'
  <2>1. phase = "up" /\ head = << >>
    BY <1>0 DEF IInv, CtlInv, HeadInv
  <2>2. Len(lh) \in Nat /\ (Len(lh) = 0 => lh = << >>)
    BY EmptySeq DEF IInv, TypeOK
  <2> QED BY <2>1, <2>2, EmptyHead DEF IInv, HeadInv, end_op_last
<1>4. BufInv'
  BY DEF IInv, TypeOK, BufInv, HeadInv, end_op_last
<1>5. CopyInv'
  BY DEF IInv, TypeOK, CopyInv, BufInv, HeadInv, bread, end_op_last
<1>6. WroteInv'
  BY DEF IInv, TypeOK, WroteInv, end_op_last
<1>7. RoomInv'
  <2>1. Cardinality(Reserved') <= Cardinality(Reserved)
    BY <1>0, Finite, FS_Subset
  <2> QED BY <2>1, <1>0, Finite, FS_Subset, FS_CardinalityType, LogAssumption DEF IInv, TypeOK, RoomInv, end_op_last
<1> QED BY <1>1, <1>2, <1>3, <1>4, <1>5, <1>6, <1>7 DEF IInv

\* commit_done preserves the invariant.
LEMMA DoneIInv ==
  ASSUME IInv, NEW o \in Op, commit_done(o)
  PROVE  IInv'
<1>0. Inside' = Inside /\ Reserved' = Reserved
  BY DEF IInv, TypeOK, Inside, Reserved, commit_done, commit_wakes, Woken
<1>1. TypeOK'
  BY LogAssumption DEF IInv, TypeOK, Phases, OpPoints, commit_done, commit_wakes, Woken
<1>2. CtlInv'
  BY <1>0 DEF IInv, CtlInv, commit_done
<1>3. HeadInv'
  BY EmptyHead DEF IInv, TypeOK, HeadInv, commit_done, commit_wakes, Woken
<1>4. BufInv'
  BY DEF IInv, TypeOK, BufInv, HeadInv, commit_done, commit_wakes, Woken
<1>5. CopyInv'
  BY DEF IInv, TypeOK, CopyInv, BufInv, HeadInv, bread, commit_done, commit_wakes, Woken
<1>6. WroteInv'
  BY DEF IInv, TypeOK, WroteInv, commit_done, commit_wakes, Woken
<1>7. RoomInv'
  BY <1>0 DEF IInv, RoomInv, commit_done
<1> QED BY <1>1, <1>2, <1>3, <1>4, <1>5, <1>6, <1>7 DEF IInv

\* Evict preserves the invariant.
LEMMA EvictIInv ==
  ASSUME IInv, NEW b \in Block, Evict(b)
  PROVE  IInv'
<1>1. TypeOK'
  BY LogAssumption DEF IInv, TypeOK, Phases, OpPoints, Evict, recyclable
<1>2. CtlInv'
  BY SameOps DEF IInv, CtlInv, Evict, recyclable
<1>3. HeadInv'
  BY EmptyHead DEF IInv, TypeOK, HeadInv, Evict, recyclable
<1>4. BufInv'
  BY DEF IInv, TypeOK, BufInv, HeadInv, Evict, recyclable
<1>5. CopyInv'
  BY DEF IInv, TypeOK, CopyInv, BufInv, HeadInv, bread, Evict, recyclable
<1>6. WroteInv'
  BY DEF IInv, TypeOK, WroteInv, Evict, recyclable
<1>7. RoomInv'
  BY SameOps DEF IInv, RoomInv, Evict, recyclable
<1> QED BY <1>1, <1>2, <1>3, <1>4, <1>5, <1>6, <1>7 DEF IInv

\* write_log preserves the invariant.
LEMMA WriteLogIInv ==
  ASSUME IInv, write_log
  PROVE  IInv'
<1>1. TypeOK'
  BY LogAssumption DEF IInv, TypeOK, Phases, OpPoints, write_log, bread
<1>2. CtlInv'
  BY SameOps DEF IInv, CtlInv, write_log, bread
<1>3. HeadInv'
  BY EmptyHead DEF IInv, TypeOK, HeadInv, write_log, bread
<1>4. BufInv'
  BY DEF IInv, TypeOK, BufInv, HeadInv, write_log, bread
<1>5. CopyInv'
  <2>1. phase' = "wlog" /\ tail' = tail + 1 /\ lh' = lh
    BY DEF write_log
  <2>2. ASSUME NEW k \in 1 .. tail + 1
        PROVE  logdata'[k] = bread(lh[k])'
    <3>1. tail + 1 \in 1 .. log_size - 1 /\ tail \in Nat
      BY LogAssumption DEF IInv, TypeOK, write_log
    <3>2. bread(lh[k])' = bread(lh[k])
      BY DEF write_log, bread
    <3>3. CASE k = tail + 1
      BY <3>1, <3>2, <3>3 DEF IInv, TypeOK, write_log
    <3>4. CASE k # tail + 1
      <4>1. k \in 1 .. tail
        BY <3>1, <3>4
      <4>2. logdata'[k] = logdata[k]
        BY <3>1, <3>4, <4>1 DEF IInv, TypeOK, write_log
      <4> QED BY <3>2, <4>1, <4>2 DEF IInv, CopyInv, write_log
    <3> QED BY <3>3, <3>4
  <2> QED BY <2>1, <2>2 DEF CopyInv
<1>6. WroteInv'
  BY DEF IInv, TypeOK, WroteInv, write_log, bread
<1>7. RoomInv'
  BY SameOps DEF IInv, RoomInv, write_log, bread
<1> QED BY <1>1, <1>2, <1>3, <1>4, <1>5, <1>6, <1>7 DEF IInv

\* write_head preserves the invariant.
LEMMA WriteHeadIInv ==
  ASSUME IInv, write_head
  PROVE  IInv'
<1>1. TypeOK'
  BY LogAssumption DEF IInv, TypeOK, Phases, OpPoints, write_head, write_log_ended
<1>2. CtlInv'
  BY SameOps DEF IInv, CtlInv, write_head, write_log_ended
<1>3. HeadInv'
  BY EmptyHead DEF IInv, TypeOK, HeadInv, write_head, write_log_ended
<1>4. BufInv'
  BY DEF IInv, TypeOK, BufInv, HeadInv, write_head, write_log_ended
<1>5. CopyInv'
  BY DEF IInv, TypeOK, CopyInv, BufInv, HeadInv, bread, write_head, write_log_ended
<1>6. WroteInv'
  BY DEF IInv, TypeOK, WroteInv, write_head, write_log_ended
<1>7. RoomInv'
  BY SameOps, Finite, LogAssumption
     DEF IInv, TypeOK, RoomInv, write_head, write_log_ended
<1> QED BY <1>1, <1>2, <1>3, <1>4, <1>5, <1>6, <1>7 DEF IInv

\* install_trans preserves the invariant.
LEMMA InstallIInv ==
  ASSUME IInv, install_trans
  PROVE  IInv'
<1>1. TypeOK'
  BY LogAssumption DEF IInv, TypeOK, Phases, OpPoints, install_trans
<1>2. CtlInv'
  BY SameOps DEF IInv, CtlInv, install_trans
<1>3. HeadInv'
  BY EmptyHead DEF IInv, TypeOK, HeadInv, install_trans
<1>4. BufInv'
  BY DEF IInv, TypeOK, BufInv, HeadInv, install_trans
<1>5. CopyInv'
  <2> DEFINE b == lh[tail + 1]
  <2>1. /\ tail \in Nat /\ Len(lh) \in Nat /\ tail + 1 \in 1 .. Len(lh)
        /\ tail + 1 \in 1 .. log_size - 1
        /\ b \in Block
        /\ lh' = lh /\ logdata' = logdata /\ phase' = phase
        /\ tail' = tail + 1 /\ phase \in {"install", "rinstall"}
    BY LogAssumption DEF IInv, TypeOK, install_trans
  <2>2. ASSUME NEW k \in 1 .. Len(lh), lh[k] = b
        PROVE  k = tail + 1
    BY <2>1, <2>2 DEF IInv, TypeOK, IsInjective
  <2>3. ASSUME phase = "install", NEW k \in 1 .. Len(lh)
        PROVE  logdata[k] = bread(lh[k])'
    <3>1. CASE lh[k] = b
      BY <2>1, <2>2, <3>1 DEF IInv, TypeOK, install_trans, bread
    <3>2. CASE lh[k] # b
      <4>1. bread(lh[k])' = bread(lh[k])
        BY <2>1, <3>2 DEF IInv, TypeOK, install_trans, bread
      <4> QED BY <2>3, <4>1 DEF IInv, CopyInv
    <3> QED BY <3>1, <3>2
  <2>4. ASSUME phase = "rinstall", NEW k \in 1 .. tail + 1
        PROVE  home'[lh[k]] = logdata[k]
    <3>1. CASE k = tail + 1
      BY <2>1, <3>1 DEF IInv, TypeOK, install_trans
    <3>2. CASE k # tail + 1
      <4>1. k \in 1 .. tail /\ k \in 1 .. Len(lh) /\ lh[k] \in Block
        BY <2>1, <3>2 DEF IInv, TypeOK
      <4>2. lh[k] # b
        BY <2>2, <3>2, <4>1
      <4>3. home'[lh[k]] = home[lh[k]]
        BY <2>1, <4>1, <4>2 DEF IInv, TypeOK, install_trans
      <4> QED BY <2>4, <4>1, <4>3 DEF IInv, CopyInv
    <3> QED BY <3>1, <3>2
  <2> HIDE DEF b
  <2> QED BY <2>1, <2>3, <2>4 DEF CopyInv
<1>6. WroteInv'
  BY DEF IInv, TypeOK, WroteInv, install_trans
<1>7. RoomInv'
  BY SameOps DEF IInv, RoomInv, install_trans
<1> QED BY <1>1, <1>2, <1>3, <1>4, <1>5, <1>6, <1>7 DEF IInv

\* clear_head preserves the invariant.
LEMMA ClearIInv ==
  ASSUME IInv, clear_head
  PROVE  IInv'
<1>0. /\ Inside' = {} /\ Reserved' = {} /\ Cardinality(Reserved') = 0
      /\ \A o \in Op : op'[o] \notin {"in", "panic"}
  BY NoOps, SameOps DEF clear_head
<1>1. TypeOK'
  BY LogAssumption, EmptyHead
     DEF IInv, TypeOK, HeadInv, Phases, OpPoints, clear_head, install_ended
<1>2. CtlInv'
  BY <1>0, SameOps, FS_EmptySet DEF IInv, CtlInv, clear_head, install_ended
<1>3. HeadInv'
  BY EmptyHead DEF IInv, TypeOK, HeadInv, clear_head, install_ended
<1>4. BufInv'
  BY DEF IInv, TypeOK, BufInv, HeadInv, clear_head, install_ended
<1>5. CopyInv'
  BY DEF IInv, TypeOK, CopyInv, BufInv, HeadInv, bread, clear_head, install_ended
<1>6. WroteInv'
  BY <1>0, FS_EmptySet DEF IInv, TypeOK, WroteInv, clear_head, install_ended
<1>7. RoomInv'
  BY <1>0, EmptyHead, LogAssumption DEF IInv, TypeOK, RoomInv, clear_head, install_ended
<1> QED BY <1>1, <1>2, <1>3, <1>4, <1>5, <1>6, <1>7 DEF IInv

\* PowerLoss preserves the invariant.
LEMMA CrashIInv ==
  ASSUME IInv, PowerLoss
  PROVE  IInv'
<1>0. /\ Inside' = {} /\ Reserved' = {} /\ Cardinality(Reserved') = 0
      /\ \A o \in Op : op'[o] \notin {"in", "panic"}
  BY FS_EmptySet DEF PowerLoss, Inside, Reserved
<1>1. TypeOK'
  <2>1. op' \in [Op -> OpPoints] /\ wrote' \in [Op -> SUBSET Block]
    BY DEF PowerLoss, OpPoints
  <2>2. lh' \in Seq(Block) /\ Len(lh') <= log_size - 1 /\ IsInjective(lh')
    BY LogAssumption, EmptyHead DEF PowerLoss
  <2>3. tail' \in 0 .. log_size - 1 /\ crashes' \in 0 .. MaxCrash
    BY LogAssumption DEF IInv, TypeOK, PowerLoss
  <2> QED BY <2>1, <2>2, <2>3 DEF IInv, TypeOK, Phases, PowerLoss
<1>2. CtlInv'
  BY <1>0, SameOps, FS_EmptySet DEF IInv, CtlInv, PowerLoss
<1>3. HeadInv'
  BY EmptyHead DEF IInv, TypeOK, HeadInv, PowerLoss
<1>4. BufInv'
  BY DEF IInv, TypeOK, BufInv, HeadInv, PowerLoss
<1>5. CopyInv'
  BY DEF IInv, TypeOK, CopyInv, BufInv, HeadInv, bread, PowerLoss
<1>6. WroteInv'
  BY <1>0, FS_EmptySet DEF IInv, TypeOK, WroteInv, PowerLoss
<1>7. RoomInv'
  BY <1>0, EmptyHead, LogAssumption DEF IInv, TypeOK, RoomInv, PowerLoss
<1> QED BY <1>1, <1>2, <1>3, <1>4, <1>5, <1>6, <1>7 DEF IInv

\* read_head preserves the invariant.
LEMMA ReadHeadIInv ==
  ASSUME IInv, read_head
  PROVE  IInv'
<1>0. /\ Inside' = {} /\ Reserved' = {} /\ Cardinality(Reserved') = 0
      /\ \A o \in Op : op'[o] \notin {"in", "panic"}
  BY NoOps, SameOps DEF read_head
<1>1. TypeOK'
  BY LogAssumption, EmptyHead
     DEF IInv, TypeOK, HeadInv, Phases, OpPoints, read_head
<1>2. CtlInv'
  BY <1>0, SameOps, FS_EmptySet DEF IInv, CtlInv, read_head
<1>3. HeadInv'
  BY EmptyHead DEF IInv, TypeOK, HeadInv, read_head
<1>4. BufInv'
  BY DEF IInv, TypeOK, BufInv, HeadInv, read_head
<1>5. CopyInv'
  BY DEF IInv, TypeOK, CopyInv, BufInv, HeadInv, bread, read_head
<1>6. WroteInv'
  BY <1>0, FS_EmptySet DEF IInv, TypeOK, WroteInv, read_head
<1>7. RoomInv'
  BY <1>0, EmptyHead, LogAssumption DEF IInv, TypeOK, RoomInv, read_head
<1> QED BY <1>1, <1>2, <1>3, <1>4, <1>5, <1>6, <1>7 DEF IInv

\* The block that log_write adds.
LEMMA LoggedSeq ==
  ASSUME IInv, NEW b \in Block
  PROVE  /\ logged(b) \in Seq(Block) /\ IsInjective(logged(b))
         /\ \A k \in 1 .. Len(lh) :
              k \in 1 .. Len(logged(b)) /\ logged(b)[k] = lh[k]
         /\ \E k \in 1 .. Len(logged(b)) : logged(b)[k] = b
         /\ (\E k \in 1 .. Len(lh) : lh[k] = b) => logged(b) = lh
         /\ Len(logged(b)) = Len(lh) \/ Len(logged(b)) = Len(lh) + 1
<1>0. lh \in Seq(Block) /\ Len(lh) \in Nat /\ DOMAIN lh = 1 .. Len(lh)
  BY DEF IInv, TypeOK
<1>1. b \in ToSet(lh) <=> \E k \in 1 .. Len(lh) : lh[k] = b
  BY <1>0 DEF ToSet
<1>2. CASE b \in ToSet(lh)
  BY <1>0, <1>1, <1>2 DEF logged, IInv, TypeOK
<1>3. CASE b \notin ToSet(lh)
  <2> DEFINE s == Append(lh, b)
  <2>1. /\ s \in Seq(Block) /\ Len(s) = Len(lh) + 1 /\ s[Len(lh) + 1] = b
        /\ \A k \in 1 .. Len(lh) : s[k] = lh[k]
        /\ DOMAIN s = 1 .. Len(lh) + 1
    BY <1>0, AppendProperties
  <2> HIDE DEF s
  <2>2. \A k \in 1 .. Len(lh) : lh[k] # b
    BY <1>1, <1>3
  <2>3. ASSUME NEW x \in 1 .. Len(lh) + 1, NEW y \in 1 .. Len(lh) + 1,
               s[x] = s[y]
        PROVE  x = y
    <3>1. CASE x = Len(lh) + 1 \/ y = Len(lh) + 1
      BY <1>0, <2>1, <2>2, <2>3, <3>1
    <3>2. CASE x # Len(lh) + 1 /\ y # Len(lh) + 1
      <4>1. x \in 1 .. Len(lh) /\ y \in 1 .. Len(lh)
        BY <1>0, <3>2
      <4> QED BY <1>0, <2>1, <2>3, <4>1 DEF IInv, TypeOK, IsInjective
    <3> QED BY <3>1, <3>2
  <2>4. IsInjective(s)
    BY <2>1, <2>3 DEF IsInjective
  <2>5. logged(b) = s
    BY <1>3 DEF logged, s
  <2>6. Len(lh) + 1 \in 1 .. Len(s)
        /\ \A k \in 1 .. Len(lh) : k \in 1 .. Len(s)
    BY <1>0, <2>1
  <2> QED BY <1>1, <1>3, <2>1, <2>4, <2>5, <2>6
<1> QED BY <1>2, <1>3

\* An operation in progress leaves two of its places unused, so log_write does
\* not panic.
LEMMA RoomLeft ==
  ASSUME IInv, NEW o \in Op, op[o] = "in"
  PROVE  Len(lh) + 2 <= LOGSIZE /\ log_write_ok
<1>1. /\ MAXOPBLOCKS \in Nat /\ OpBlocks \in Nat /\ OpBlocks + 2 <= MAXOPBLOCKS
      /\ LOGSIZE \in Nat /\ log_size \in Nat /\ log_size >= LOGSIZE
      /\ Len(lh) \in Nat
  BY LogAssumption DEF IInv, TypeOK
<1>2. Cardinality(wrote[o]) \in Nat /\ Cardinality(wrote[o]) <= OpBlocks
  BY FS_CardinalityType DEF IInv, WroteInv
<1> DEFINE x == <<o, MAXOPBLOCKS - 1>>
           y == <<o, MAXOPBLOCKS>>
<1>3. x \in Reserved /\ y \in Reserved /\ x # y
  BY <1>1, <1>2 DEF Reserved
<1> HIDE DEF x, y
<1>4. IsFiniteSet({x, y}) /\ Cardinality({x, y}) = 2
  <2>1. IsFiniteSet({x}) /\ Cardinality({x}) = 1
    BY FS_Singleton
  <2>2. {x, y} = {x} \cup {y} /\ y \notin {x}
    BY <1>3
  <2> QED BY <2>1, <2>2, FS_AddElement
<1>5. 2 <= Cardinality(Reserved)
  BY <1>3, <1>4, Finite, FS_Subset
<1>6. Len(lh) + 2 <= LOGSIZE
  BY <1>1, <1>5, Finite DEF IInv, RoomInv
<1>7. outstanding >= 1
  <2>1. o \in Inside
    BY DEF Inside
  <2>2. Cardinality(Inside) # 0
    BY <2>1, Finite, FS_EmptySet
  <2> QED BY <2>2, Finite DEF IInv, CtlInv
<1> QED BY <1>1, <1>6, <1>7, Finite DEF log_write_ok, IInv, CtlInv

\* log_write preserves the invariant: a block that the operation writes for the
\* first time uses one of its reserved places, and one that it has written
\* before is in the log.
LEMMA LogWriteIInv ==
  ASSUME IInv, NEW o \in Op, NEW b \in Block, NEW v \in Val, log_write(o, b, v)
  PROVE  IInv'
<1>a. op[o] = "in" /\ log_write_ok /\ Len(lh) + 2 <= LOGSIZE
  BY RoomLeft DEF log_write, MayWrite
<1>0. /\ op[o] = "in" /\ o \in Inside /\ phase = "up" /\ op' = op
      /\ Inside' = Inside /\ lh' = logged(b) /\ phase' = "up"
      /\ Len(lh) + 1 <= log_size - 1 /\ Len(lh) \in Nat
      /\ log_size \in Nat /\ LOGSIZE \in Nat
  BY <1>a, LogAssumption DEF IInv, TypeOK, CtlInv, log_write, Inside
<1>1. TypeOK'
  <2>1. lh' \in Seq(Block) /\ IsInjective(lh')
        /\ (Len(lh') = Len(lh) \/ Len(lh') = Len(lh) + 1)
    BY <1>0, LoggedSeq
  <2>2. Len(lh') <= log_size - 1
    BY <1>0, <2>1
  <2> QED BY <1>a, <2>1, <2>2 DEF IInv, TypeOK, log_write
<1>2. CtlInv'
  BY <1>0 DEF IInv, CtlInv, log_write
<1>3. HeadInv'
  <2>1. tail <= Len(lh')
    BY <1>0, LoggedSeq DEF IInv, TypeOK, HeadInv
  <2> QED BY <1>0, <2>1 DEF IInv, HeadInv, log_write
<1>4. BufInv'
  <2>1. \A a \in cached' \ dirty' : cache'[a] = home'[a]
    BY <1>a DEF IInv, TypeOK, BufInv, log_write
  <2>2. ASSUME NEW a \in dirty'
        PROVE  \E k \in 1 .. Len(lh') : lh'[k] = a
    <3>1. CASE a = b
      BY <1>0, <3>1, LoggedSeq
    <3>2. CASE a # b
      <4>1. PICK k \in 1 .. Len(lh) : lh[k] = a
        BY <1>a, <3>2 DEF IInv, BufInv, log_write
      <4>2. k \in 1 .. Len(lh') /\ lh'[k] = lh[k]
        BY <1>0, LoggedSeq
      <4> QED BY <4>1, <4>2
    <3> QED BY <3>1, <3>2
  <2> QED BY <1>0, <2>1, <2>2 DEF BufInv
<1>5. CopyInv'
  BY <1>0 DEF CopyInv
<1>6. WroteInv'
  <2>1. IsFiniteSet(wrote[o] \cup {b})
    BY FS_AddElement DEF IInv, WroteInv
  <2>2. wrote' = [wrote EXCEPT ![o] = @ \cup {b}]
        /\ Cardinality(wrote[o] \cup {b}) <= OpBlocks
    BY <1>a DEF log_write, MayWrite
  <2>3. \A q \in Op : IsFiniteSet(wrote'[q])
    BY <2>1, <2>2 DEF IInv, TypeOK, WroteInv
  <2>4. ASSUME NEW q \in Op, op[q] = "in"
        PROVE  /\ Cardinality(wrote'[q]) <= OpBlocks
               /\ \A a \in wrote'[q] : \E k \in 1 .. Len(lh') : lh'[k] = a
    <3>1. \A a \in wrote[q] : \E k \in 1 .. Len(lh) : lh[k] = a
      BY <2>4 DEF IInv, WroteInv
    <3>2. \A a \in wrote[q] \cup {b} : \E k \in 1 .. Len(lh') : lh'[k] = a
      BY <1>0, <3>1, LoggedSeq
    <3>3. wrote'[q] \subseteq wrote[q] \cup {b}
      BY <2>2 DEF IInv, TypeOK
    <3>4. Cardinality(wrote'[q]) <= OpBlocks
      BY <2>2, <2>4 DEF IInv, TypeOK, WroteInv
    <3> QED BY <3>2, <3>3, <3>4
  <2> QED BY <1>0, <2>3, <2>4 DEF WroteInv, IInv
<1>7. RoomInv'
  <2>0. head' = head
    BY <1>a DEF log_write, disk
  <2>1. CASE b \in wrote[o]
    <3>1. wrote[o] \cup {b} = wrote[o]
      BY <2>1
    <3>2. wrote' = wrote
      BY <1>a, <3>1 DEF IInv, TypeOK, log_write
    <3>3. lh' = lh
      BY <1>0, <2>1, LoggedSeq DEF IInv, WroteInv
    <3> QED BY <1>0, <2>0, <3>2, <3>3, SameOps DEF IInv, RoomInv
  <2>2. CASE b \notin wrote[o]
    <3> DEFINE c == Cardinality(wrote[o])
    <3>1. c \in Nat /\ Cardinality(wrote[o] \cup {b}) = c + 1
      BY <2>2, FS_AddElement, FS_CardinalityType DEF IInv, WroteInv
    <3>2. wrote'[o] = wrote[o] \cup {b}
          /\ \A q \in Op : q # o => wrote'[q] = wrote[q]
      BY <1>a DEF IInv, TypeOK, log_write
    <3>3. c + 1 \in 1 .. MAXOPBLOCKS
      BY <3>1, LogAssumption DEF log_write, MayWrite
    <3>4. Cardinality(wrote'[o]) = c + 1
          /\ \A q \in Op : q # o => Cardinality(wrote'[q]) = Cardinality(wrote[q])
      BY <3>1, <3>2
    <3> HIDE DEF c
    <3>5. <<o, c + 1>> \in Reserved
      BY <1>0, <3>1, <3>3 DEF Reserved, c
    <3>6. Reserved' \subseteq Reserved \ {<<o, c + 1>>}
      BY <1>0, <3>1, <3>4 DEF Reserved, c
    <3>7. Cardinality(Reserved \ {<<o, c + 1>>}) = Cardinality(Reserved) - 1
          /\ IsFiniteSet(Reserved \ {<<o, c + 1>>})
      BY <3>5, Finite, FS_RemoveElement
    <3>8. Cardinality(Reserved') <= Cardinality(Reserved) - 1
          /\ Cardinality(Reserved') \in Nat
      BY <3>6, <3>7, FS_Subset, FS_CardinalityType
    <3>9. Len(lh') = Len(lh) \/ Len(lh') = Len(lh) + 1
      BY <1>0, LoggedSeq
    <3> QED BY <1>0, <2>0, <3>8, <3>9, Finite DEF IInv, RoomInv
  <2> QED BY <2>1, <2>2
<1> QED BY <1>1, <1>2, <1>3, <1>4, <1>5, <1>6, <1>7 DEF IInv

\* Every step preserves the invariant.
LEMMA NextIInv ==
  ASSUME IInv, [Next]_vars
  PROVE  IInv'
<1>1. CASE UNCHANGED vars
  BY <1>1, SameOps
     DEF vars, IInv, TypeOK, CtlInv, HeadInv, BufInv, CopyInv, WroteInv,
         RoomInv, bread
<1>2. CASE Next
  BY <1>2, BeginIInv, SleepIInv, EndOtherIInv, EndLastIInv, DoneIInv,
     LogWriteIInv, EvictIInv, WriteLogIInv, WriteHeadIInv, InstallIInv,
     ClearIInv, CrashIInv, ReadHeadIInv
     DEF Next
<1> QED BY <1>1, <1>2

\* The invariant holds in every reachable state.
THEOREM Invariant == Spec => []IInv
  BY InitIInv, NextIInv, PTL DEF Spec

\* begin_op's reservation is enough for the log on the disk, which has a block
\* less than begin_op counts on, and log_write never panics, however operations
\* interleave, as long as no call uses the last two of its MAXOPBLOCKS places.
THEOREM ReservationHolds == Spec => []ReservationSuffices
<1>1. IInv => ReservationSuffices
  BY DEF IInv, RoomInv, WroteInv, ReservationSuffices
<1> QED BY <1>1, Invariant, PTL

-----------------------------------------------------------------------------
(***************************************************************************)
(* Log implements AtomicStore.                                             *)
(***************************************************************************)

\* The file system's view of a block that is not B_DIRTY is the disk's.
LEMMA CleanView ==
  ASSUME IInv, NEW b \in Block, b \notin dirty
  PROVE  bread(b) = home[b]
  BY DEF IInv, BufInv, bread

\* If the header is empty, recovery changes nothing.
LEMMA NothingToRecover ==
  ASSUME NEW h, home = h, h \in [Block -> Val], head = << >>
  PROVE  Recovered = h
<1>1. ToSet(head) = {}
  BY DEF ToSet
<1> QED BY <1>1 DEF Recovered

\* What recovery makes of a block, if the header is h.
LEMMA RecoveredBlock ==
  ASSUME IInv, NEW b \in Block
  PROVE  /\ (\A k \in 1 .. Len(head) : head[k] # b) => Recovered[b] = home[b]
         /\ \A k \in 1 .. Len(head) : head[k] = b => Recovered[b] = logdata[k]
<1>1. DOMAIN head = 1 .. Len(head)
  BY DEF IInv, TypeOK
<1>2. b \in ToSet(head) <=> \E k \in 1 .. Len(head) : head[k] = b
  BY <1>1 DEF ToSet
<1>3. ASSUME NEW k \in 1 .. Len(head), head[k] = b
      PROVE  Recovered[b] = logdata[k]
  <2> DEFINE c == CHOOSE j \in DOMAIN head : head[j] = b
  <2>1. c \in DOMAIN head /\ head[c] = b
    BY <1>1, <1>3
  <2>2. c = k
    BY <1>1, <1>3, <2>1 DEF IInv, HeadInv, IsInjective
  <2>3. Recovered[b] = logdata[c]
    BY <1>2, <1>3 DEF Recovered
  <2> QED BY <2>2, <2>3
<1>4. ASSUME \A k \in 1 .. Len(head) : head[k] # b
      PROVE  Recovered[b] = home[b]
  BY <1>2, <1>4 DEF Recovered
<1> QED BY <1>3, <1>4

\* Once the header is written, recovery makes what the file system sees.
LEMMA InstallView ==
  ASSUME IInv, phase = "install"
  PROVE  Recovered = [b \in Block |-> bread(b)]
<1>1. head = lh
  BY DEF IInv, HeadInv
<1>2. ASSUME NEW b \in Block
      PROVE  Recovered[b] = bread(b)
  <2>1. CASE \E k \in 1 .. Len(lh) : lh[k] = b
    BY <1>1, <2>1, RecoveredBlock DEF IInv, CopyInv
  <2>2. CASE \A k \in 1 .. Len(lh) : lh[k] # b
    <3>1. b \notin dirty
      BY <2>2 DEF IInv, BufInv
    <3> QED BY <1>1, <2>2, <3>1, RecoveredBlock, CleanView
  <2> QED BY <2>1, <2>2
<1> QED BY <1>2 DEF Recovered

\* When everything is installed, or nothing was logged, the disk alone is what
\* the file system sees.
LEMMA CleanDisk ==
  ASSUME IInv, dirty = {}
  PROVE  [b \in Block |-> bread(b)] = home
  BY CleanView DEF IInv, TypeOK

\* Steps that change neither the disk nor the buffers.
LEMMA SameView ==
  ASSUME UNCHANGED <<disk, bufs>>
  PROVE  /\ Recovered' = Recovered
         /\ [b \in Block |-> bread(b)]' = [b \in Block |-> bread(b)]
  BY DEF Recovered, bread

StoreStep == [Store!ANext]_(Store!avars)

\* begin_op is Begin, or a stutter.
LEMMA BeginStep ==
  ASSUME IInv, NEW o \in Op, begin_op(o) \/ begin_sleep(o)
  PROVE  StoreStep
<1>1. View' = View /\ Recovered' = Recovered
  BY SameView DEF begin_op, begin_sleep, View, Running
<1>2. CASE begin_op(o)
  <2>1. o \notin Inside /\ Inside' = Inside \cup {o}
    BY <1>2 DEF begin_op, Inside, IInv, TypeOK
  <2>2. Store!Begin(o)
    BY <1>1, <2>1 DEF Store!Begin, Inside
  <2> QED BY <2>2 DEF StoreStep, Store!ANext
<1>3. CASE begin_sleep(o)
  <2>1. Inside' = Inside
    BY <1>3 DEF begin_sleep, Inside, IInv, TypeOK
  <2> QED BY <1>1, <2>1 DEF StoreStep, Store!avars, Inside
<1> QED BY <1>2, <1>3

\* end_op is End; the commit that follows it is a step of its own.
LEMMA EndStep ==
  ASSUME IInv, NEW o \in Op, end_op_other(o) \/ end_op_last(o)
  PROVE  StoreStep
<1>1. /\ o \in Inside /\ Inside' = Inside \ {o} /\ phase = "up"
      /\ phase' \in {"up", "wlog", "done"}
  BY DEF end_op_other, end_op_last, Woken, Inside, IInv, TypeOK, CtlInv
<1>2. View' = View /\ Recovered' = Recovered
  BY <1>1, SameView DEF end_op_other, end_op_last, View, Running
<1>3. Store!End(o)
  BY <1>1, <1>2 DEF Store!End, Inside
<1> QED BY <1>3 DEF StoreStep, Store!ANext

\* log_write is Write.
LEMMA WriteStep ==
  ASSUME IInv, NEW o \in Op, NEW b \in Block, NEW v \in Val, log_write(o, b, v)
  PROVE  StoreStep
<1>a. op[o] = "in" /\ log_write_ok
  BY RoomLeft DEF log_write, MayWrite
<1>1. o \in Inside /\ Inside' = Inside /\ phase = "up" /\ phase' = "up"
  BY <1>a DEF log_write, Inside, IInv, CtlInv
<1>2. Recovered' = Recovered
  BY <1>a DEF log_write, Recovered
<1>3. [a \in Block |-> bread(a)]' = [[a \in Block |-> bread(a)] EXCEPT ![b] = v]
  BY <1>a DEF log_write, bread, IInv, TypeOK
<1>4. View' = [View EXCEPT ![b] = v]
  BY <1>1, <1>3 DEF View, Running
<1>5. Store!Write(o, b, v)
  BY <1>1, <1>2, <1>4 DEF Store!Write, Inside
<1> QED BY <1>5 DEF StoreStep, Store!ANext

\* Recycling a buffer shows the disk's block, which is the same.
LEMMA EvictStep ==
  ASSUME IInv, NEW b \in Block, Evict(b)
  PROVE  StoreStep
<1>1. Inside' = Inside /\ Recovered' = Recovered
  BY DEF Evict, Inside, Recovered
<1>2. ASSUME NEW a \in Block
      PROVE  bread(a)' = bread(a)
  BY DEF Evict, recyclable, bread, IInv, BufInv
<1>3. [a \in Block |-> bread(a)]' = [a \in Block |-> bread(a)]
  BY <1>2
<1>4. View' = View
  BY <1>1, <1>3 DEF View, Running, Evict
<1> QED BY <1>1, <1>4 DEF StoreStep, Store!avars, Inside

\* Writing the log blocks is a stutter: the header is empty.
LEMMA WriteLogStep ==
  ASSUME IInv, write_log
  PROVE  StoreStep
<1>1. head = << >> /\ head' = << >> /\ home' = home /\ home \in [Block -> Val]
  BY DEF write_log, IInv, HeadInv, TypeOK
<1>2. ToSet(head) = {} /\ ToSet(head') = {}
  BY <1>1 DEF ToSet
<1>3. Recovered' = Recovered
  BY <1>1, <1>2 DEF Recovered
<1>4. [a \in Block |-> bread(a)]' = [a \in Block |-> bread(a)]
  BY DEF write_log, bread
<1>5. View' = View
  BY <1>4 DEF View, Running, write_log
<1>6. Inside' = Inside
  BY DEF write_log, Inside
<1> QED BY <1>3, <1>5, <1>6 DEF StoreStep, Store!avars, Inside

\* Writing the header is Commit: all the log blocks are there, and no operation
\* is in progress.
LEMMA WriteHeadStep ==
  ASSUME IInv, write_head
  PROVE  StoreStep
<1>1. phase = "wlog" /\ phase' = "install" /\ Inside = {} /\ Inside' = {}
  BY NoOps DEF write_head, Inside
<1>2. [a \in Block |-> bread(a)]' = [a \in Block |-> bread(a)]
  BY DEF write_head, bread
<1>3. View' = View /\ View = [a \in Block |-> bread(a)]
  BY <1>1, <1>2 DEF View, Running
<1>4. Recovered' = View
  <2>1. head' = lh /\ IsInjective(lh) /\ DOMAIN lh = 1 .. Len(lh)
    BY DEF write_head, IInv, TypeOK
  <2>2. ASSUME NEW b \in Block
        PROVE  Recovered'[b] = bread(b)
    <3>1. b \in ToSet(lh) <=> \E k \in 1 .. Len(lh) : lh[k] = b
      BY <2>1 DEF ToSet
    <3>2. CASE b \in ToSet(lh)
      <4> DEFINE c == CHOOSE j \in DOMAIN lh : lh[j] = b
      <4>1. c \in 1 .. Len(lh) /\ lh[c] = b
        BY <2>1, <3>1, <3>2
      <4>2. Recovered'[b] = logdata[c]
        BY <2>1, <3>2 DEF Recovered, write_head
      <4> HIDE DEF c
      <4>3. logdata[c] = bread(lh[c])
        BY <4>1 DEF write_head, write_log_ended, IInv, CopyInv
      <4> QED BY <4>1, <4>2, <4>3
    <3>3. CASE b \notin ToSet(lh)
      <4>1. b \notin dirty
        BY <3>1, <3>3 DEF IInv, BufInv
      <4>2. Recovered'[b] = home[b]
        BY <2>1, <3>3 DEF Recovered, write_head
      <4> QED BY <4>1, <4>2, CleanView
    <3> QED BY <3>2, <3>3
  <2> QED BY <1>3, <2>2 DEF Recovered
<1>5. Store!Commit
  BY <1>1, <1>3, <1>4 DEF Store!Commit, Inside
<1> QED BY <1>5 DEF StoreStep, Store!ANext

\* Installing a block is a stutter: recovery would do the same.
LEMMA InstallStep ==
  ASSUME IInv, install_trans
  PROVE  StoreStep
<1> DEFINE b == lh[tail + 1]
<1>1. /\ tail + 1 \in 1 .. Len(lh) /\ b \in Block /\ tail + 1 \in 1 .. log_size - 1
      /\ head = lh /\ phase \in {"install", "rinstall"} /\ phase' = phase
      /\ DOMAIN head = 1 .. Len(head)
  BY LogAssumption DEF IInv, TypeOK, HeadInv, install_trans
<1>2. b \in ToSet(head)
  BY <1>1 DEF ToSet
<1>3. \A a \in Block : a # b => home'[a] = home[a]
  BY <1>1 DEF IInv, TypeOK, install_trans
<1>4. Recovered' = Recovered
  BY <1>2, <1>3 DEF Recovered, install_trans
<1>5. Inside' = Inside
  BY DEF install_trans, Inside
<1>6. CASE phase = "rinstall"
  <2>1. View' = View
    BY <1>1, <1>4, <1>6 DEF View, Running
  <2> QED BY <1>4, <1>5, <2>1 DEF StoreStep, Store!avars, Inside
<1>7. CASE phase = "install"
  <2>1. IInv' /\ phase' = "install"
    BY <1>1, <1>7, InstallIInv
  <2>2. ASSUME NEW a \in Block
        PROVE  bread(a)' = bread(a)
    <3>1. CASE a = b
      <4>1. bread(a) = logdata[tail + 1]
        BY <1>1, <1>7, <3>1 DEF IInv, CopyInv
      <4>2. bread(a)' = logdata[tail + 1]
        BY <1>1, <3>1 DEF bread, install_trans, IInv, TypeOK
      <4> QED BY <4>1, <4>2
    <3>2. CASE a # b
      BY <1>1, <3>2 DEF bread, install_trans, IInv, TypeOK
    <3> QED BY <3>1, <3>2
  <2>3. [a \in Block |-> bread(a)]' = [a \in Block |-> bread(a)]
    BY <2>2
  <2>4. View' = View
    BY <1>1, <1>7, <2>3 DEF View, Running
  <2> QED BY <1>4, <1>5, <2>4 DEF StoreStep, Store!avars, Inside
<1> QED BY <1>1, <1>6, <1>7

\* Erasing the transaction is a stutter: the blocks are all home.
LEMMA ClearStep ==
  ASSUME IInv, clear_head
  PROVE  StoreStep
<1>1. /\ head = lh /\ tail = Len(lh) /\ head' = << >>
      /\ UNCHANGED <<home, bufs>> /\ home \in [Block -> Val]
      /\ phase \in {"install", "rinstall"} /\ phase' \in {"done", "up"}
      /\ Len(lh) \in Nat
  BY DEF IInv, TypeOK, HeadInv, clear_head, install_ended
<1>2. dirty = {}
  <2>1. CASE phase = "rinstall"
    BY <2>1 DEF IInv, BufInv
  <2>2. CASE phase = "install"
    BY <1>1, <2>2 DEF IInv, BufInv
  <2> QED BY <1>1, <2>1, <2>2
<1>3. [a \in Block |-> bread(a)] = home
  BY <1>2, CleanDisk
<1>4. [a \in Block |-> bread(a)]' = [a \in Block |-> bread(a)]
  BY <1>1 DEF bread
<1>5. View' = home
  BY <1>1, <1>3, <1>4 DEF View, Running
<1>6. Recovered' = home
  <2>1. ToSet(head') = {}
    BY <1>1 DEF ToSet
  <2> QED BY <1>1, <2>1 DEF Recovered
<1>7. Recovered = home
  <2>1. CASE phase = "install"
    BY <1>3, <2>1, InstallView
  <2>2. CASE phase = "rinstall"
    <3>1. ASSUME NEW b \in Block
          PROVE  Recovered[b] = home[b]
      BY <1>1, <2>2, RecoveredBlock DEF IInv, CopyInv
    <3> QED BY <1>1, <3>1 DEF Recovered
  <2> QED BY <1>1, <2>1, <2>2
<1>8. View = home
  BY <1>1, <1>3, <1>7 DEF View, Running
<1>9. Inside' = Inside
  BY DEF clear_head, Inside
<1> QED BY <1>5, <1>6, <1>7, <1>8, <1>9 DEF StoreStep, Store!avars, Inside

\* The end of a commit is a stutter.
LEMMA DoneStep ==
  ASSUME IInv, NEW o \in Op, commit_done(o)
  PROVE  StoreStep
<1>1. View' = View /\ Recovered' = Recovered
  BY SameView DEF commit_done, View, Running
<1>2. Inside' = Inside
  BY DEF commit_done, commit_wakes, Woken, Inside, IInv, TypeOK
<1> QED BY <1>1, <1>2 DEF StoreStep, Store!avars, Inside

\* The loss of power is Crash.
LEMMA CrashStep ==
  ASSUME IInv, PowerLoss
  PROVE  StoreStep
<1>1. Recovered' = Recovered
  BY DEF PowerLoss, Recovered
<1>2. View' = Recovered
  BY <1>1 DEF PowerLoss, View, Running
<1>3. Inside' = {}
  BY DEF PowerLoss, Inside
<1>4. Store!Crash
  BY <1>1, <1>2, <1>3 DEF Store!Crash, Inside
<1> QED BY <1>4 DEF StoreStep, Store!ANext

\* Reading the header is a stutter.
LEMMA ReadHeadStep ==
  ASSUME IInv, read_head
  PROVE  StoreStep
<1>1. View' = View /\ Recovered' = Recovered
  BY SameView DEF read_head, View, Running
<1>2. Inside' = Inside
  BY DEF read_head, Inside
<1> QED BY <1>1, <1>2 DEF StoreStep, Store!avars, Inside

\* Every step of the log is a step of the store or a stutter.
LEMMA NextStep ==
  ASSUME IInv, [Next]_vars
  PROVE  StoreStep
<1>1. CASE UNCHANGED vars
  BY <1>1 DEF vars, StoreStep, Store!avars, View, Running, Recovered, bread
<1>2. CASE Next
  BY <1>2, BeginStep, EndStep, DoneStep, WriteStep, EvictStep, WriteLogStep,
     WriteHeadStep, InstallStep, ClearStep, CrashStep, ReadHeadStep
     DEF Next
<1> QED BY <1>1, <1>2

\* The initial state maps to an initial state.
LEMMA InitStep ==
  ASSUME Init PROVE Store!AInit
<1>1. IInv /\ dirty = {} /\ home \in [Block -> Val] /\ head = << >>
      /\ phase = "up"
  BY InitIInv DEF Init
<1>2. View = home
  BY <1>1, CleanDisk DEF View, Running
<1>3. Recovered = home
  BY <1>1, NothingToRecover
<1>4. {o \in Op : op[o] \in {"in", "panic"}} = {}
  BY DEF Init
<1> QED BY <1>1, <1>2, <1>3, <1>4 DEF Store!AInit

\* The log makes groups of operations atomic: whatever write of commit or of
\* recovery a crash comes after, and however often recovery itself is cut off,
\* the file system finds the blocks as they were at a moment when no operation
\* was in progress.
THEOREM LogIsAtomic == Spec => CrashAtomic
<1>1. Init => Store!AInit
  BY InitStep
<1>2. IInv /\ [Next]_vars => [Store!ANext]_(Store!avars)
  BY NextStep DEF StoreStep
<1> QED BY <1>1, <1>2, Invariant, PTL DEF Spec, CrashAtomic, Store!ASpec

\* When log.lh is empty, everything the operations wrote is at home on the disk
\* and the header names no transaction.
THEOREM CommitIsDurable == Spec => []CommittedIsDurable
<1>1. IInv => CommittedIsDurable
  <2> SUFFICES ASSUME IInv, Running, lh = << >>
               PROVE  home = View /\ head = << >>
    BY DEF CommittedIsDurable
  <2>1. dirty = {}
    BY EmptyHead DEF IInv, BufInv
  <2>2. View = home
    BY <2>1, CleanDisk DEF View
  <2>3. head = << >>
    BY DEF IInv, TypeOK, Phases, HeadInv, Running
  <2> QED BY <2>2, <2>3
<1> QED BY <1>1, Invariant, PTL
=============================================================================
