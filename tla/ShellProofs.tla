---------------------------- MODULE ShellProofs -----------------------------
(***************************************************************************)
(* Proofs about Shell, for any tables of processes, files and descriptors  *)
(* and any lines and trees: the references of open files are exact, the    *)
(* prompt comes when everything in the foreground is done, and every       *)
(* program has the input and the output that the line gives it.            *)
(***************************************************************************)
EXTENDS Shell, FiniteSetTheorems, SequenceTheorems, WellFoundedInduction,
        TLAPS

(***************************************************************************)
(* The inductive invariant: calls, descriptors and references.             *)
(***************************************************************************)

\* The calls that a child of runcmd starts with, and all calls.
ChildCall ==
  [op : {"close"}, x : {0, 1, P0, P1}] \cup [op : {"dup"}, x : {P0, P1}]
    \cup [op : {"run"}, x : Command]
Call ==
  ChildCall \cup [op : {"open"}, x : Nat] \cup [op : {"exec"}, x : Seq(Nat)]
    \cup [op : {"pipe"}, x : Command] \cup [op : {"wait", "exit", "read"}, x : {0}]
    \cup [op : {"fork", "fork_back"}, x : Seq(ChildCall)]

CallInv == todo \in [Proc -> Seq(Call)]

\* A process that does not run has no descriptors.
Closed(o) == \A d \in Fd : o[d] = 0
IdleInv == \A q \in Proc : state[q] # "run" => Closed(ofile[q])

\* The descriptors that have f.
FdsOf(f) == {l \in Proc \X Fd : ofile[l[1]][l[2]] = f}
RefInv ==
  \A f \in File : ref[f] = Cardinality(FdsOf(f)) + Cardinality({q \in Proc : rf[q] = f})
                             + (IF f = 1 THEN 3 ELSE 0)

FInv == TypeOK /\ CallInv /\ IdleInv /\ RefInv

(***************************************************************************)
(* The inductive invariant: forks and waits.                               *)
(***************************************************************************)

\* A parent runs, and what a background command starts is in the background.
ParentInv ==
  \A c \in Proc :
    /\ state[c] = "unused" => parent[c] = init /\ c \notin back
    /\ parent[c] # init => state[parent[c]] = "run" /\ (parent[c] \in back => c \in back)

\* Nobody is their own ancestor.
TreeInv ==
  \A S \in SUBSET Proc : S # {} => \E c \in S : parent[c] \notin S

\* Calls that neither fork nor wait.
PlainFrom(s, k) ==
  \A i \in k .. Len(s) : s[i].op \in {"close", "dup", "open", "exec", "read", "run", "exit"}

\* f forks, c closes and w waits come first, and then neither.
Begins(s, f, c, w) ==
  /\ f + c + w <= Len(s)
  /\ \A i \in 1 .. f : s[i].op = "fork"
  /\ \A i \in f + 1 .. f + c : s[i].op = "close"
  /\ \A i \in f + c + 1 .. f + c + w : s[i].op = "wait"
  /\ PlainFrom(s, f + c + w + 1)

\* A process with the calls s to make has n children that it will wait for.
Forks(s, n) == \E f, c, w \in Nat : Begins(s, f, c, w) /\ n + f = w
Owes(s, n) ==
  \/ Forks(s, n)
  \/ s # << >> /\ Head(s).op = "pipe" /\ n = 0 /\ Forks(Tail(s), 0)
  \/ /\ Len(s) >= 2 /\ s[1].op = "fork_back" /\ s[2].op = "exit" /\ n = 0
     /\ PlainFrom(s, 2)

\* The children of q in the foreground.
Kids(q) == {c \in Proc : parent[c] = q /\ state[c] # "unused" /\ c \notin back}

\* A process in the foreground will wait for its children there; one that has
\* put a command into the background exits.
WaitInv ==
  ~failed => \A q \in Proc : state[q] = "run" /\ q \notin back =>
               Owes(todo[q], Cardinality(Kids(q)))
BackInv ==
  ~failed => \A c \in Proc : c \in back /\ parent[c] # init /\ parent[c] \notin back =>
               At(parent[c], {"exit"})

\* The shell, and the parents of processes in the foreground.
ShellInv ==
  /\ state[sh] = "run" /\ parent[sh] = init /\ sh \notin back
  /\ todo[sh] # << >> => Head(todo[sh]).op \in {"fork", "wait"}
  /\ \A i \in 1 .. Len(todo[sh]) : todo[sh][i].op \in {"fork", "wait"}
  /\ line = None => todo[sh] = << >>
  /\ ~failed => \A c \in Proc \ {sh} :
                  state[c] = "run" /\ c \notin back => parent[c] # init

GInv == FInv /\ ParentInv /\ TreeInv /\ WaitInv /\ BackInv /\ ShellInv

-----------------------------------------------------------------------------
(* Counting descriptors *)

Hit(x, t) == IF x = t THEN 1 ELSE 0

\* The places of D at which T has t.
Count(D, T, t) == Cardinality({d \in D : T[d] = t})
SameBut(D, T, U, x) == \A d \in D : d # x => U[d] = T[d]

LEMMA Bounds == /\ NPROC \in Nat /\ NFILE \in Nat /\ NOFILE \in Nat /\ NOFILE >= 3
                /\ sh \in Proc /\ 1 \in File /\ 0 \in Fd /\ 1 \in Fd /\ 0 \notin File
                /\ init \notin Proc /\ None \notin Nat /\ None \notin File
                /\ None \notin Fd /\ Fd \subseteq Nat /\ File \subseteq Nat /\ Proc \subseteq Nat
  BY ShellAssumption DEF Proc, File, Fd, sh, init

LEMMA FiniteSets1 == IsFiniteSet(Proc) /\ IsFiniteSet(File) /\ IsFiniteSet(Fd)
  BY Bounds, FS_Interval DEF Proc, File, Fd

\* The number of places with t changes with the one place that changes.
LEMMA CountChange ==
  ASSUME NEW D, IsFiniteSet(D), NEW T, NEW U, NEW x \in D, NEW t, SameBut(D, T, U, x)
  PROVE  /\ Count(D, U, t) = Count(D, T, t) + Hit(U[x], t) - Hit(T[x], t)
         /\ Count(D, T, t) \in Nat /\ Count(D, U, t) \in Nat
<1>0. \A d \in D : d # x => U[d] = T[d]
  BY DEF SameBut
<1> DEFINE A == {d \in D : T[d] = t}
           B == {d \in D : U[d] = t}
           C == {d \in D \ {x} : T[d] = t}
<1>1. IsFiniteSet(A) /\ IsFiniteSet(B) /\ IsFiniteSet(C)
  BY FS_Subset
<1>2. Cardinality(A) \in Nat /\ Cardinality(B) \in Nat /\ Cardinality(C) \in Nat
  BY <1>1, FS_CardinalityType
<1>3. x \notin C
  OBVIOUS
<1>4. Cardinality(C \cup {x}) = Cardinality(C) + 1
  BY <1>1, <1>3, FS_AddElement
<1>5. Cardinality(A) = Cardinality(C) + Hit(T[x], t)
  <2>1. CASE T[x] = t
    <3>1. A = C \cup {x}
      BY <2>1
    <3> QED BY <1>4, <2>1, <3>1 DEF Hit
  <2>2. CASE T[x] # t
    <3>1. A = C
      BY <2>2
    <3> QED BY <1>2, <2>2, <3>1 DEF Hit
  <2> QED BY <2>1, <2>2
<1>6. Cardinality(B) = Cardinality(C) + Hit(U[x], t)
  <2>1. CASE U[x] = t
    <3>1. B = C \cup {x}
      BY <1>0, <2>1
    <3> QED BY <1>4, <2>1, <3>1 DEF Hit
  <2>2. CASE U[x] # t
    <3>1. B = C /\ Hit(U[x], t) = 0
      BY <1>0, <2>2 DEF Hit
    <3> HIDE DEF A, B, C
    <3> QED BY <1>2, <3>1
  <2> QED BY <2>1, <2>2
<1>7. Hit(T[x], t) \in {0, 1} /\ Hit(U[x], t) \in {0, 1}
  BY DEF Hit
<1> HIDE DEF A, B, C
<1>8. Cardinality(B) = Cardinality(A) + Hit(U[x], t) - Hit(T[x], t)
  BY <1>2, <1>5, <1>6, <1>7
<1> QED BY <1>2, <1>8 DEF A, B, Count

\* The descriptors of all processes that have f.
FdCount(T, f) == Cardinality({l \in Proc \X Fd : T[l[1]][l[2]] = f})
Row(o, f) == Count(Fd, o, f)

LEMMA RowNat == \A o, f : Row(o, f) \in Nat
<1> SUFFICES ASSUME NEW o, NEW f PROVE Row(o, f) \in Nat
  OBVIOUS
<1>1. IsFiniteSet({d \in Fd : o[d] = f})
  BY FiniteSets1, FS_Subset
<1> QED BY <1>1, FS_CardinalityType DEF Row, Count

\* The count changes with the one process whose descriptors change.
LEMMA RowChange ==
  ASSUME NEW T, NEW U, NEW q \in Proc, NEW f, SameBut(Proc, T, U, q)
  PROVE  /\ FdCount(U, f) = FdCount(T, f) - Row(T[q], f) + Row(U[q], f)
         /\ FdCount(T, f) \in Nat /\ FdCount(U, f) \in Nat
<1> DEFINE R == {l \in (Proc \ {q}) \X Fd : T[l[1]][l[2]] = f}
           Of(V) == {l \in Proc \X Fd : V[l[1]][l[2]] = f}
           Mine(V) == {q} \X {d \in Fd : V[q][d] = f}
<1>1. IsFiniteSet(Proc \X Fd)
  BY FiniteSets1, FS_Product
<1>2. IsFiniteSet(R) /\ Cardinality(R) \in Nat
  <2>1. R \subseteq Proc \X Fd
    OBVIOUS
  <2> QED BY <1>1, <2>1, FS_Subset, FS_CardinalityType
<1>3. ASSUME NEW V, \A r \in Proc \ {q} : V[r] = T[r]
      PROVE  FdCount(V, f) = Cardinality(R) + Row(V[q], f) /\ FdCount(V, f) \in Nat
  <2>1. Of(V) = R \cup Mine(V)
    <3>1. ASSUME NEW l \in Of(V) PROVE l \in R \cup Mine(V)
      BY <1>3
    <3>2. ASSUME NEW l \in R PROVE l \in Of(V)
      BY <1>3
    <3>3. ASSUME NEW l \in Mine(V) PROVE l \in Of(V)
      OBVIOUS
    <3> QED BY <3>1, <3>2, <3>3
  <2>2. R \cap Mine(V) = {}
    OBVIOUS
  <2>3. IsFiniteSet({q}) /\ Cardinality({q}) = 1
    BY FS_Singleton
  <2>4. IsFiniteSet({d \in Fd : V[q][d] = f}) /\ Cardinality({d \in Fd : V[q][d] = f}) \in Nat
    BY FiniteSets1, FS_Subset, FS_CardinalityType
  <2>5. IsFiniteSet(Mine(V)) /\ Cardinality(Mine(V)) = Cardinality({d \in Fd : V[q][d] = f})
    <3>1. /\ IsFiniteSet(Mine(V))
          /\ Cardinality(Mine(V)) = Cardinality({q}) * Cardinality({d \in Fd : V[q][d] = f})
      BY <2>3, <2>4, FS_Product
    <3> HIDE DEF Mine
    <3> QED BY <2>3, <2>4, <3>1
  <2>6. Cardinality(R \cup Mine(V)) = Cardinality(R) + Cardinality(Mine(V)) - Cardinality(R \cap Mine(V))
    BY <1>2, <2>5, FS_Union
  <2>7. Cardinality({}) = 0
    BY FS_EmptySet
  <2>8. FdCount(V, f) = Cardinality(Of(V))
    BY DEF FdCount
  <2>9. Row(V[q], f) = Cardinality({d \in Fd : V[q][d] = f})
    BY DEF Row, Count
  <2> HIDE DEF R, Mine, Of
  <2>10. Cardinality(Of(V)) = Cardinality(R) + Cardinality(Mine(V)) - 0
    BY <2>1, <2>2, <2>6, <2>7
  <2> QED BY <1>2, <2>4, <2>5, <2>8, <2>9, <2>10
<1>4. FdCount(T, f) = Cardinality(R) + Row(T[q], f) /\ FdCount(T, f) \in Nat
  BY <1>3
<1>5. FdCount(U, f) = Cardinality(R) + Row(U[q], f) /\ FdCount(U, f) \in Nat
  <2>1. \A r \in Proc \ {q} : U[r] = T[r]
    BY DEF SameBut
  <2> HIDE DEF R
  <2> QED BY <1>3, <2>1
<1> HIDE DEF R
<1> QED BY <1>2, <1>4, <1>5, RowNat

\* One descriptor changes.
SetFd(o, d, v) == [o EXCEPT ![d] = v]

LEMMA OneFd ==
  \A o \in [Fd -> File \cup {0}], d \in Fd : \A v, f :
    /\ Row(SetFd(o, d, v), f) = Row(o, f) + Hit(v, f) - Hit(o[d], f)
    /\ Row(o, f) \in Nat
<1> SUFFICES ASSUME NEW o \in [Fd -> File \cup {0}], NEW d \in Fd, NEW v, NEW f
             PROVE  /\ Row(SetFd(o, d, v), f) = Row(o, f) + Hit(v, f) - Hit(o[d], f)
                    /\ Row(o, f) \in Nat
  OBVIOUS
<1> DEFINE u == [o EXCEPT ![d] = v]
<1>1. SameBut(Fd, o, u, d) /\ u[d] = v
  BY DEF SameBut
<1> HIDE DEF u
<1>2. Count(Fd, u, f) = Count(Fd, o, f) + Hit(u[d], f) - Hit(o[d], f) /\ Count(Fd, o, f) \in Nat
  BY <1>1, FiniteSets1, CountChange
<1> QED BY <1>1, <1>2 DEF Row, u, SetFd

LEMMA RowClosed ==
  ASSUME NEW o, Closed(o), NEW f \in File PROVE Row(o, f) = 0
<1>1. {d \in Fd : o[d] = f} = {}
  BY Bounds DEF Closed
<1> QED BY <1>1, FS_EmptySet DEF Row, Count

LEMMA RowAll == ASSUME NEW f \in File PROVE Row([d \in Fd |-> 0], f) = 0
  BY RowClosed DEF Closed

(***************************************************************************)
(* Steps that change the descriptors of one process.                       *)
(***************************************************************************)

RefsAt(o, h, f) == FdCount(o, f) + Count(Proc, h, f) + (IF f = 1 THEN 3 ELSE 0)

LEMMA RefsAtIs == RefInv <=> \A f \in File : ref[f] = RefsAt(ofile, rf, f)
  BY DEF RefInv, RefsAt, FdsOf, FdCount, Count
LEMMA RefsAtNext == RefInv' <=> \A f \in File : ref'[f] = RefsAt(ofile', rf', f)
  BY DEF RefInv, RefsAt, FdsOf, FdCount, Count

\* The reference counts stay exact when they change with the descriptors of q
\* and with its half of a pipe.
LEMMA RefStep ==
  ASSUME RefInv, NEW q \in Proc,
         SameBut(Proc, ofile, ofile', q), SameBut(Proc, rf, rf', q),
         \A f \in File : ref'[f] = ref[f] - Row(ofile[q], f) + Row(ofile'[q], f)
                                     - Hit(rf[q], f) + Hit(rf'[q], f)
  PROVE  RefInv' /\ \A f \in File : ref'[f] \in Nat
<1> SUFFICES ASSUME NEW f \in File
             PROVE  ref'[f] = RefsAt(ofile', rf', f) /\ ref'[f] \in Nat
  BY RefsAtNext
<1>1. ref[f] = RefsAt(ofile, rf, f)
  BY RefsAtIs
<1>2. /\ FdCount(ofile', f) = FdCount(ofile, f) - Row(ofile[q], f) + Row(ofile'[q], f)
      /\ FdCount(ofile, f) \in Nat /\ FdCount(ofile', f) \in Nat
  BY RowChange
<1>3. /\ Count(Proc, rf', f) = Count(Proc, rf, f) + Hit(rf'[q], f) - Hit(rf[q], f)
      /\ Count(Proc, rf, f) \in Nat /\ Count(Proc, rf', f) \in Nat
  BY FiniteSets1, CountChange
<1>4. Row(ofile[q], f) \in Nat /\ Row(ofile'[q], f) \in Nat
  BY RowNat
<1>5. Hit(rf[q], f) \in {0, 1} /\ Hit(rf'[q], f) \in {0, 1}
  BY DEF Hit
<1>6. ref'[f] = ref[f] - Row(ofile[q], f) + Row(ofile'[q], f) - Hit(rf[q], f) + Hit(rf'[q], f)
  OBVIOUS
<1> QED BY <1>1, <1>2, <1>3, <1>4, <1>5, <1>6 DEF RefsAt

\* The least of a set of numbers, as filealloc, fdalloc and allocproc take it.
LEMMA LeastOf ==
  ASSUME NEW T \in SUBSET Nat, T # {}
  PROVE  Min(T) \in T
<1> DEFINE R == {ss \in Nat \X Nat : ss[1] < ss[2]}
<1>1. IsWellFoundedOn(R, Nat)
  BY NatLessThanWellFounded DEF OpToRel
<1>2. PICK x \in T : \A y \in T : ~(<<y, x>> \in R)
  <2> HIDE DEF R
  <2> QED BY <1>1, WFMin
<1>3. \A y \in T : ~(y < x)
  BY <1>2
<1>4. \A y \in T : x =< y
  BY <1>3
<1> QED BY <1>4 DEF Min

LEMMA FdOk ==
  ASSUME NEW o \in [Fd -> File \cup {0}], fdalloc(o) # None
  PROVE  fdalloc(o) \in Fd /\ o[fdalloc(o)] = 0
<1> DEFINE Z == {d \in Fd : o[d] = 0}
<1>1. Z # {} /\ fdalloc(o) = Min(Z) /\ Z \in SUBSET Nat
  BY Bounds DEF fdalloc
<1>2. Min(Z) \in Z
  BY <1>1, LeastOf
<1> QED BY <1>1, <1>2

LEMMA FileOk ==
  ASSUME ref \in [File -> Nat], Unused(ref) # {}
  PROVE  Min(Unused(ref)) \in File /\ ref[Min(Unused(ref))] = 0
<1>1. Unused(ref) \in SUBSET Nat
  BY Bounds DEF Unused
<1>2. Min(Unused(ref)) \in Unused(ref)
  BY <1>1, LeastOf
<1> QED BY <1>2 DEF Unused

-----------------------------------------------------------------------------
(* The calls of a process *)

LEMMA HeadTail ==
  ASSUME NEW S, NEW s \in Seq(S), s # << >>
  PROVE  /\ Head(s) \in S /\ Tail(s) \in Seq(S) /\ Head(s) = s[1]
         /\ Len(s) \in Nat /\ Len(s) >= 1 /\ Len(Tail(s)) = Len(s) - 1
         /\ \A i \in 1 .. Len(s) - 1 : Tail(s)[i] = s[i + 1]
<1>1. Len(s) \in Nat /\ Len(s) # 0
  BY EmptySeq, LenProperties
<1>2. Head(s) \in S /\ Head(s) = s[1]
  BY <1>1, ElementOfSeq
<1>3. Tail(s) \in Seq(S) /\ Len(Tail(s)) = Len(s) - 1
  BY HeadTailProperties
<1>4. \A i \in 1 .. Len(s) - 1 : Tail(s)[i] = s[i + 1]
  BY HeadTailProperties
<1> QED BY <1>1, <1>2, <1>3, <1>4

LEMMA CallX ==
  ASSUME NEW c \in Call
  PROVE  /\ c.op \in {"close", "dup", "run", "open", "exec", "pipe", "wait", "exit",
                      "read", "fork", "fork_back"}
         /\ c.op = "close" => c.x \in {0, 1, P0, P1}
         /\ c.op = "dup" => c.x \in {P0, P1}
         /\ c.op = "run" => c.x \in Command
         /\ c.op = "open" => c.x \in Nat
         /\ c.op = "exec" => c.x \in Seq(Nat)
         /\ c.op = "pipe" => c.x \in Command
         /\ c.op \in {"fork", "fork_back"} => c.x \in Seq(ChildCall)
  BY DEF Call, ChildCall

LEMMA AtCall ==
  ASSUME CallInv, NEW q \in Proc, NEW S, At(q, S)
  PROVE  /\ todo[q] \in Seq(Call) /\ todo[q] # << >> /\ state[q] = "run"
         /\ Head(todo[q]) \in Call /\ Tail(todo[q]) \in Seq(Call)
         /\ Head(todo[q]).op \in S
<1>1. todo[q] \in Seq(Call) /\ todo[q] # << >> /\ state[q] = "run" /\ Head(todo[q]).op \in S
  BY DEF CallInv, At
<1> QED BY <1>1, HeadTail

LEMMA DoneCall ==
  ASSUME CallInv, NEW q \in Proc, NEW S, At(q, S), Done(q)
  PROVE  CallInv'
<1>1. Tail(todo[q]) \in Seq(Call)
  BY AtCall
<1> QED BY <1>1 DEF CallInv, Done

LEMMA ExitCall == exit \in Call /\ wait \in Call /\ call("read", 0) \in Call
  BY DEF exit, wait, call, Call

LEMMA FailsCall ==
  ASSUME CallInv, NEW q \in Proc, Fails(q)
  PROVE  CallInv'
<1>1. <<exit>> \in Seq(Call)
  BY ExitCall
<1> QED BY <1>1 DEF CallInv, Fails

LEMMA RunCall ==
  ASSUME NEW c \in Command
  PROVE  Run(c) \in Seq(ChildCall) /\ Run(c) \in Seq(Call)
<1>1. call("run", c) \in ChildCall /\ call("run", c) \in Call
  BY DEF call, ChildCall, Call
<1> QED BY <1>1 DEF Run

LEMMA ConcatCall ==
  ASSUME NEW S, NEW s \in Seq(S), NEW t \in Seq(S)
  PROVE  s \o t \in Seq(S)
  BY ConcatProperties

\* The calls that runcmd makes.
LEMMA RuncmdCall ==
  ASSUME NEW c \in Command
  PROVE  runcmd(c) \in Seq(Call)
<1>0. IsCommand(c)
  BY TreeAssumption
<1>1. /\ \A x \in {0, 1, P0, P1} : call("close", x) \in Call /\ call("close", x) \in ChildCall
      /\ \A x \in {P0, P1} : call("dup", x) \in Call /\ call("dup", x) \in ChildCall
      /\ \A x \in Nat : call("open", x) \in Call
      /\ \A x \in Seq(Nat) : call("exec", x) \in Call
      /\ \A x \in Command : call("pipe", x) \in Call
      /\ \A x \in Seq(ChildCall) : call("fork", x) \in Call /\ call("fork_back", x) \in Call
  BY DEF Call, ChildCall, call
<1>2. CASE c.type = "PANIC"
  <2>1. runcmd(c) = <<exit>>
    BY <1>2 DEF runcmd
  <2> QED BY <2>1, ExitCall
<1>3. CASE c.type = "EXEC"
  <2>1. runcmd(c) \in {<<exit>>, <<call("exec", c.argv), exit>>} /\ c.argv \in Seq(Nat)
    BY <1>0, <1>3 DEF runcmd, IsCommand
  <2>2. call("exec", c.argv) \in Call
    BY <1>1, <2>1
  <2>3. <<exit>> \in Seq(Call) /\ <<call("exec", c.argv), exit>> \in Seq(Call)
    BY <2>2, ExitCall
  <2> QED BY <2>1, <2>3
<1>4. CASE c.type = "REDIR"
  <2>1. /\ runcmd(c) = <<call("close", c.fd), call("open", c.file)>> \o Run(c.cmd)
        /\ c.cmd \in Command /\ c.file \in Nat /\ c.fd \in {0, 1, P0, P1}
    BY <1>0, <1>4 DEF runcmd, IsCommand
  <2>2. <<call("close", c.fd), call("open", c.file)>> \in Seq(Call)
    BY <1>1, <2>1
  <2> QED BY <2>1, <2>2, RunCall, ConcatCall
<1>5. CASE c.type = "LIST"
  <2>1. /\ runcmd(c) = <<call("fork", Run(c.left)), wait>> \o Run(c.right)
        /\ c.left \in Command /\ c.right \in Command
    BY <1>0, <1>5 DEF runcmd, IsCommand
  <2>2. <<call("fork", Run(c.left)), wait>> \in Seq(Call)
    BY <1>1, <2>1, RunCall, ExitCall
  <2> QED BY <2>1, <2>2, RunCall, ConcatCall
<1>6. CASE c.type = "PIPE"
  <2>1. /\ runcmd(c) = <<call("pipe", c), call("fork", left_end(c)),
                         call("fork", right_end(c)), call("close", P0), call("close", P1)>>
                         \o pipe_waits \o <<exit>>
        /\ c.left \in Command /\ c.right \in Command
    BY <1>0, <1>6 DEF runcmd, IsCommand
  <2>2. left_end(c) \in Seq(ChildCall)
    <3>1. <<call("close", 1), call("dup", P1), call("close", P0), call("close", P1)>>
            \in Seq(ChildCall)
      BY <1>1
    <3> QED BY <2>1, <3>1, RunCall, ConcatCall DEF left_end
  <2>3. right_end(c) \in Seq(ChildCall)
    <3>1. <<call("close", 0), call("dup", P0), call("close", P0), call("close", P1)>>
            \in Seq(ChildCall)
      BY <1>1
    <3> QED BY <2>1, <3>1, RunCall, ConcatCall DEF right_end
  <2>4. <<call("pipe", c), call("fork", left_end(c)), call("fork", right_end(c)),
          call("close", P0), call("close", P1)>> \in Seq(Call)
    BY <1>1, <2>2, <2>3
  <2>5. pipe_waits \in Seq(Call) /\ <<exit>> \in Seq(Call)
    BY ExitCall DEF pipe_waits
  <2>6. <<call("pipe", c), call("fork", left_end(c)), call("fork", right_end(c)),
          call("close", P0), call("close", P1)>> \o pipe_waits \in Seq(Call)
    BY <2>4, <2>5, ConcatCall
  <2> QED BY <2>1, <2>5, <2>6, ConcatCall
<1>7. CASE c.type = "BACK"
  <2>1. runcmd(c) = <<call("fork_back", Run(c.cmd)), exit>> /\ c.cmd \in Command
    BY <1>0, <1>7 DEF runcmd, IsCommand
  <2>2. call("fork_back", Run(c.cmd)) \in Call
    BY <1>1, <2>1, RunCall
  <2> QED BY <2>1, <2>2, ExitCall
<1> QED BY <1>0, <1>2, <1>3, <1>4, <1>5, <1>6, <1>7 DEF IsCommand

-----------------------------------------------------------------------------
(* The steps keep FInv *)

LEMMA Three == Cardinality({0, 1, 2}) = 3
<1>1. IsFiniteSet({}) /\ Cardinality({}) = 0
  BY FS_EmptySet
<1>2. IsFiniteSet({} \cup {0}) /\ Cardinality({} \cup {0}) = 1
  BY <1>1, FS_AddElement
<1>3. IsFiniteSet(({} \cup {0}) \cup {1}) /\ Cardinality(({} \cup {0}) \cup {1}) = 2
  BY <1>2, FS_AddElement
<1>4. Cardinality((({} \cup {0}) \cup {1}) \cup {2}) = 3
  BY <1>3, FS_AddElement
<1>5. (({} \cup {0}) \cup {1}) \cup {2} = {0, 1, 2}
  OBVIOUS
<1> QED BY <1>4, <1>5

LEMMA FInit == Init => FInv
<1> SUFFICES ASSUME Init PROVE FInv
  OBVIOUS
<1> USE DEF Init
<1>1. TypeOK
  BY Bounds DEF TypeOK
<1>2. CallInv
  BY DEF CallInv
<1>3. IdleInv
  BY DEF IdleInv, Closed
<1>4. RefInv
  <2> SUFFICES ASSUME NEW f \in File PROVE ref[f] = RefsAt(ofile, rf, f)
    BY RefsAtIs
  <2> DEFINE o == [q \in Proc |-> [d \in Fd |-> 0]]
  <2>1. FdCount(o, f) = 0
    <3>1. {l \in Proc \X Fd : o[l[1]][l[2]] = f} = {}
      BY Bounds
    <3> QED BY <3>1, FS_EmptySet DEF FdCount
  <2>2. SameBut(Proc, o, ofile, sh) /\ o[sh] = [d \in Fd |-> 0]
    BY Bounds DEF SameBut
  <2>3. Row(o[sh], f) = 0
    BY <2>2, RowAll
  <2>4. FdCount(ofile, f) = Row(ofile[sh], f)
    <3> HIDE DEF o, Init
    <3>1. /\ FdCount(ofile, f) = FdCount(o, f) - Row(o[sh], f) + Row(ofile[sh], f)
      BY <2>2, RowChange, Bounds
    <3> QED BY <2>1, <2>3, <3>1, RowNat
  <2>5. Row(ofile[sh], f) = IF f = 1 THEN 3 ELSE 0
    <3>1. CASE f = 1
      <4>1. {d \in Fd : ofile[sh][d] = f} = {0, 1, 2}
        BY <3>1, Bounds DEF Fd
      <4> QED BY <3>1, <4>1, Three DEF Row, Count
    <3>2. CASE f # 1
      <4>1. {d \in Fd : ofile[sh][d] = f} = {}
        BY <3>2, Bounds DEF Fd
      <4> QED BY <3>2, <4>1, FS_EmptySet DEF Row, Count
    <3> QED BY <3>1, <3>2
  <2>6. Count(Proc, rf, f) = 0
    <3>1. {q \in Proc : rf[q] = f} = {}
      BY Bounds
    <3> QED BY <3>1, FS_EmptySet DEF Count
  <2>7. ref[f] = IF f = 1 THEN 6 ELSE 0
    OBVIOUS
  <2> HIDE DEF Init
  <2> QED BY <2>4, <2>5, <2>6, <2>7 DEF RefsAt
<1> QED BY <1>1, <1>2, <1>3, <1>4 DEF FInv

\* Steps that leave descriptors, references and states alone.
LEMMA FQuiet ==
  ASSUME FInv, CallInv', UNCHANGED <<state, parent, ofile, ref, p, rf, back>>,
         line' \in Lines \cup {None}, failed' \in BOOLEAN,
         running' \in [Proc -> Seq(Nat) \cup {None}]
  PROVE  FInv'
<1>1. TypeOK'
  BY DEF FInv, TypeOK
<1>2. IdleInv'
  BY DEF FInv, IdleInv, Closed
<1>3. RefInv'
  BY DEF FInv, RefInv, FdsOf
<1> QED BY <1>1, <1>2, <1>3 DEF FInv

LEMMA Unchanging ==
  ASSUME FInv, UNCHANGED vars
  PROVE  FInv'
<1>1. UNCHANGED <<state, parent, ofile, todo, ref, p, rf, back, line, failed, running>>
  BY DEF vars, procs, files
<1>2. CallInv'
  BY <1>1 DEF FInv, CallInv
<1> QED BY <1>1, <1>2, FQuiet DEF FInv, TypeOK

LEMMA FType ==
  ASSUME FInv, NEW s \in Lines, Type(s)
  PROVE  FInv'
<1>1. tree(s) \in Command
  BY TreeAssumption
<1>2. call("fork", Run(tree(s))) \in Call
  BY <1>1, RunCall DEF call, Call
<1>3. <<call("fork", Run(tree(s))), wait>> \in Seq(Call)
  BY <1>2, ExitCall
<1>4. CallInv'
  BY <1>3 DEF FInv, CallInv, Type
<1> QED BY <1>4, FQuiet DEF Type, FInv, TypeOK, files

LEMMA FRuncmd ==
  ASSUME FInv, NEW q \in Proc, Runcmd(q)
  PROVE  FInv'
<1>0. CallInv
  BY DEF FInv
<1>1. At(q, {"run"}) /\ todo' = [todo EXCEPT ![q] = runcmd(X(q)) \o Tail(@)]
  BY DEF Runcmd
<1>2. X(q) \in Command /\ Tail(todo[q]) \in Seq(Call)
  BY <1>0, <1>1, AtCall, CallX DEF X
<1>3. runcmd(X(q)) \o Tail(todo[q]) \in Seq(Call)
  BY <1>2, RuncmdCall, ConcatCall
<1>4. CallInv'
  BY <1>0, <1>1, <1>3 DEF CallInv
<1> QED BY <1>4, FQuiet DEF Runcmd, FInv, TypeOK, files

LEMMA FExec ==
  ASSUME FInv, NEW q \in Proc, Exec(q)
  PROVE  FInv'
<1>0. CallInv /\ TypeOK
  BY DEF FInv
<1>1. At(q, {"exec"})
  BY DEF Exec
<1>2. X(q) \in Seq(Nat)
  BY <1>0, <1>1, AtCall, CallX DEF X
<1>3. running' \in [Proc -> Seq(Nat) \cup {None}]
  BY <1>0, <1>2 DEF Exec, TypeOK
<1>4. CallInv'
  <2>1. CASE todo' = [todo EXCEPT ![q] = <<call("read", 0), exit>>]
    <3>1. <<call("read", 0), exit>> \in Seq(Call)
      BY ExitCall
    <3> QED BY <1>0, <2>1, <3>1 DEF CallInv
  <2>2. CASE Fails(q)
    BY <1>0, <2>2, FailsCall
  <2> QED BY <2>1, <2>2 DEF Exec
<1> QED BY <1>0, <1>3, <1>4, FQuiet DEF Exec, TypeOK, files

LEMMA FRead ==
  ASSUME FInv, NEW q \in Proc, ReadToEnd(q)
  PROVE  FInv'
<1>1. CallInv'
  BY DoneCall DEF FInv, ReadToEnd
<1> QED BY <1>1, FQuiet DEF ReadToEnd, FInv, TypeOK, files

\* A step that gives q the descriptors o and the half h of a pipe.
FdStep(q, o, h) ==
  /\ state[q] = "run" /\ UNCHANGED <<line, state, parent, running, back, failed>>
  /\ o \in [Fd -> File \cup {0}] /\ ofile' = [ofile EXCEPT ![q] = o]
  /\ h \in File \cup {None} /\ rf' = [rf EXCEPT ![q] = h]
  /\ p' \in [Proc -> Fd \X Fd] /\ ref' = [f \in File |-> ref'[f]]
  /\ \A f \in File : ref'[f] = ref[f] - Row(ofile[q], f) + Row(o, f)
                                 - Hit(rf[q], f) + Hit(h, f)

LEMMA FFds ==
  ASSUME FInv, NEW q \in Proc, CallInv', NEW o, NEW h, FdStep(q, o, h)
  PROVE  FInv'
<1>0. TypeOK /\ IdleInv /\ RefInv
  BY DEF FInv
<1>1. ofile'[q] = o /\ SameBut(Proc, ofile, ofile', q) /\ rf'[q] = h /\ SameBut(Proc, rf, rf', q)
  BY <1>0 DEF TypeOK, SameBut, FdStep
<1>2. \A f \in File : ref'[f] = ref[f] - Row(ofile[q], f) + Row(ofile'[q], f)
                                  - Hit(rf[q], f) + Hit(rf'[q], f)
  BY <1>1 DEF FdStep
<1>3. RefInv' /\ \A f \in File : ref'[f] \in Nat
  BY <1>0, <1>1, <1>2, RefStep
<1>4. ref' \in [File -> Nat]
  BY <1>3 DEF FdStep
<1>5. TypeOK'
  BY <1>0, <1>4 DEF TypeOK, FdStep
<1>6. IdleInv'
  BY <1>0 DEF IdleInv, TypeOK, FdStep
<1> QED BY <1>3, <1>5, <1>6 DEF FInv

\* The descriptor that a call names.
LEMMA FdNamed ==
  ASSUME FInv, NEW q \in Proc, NEW x \in {0, 1, P0, P1}
  PROVE  fd(q, x) \in Fd
<1>1. p[q][1] \in Fd /\ p[q][2] \in Fd
  BY DEF FInv, TypeOK
<1> QED BY <1>1, Bounds DEF fd, P0, P1

LEMMA FClose ==
  ASSUME FInv, NEW q \in Proc, Close(q)
  PROVE  FInv'
<1>0. TypeOK /\ CallInv
  BY DEF FInv
<1>1. At(q, {"close"}) /\ Done(q) /\ UNCHANGED <<line, state, parent, p, rf, running, back, failed>>
  BY DEF Close
<1>2. CallInv'
  BY <1>0, <1>1, DoneCall
<1> DEFINE d == fd(q, X(q))
           f == ofile[q][d]
<1>3. d \in Fd
  <2>1. X(q) \in {0, 1, P0, P1}
    BY <1>0, <1>1, AtCall, CallX DEF X
  <2> QED BY <2>1, FdNamed
<1>4. CASE f = 0
  BY <1>0, <1>1, <1>2, <1>4, FQuiet DEF Close, files, TypeOK
<1>5. CASE f # 0
  <2>1. ofile' = [ofile EXCEPT ![q][d] = 0] /\ ref' = [ref EXCEPT ![f] = @ - 1]
    BY <1>5 DEF Close, fileclose
  <2>2. f \in File /\ ofile[q] \in [Fd -> File \cup {0}]
    BY <1>0, <1>3, <1>5 DEF TypeOK
  <2> DEFINE o == [ofile[q] EXCEPT ![d] = 0]
  <2>3. o \in [Fd -> File \cup {0}] /\ ofile' = [ofile EXCEPT ![q] = o]
    BY <1>0, <2>1, <2>2 DEF TypeOK
  <2>4. rf' = [rf EXCEPT ![q] = rf[q]] /\ rf[q] \in File \cup {None} /\ p' \in [Proc -> Fd \X Fd]
    BY <1>0, <1>1 DEF TypeOK
  <2>5. ASSUME NEW g \in File
        PROVE  ref'[g] = ref[g] - Row(ofile[q], g) + Row(o, g) - Hit(rf[q], g) + Hit(rf[q], g)
    <3>0. /\ Row(SetFd(ofile[q], d, 0), g) = Row(ofile[q], g) + Hit(0, g) - Hit(ofile[q][d], g)
          /\ Row(ofile[q], g) \in Nat
      BY <1>3, <2>2, OneFd
    <3>1. Row(o, g) = Row(ofile[q], g) + Hit(0, g) - Hit(f, g) /\ Row(ofile[q], g) \in Nat
      BY <3>0 DEF SetFd
    <3>2. Hit(0, g) = 0 /\ Hit(rf[q], g) \in {0, 1} /\ Hit(f, g) \in {0, 1}
      BY Bounds DEF Hit
    <3>3. ref'[g] = ref[g] - Hit(f, g) /\ ref[g] \in Nat
      BY <1>0, <2>1, <2>2 DEF TypeOK, Hit
    <3> HIDE DEF d, f, o
    <3> QED BY <3>1, <3>2, <3>3
  <2>6. ref' = [g \in File |-> ref'[g]]
    BY <1>0, <2>1 DEF TypeOK
  <2>7. state[q] = "run"
    BY <1>1 DEF At
  <2> HIDE DEF d, f, o
  <2>8. FdStep(q, o, rf[q])
    BY <1>1, <2>3, <2>4, <2>5, <2>6, <2>7 DEF FdStep
  <2> QED BY <1>2, <2>8, FFds
<1> QED BY <1>4, <1>5

LEMMA FDup ==
  ASSUME FInv, NEW q \in Proc, Dup(q)
  PROVE  FInv'
<1>0. TypeOK /\ CallInv
  BY DEF FInv
<1>1. /\ At(q, {"dup"}) /\ Done(q)
      /\ UNCHANGED <<line, state, parent, p, rf, running, back, what, failed>>
  BY DEF Dup
<1>2. CallInv'
  BY <1>0, <1>1, DoneCall
<1> DEFINE f == ofile[q][fd(q, X(q))]
           d == fdalloc(ofile[q])
<1>3. fd(q, X(q)) \in Fd
  <2>1. X(q) \in {0, 1, P0, P1}
    BY <1>0, <1>1, AtCall, CallX DEF X
  <2> QED BY <2>1, FdNamed
<1>4. CASE f = 0 \/ d = None
  <2>1. UNCHANGED <<ofile, ref>>
    BY <1>4 DEF Dup
  <2> QED BY <1>0, <1>1, <1>2, <2>1, FQuiet DEF TypeOK
<1>5. CASE f # 0 /\ d # None
  <2>1. ofile' = [ofile EXCEPT ![q][d] = f] /\ ref' = [ref EXCEPT ![f] = @ + 1]
    BY <1>5 DEF Dup, filedup
  <2>2. f \in File /\ ofile[q] \in [Fd -> File \cup {0}]
    BY <1>0, <1>3, <1>5 DEF TypeOK
  <2>3. d \in Fd /\ ofile[q][d] = 0
    BY <1>5, <2>2, FdOk
  <2> HIDE DEF d, f
  <2> DEFINE o == [ofile[q] EXCEPT ![d] = f]
  <2>4. o \in [Fd -> File \cup {0}] /\ ofile' = [ofile EXCEPT ![q] = o]
    BY <1>0, <2>1, <2>2 DEF TypeOK
  <2>5. rf' = [rf EXCEPT ![q] = rf[q]] /\ rf[q] \in File \cup {None} /\ p' \in [Proc -> Fd \X Fd]
    BY <1>0, <1>1 DEF TypeOK
  <2>6. ASSUME NEW g \in File
        PROVE  ref'[g] = ref[g] - Row(ofile[q], g) + Row(o, g) - Hit(rf[q], g) + Hit(rf[q], g)
    <3>0. /\ Row(SetFd(ofile[q], d, f), g)
               = Row(ofile[q], g) + Hit(f, g) - Hit(ofile[q][d], g)
          /\ Row(ofile[q], g) \in Nat
      BY <2>2, <2>3, OneFd
    <3>1. Row(o, g) = Row(ofile[q], g) + Hit(f, g) - Hit(0, g) /\ Row(ofile[q], g) \in Nat
      BY <2>3, <3>0 DEF SetFd
    <3>2. Hit(0, g) = 0 /\ Hit(rf[q], g) \in {0, 1} /\ Hit(f, g) \in {0, 1}
      BY Bounds DEF Hit
    <3>3. ref'[g] = ref[g] + Hit(f, g) /\ ref[g] \in Nat
      BY <1>0, <2>1, <2>2 DEF TypeOK, Hit
    <3> HIDE DEF o
    <3> QED BY <3>1, <3>2, <3>3
  <2>7. ref' = [g \in File |-> ref'[g]]
    BY <1>0, <2>1 DEF TypeOK
  <2>8. state[q] = "run"
    BY <1>1 DEF At
  <2> HIDE DEF o
  <2>9. FdStep(q, o, rf[q])
    BY <1>1, <2>4, <2>5, <2>6, <2>7, <2>8 DEF FdStep
  <2> QED BY <1>2, <2>9, FFds
<1> QED BY <1>4, <1>5

LEMMA FOpen ==
  ASSUME FInv, NEW q \in Proc, Open(q)
  PROVE  FInv'
<1>0. TypeOK /\ CallInv /\ RefInv
  BY DEF FInv
<1>1. At(q, {"open"}) /\ UNCHANGED <<line, state, parent, p, rf, running, back, failed>>
  BY DEF Open
<1> DEFINE f == Min(Unused(ref))
           d == fdalloc(ofile[q])
<1>2. CASE Fails(q) /\ UNCHANGED <<ofile, files>>
  <2>1. CallInv'
    BY <1>0, <1>2, FailsCall
  <2> QED BY <1>0, <1>1, <1>2, <2>1, FQuiet DEF TypeOK, files
<1>3. CASE /\ Unused(ref) # {} /\ d # None /\ ref' = [ref EXCEPT ![f] = 1]
           /\ ofile' = [ofile EXCEPT ![q][d] = f] /\ Done(q)
  <2>1. CallInv'
    BY <1>0, <1>1, <1>3, DoneCall
  <2>2. f \in File /\ ref[f] = 0 /\ ofile[q] \in [Fd -> File \cup {0}]
    BY <1>0, <1>3, FileOk DEF TypeOK
  <2>3. d \in Fd /\ ofile[q][d] = 0
    BY <1>3, <2>2, FdOk
  <2> HIDE DEF d, f
  <2> DEFINE o == [ofile[q] EXCEPT ![d] = f]
  <2>4. o \in [Fd -> File \cup {0}] /\ ofile' = [ofile EXCEPT ![q] = o]
    BY <1>0, <1>3, <2>2 DEF TypeOK
  <2>5. rf' = [rf EXCEPT ![q] = rf[q]] /\ rf[q] \in File \cup {None} /\ p' \in [Proc -> Fd \X Fd]
    BY <1>0, <1>1 DEF TypeOK
  <2>6. ASSUME NEW g \in File
        PROVE  ref'[g] = ref[g] - Row(ofile[q], g) + Row(o, g) - Hit(rf[q], g) + Hit(rf[q], g)
    <3>0. /\ Row(SetFd(ofile[q], d, f), g)
               = Row(ofile[q], g) + Hit(f, g) - Hit(ofile[q][d], g)
          /\ Row(ofile[q], g) \in Nat
      BY <2>2, <2>3, OneFd
    <3>1. Row(o, g) = Row(ofile[q], g) + Hit(f, g) - Hit(0, g) /\ Row(ofile[q], g) \in Nat
      BY <2>3, <3>0 DEF SetFd
    <3>2. Hit(0, g) = 0 /\ Hit(rf[q], g) \in {0, 1} /\ Hit(f, g) \in {0, 1}
      BY Bounds DEF Hit
    <3>3. ref'[g] = ref[g] + Hit(f, g) /\ ref[g] \in Nat
      BY <1>0, <1>3, <2>2 DEF TypeOK, Hit
    <3> HIDE DEF o
    <3> QED BY <3>1, <3>2, <3>3
  <2>7. ref' = [g \in File |-> ref'[g]]
    BY <1>0, <1>3 DEF TypeOK
  <2>8. state[q] = "run"
    BY <1>1 DEF At
  <2> HIDE DEF o
  <2>9. FdStep(q, o, rf[q])
    BY <1>1, <2>4, <2>5, <2>6, <2>7, <2>8 DEF FdStep
  <2> QED BY <2>1, <2>9, FFds
<1> QED BY <1>2, <1>3 DEF Open

LEMMA FPipeFirst ==
  ASSUME FInv, NEW q \in Proc, PipeFirst(q)
  PROVE  FInv'
<1>0. TypeOK /\ CallInv /\ RefInv
  BY DEF FInv
<1>1. /\ At(q, {"pipe"}) /\ rf[q] = None
      /\ UNCHANGED <<line, state, parent, ofile, p, running, back, what, failed>>
  BY DEF PipeFirst
<1> DEFINE f == Min(Unused(ref))
<1>2. CASE Unused(ref) = {} /\ Fails(q) /\ UNCHANGED <<rf, ref>>
  <2>1. CallInv'
    BY <1>0, <1>2, FailsCall
  <2> QED BY <1>0, <1>1, <1>2, <2>1, FQuiet DEF TypeOK
<1>3. CASE /\ Unused(ref) # {} /\ rf' = [rf EXCEPT ![q] = f]
           /\ ref' = [ref EXCEPT ![f] = 1] /\ UNCHANGED todo
  <2>1. CallInv'
    BY <1>0, <1>3 DEF CallInv
  <2>2. f \in File /\ ref[f] = 0
    BY <1>0, <1>3, FileOk DEF TypeOK
  <2> HIDE DEF f
  <2>3. ofile[q] \in [Fd -> File \cup {0}] /\ ofile' = [ofile EXCEPT ![q] = ofile[q]]
    BY <1>0, <1>1 DEF TypeOK
  <2>4. ASSUME NEW g \in File
        PROVE  ref'[g] = ref[g] - Row(ofile[q], g) + Row(ofile[q], g) - Hit(rf[q], g) + Hit(f, g)
    <3>1. Hit(rf[q], g) = 0 /\ Hit(f, g) \in {0, 1}
      BY <1>1, Bounds DEF Hit
    <3>2. ref'[g] = ref[g] + Hit(f, g) /\ ref[g] \in Nat
      BY <1>0, <1>3, <2>2 DEF TypeOK, Hit
    <3>3. Row(ofile[q], g) \in Nat
      BY RowNat
    <3> QED BY <3>1, <3>2, <3>3
  <2>5. ref' = [g \in File |-> ref'[g]] /\ p' \in [Proc -> Fd \X Fd]
    BY <1>0, <1>1, <1>3 DEF TypeOK
  <2>6. state[q] = "run"
    BY <1>1 DEF At
  <2>7. FdStep(q, ofile[q], f)
    BY <1>1, <1>3, <2>2, <2>3, <2>4, <2>5, <2>6 DEF FdStep
  <2> QED BY <2>1, <2>7, FFds
<1> QED BY <1>2, <1>3 DEF PipeFirst

LEMMA FPipeSecond ==
  ASSUME FInv, NEW q \in Proc, PipeSecond(q)
  PROVE  FInv'
<1>0. TypeOK /\ CallInv /\ RefInv
  BY DEF FInv
<1>1. /\ At(q, {"pipe"}) /\ rf[q] # None /\ rf' = [rf EXCEPT ![q] = None]
      /\ UNCHANGED <<line, state, parent, running, back, failed>>
  BY DEF PipeSecond
<1>2. rf[q] \in File /\ ofile[q] \in [Fd -> File \cup {0}] /\ state[q] = "run"
  BY <1>0, <1>1 DEF TypeOK, At
<1>3. \A g \in File : Hit(None, g) = 0 /\ Hit(0, g) = 0 /\ Hit(rf[q], g) \in {0, 1}
  BY Bounds DEF Hit
<1>4. CASE ref' = pipe_undone(ref, rf[q]) /\ Fails(q) /\ UNCHANGED <<what, ofile, p>>
  <2>1. CallInv'
    BY <1>0, <1>4, FailsCall
  <2>2. ofile' = [ofile EXCEPT ![q] = ofile[q]] /\ p' \in [Proc -> Fd \X Fd]
    BY <1>0, <1>4 DEF TypeOK
  <2>3. ref' = [ref EXCEPT ![rf[q]] = @ - 1]
    BY <1>4 DEF pipe_undone, fileclose
  <2>4. ASSUME NEW g \in File
        PROVE  ref'[g] = ref[g] - Row(ofile[q], g) + Row(ofile[q], g) - Hit(rf[q], g) + Hit(None, g)
    <3>1. ref'[g] = ref[g] - Hit(rf[q], g) /\ ref[g] \in Nat
      BY <1>0, <1>2, <2>3 DEF TypeOK, Hit
    <3>2. Row(ofile[q], g) \in Nat
      BY RowNat
    <3> QED BY <1>3, <3>1, <3>2
  <2>5. ref' = [g \in File |-> ref'[g]]
    BY <1>0, <2>3 DEF TypeOK
  <2>6. FdStep(q, ofile[q], None)
    BY <1>1, <1>2, <2>2, <2>4, <2>5 DEF FdStep
  <2> QED BY <2>1, <2>6, FFds
<1> DEFINE g == Min(Unused(ref))
           d0 == fdalloc(ofile[q])
           o  == [ofile[q] EXCEPT ![d0] = rf[q]]
           d1 == fdalloc(o)
<1>5. CASE /\ Unused(ref) # {} /\ d0 # None /\ d1 # None
           /\ ref' = [ref EXCEPT ![g] = 1]
           /\ ofile' = [ofile EXCEPT ![q] = [o EXCEPT ![d1] = g]]
           /\ p' = [p EXCEPT ![q] = <<d0, d1>>] /\ Done(q)
  <2>1. CallInv'
    BY <1>0, <1>1, <1>5, DoneCall
  <2>2. g \in File /\ ref[g] = 0
    BY <1>0, <1>5, FileOk DEF TypeOK
  <2>3. d0 \in Fd /\ ofile[q][d0] = 0
    BY <1>2, <1>5, FdOk
  <2>4. o \in [Fd -> File \cup {0}]
    BY <1>2, <2>3
  <2> HIDE DEF g, o
  <2>5. d1 \in Fd /\ o[d1] = 0
    BY <1>5, <2>4, FdOk
  <2> HIDE DEF d0, d1
  <2>6. ASSUME NEW h \in File
        PROVE  ref'[h] = ref[h] - Row(ofile[q], h) + Row([o EXCEPT ![d1] = g], h)
                           - Hit(rf[q], h) + Hit(None, h)
    <3>1. /\ Row(SetFd(ofile[q], d0, rf[q]), h)
               = Row(ofile[q], h) + Hit(rf[q], h) - Hit(ofile[q][d0], h)
          /\ Row(ofile[q], h) \in Nat
      BY <1>2, <2>3, OneFd
    <3>2. Row(o, h) = Row(ofile[q], h) + Hit(rf[q], h) - Hit(0, h)
      BY <2>3, <3>1 DEF o, SetFd
    <3>3. /\ Row(SetFd(o, d1, g), h) = Row(o, h) + Hit(g, h) - Hit(o[d1], h)
          /\ Row(o, h) \in Nat
      BY <2>4, <2>5, OneFd
    <3>4. ref'[h] = ref[h] + Hit(g, h) /\ ref[h] \in Nat /\ Hit(g, h) \in {0, 1}
      BY <1>0, <1>5, <2>2 DEF TypeOK, Hit
    <3>5. Row([o EXCEPT ![d1] = g], h) = Row(o, h) + Hit(g, h) - Hit(0, h)
      BY <2>5, <3>3 DEF SetFd
    <3> QED BY <1>3, <3>1, <3>2, <3>3, <3>4, <3>5
  <2>7. ref' = [h \in File |-> ref'[h]] /\ p' \in [Proc -> Fd \X Fd]
    BY <1>0, <1>5, <2>3, <2>5 DEF TypeOK
  <2>8. [o EXCEPT ![d1] = g] \in [Fd -> File \cup {0}]
    BY <2>2, <2>4, <2>5
  <2>9. FdStep(q, [o EXCEPT ![d1] = g], None)
    BY <1>1, <1>2, <1>5, <2>6, <2>7, <2>8 DEF FdStep
  <2> QED BY <2>1, <2>9, FFds
<1> QED BY <1>4, <1>5 DEF PipeSecond

LEMMA ChildCalls == Seq(ChildCall) \subseteq Seq(Call)
<1>1. ChildCall \subseteq Call
  BY DEF Call
<1> QED BY <1>1, SeqDef

LEMMA FreeOk ==
  ASSUME Free # {} PROVE Min(Free) \in Proc /\ state[Min(Free)] = "unused"
<1>1. Free \in SUBSET Nat
  BY Bounds DEF Free
<1>2. Min(Free) \in Free
  BY <1>1, LeastOf
<1> QED BY <1>2 DEF Free

\* A fork that finds a slot c.
Forked(q, c) ==
  /\ At(q, {"fork", "fork_back"}) /\ Free # {} /\ c = Min(Free)
  /\ state' = [state EXCEPT ![c] = "run"]
  /\ parent' = [parent EXCEPT ![c] = q]
  /\ ofile' = [ofile EXCEPT ![c] = ofile[q]]
  /\ ref' = dup_all(ref, ofile[q])
  /\ p' = [p EXCEPT ![c] = p[q]]
  /\ todo' = [todo EXCEPT ![q] = Tail(@), ![c] = X(q)]
  /\ back' = IF q \in back \/ Head(todo[q]).op = "fork_back"
             THEN back \cup {c} ELSE back
  /\ UNCHANGED <<failed, line, rf, running, what>>
ForkFailed(q) ==
  /\ At(q, {"fork", "fork_back"}) /\ Free = {} /\ q # sh /\ Fails(q) /\ failed' = TRUE
  /\ UNCHANGED <<state, parent, ofile, ref, p, back, line, rf, running, what>>

LEMMA ForkCases ==
  ASSUME NEW q, Fork(q)
  PROVE  Forked(q, Min(Free)) \/ ForkFailed(q)
<1>1. CASE Free # {}
  BY <1>1 DEF Fork, Forked
<1>2. CASE Free = {}
  BY <1>2 DEF Fork, ForkFailed
<1> QED BY <1>1, <1>2

LEMMA FForked ==
  ASSUME FInv, NEW q \in Proc, NEW c, Forked(q, c)
  PROVE  FInv'
<1>0. TypeOK /\ CallInv /\ RefInv /\ IdleInv
  BY DEF FInv
<1>1. c \in Proc /\ state[c] = "unused" /\ c # q
  BY FreeOk DEF Forked, At
<1>2. CallInv'
  <2>1. Tail(todo[q]) \in Seq(Call) /\ X(q) \in Seq(Call)
    BY <1>0, AtCall, CallX, ChildCalls DEF X, Forked
  <2> QED BY <1>0, <1>1, <2>1 DEF CallInv, Forked
<1>3. IdleInv'
  BY <1>0, <1>1 DEF IdleInv, Forked, TypeOK, Closed
<1>4. ref' = [f \in File |-> ref[f] + Row(ofile[q], f)]
  BY DEF Forked, dup_all, Row, Count
<1>5. SameBut(Proc, ofile, ofile', c) /\ SameBut(Proc, rf, rf', c) /\ ofile'[c] = ofile[q] /\ rf'[c] = rf[c]
  BY <1>0, <1>1 DEF SameBut, Forked, TypeOK
<1>6. ASSUME NEW f \in File
      PROVE  ref'[f] = ref[f] - Row(ofile[c], f) + Row(ofile'[c], f) - Hit(rf[c], f) + Hit(rf'[c], f)
  <2>1. Row(ofile[c], f) = 0
    BY <1>0, <1>1, RowClosed DEF IdleInv
  <2>2. ref'[f] = ref[f] + Row(ofile[q], f) /\ ref[f] \in Nat
    BY <1>0, <1>4 DEF TypeOK
  <2>3. Hit(rf[c], f) \in {0, 1} /\ Row(ofile[q], f) \in Nat
    BY RowNat DEF Hit
  <2> QED BY <1>5, <2>1, <2>2, <2>3
<1>7. RefInv' /\ \A f \in File : ref'[f] \in Nat
  BY <1>0, <1>1, <1>5, <1>6, RefStep
<1>8. TypeOK'
  <2>1. ref' \in [File -> Nat]
    BY <1>4, <1>7
  <2> QED BY <1>0, <1>1, <2>1 DEF TypeOK, Forked
<1> QED BY <1>2, <1>3, <1>7, <1>8 DEF FInv

LEMMA FFork ==
  ASSUME FInv, NEW q \in Proc, Fork(q)
  PROVE  FInv'
<1>1. CASE ForkFailed(q)
  <2>1. CallInv'
    BY <1>1, FailsCall DEF FInv, ForkFailed
  <2> QED BY <1>1, <2>1, FQuiet DEF ForkFailed, FInv, TypeOK
<1> QED BY <1>1, ForkCases, FForked

LEMMA FExit ==
  ASSUME FInv, NEW q \in Proc, Exit(q)
  PROVE  FInv'
<1>0. TypeOK /\ CallInv /\ RefInv /\ IdleInv
  BY DEF FInv
<1>1. CallInv'
  BY <1>0 DEF CallInv, Exit
<1> DEFINE o == [d \in Fd |-> 0]
<1>2. o \in [Fd -> File \cup {0}] /\ ofile' = [ofile EXCEPT ![q] = o]
  BY DEF Exit
<1>3. IdleInv'
  BY <1>0, <1>2 DEF IdleInv, Exit, TypeOK, Closed
<1>4. ref' = [f \in File |-> ref[f] - Row(ofile[q], f)]
  BY DEF Exit, close_all, Row, Count
<1>5. SameBut(Proc, ofile, ofile', q) /\ SameBut(Proc, rf, rf', q) /\ ofile'[q] = o /\ rf'[q] = rf[q]
  BY <1>0, <1>2 DEF SameBut, Exit, TypeOK
<1>6. ASSUME NEW f \in File
      PROVE  ref'[f] = ref[f] - Row(ofile[q], f) + Row(ofile'[q], f) - Hit(rf[q], f) + Hit(rf'[q], f)
  <2>1. Row(ofile'[q], f) = 0
    BY <1>5, RowAll
  <2>2. ref'[f] = ref[f] - Row(ofile[q], f) /\ ref[f] \in Nat
    BY <1>0, <1>4 DEF TypeOK
  <2>3. Hit(rf[q], f) \in {0, 1} /\ Row(ofile[q], f) \in Nat
    BY RowNat DEF Hit
  <2> QED BY <1>5, <2>1, <2>2, <2>3
<1>7. RefInv' /\ \A f \in File : ref'[f] \in Nat
  BY <1>0, <1>5, <1>6, RefStep
<1>8. TypeOK'
  <2>1. ref' \in [File -> Nat]
    BY <1>4, <1>7
  <2>2. parent' \in [Proc -> Proc \cup {init}]
    BY <1>0 DEF TypeOK, Exit
  <2>3. ofile' \in [Proc -> [Fd -> File \cup {0}]]
    BY <1>0, <1>2 DEF TypeOK
  <2> QED BY <1>0, <2>1, <2>2, <2>3 DEF TypeOK, Exit
<1> QED BY <1>1, <1>3, <1>7, <1>8 DEF FInv

LEMMA FReap ==
  ASSUME FInv, CallInv', NEW c \in Proc, state[c] = "zombie", Reap(c),
         UNCHANGED <<line, ofile, rf, running, files, failed>>
  PROVE  FInv'
<1>0. TypeOK /\ RefInv /\ IdleInv
  BY DEF FInv
<1>1. TypeOK'
  BY <1>0, Bounds DEF TypeOK, Reap, files
<1>2. IdleInv'
  BY <1>0 DEF TypeOK, IdleInv, Reap
<1>3. RefInv'
  BY <1>0 DEF RefInv, FdsOf, files
<1> QED BY <1>1, <1>2, <1>3 DEF FInv

LEMMA FWait ==
  ASSUME FInv, NEW q \in Proc, Wait(q)
  PROVE  FInv'
<1>1. CallInv'
  BY DoneCall DEF FInv, Wait
<1>2. CASE \E c \in Children(q) : state[c] = "zombie" /\ Reap(c)
  <2>1. PICK c \in Proc : state[c] = "zombie" /\ Reap(c)
    BY <1>2 DEF Children
  <2> QED BY <1>1, <2>1, FReap DEF Wait
<1>3. CASE UNCHANGED <<state, parent, p, back>>
  BY <1>1, <1>3, FQuiet DEF Wait, FInv, TypeOK, files
<1> QED BY <1>2, <1>3 DEF Wait

LEMMA FInitWait ==
  ASSUME FInv, InitWait
  PROVE  FInv'
<1>1. PICK c \in Proc : state[c] = "zombie" /\ Reap(c)
  BY DEF InitWait, Children
<1>2. CallInv'
  BY DEF FInv, CallInv, InitWait
<1> QED BY <1>1, <1>2, FReap DEF InitWait

LEMMA FNext == FInv /\ [Next]_vars => FInv'
<1> SUFFICES ASSUME FInv, [Next]_vars PROVE FInv'
  OBVIOUS
<1>1. ASSUME NEW s \in Lines, Type(s) PROVE FInv'
  BY <1>1, FType
<1>2. ASSUME NEW q \in Proc, Step(q) PROVE FInv'
  BY <1>2, FRuncmd, FClose, FDup, FOpen, FPipeFirst, FPipeSecond, FFork, FExec, FRead,
     FExit, FWait DEF Step
<1>3. CASE InitWait
  BY <1>3, FInitWait
<1>4. CASE UNCHANGED vars
  BY <1>4, Unchanging
<1> QED BY <1>1, <1>2, <1>3, <1>4 DEF Next

\* The inductive invariant of descriptors and references holds in every
\* reachable state of the shell and its commands.
THEOREM Invariance == Spec => []FInv
<1>1. Init => FInv
  BY FInit
<1>2. FInv /\ [Next]_vars => FInv'
  BY FNext
<1> QED BY <1>1, <1>2, PTL DEF Spec

\* The references of an open file are the descriptors that have it, through
\* fork, dup, close, exit and every failure of pipe and open (filedup, fileclose).
THEOREM References == Spec => []FileRefs
<1>1. FInv => FileRefs
  BY DEF FInv, FileRefs, RefInv, FdsOf
<1> QED BY <1>1, Invariance, PTL

-----------------------------------------------------------------------------
(* Forks and waits *)

Plain == {"close", "dup", "open", "exec", "read", "run", "exit"}

LEMMA BeginsTail ==
  ASSUME NEW s \in Seq(Call), s # << >>, NEW f \in Nat, NEW c \in Nat, NEW w \in Nat,
         Begins(s, f, c, w)
  PROVE  /\ f > 0 => Head(s).op = "fork" /\ Begins(Tail(s), f - 1, c, w)
         /\ f = 0 /\ c > 0 => Head(s).op = "close" /\ Begins(Tail(s), 0, c - 1, w)
         /\ f = 0 /\ c = 0 /\ w > 0 => Head(s).op = "wait" /\ Begins(Tail(s), 0, 0, w - 1)
         /\ f = 0 /\ c = 0 /\ w = 0 => Head(s).op \in Plain /\ Begins(Tail(s), 0, 0, 0)
<1>1. /\ Head(s) = s[1] /\ Len(s) \in Nat /\ Len(s) >= 1 /\ Len(Tail(s)) = Len(s) - 1
      /\ \A i \in 1 .. Len(s) - 1 : Tail(s)[i] = s[i + 1]
  BY HeadTail
<1>2. /\ f + c + w <= Len(s)
      /\ \A i \in 1 .. f : s[i].op = "fork"
      /\ \A i \in f + 1 .. f + c : s[i].op = "close"
      /\ \A i \in f + c + 1 .. f + c + w : s[i].op = "wait"
      /\ \A i \in f + c + w + 1 .. Len(s) : s[i].op \in Plain
  BY DEF Begins, PlainFrom, Plain
<1>3. ASSUME f > 0 PROVE Head(s).op = "fork" /\ Begins(Tail(s), f - 1, c, w)
  <2>1. (f - 1) + c + w <= Len(Tail(s)) /\ Head(s).op = "fork"
    BY <1>1, <1>2, <1>3
  <2>2. \A i \in 1 .. f - 1 : Tail(s)[i].op = "fork"
    BY <1>1, <1>2
  <2>3. \A i \in (f - 1) + 1 .. (f - 1) + c : Tail(s)[i].op = "close"
    BY <1>1, <1>2, <1>3
  <2>4. \A i \in (f - 1) + c + 1 .. (f - 1) + c + w : Tail(s)[i].op = "wait"
    BY <1>1, <1>2, <1>3
  <2>5. \A i \in (f - 1) + c + w + 1 .. Len(Tail(s)) : Tail(s)[i].op \in Plain
    BY <1>1, <1>2, <1>3
  <2> QED BY <2>1, <2>2, <2>3, <2>4, <2>5 DEF Begins, PlainFrom, Plain
<1>4. ASSUME f = 0, c > 0 PROVE Head(s).op = "close" /\ Begins(Tail(s), 0, c - 1, w)
  BY <1>1, <1>2, <1>4 DEF Begins, PlainFrom, Plain
<1>5. ASSUME f = 0, c = 0, w > 0 PROVE Head(s).op = "wait" /\ Begins(Tail(s), 0, 0, w - 1)
  BY <1>1, <1>2, <1>5 DEF Begins, PlainFrom, Plain
<1>6. ASSUME f = 0, c = 0, w = 0 PROVE Head(s).op \in Plain /\ Begins(Tail(s), 0, 0, 0)
  BY <1>1, <1>2, <1>6 DEF Begins, PlainFrom, Plain
<1> QED BY <1>3, <1>4, <1>5, <1>6

\* What is owed after the next call, by the kind of that call.
LEMMA ForksTail ==
  ASSUME NEW s \in Seq(Call), s # << >>, NEW n \in Nat, Forks(s, n)
  PROVE  /\ Head(s).op \in Plain \cup {"fork", "wait"}
         /\ Head(s).op = "fork" => Forks(Tail(s), n + 1)
         /\ Head(s).op = "wait" => n > 0 /\ Forks(Tail(s), n - 1)
         /\ Head(s).op \in Plain => Forks(Tail(s), n)
         /\ Head(s).op \in Plain \ {"close"} => n = 0 /\ Begins(s, 0, 0, 0)
<1>1. PICK f \in Nat, c \in Nat, w \in Nat : Begins(s, f, c, w) /\ n + f = w
  BY DEF Forks
<1>2. CASE f > 0
  <2>1. Head(s).op = "fork" /\ Begins(Tail(s), f - 1, c, w)
    BY <1>1, <1>2, BeginsTail
  <2>2. f - 1 \in Nat /\ (n + 1) + (f - 1) = w
    BY <1>1, <1>2
  <2>3. Forks(Tail(s), n + 1)
    BY <2>1, <2>2 DEF Forks
  <2> QED BY <2>1, <2>3 DEF Plain
<1>3. CASE f = 0 /\ c > 0
  <2>1. Head(s).op = "close" /\ Begins(Tail(s), 0, c - 1, w)
    BY <1>1, <1>3, BeginsTail
  <2>2. c - 1 \in Nat /\ n + 0 = w
    BY <1>1, <1>3
  <2>3. Forks(Tail(s), n)
    BY <2>1, <2>2 DEF Forks
  <2> QED BY <2>1, <2>3 DEF Plain
<1>4. CASE f = 0 /\ c = 0 /\ w > 0
  <2>1. Head(s).op = "wait" /\ Begins(Tail(s), 0, 0, w - 1)
    BY <1>1, <1>4, BeginsTail
  <2>2. w - 1 \in Nat /\ n - 1 + 0 = w - 1 /\ n > 0
    BY <1>1, <1>4
  <2>3. Forks(Tail(s), n - 1)
    BY <2>1, <2>2 DEF Forks
  <2> QED BY <2>1, <2>2, <2>3 DEF Plain
<1>5. CASE f = 0 /\ c = 0 /\ w = 0
  <2>1. Head(s).op \in Plain /\ Begins(Tail(s), 0, 0, 0) /\ n = 0 /\ Begins(s, 0, 0, 0)
    BY <1>1, <1>5, BeginsTail
  <2>2. Forks(Tail(s), n)
    BY <2>1 DEF Forks
  <2> QED BY <2>1, <2>2 DEF Plain
<1> QED BY <1>2, <1>3, <1>4, <1>5

LEMMA PlainOwes ==
  ASSUME NEW s, PlainFrom(s, 1), Len(s) \in Nat
  PROVE  Forks(s, 0) /\ Owes(s, 0) /\ Begins(s, 0, 0, 0)
<1>1. Begins(s, 0, 0, 0)
  BY DEF Begins, PlainFrom
<1> QED BY <1>1 DEF Forks, Owes

LEMMA ExitOwes == Owes(<<exit>>, 0) /\ Owes(<<call("read", 0), exit>>, 0) /\ Owes(<< >>, 0)
<1>1. PlainFrom(<<exit>>, 1) /\ PlainFrom(<<call("read", 0), exit>>, 1) /\ PlainFrom(<< >>, 1)
  BY DEF PlainFrom, exit, call
<1> QED BY <1>1, PlainOwes

LEMMA OwesTail ==
  ASSUME NEW s \in Seq(Call), s # << >>, NEW n \in Nat, Owes(s, n)
  PROVE  /\ Head(s).op = "fork" => Owes(Tail(s), n + 1)
         /\ Head(s).op = "wait" => n > 0 /\ Owes(Tail(s), n - 1)
         /\ Head(s).op \in Plain \cup {"pipe"} => Owes(Tail(s), n)
         /\ Head(s).op = "fork_back" =>
              Owes(Tail(s), n) /\ Tail(s) # << >> /\ Head(Tail(s)).op = "exit"
         /\ Head(s).op \notin {"close", "fork", "wait"} => n = 0
         /\ Head(s).op = "run" => PlainFrom(s, 1)
<1>0. /\ Head(s) = s[1] /\ Len(s) \in Nat /\ Len(s) >= 1 /\ Len(Tail(s)) = Len(s) - 1
      /\ \A i \in 1 .. Len(s) - 1 : Tail(s)[i] = s[i + 1]
      /\ Tail(s) \in Seq(Call)
  BY HeadTail
<1>1. CASE Forks(s, n)
  BY <1>1, ForksTail DEF Owes, Plain, Begins
<1>2. CASE Head(s).op = "pipe" /\ n = 0 /\ Forks(Tail(s), 0)
  BY <1>2 DEF Owes, Plain
<1>3. CASE Len(s) >= 2 /\ s[1].op = "fork_back" /\ s[2].op = "exit" /\ n = 0 /\ PlainFrom(s, 2)
  <2>1. Tail(s)[1] = s[2] /\ Len(Tail(s)) >= 1
    BY <1>0, <1>3
  <2>2. PlainFrom(Tail(s), 1)
    BY <1>0, <1>3 DEF PlainFrom
  <2>3. Owes(Tail(s), 0)
    BY <1>0, <2>2, PlainOwes
  <2>4. Tail(s) # << >> /\ Head(Tail(s)) = Tail(s)[1]
    <3>1. Tail(s) # << >>
      <4>1. Len(<< >>) = 0 /\ ~(0 >= 1)
        OBVIOUS
      <4> QED BY <2>1, <4>1, Zenon
    <3> QED BY <1>0, <3>1, HeadTail
  <2> QED BY <1>0, <1>3, <2>1, <2>3, <2>4 DEF Plain
<1> QED BY <1>1, <1>2, <1>3 DEF Owes

LEMMA CatFirst ==
  ASSUME NEW r \in Seq(Call), NEW t \in Seq(Call)
  PROVE  /\ Len(r \o t) = Len(r) + Len(t) /\ Len(r) \in Nat /\ Len(t) \in Nat
         /\ \A i \in 1 .. Len(r) : (r \o t)[i] = r[i]
         /\ \A i \in Len(r) + 1 .. Len(r) + Len(t) : (r \o t)[i] = t[i - Len(r)]
  BY ConcatProperties, LenProperties

LEMMA PlainMore ==
  ASSUME NEW r \in Seq(Call), NEW t \in Seq(Call), NEW k \in Nat, k >= 1,
         PlainFrom(r, k), PlainFrom(t, 1), k <= Len(r)
  PROVE  PlainFrom(r \o t, k)
<1> SUFFICES ASSUME NEW i \in k .. Len(r \o t) PROVE (r \o t)[i].op \in Plain
  BY DEF PlainFrom, Plain
<1>1. /\ Len(r \o t) = Len(r) + Len(t) /\ Len(r) \in Nat /\ Len(t) \in Nat
      /\ \A j \in 1 .. Len(r) : (r \o t)[j] = r[j]
      /\ \A j \in Len(r) + 1 .. Len(r) + Len(t) : (r \o t)[j] = t[j - Len(r)]
  BY CatFirst
<1>2. CASE i <= Len(r)
  <2>1. i \in k .. Len(r) /\ i \in 1 .. Len(r)
    BY <1>1, <1>2
  <2> QED BY <1>1, <2>1 DEF PlainFrom, Plain
<1>3. CASE i > Len(r)
  <2>1. i - Len(r) \in 1 .. Len(t) /\ i \in Len(r) + 1 .. Len(r) + Len(t)
    BY <1>1, <1>3
  <2> QED BY <1>1, <2>1 DEF PlainFrom, Plain
<1> QED BY <1>1, <1>2, <1>3

\* The calls that runcmd makes, before calls that neither fork nor wait.
LEMMA RuncmdOwes ==
  ASSUME NEW c \in Command, NEW t \in Seq(Call), PlainFrom(t, 1)
  PROVE  Owes(runcmd(c) \o t, 0)
<1>0. IsCommand(c)
  BY TreeAssumption
<1> DEFINE r == runcmd(c)
           u == r \o t
<1>1. r \in Seq(Call)
  BY RuncmdCall
<1>2. u \in Seq(Call)
  BY <1>1, ConcatCall
<1> HIDE DEF r
<1>3. /\ Len(u) = Len(r) + Len(t) /\ Len(r) \in Nat /\ Len(t) \in Nat
      /\ \A i \in 1 .. Len(r) : u[i] = r[i]
  BY <1>1, CatFirst
<1>4. ASSUME NEW k \in Nat, k >= 1, k <= Len(r), PlainFrom(r, k) PROVE PlainFrom(u, k)
  BY <1>1, <1>4, PlainMore
<1> HIDE DEF u
<1>5. CASE PlainFrom(r, 1) /\ Len(r) >= 1
  <2>1. PlainFrom(u, 1)
    BY <1>3, <1>4, <1>5
  <2> QED BY <1>3, <2>1, PlainOwes DEF r, u
<1>6. CASE c.type = "PANIC"
  <2>1. r = <<exit>>
    BY <1>6 DEF runcmd, r
  <2>2. PlainFrom(r, 1) /\ Len(r) >= 1
    BY <2>1 DEF PlainFrom, exit, call
  <2> QED BY <1>5, <2>2
<1>7. CASE c.type = "EXEC"
  <2>1. r = <<exit>> \/ r = <<call("exec", c.argv), exit>>
    BY <1>7 DEF runcmd, r
  <2>2. PlainFrom(r, 1) /\ Len(r) >= 1
    <3>1. CASE r = <<exit>>
      BY <3>1 DEF PlainFrom, exit, call
    <3>2. CASE r = <<call("exec", c.argv), exit>>
      BY <3>2 DEF PlainFrom, exit, call
    <3> QED BY <2>1, <3>1, <3>2
  <2> QED BY <1>5, <2>2
<1>8. CASE c.type = "REDIR"
  <2>1. r = <<call("close", c.fd), call("open", c.file)>> \o <<call("run", c.cmd)>>
    BY <1>8 DEF runcmd, Run, r
  <2>2. Len(r) = 3 /\ r[1] = call("close", c.fd) /\ r[2] = call("open", c.file) /\ r[3] = call("run", c.cmd)
    BY <2>1
  <2>3. PlainFrom(r, 1) /\ Len(r) >= 1
    BY <2>2 DEF PlainFrom, call
  <2> QED BY <1>5, <2>3
<1>9. CASE c.type = "LIST"
  <2>1. r = <<call("fork", Run(c.left)), wait>> \o <<call("run", c.right)>>
    BY <1>9 DEF runcmd, Run, r
  <2>2. Len(r) = 3 /\ r[1] = call("fork", Run(c.left)) /\ r[2] = wait /\ r[3] = call("run", c.right)
    BY <2>1
  <2>3. r[1].op = "fork" /\ r[2].op = "wait" /\ PlainFrom(r, 3)
    BY <2>2 DEF call, wait, PlainFrom
  <2>4. PlainFrom(u, 3)
    BY <1>4, <2>2, <2>3
  <2>5. Len(u) >= 3 /\ u[1].op = "fork" /\ u[2].op = "wait"
    BY <1>3, <2>2, <2>3
  <2>6. Begins(u, 1, 0, 1)
    BY <1>3, <2>4, <2>5 DEF Begins
  <2>7. Forks(u, 0)
    BY <2>6 DEF Forks
  <2> QED BY <2>7 DEF Owes, u, r
<1>10. CASE c.type = "PIPE"
  <2>1. r = <<call("pipe", c), call("fork", left_end(c)), call("fork", right_end(c)),
              call("close", P0), call("close", P1)>> \o <<wait, wait>> \o <<exit>>
    BY <1>10 DEF runcmd, pipe_waits, r
  <2> DEFINE a == <<call("pipe", c), call("fork", left_end(c)), call("fork", right_end(c)),
                    call("close", P0), call("close", P1)>>
             b == a \o <<wait, wait>>
  <2>2. /\ Len(a) = 5 /\ a[1].op = "pipe" /\ a[2].op = "fork" /\ a[3].op = "fork"
        /\ a[4].op = "close" /\ a[5].op = "close"
    BY DEF call
  <2>3. /\ Len(b) = 7 /\ b[1].op = "pipe" /\ b[2].op = "fork" /\ b[3].op = "fork"
        /\ b[4].op = "close" /\ b[5].op = "close" /\ b[6] = wait /\ b[7] = wait
    BY DEF call
  <2>4. r = b \o <<exit>>
    BY <2>1
  <2>5. /\ Len(r) = 8 /\ r[1].op = "pipe" /\ r[2].op = "fork" /\ r[3].op = "fork"
        /\ r[4].op = "close" /\ r[5].op = "close" /\ r[6].op = "wait" /\ r[7].op = "wait"
        /\ r[8].op = "exit"
    BY <2>1 DEF call, wait, exit
  <2> HIDE DEF a, b
  <2>6. PlainFrom(r, 8)
    BY <2>5 DEF PlainFrom
  <2>7. PlainFrom(u, 8)
    BY <1>4, <2>5, <2>6
  <2>8. /\ Len(u) >= 8 /\ u[1].op = "pipe" /\ u[2].op = "fork" /\ u[3].op = "fork"
        /\ u[4].op = "close" /\ u[5].op = "close" /\ u[6].op = "wait" /\ u[7].op = "wait"
    BY <1>3, <2>5
  <2>9. u # << >>
    <3>1. Len(<< >>) = 0 /\ ~(0 >= 8)
      OBVIOUS
    <3> QED BY <2>8, <3>1, Zenon
  <2>10. /\ Head(u) = u[1] /\ Len(u) \in Nat /\ Len(Tail(u)) = Len(u) - 1
         /\ \A i \in 1 .. Len(u) - 1 : Tail(u)[i] = u[i + 1]
    BY <1>2, <2>9, HeadTail
  <2> DEFINE v == Tail(u)
  <2>11. /\ Len(v) >= 7 /\ Len(v) \in Nat /\ v[1].op = "fork" /\ v[2].op = "fork"
         /\ v[3].op = "close" /\ v[4].op = "close" /\ v[5].op = "wait" /\ v[6].op = "wait"
    BY <2>8, <2>10
  <2>12. PlainFrom(v, 7)
    BY <2>7, <2>8, <2>10 DEF PlainFrom
  <2> HIDE DEF v
  <2>13. Begins(v, 2, 2, 2)
    <3>1. \A i \in 1 .. 2 : v[i].op = "fork"
      BY <2>11
    <3>2. \A i \in 2 + 1 .. 2 + 2 : v[i].op = "close"
      BY <2>11
    <3>3. \A i \in 2 + 2 + 1 .. 2 + 2 + 2 : v[i].op = "wait"
      BY <2>11
    <3> QED BY <2>11, <2>12, <3>1, <3>2, <3>3 DEF Begins
  <2>14. Forks(v, 0)
    BY <2>13 DEF Forks
  <2> QED BY <2>8, <2>9, <2>10, <2>14 DEF Owes, u, v, r
<1>11. CASE c.type = "BACK"
  <2>1. r = <<call("fork_back", Run(c.cmd)), exit>>
    BY <1>11 DEF runcmd, r
  <2>2. Len(r) = 2 /\ r[1].op = "fork_back" /\ r[2].op = "exit"
    BY <2>1 DEF call, exit
  <2>3. PlainFrom(r, 2)
    BY <2>2 DEF PlainFrom
  <2>4. PlainFrom(u, 2)
    BY <1>4, <2>2, <2>3
  <2>5. Len(u) >= 2 /\ u[1].op = "fork_back" /\ u[2].op = "exit"
    BY <1>3, <2>2
  <2> QED BY <2>4, <2>5 DEF Owes, r, u
<1> QED BY <1>0, <1>6, <1>7, <1>8, <1>9, <1>10, <1>11 DEF IsCommand, r

-----------------------------------------------------------------------------
(* The steps keep GInv *)

LEMMA KidsNat == \A q : Cardinality(Kids(q)) \in Nat /\ IsFiniteSet(Kids(q))
<1> SUFFICES ASSUME NEW q PROVE Cardinality(Kids(q)) \in Nat /\ IsFiniteSet(Kids(q))
  OBVIOUS
<1>1. Kids(q) \subseteq Proc
  BY DEF Kids
<1> QED BY <1>1, FiniteSets1, FS_Subset, FS_CardinalityType

LEMMA NotShell ==
  ASSUME ShellInv, NEW q \in Proc, NEW S, At(q, S), S \cap {"fork", "wait"} = {}
  PROVE  q # sh
  BY DEF ShellInv, At

\* A step of q that changes its calls only, to s.
Continues(q, s) ==
  /\ todo' = [todo EXCEPT ![q] = s]
  /\ UNCHANGED <<line, state, parent, back, failed>>

LEMMA GContinue ==
  ASSUME GInv, FInv', NEW q \in Proc, NEW s, Continues(q, s),
         NEW S, At(q, S), S \cap {"fork", "wait", "exit"} = {},
         \A n \in Nat : Owes(todo[q], n) => Owes(s, n)
  PROVE  GInv'
<1>0. /\ ParentInv /\ TreeInv /\ WaitInv /\ BackInv /\ ShellInv
      /\ todo \in [Proc -> Seq(Call)] /\ parent \in [Proc -> Proc \cup {init}]
      /\ UNCHANGED <<line, state, parent, back, failed>>
  BY DEF GInv, FInv, TypeOK, CallInv, Continues
<1>1. q # sh /\ sh \in Proc
  BY <1>0, NotShell, Bounds
<1>2. \A r \in Proc : r # q => todo'[r] = todo[r]
  BY <1>0 DEF Continues
<1>3. todo'[q] = s
  BY <1>0 DEF Continues
<1>4. ParentInv'
  BY <1>0 DEF ParentInv
<1>8. BackInv'
  <2>1. ~At(q, {"exit"})
    BY DEF At
  <2>2. \A r \in Proc : At(r, {"exit"}) => At(r, {"exit"})'
    BY <1>0, <1>2, <2>1 DEF At
  <2> SUFFICES ASSUME ~failed, NEW c \in Proc, c \in back, parent[c] # init, parent[c] \notin back
               PROVE  At(parent[c], {"exit"})'
    BY <1>0 DEF BackInv
  <2> QED BY <1>0, <2>2 DEF BackInv
<1>5. TreeInv'
  BY <1>0 DEF TreeInv
<1>6. WaitInv'
  <2> SUFFICES ASSUME ~failed, NEW r \in Proc, state[r] = "run", r \notin back
               PROVE  Owes(todo'[r], Cardinality(Kids(r)))
    BY <1>0 DEF WaitInv, Kids
  <2>1. Owes(todo[r], Cardinality(Kids(r)))
    BY <1>0 DEF WaitInv
  <2> QED BY <1>2, <1>3, <2>1, KidsNat
<1>7. ShellInv'
  BY <1>0, <1>1, <1>2 DEF ShellInv
<1> QED BY <1>4, <1>5, <1>6, <1>7, <1>8 DEF GInv

\* The call was made.
LEMMA GDone ==
  ASSUME GInv, FInv', NEW q \in Proc, Done(q),
         UNCHANGED <<line, state, parent, back, failed>>,
         At(q, (Plain \cup {"pipe"}) \ {"exit"})
  PROVE  GInv'
<1>1. Continues(q, Tail(todo[q]))
  BY DEF Continues, Done
<1>2. todo[q] \in Seq(Call) /\ todo[q] # << >> /\ Head(todo[q]).op \in Plain \cup {"pipe"}
  BY AtCall DEF GInv, FInv
<1>3. \A n \in Nat : Owes(todo[q], n) => Owes(Tail(todo[q]), n)
  BY <1>2, OwesTail
<1>4. ((Plain \cup {"pipe"}) \ {"exit"}) \cap {"fork", "wait", "exit"} = {}
  BY DEF Plain
<1> QED BY <1>1, <1>3, <1>4, GContinue

\* The call failed, or exec has replaced the program.
LEMMA GLast ==
  ASSUME GInv, FInv', NEW q \in Proc,
         UNCHANGED <<line, state, parent, back, failed>>,
         At(q, {"open", "exec", "pipe"}),
         Fails(q) \/ todo' = [todo EXCEPT ![q] = <<call("read", 0), exit>>]
  PROVE  GInv'
<1>1. PICK s : Continues(q, s) /\ s \in {<<exit>>, <<call("read", 0), exit>>}
  BY DEF Continues, Fails
<1>2. todo[q] \in Seq(Call) /\ todo[q] # << >> /\ Head(todo[q]).op \in {"open", "exec", "pipe"}
  BY AtCall DEF GInv, FInv
<1>3. \A n \in Nat : Owes(todo[q], n) => Owes(s, n)
  BY <1>1, <1>2, OwesTail, ExitOwes
<1>4. {"open", "exec", "pipe"} \cap {"fork", "wait", "exit"} = {}
  OBVIOUS
<1> QED BY <1>1, <1>3, <1>4, GContinue

LEMMA GRuncmd ==
  ASSUME GInv, FInv', NEW q \in Proc, Runcmd(q)
  PROVE  GInv'
<1> DEFINE s == runcmd(X(q)) \o Tail(todo[q])
<1>0. CallInv
  BY DEF GInv, FInv
<1>1. Continues(q, s) /\ At(q, {"run"})
  BY DEF Runcmd, Continues
<1>2. todo[q] \in Seq(Call) /\ todo[q] # << >> /\ Head(todo[q]).op = "run"
      /\ X(q) \in Command /\ Tail(todo[q]) \in Seq(Call)
  BY <1>0, <1>1, AtCall, CallX DEF X
<1>3. ASSUME NEW n \in Nat, Owes(todo[q], n) PROVE Owes(s, n)
  <2>1. n = 0 /\ PlainFrom(todo[q], 1)
    BY <1>2, <1>3, OwesTail
  <2>2. PlainFrom(Tail(todo[q]), 1)
    <3>1. /\ Len(todo[q]) \in Nat /\ Len(Tail(todo[q])) = Len(todo[q]) - 1
          /\ \A i \in 1 .. Len(todo[q]) - 1 : Tail(todo[q])[i] = todo[q][i + 1]
      BY <1>2, HeadTail
    <3> QED BY <2>1, <3>1 DEF PlainFrom
  <2> QED BY <1>2, <2>1, <2>2, RuncmdOwes
<1>4. {"run"} \cap {"fork", "wait", "exit"} = {}
  OBVIOUS
<1> HIDE DEF s
<1> QED BY <1>1, <1>3, <1>4, GContinue

LEMMA NothingOwed ==
  ASSUME NEW n \in Nat, Owes(<< >>, n)
  PROVE  n = 0
<1>1. Len(<< >>) = 0
  OBVIOUS
<1>2. CASE Forks(<< >>, n)
  <2>1. PICK f \in Nat, c \in Nat, w \in Nat : Begins(<< >>, f, c, w) /\ n + f = w
    BY <1>2 DEF Forks
  <2>2. f + c + w <= 0
    BY <1>1, <2>1 DEF Begins
  <2> QED BY <2>1, <2>2
<1> QED BY <1>1, <1>2 DEF Owes

LEMMA GType ==
  ASSUME GInv, FInv', NEW l \in Lines, Type(l)
  PROVE  GInv'
<1> DEFINE s == <<call("fork", Run(tree(l))), wait>>
<1>0. /\ ParentInv /\ TreeInv /\ WaitInv /\ BackInv /\ ShellInv
      /\ todo \in [Proc -> Seq(Call)] /\ parent \in [Proc -> Proc \cup {init}]
  BY DEF GInv, FInv, TypeOK, CallInv
<1>1. /\ line = None /\ line' = l /\ todo' = [todo EXCEPT ![sh] = s]
      /\ UNCHANGED <<state, parent, back, failed>>
  BY DEF Type
<1>2. Len(s) = 2 /\ s[1].op = "fork" /\ s[2].op = "wait" /\ s # << >> /\ Head(s) = s[1]
  BY DEF call, wait
<1> HIDE DEF s
<1>3. todo[sh] = << >> /\ sh \in Proc
  BY <1>0, <1>1, Bounds DEF ShellInv
<1>4. todo'[sh] = s /\ \A r \in Proc : r # sh => todo'[r] = todo[r]
  BY <1>0, <1>1, <1>3
<1>5. Owes(s, 0)
  <2>1. Begins(s, 1, 0, 1)
    BY <1>2 DEF Begins, PlainFrom
  <2> QED BY <2>1 DEF Forks, Owes
<1>6. ParentInv'
  BY <1>0, <1>1 DEF ParentInv
<1>7. TreeInv'
  BY <1>0, <1>1 DEF TreeInv
<1>8. WaitInv'
  <2> SUFFICES ASSUME ~failed, NEW r \in Proc, state[r] = "run", r \notin back
               PROVE  Owes(todo'[r], Cardinality(Kids(r)))
    BY <1>1 DEF WaitInv, Kids
  <2>1. Owes(todo[r], Cardinality(Kids(r)))
    BY <1>0 DEF WaitInv
  <2>2. CASE r # sh
    BY <1>4, <2>1, <2>2
  <2>3. CASE r = sh
    <3>1. Cardinality(Kids(sh)) = 0
      BY <1>3, <2>1, <2>3, KidsNat, NothingOwed
    <3> QED BY <1>4, <1>5, <2>3, <3>1
  <2> QED BY <2>2, <2>3
<1>9. BackInv'
  <2>1. \A r \in Proc : At(r, {"exit"}) => At(r, {"exit"})'
    BY <1>1, <1>3, <1>4 DEF At
  <2> SUFFICES ASSUME ~failed, NEW c \in Proc, c \in back, parent[c] # init, parent[c] \notin back
               PROVE  At(parent[c], {"exit"})'
    BY <1>1 DEF BackInv
  <2> QED BY <1>0, <1>1, <2>1 DEF BackInv
<1>10. ShellInv'
  <2>1. l # None
    BY ShellAssumption
  <2>2. Head(s).op \in {"fork", "wait"} /\ \A i \in 1 .. Len(s) : s[i].op \in {"fork", "wait"}
    BY <1>2
  <2> QED BY <1>0, <1>1, <1>4, <2>1, <2>2 DEF ShellInv
<1> QED BY <1>6, <1>7, <1>8, <1>9, <1>10 DEF GInv

\* Steps that leave processes to init.
LEMMA TreeLess ==
  ASSUME TreeInv, \A x \in Proc : parent'[x] = parent[x] \/ parent'[x] = init
  PROVE  TreeInv'
<1> SUFFICES ASSUME NEW S \in SUBSET Proc, S # {} PROVE \E c \in S : parent'[c] \notin S
  BY DEF TreeInv
<1>1. PICK c \in S : parent[c] \notin S
  BY DEF TreeInv
<1>2. init \notin S
  BY Bounds
<1> QED BY <1>1, <1>2

LEMMA GExit ==
  ASSUME GInv, FInv', NEW q \in Proc, Exit(q)
  PROVE  GInv'
<1>0. /\ ParentInv /\ TreeInv /\ WaitInv /\ BackInv /\ ShellInv
      /\ todo \in [Proc -> Seq(Call)] /\ parent \in [Proc -> Proc \cup {init}]
      /\ state \in [Proc -> {"unused", "run", "zombie"}] /\ CallInv
  BY DEF GInv, FInv, TypeOK, CallInv
<1>1. /\ At(q, {"exit"}) /\ state' = [state EXCEPT ![q] = "zombie"]
      /\ parent' = [c \in Proc |-> IF parent[c] = q /\ state[c] # "unused"
                                   THEN init ELSE parent[c]]
      /\ todo' = [todo EXCEPT ![q] = << >>]
      /\ UNCHANGED <<line, back, failed>>
  BY DEF Exit
<1>2. state[q] = "run" /\ todo[q] \in Seq(Call) /\ todo[q] # << >> /\ Head(todo[q]).op = "exit"
  BY <1>0, <1>1, AtCall
<1>3. q # sh /\ sh \in Proc /\ init \notin Proc
  BY <1>0, <1>1, NotShell, Bounds
<1>4. \A r \in Proc : r # q => todo'[r] = todo[r] /\ state'[r] = state[r]
  BY <1>0, <1>1
<1>5. \A x \in Proc : /\ parent[x] = q => parent'[x] = init
                      /\ parent[x] # q => parent'[x] = parent[x]
  BY <1>0, <1>1, <1>3 DEF ParentInv
<1>6. state'[q] = "zombie"
  BY <1>0, <1>1
<1>7. ParentInv'
  BY <1>0, <1>1, <1>2, <1>3, <1>4, <1>5, <1>6 DEF ParentInv
<1>8. TreeInv'
  BY <1>0, <1>5, TreeLess
<1>9. WaitInv'
  <2> SUFFICES ASSUME ~failed, NEW r \in Proc, state'[r] = "run", r \notin back
               PROVE  Owes(todo'[r], Cardinality(Kids(r)'))
    BY <1>1 DEF WaitInv
  <2>1. r # q
    BY <1>6
  <2>2. Kids(r)' = Kids(r)
    BY <1>1, <1>2, <1>3, <1>4, <1>5, <1>6, <2>1 DEF Kids
  <2> QED BY <1>0, <1>4, <2>1, <2>2 DEF WaitInv
<1>10. BackInv'
  <2> SUFFICES ASSUME ~failed, NEW c \in Proc, c \in back, parent'[c] # init, parent'[c] \notin back
               PROVE  At(parent[c], {"exit"})'
    BY <1>1 DEF BackInv
  <2>1. parent'[c] = parent[c] /\ parent[c] # q /\ parent[c] \in Proc
    BY <1>0, <1>5
  <2>2. At(parent[c], {"exit"})
    BY <1>0, <2>1 DEF BackInv
  <2> QED BY <1>4, <2>1, <2>2 DEF At
<1>11. ShellInv'
  <2>1. ASSUME ~failed, NEW c \in Proc \ {sh}, state'[c] = "run", c \notin back
        PROVE  parent'[c] # init
    <3>1. c # q /\ state[c] = "run" /\ parent[c] # init
      BY <1>0, <1>4, <1>6, <2>1 DEF ShellInv
    <3>2. CASE parent[c] = q
      <4>1. q \notin back
        BY <1>0, <2>1, <3>2, <1>3 DEF ParentInv
      <4>2. Owes(todo[q], Cardinality(Kids(q)))
        BY <1>0, <1>2, <2>1, <4>1 DEF WaitInv
      <4>3. Cardinality(Kids(q)) = 0
        BY <1>2, <4>2, KidsNat, OwesTail
      <4>4. Kids(q) = {}
        BY <4>3, KidsNat, FS_EmptySet
      <4> QED BY <2>1, <3>1, <3>2, <4>4 DEF Kids
    <3> QED BY <1>5, <3>1, <3>2
  <2> QED BY <1>0, <1>1, <1>3, <1>4, <1>5, <2>1 DEF ShellInv
<1> QED BY <1>7, <1>8, <1>9, <1>10, <1>11 DEF GInv

\* The calls of the shell stay forks and waits.
ShellTail(s) ==
  (\A i \in 1 .. Len(s) : s[i].op \in {"fork", "wait"}) =>
    /\ Tail(s) # << >> => Head(Tail(s)).op \in {"fork", "wait"}
    /\ \A i \in 1 .. Len(Tail(s)) : Tail(s)[i].op \in {"fork", "wait"}

LEMMA TailOps ==
  ASSUME NEW s \in Seq(Call), s # << >>
  PROVE  ShellTail(s)
<1>1. /\ Tail(s) \in Seq(Call) /\ Len(s) \in Nat /\ Len(Tail(s)) = Len(s) - 1
      /\ \A i \in 1 .. Len(s) - 1 : Tail(s)[i] = s[i + 1]
  BY HeadTail
<1> SUFFICES ASSUME \A i \in 1 .. Len(s) : s[i].op \in {"fork", "wait"}
             PROVE  /\ Tail(s) # << >> => Head(Tail(s)).op \in {"fork", "wait"}
                    /\ \A i \in 1 .. Len(Tail(s)) : Tail(s)[i].op \in {"fork", "wait"}
  BY DEF ShellTail
<1>2. \A i \in 1 .. Len(Tail(s)) : Tail(s)[i].op \in {"fork", "wait"}
  BY <1>1
<1>3. Tail(s) # << >> => Head(Tail(s)) = Tail(s)[1] /\ Len(Tail(s)) >= 1
  BY <1>1, HeadTail
<1> QED BY <1>1, <1>2, <1>3

\* The slot of a zombie child c of q is free again, after a wait of q.
LEMMA GReap ==
  ASSUME GInv, FInv', NEW c \in Proc, state[c] = "zombie", Reap(c),
         UNCHANGED <<line, failed>>,
         NEW q, q \in Proc \/ q = init, parent[c] = q,
         q \in Proc => At(q, {"wait"}) /\ Done(q),
         q = init => UNCHANGED todo
  PROVE  GInv'
<1>0. /\ ParentInv /\ TreeInv /\ WaitInv /\ BackInv /\ ShellInv /\ back \subseteq Proc
      /\ todo \in [Proc -> Seq(Call)] /\ parent \in [Proc -> Proc \cup {init}]
      /\ state \in [Proc -> {"unused", "run", "zombie"}] /\ CallInv
  BY DEF GInv, FInv, TypeOK, CallInv
<1>1. /\ state' = [state EXCEPT ![c] = "unused"] /\ parent' = [parent EXCEPT ![c] = init]
      /\ back' = back \ {c}
  BY DEF Reap
<1>2. /\ state'[c] = "unused" /\ parent'[c] = init
      /\ \A x \in Proc : x # c => state'[x] = state[x] /\ parent'[x] = parent[x]
      /\ \A x \in Proc : x # c => (x \in back' <=> x \in back)
  BY <1>0, <1>1
<1>3. \A x \in Proc : parent[x] # c
  BY <1>0, Bounds DEF ParentInv, init
<1>4. c # sh /\ sh \in Proc /\ init \notin Proc /\ c # q
  BY <1>0, Bounds DEF ShellInv, At
<1>5. \A r \in Proc : r # q => todo'[r] = todo[r]
  BY <1>0, <1>4 DEF Done
<1>6. ParentInv'
  BY <1>0, <1>1, <1>2, <1>3 DEF ParentInv
<1>7. TreeInv'
  BY <1>0, <1>2, TreeLess
<1>8. WaitInv'
  <2> SUFFICES ASSUME ~failed, NEW r \in Proc, state'[r] = "run", r \notin back'
               PROVE  Owes(todo'[r], Cardinality(Kids(r)'))
    BY DEF WaitInv
  <2>1. r # c /\ state[r] = "run" /\ r \notin back
    BY <1>2
  <2>2. Owes(todo[r], Cardinality(Kids(r)))
    BY <1>0, <2>1 DEF WaitInv
  <2>3. Kids(r)' = Kids(r) \ {c}
    <3>1. ASSUME NEW x \in Proc, x # c PROVE x \in Kids(r)' <=> x \in Kids(r)
      BY <1>2, <3>1 DEF Kids
    <3>2. c \notin Kids(r)'
      BY <1>2 DEF Kids
    <3>3. Kids(r)' \subseteq Proc /\ Kids(r) \subseteq Proc
      BY DEF Kids
    <3> QED BY <3>1, <3>2, <3>3
  <2>4. CASE r # q
    <3>1. c \notin Kids(r)
      BY <2>4 DEF Kids
    <3>2. Kids(r)' = Kids(r)
      BY <2>3, <3>1
    <3> QED BY <1>5, <2>2, <2>4, <3>2
  <2>5. CASE r = q
    <3>1. At(q, {"wait"}) /\ Done(q) /\ ~At(q, {"exit"})
      BY <2>5 DEF At
    <3>2. c \notin back
      BY <1>0, <1>4, <2>1, <2>5, <3>1 DEF BackInv
    <3>3. c \in Kids(r)
      BY <2>5, <3>2 DEF Kids
    <3>4. Cardinality(Kids(r)') = Cardinality(Kids(r)) - 1
      BY <2>3, <3>3, KidsNat, FS_RemoveElement
    <3>5. todo[r] \in Seq(Call) /\ todo[r] # << >> /\ Head(todo[r]).op = "wait"
      BY <1>0, <2>5, <3>1, AtCall
    <3>6. Owes(Tail(todo[r]), Cardinality(Kids(r)) - 1)
      BY <2>2, <3>5, KidsNat, OwesTail
    <3>7. todo'[r] = Tail(todo[r])
      BY <1>0, <2>5, <3>1 DEF Done
    <3> QED BY <3>4, <3>6, <3>7
  <2> QED BY <2>4, <2>5
<1>9. BackInv'
  <2> SUFFICES ASSUME ~failed, NEW x \in Proc, x \in back', parent'[x] # init, parent'[x] \notin back'
               PROVE  At(parent[x], {"exit"})'
    BY DEF BackInv
  <2>1. x # c /\ parent'[x] = parent[x] /\ parent[x] \in Proc /\ parent[x] # c
    BY <1>0, <1>2, <1>3
  <2>2. x \in back /\ parent[x] \notin back
    BY <1>2, <2>1
  <2>3. At(parent[x], {"exit"})
    BY <1>0, <2>1, <2>2 DEF BackInv
  <2>4. parent[x] # q
    BY <2>1, <2>3 DEF At
  <2> QED BY <1>2, <1>5, <2>1, <2>3, <2>4 DEF At
<1>10. ShellInv'
  <2>1. /\ state'[sh] = "run" /\ parent'[sh] = init /\ sh \notin back'
        /\ ~failed => \A x \in Proc \ {sh} :
                        state'[x] = "run" /\ x \notin back' => parent'[x] # init
    BY <1>0, <1>2, <1>4 DEF ShellInv
  <2>2. CASE q # sh
    BY <1>0, <1>4, <1>5, <2>1, <2>2 DEF ShellInv
  <2>3. CASE q = sh
    <3>1. todo[sh] \in Seq(Call) /\ todo[sh] # << >> /\ todo'[sh] = Tail(todo[sh])
      BY <1>0, <1>4, <2>3, AtCall DEF Done
    <3>2. ShellTail(todo[sh])
      BY <3>1, TailOps
    <3> QED BY <1>0, <2>1, <3>1, <3>2 DEF ShellInv, ShellTail
  <2> QED BY <2>2, <2>3
<1> QED BY <1>6, <1>7, <1>8, <1>9, <1>10 DEF GInv

LEMMA GWait ==
  ASSUME GInv, FInv', NEW q \in Proc, Wait(q)
  PROVE  GInv'
<1>1. At(q, {"wait"}) /\ Done(q) /\ UNCHANGED <<line, failed>>
  BY DEF Wait
<1>2. CASE \E c \in Children(q) : state[c] = "zombie" /\ Reap(c)
  <2>1. PICK c \in Proc : parent[c] = q /\ state[c] = "zombie" /\ Reap(c)
    BY <1>2 DEF Children
  <2>2. q # init
    BY Bounds
  <2> QED BY <1>1, <2>1, <2>2, GReap
<1>3. CASE Children(q) = {} /\ UNCHANGED <<state, parent, p, back>>
  <2>0. /\ ParentInv /\ TreeInv /\ WaitInv /\ BackInv /\ ShellInv
        /\ todo \in [Proc -> Seq(Call)] /\ parent \in [Proc -> Proc \cup {init}] /\ CallInv
    BY DEF GInv, FInv, TypeOK, CallInv
  <2>1. todo[q] \in Seq(Call) /\ todo[q] # << >> /\ Head(todo[q]).op = "wait" /\ state[q] = "run"
    BY <1>1, <2>0, AtCall
  <2>2. todo'[q] = Tail(todo[q]) /\ \A r \in Proc : r # q => todo'[r] = todo[r]
    BY <1>1, <2>0 DEF Done
  <2>3. failed \/ q \in back
    <3> SUFFICES ASSUME ~failed, q \notin back PROVE FALSE
      OBVIOUS
    <3>1. Owes(todo[q], Cardinality(Kids(q)))
      BY <2>0, <2>1 DEF WaitInv
    <3>2. Kids(q) = {}
      BY <1>3 DEF Kids, Children
    <3>3. Cardinality(Kids(q)) = 0
      BY <3>2, FS_EmptySet
    <3>4. Cardinality(Kids(q)) > 0
      BY <2>1, <3>1, KidsNat, OwesTail
    <3> QED BY <3>3, <3>4
  <2>4. ParentInv' /\ TreeInv'
    BY <1>3, <2>0 DEF ParentInv, TreeInv
  <2>5. WaitInv'
    <3> SUFFICES ASSUME ~failed, NEW r \in Proc, state[r] = "run", r \notin back
                 PROVE  Owes(todo'[r], Cardinality(Kids(r)))
      BY <1>1, <1>3 DEF WaitInv, Kids
    <3>1. r # q
      BY <2>3
    <3> QED BY <2>0, <2>2, <3>1 DEF WaitInv
  <2>6. BackInv'
    <3> SUFFICES ASSUME ~failed, NEW c \in Proc, c \in back, parent[c] # init, parent[c] \notin back
                 PROVE  At(parent[c], {"exit"})'
      BY <1>1, <1>3 DEF BackInv
    <3>1. parent[c] # q /\ parent[c] \in Proc /\ At(parent[c], {"exit"})
      BY <2>0, <2>3 DEF BackInv
    <3> QED BY <1>3, <2>2, <3>1 DEF At
  <2>7. ShellInv'
    <3>1. CASE q # sh
      BY <1>1, <1>3, <2>0, <2>2, <3>1, Bounds DEF ShellInv
    <3>2. CASE q = sh
      <4>1. ShellTail(todo[sh])
        BY <2>1, <3>2, TailOps
      <4> QED BY <1>1, <1>3, <2>0, <2>1, <2>2, <3>2, <4>1 DEF ShellInv, ShellTail
    <3> QED BY <3>1, <3>2
  <2> QED BY <2>4, <2>5, <2>6, <2>7 DEF GInv
<1> QED BY <1>2, <1>3 DEF Wait

LEMMA GInitWait ==
  ASSUME GInv, FInv', InitWait
  PROVE  GInv'
<1>1. PICK c \in Proc : parent[c] = init /\ state[c] = "zombie" /\ Reap(c)
  BY DEF InitWait, Children
<1>2. init \notin Proc
  BY Bounds
<1> QED BY <1>1, <1>2, GReap DEF InitWait

LEMMA GForkFailed ==
  ASSUME GInv, FInv', NEW q \in Proc, ForkFailed(q)
  PROVE  GInv'
<1>0. /\ ParentInv /\ TreeInv /\ ShellInv /\ todo \in [Proc -> Seq(Call)]
  BY DEF GInv, FInv, CallInv
<1>1. failed' /\ q # sh /\ Fails(q) /\ UNCHANGED <<line, state, parent, back>>
  BY DEF ForkFailed
<1>2. todo'[sh] = todo[sh]
  BY <1>0, <1>1, Bounds DEF Fails
<1>3. ParentInv' /\ TreeInv'
  BY <1>0, <1>1 DEF ParentInv, TreeInv
<1>4. WaitInv' /\ BackInv'
  BY <1>1 DEF WaitInv, BackInv
<1>5. ShellInv'
  BY <1>0, <1>1, <1>2 DEF ShellInv
<1> QED BY <1>3, <1>4, <1>5 DEF GInv

\* A new process is nobody's ancestor.
LEMMA TreeMore ==
  ASSUME TreeInv, NEW c \in Proc, NEW q, q # c, \A x \in Proc : parent[x] # c,
         parent' = [parent EXCEPT ![c] = q], parent \in [Proc -> Proc \cup {init}]
  PROVE  TreeInv'
<1> SUFFICES ASSUME NEW S \in SUBSET Proc, S # {} PROVE \E x \in S : parent'[x] \notin S
  BY DEF TreeInv
<1>1. parent'[c] = q /\ \A x \in Proc : x # c => parent'[x] = parent[x]
  OBVIOUS
<1>2. CASE S \ {c} = {}
  BY <1>1, <1>2
<1>3. CASE S \ {c} # {}
  <2>1. PICK x \in S \ {c} : parent[x] \notin S \ {c}
    BY <1>3 DEF TreeInv
  <2> QED BY <1>1, <2>1
<1> QED BY <1>2, <1>3

LEMMA GForked ==
  ASSUME GInv, FInv', NEW q \in Proc, NEW c, Forked(q, c)
  PROVE  GInv'
<1>0. /\ ParentInv /\ TreeInv /\ WaitInv /\ BackInv /\ ShellInv /\ back \subseteq Proc
      /\ todo \in [Proc -> Seq(Call)] /\ parent \in [Proc -> Proc \cup {init}]
      /\ state \in [Proc -> {"unused", "run", "zombie"}] /\ CallInv
  BY DEF GInv, FInv, TypeOK, CallInv
<1>1. /\ At(q, {"fork", "fork_back"})
      /\ state' = [state EXCEPT ![c] = "run"] /\ parent' = [parent EXCEPT ![c] = q]
      /\ todo' = [todo EXCEPT ![q] = Tail(@), ![c] = X(q)]
      /\ back' = IF q \in back \/ Head(todo[q]).op = "fork_back" THEN back \cup {c} ELSE back
      /\ UNCHANGED <<line, failed>>
  BY DEF Forked
<1>2. c \in Proc /\ state[c] = "unused" /\ c # q /\ state[q] = "run"
  BY FreeOk DEF Forked, At
<1>3. /\ todo[q] \in Seq(Call) /\ todo[q] # << >> /\ Head(todo[q]).op \in {"fork", "fork_back"}
      /\ X(q) \in Seq(ChildCall)
  BY <1>0, <1>1, AtCall, CallX DEF X
<1>4. c \notin back /\ (\A x \in Proc : parent[x] # c) /\ c # sh /\ sh \in Proc /\ init \notin Proc
  BY <1>0, <1>2, Bounds DEF ParentInv, ShellInv
<1>5. /\ state'[c] = "run" /\ parent'[c] = q /\ todo'[c] = X(q) /\ todo'[q] = Tail(todo[q])
      /\ \A x \in Proc : x # c => state'[x] = state[x] /\ parent'[x] = parent[x]
      /\ \A x \in Proc : x # c /\ x # q => todo'[x] = todo[x]
      /\ \A x \in Proc : x # c => (x \in back' <=> x \in back)
  BY <1>0, <1>1, <1>2
<1>6. c \in back' <=> q \in back \/ Head(todo[q]).op = "fork_back"
  BY <1>1, <1>4
<1>7. ParentInv'
  <2> SUFFICES ASSUME NEW x \in Proc
               PROVE  /\ state'[x] = "unused" => parent'[x] = init /\ x \notin back'
                      /\ parent'[x] # init => /\ state'[parent'[x]] = "run"
                                              /\ parent'[x] \in back' => x \in back'
    BY DEF ParentInv
  <2>1. CASE x = c
    BY <1>2, <1>5, <1>6, <2>1
  <2>2. CASE x # c
    <3>1. parent'[x] = parent[x] /\ parent[x] # c /\ parent[x] \in Proc \cup {init}
      BY <1>0, <1>4, <1>5, <2>2
    <3> QED BY <1>0, <1>5, <2>2, <3>1 DEF ParentInv
  <2> QED BY <2>1, <2>2
<1>8. TreeInv'
  BY <1>0, <1>1, <1>2, <1>4, TreeMore
<1>9. WaitInv'
  <2> SUFFICES ASSUME ~failed, NEW r \in Proc, state'[r] = "run", r \notin back'
               PROVE  Owes(todo'[r], Cardinality(Kids(r)'))
    BY <1>1 DEF WaitInv
  <2>1. CASE r = c
    <3>1. Kids(c)' = {}
      <4>1. \A x \in Proc : parent'[x] # c
        BY <1>2, <1>4, <1>5
      <4> QED BY <4>1 DEF Kids
    <3>2. PlainFrom(X(q), 1) /\ Len(X(q)) \in Nat
      <4>1. Len(X(q)) \in Nat /\ \A i \in 1 .. Len(X(q)) : X(q)[i] \in ChildCall
        BY <1>3, ElementOfSeq, LenProperties
      <4>2. \A a \in ChildCall : a.op \in Plain
        BY DEF ChildCall, Plain
      <4> QED BY <4>1, <4>2 DEF PlainFrom, Plain
    <3>3. Owes(X(q), 0)
      BY <3>2, PlainOwes
    <3>4. Cardinality({}) = 0
      BY FS_EmptySet
    <3> QED BY <1>5, <2>1, <3>1, <3>3, <3>4
  <2>2. CASE r # c
    <3>1. state[r] = "run" /\ r \notin back
      BY <1>5, <2>2
    <3>2. Owes(todo[r], Cardinality(Kids(r)))
      BY <1>0, <3>1 DEF WaitInv
    <3>3. \A x \in Proc : x # c => (x \in Kids(r)' <=> x \in Kids(r))
      BY <1>5 DEF Kids
    <3>4. Kids(r)' \subseteq Proc /\ Kids(r) \subseteq Proc /\ c \notin Kids(r)
      BY <1>2 DEF Kids
    <3>5. CASE r # q
      <4>1. c \notin Kids(r)'
        BY <1>5, <3>5 DEF Kids
      <4>2. Kids(r)' = Kids(r)
        BY <3>3, <3>4, <4>1
      <4> QED BY <1>5, <2>2, <3>2, <3>5, <4>2
    <3>6. CASE r = q /\ Head(todo[q]).op = "fork"
      <4>1. c \in Kids(r)'
        BY <1>2, <1>5, <1>6, <3>1, <3>6 DEF Kids
      <4>2. Kids(r)' = Kids(r) \cup {c}
        BY <3>3, <3>4, <4>1
      <4>3. Cardinality(Kids(r)') = Cardinality(Kids(r)) + 1
        BY <3>4, <4>2, KidsNat, FS_AddElement
      <4>4. Owes(Tail(todo[q]), Cardinality(Kids(r)) + 1)
        BY <1>3, <3>2, <3>6, KidsNat, OwesTail
      <4> QED BY <1>5, <3>6, <4>3, <4>4
    <3>7. CASE r = q /\ Head(todo[q]).op = "fork_back"
      <4>1. c \notin Kids(r)'
        BY <1>6, <3>7 DEF Kids
      <4>2. Kids(r)' = Kids(r)
        BY <3>3, <3>4, <4>1
      <4>3. Owes(Tail(todo[q]), Cardinality(Kids(r)))
        BY <1>3, <3>2, <3>7, KidsNat, OwesTail
      <4> QED BY <1>5, <3>7, <4>2, <4>3
    <3> QED BY <1>3, <3>5, <3>6, <3>7
  <2> QED BY <2>1, <2>2
<1>10. BackInv'
  <2> SUFFICES ASSUME ~failed, NEW x \in Proc, x \in back', parent'[x] # init, parent'[x] \notin back'
               PROVE  At(parent[x], {"exit"})'
    BY <1>1 DEF BackInv
  <2>1. CASE x = c
    <3>1. parent'[x] = q /\ q \notin back /\ Head(todo[q]).op = "fork_back"
      BY <1>2, <1>5, <1>6, <2>1
    <3>2. Owes(todo[q], Cardinality(Kids(q)))
      BY <1>0, <1>2, <3>1 DEF WaitInv
    <3>3. Tail(todo[q]) # << >> /\ Head(Tail(todo[q])).op = "exit"
      BY <1>3, <3>1, <3>2, KidsNat, OwesTail
    <3> QED BY <1>2, <1>5, <3>1, <3>3 DEF At
  <2>2. CASE x # c
    <3>1. parent'[x] = parent[x] /\ parent[x] # c /\ parent[x] \in Proc /\ parent[x] \notin back
          /\ x \in back
      BY <1>0, <1>4, <1>5, <2>2
    <3>2. At(parent[x], {"exit"})
      BY <1>0, <3>1 DEF BackInv
    <3>3. parent[x] # q
      BY <1>3, <3>2 DEF At
    <3> QED BY <1>5, <3>1, <3>2, <3>3 DEF At
  <2> QED BY <2>1, <2>2
<1>11. ShellInv'
  <2>1. /\ state'[sh] = "run" /\ parent'[sh] = init /\ sh \notin back'
        /\ ~failed => \A x \in Proc \ {sh} :
                        state'[x] = "run" /\ x \notin back' => parent'[x] # init
    BY <1>0, <1>4, <1>5 DEF ShellInv
  <2>2. CASE q # sh
    BY <1>0, <1>1, <1>4, <1>5, <2>1, <2>2 DEF ShellInv
  <2>3. CASE q = sh
    <3>1. ShellTail(todo[sh])
      BY <1>3, <2>3, TailOps
    <3> QED BY <1>0, <1>1, <1>3, <1>5, <2>1, <2>3, <3>1 DEF ShellInv, ShellTail
  <2> QED BY <2>2, <2>3
<1> QED BY <1>7, <1>8, <1>9, <1>10, <1>11 DEF GInv

LEMMA GInit == Init => GInv
<1> SUFFICES ASSUME Init PROVE GInv
  OBVIOUS
<1>1. FInv
  BY FInit
<1>2. ParentInv /\ BackInv /\ ShellInv
  BY Bounds DEF Init, ParentInv, BackInv, ShellInv
<1>3. TreeInv
  BY Bounds DEF Init, TreeInv
<1>4. WaitInv
  <2> SUFFICES ASSUME NEW q \in Proc PROVE Owes(todo[q], Cardinality(Kids(q)))
    BY DEF WaitInv
  <2>1. Kids(q) = {} /\ todo[q] = << >>
    BY Bounds DEF Init, Kids
  <2>2. Cardinality(Kids(q)) = 0
    BY <2>1, FS_EmptySet
  <2> QED BY <2>1, <2>2, ExitOwes
<1> QED BY <1>1, <1>2, <1>3, <1>4 DEF GInv

LEMMA GStep ==
  ASSUME GInv, FInv', NEW q \in Proc, Step(q)
  PROVE  GInv'
<1>1. CASE Runcmd(q)
  BY <1>1, GRuncmd
<1>2. CASE Close(q)
  BY <1>2, GDone DEF Close, At, Plain
<1>3. CASE Dup(q)
  BY <1>3, GDone DEF Dup, At, Plain
<1>4. CASE Open(q)
  <2>1. At(q, {"open"}) /\ UNCHANGED <<line, state, parent, back, failed>> /\ (Done(q) \/ Fails(q))
    BY <1>4 DEF Open
  <2>2. At(q, {"open", "exec", "pipe"}) /\ At(q, (Plain \cup {"pipe"}) \ {"exit"})
    BY <2>1 DEF At, Plain
  <2> QED BY <2>1, <2>2, GDone, GLast
<1>5. CASE PipeFirst(q)
  <2>1. /\ At(q, {"pipe"}) /\ UNCHANGED <<line, state, parent, back, failed>>
        /\ Fails(q) \/ UNCHANGED todo
    BY <1>5 DEF PipeFirst
  <2>2. At(q, {"open", "exec", "pipe"})
    BY <2>1 DEF At
  <2>3. CASE UNCHANGED todo
    <3>1. Continues(q, todo[q])
      BY <2>1, <2>3 DEF Continues, GInv, FInv, CallInv
    <3>2. {"pipe"} \cap {"fork", "wait", "exit"} = {}
      OBVIOUS
    <3> QED BY <2>1, <3>1, <3>2, GContinue
  <2> QED BY <2>1, <2>2, <2>3, GLast
<1>6. CASE PipeSecond(q)
  <2>1. /\ At(q, {"pipe"}) /\ UNCHANGED <<line, state, parent, back, failed>>
        /\ Fails(q) \/ Done(q)
    BY <1>6 DEF PipeSecond
  <2>2. At(q, {"open", "exec", "pipe"}) /\ At(q, (Plain \cup {"pipe"}) \ {"exit"})
    BY <2>1 DEF At, Plain
  <2> QED BY <2>1, <2>2, GDone, GLast
<1>7. CASE Fork(q)
  BY <1>7, ForkCases, GForked, GForkFailed
<1>8. CASE Exec(q)
  <2>1. /\ At(q, {"exec"}) /\ UNCHANGED <<line, state, parent, back, failed>>
        /\ Fails(q) \/ todo' = [todo EXCEPT ![q] = <<call("read", 0), exit>>]
    BY <1>8 DEF Exec
  <2>2. At(q, {"open", "exec", "pipe"})
    BY <2>1 DEF At
  <2> QED BY <2>1, <2>2, GLast
<1>9. CASE ReadToEnd(q)
  BY <1>9, GDone DEF ReadToEnd, At, Plain
<1>10. CASE Exit(q)
  BY <1>10, GExit
<1>11. CASE Wait(q)
  BY <1>11, GWait
<1> QED BY <1>1, <1>2, <1>3, <1>4, <1>5, <1>6, <1>7, <1>8, <1>9, <1>10, <1>11 DEF Step

LEMMA GNext == GInv /\ [Next]_vars => GInv'
<1> SUFFICES ASSUME GInv, [Next]_vars PROVE GInv'
  OBVIOUS
<1>0. FInv'
  BY FNext DEF GInv
<1>1. ASSUME NEW s \in Lines, Type(s) PROVE GInv'
  BY <1>0, <1>1, GType
<1>2. ASSUME NEW q \in Proc, Step(q) PROVE GInv'
  BY <1>0, <1>2, GStep
<1>3. CASE InitWait
  BY <1>0, <1>3, GInitWait
<1>4. CASE UNCHANGED vars
  <2>1. UNCHANGED <<line, state, parent, back, failed, todo>>
    BY <1>4 DEF vars, procs
  <2>2. ParentInv' /\ TreeInv' /\ ShellInv'
    BY <2>1 DEF GInv, ParentInv, TreeInv, ShellInv
  <2>3. WaitInv' /\ BackInv'
    BY <2>1 DEF GInv, WaitInv, BackInv, Kids, At
  <2> QED BY <1>0, <2>2, <2>3 DEF GInv
<1> QED BY <1>1, <1>2, <1>3, <1>4 DEF Next

\* Every process in the foreground is awaited by its parent, in every reachable
\* state in which no fork has failed: runcmd waits as often as it has forked.
THEOREM ForksAreAwaited == Spec => []GInv
<1>1. Init => GInv
  BY GInit
<1>2. GInv /\ [Next]_vars => GInv'
  BY GNext
<1> QED BY <1>1, <1>2, PTL DEF Spec

\* When the shell asks for the next line, what still runs is in the background
\* (main and runcmd of sh.c), unless a fork has failed.
THEOREM PromptComesLast == Spec => []PromptMeansDone
<1>1. GInv => PromptMeansDone
  <2> SUFFICES ASSUME GInv, line # None, todo[sh] = << >>, ~failed,
                      NEW q \in Proc \ {sh}, state[q] = "run", q \notin back
               PROVE  FALSE
    BY DEF PromptMeansDone
  <2>0. /\ ParentInv /\ TreeInv /\ WaitInv /\ ShellInv /\ sh \in Proc
        /\ parent \in [Proc -> Proc \cup {init}]
    BY Bounds DEF GInv, FInv, TypeOK
  <2>1. Kids(sh) = {}
    <3>1. Owes(<< >>, Cardinality(Kids(sh)))
      BY <2>0 DEF WaitInv, ShellInv
    <3>2. Cardinality(Kids(sh)) = 0
      BY <3>1, KidsNat, NothingOwed
    <3> QED BY <3>2, KidsNat, FS_EmptySet
  <2> DEFINE S == {c \in Proc \ {sh} : state[c] = "run" /\ c \notin back}
  <2>2. PICK c \in S : parent[c] \notin S
    BY <2>0 DEF TreeInv
  <2>3. parent[c] \in Proc /\ parent[c] # init
    BY <2>0, <2>2 DEF ShellInv
  <2>4. state[parent[c]] = "run" /\ parent[c] \notin back
    BY <2>0, <2>2, <2>3 DEF ParentInv
  <2>5. parent[c] = sh
    BY <2>2, <2>3, <2>4
  <2> QED BY <2>1, <2>2, <2>5 DEF Kids
<1> QED BY <1>1, ForksAreAwaited, PTL

-----------------------------------------------------------------------------
(* What programs get *)

\* What a process with the descriptors o has at each of them.
View(o, w) == [d \in Fd |-> IF o[d] = 0 THEN FD_NONE ELSE w[o[d]]]
Sees(q) == View(ofile[q], what)

\* The views that occur: FD_NONE is a descriptor that is closed.
Fds(a, b, c, e) ==
  [d \in Fd |-> IF d = 0 THEN a ELSE IF d = 1 THEN b ELSE IF d = 2 THEN Console
                ELSE IF d = 3 THEN c ELSE IF d = 4 THEN e ELSE FD_NONE]
Std(a, b) == Fds(a, b, FD_NONE, FD_NONE)
Ends(a, b, c) == Fds(a, b, End(c, "r"), End(c, "w"))

\* What the line means, and: running c with the input a and the output b is
\* part of the meaning M.
Meaning == Wire(tree(line), Console, Console)
Means(M, c, a, b) ==
  c \in Command /\ a \in Source /\ b \in Source /\ Wire(c, a, b) \subseteq M

\* What a process has to do, what it has open, and its p: a command to run, ...
Goes(M, s, v) ==
  \E c \in Command : \E a, b \in Source : Means(M, c, a, b) /\ v = Std(a, b) /\ s = Run(c)

\* ... a redirection, ...
Redir1(M, s, v) ==
  \E c \in OfType("REDIR") : \E a, b \in Source :
    /\ Means(M, c, a, b) /\ v = Std(a, b)
    /\ s = <<call("close", c.fd), call("open", c.file), call("run", c.cmd)>>
Redir2(M, s, v) ==
  \E c \in OfType("REDIR") : \E a, b \in Source :
    /\ Means(M, c, a, b) /\ v = IF c.fd = 0 THEN Std(FD_NONE, b) ELSE Std(a, FD_NONE)
    /\ s = <<call("open", c.file), call("run", c.cmd)>>

\* ... a list, ...
List1(M, s, v) ==
  \E c \in OfType("LIST") : \E a, b \in Source :
    /\ Means(M, c, a, b) /\ v = Std(a, b)
    /\ s = <<call("fork", Run(c.left)), wait, call("run", c.right)>>
List2(M, s, v) ==
  \E c \in OfType("LIST") : \E a, b \in Source :
    /\ Means(M, c, a, b) /\ v = Std(a, b) /\ s = <<wait, call("run", c.right)>>

\* ... a pipe, the sides of which are still to be started, ...
Pipe1(M, s, v) ==
  \E c \in OfType("PIPE") : \E a, b \in Source :
    /\ Means(M, c, a, b) /\ v = Std(a, b)
    /\ s = <<call("pipe", c), call("fork", left_end(c)), call("fork", right_end(c)),
             call("close", P0), call("close", P1), wait, wait, exit>>
HasEnds(pp) == pp = <<3, 4>> /\ 4 \in Fd
Pipe2(M, s, v, pp) ==
  \E c \in OfType("PIPE") : \E a, b \in Source :
    /\ Means(M, c, a, b) /\ v = Ends(a, b, c) /\ HasEnds(pp)
    /\ s = <<call("fork", left_end(c)), call("fork", right_end(c)),
             call("close", P0), call("close", P1), wait, wait, exit>>
Pipe3(M, s, v, pp) ==
  \E c \in OfType("PIPE") : \E a, b \in Source :
    /\ Means(M, c, a, b) /\ v = Ends(a, b, c) /\ HasEnds(pp)
    /\ s = <<call("fork", right_end(c)),
             call("close", P0), call("close", P1), wait, wait, exit>>

\* ... its left side, ...
Left(M, s, v, pp) ==
  \E c \in OfType("PIPE") : \E a, b \in Source :
    /\ Means(M, c, a, b) /\ HasEnds(pp)
    /\ \/ /\ v = Ends(a, b, c)
          /\ s = <<call("close", 1), call("dup", P1), call("close", P0),
                   call("close", P1), call("run", c.left)>>
       \/ /\ v = Ends(a, FD_NONE, c)
          /\ s = <<call("dup", P1), call("close", P0), call("close", P1),
                   call("run", c.left)>>
       \/ /\ v = Ends(a, End(c, "w"), c)
          /\ s = <<call("close", P0), call("close", P1), call("run", c.left)>>
       \/ /\ v = Fds(a, End(c, "w"), FD_NONE, End(c, "w"))
          /\ s = <<call("close", P1), call("run", c.left)>>

\* ... its right side, ...
Right(M, s, v, pp) ==
  \E c \in OfType("PIPE") : \E a, b \in Source :
    /\ Means(M, c, a, b) /\ HasEnds(pp)
    /\ \/ /\ v = Ends(a, b, c)
          /\ s = <<call("close", 0), call("dup", P0), call("close", P0),
                   call("close", P1), call("run", c.right)>>
       \/ /\ v = Ends(FD_NONE, b, c)
          /\ s = <<call("dup", P0), call("close", P0), call("close", P1),
                   call("run", c.right)>>
       \/ /\ v = Ends(End(c, "r"), b, c)
          /\ s = <<call("close", P0), call("close", P1), call("run", c.right)>>
       \/ /\ v = Fds(End(c, "r"), b, FD_NONE, End(c, "w"))
          /\ s = <<call("close", P1), call("run", c.right)>>

\* ... a program, a command in the background, the command of the line, ...
Execs(M, s, v) ==
  \E c \in OfType("EXEC") : \E a, b \in Source :
    Means(M, c, a, b) /\ v = Std(a, b) /\ s = <<call("exec", c.argv), exit>>
Backs(M, s, v) ==
  \E c \in OfType("BACK") : \E a, b \in Source :
    Means(M, c, a, b) /\ v = Std(a, b) /\ s = <<call("fork_back", Run(c.cmd)), exit>>
Typed(M, s, v) ==
  \E c \in Command : \E a, b \in Source :
    Means(M, c, a, b) /\ v = Std(a, b) /\ s = <<call("fork", Run(c)), wait>>

\* ... or nothing that starts a program.
Rest(s) ==
  \A i \in 1 .. Len(s) : s[i].op \in {"close", "wait", "exit", "read"}

Shape(M, s, v, pp) ==
  \/ Goes(M, s, v) \/ Redir1(M, s, v) \/ Redir2(M, s, v)
  \/ List1(M, s, v) \/ List2(M, s, v)
  \/ Pipe1(M, s, v) \/ Pipe2(M, s, v, pp) \/ Pipe3(M, s, v, pp)
  \/ Left(M, s, v, pp) \/ Right(M, s, v, pp)
  \/ Execs(M, s, v) \/ Backs(M, s, v) \/ Typed(M, s, v) \/ Rest(s)

WireInv == \A q \in Proc : state[q] = "run" => Shape(Meaning, todo[q], Sees(q), p[q])

\* A program has what the line gives it, and only reads and exits.
Prog(M, argv, st, s, v) ==
  argv # None =>
    /\ st = "run" /\ s \in {<<call("read", 0), exit>>, <<exit>>}
    /\ \E a, b \in Source :
         v = Std(a, b) /\ [argv |-> argv, in |-> a, out |-> b] \in M
ProgInv == \A q \in Proc : Prog(Meaning, running[q], state[q], todo[q], Sees(q))

\* Before the line is typed the shell is alone, with the console.
StartInv ==
  line = None =>
    /\ state[sh] = "run" /\ todo[sh] = << >> /\ Sees(sh) = Std(Console, Console)
    /\ \A q \in Proc \ {sh} : state[q] # "run"

\* A file that somebody has open is one.
OpenInv ==
  /\ what = [f \in File |-> what[f]]
  /\ \A q \in Proc : \A d \in Fd : ofile[q][d] # 0 => what[ofile[q][d]] # FD_NONE

\* Nobody has the first file of a pipe that is being made.
HalfInv ==
  \A q \in Proc : rf[q] # None =>
    /\ \A r \in Proc : \A d \in Fd : ofile[r][d] # rf[q]
    /\ \A r \in Proc : rf[r] = rf[q] => r = q

HInv == FInv /\ WireInv /\ ProgInv /\ StartInv /\ OpenInv /\ HalfInv

\* The parts of a command mean what the command says.
LEMMA MeansParts ==
  ASSUME NEW M, NEW c, NEW a, NEW b, Means(M, c, a, b)
  PROVE  /\ c \in Command /\ a \in Source /\ b \in Source /\ IsCommand(c)
         /\ c.type = "EXEC" => [argv |-> c.argv, in |-> a, out |-> b] \in M
         /\ c.type = "REDIR" /\ c.fd = 0 => Means(M, c.cmd, Named(c.file), b)
         /\ c.type = "REDIR" /\ c.fd = 1 => Means(M, c.cmd, a, Named(c.file))
         /\ c.type = "LIST" => Means(M, c.left, a, b) /\ Means(M, c.right, a, b)
         /\ c.type = "PIPE" => /\ Means(M, c.left, a, End(c, "w"))
                               /\ Means(M, c.right, End(c, "r"), b)
         /\ c.type = "BACK" => Means(M, c.cmd, a, b)
<1>1. c \in Command /\ a \in Source /\ b \in Source /\ Wire(c, a, b) \subseteq M
  BY DEF Means
<1>2. IsCommand(c)
  BY <1>1, TreeAssumption
<1>3. Wire(c, a, b) = Programs(Wire, c, a, b)
  BY <1>1, WireAssumption
<1>4. ASSUME c.type = "EXEC" PROVE [argv |-> c.argv, in |-> a, out |-> b] \in M
  BY <1>1, <1>3, <1>4 DEF Programs
<1>5. ASSUME c.type = "REDIR" PROVE Named(c.file) \in Source /\ c.cmd \in Command
  <2>1. c \in OfType("REDIR")
    BY <1>1, <1>5 DEF OfType
  <2>2. c.cmd \in Command
    BY <1>2, <1>5 DEF IsCommand
  <2> QED BY <2>1, <2>2 DEF Source
<1>6. ASSUME c.type = "REDIR", c.fd = 0 PROVE Means(M, c.cmd, Named(c.file), b)
  <2>1. Wire(c, a, b) = Wire(c.cmd, Named(c.file), b)
    BY <1>3, <1>6 DEF Programs
  <2> QED BY <1>1, <1>5, <1>6, <2>1 DEF Means
<1>7. ASSUME c.type = "REDIR", c.fd = 1 PROVE Means(M, c.cmd, a, Named(c.file))
  <2>1. Wire(c, a, b) = Wire(c.cmd, a, Named(c.file))
    BY <1>3, <1>7 DEF Programs
  <2> QED BY <1>1, <1>5, <1>7, <2>1 DEF Means
<1>8. ASSUME c.type = "LIST" PROVE Means(M, c.left, a, b) /\ Means(M, c.right, a, b)
  <2>1. Wire(c, a, b) = Wire(c.left, a, b) \cup Wire(c.right, a, b)
    BY <1>3, <1>8 DEF Programs
  <2>2. c.left \in Command /\ c.right \in Command
    BY <1>2, <1>8 DEF IsCommand
  <2> QED BY <1>1, <2>1, <2>2 DEF Means
<1>9. ASSUME c.type = "PIPE"
      PROVE  Means(M, c.left, a, End(c, "w")) /\ Means(M, c.right, End(c, "r"), b)
  <2>1. Wire(c, a, b) = Wire(c.left, a, End(c, "w")) \cup Wire(c.right, End(c, "r"), b)
    BY <1>3, <1>9 DEF Programs
  <2>2. c.left \in Command /\ c.right \in Command
    BY <1>2, <1>9 DEF IsCommand
  <2>3. c \in OfType("PIPE")
    BY <1>1, <1>9 DEF OfType
  <2>4. End(c, "r") \in Source /\ End(c, "w") \in Source
    BY <2>3 DEF Source
  <2> QED BY <1>1, <2>1, <2>2, <2>4 DEF Means
<1>10. ASSUME c.type = "BACK" PROVE Means(M, c.cmd, a, b)
  <2>1. Wire(c, a, b) = Wire(c.cmd, a, b)
    BY <1>3, <1>10 DEF Programs
  <2>2. c.cmd \in Command
    BY <1>2, <1>10 DEF IsCommand
  <2> QED BY <1>1, <2>1, <2>2 DEF Means
<1> QED BY <1>1, <1>2, <1>4, <1>6, <1>7, <1>8, <1>9, <1>10

\* A file that programs get is open.
LEMMA SourceOpen == FD_NONE \notin Source /\ Console \in Source /\ Console # FD_NONE
<1>1. \A k : Named(k) # FD_NONE
  BY DEF Named, FD_NONE
<1>2. \A c, e : End(c, e) # FD_NONE
  BY DEF End, FD_NONE
<1>3. Console # FD_NONE
  BY DEF Console, FD_NONE
<1> QED BY <1>1, <1>2, <1>3 DEF Source

-----------------------------------------------------------------------------
(* What is open, and where *)

\* A file at a descriptor, or half a pipe, has a reference.
LEMMA Counted ==
  ASSUME NEW o, NEW h, NEW f \in File, NEW r \in Proc, NEW d \in Fd,
         o[r][d] = f \/ h[r] = f
  PROVE  RefsAt(o, h, f) # 0
<1> DEFINE A == {l \in Proc \X Fd : o[l[1]][l[2]] = f}
           B == {q \in Proc : h[q] = f}
<1>1. IsFiniteSet(A) /\ IsFiniteSet(B)
  BY FiniteSets1, FS_Product, FS_Subset
<1>2. Cardinality(A) \in Nat /\ Cardinality(B) \in Nat
  BY <1>1, FS_CardinalityType
<1>3. RefsAt(o, h, f) = Cardinality(A) + Cardinality(B) + (IF f = 1 THEN 3 ELSE 0)
  BY DEF RefsAt, FdCount, Count
<1>4. CASE o[r][d] = f
  <2>1. <<r, d>> \in A
    BY <1>4
  <2>2. Cardinality(A) # 0
    BY <1>1, <2>1, FS_EmptySet
  <2> QED BY <1>2, <1>3, <2>2
<1>5. CASE h[r] = f
  <2>1. r \in B
    BY <1>5
  <2>2. Cardinality(B) # 0
    BY <1>1, <2>1, FS_EmptySet
  <2> QED BY <1>2, <1>3, <2>2
<1> QED BY <1>4, <1>5

LEMMA OpenRef ==
  ASSUME FInv
  PROVE  /\ \A r \in Proc : \A d \in Fd : ofile[r][d] # 0 =>
              ofile[r][d] \in File /\ ref[ofile[r][d]] # 0
         /\ \A r \in Proc : rf[r] # None => rf[r] \in File /\ ref[rf[r]] # 0
<1>1. TypeOK /\ RefInv
  BY DEF FInv
<1>2. \A f \in File : ref[f] = RefsAt(ofile, rf, f)
  BY <1>1, RefsAtIs
<1>3. ASSUME NEW r \in Proc, NEW d \in Fd, ofile[r][d] # 0
      PROVE  ofile[r][d] \in File /\ ref[ofile[r][d]] # 0
  <2>1. ofile[r][d] \in File
    BY <1>1, <1>3 DEF TypeOK
  <2> QED BY <1>2, <2>1, Counted
<1>4. ASSUME NEW r \in Proc, rf[r] # None PROVE rf[r] \in File /\ ref[rf[r]] # 0
  <2>1. rf[r] \in File
    BY <1>1, <1>4 DEF TypeOK
  <2>2. RefsAt(ofile, rf, rf[r]) # 0
    BY <2>1, Bounds, Counted
  <2> QED BY <1>2, <2>1, <2>2
<1> QED BY <1>3, <1>4

LEMMA OpenRefNext ==
  ASSUME FInv'
  PROVE  \A r \in Proc : \A d \in Fd : ofile'[r][d] # 0 =>
              ofile'[r][d] \in File /\ ref'[ofile'[r][d]] # 0
<1>1. TypeOK' /\ RefInv'
  BY DEF FInv
<1>2. \A f \in File : ref'[f] = RefsAt(ofile', rf', f)
  BY <1>1, RefsAtNext
<1>3. ASSUME NEW r \in Proc, NEW d \in Fd, ofile'[r][d] # 0
      PROVE  ofile'[r][d] \in File /\ ref'[ofile'[r][d]] # 0
  <2>1. ofile'[r][d] \in File
    BY <1>1, <1>3 DEF TypeOK
  <2> QED BY <1>2, <2>1, Counted
<1> QED BY <1>3

\* Closing, opening or duplicating changes one place of a view.
Put(v, d, x) == [v EXCEPT ![d] = x]

LEMMA FdsSet ==
  ASSUME NEW a, NEW b, NEW c, NEW e, NEW x
  PROVE  /\ Put(Fds(a, b, c, e), 0, x) = Fds(x, b, c, e)
         /\ Put(Fds(a, b, c, e), 1, x) = Fds(a, x, c, e)
         /\ 3 \in Fd => Put(Fds(a, b, c, e), 3, x) = Fds(a, b, x, e)
         /\ 4 \in Fd => Put(Fds(a, b, c, e), 4, x) = Fds(a, b, c, x)
<1>1. [Fds(a, b, c, e) EXCEPT ![0] = x] = Fds(x, b, c, e)
  BY Bounds DEF Fds
<1>2. [Fds(a, b, c, e) EXCEPT ![1] = x] = Fds(a, x, c, e)
  BY Bounds DEF Fds
<1>3. ASSUME 3 \in Fd PROVE [Fds(a, b, c, e) EXCEPT ![3] = x] = Fds(a, b, x, e)
  <2>1. ASSUME NEW d \in Fd
        PROVE  (IF d = 3 THEN x ELSE Fds(a, b, c, e)[d]) = Fds(a, b, x, e)[d]
    BY DEF Fds
  <2>2. [Fds(a, b, c, e) EXCEPT ![3] = x]
          = [d \in Fd |-> IF d = 3 THEN x ELSE Fds(a, b, c, e)[d]]
    BY <1>3 DEF Fds
  <2>3. Fds(a, b, x, e) = [d \in Fd |-> Fds(a, b, x, e)[d]]
    BY DEF Fds
  <2> QED BY <2>1, <2>2, <2>3
<1>4. ASSUME 4 \in Fd PROVE [Fds(a, b, c, e) EXCEPT ![4] = x] = Fds(a, b, c, x)
  <2>1. ASSUME NEW d \in Fd
        PROVE  (IF d = 4 THEN x ELSE Fds(a, b, c, e)[d]) = Fds(a, b, c, x)[d]
    BY DEF Fds
  <2>2. [Fds(a, b, c, e) EXCEPT ![4] = x]
          = [d \in Fd |-> IF d = 4 THEN x ELSE Fds(a, b, c, e)[d]]
    BY <1>4 DEF Fds
  <2>3. Fds(a, b, c, x) = [d \in Fd |-> Fds(a, b, c, x)[d]]
    BY DEF Fds
  <2> QED BY <2>1, <2>2, <2>3
<1> QED BY <1>1, <1>2, <1>3, <1>4 DEF Put

LEMMA FdsGet ==
  ASSUME NEW a, NEW b, NEW c, NEW e
  PROVE  /\ Fds(a, b, c, e)[0] = a /\ Fds(a, b, c, e)[1] = b
         /\ Fds(a, b, c, e)[2] = Console
         /\ 3 \in Fd => Fds(a, b, c, e)[3] = c
         /\ 4 \in Fd => Fds(a, b, c, e)[4] = e
         /\ \A d \in Fd : d > 4 => Fds(a, b, c, e)[d] = FD_NONE
<1>1. 0 \in Fd /\ 1 \in Fd /\ 2 \in Fd /\ Fd \subseteq Nat
  BY Bounds DEF Fd
<1> QED BY <1>1 DEF Fds

\* A descriptor is closed exactly where the view says so.
LEMMA ViewOpen ==
  ASSUME FInv, OpenInv, NEW q \in Proc, NEW d \in Fd
  PROVE  /\ Sees(q)[d] = FD_NONE <=> ofile[q][d] = 0
         /\ ofile[q][d] # 0 => Sees(q)[d] = what[ofile[q][d]]
  BY DEF OpenInv, Sees, View

\* A process whose descriptors stay, and the files of which stay, sees the same.
LEMMA SeesKept ==
  ASSUME NEW r \in Proc, ofile'[r] = ofile[r],
         \A d \in Fd : ofile[r][d] # 0 => what'[ofile[r][d]] = what[ofile[r][d]]
  PROVE  Sees(r)' = Sees(r)
  BY DEF Sees, View

LEMMA SeesSame ==
  ASSUME NEW r \in Proc, ofile'[r] = ofile[r], what' = what
  PROVE  Sees(r)' = Sees(r)
  BY DEF Sees, View

\* Steps that change no descriptor and no file.
LEMMA VSame ==
  ASSUME HInv, UNCHANGED <<ofile, what, rf>>
  PROVE  OpenInv' /\ HalfInv' /\ \A r \in Proc : Sees(r)' = Sees(r)
<1>1. OpenInv' /\ HalfInv'
  BY DEF HInv, OpenInv, HalfInv
<1>2. \A r \in Proc : Sees(r)' = Sees(r)
  BY SeesSame
<1> QED BY <1>1, <1>2

LEMMA VPipeFirst ==
  ASSUME HInv, NEW q \in Proc, PipeFirst(q)
  PROVE  OpenInv' /\ HalfInv' /\ \A r \in Proc : Sees(r)' = Sees(r)
<1>0. FInv /\ TypeOK /\ OpenInv /\ HalfInv
  BY DEF HInv, FInv
<1>1. UNCHANGED <<ofile, what>>
  BY DEF PipeFirst
<1>2. OpenInv' /\ \A r \in Proc : Sees(r)' = Sees(r)
  BY <1>0, <1>1, SeesSame DEF OpenInv
<1>3. CASE UNCHANGED rf
  BY <1>0, <1>1, <1>2, <1>3 DEF HalfInv
<1>4. CASE ~ UNCHANGED rf
  <2> DEFINE f == Min(Unused(ref))
  <2>1. rf' = [rf EXCEPT ![q] = f] /\ Unused(ref) # {} /\ ref \in [File -> Nat]
    BY <1>0, <1>4 DEF PipeFirst, TypeOK
  <2>2. f \in File /\ ref[f] = 0
    BY <2>1, FileOk
  <2> HIDE DEF f
  <2>3. /\ \A r \in Proc : \A d \in Fd : ofile[r][d] # f
        /\ \A r \in Proc : rf[r] # f
    BY <1>0, <2>2, OpenRef, Bounds
  <2>4. rf \in [Proc -> File \cup {None}]
    BY <1>0 DEF TypeOK
  <2>5. HalfInv'
    BY <1>0, <1>1, <2>1, <2>3, <2>4 DEF HalfInv
  <2> QED BY <1>2, <2>5
<1> QED BY <1>3, <1>4

\* q gets files that others have, that were in no use, or its half of a pipe.
Gets(q, o) ==
  \A d \in Fd : \/ o[d] = 0
                \/ \E r \in Proc : \E e \in Fd : o[d] = ofile[r][e]
                \/ o[d] \in File /\ ref[o[d]] = 0
                \/ o[d] = rf[q] /\ rf'[q] = None

\* The first file of a pipe stays nobody's.
LEMMA HalfKept ==
  ASSUME HInv, NEW q \in Proc, NEW o, ofile' = [ofile EXCEPT ![q] = o],
         rf' = rf \/ rf' = [rf EXCEPT ![q] = None],
         Gets(q, o)
  PROVE  HalfInv'
<1>0. FInv /\ TypeOK /\ HalfInv
  BY DEF HInv, FInv
<1>1. rf \in [Proc -> File \cup {None}] /\ ofile \in [Proc -> [Fd -> File \cup {0}]]
  BY <1>0 DEF TypeOK
<1>2. ASSUME NEW r \in Proc, rf'[r] # None PROVE rf'[r] = rf[r] /\ rf[r] # None /\ rf[r] \in File
                                                 /\ (rf'[q] = None => r # q)
  BY <1>1, <1>2
<1>3. ASSUME NEW r \in Proc, rf'[r] # None, NEW t \in Proc, NEW d \in Fd
      PROVE  ofile'[t][d] # rf'[r]
  <2>1. rf'[r] = rf[r] /\ rf[r] # None /\ rf[r] \in File /\ ref[rf[r]] # 0
        /\ (rf'[q] = None => r # q)
    BY <1>0, <1>2, <1>3, OpenRef
  <2>2. CASE t # q
    BY <1>0, <1>1, <2>1, <2>2 DEF HalfInv
  <2>3. CASE t = q
    <3>1. ofile'[t][d] = o[d]
      BY <1>1, <2>3
    <3>2. CASE o[d] = 0
      BY <2>1, <3>1, <3>2, Bounds
    <3>3. CASE \E u \in Proc : \E e \in Fd : o[d] = ofile[u][e]
      BY <1>0, <2>1, <3>1, <3>3 DEF HalfInv
    <3>4. CASE o[d] \in File /\ ref[o[d]] = 0
      BY <2>1, <3>1, <3>4
    <3>5. CASE o[d] = rf[q] /\ rf'[q] = None
      BY <1>0, <2>1, <3>1, <3>5 DEF HalfInv
    <3> QED BY <3>2, <3>3, <3>4, <3>5 DEF Gets
  <2> QED BY <2>2, <2>3
<1>4. ASSUME NEW r \in Proc, rf'[r] # None, NEW t \in Proc, rf'[t] = rf'[r] PROVE t = r
  <2>1. rf'[t] = rf[t] /\ rf'[r] = rf[r] /\ rf[r] # None
    BY <1>2, <1>4
  <2> QED BY <1>0, <1>4, <2>1 DEF HalfInv
<1> QED BY <1>3, <1>4 DEF HalfInv

LEMMA VClose ==
  ASSUME HInv, FInv', NEW q \in Proc, Close(q)
  PROVE  /\ fd(q, X(q)) \in Fd
         /\ Sees(q)' = Put(Sees(q), fd(q, X(q)), FD_NONE)
         /\ \A r \in Proc : r # q => Sees(r)' = Sees(r)
         /\ OpenInv' /\ HalfInv'
<1>0. FInv /\ TypeOK /\ CallInv /\ OpenInv /\ HalfInv
  BY DEF HInv, FInv
<1> DEFINE d == fd(q, X(q))
           f == ofile[q][d]
           o == [ofile[q] EXCEPT ![d] = 0]
<1>1. d \in Fd
  <2>1. At(q, {"close"})
    BY DEF Close
  <2>2. X(q) \in {0, 1, P0, P1}
    BY <1>0, <2>1, AtCall, CallX DEF X
  <2> QED BY <1>0, <2>2, FdNamed
<1>2. ofile \in [Proc -> [Fd -> File \cup {0}]] /\ rf' = rf
  BY <1>0 DEF TypeOK, Close
<1>3. CASE f = 0
  <2>1. UNCHANGED <<ofile, what, rf>>
    BY <1>2, <1>3 DEF Close, files
  <2>2. Sees(q)[d] = FD_NONE
    BY <1>0, <1>1, <1>3, ViewOpen
  <2>3. [Sees(q) EXCEPT ![d] = FD_NONE] = Sees(q)
    <3> HIDE DEF d
    <3> QED BY <1>1, <2>2 DEF Sees, View
  <2> HIDE DEF d, f, o
  <2> QED BY <1>1, <2>1, <2>3, VSame DEF d, Put
<1>4. CASE f # 0
  <2>1. ofile' = [ofile EXCEPT ![q] = o] /\ what' = cleared(what, ref')
    BY <1>1, <1>2, <1>4 DEF Close
  <2> HIDE DEF d, f
  <2>2. \A r \in Proc : \A e \in Fd : ofile'[r][e] # 0 =>
          what'[ofile'[r][e]] = what[ofile'[r][e]]
    BY <2>1, OpenRefNext DEF cleared
  <2>3. \A r \in Proc : r # q => ofile'[r] = ofile[r]
    BY <1>2, <2>1
  <2>4. \A r \in Proc : r # q => Sees(r)' = Sees(r)
    BY <2>2, <2>3, SeesKept
  <2>5. ofile'[q] = o /\ o \in [Fd -> File \cup {0}]
        /\ \A e \in Fd : o[e] = IF e = d THEN 0 ELSE ofile[q][e]
    BY <1>1, <1>2, <2>1, Bounds
  <2> HIDE DEF o
  <2>6. ASSUME NEW e \in Fd
        PROVE  (IF o[e] = 0 THEN FD_NONE ELSE what'[o[e]])
                 = (IF e = d THEN FD_NONE ELSE IF ofile[q][e] = 0 THEN FD_NONE ELSE what[ofile[q][e]])
    BY <2>2, <2>5
  <2>7. Sees(q)' = [Sees(q) EXCEPT ![d] = FD_NONE]
    <3>1. Sees(q)' = [e \in Fd |-> IF o[e] = 0 THEN FD_NONE ELSE what'[o[e]]]
      BY <2>5 DEF Sees, View
    <3>2. [Sees(q) EXCEPT ![d] = FD_NONE] = [e \in Fd |->
            IF e = d THEN FD_NONE ELSE IF ofile[q][e] = 0 THEN FD_NONE ELSE what[ofile[q][e]]]
      BY <1>1 DEF Sees, View
    <3> QED BY <2>6, <3>1, <3>2
  <2>8. OpenInv'
    <3> SUFFICES ASSUME NEW r \in Proc, NEW e \in Fd, ofile'[r][e] # 0
                 PROVE  what'[ofile'[r][e]] # FD_NONE
      BY <2>1 DEF OpenInv, cleared
    <3>1. ofile'[r][e] = ofile[r][e]
      BY <1>2, <2>3, <2>5
    <3> QED BY <1>0, <2>2, <3>1 DEF OpenInv
  <2>9. HalfInv'
    <3>1. Gets(q, o)
      BY <2>5 DEF Gets
    <3> QED BY <1>2, <2>1, <3>1, HalfKept
  <2> QED BY <1>1, <2>4, <2>7, <2>8, <2>9 DEF d, Put
<1> QED BY <1>3, <1>4

LEMMA VExit ==
  ASSUME HInv, FInv', NEW q \in Proc, Exit(q)
  PROVE  /\ \A r \in Proc : r # q => Sees(r)' = Sees(r)
         /\ OpenInv' /\ HalfInv'
<1>0. FInv /\ TypeOK /\ OpenInv
  BY DEF HInv, FInv
<1> DEFINE o == [d \in Fd |-> 0]
<1>1. /\ ofile' = [ofile EXCEPT ![q] = o] /\ what' = cleared(what, ref') /\ rf' = rf
      /\ ofile \in [Proc -> [Fd -> File \cup {0}]]
  BY <1>0 DEF Exit, TypeOK
<1>2. \A r \in Proc : \A e \in Fd : ofile'[r][e] # 0 =>
        what'[ofile'[r][e]] = what[ofile'[r][e]]
  BY <1>1, OpenRefNext DEF cleared
<1>3. \A r \in Proc : r # q => ofile'[r] = ofile[r]
  BY <1>1
<1>4. \A r \in Proc : r # q => Sees(r)' = Sees(r)
  BY <1>2, <1>3, SeesKept
<1>5. OpenInv'
  <2> SUFFICES ASSUME NEW r \in Proc, NEW e \in Fd, ofile'[r][e] # 0
               PROVE  what'[ofile'[r][e]] # FD_NONE
    BY <1>1 DEF OpenInv, cleared
  <2>1. ofile'[r][e] = ofile[r][e]
    BY <1>1, <1>3
  <2> QED BY <1>0, <1>2, <2>1 DEF OpenInv
<1>6. Gets(q, o)
  BY DEF Gets
<1>7. HalfInv'
  <2> HIDE DEF o
  <2> QED BY <1>1, <1>6, HalfKept
<1> QED BY <1>4, <1>5, <1>7

\* One more descriptor of q is open: d, with the file f that is g.
LEMMA ViewSet ==
  ASSUME NEW q \in Proc, NEW d \in Fd, NEW f \in File,
         ofile \in [Proc -> [Fd -> File \cup {0}]],
         ofile'[q] = [ofile[q] EXCEPT ![d] = f],
         \A e \in Fd : e # d /\ ofile[q][e] # 0 => what'[ofile[q][e]] = what[ofile[q][e]]
  PROVE  Sees(q)' = [Sees(q) EXCEPT ![d] = what'[f]]
<1>1. \A e \in Fd : ofile'[q][e] = IF e = d THEN f ELSE ofile[q][e]
  OBVIOUS
<1>2. ASSUME NEW e \in Fd
      PROVE  (IF ofile'[q][e] = 0 THEN FD_NONE ELSE what'[ofile'[q][e]])
               = (IF e = d THEN what'[f] ELSE IF ofile[q][e] = 0 THEN FD_NONE ELSE what[ofile[q][e]])
  BY <1>1, Bounds
<1>3. Sees(q)' = [e \in Fd |-> IF ofile'[q][e] = 0 THEN FD_NONE ELSE what'[ofile'[q][e]]]
  BY DEF Sees, View
<1>4. [Sees(q) EXCEPT ![d] = what'[f]] = [e \in Fd |->
        IF e = d THEN what'[f] ELSE IF ofile[q][e] = 0 THEN FD_NONE ELSE what[ofile[q][e]]]
  BY DEF Sees, View
<1> QED BY <1>2, <1>3, <1>4

LEMMA VDup ==
  ASSUME HInv, NEW q \in Proc, Dup(q),
         Sees(q)[fd(q, X(q))] # FD_NONE, fdalloc(ofile[q]) # None
  PROVE  /\ fd(q, X(q)) \in Fd /\ fdalloc(ofile[q]) \in Fd
         /\ Sees(q)' = Put(Sees(q), fdalloc(ofile[q]), Sees(q)[fd(q, X(q))])
         /\ \A r \in Proc : r # q => Sees(r)' = Sees(r)
         /\ OpenInv' /\ HalfInv'
<1>0. FInv /\ TypeOK /\ CallInv /\ OpenInv
  BY DEF HInv, FInv
<1> DEFINE s == fd(q, X(q))
           f == ofile[q][s]
           d == fdalloc(ofile[q])
           o == [ofile[q] EXCEPT ![d] = f]
<1>1. s \in Fd
  <2>1. At(q, {"dup"})
    BY DEF Dup
  <2>2. X(q) \in {0, 1, P0, P1}
    BY <1>0, <2>1, AtCall, CallX DEF X
  <2> QED BY <1>0, <2>2, FdNamed
<1>2. ofile \in [Proc -> [Fd -> File \cup {0}]] /\ what' = what /\ rf' = rf
  BY <1>0 DEF TypeOK, Dup
<1>3. f # 0 /\ f \in File /\ Sees(q)[s] = what[f]
  BY <1>0, <1>1, <1>2, ViewOpen
<1>4. d \in Fd /\ ofile[q][d] = 0
  BY <1>2, FdOk
<1>5. ofile' = [ofile EXCEPT ![q] = o]
  <2>1. ofile' = [ofile EXCEPT ![q][d] = f]
    BY <1>3 DEF Dup
  <2> QED BY <1>2, <2>1
<1> HIDE DEF s, f, d
<1>6. Sees(q)' = [Sees(q) EXCEPT ![d] = what[f]]
  BY <1>2, <1>3, <1>4, <1>5, ViewSet
<1>7. \A r \in Proc : r # q => Sees(r)' = Sees(r)
  BY <1>2, <1>5, SeesSame
<1>8. ofile'[q] = o /\ \A e \in Fd : o[e] = IF e = d THEN f ELSE ofile[q][e]
  BY <1>2, <1>4, <1>5
<1>9. OpenInv'
  <2> SUFFICES ASSUME NEW r \in Proc, NEW e \in Fd, ofile'[r][e] # 0
               PROVE  what'[ofile'[r][e]] # FD_NONE
    BY <1>0, <1>2 DEF OpenInv
  <2>1. \E g \in Fd : ofile'[r][e] = ofile[r][g]
    BY <1>1, <1>2, <1>5, <1>8 DEF f
  <2> QED BY <1>0, <1>2, <2>1 DEF OpenInv
<1>10. HalfInv'
  <2> HIDE DEF o
  <2>1. Gets(q, o)
    BY <1>1, <1>8 DEF f, Gets
  <2> QED BY <1>2, <1>5, <2>1, HalfKept
<1> QED BY <1>1, <1>3, <1>4, <1>6, <1>7, <1>9, <1>10 DEF d, s, Put

LEMMA VOpen ==
  ASSUME HInv, NEW q \in Proc, Open(q), ~Fails(q) \/ ofile' # ofile
  PROVE  /\ fdalloc(ofile[q]) \in Fd /\ Done(q)
         /\ Sees(q)' = Put(Sees(q), fdalloc(ofile[q]), Named(X(q)))
         /\ \A r \in Proc : r # q => Sees(r)' = Sees(r)
         /\ OpenInv' /\ HalfInv'
<1>0. FInv /\ TypeOK /\ CallInv /\ OpenInv
  BY DEF HInv, FInv
<1> DEFINE f == Min(Unused(ref))
           d == fdalloc(ofile[q])
           o == [ofile[q] EXCEPT ![d] = f]
<1>1. /\ Unused(ref) # {} /\ d # None /\ Done(q)
      /\ ofile' = [ofile EXCEPT ![q][d] = f] /\ what' = [what EXCEPT ![f] = Named(X(q))]
  BY DEF Open
<1>2. /\ ofile \in [Proc -> [Fd -> File \cup {0}]] /\ ref \in [File -> Nat] /\ rf' = rf
      /\ what = [g \in File |-> what[g]]
  BY <1>0 DEF TypeOK, Open, OpenInv
<1>3. f \in File /\ ref[f] = 0
  BY <1>1, <1>2, FileOk
<1>4. d \in Fd /\ ofile[q][d] = 0
  BY <1>1, <1>2, FdOk
<1>5. ofile' = [ofile EXCEPT ![q] = o]
  BY <1>1, <1>2
<1>6. ofile'[q] = o /\ \A e \in Fd : o[e] = IF e = d THEN f ELSE ofile[q][e]
  BY <1>2, <1>4, <1>5
<1> HIDE DEF f, d, o
<1>7. \A r \in Proc : \A e \in Fd : ofile[r][e] # f
  BY <1>0, <1>3, OpenRef, Bounds
<1>8. /\ what'[f] = Named(X(q)) /\ \A g \in File : g # f => what'[g] = what[g]
      /\ what' = [g \in File |-> what'[g]]
  BY <1>1, <1>2, <1>3
<1>9. \A r \in Proc : \A e \in Fd : ofile[r][e] # 0 => what'[ofile[r][e]] = what[ofile[r][e]]
  BY <1>2, <1>7, <1>8
<1>10. Sees(q)' = [Sees(q) EXCEPT ![d] = what'[f]]
  BY <1>2, <1>3, <1>4, <1>6, <1>9, ViewSet DEF o
<1>11. \A r \in Proc : r # q => Sees(r)' = Sees(r)
  BY <1>2, <1>5, <1>9, SeesKept
<1>12. OpenInv'
  <2> SUFFICES ASSUME NEW r \in Proc, NEW e \in Fd, ofile'[r][e] # 0
               PROVE  what'[ofile'[r][e]] # FD_NONE
    BY <1>8 DEF OpenInv
  <2>1. ofile'[r][e] = ofile[r][e] \/ ofile'[r][e] = f
    BY <1>2, <1>5, <1>6
  <2>2. Named(X(q)) # FD_NONE
    BY DEF Named, FD_NONE
  <2> QED BY <1>0, <1>8, <1>9, <2>1, <2>2 DEF OpenInv
<1>13. HalfInv'
  <2>1. Gets(q, o)
    BY <1>3, <1>6 DEF Gets
  <2> QED BY <1>2, <1>5, <2>1, HalfKept
<1> QED BY <1>1, <1>4, <1>8, <1>10, <1>11, <1>12, <1>13 DEF d, Put

\* fdalloc finds the first that is closed.
LEMMA FdLeast ==
  ASSUME NEW o, NEW d \in Fd, o[d] = 0, \A e \in Fd : e < d => o[e] # 0
  PROVE  fdalloc(o) = d
<1> DEFINE Z == {e \in Fd : o[e] = 0}
<1>1. d \in Z /\ \A e \in Z : d <= e
  BY Bounds DEF Fd
<1>2. fdalloc(o) = Min(Z)
  BY <1>1 DEF fdalloc
<1>3. Z \subseteq Nat
  BY Bounds
<1> HIDE DEF Z
<1>4. Min(Z) = d
  <2>1. Min(Z) \in Z /\ \A e \in Z : Min(Z) <= e
    BY <1>1 DEF Min
  <2>2. Min(Z) \in Nat /\ d \in Nat
    BY <1>1, <1>3, <2>1
  <2>3. d <= Min(Z) /\ Min(Z) <= d
    BY <1>1, <2>1
  <2> QED BY <2>2, <2>3
<1> QED BY <1>2, <1>4

LEMMA FdFirst ==
  ASSUME FInv, OpenInv, NEW q \in Proc, NEW a, NEW b, NEW c, NEW e, Sees(q) = Fds(a, b, c, e)
  PROVE  /\ a = FD_NONE => fdalloc(ofile[q]) = 0
         /\ a # FD_NONE /\ b = FD_NONE => fdalloc(ofile[q]) = 1
         /\ a # FD_NONE /\ b # FD_NONE /\ c = FD_NONE /\ fdalloc(ofile[q]) # None =>
              fdalloc(ofile[q]) = 3
<1>0. 0 \in Fd /\ 1 \in Fd /\ 2 \in Fd /\ \A d \in Fd : d \in Nat
  BY Bounds DEF Fd
<1>1. /\ ofile[q][0] = 0 <=> a = FD_NONE
      /\ ofile[q][1] = 0 <=> b = FD_NONE
      /\ ofile[q][2] # 0
      /\ 3 \in Fd => (ofile[q][3] = 0 <=> c = FD_NONE)
  BY <1>0, ViewOpen, FdsGet, SourceOpen
<1>2. ASSUME a = FD_NONE PROVE fdalloc(ofile[q]) = 0
  <2>1. \A d \in Fd : d < 0 => ofile[q][d] # 0
    BY <1>0
  <2> QED BY <1>0, <1>1, <1>2, <2>1, FdLeast
<1>3. ASSUME a # FD_NONE, b = FD_NONE PROVE fdalloc(ofile[q]) = 1
  <2>1. \A d \in Fd : d < 1 => d = 0
    BY <1>0
  <2>2. \A d \in Fd : d < 1 => ofile[q][d] # 0
    BY <1>1, <1>3, <2>1
  <2> QED BY <1>0, <1>1, <1>3, <2>2, FdLeast
<1>4. ASSUME a # FD_NONE, b # FD_NONE, c = FD_NONE, fdalloc(ofile[q]) # None
      PROVE  fdalloc(ofile[q]) = 3
  <2>1. ofile[q] \in [Fd -> File \cup {0}]
    BY DEF FInv, TypeOK
  <2>2. fdalloc(ofile[q]) \in Fd /\ ofile[q][fdalloc(ofile[q])] = 0
    BY <1>4, <2>1, FdOk
  <2>3. fdalloc(ofile[q]) # 0 /\ fdalloc(ofile[q]) # 1 /\ fdalloc(ofile[q]) # 2
    BY <1>1, <1>4, <2>2
  <2>4. 3 \in Fd
    BY <2>2, <2>3, Bounds DEF Fd
  <2>5. \A d \in Fd : d < 3 => d \in {0, 1, 2}
    BY <1>0
  <2>6. \A d \in Fd : d < 3 => ofile[q][d] # 0
    BY <1>1, <1>4, <2>5
  <2> QED BY <1>1, <1>4, <2>4, <2>6, FdLeast
<1> QED BY <1>2, <1>3, <1>4

\* A pipe that has been made.
Piped(q) ==
  LET g  == Min(Unused(ref))
      d0 == fdalloc(ofile[q])
      o  == [ofile[q] EXCEPT ![d0] = rf[q]]
      d1 == fdalloc(o)
  IN  /\ Unused(ref) # {} /\ d0 # None /\ d1 # None
      /\ what' = [what EXCEPT ![rf[q]] = End(X(q), "r"), ![g] = End(X(q), "w")]
      /\ ofile' = [ofile EXCEPT ![q] = [o EXCEPT ![d1] = g]]
      /\ p' = [p EXCEPT ![q] = <<d0, d1>>] /\ Done(q)

LEMMA PipeCases ==
  ASSUME NEW q \in Proc, PipeSecond(q)
  PROVE  /\ At(q, {"pipe"}) /\ rf[q] # None /\ rf' = [rf EXCEPT ![q] = None]
         /\ UNCHANGED <<line, state, parent, running, back, failed>>
         /\ Piped(q) \/ (Fails(q) /\ UNCHANGED <<what, ofile, p>>)
  BY DEF PipeSecond, Piped

LEMMA VPiped ==
  ASSUME HInv, NEW q \in Proc, PipeSecond(q), Piped(q),
         NEW a \in Source, NEW b \in Source, Sees(q) = Std(a, b)
  PROVE  /\ Sees(q)' = Ends(a, b, X(q)) /\ HasEnds(p'[q])
         /\ \A r \in Proc : r # q => Sees(r)' = Sees(r)
         /\ OpenInv' /\ HalfInv'
<1>0. FInv /\ TypeOK /\ OpenInv /\ HalfInv /\ rf[q] # None
  BY DEF HInv, FInv, PipeSecond
<1>1. /\ ofile \in [Proc -> [Fd -> File \cup {0}]] /\ ref \in [File -> Nat]
      /\ rf \in [Proc -> File \cup {None}] /\ p \in [Proc -> Fd \X Fd]
      /\ what = [f \in File |-> what[f]]
  BY <1>0 DEF TypeOK, OpenInv
<1> DEFINE g  == Min(Unused(ref))
           d0 == fdalloc(ofile[q])
           o  == [ofile[q] EXCEPT ![d0] = rf[q]]
           d1 == fdalloc(o)
           h  == rf[q]
           u  == [o EXCEPT ![d1] = g]
<1>2. /\ Unused(ref) # {} /\ d0 # None /\ d1 # None
      /\ what' = [what EXCEPT ![h] = End(X(q), "r"), ![g] = End(X(q), "w")]
      /\ ofile' = [ofile EXCEPT ![q] = u] /\ p' = [p EXCEPT ![q] = <<d0, d1>>]
  BY DEF Piped
<1>3. d0 = 3 /\ 3 \in Fd /\ ofile[q][3] = 0
  <2>1. a # FD_NONE /\ b # FD_NONE
    BY SourceOpen
  <2>2. d0 = 3
    BY <1>0, <1>2, <2>1, FdFirst DEF Std
  <2> QED BY <1>1, <1>2, <2>2, FdOk
<1>4. h \in File /\ ref[h] # 0 /\ g \in File /\ ref[g] = 0 /\ g # h /\ h # 0 /\ g # 0
  BY <1>0, <1>1, <1>2, OpenRef, FileOk, Bounds
<1>5. o \in [Fd -> File \cup {0}] /\ \A e \in Fd : o[e] = IF e = 3 THEN h ELSE ofile[q][e]
  BY <1>1, <1>3, <1>4
<1>6. d1 = 4 /\ 4 \in Fd
  <2> HIDE DEF o, h
  <2>1. d1 \in Fd /\ o[d1] = 0
    BY <1>2, <1>5, FdOk
  <2>2. 0 \in Fd /\ 1 \in Fd /\ 2 \in Fd /\ \A e \in Fd : e \in Nat
    BY Bounds DEF Fd
  <2>3. ofile[q][0] # 0 /\ ofile[q][1] # 0 /\ ofile[q][2] # 0
    BY <1>0, <2>2, ViewOpen, FdsGet, SourceOpen DEF Std
  <2>4. o[0] # 0 /\ o[1] # 0 /\ o[2] # 0 /\ o[3] # 0
    BY <1>3, <1>4, <1>5, <2>2, <2>3
  <2>5. 4 \in Fd
    <3>1. d1 # 0 /\ d1 # 1 /\ d1 # 2 /\ d1 # 3
      BY <2>1, <2>4
    <3> HIDE DEF d1
    <3> QED BY <2>1, <2>2, <3>1, Bounds DEF Fd
  <2>6. ofile[q][4] = 0
    BY <1>0, <2>5, ViewOpen, FdsGet DEF Std
  <2>7. o[4] = 0
    BY <1>5, <2>5, <2>6
  <2>8. \A e \in Fd : e < 4 => e \in {0, 1, 2, 3}
    BY <2>2
  <2>9. \A e \in Fd : e < 4 => o[e] # 0
    BY <2>4, <2>8
  <2> QED BY <2>5, <2>7, <2>9, FdLeast
<1>7. u \in [Fd -> File \cup {0}]
      /\ \A e \in Fd : u[e] = IF e = 4 THEN g ELSE IF e = 3 THEN h ELSE ofile[q][e]
  <2> HIDE DEF o, g, h, d1
  <2> QED BY <1>4, <1>5, <1>6
<1>8. HasEnds(p'[q])
  BY <1>1, <1>2, <1>3, <1>6 DEF HasEnds
<1> HIDE DEF g, h, u, o, d0, d1
<1>9. /\ what'[h] = End(X(q), "r") /\ what'[g] = End(X(q), "w")
      /\ \A f \in File : f # h /\ f # g => what'[f] = what[f]
      /\ what' = [f \in File |-> what'[f]]
  BY <1>1, <1>2, <1>4
<1>10. \A r \in Proc : \A e \in Fd : ofile[r][e] # h /\ ofile[r][e] # g
  BY <1>0, <1>4, OpenRef DEF HalfInv, h
<1>11. \A r \in Proc : \A e \in Fd : ofile[r][e] # 0 => what'[ofile[r][e]] = what[ofile[r][e]]
  BY <1>1, <1>9, <1>10
<1>12. ofile'[q] = u /\ \A r \in Proc : r # q => ofile'[r] = ofile[r]
  BY <1>1, <1>2
<1>13. \A r \in Proc : r # q => Sees(r)' = Sees(r)
  BY <1>11, <1>12, SeesKept
<1>14. Sees(q)' = Ends(a, b, X(q))
  <2>1. Sees(q)' = [e \in Fd |-> IF u[e] = 0 THEN FD_NONE ELSE what'[u[e]]]
    BY <1>12 DEF Sees, View
  <2>2. Ends(a, b, X(q)) = [e \in Fd |-> IF e = 3 THEN End(X(q), "r")
                              ELSE IF e = 4 THEN End(X(q), "w") ELSE Std(a, b)[e]]
    BY DEF Ends, Std, Fds
  <2>3. ASSUME NEW e \in Fd
        PROVE  (IF u[e] = 0 THEN FD_NONE ELSE what'[u[e]])
                 = (IF e = 3 THEN End(X(q), "r")
                    ELSE IF e = 4 THEN End(X(q), "w") ELSE Std(a, b)[e])
    <3>1. Std(a, b)[e] = IF ofile[q][e] = 0 THEN FD_NONE ELSE what[ofile[q][e]]
      BY DEF Sees, View
    <3>2. CASE e = 3
      BY <1>4, <1>7, <1>9, <3>2
    <3>3. CASE e = 4
      BY <1>4, <1>7, <1>9, <3>3
    <3>4. CASE e # 3 /\ e # 4
      BY <1>7, <1>11, <3>1, <3>4
    <3> QED BY <3>2, <3>3, <3>4
  <2> QED BY <2>1, <2>2, <2>3
<1>15. OpenInv'
  <2> SUFFICES ASSUME NEW r \in Proc, NEW e \in Fd, ofile'[r][e] # 0
               PROVE  what'[ofile'[r][e]] # FD_NONE
    BY <1>9 DEF OpenInv
  <2>1. ofile'[r][e] = ofile[r][e] \/ ofile'[r][e] = h \/ ofile'[r][e] = g
    BY <1>7, <1>12
  <2>2. End(X(q), "r") # FD_NONE /\ End(X(q), "w") # FD_NONE
    BY DEF End, FD_NONE
  <2> QED BY <1>0, <1>9, <1>11, <2>1, <2>2 DEF OpenInv
<1>16. HalfInv'
  <2>1. rf' = [rf EXCEPT ![q] = None] /\ rf'[q] = None
    BY <1>1 DEF PipeSecond
  <2>2. Gets(q, u)
    BY <1>4, <1>7, <2>1 DEF Gets, h
  <2> QED BY <1>2, <2>1, <2>2, HalfKept
<1> QED BY <1>8, <1>13, <1>14, <1>15, <1>16

LEMMA VPipeFails ==
  ASSUME HInv, NEW q \in Proc, rf' = [rf EXCEPT ![q] = None], UNCHANGED <<what, ofile>>
  PROVE  OpenInv' /\ HalfInv' /\ \A r \in Proc : Sees(r)' = Sees(r)
<1>0. TypeOK /\ OpenInv /\ HalfInv
  BY DEF HInv, FInv
<1>1. rf \in [Proc -> File \cup {None}]
  BY <1>0 DEF TypeOK
<1>2. HalfInv'
  BY <1>0, <1>1 DEF HalfInv
<1>3. OpenInv' /\ \A r \in Proc : Sees(r)' = Sees(r)
  BY <1>0, SeesSame DEF OpenInv
<1> QED BY <1>2, <1>3

-----------------------------------------------------------------------------
(* The calls of runcmd, one by one *)

LEMMA CatIs ==
  ASSUME NEW S, NEW s \in Seq(S), NEW t \in Seq(S), NEW u \in Seq(S),
         Len(u) = Len(s) + Len(t),
         \A i \in 1 .. Len(s) : u[i] = s[i],
         \A i \in 1 .. Len(t) : u[Len(s) + i] = t[i]
  PROVE  s \o t = u
<1>0. Len(s) \in Nat /\ Len(t) \in Nat
  BY LenProperties
<1>1. s \o t \in Seq(S) /\ Len(s \o t) = Len(u)
  BY ConcatProperties
<1>2. ASSUME NEW i \in 1 .. Len(s \o t) PROVE (s \o t)[i] = u[i]
  <2>1. (s \o t)[i] = IF i <= Len(s) THEN s[i] ELSE t[i - Len(s)]
    BY <1>1, ConcatProperties
  <2>2. CASE i <= Len(s)
    BY <1>0, <2>1, <2>2
  <2>3. CASE ~(i <= Len(s))
    <3>1. i - Len(s) \in 1 .. Len(t) /\ Len(s) + (i - Len(s)) = i
      BY <1>0, <1>1, <2>3
    <3>2. u[i] = t[i - Len(s)]
      BY <3>1
    <3> QED BY <2>1, <2>3, <3>2
  <2> QED BY <2>2, <2>3
<1> QED BY <1>1, <1>2, SeqEqual

LEMMA CatTwo ==
  ASSUME NEW a, NEW b, NEW c
  PROVE  <<a, b>> \o <<c>> = <<a, b, c>>
<1> DEFINE S == {a, b, c}
           s == <<a, b>>
           t == <<c>>
           u == <<a, b, c>>
<1>1. /\ s \in Seq(S) /\ t \in Seq(S) /\ u \in Seq(S)
      /\ Len(s) = 2 /\ Len(u) = 3 /\ Len(t) = 1
  OBVIOUS
<1>2. \A i \in 1 .. 2 : u[i] = s[i]
  OBVIOUS
<1>3. \A i \in 1 .. 1 : u[2 + i] = t[i]
  OBVIOUS
<1> HIDE DEF S, s, t, u
<1>4. /\ Len(u) = Len(s) + Len(t)
      /\ \A i \in 1 .. Len(s) : u[i] = s[i]
      /\ \A i \in 1 .. Len(t) : u[Len(s) + i] = t[i]
  BY <1>1, <1>2, <1>3
<1>5. s \o t = u
  BY <1>1, <1>4, CatIs
<1> QED BY <1>5 DEF s, t, u

LEMMA CatFour ==
  ASSUME NEW a, NEW b, NEW c, NEW d, NEW e
  PROVE  <<a, b, c, d>> \o <<e>> = <<a, b, c, d, e>>
<1> DEFINE S == {a, b, c, d, e}
           s == <<a, b, c, d>>
           t == <<e>>
           u == <<a, b, c, d, e>>
<1>1. /\ s \in Seq(S) /\ t \in Seq(S) /\ u \in Seq(S)
      /\ Len(s) = 4 /\ Len(u) = 5 /\ Len(t) = 1
  OBVIOUS
<1>2. \A i \in 1 .. 4 : u[i] = s[i]
  OBVIOUS
<1>3. \A i \in 1 .. 1 : u[4 + i] = t[i]
  OBVIOUS
<1> HIDE DEF S, s, t, u
<1>4. /\ Len(u) = Len(s) + Len(t)
      /\ \A i \in 1 .. Len(s) : u[i] = s[i]
      /\ \A i \in 1 .. Len(t) : u[Len(s) + i] = t[i]
  BY <1>1, <1>2, <1>3
<1>5. s \o t = u
  BY <1>1, <1>4, CatIs
<1> QED BY <1>5 DEF s, t, u

LEMMA CatPipe ==
  ASSUME NEW a, NEW b, NEW c, NEW d, NEW e, NEW f, NEW g, NEW h
  PROVE  <<a, b, c, d, e>> \o <<f, g>> \o <<h>> = <<a, b, c, d, e, f, g, h>>
<1> DEFINE S == {a, b, c, d, e, f, g, h}
           s == <<a, b, c, d, e>>
           t == <<f, g>>
           u == <<a, b, c, d, e, f, g>>
           w == <<h>>
           x == <<a, b, c, d, e, f, g, h>>
<1>1. /\ s \in Seq(S) /\ t \in Seq(S) /\ u \in Seq(S) /\ w \in Seq(S) /\ x \in Seq(S)
      /\ Len(s) = 5 /\ Len(u) = 7 /\ Len(t) = 2 /\ Len(w) = 1 /\ Len(x) = 8
  OBVIOUS
<1>2. (\A i \in 1 .. 5 : u[i] = s[i]) /\ (\A i \in 1 .. 7 : x[i] = u[i])
  OBVIOUS
<1>3. (\A i \in 1 .. 2 : u[5 + i] = t[i]) /\ (\A i \in 1 .. 1 : x[7 + i] = w[i])
  OBVIOUS
<1> HIDE DEF S, s, t, u, w, x
<1>4. /\ Len(u) = Len(s) + Len(t) /\ Len(x) = Len(u) + Len(w)
      /\ \A i \in 1 .. Len(s) : u[i] = s[i]
      /\ \A i \in 1 .. Len(t) : u[Len(s) + i] = t[i]
      /\ \A i \in 1 .. Len(u) : x[i] = u[i]
      /\ \A i \in 1 .. Len(w) : x[Len(u) + i] = w[i]
  BY <1>1, <1>2, <1>3
<1>5. s \o t = u
  BY <1>1, <1>4, CatIs
<1>6. u \o w = x
  BY <1>1, <1>4, CatIs
<1> QED BY <1>5, <1>6 DEF s, t, u, w, x

\* The calls of runcmd and of the two sides of a pipe, written out.
LEMMA RuncmdIs ==
  ASSUME NEW c \in Command
  PROVE  /\ c.type = "REDIR" => runcmd(c) =
              <<call("close", c.fd), call("open", c.file), call("run", c.cmd)>>
         /\ c.type = "LIST" => runcmd(c) =
              <<call("fork", Run(c.left)), wait, call("run", c.right)>>
         /\ c.type = "PIPE" => runcmd(c) =
              <<call("pipe", c), call("fork", left_end(c)), call("fork", right_end(c)),
                call("close", P0), call("close", P1), wait, wait, exit>>
         /\ left_end(c) = <<call("close", 1), call("dup", P1), call("close", P0),
                            call("close", P1), call("run", c.left)>>
         /\ right_end(c) = <<call("close", 0), call("dup", P0), call("close", P0),
                             call("close", P1), call("run", c.right)>>
<1>1. ASSUME c.type = "REDIR"
      PROVE  runcmd(c) = <<call("close", c.fd), call("open", c.file), call("run", c.cmd)>>
  <2>1. runcmd(c) = <<call("close", c.fd), call("open", c.file)>> \o <<call("run", c.cmd)>>
    BY <1>1 DEF runcmd, Run
  <2> QED BY <2>1, CatTwo
<1>2. ASSUME c.type = "LIST"
      PROVE  runcmd(c) = <<call("fork", Run(c.left)), wait, call("run", c.right)>>
  <2>1. runcmd(c) = <<call("fork", Run(c.left)), wait>> \o <<call("run", c.right)>>
    BY <1>2 DEF runcmd, Run
  <2> QED BY <2>1, CatTwo
<1>3. ASSUME c.type = "PIPE"
      PROVE  runcmd(c) = <<call("pipe", c), call("fork", left_end(c)),
                           call("fork", right_end(c)), call("close", P0),
                           call("close", P1), wait, wait, exit>>
  <2>1. runcmd(c) = <<call("pipe", c), call("fork", left_end(c)), call("fork", right_end(c)),
                      call("close", P0), call("close", P1)>> \o <<wait, wait>> \o <<exit>>
    BY <1>3 DEF runcmd, pipe_waits
  <2> QED BY <2>1, CatPipe
<1>4. left_end(c) = <<call("close", 1), call("dup", P1), call("close", P0),
                      call("close", P1), call("run", c.left)>>
  <2>1. left_end(c) = <<call("close", 1), call("dup", P1), call("close", P0),
                        call("close", P1)>> \o <<call("run", c.left)>>
    BY DEF left_end, Run
  <2> QED BY <2>1, CatFour
<1>5. right_end(c) = <<call("close", 0), call("dup", P0), call("close", P0),
                       call("close", P1), call("run", c.right)>>
  <2>1. right_end(c) = <<call("close", 0), call("dup", P0), call("close", P0),
                         call("close", P1)>> \o <<call("run", c.right)>>
    BY DEF right_end, Run
  <2> QED BY <2>1, CatFour
<1> QED BY <1>1, <1>2, <1>3, <1>4, <1>5

\* A process that starts to run a command.
LEMMA RuncmdShape ==
  ASSUME NEW M, NEW c, NEW a, NEW b, NEW pp, Means(M, c, a, b)
  PROVE  Shape(M, runcmd(c), Std(a, b), pp)
<1>0. c \in Command /\ a \in Source /\ b \in Source /\ IsCommand(c)
  BY MeansParts
<1>1. CASE c.type = "PANIC"
  <2>1. runcmd(c) = <<exit>>
    BY <1>1 DEF runcmd
  <2>2. Rest(<<exit>>)
    BY DEF Rest, exit, call
  <2> QED BY <2>1, <2>2 DEF Shape
<1>2. CASE c.type = "EXEC"
  <2>1. runcmd(c) = <<exit>> \/ runcmd(c) = <<call("exec", c.argv), exit>>
    BY <1>2 DEF runcmd
  <2>2. Rest(<<exit>>)
    BY DEF Rest, exit, call
  <2>3. c \in OfType("EXEC")
    BY <1>0, <1>2 DEF OfType
  <2>4. runcmd(c) = <<call("exec", c.argv), exit>> => Execs(M, runcmd(c), Std(a, b))
    BY <1>0, <2>3 DEF Execs
  <2> QED BY <2>1, <2>2, <2>4 DEF Shape
<1>3. CASE c.type = "REDIR"
  <2>1. c \in OfType("REDIR")
    BY <1>0, <1>3 DEF OfType
  <2>2. Redir1(M, runcmd(c), Std(a, b))
    BY <1>0, <1>3, <2>1, RuncmdIs DEF Redir1
  <2> QED BY <2>2 DEF Shape
<1>4. CASE c.type = "LIST"
  <2>1. c \in OfType("LIST")
    BY <1>0, <1>4 DEF OfType
  <2>2. List1(M, runcmd(c), Std(a, b))
    BY <1>0, <1>4, <2>1, RuncmdIs DEF List1
  <2> QED BY <2>2 DEF Shape
<1>5. CASE c.type = "PIPE"
  <2>1. c \in OfType("PIPE")
    BY <1>0, <1>5 DEF OfType
  <2>2. Pipe1(M, runcmd(c), Std(a, b))
    BY <1>0, <1>5, <2>1, RuncmdIs DEF Pipe1
  <2> QED BY <2>2 DEF Shape
<1>6. CASE c.type = "BACK"
  <2>1. c \in OfType("BACK")
    BY <1>0, <1>6 DEF OfType
  <2>2. runcmd(c) = <<call("fork_back", Run(c.cmd)), exit>>
    BY <1>6 DEF runcmd
  <2>3. Backs(M, runcmd(c), Std(a, b))
    BY <1>0, <2>1, <2>2 DEF Backs
  <2> QED BY <2>3 DEF Shape
<1> QED BY <1>0, <1>1, <1>2, <1>3, <1>4, <1>5, <1>6 DEF IsCommand

\* The call that each of the shapes begins with.
LEMMA Begin ==
  ASSUME NEW M, NEW s \in Seq(Call), s # << >>, NEW v, NEW pp
  PROVE  /\ Goes(M, s, v) => Head(s).op = "run"
         /\ Redir1(M, s, v) => Head(s).op = "close"
         /\ Redir2(M, s, v) => Head(s).op = "open"
         /\ List1(M, s, v) => Head(s).op = "fork"
         /\ List2(M, s, v) => Head(s).op = "wait"
         /\ Pipe1(M, s, v) => Head(s).op = "pipe"
         /\ Pipe2(M, s, v, pp) => Head(s).op = "fork"
         /\ Pipe3(M, s, v, pp) => Head(s).op = "fork"
         /\ Left(M, s, v, pp) => Head(s).op \in {"close", "dup"}
         /\ Right(M, s, v, pp) => Head(s).op \in {"close", "dup"}
         /\ Execs(M, s, v) => Head(s).op = "exec"
         /\ Backs(M, s, v) => Head(s).op = "fork_back"
         /\ Typed(M, s, v) => Head(s).op = "fork"
         /\ Rest(s) => Head(s).op \in {"close", "wait", "exit", "read"}
<1>1. Goes(M, s, v) => Head(s).op = "run"
  BY DEF Goes, Run, call
<1>2. Redir1(M, s, v) => Head(s).op = "close"
  BY DEF Redir1, call
<1>3. Redir2(M, s, v) => Head(s).op = "open"
  BY DEF Redir2, call
<1>4. List1(M, s, v) => Head(s).op = "fork"
  BY DEF List1, call
<1>5. List2(M, s, v) => Head(s).op = "wait"
  BY DEF List2, wait, call
<1>6. Pipe1(M, s, v) => Head(s).op = "pipe"
  BY DEF Pipe1, call
<1>7. Pipe2(M, s, v, pp) => Head(s).op = "fork"
  BY DEF Pipe2, call
<1>8. Pipe3(M, s, v, pp) => Head(s).op = "fork"
  BY DEF Pipe3, call
<1>9. Left(M, s, v, pp) => Head(s).op \in {"close", "dup"}
  BY DEF Left, call
<1>10. Right(M, s, v, pp) => Head(s).op \in {"close", "dup"}
  BY DEF Right, call
<1>11. Execs(M, s, v) => Head(s).op = "exec"
  BY DEF Execs, call
<1>12. Backs(M, s, v) => Head(s).op = "fork_back"
  BY DEF Backs, call
<1>13. Typed(M, s, v) => Head(s).op = "fork"
  BY DEF Typed, call
<1>14. Rest(s) => Head(s).op \in {"close", "wait", "exit", "read"}
  <2>1. Len(s) \in Nat /\ Len(s) >= 1 /\ Head(s) = s[1]
    BY HeadTail
  <2> QED BY <2>1 DEF Rest
<1> QED BY <1>1, <1>2, <1>3, <1>4, <1>5, <1>6, <1>7, <1>8, <1>9, <1>10, <1>11, <1>12,
           <1>13, <1>14

LEMMA RestTail ==
  ASSUME NEW s \in Seq(Call), s # << >>, Rest(s)
  PROVE  Rest(Tail(s))
<1>1. /\ Len(s) \in Nat /\ Len(Tail(s)) = Len(s) - 1
      /\ \A i \in 1 .. Len(s) - 1 : Tail(s)[i] = s[i + 1]
  BY HeadTail
<1>2. ASSUME NEW i \in 1 .. Len(Tail(s))
      PROVE  Tail(s)[i].op \in {"close", "wait", "exit", "read"}
  <2>1. i + 1 \in 1 .. Len(s) /\ i \in 1 .. Len(s) - 1
    BY <1>1
  <2>2. Tail(s)[i] = s[i + 1]
    BY <1>1, <2>1
  <2> QED BY <2>1, <2>2 DEF Rest
<1> QED BY <1>2 DEF Rest

\* The descriptor that x names, where p is pp.
Named_by(pp, x) == IF x < 0 THEN pp[-x] ELSE x

LEMMA RedirShape ==
  ASSUME NEW M, NEW s, NEW v, NEW pp, Redir1(M, s, v)
  PROVE  Shape(M, Tail(s), Put(v, Named_by(pp, Head(s).x), FD_NONE), pp)
<1>1. PICK c \in OfType("REDIR"), a \in Source, b \in Source :
        /\ Means(M, c, a, b) /\ v = Std(a, b)
        /\ s = <<call("close", c.fd), call("open", c.file), call("run", c.cmd)>>
  BY DEF Redir1
<1>2. c.fd \in {0, 1}
  BY <1>1, MeansParts DEF IsCommand, OfType
<1>3. Head(s).x = c.fd /\ Tail(s) = <<call("open", c.file), call("run", c.cmd)>>
  BY <1>1 DEF call
<1>4. Named_by(pp, Head(s).x) = c.fd
  BY <1>2, <1>3 DEF Named_by
<1>5. Put(v, c.fd, FD_NONE) = IF c.fd = 0 THEN Std(FD_NONE, b) ELSE Std(a, FD_NONE)
  BY <1>1, <1>2, FdsSet DEF Std
<1>6. Redir2(M, Tail(s), Put(v, c.fd, FD_NONE))
  BY <1>1, <1>3, <1>5 DEF Redir2
<1> QED BY <1>4, <1>6 DEF Shape

LEMMA LeftShape ==
  ASSUME NEW M, NEW s, NEW v, NEW pp, Left(M, s, v, pp), Head(s).op = "close"
  PROVE  Shape(M, Tail(s), Put(v, Named_by(pp, Head(s).x), FD_NONE), pp)
<1> DEFINE v2 == Put(v, Named_by(pp, Head(s).x), FD_NONE)
<1>1. PICK c \in OfType("PIPE"), a \in Source, b \in Source :
        /\ Means(M, c, a, b) /\ HasEnds(pp)
        /\ \/ /\ v = Ends(a, b, c)
              /\ s = <<call("close", 1), call("dup", P1), call("close", P0),
                       call("close", P1), call("run", c.left)>>
           \/ /\ v = Ends(a, FD_NONE, c)
              /\ s = <<call("dup", P1), call("close", P0), call("close", P1),
                       call("run", c.left)>>
           \/ /\ v = Ends(a, End(c, "w"), c)
              /\ s = <<call("close", P0), call("close", P1), call("run", c.left)>>
           \/ /\ v = Fds(a, End(c, "w"), FD_NONE, End(c, "w"))
              /\ s = <<call("close", P1), call("run", c.left)>>
  BY DEF Left
<1>2. pp[1] = 3 /\ pp[2] = 4 /\ 3 \in Fd /\ 4 \in Fd
  BY <1>1, Bounds DEF HasEnds, Fd
<1>3. Named_by(pp, 1) = 1 /\ Named_by(pp, P0) = 3 /\ Named_by(pp, P1) = 4
  BY <1>2 DEF Named_by, P0, P1
<1>4. CASE /\ v = Ends(a, b, c)
           /\ s = <<call("close", 1), call("dup", P1), call("close", P0),
                    call("close", P1), call("run", c.left)>>
  <2>1. /\ Head(s).x = 1
        /\ Tail(s) = <<call("dup", P1), call("close", P0), call("close", P1),
                       call("run", c.left)>>
    BY <1>4 DEF call
  <2>2. v2 = Ends(a, FD_NONE, c)
    BY <1>3, <1>4, <2>1, FdsSet DEF Ends
  <2>3. Left(M, Tail(s), v2, pp)
    BY <1>1, <2>1, <2>2 DEF Left
  <2> QED BY <2>3 DEF Shape
<1>5. CASE /\ v = Ends(a, FD_NONE, c)
           /\ s = <<call("dup", P1), call("close", P0), call("close", P1),
                    call("run", c.left)>>
  <2>1. Head(s).op = "dup"
    BY <1>5 DEF call
  <2> QED BY <2>1
<1>6. CASE /\ v = Ends(a, End(c, "w"), c)
           /\ s = <<call("close", P0), call("close", P1), call("run", c.left)>>
  <2>1. Head(s).x = P0 /\ Tail(s) = <<call("close", P1), call("run", c.left)>>
    BY <1>6 DEF call
  <2>2. v2 = Fds(a, End(c, "w"), FD_NONE, End(c, "w"))
    BY <1>2, <1>3, <1>6, <2>1, FdsSet DEF Ends
  <2>3. Left(M, Tail(s), v2, pp)
    BY <1>1, <2>1, <2>2 DEF Left
  <2> QED BY <2>3 DEF Shape
<1>7. CASE /\ v = Fds(a, End(c, "w"), FD_NONE, End(c, "w"))
           /\ s = <<call("close", P1), call("run", c.left)>>
  <2>1. Head(s).x = P1 /\ Tail(s) = Run(c.left)
    BY <1>7 DEF call, Run
  <2>2. v2 = Std(a, End(c, "w"))
    BY <1>2, <1>3, <1>7, <2>1, FdsSet DEF Std
  <2>3. Means(M, c.left, a, End(c, "w")) /\ c.left \in Command /\ End(c, "w") \in Source
    BY <1>1, MeansParts DEF OfType, Means
  <2>4. Goes(M, Tail(s), v2)
    BY <2>1, <2>2, <2>3 DEF Goes
  <2> QED BY <2>4 DEF Shape
<1> QED BY <1>1, <1>4, <1>5, <1>6, <1>7

LEMMA RightShape ==
  ASSUME NEW M, NEW s, NEW v, NEW pp, Right(M, s, v, pp), Head(s).op = "close"
  PROVE  Shape(M, Tail(s), Put(v, Named_by(pp, Head(s).x), FD_NONE), pp)
<1> DEFINE v2 == Put(v, Named_by(pp, Head(s).x), FD_NONE)
<1>1. PICK c \in OfType("PIPE"), a \in Source, b \in Source :
        /\ Means(M, c, a, b) /\ HasEnds(pp)
        /\ \/ /\ v = Ends(a, b, c)
              /\ s = <<call("close", 0), call("dup", P0), call("close", P0),
                       call("close", P1), call("run", c.right)>>
           \/ /\ v = Ends(FD_NONE, b, c)
              /\ s = <<call("dup", P0), call("close", P0), call("close", P1),
                       call("run", c.right)>>
           \/ /\ v = Ends(End(c, "r"), b, c)
              /\ s = <<call("close", P0), call("close", P1), call("run", c.right)>>
           \/ /\ v = Fds(End(c, "r"), b, FD_NONE, End(c, "w"))
              /\ s = <<call("close", P1), call("run", c.right)>>
  BY DEF Right
<1>2. pp[1] = 3 /\ pp[2] = 4 /\ 3 \in Fd /\ 4 \in Fd
  BY <1>1, Bounds DEF HasEnds, Fd
<1>3. Named_by(pp, 0) = 0 /\ Named_by(pp, P0) = 3 /\ Named_by(pp, P1) = 4
  BY <1>2 DEF Named_by, P0, P1
<1>4. CASE /\ v = Ends(a, b, c)
           /\ s = <<call("close", 0), call("dup", P0), call("close", P0),
                    call("close", P1), call("run", c.right)>>
  <2>1. /\ Head(s).x = 0
        /\ Tail(s) = <<call("dup", P0), call("close", P0), call("close", P1),
                       call("run", c.right)>>
    BY <1>4 DEF call
  <2>2. v2 = Ends(FD_NONE, b, c)
    BY <1>3, <1>4, <2>1, FdsSet DEF Ends
  <2>3. Right(M, Tail(s), v2, pp)
    BY <1>1, <2>1, <2>2 DEF Right
  <2> QED BY <2>3 DEF Shape
<1>5. CASE /\ v = Ends(FD_NONE, b, c)
           /\ s = <<call("dup", P0), call("close", P0), call("close", P1),
                    call("run", c.right)>>
  <2>1. Head(s).op = "dup"
    BY <1>5 DEF call
  <2> QED BY <2>1
<1>6. CASE /\ v = Ends(End(c, "r"), b, c)
           /\ s = <<call("close", P0), call("close", P1), call("run", c.right)>>
  <2>1. Head(s).x = P0 /\ Tail(s) = <<call("close", P1), call("run", c.right)>>
    BY <1>6 DEF call
  <2>2. v2 = Fds(End(c, "r"), b, FD_NONE, End(c, "w"))
    BY <1>2, <1>3, <1>6, <2>1, FdsSet DEF Ends
  <2>3. Right(M, Tail(s), v2, pp)
    BY <1>1, <2>1, <2>2 DEF Right
  <2> QED BY <2>3 DEF Shape
<1>7. CASE /\ v = Fds(End(c, "r"), b, FD_NONE, End(c, "w"))
           /\ s = <<call("close", P1), call("run", c.right)>>
  <2>1. Head(s).x = P1 /\ Tail(s) = Run(c.right)
    BY <1>7 DEF call, Run
  <2>2. v2 = Std(End(c, "r"), b)
    BY <1>2, <1>3, <1>7, <2>1, FdsSet DEF Std
  <2>3. Means(M, c.right, End(c, "r"), b) /\ c.right \in Command /\ End(c, "r") \in Source
    BY <1>1, MeansParts DEF OfType, Means
  <2>4. Goes(M, Tail(s), v2)
    BY <2>1, <2>2, <2>3 DEF Goes
  <2> QED BY <2>4 DEF Shape
<1> QED BY <1>1, <1>4, <1>5, <1>6, <1>7

\* What is left to do after a close, when the descriptor is closed.
LEMMA CloseShape ==
  ASSUME NEW M, NEW s \in Seq(Call), s # << >>, NEW v, NEW pp, Shape(M, s, v, pp),
         Head(s).op = "close"
  PROVE  Shape(M, Tail(s), Put(v, Named_by(pp, Head(s).x), FD_NONE), pp)
<1>1. Redir1(M, s, v) \/ Left(M, s, v, pp) \/ Right(M, s, v, pp) \/ Rest(s)
  BY Begin DEF Shape
<1>2. CASE Rest(s)
  BY <1>2, RestTail DEF Shape
<1> QED BY <1>1, <1>2, RedirShape, LeftShape, RightShape

\* The first descriptor that is closed is k.
FirstFree(v, k) ==
  \E a, b, c, e :
    /\ v = Fds(a, b, c, e)
    /\ (k = 0 /\ a = FD_NONE) \/ (k = 1 /\ a # FD_NONE /\ b = FD_NONE)

LEMMA FirstIs ==
  ASSUME FInv, OpenInv, NEW q \in Proc, NEW k, FirstFree(Sees(q), k)
  PROVE  fdalloc(ofile[q]) = k /\ k # None
<1>1. k \in Nat
  BY DEF FirstFree
<1> QED BY <1>1, FdFirst, Bounds DEF FirstFree

LEMMA DupShape ==
  ASSUME NEW M, NEW s \in Seq(Call), s # << >>, NEW v, NEW pp, Shape(M, s, v, pp),
         Head(s).op = "dup"
  PROVE  /\ v[Named_by(pp, Head(s).x)] # FD_NONE
         /\ \E k : FirstFree(v, k)
                   /\ Shape(M, Tail(s), Put(v, k, v[Named_by(pp, Head(s).x)]), pp)
<1>0. \A c, e : End(c, e) # FD_NONE
  BY DEF End, FD_NONE
<1>1. Left(M, s, v, pp) \/ Right(M, s, v, pp)
  BY Begin DEF Shape
<1>2. CASE Left(M, s, v, pp)
  <2>1. PICK c \in OfType("PIPE"), a \in Source, b \in Source :
          /\ Means(M, c, a, b) /\ HasEnds(pp) /\ v = Ends(a, FD_NONE, c)
          /\ s = <<call("dup", P1), call("close", P0), call("close", P1),
                   call("run", c.left)>>
    BY <1>2 DEF Left, call
  <2>2. pp[2] = 4 /\ 4 \in Fd
    BY <2>1 DEF HasEnds
  <2>3. /\ Head(s).x = P1 /\ Named_by(pp, P1) = 4
        /\ Tail(s) = <<call("close", P0), call("close", P1), call("run", c.left)>>
    BY <2>1, <2>2 DEF call, Named_by, P1
  <2>4. v[4] = End(c, "w")
    BY <2>1, <2>2, FdsGet DEF Ends
  <2>5. FirstFree(v, 1)
    BY <2>1, SourceOpen DEF FirstFree, Ends
  <2>6. Put(v, 1, End(c, "w")) = Ends(a, End(c, "w"), c)
    BY <2>1, FdsSet DEF Ends
  <2>7. Left(M, Tail(s), Ends(a, End(c, "w"), c), pp)
    BY <2>1, <2>3 DEF Left
  <2>8. Shape(M, Tail(s), Put(v, 1, v[Named_by(pp, Head(s).x)]), pp)
    BY <2>3, <2>4, <2>6, <2>7 DEF Shape
  <2> QED BY <1>0, <2>3, <2>4, <2>5, <2>8
<1>3. CASE Right(M, s, v, pp)
  <2>1. PICK c \in OfType("PIPE"), a \in Source, b \in Source :
          /\ Means(M, c, a, b) /\ HasEnds(pp) /\ v = Ends(FD_NONE, b, c)
          /\ s = <<call("dup", P0), call("close", P0), call("close", P1),
                   call("run", c.right)>>
    BY <1>3 DEF Right, call
  <2>2. pp[1] = 3 /\ 3 \in Fd
    BY <2>1, Bounds DEF HasEnds, Fd
  <2>3. /\ Head(s).x = P0 /\ Named_by(pp, P0) = 3
        /\ Tail(s) = <<call("close", P0), call("close", P1), call("run", c.right)>>
    BY <2>1, <2>2 DEF call, Named_by, P0
  <2>4. v[3] = End(c, "r")
    BY <2>1, <2>2, FdsGet DEF Ends
  <2>5. FirstFree(v, 0)
    BY <2>1 DEF FirstFree, Ends
  <2>6. Put(v, 0, End(c, "r")) = Ends(End(c, "r"), b, c)
    BY <2>1, FdsSet DEF Ends
  <2>7. Right(M, Tail(s), Ends(End(c, "r"), b, c), pp)
    BY <2>1, <2>3 DEF Right
  <2>8. Shape(M, Tail(s), Put(v, 0, v[Named_by(pp, Head(s).x)]), pp)
    BY <2>3, <2>4, <2>6, <2>7 DEF Shape
  <2> QED BY <1>0, <2>3, <2>4, <2>5, <2>8
<1> QED BY <1>1, <1>2, <1>3

LEMMA OpenShape ==
  ASSUME NEW M, NEW s \in Seq(Call), s # << >>, NEW v, NEW pp, Shape(M, s, v, pp),
         Head(s).op = "open"
  PROVE  \E k : FirstFree(v, k) /\ Shape(M, Tail(s), Put(v, k, Named(Head(s).x)), pp)
<1>1. Redir2(M, s, v)
  BY Begin DEF Shape
<1>2. PICK c \in OfType("REDIR"), a \in Source, b \in Source :
        /\ Means(M, c, a, b)
        /\ v = IF c.fd = 0 THEN Std(FD_NONE, b) ELSE Std(a, FD_NONE)
        /\ s = <<call("open", c.file), call("run", c.cmd)>>
  BY <1>1 DEF Redir2
<1>3. Head(s).x = c.file /\ Tail(s) = Run(c.cmd)
  BY <1>2 DEF call, Run
<1>4. c.fd \in {0, 1}
  BY <1>2, MeansParts DEF IsCommand, OfType
<1>5. CASE c.fd = 0
  <2>1. FirstFree(v, 0)
    BY <1>2, <1>5 DEF FirstFree, Std
  <2>2. Put(v, 0, Named(c.file)) = Std(Named(c.file), b)
    BY <1>2, <1>5, FdsSet DEF Std
  <2>3. Means(M, c.cmd, Named(c.file), b)
    BY <1>2, <1>5, MeansParts DEF OfType
  <2>4. Goes(M, Tail(s), Std(Named(c.file), b))
    BY <1>3, <2>3, MeansParts DEF Goes
  <2> QED BY <1>3, <2>1, <2>2, <2>4 DEF Shape
<1>6. CASE c.fd = 1
  <2>1. FirstFree(v, 1)
    BY <1>2, <1>6, SourceOpen DEF FirstFree, Std
  <2>2. Put(v, 1, Named(c.file)) = Std(a, Named(c.file))
    BY <1>2, <1>6, FdsSet DEF Std
  <2>3. Means(M, c.cmd, a, Named(c.file))
    BY <1>2, <1>6, MeansParts DEF OfType
  <2>4. Goes(M, Tail(s), Std(a, Named(c.file)))
    BY <1>3, <2>3, MeansParts DEF Goes
  <2> QED BY <1>3, <2>1, <2>2, <2>4 DEF Shape
<1> QED BY <1>4, <1>5, <1>6

LEMMA PipeShape ==
  ASSUME NEW M, NEW s \in Seq(Call), s # << >>, NEW v, NEW pp, Shape(M, s, v, pp),
         Head(s).op = "pipe"
  PROVE  \E a, b \in Source :
           /\ v = Std(a, b)
           /\ \A qq : HasEnds(qq) => Shape(M, Tail(s), Ends(a, b, Head(s).x), qq)
<1>1. Pipe1(M, s, v)
  BY Begin DEF Shape
<1>2. PICK c \in OfType("PIPE"), a \in Source, b \in Source :
        /\ Means(M, c, a, b) /\ v = Std(a, b)
        /\ s = <<call("pipe", c), call("fork", left_end(c)), call("fork", right_end(c)),
                 call("close", P0), call("close", P1), wait, wait, exit>>
  BY <1>1 DEF Pipe1
<1>3. Head(s).x = c
  BY <1>2 DEF call
<1>4. Tail(s) = <<call("fork", left_end(c)), call("fork", right_end(c)),
                  call("close", P0), call("close", P1), wait, wait, exit>>
  BY <1>2
<1>5. \A qq : HasEnds(qq) => Pipe2(M, Tail(s), Ends(a, b, c), qq)
  BY <1>2, <1>4 DEF Pipe2
<1> QED BY <1>2, <1>3, <1>5 DEF Shape

LEMMA GoesShape ==
  ASSUME NEW M, NEW c, NEW a, NEW b, NEW pp, Means(M, c, a, b)
  PROVE  Shape(M, Run(c), Std(a, b), pp)
  BY MeansParts DEF Goes, Shape

\* The end of runcmd's pipe starts nothing.
LEMMA WaitsRest == Rest(<<call("close", P0), call("close", P1), wait, wait, exit>>)
<1> DEFINE t == <<call("close", P0), call("close", P1), wait, wait, exit>>
<1>1. Len(t) = 5
  OBVIOUS
<1>2. t[1].op = "close" /\ t[2].op = "close"
  BY DEF call
<1>3. t[3].op = "wait" /\ t[4].op = "wait" /\ t[5].op = "exit"
  BY DEF wait, exit, call
<1> HIDE DEF t
<1>4. \A i \in 1 .. 5 : i \in {1, 2, 3, 4, 5}
  OBVIOUS
<1>5. \A i \in 1 .. Len(t) : t[i].op \in {"close", "wait", "exit", "read"}
  BY <1>1, <1>2, <1>3, <1>4
<1> QED BY <1>5 DEF Rest, t

\* fork: what is left for the parent, and what the child starts with.
LEMMA ForkShape ==
  ASSUME NEW M, NEW s \in Seq(Call), s # << >>, NEW v, NEW pp, Shape(M, s, v, pp),
         Head(s).op \in {"fork", "fork_back"}
  PROVE  Shape(M, Tail(s), v, pp) /\ Shape(M, Head(s).x, v, pp)
<1>1. \/ List1(M, s, v) \/ Pipe2(M, s, v, pp) \/ Pipe3(M, s, v, pp)
      \/ Backs(M, s, v) \/ Typed(M, s, v)
  BY Begin DEF Shape
<1>2. CASE List1(M, s, v)
  <2>1. PICK c \in OfType("LIST"), a \in Source, b \in Source :
          /\ Means(M, c, a, b) /\ v = Std(a, b)
          /\ s = <<call("fork", Run(c.left)), wait, call("run", c.right)>>
    BY <1>2 DEF List1
  <2>2. Head(s).x = Run(c.left) /\ Tail(s) = <<wait, call("run", c.right)>>
    BY <2>1 DEF call
  <2>3. List2(M, Tail(s), v)
    BY <2>1, <2>2 DEF List2
  <2>4. Means(M, c.left, a, b)
    BY <2>1, MeansParts DEF OfType
  <2> QED BY <2>1, <2>2, <2>3, <2>4, GoesShape DEF Shape
<1>3. CASE Pipe2(M, s, v, pp)
  <2>1. PICK c \in OfType("PIPE"), a \in Source, b \in Source :
          /\ Means(M, c, a, b) /\ v = Ends(a, b, c) /\ HasEnds(pp)
          /\ s = <<call("fork", left_end(c)), call("fork", right_end(c)),
                   call("close", P0), call("close", P1), wait, wait, exit>>
    BY <1>3 DEF Pipe2
  <2>2. Head(s).x = left_end(c)
    BY <2>1 DEF call
  <2>3. Tail(s) = <<call("fork", right_end(c)),
                    call("close", P0), call("close", P1), wait, wait, exit>>
    BY <2>1
  <2>4. Pipe3(M, Tail(s), v, pp)
    BY <2>1, <2>3 DEF Pipe3
  <2>5. c \in Command
    BY <2>1 DEF OfType
  <2>6. Left(M, left_end(c), v, pp)
    BY <2>1, <2>5, RuncmdIs DEF Left
  <2> QED BY <2>2, <2>4, <2>6 DEF Shape
<1>4. CASE Pipe3(M, s, v, pp)
  <2>1. PICK c \in OfType("PIPE"), a \in Source, b \in Source :
          /\ Means(M, c, a, b) /\ v = Ends(a, b, c) /\ HasEnds(pp)
          /\ s = <<call("fork", right_end(c)),
                   call("close", P0), call("close", P1), wait, wait, exit>>
    BY <1>4 DEF Pipe3
  <2>2. Head(s).x = right_end(c)
    BY <2>1 DEF call
  <2>3. Tail(s) = <<call("close", P0), call("close", P1), wait, wait, exit>>
    BY <2>1
  <2>4. Rest(Tail(s))
    BY <2>3, WaitsRest
  <2>5. c \in Command
    BY <2>1 DEF OfType
  <2>6. Right(M, right_end(c), v, pp)
    BY <2>1, <2>5, RuncmdIs DEF Right
  <2> QED BY <2>2, <2>4, <2>6 DEF Shape
<1>5. CASE Backs(M, s, v)
  <2>1. PICK c \in OfType("BACK"), a \in Source, b \in Source :
          /\ Means(M, c, a, b) /\ v = Std(a, b)
          /\ s = <<call("fork_back", Run(c.cmd)), exit>>
    BY <1>5 DEF Backs
  <2>2. Head(s).x = Run(c.cmd) /\ Tail(s) = <<exit>>
    BY <2>1 DEF call
  <2>3. Rest(<<exit>>)
    BY DEF Rest, exit, call
  <2>4. Means(M, c.cmd, a, b)
    BY <2>1, MeansParts DEF OfType
  <2> QED BY <2>1, <2>2, <2>3, <2>4, GoesShape DEF Shape
<1>6. CASE Typed(M, s, v)
  <2>1. PICK c \in Command, a \in Source, b \in Source :
          /\ Means(M, c, a, b) /\ v = Std(a, b)
          /\ s = <<call("fork", Run(c)), wait>>
    BY <1>6 DEF Typed
  <2>2. Head(s).x = Run(c) /\ Tail(s) = <<wait>>
    BY <2>1 DEF call
  <2>3. Rest(<<wait>>)
    BY DEF Rest, wait, call
  <2> QED BY <2>1, <2>2, <2>3, GoesShape DEF Shape
<1> QED BY <1>1, <1>2, <1>3, <1>4, <1>5, <1>6

LEMMA WaitShape ==
  ASSUME NEW M, NEW s \in Seq(Call), s # << >>, NEW v, NEW pp, Shape(M, s, v, pp),
         Head(s).op \in {"wait", "read"}
  PROVE  Shape(M, Tail(s), v, pp)
<1>1. List2(M, s, v) \/ Rest(s)
  BY Begin DEF Shape
<1>2. CASE List2(M, s, v)
  <2>1. PICK c \in OfType("LIST"), a \in Source, b \in Source :
          Means(M, c, a, b) /\ v = Std(a, b) /\ s = <<wait, call("run", c.right)>>
    BY <1>2 DEF List2
  <2>2. Tail(s) = Run(c.right)
    BY <2>1 DEF Run
  <2>3. Means(M, c.right, a, b)
    BY <2>1, MeansParts DEF OfType
  <2> QED BY <2>1, <2>2, <2>3, GoesShape
<1>3. CASE Rest(s)
  BY <1>3, RestTail DEF Shape
<1> QED BY <1>1, <1>2, <1>3

LEMMA ExecShape ==
  ASSUME NEW M, NEW s \in Seq(Call), s # << >>, NEW v, NEW pp, Shape(M, s, v, pp),
         Head(s).op = "exec"
  PROVE  \E a, b \in Source :
           v = Std(a, b) /\ [argv |-> Head(s).x, in |-> a, out |-> b] \in M
<1>1. Execs(M, s, v)
  BY Begin DEF Shape
<1>2. PICK c \in OfType("EXEC"), a \in Source, b \in Source :
        Means(M, c, a, b) /\ v = Std(a, b) /\ s = <<call("exec", c.argv), exit>>
  BY <1>1 DEF Execs
<1>3. Head(s).x = c.argv
  BY <1>2 DEF call
<1>4. [argv |-> c.argv, in |-> a, out |-> b] \in M
  BY <1>2, MeansParts DEF OfType
<1> QED BY <1>2, <1>3, <1>4

LEMMA RunShape ==
  ASSUME NEW M, NEW s \in Seq(Call), s # << >>, NEW v, NEW pp, Shape(M, s, v, pp),
         Head(s).op = "run"
  PROVE  Shape(M, runcmd(Head(s).x) \o Tail(s), v, pp)
<1>1. Goes(M, s, v)
  BY Begin DEF Shape
<1>2. PICK c \in Command, a \in Source, b \in Source :
        Means(M, c, a, b) /\ v = Std(a, b) /\ s = Run(c)
  BY <1>1 DEF Goes
<1>3. Head(s).x = c /\ Tail(s) = << >>
  BY <1>2 DEF Run, call
<1>4. runcmd(c) \o << >> = runcmd(c)
  BY RuncmdCall, ConcatEmptySeq
<1> QED BY <1>2, <1>3, <1>4, RuncmdShape

(***************************************************************************)
(* The steps keep HInv.                                                    *)
(***************************************************************************)

LEMMA HParts ==
  ASSUME HInv
  PROVE  /\ FInv /\ TypeOK /\ CallInv /\ IdleInv
         /\ WireInv /\ ProgInv /\ StartInv /\ OpenInv /\ HalfInv
  BY DEF HInv, FInv

\* A process with something to do is there because a line has been typed.
LEMMA WasTyped ==
  ASSUME HInv, NEW q \in Proc, NEW S, At(q, S)
  PROVE  line # None
  BY HParts DEF StartInv, At

\* The program that q runs, and what q has still to do.
LEMMA NoProgram ==
  ASSUME HInv, NEW q \in Proc, NEW S, At(q, S), "read" \notin S, "exit" \notin S
  PROVE  running[q] = None
<1>1. Prog(Meaning, running[q], state[q], todo[q], Sees(q))
  BY HParts DEF ProgInv
<1>2. Head(<<call("read", 0), exit>>).op = "read" /\ Head(<<exit>>).op = "exit"
  BY DEF call, exit
<1> QED BY <1>1, <1>2 DEF Prog, At

\* For the others, a step changes nothing.
Same(r) ==
  /\ state'[r] = "run" <=> state[r] = "run"
  /\ running'[r] = running[r]
  /\ state[r] = "run" => todo'[r] = todo[r] /\ p'[r] = p[r] /\ Sees(r)' = Sees(r)

\* A step of processes in D.
LEMMA HContinue ==
  ASSUME HInv, FInv', OpenInv', HalfInv', line' = line, line # None,
         NEW D \in SUBSET Proc, \A r \in Proc \ D : Same(r),
         \A r \in D : /\ state'[r] = "run" => Shape(Meaning, todo'[r], Sees(r)', p'[r])
                      /\ Prog(Meaning, running'[r], state'[r], todo'[r], Sees(r)')
  PROVE  HInv'
<1>0. WireInv /\ ProgInv
  BY HParts
<1>1. Meaning' = Meaning
  BY DEF Meaning
<1>2. ASSUME NEW r \in Proc, state'[r] = "run"
      PROVE  Shape(Meaning, todo'[r], Sees(r)', p'[r])
  <2>1. CASE r \in D
    BY <1>2, <2>1
  <2>2. CASE r \notin D
    <3>1. /\ state[r] = "run" /\ todo'[r] = todo[r] /\ p'[r] = p[r] /\ Sees(r)' = Sees(r)
      BY <1>2, <2>2 DEF Same
    <3>2. Shape(Meaning, todo[r], Sees(r), p[r])
      BY <1>0, <3>1 DEF WireInv
    <3> QED BY <3>1, <3>2
  <2> QED BY <2>1, <2>2
<1>3. WireInv'
  BY <1>1, <1>2 DEF WireInv
<1>4. ASSUME NEW r \in Proc
      PROVE  Prog(Meaning, running'[r], state'[r], todo'[r], Sees(r)')
  <2>1. CASE r \in D
    BY <2>1
  <2>2. CASE r \notin D
    <3>1. Prog(Meaning, running[r], state[r], todo[r], Sees(r))
      BY <1>0 DEF ProgInv
    <3>2. CASE running[r] = None
      BY <2>2, <3>2 DEF Same, Prog
    <3>3. CASE running[r] # None
      <4>1. state[r] = "run"
        BY <3>1, <3>3 DEF Prog
      <4>2. /\ state'[r] = state[r] /\ running'[r] = running[r] /\ todo'[r] = todo[r]
            /\ Sees(r)' = Sees(r)
        BY <2>2, <4>1 DEF Same
      <4> QED BY <3>1, <4>2
    <3> QED BY <3>2, <3>3
  <2> QED BY <2>1, <2>2
<1>5. ProgInv'
  BY <1>1, <1>4 DEF ProgInv
<1>6. StartInv'
  BY DEF StartInv
<1> QED BY <1>3, <1>5, <1>6 DEF HInv

\* A call of q, which runs no program and goes on with s.
LEMMA HCalls ==
  ASSUME HInv, FInv', OpenInv', HalfInv', NEW q \in Proc, NEW S, At(q, S),
         "read" \notin S, "exit" \notin S, UNCHANGED <<line, state, running>>,
         NEW s, todo' = [todo EXCEPT ![q] = s],
         \A r \in Proc : r # q => p'[r] = p[r] /\ Sees(r)' = Sees(r),
         Shape(Meaning, s, Sees(q)', p'[q])
  PROVE  HInv'
<1>1. line # None /\ running[q] = None
  BY WasTyped, NoProgram
<1>2. todo'[q] = s /\ \A r \in Proc : r # q => todo'[r] = todo[r]
  BY HParts DEF CallInv
<1>3. \A r \in Proc \ {q} : Same(r)
  BY <1>2 DEF Same
<1>4. Prog(Meaning, running'[q], state'[q], todo'[q], Sees(q)')
  BY <1>1 DEF Prog
<1>5. \A r \in {q} : /\ state'[r] = "run" => Shape(Meaning, todo'[r], Sees(r)', p'[r])
                     /\ Prog(Meaning, running'[r], state'[r], todo'[r], Sees(r)')
  BY <1>2, <1>4
<1>6. {q} \in SUBSET Proc /\ line' = line
  OBVIOUS
<1> QED BY <1>1, <1>3, <1>5, <1>6, HContinue

\* What q has to do is as it should be.
LEMMA AtShape ==
  ASSUME HInv, NEW q \in Proc, NEW S, At(q, S)
  PROVE  /\ Shape(Meaning, todo[q], Sees(q), p[q]) /\ todo[q] \in Seq(Call)
         /\ todo[q] # << >> /\ Head(todo[q]).op \in S /\ X(q) = Head(todo[q]).x
         /\ state[q] = "run"
<1>1. todo[q] \in Seq(Call) /\ todo[q] # << >> /\ state[q] = "run" /\ Head(todo[q]).op \in S
  BY HParts, AtCall
<1> QED BY <1>1, HParts DEF WireInv, X

LEMMA ExitShape ==
  ASSUME NEW M, NEW v, NEW pp
  PROVE  /\ Shape(M, <<exit>>, v, pp) /\ Shape(M, << >>, v, pp)
         /\ Shape(M, <<call("read", 0), exit>>, v, pp)
<1>1. Rest(<<exit>>) /\ Rest(<< >>)
  BY DEF Rest, exit, call
<1>2. Rest(<<call("read", 0), exit>>)
  BY DEF Rest, exit, call
<1> QED BY <1>1, <1>2 DEF Shape

LEMMA HRuncmd ==
  ASSUME HInv, FInv', NEW q \in Proc, Runcmd(q)
  PROVE  HInv'
<1>1. /\ At(q, {"run"}) /\ todo' = [todo EXCEPT ![q] = runcmd(X(q)) \o Tail(@)]
      /\ UNCHANGED <<line, state, ofile, p, rf, running, what>>
  BY DEF Runcmd, files
<1>2. Shape(Meaning, runcmd(X(q)) \o Tail(todo[q]), Sees(q), p[q])
  BY <1>1, AtShape, RunShape
<1>3. todo' = [todo EXCEPT ![q] = runcmd(X(q)) \o Tail(todo[q])]
  BY <1>1
<1>4. OpenInv' /\ HalfInv' /\ \A r \in Proc : Sees(r)' = Sees(r)
  BY <1>1, VSame
<1>5. Shape(Meaning, runcmd(X(q)) \o Tail(todo[q]), Sees(q)', p'[q])
  BY <1>1, <1>2, <1>4
<1> QED BY <1>1, <1>3, <1>4, <1>5, HCalls

LEMMA HClose ==
  ASSUME HInv, FInv', NEW q \in Proc, Close(q)
  PROVE  HInv'
<1>1. At(q, {"close"}) /\ Done(q) /\ UNCHANGED <<line, state, p, running>>
  BY DEF Close
<1>2. /\ Sees(q)' = Put(Sees(q), fd(q, X(q)), FD_NONE)
      /\ \A r \in Proc : r # q => Sees(r)' = Sees(r)
      /\ OpenInv' /\ HalfInv'
  BY VClose
<1>3. fd(q, X(q)) = Named_by(p[q], X(q))
  BY DEF fd, Named_by
<1>4. Shape(Meaning, Tail(todo[q]), Put(Sees(q), Named_by(p[q], X(q)), FD_NONE), p[q])
  BY <1>1, AtShape, CloseShape
<1>5. todo' = [todo EXCEPT ![q] = Tail(todo[q])]
  BY <1>1 DEF Done
<1>6. Shape(Meaning, Tail(todo[q]), Sees(q)', p'[q])
  BY <1>1, <1>2, <1>3, <1>4
<1> QED BY <1>1, <1>2, <1>5, <1>6, HCalls

LEMMA HDup ==
  ASSUME HInv, FInv', NEW q \in Proc, Dup(q)
  PROVE  HInv'
<1>1. At(q, {"dup"}) /\ Done(q) /\ UNCHANGED <<line, state, p, running>>
  BY DEF Dup
<1>2. fd(q, X(q)) = Named_by(p[q], X(q))
  BY DEF fd, Named_by
<1>3. /\ Sees(q)[Named_by(p[q], X(q))] # FD_NONE
      /\ \E k : FirstFree(Sees(q), k)
                /\ Shape(Meaning, Tail(todo[q]),
                         Put(Sees(q), k, Sees(q)[Named_by(p[q], X(q))]), p[q])
  BY <1>1, AtShape, DupShape
<1>4. PICK k : FirstFree(Sees(q), k)
               /\ Shape(Meaning, Tail(todo[q]),
                        Put(Sees(q), k, Sees(q)[Named_by(p[q], X(q))]), p[q])
  BY <1>3
<1>5. fdalloc(ofile[q]) = k /\ k # None
  BY <1>4, HParts, FirstIs
<1>6. /\ Sees(q)' = Put(Sees(q), k, Sees(q)[Named_by(p[q], X(q))])
      /\ \A r \in Proc : r # q => Sees(r)' = Sees(r)
      /\ OpenInv' /\ HalfInv'
  BY <1>2, <1>3, <1>5, VDup
<1>7. todo' = [todo EXCEPT ![q] = Tail(todo[q])]
  BY <1>1 DEF Done
<1>8. Shape(Meaning, Tail(todo[q]), Sees(q)', p'[q])
  BY <1>1, <1>4, <1>6
<1> QED BY <1>1, <1>6, <1>7, <1>8, HCalls

\* A call that fails.
LEMMA HFails ==
  ASSUME HInv, FInv', OpenInv', HalfInv', NEW q \in Proc, NEW S, At(q, S),
         "read" \notin S, "exit" \notin S, UNCHANGED <<line, state, running, p>>,
         Fails(q), \A r \in Proc : Sees(r)' = Sees(r)
  PROVE  HInv'
<1>1. todo' = [todo EXCEPT ![q] = <<exit>>]
  BY DEF Fails
<1>2. Shape(Meaning, <<exit>>, Sees(q)', p'[q])
  BY ExitShape
<1>3. UNCHANGED <<line, state, running>> /\ \A r \in Proc : r # q => p'[r] = p[r] /\ Sees(r)' = Sees(r)
  OBVIOUS
<1> QED BY <1>1, <1>2, <1>3, HCalls

LEMMA HOpen ==
  ASSUME HInv, FInv', NEW q \in Proc, Open(q)
  PROVE  HInv'
<1>1. At(q, {"open"}) /\ UNCHANGED <<line, state, p, running, rf>>
  BY DEF Open
<1>2. CASE Fails(q) /\ UNCHANGED ofile
  <2>1. CASE what' = what
    <3>1. OpenInv' /\ HalfInv' /\ \A r \in Proc : Sees(r)' = Sees(r)
      BY <1>1, <1>2, <2>1, VSame
    <3> QED BY <1>1, <1>2, <3>1, HFails
  <2>2. CASE what' # what
    <3> DEFINE f == Min(Unused(ref))
               d == fdalloc(ofile[q])
    <3>1. Unused(ref) # {} /\ d # None /\ ofile' = [ofile EXCEPT ![q][d] = f]
      BY <2>2 DEF Open, files
    <3>2. ofile \in [Proc -> [Fd -> File \cup {0}]] /\ ref \in [File -> Nat]
      BY HParts DEF TypeOK
    <3>3. f \in File
      BY <3>1, <3>2, FileOk
    <3>4. d \in Fd /\ ofile[q][d] = 0
      BY <3>1, <3>2, FdOk
    <3> HIDE DEF f, d
    <3>5. ofile'[q][d] = f
      BY <3>1, <3>2, <3>4
    <3> QED BY <1>2, <3>3, <3>4, <3>5, Bounds
  <2> QED BY <2>1, <2>2
<1>3. CASE ~ Fails(q) \/ ofile' # ofile
  <2>1. /\ Done(q)
        /\ Sees(q)' = Put(Sees(q), fdalloc(ofile[q]), Named(X(q)))
        /\ \A r \in Proc : r # q => Sees(r)' = Sees(r)
        /\ OpenInv' /\ HalfInv'
    BY <1>3, VOpen
  <2>2. \E k : FirstFree(Sees(q), k)
               /\ Shape(Meaning, Tail(todo[q]), Put(Sees(q), k, Named(X(q))), p[q])
    BY <1>1, AtShape, OpenShape
  <2>3. PICK k : FirstFree(Sees(q), k)
                 /\ Shape(Meaning, Tail(todo[q]), Put(Sees(q), k, Named(X(q))), p[q])
    BY <2>2
  <2>4. fdalloc(ofile[q]) = k
    BY <2>3, HParts, FirstIs
  <2>5. todo' = [todo EXCEPT ![q] = Tail(todo[q])]
    BY <2>1 DEF Done
  <2>6. Shape(Meaning, Tail(todo[q]), Sees(q)', p'[q])
    BY <1>1, <2>1, <2>3, <2>4
  <2> QED BY <1>1, <2>1, <2>5, <2>6, HCalls
<1> QED BY <1>2, <1>3

LEMMA HPipeFirst ==
  ASSUME HInv, FInv', NEW q \in Proc, PipeFirst(q)
  PROVE  HInv'
<1>1. At(q, {"pipe"}) /\ UNCHANGED <<line, state, p, running>>
  BY DEF PipeFirst
<1>2. OpenInv' /\ HalfInv' /\ \A r \in Proc : Sees(r)' = Sees(r)
  BY VPipeFirst
<1>3. CASE Fails(q)
  BY <1>1, <1>2, <1>3, HFails
<1>4. CASE UNCHANGED todo
  <2>1. Shape(Meaning, todo[q], Sees(q)', p'[q])
    BY <1>1, <1>2, AtShape
  <2>2. todo' = [todo EXCEPT ![q] = todo[q]]
    BY <1>4, HParts DEF CallInv
  <2> QED BY <1>1, <1>2, <2>1, <2>2, HCalls
<1> QED BY <1>3, <1>4 DEF PipeFirst

LEMMA HPipeSecond ==
  ASSUME HInv, FInv', NEW q \in Proc, PipeSecond(q)
  PROVE  HInv'
<1>1. /\ At(q, {"pipe"}) /\ rf' = [rf EXCEPT ![q] = None]
      /\ UNCHANGED <<line, state, running>>
      /\ Piped(q) \/ (Fails(q) /\ UNCHANGED <<what, ofile, p>>)
  BY PipeCases
<1>2. CASE Fails(q) /\ UNCHANGED <<what, ofile, p>>
  <2>1. OpenInv' /\ HalfInv' /\ \A r \in Proc : Sees(r)' = Sees(r)
    BY <1>1, <1>2, VPipeFails
  <2> QED BY <1>1, <1>2, <2>1, HFails
<1>3. CASE Piped(q)
  <2>0. /\ Shape(Meaning, todo[q], Sees(q), p[q]) /\ todo[q] \in Seq(Call)
        /\ todo[q] # << >> /\ Head(todo[q]).op = "pipe" /\ X(q) = Head(todo[q]).x
    BY <1>1, AtShape
  <2>1. PICK a \in Source, b \in Source :
          /\ Sees(q) = Std(a, b)
          /\ \A qq : HasEnds(qq) => Shape(Meaning, Tail(todo[q]), Ends(a, b, X(q)), qq)
    BY <2>0, PipeShape
  <2>2. /\ Sees(q)' = Ends(a, b, X(q)) /\ HasEnds(p'[q])
        /\ \A r \in Proc : r # q => Sees(r)' = Sees(r)
        /\ OpenInv' /\ HalfInv'
    BY <1>3, <2>1, VPiped
  <2>3. todo' = [todo EXCEPT ![q] = Tail(todo[q])]
    BY <1>3 DEF Piped, Done
  <2>4. \A r \in Proc : r # q => p'[r] = p[r]
    BY <1>3, HParts DEF Piped, TypeOK
  <2>5. Shape(Meaning, Tail(todo[q]), Sees(q)', p'[q])
    BY <2>1, <2>2
  <2> QED BY <1>1, <2>2, <2>3, <2>4, <2>5, HCalls
<1> QED BY <1>1, <1>2, <1>3

\* The child of a fork has what its parent has.
LEMMA VForked ==
  ASSUME HInv, NEW q \in Proc, NEW c \in Proc, c # q,
         ofile' = [ofile EXCEPT ![c] = ofile[q]], UNCHANGED <<rf, what>>
  PROVE  /\ Sees(c)' = Sees(q) /\ \A r \in Proc : r # c => Sees(r)' = Sees(r)
         /\ OpenInv' /\ HalfInv'
<1>0. ofile \in [Proc -> [Fd -> File \cup {0}]] /\ OpenInv
  BY HParts DEF TypeOK
<1>1. ofile'[c] = ofile[q] /\ \A r \in Proc : r # c => ofile'[r] = ofile[r]
  BY <1>0
<1>2. Sees(c)' = Sees(q)
  BY <1>1 DEF Sees, View
<1>3. \A r \in Proc : r # c => Sees(r)' = Sees(r)
  BY <1>1, SeesSame
<1>4. OpenInv'
  BY <1>0, <1>1 DEF OpenInv
<1>5. Gets(c, ofile[q])
  BY DEF Gets
<1>6. HalfInv'
  BY <1>5, HalfKept
<1> QED BY <1>2, <1>3, <1>4, <1>6

LEMMA HForked ==
  ASSUME HInv, FInv', NEW q \in Proc, NEW c, Forked(q, c)
  PROVE  HInv'
<1>1. /\ At(q, {"fork", "fork_back"}) /\ UNCHANGED <<line, rf, running, what>>
      /\ state' = [state EXCEPT ![c] = "run"] /\ ofile' = [ofile EXCEPT ![c] = ofile[q]]
      /\ p' = [p EXCEPT ![c] = p[q]]
      /\ todo' = [todo EXCEPT ![q] = Tail(@), ![c] = X(q)]
  BY DEF Forked
<1>2. c \in Proc /\ state[c] = "unused" /\ c # q
  BY FreeOk DEF Forked, At
<1>3. /\ Sees(c)' = Sees(q) /\ \A r \in Proc : r # c => Sees(r)' = Sees(r)
      /\ OpenInv' /\ HalfInv'
  BY <1>1, <1>2, VForked
<1>4. TypeOK /\ CallInv /\ ProgInv
  BY HParts
<1>5. /\ todo'[q] = Tail(todo[q]) /\ todo'[c] = X(q)
      /\ \A r \in Proc \ {q, c} : todo'[r] = todo[r]
  BY <1>1, <1>2, <1>4 DEF CallInv
<1>6. /\ p'[c] = p[q] /\ \A r \in Proc : r # c => p'[r] = p[r]
      /\ state'[c] = "run" /\ \A r \in Proc : r # c => state'[r] = state[r]
  BY <1>1, <1>2, <1>4 DEF TypeOK
<1>7. Shape(Meaning, Tail(todo[q]), Sees(q), p[q]) /\ Shape(Meaning, X(q), Sees(q), p[q])
  BY <1>1, AtShape, ForkShape
<1>8. running'[q] = None /\ running'[c] = None
  <2>1. running[q] = None
    BY <1>1, NoProgram
  <2>2. Prog(Meaning, running[c], state[c], todo[c], Sees(c))
    BY <1>2, <1>4 DEF ProgInv
  <2>3. running[c] = None
    BY <1>2, <2>2 DEF Prog
  <2> QED BY <1>1, <2>1, <2>3
<1>9. \A r \in Proc \ {q, c} : Same(r)
  BY <1>1, <1>3, <1>5, <1>6 DEF Same
<1>10. \A r \in {q, c} : /\ state'[r] = "run" => Shape(Meaning, todo'[r], Sees(r)', p'[r])
                         /\ Prog(Meaning, running'[r], state'[r], todo'[r], Sees(r)')
  <2>1. Shape(Meaning, todo'[q], Sees(q)', p'[q])
    BY <1>2, <1>3, <1>5, <1>6, <1>7
  <2>2. Shape(Meaning, todo'[c], Sees(c)', p'[c])
    BY <1>2, <1>3, <1>5, <1>6, <1>7
  <2>3. \A st, s, v : Prog(Meaning, None, st, s, v)
    BY DEF Prog
  <2> QED BY <1>8, <2>1, <2>2, <2>3
<1>11. {q, c} \in SUBSET Proc /\ line' = line /\ line # None
  BY <1>1, <1>2, WasTyped
<1> QED BY <1>3, <1>9, <1>10, <1>11, HContinue

LEMMA HFork ==
  ASSUME HInv, FInv', NEW q \in Proc, Fork(q)
  PROVE  HInv'
<1>1. CASE ForkFailed(q)
  <2>1. /\ At(q, {"fork", "fork_back"}) /\ Fails(q)
        /\ UNCHANGED <<line, state, running, p, ofile, what, rf>>
    BY <1>1 DEF ForkFailed
  <2>2. OpenInv' /\ HalfInv' /\ \A r \in Proc : Sees(r)' = Sees(r)
    BY <2>1, VSame
  <2> QED BY <2>1, <2>2, HFails
<1> QED BY <1>1, ForkCases, HForked

\* A step of q alone, which keeps its files.
LEMMA HAlone ==
  ASSUME HInv, FInv', NEW q \in Proc, NEW S, At(q, S),
         UNCHANGED <<line, state, p, ofile, what, rf>>,
         NEW s, todo' = [todo EXCEPT ![q] = s],
         \A r \in Proc \ {q} : running'[r] = running[r],
         Shape(Meaning, s, Sees(q), p[q]),
         Prog(Meaning, running'[q], state[q], s, Sees(q))
  PROVE  HInv'
<1>1. OpenInv' /\ HalfInv' /\ \A r \in Proc : Sees(r)' = Sees(r)
  BY VSame
<1>2. todo'[q] = s /\ \A r \in Proc : r # q => todo'[r] = todo[r]
  BY HParts DEF CallInv
<1>3. \A r \in Proc \ {q} : Same(r)
  BY <1>1, <1>2 DEF Same
<1>4. \A r \in {q} : /\ state'[r] = "run" => Shape(Meaning, todo'[r], Sees(r)', p'[r])
                     /\ Prog(Meaning, running'[r], state'[r], todo'[r], Sees(r)')
  BY <1>1, <1>2
<1>5. {q} \in SUBSET Proc /\ line' = line /\ line # None
  BY WasTyped
<1> QED BY <1>1, <1>3, <1>4, <1>5, HContinue

LEMMA HExec ==
  ASSUME HInv, FInv', NEW q \in Proc, Exec(q)
  PROVE  HInv'
<1>1. At(q, {"exec"}) /\ UNCHANGED <<line, state, p, ofile, what, rf>>
  BY DEF Exec, files
<1>2. CASE Fails(q) /\ UNCHANGED running
  <2>1. OpenInv' /\ HalfInv' /\ \A r \in Proc : Sees(r)' = Sees(r)
    BY <1>1, VSame
  <2> QED BY <1>1, <1>2, <2>1, HFails
<1>3. CASE /\ running' = [running EXCEPT ![q] = X(q)]
           /\ todo' = [todo EXCEPT ![q] = <<call("read", 0), exit>>]
  <2>0. /\ Shape(Meaning, todo[q], Sees(q), p[q]) /\ todo[q] \in Seq(Call)
        /\ todo[q] # << >> /\ Head(todo[q]).op = "exec" /\ X(q) = Head(todo[q]).x
    BY <1>1, AtShape
  <2>1. \E a, b \in Source :
          Sees(q) = Std(a, b) /\ [argv |-> X(q), in |-> a, out |-> b] \in Meaning
    BY <2>0, ExecShape
  <2>2. running'[q] = X(q) /\ \A r \in Proc \ {q} : running'[r] = running[r]
    BY <1>3, HParts DEF TypeOK
  <2>3. state[q] = "run"
    BY <1>1 DEF At
  <2>4. Prog(Meaning, running'[q], state[q], <<call("read", 0), exit>>, Sees(q))
    BY <2>1, <2>2, <2>3 DEF Prog
  <2>5. Shape(Meaning, <<call("read", 0), exit>>, Sees(q), p[q])
    BY ExitShape
  <2> QED BY <1>1, <1>3, <2>2, <2>4, <2>5, HAlone
<1> QED BY <1>2, <1>3 DEF Exec

LEMMA HRead ==
  ASSUME HInv, FInv', NEW q \in Proc, ReadToEnd(q)
  PROVE  HInv'
<1>1. At(q, {"read"}) /\ Done(q) /\ UNCHANGED <<line, state, p, ofile, what, rf, running>>
  BY DEF ReadToEnd, files
<1>2. Shape(Meaning, Tail(todo[q]), Sees(q), p[q])
  BY <1>1, AtShape, WaitShape
<1>3. Prog(Meaning, running[q], state[q], todo[q], Sees(q))
  BY HParts DEF ProgInv
<1>4. Prog(Meaning, running'[q], state[q], Tail(todo[q]), Sees(q))
  <2>1. ASSUME running[q] # None PROVE Tail(todo[q]) = <<exit>>
    <3>1. todo[q] = <<call("read", 0), exit>> \/ todo[q] = <<exit>>
      BY <1>3, <2>1 DEF Prog
    <3>2. Head(<<exit>>).op = "exit" /\ Tail(<<call("read", 0), exit>>) = <<exit>>
      BY DEF exit, call
    <3> QED BY <1>1, <3>1, <3>2 DEF At
  <2> QED BY <1>1, <1>3, <2>1 DEF Prog
<1>5. todo' = [todo EXCEPT ![q] = Tail(todo[q])]
  BY <1>1 DEF Done
<1> QED BY <1>1, <1>2, <1>4, <1>5, HAlone

LEMMA HExit ==
  ASSUME HInv, FInv', NEW q \in Proc, Exit(q)
  PROVE  HInv'
<1>0. TypeOK /\ CallInv
  BY HParts
<1>1. /\ At(q, {"exit"}) /\ UNCHANGED <<line, p>>
      /\ state' = [state EXCEPT ![q] = "zombie"]
      /\ todo' = [todo EXCEPT ![q] = << >>] /\ running' = [running EXCEPT ![q] = None]
  BY DEF Exit
<1>2. OpenInv' /\ HalfInv' /\ \A r \in Proc : r # q => Sees(r)' = Sees(r)
  BY VExit
<1>3. /\ state'[q] = "zombie" /\ running'[q] = None
      /\ \A r \in Proc \ {q} : state'[r] = state[r] /\ running'[r] = running[r]
  BY <1>0, <1>1 DEF TypeOK
<1>4. \A r \in Proc \ {q} : todo'[r] = todo[r]
  BY <1>0, <1>1 DEF CallInv
<1>5. \A r \in Proc \ {q} : Same(r)
  BY <1>1, <1>2, <1>3, <1>4 DEF Same
<1>6. \A r \in {q} : /\ state'[r] = "run" => Shape(Meaning, todo'[r], Sees(r)', p'[r])
                     /\ Prog(Meaning, running'[r], state'[r], todo'[r], Sees(r)')
  BY <1>3 DEF Prog
<1>7. {q} \in SUBSET Proc /\ line' = line /\ line # None
  BY <1>1, WasTyped
<1> QED BY <1>2, <1>5, <1>6, <1>7, HContinue

\* A zombie has no calls to make, no program and nothing open.
LEMMA ReapSame ==
  ASSUME HInv, NEW c \in Proc, state[c] = "zombie", Reap(c),
         UNCHANGED <<ofile, running, what>>
  PROVE  \A r \in Proc :
           /\ state'[r] = "run" <=> state[r] = "run"
           /\ running'[r] = running[r] /\ Sees(r)' = Sees(r)
           /\ state[r] = "run" => p'[r] = p[r]
<1>1. \A r \in Proc : Sees(r)' = Sees(r)
  BY SeesSame
<1>2. /\ state'[c] = "unused" /\ \A r \in Proc : r # c => state'[r] = state[r] /\ p'[r] = p[r]
  BY HParts DEF TypeOK, Reap
<1> QED BY <1>1, <1>2

LEMMA HWait ==
  ASSUME HInv, FInv', NEW q \in Proc, Wait(q)
  PROVE  HInv'
<1>1. At(q, {"wait"}) /\ Done(q) /\ UNCHANGED <<line, ofile, rf, running, what>>
  BY DEF Wait, files
<1>2. OpenInv' /\ HalfInv' /\ \A r \in Proc : Sees(r)' = Sees(r)
  BY <1>1, VSame
<1>3. \A r \in Proc : /\ state'[r] = "run" <=> state[r] = "run"
                      /\ state[r] = "run" => p'[r] = p[r]
  <2>1. CASE \E c \in Children(q) : state[c] = "zombie" /\ Reap(c)
    <3>1. PICK c \in Proc : state[c] = "zombie" /\ Reap(c)
      BY <2>1 DEF Children
    <3> QED BY <1>1, <3>1, ReapSame
  <2>2. CASE UNCHANGED <<state, parent, p, back>>
    BY <2>2
  <2> QED BY <2>1, <2>2 DEF Wait
<1>4. todo'[q] = Tail(todo[q]) /\ \A r \in Proc : r # q => todo'[r] = todo[r]
  BY <1>1, HParts DEF CallInv, Done
<1>5. \A r \in Proc \ {q} : Same(r)
  BY <1>1, <1>2, <1>3, <1>4 DEF Same
<1>6. state[q] = "run" /\ running'[q] = None
  BY <1>1, NoProgram DEF At
<1>7. Shape(Meaning, Tail(todo[q]), Sees(q), p[q])
  BY <1>1, AtShape, WaitShape
<1>8. Shape(Meaning, todo'[q], Sees(q)', p'[q])
  BY <1>2, <1>3, <1>4, <1>6, <1>7
<1>9. Prog(Meaning, running'[q], state'[q], todo'[q], Sees(q)')
  BY <1>6 DEF Prog
<1>10. {q} \in SUBSET Proc /\ line' = line /\ line # None
  BY <1>1, WasTyped
<1>11. \A r \in {q} : /\ state'[r] = "run" => Shape(Meaning, todo'[r], Sees(r)', p'[r])
                      /\ Prog(Meaning, running'[r], state'[r], todo'[r], Sees(r)')
  BY <1>8, <1>9
<1> QED BY <1>2, <1>5, <1>10, <1>11, HContinue

\* A step of nobody: what the processes have stays.
LEMMA HNobody ==
  ASSUME HInv, FInv', UNCHANGED <<line, ofile, rf, what, todo>>,
         \A r \in Proc : /\ state'[r] = "run" <=> state[r] = "run"
                         /\ running'[r] = running[r] /\ (state[r] = "run" => p'[r] = p[r])
  PROVE  HInv'
<1>1. OpenInv' /\ HalfInv' /\ \A r \in Proc : Sees(r)' = Sees(r)
  BY VSame
<1>2. CASE line # None
  <2>1. \A r \in Proc \ {} : Same(r)
    BY <1>1 DEF Same
  <2>2. {} \in SUBSET Proc /\ line' = line
    OBVIOUS
  <2> QED BY <1>1, <1>2, <2>1, <2>2, HContinue
<1>3. CASE line = None
  <2>1. StartInv'
    <3>1. /\ state[sh] = "run" /\ todo[sh] = << >> /\ Sees(sh) = Std(Console, Console)
          /\ \A q \in Proc \ {sh} : state[q] # "run"
      BY <1>3, HParts DEF StartInv
    <3>2. Sees(sh)' = Sees(sh) /\ sh \in Proc
      BY <1>1, Bounds
    <3>3. Sees(sh)' = Std(Console, Console)
      BY <3>1, <3>2
    <3> QED BY <3>1, <3>2, <3>3 DEF StartInv
  <2>2. Meaning' = Meaning
    BY DEF Meaning
  <2>3. WireInv'
    <3> SUFFICES ASSUME NEW r \in Proc, state'[r] = "run"
                 PROVE  Shape(Meaning, todo'[r], Sees(r)', p'[r])
      BY <2>2 DEF WireInv
    <3>1. Shape(Meaning, todo[r], Sees(r), p[r])
      BY HParts DEF WireInv
    <3> QED BY <1>1, <3>1
  <2>4. ProgInv'
    <3> SUFFICES ASSUME NEW r \in Proc
                 PROVE  Prog(Meaning, running'[r], state'[r], todo'[r], Sees(r)')
      BY <2>2 DEF ProgInv
    <3>1. Prog(Meaning, running[r], state[r], todo[r], Sees(r))
      BY HParts DEF ProgInv
    <3> QED BY <1>1, <3>1 DEF Prog
  <2> QED BY <1>1, <2>1, <2>3, <2>4 DEF HInv
<1> QED BY <1>2, <1>3

LEMMA HInitWait ==
  ASSUME HInv, FInv', InitWait
  PROVE  HInv'
<1>1. UNCHANGED <<line, ofile, todo, rf, running, what>>
  BY DEF InitWait, files
<1>2. PICK c \in Proc : state[c] = "zombie" /\ Reap(c)
  BY DEF InitWait, Children
<1>3. \A r \in Proc : /\ state'[r] = "run" <=> state[r] = "run"
                      /\ running'[r] = running[r] /\ (state[r] = "run" => p'[r] = p[r])
  BY <1>1, <1>2, ReapSame
<1> QED BY <1>1, <1>3, HNobody

\* The line is typed: the shell will run what it means.
LEMMA HType ==
  ASSUME HInv, FInv', NEW s \in Lines, Type(s)
  PROVE  HInv'
<1>1. /\ line = None /\ line' = s /\ s # None /\ UNCHANGED <<state, ofile, p, rf, running, what>>
      /\ todo' = [todo EXCEPT ![sh] = <<call("fork", Run(tree(s))), wait>>]
  BY ShellAssumption DEF Type, files
<1>2. /\ state[sh] = "run" /\ todo[sh] = << >> /\ Sees(sh) = Std(Console, Console)
      /\ \A q \in Proc \ {sh} : state[q] # "run"
  BY <1>1, HParts DEF StartInv
<1>3. OpenInv' /\ HalfInv' /\ \A r \in Proc : Sees(r)' = Sees(r)
  BY <1>1, VSame
<1>4. todo'[sh] = <<call("fork", Run(tree(s))), wait>> /\ sh \in Proc
  BY <1>1, HParts, Bounds DEF CallInv
<1>5. Meaning' = Wire(tree(s), Console, Console)
  BY <1>1 DEF Meaning
<1>6. Means(Meaning', tree(s), Console, Console)
  BY <1>5, TreeAssumption, SourceOpen DEF Means
<1>7. Typed(Meaning', todo'[sh], Sees(sh)')
  <2>1. tree(s) \in Command /\ Console \in Source
    BY TreeAssumption, SourceOpen
  <2>2. Sees(sh)' = Std(Console, Console)
    BY <1>2, <1>3, <1>4
  <2> QED BY <1>4, <1>6, <2>1, <2>2 DEF Typed
<1>8. WireInv'
  <2> SUFFICES ASSUME NEW r \in Proc, state'[r] = "run"
               PROVE  Shape(Meaning', todo'[r], Sees(r)', p'[r])
    BY DEF WireInv
  <2>1. r = sh
    BY <1>1, <1>2
  <2> QED BY <1>7, <2>1 DEF Shape
<1>9. ProgInv'
  <2> SUFFICES ASSUME NEW r \in Proc
               PROVE  Prog(Meaning', running'[r], state'[r], todo'[r], Sees(r)')
    BY DEF ProgInv
  <2>1. Prog(Meaning, running[r], state[r], todo[r], Sees(r))
    BY HParts DEF ProgInv
  <2>2. running[r] = None
    <3>1. << >> # <<call("read", 0), exit>> /\ << >> # <<exit>>
      OBVIOUS
    <3> QED BY <1>2, <2>1, <3>1 DEF Prog
  <2> QED BY <1>1, <2>2 DEF Prog
<1>10. StartInv'
  BY <1>1 DEF StartInv
<1> QED BY <1>3, <1>8, <1>9, <1>10 DEF HInv

LEMMA HInit == Init => HInv
<1> SUFFICES ASSUME Init PROVE HInv
  OBVIOUS
<1>0. FInv
  BY FInit
<1>1. OpenInv
  <2>1. what[1] = Console /\ Console # FD_NONE
    BY Bounds, SourceOpen DEF Init
  <2>2. \A q \in Proc : \A d \in Fd : ofile[q][d] # 0 => ofile[q][d] = 1
    BY DEF Init
  <2>3. what = [f \in File |-> what[f]]
    BY DEF Init
  <2> QED BY <2>1, <2>2, <2>3 DEF OpenInv
<1>2. HalfInv
  BY DEF Init, HalfInv
<1>3. Sees(sh) = Std(Console, Console)
  <2>1. ASSUME NEW d \in Fd
        PROVE  (IF ofile[sh][d] = 0 THEN FD_NONE ELSE what[ofile[sh][d]])
                 = Std(Console, Console)[d]
    <3>1. d \in Nat /\ ofile[sh][d] = IF d < 3 THEN 1 ELSE 0
      BY Bounds DEF Init
    <3>2. what[1] = Console
      BY Bounds DEF Init
    <3>3. Std(Console, Console)[d] = IF d < 3 THEN Console ELSE FD_NONE
      BY <3>1 DEF Std, Fds
    <3> QED BY <3>1, <3>2, <3>3
  <2>2. Sees(sh) = [d \in Fd |-> IF ofile[sh][d] = 0 THEN FD_NONE ELSE what[ofile[sh][d]]]
    BY DEF Sees, View
  <2>3. Std(Console, Console) = [d \in Fd |-> Std(Console, Console)[d]]
    BY DEF Std, Fds
  <2> QED BY <2>1, <2>2, <2>3
<1>4. /\ state[sh] = "run" /\ todo = [q \in Proc |-> << >>] /\ todo[sh] = << >>
      /\ \A q \in Proc \ {sh} : state[q] # "run"
  BY Bounds DEF Init
<1>5. StartInv
  BY <1>3, <1>4 DEF StartInv
<1>6. WireInv
  BY <1>4, ExitShape DEF WireInv
<1>7. ProgInv
  BY DEF Init, ProgInv, Prog
<1> QED BY <1>0, <1>1, <1>2, <1>5, <1>6, <1>7 DEF HInv

LEMMA HNext == HInv /\ [Next]_vars => HInv'
<1> SUFFICES ASSUME HInv, [Next]_vars PROVE HInv'
  OBVIOUS
<1>0. FInv'
  BY HParts, FNext
<1>1. ASSUME NEW s \in Lines, Type(s) PROVE HInv'
  BY <1>0, <1>1, HType
<1>2. ASSUME NEW q \in Proc, Step(q) PROVE HInv'
  BY <1>0, <1>2, HRuncmd, HClose, HDup, HOpen, HPipeFirst, HPipeSecond, HFork, HExec, HRead,
     HExit, HWait DEF Step
<1>3. CASE InitWait
  BY <1>0, <1>3, HInitWait
<1>4. CASE UNCHANGED vars
  <2>1. UNCHANGED <<line, state, ofile, todo, p, rf, running, what>>
    BY <1>4 DEF vars, procs, files
  <2> QED BY <1>0, <2>1, HNobody
<1> QED BY <1>1, <1>2, <1>3, <1>4 DEF Next

\* What every process of a line has still to do fits what it has open, and
\* what the line means, whatever else runs and whatever fails.
THEOREM DescriptorsFollowTheLine == Spec => []HInv
<1>1. Init => HInv
  BY HInit
<1>2. HInv /\ [Next]_vars => HInv'
  BY HNext
<1> QED BY <1>1, <1>2, PTL DEF Spec

\* Every program that runcmd starts, for any line, has the input and the
\* output that the line gives it, the console as 2, and nothing else open.
THEOREM ProgramsAreWired == Spec => []Wiring
<1>1. HInv => Wiring
  <2> SUFFICES ASSUME HInv, NEW q \in Proc, running[q] # None
               PROVE  /\ [argv |-> running[q], in |-> what[ofile[q][0]],
                          out |-> what[ofile[q][1]]] \in Wire(tree(line), Console, Console)
                      /\ what[ofile[q][2]] = Console
                      /\ \A d \in Fd \ {0, 1, 2} : ofile[q][d] = 0
    BY DEF Wiring
  <2>1. Prog(Meaning, running[q], state[q], todo[q], Sees(q))
    BY HParts DEF ProgInv
  <2>2. PICK a \in Source, b \in Source :
          Sees(q) = Std(a, b) /\ [argv |-> running[q], in |-> a, out |-> b] \in Meaning
    BY <2>1 DEF Prog
  <2>3. 0 \in Fd /\ 1 \in Fd /\ 2 \in Fd
    BY Bounds DEF Fd
  <2>4. Sees(q)[0] = a /\ Sees(q)[1] = b /\ Sees(q)[2] = Console
    BY <2>2, FdsGet DEF Std
  <2>5. a # FD_NONE /\ b # FD_NONE /\ Console # FD_NONE
    BY SourceOpen
  <2>6. what[ofile[q][0]] = a /\ what[ofile[q][1]] = b /\ what[ofile[q][2]] = Console
    BY <2>3, <2>4, <2>5, HParts, ViewOpen
  <2>7. ASSUME NEW d \in Fd \ {0, 1, 2} PROVE ofile[q][d] = 0
    <3>1. Sees(q)[d] = FD_NONE
      BY <2>2 DEF Std, Fds
    <3> QED BY <3>1, HParts, ViewOpen
  <2> QED BY <2>2, <2>6, <2>7 DEF Meaning
<1> QED BY <1>1, DescriptorsFollowTheLine, PTL
=============================================================================
