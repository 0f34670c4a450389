---------------------------- MODULE InodesProofs ----------------------------
(***************************************************************************)
(* Proofs about Inodes, for every number of processes, inodes, entries of  *)
(* the cache and descriptors, every set of names and paths and every bound *)
(* on the calls: reference counts are the pointers, the cache is exact,    *)
(* and, unless ".." of a removed directory is followed, no inode in use is *)
(* free and link counts are the names.                                     *)
(***************************************************************************)
EXTENDS Inodes, FiniteSetTheorems, SequenceTheorems, WellFoundedInduction,
        TLAPS

(***************************************************************************)
(* The inductive invariant: pointers, locks and the cache.                 *)
(***************************************************************************)

\* Which of w and ip a process has at each point of a call (a and b), and how
\* many inodes it has still to put (q) and names to look up (l).
CallAt(c, r, l, a, b, q, h) ==
  /\ a # None <=> c \in {"walk", "at", "init", "unlink", "refused"}
  /\ c \in {"init", "exists", "created", "unlink", "drop", "bad"} => b # None
  /\ c \in {"user", "end"} => b = None
  /\ c \notin {"user", "end"} => r \in [op : Ops, new : Path]
  /\ b # None /\ c \in {"walk", "at", "refused", "bad"} => r.op = "link"
  /\ c \in {"user", "at", "init", "unlink"} => q = << >>
  /\ Len(q) <= 2 /\ (c # "end" => Len(q) <= 1)
  /\ h # "no" => q # << >>
  /\ c \in {"init", "unlink"} => Len(l) = 1
  /\ c = "at" /\ (r.op \in ParentOps \cup {"unlink"} \/ b # None) => Len(l) = 1
CallInv == \A p \in Process : CallAt(pc[p], req[p], path[p], w[p], ip[p], puts[p], iph[p])

\* The locks that a process holds.
InIput(q, h, s) == h \in {"free", "invalid"} /\ s = Head(q)
InCall(c, a, b, s) ==
  \/ c \in {"init", "unlink", "refused"} /\ s = a
  \/ c \in {"created", "drop"} /\ s = b
LocksOf(p, c, a, b, q, h, s) ==
  /\ lock[s] = p <=> InIput(q, h, s) \/ InCall(c, a, b, s)
  /\ ~(InIput(q, h, s) /\ InCall(c, a, b, s))
LockInv ==
  \A p \in Process : \A s \in Slot : LocksOf(p, pc[p], w[p], ip[p], puts[p], iph[p], s)

RefInv == \A s \in Slot : icache[s].ref = Cardinality(Refs(s))

\* The entries whose inode iput has freed without clearing valid yet.
Inval == {s \in Slot : \E p \in Process : iph[p] = "invalid" /\ s = Head(puts[p])}

\* An entry of the cache c that is in use has an inode of its own, and is a copy
\* of it even while it is locked, except that once iput has freed the inode
\* ialloc may already have given it to somebody else.
Agrees(e, dt, dn) == e.type = dt[e.inum] /\ e.type # "free" /\ e.nlink = dn[e.inum]
Exact(c, dt, dn, S) ==
  \A s \in Slot : c[s].ref > 0 =>
    /\ c[s].inum \in Inum
    /\ \A t \in Slot : c[t].ref > 0 /\ c[t].inum = c[s].inum => t = s
    /\ c[s].valid /\ s \notin S => Agrees(c[s], dt, dn)
LockedValid(c, lk) == \A s \in Slot : lk[s] # None => c[s].valid
CacheInv == Exact(icache, dtype, dnlink, Inval) /\ LockedValid(icache, lock)

PInv == TypeOK /\ CallInv /\ LockInv /\ RefInv /\ CacheInv

(***************************************************************************)
(* The inductive invariant: names, link counts and types.                  *)
(***************************************************************************)

\* Links of i that are counted before the name is there, or after it is gone.
Owes(p) == ip[p] # None /\ pc[p] \in {"walk", "at", "refused", "bad", "drop"}
Pending(i) == {p \in Process : Owes(p) /\ icache[ip[p]].inum = i}

\* The names in i that name directories: each has a ".." that counts.
Subdirs(i) == {n \in Name : dent[i][n] # 0 /\ dtype[dent[i][n]] = "dir"}
Links(i) == Named(i) + Cardinality(Subdirs(i)) + Cardinality(Pending(i))

LinkInv ==
  \A i \in Inum : dnlink[i] >= Links(i) /\ (i \notin stray => dnlink[i] = Links(i))

\* Only directories have entries and "..", a name is that of an inode which is
\* allocated, and a directory has one name at most, in the directory of "..".
TreeOf(i) ==
  /\ Entries(i) # {} => dtype[i] # "free"
  /\ dtype[i] # "dir" => dent[i] = NoEntries /\ dotdot[i] = 0
  /\ dtype[i] = "free" => dnlink[i] = 0
  /\ dtype[i] = "dir" => \A x, y \in Entries(i) : x = y
  /\ dtype[i] = "dir" => \A x \in Entries(i) : x[1] = dotdot[i] /\ x[1] # i
  /\ Named(i) = 0 => \A n \in Name : dent[i][n] # 0 => dent[i][n] \in stray
TreeInv ==
  /\ \A i \in Inum : TreeOf(i)
  /\ dtype[ROOTINO] = "dir" /\ dotdot[ROOTINO] = ROOTINO /\ Entries(ROOTINO) = {}

\* The inode of the entry s.
I(s) == icache[s].inum

\* What processes rely on: an inode that is wanted is allocated, iput frees one
\* that nobody else has, create has the new one for itself, link has a file
\* and unlink the inode of the name.
UseOf(p) ==
  /\ \A s \in Wanted(p) : dtype[I(s)] # "free"
  /\ pc[p] \in {"init", "unlink", "refused"} \/ (pc[p] = "at" /\ wants_parent(p)) =>
       dtype[I(w[p])] = "dir"
  /\ iph[p] = "free" =>
       icache[Head(puts[p])].ref = 1 /\ icache[Head(puts[p])].nlink = 0
  /\ pc[p] = "init" =>
       /\ req[p].op \in ParentOps /\ dtype[I(ip[p])] = new_type(p)
       /\ dnlink[I(ip[p])] = 0 /\ dent[I(ip[p])] = NoEntries /\ dotdot[I(ip[p])] = 0
       /\ ip[p] # w[p] /\ ip[p] # cwd[p] /\ \A k \in Fd : ip[p] # files[p][k]
       /\ \A q \in Process \ {p} : ip[p] \notin Wanted(q)
       /\ Head(path[p]) \in Name /\ dent[I(w[p])][Head(path[p])] = 0
  /\ pc[p] = "unlink" =>
       Head(path[p]) \in Name /\ dent[I(w[p])][Head(path[p])] = I(ip[p])
  /\ Owes(p) /\ pc[p] # "drop" => dtype[I(ip[p])] # "dir"
UseInv == \A p \in Process : UseOf(p)

NInv == PInv /\ LinkInv /\ TreeInv /\ UseInv

-----------------------------------------------------------------------------
(* Counting pointers *)

Hit(x, t) == IF x = t THEN 1 ELSE 0

LEMMA Bounds == NINODE \in Nat /\ NINODE > 0 /\ NInum \in Nat /\ NInum > 0 /\ MaxOpen \in Nat
                /\ None \notin Slot /\ None \notin Process /\ ROOTINO \in Inum
                /\ 1 \in Slot /\ Slot \subseteq Nat /\ Inum \subseteq Nat \ {0}
  BY InodesAssumption DEF Slot, Inum, ROOTINO

\* The number of places with t changes with the one place that changes.
Count(D, T, t) == Cardinality({d \in D : T[d] = t})
SameBut(D, T, U, X) == \A d \in D : d \notin X => U[d] = T[d]

LEMMA CountChange ==
  ASSUME NEW D, IsFiniteSet(D), NEW T, NEW U, NEW x \in D, NEW t,
         SameBut(D, T, U, {x})
  PROVE  /\ Count(D, U, t) = Count(D, T, t) + Hit(U[x], t) - Hit(T[x], t)
         /\ Count(D, T, t) \in Nat
<1>0. \A d \in D : d # x => U[d] = T[d]
  BY DEF SameBut
<1> DEFINE A == {d \in D : T[d] = t}
           B == {d \in D : U[d] = t}
           C == {d \in D \ {x} : T[d] = t}
<1>1. IsFiniteSet(A) /\ IsFiniteSet(B) /\ IsFiniteSet(C)
  BY FS_Subset
<1>2. Cardinality(A) \in Nat /\ Cardinality(C) \in Nat
  BY <1>1, FS_CardinalityType
<1>3. x \notin C
  OBVIOUS
<1>4. Cardinality(C \cup {x}) = Cardinality(C) + 1
  BY <1>1, <1>3, FS_AddElement
<1>5. Cardinality(A) = Cardinality(C) + Hit(T[x], t)
  <2>1. CASE T[x] = t
    <3>1. A = C \cup {x}
      BY <2>1
    <3> QED BY <1>4, <2>1, <3>1 DEF Hit
  <2>2. CASE T[x] # t
    <3>1. A = C
      BY <2>2
    <3> QED BY <1>2, <2>2, <3>1 DEF Hit
  <2> QED BY <2>1, <2>2
<1>6. Cardinality(B) = Cardinality(C) + Hit(U[x], t)
  <2>1. CASE U[x] = t
    <3>1. B = C \cup {x}
      BY <1>0, <2>1
    <3> QED BY <1>4, <2>1, <3>1 DEF Hit
  <2>2. CASE U[x] # t
    <3>1. B = C
      BY <1>0, <2>2
    <3> QED BY <1>2, <2>2, <3>1 DEF Hit
  <2> QED BY <2>1, <2>2
<1>7. Hit(T[x], t) \in {0, 1} /\ Hit(U[x], t) \in {0, 1}
  BY DEF Hit
<1> HIDE DEF A, B, C
<1>8. Cardinality(B) = Cardinality(A) + Hit(U[x], t) - Hit(T[x], t)
  BY <1>2, <1>5, <1>6, <1>7
<1> QED BY <1>2, <1>8 DEF A, B, Count

LEMMA FinitePlaces == IsFiniteSet(Process \X Place)
<1>1. IsFiniteSet({"cwd", "w", "ip"} \X {0})
  <2>1. IsFiniteSet({"cwd", "w", "ip"}) /\ IsFiniteSet({0})
    <3>1. IsFiniteSet({}) 
      BY FS_EmptySet
    <3>2. IsFiniteSet({} \cup {"cwd"}) /\ IsFiniteSet({} \cup {0})
      BY <3>1, FS_AddElement
    <3>3. IsFiniteSet(({} \cup {"cwd"}) \cup {"w"})
      BY <3>2, FS_AddElement
    <3>4. IsFiniteSet((({} \cup {"cwd"}) \cup {"w"}) \cup {"ip"})
      BY <3>3, FS_AddElement
    <3>5. (({} \cup {"cwd"}) \cup {"w"}) \cup {"ip"} = {"cwd", "w", "ip"} /\ {} \cup {0} = {0}
      OBVIOUS
    <3> QED BY <3>2, <3>4, <3>5
  <2> QED BY <2>1, FS_Product
<1>2. IsFiniteSet({"put"} \X {1, 2})
  <2>1. IsFiniteSet({"put"}) /\ IsFiniteSet({1, 2})
    <3>1. IsFiniteSet({} \cup {"put"}) /\ IsFiniteSet({} \cup {1})
      BY FS_EmptySet, FS_AddElement
    <3>2. IsFiniteSet(({} \cup {1}) \cup {2})
      BY <3>1, FS_AddElement
    <3>3. ({} \cup {1}) \cup {2} = {1, 2} /\ {} \cup {"put"} = {"put"}
      OBVIOUS
    <3> QED BY <3>1, <3>2, <3>3
  <2> QED BY <2>1, FS_Product
<1>3. IsFiniteSet({"fd"} \X Fd)
  <2>1. IsFiniteSet({} \cup {"fd"}) /\ {} \cup {"fd"} = {"fd"}
    BY FS_EmptySet, FS_AddElement
  <2>2. IsFiniteSet(Fd)
    BY Bounds, FS_Interval DEF Fd
  <2> QED BY <2>1, <2>2, FS_Product
<1>4. IsFiniteSet(Place)
  BY <1>1, <1>2, <1>3, FS_Union DEF Place
<1> QED BY <1>4, InodesAssumption, FS_Product

\* What the pointers of a process are.
PutOf(q, k) == IF k <= Len(q) THEN q[Len(q) + 1 - k] ELSE None

LEMMA PutsNone == PutOf(<< >>, 1) = None /\ PutOf(<< >>, 2) = None
  BY DEF PutOf

LEMMA PutsOne ==
  ASSUME NEW s PROVE PutOf(<<s>>, 1) = s /\ PutOf(<<s>>, 2) = None
  BY DEF PutOf

LEMMA PutsTwo ==
  ASSUME NEW s, NEW t PROVE PutOf(<<s, t>>, 1) = t /\ PutOf(<<s, t>>, 2) = s
  BY DEF PutOf

LEMMA NotEmpty ==
  \A q \in Seq(Slot) : Len(q) \in Nat /\ (q # << >> <=> Len(q) >= 1)
<1>1. \A q \in Seq(Slot) : (q # << >>) => (Len(q) \in Nat \ {0})
  BY EmptySeq
<1>2. Len(<< >>) = 0
  BY EmptySeq
<1>3. \A q \in Seq(Slot) : Len(q) \in Nat
  BY LenProperties
<1> QED BY <1>1, <1>2, <1>3

LEMMA OneOrTwo ==
  \A n \in Nat : /\ n >= 1 /\ n <= 2 => n \in {1, 2}
                 /\ n = 1 => ~(n - 1 >= 1)
  OBVIOUS

\* The first inode to put, and the others after it.
LEMMA PutsTail ==
  ASSUME NEW q \in Seq(Slot), q # << >>, Len(q) <= 2
  PROVE  /\ Head(q) \in Slot /\ Tail(q) \in Seq(Slot) /\ Len(Tail(q)) = Len(q) - 1
         /\ Len(q) = 1 => PutOf(q, 1) = Head(q) /\ PutOf(q, 2) = None /\ Tail(q) = << >>
                          /\ PutOf(Tail(q), 1) = None
         /\ Len(q) = 2 => PutOf(q, 2) = Head(q) /\ PutOf(Tail(q), 1) = PutOf(q, 1)
         /\ PutOf(Tail(q), 2) = None
         /\ Len(q) \in {1, 2}
<1>0. Len(q) \in Nat /\ Len(q) >= 1
  BY NotEmpty, Zenon
<1>1. Len(q) \in {1, 2}
  BY <1>0, OneOrTwo, Zenon
<1>2. Head(q) = q[1] /\ q[1] \in Slot /\ Tail(q) \in Seq(Slot) /\ Len(Tail(q)) = Len(q) - 1
  BY HeadTailProperties, <1>1
<1>3. \A k \in 1 .. Len(q) - 1 : Tail(q)[k] = q[k + 1]
  BY HeadTailProperties
<1>4. Len(q) = 1 => Tail(q) = << >>
  <2>1. Len(q) = 1 => ~(Len(Tail(q)) >= 1)
    BY <1>0, <1>2, OneOrTwo, Zenon
  <2> QED BY <1>2, <2>1, NotEmpty, Zenon
<1> QED BY <1>1, <1>2, <1>3, <1>4 DEF PutOf

LEMMA Kinds ==
  ASSUME NEW p
  PROVE  /\ pointer(p, <<"cwd", 0>>) = cwd[p] /\ pointer(p, <<"w", 0>>) = w[p]
         /\ pointer(p, <<"ip", 0>>) = ip[p]
         /\ \A k : pointer(p, <<"put", k>>) = PutOf(puts[p], k)
         /\ \A k : pointer(p, <<"fd", k>>) = files[p][k]
  BY DEF pointer, PutOf

\* T and U differ at five places at most.
FiveDiffer(D, T, U, a, b, c, d, e) ==
  /\ a \in D /\ b \in D /\ c \in D /\ d \in D /\ e \in D
  /\ a # b /\ a # c /\ a # d /\ a # e /\ b # c /\ b # d /\ b # e /\ c # d /\ c # e /\ d # e
  /\ \A x \in D : x \notin {a, b, c, d, e} => U[x] = T[x]

LEMMA CountFive ==
  ASSUME NEW D, IsFiniteSet(D), NEW T, NEW U, NEW t,
         NEW a, NEW b, NEW c, NEW d, NEW e, FiveDiffer(D, T, U, a, b, c, d, e)
  PROVE  Count(D, U, t) = Count(D, T, t)
           + (Hit(U[a], t) + Hit(U[b], t) + Hit(U[c], t) + Hit(U[d], t) + Hit(U[e], t))
           - (Hit(T[a], t) + Hit(T[b], t) + Hit(T[c], t) + Hit(T[d], t) + Hit(T[e], t))
<1>0. a \in D /\ b \in D /\ c \in D /\ d \in D /\ e \in D
  BY DEF FiveDiffer
<1> DEFINE A == [x \in D |-> IF x = a THEN U[x] ELSE T[x]]
           B == [x \in D |-> IF x \in {a, b} THEN U[x] ELSE T[x]]
           C == [x \in D |-> IF x \in {a, b, c} THEN U[x] ELSE T[x]]
           E == [x \in D |-> IF x \in {a, b, c, d} THEN U[x] ELSE T[x]]
<1>1. Count(D, A, t) = Count(D, T, t) + Hit(U[a], t) - Hit(T[a], t) /\ Count(D, T, t) \in Nat
  <2>1. A[a] = U[a] /\ SameBut(D, T, A, {a})
    BY DEF SameBut, FiveDiffer
  <2> HIDE DEF A, B, C, E
  <2>2. /\ Count(D, A, t) = Count(D, T, t) + Hit(A[a], t) - Hit(T[a], t)
        /\ Count(D, T, t) \in Nat
    BY <1>0, <2>1, CountChange
  <2> QED BY <2>1, <2>2
<1>2. Count(D, B, t) = Count(D, A, t) + Hit(U[b], t) - Hit(T[b], t) /\ Count(D, A, t) \in Nat
  <2>1. B[b] = U[b] /\ A[b] = T[b] /\ SameBut(D, A, B, {b})
    BY DEF SameBut, FiveDiffer
  <2> HIDE DEF A, B, C, E
  <2>2. /\ Count(D, B, t) = Count(D, A, t) + Hit(B[b], t) - Hit(A[b], t)
        /\ Count(D, A, t) \in Nat
    BY <1>0, <2>1, CountChange
  <2> QED BY <2>1, <2>2
<1>3. Count(D, C, t) = Count(D, B, t) + Hit(U[c], t) - Hit(T[c], t) /\ Count(D, B, t) \in Nat
  <2>1. C[c] = U[c] /\ B[c] = T[c] /\ SameBut(D, B, C, {c})
    BY DEF SameBut, FiveDiffer
  <2> HIDE DEF A, B, C, E
  <2>2. /\ Count(D, C, t) = Count(D, B, t) + Hit(C[c], t) - Hit(B[c], t)
        /\ Count(D, B, t) \in Nat
    BY <1>0, <2>1, CountChange
  <2> QED BY <2>1, <2>2
<1>4. Count(D, E, t) = Count(D, C, t) + Hit(U[d], t) - Hit(T[d], t) /\ Count(D, C, t) \in Nat
  <2>1. E[d] = U[d] /\ C[d] = T[d] /\ SameBut(D, C, E, {d})
    BY DEF SameBut, FiveDiffer
  <2> HIDE DEF A, B, C, E
  <2>2. /\ Count(D, E, t) = Count(D, C, t) + Hit(E[d], t) - Hit(C[d], t)
        /\ Count(D, C, t) \in Nat
    BY <1>0, <2>1, CountChange
  <2> QED BY <2>1, <2>2
<1>5. Count(D, U, t) = Count(D, E, t) + Hit(U[e], t) - Hit(T[e], t) /\ Count(D, E, t) \in Nat
  <2>1. E[e] = T[e] /\ SameBut(D, E, U, {e})
    BY DEF SameBut, FiveDiffer
  <2> HIDE DEF A, B, C, E
  <2>2. /\ Count(D, U, t) = Count(D, E, t) + Hit(U[e], t) - Hit(E[e], t)
        /\ Count(D, E, t) \in Nat
    BY <1>0, <2>1, CountChange
  <2> QED BY <2>1, <2>2
<1>6. \A x : Hit(U[x], t) \in Nat /\ Hit(T[x], t) \in Nat
  BY DEF Hit
<1> HIDE DEF A, B, C, E
<1>7. Count(D, U, t) = Count(D, T, t)
           + (Hit(U[a], t) + Hit(U[b], t) + Hit(U[c], t) + Hit(U[d], t) + Hit(U[e], t))
           - (Hit(T[a], t) + Hit(T[b], t) + Hit(T[c], t) + Hit(T[d], t) + Hit(T[e], t))
  BY <1>1, <1>2, <1>3, <1>4, <1>5, <1>6
<1> QED BY <1>7

\* What a step of p leaves alone of the process q.
Same(q) ==
  /\ pc'[q] = pc[q] /\ req'[q] = req[q] /\ path'[q] = path[q] /\ w'[q] = w[q]
  /\ ip'[q] = ip[q] /\ puts'[q] = puts[q] /\ iph'[q] = iph[q] /\ cwd'[q] = cwd[q]
  /\ files'[q] = files[q]

\* Pointers of p to t other than open files.
Holds(p, t) ==
  Hit(cwd[p], t) + Hit(w[p], t) + Hit(ip[p], t)
    + Hit(PutOf(puts[p], 1), t) + Hit(PutOf(puts[p], 2), t)

\* A step of p changes the pointers to t by those of p; f and k are for the
\* descriptor that changes, if one does.
LEMMA CountStep ==
  ASSUME NEW p \in Process, \A q \in Process \ {p} : Same(q), NEW t,
         NEW F, F \subseteq Fd, \A k \in Fd \ F : files'[p][k] = files[p][k],
         F = {} \/ \E k \in Fd : F = {k}
  PROVE  /\ Cardinality(Refs(t)) \in Nat
         /\ F = {} => Cardinality(Refs(t)') = Cardinality(Refs(t)) + Holds(p, t)' - Holds(p, t)
         /\ \A k \in Fd : F = {k} =>
              Cardinality(Refs(t)') = Cardinality(Refs(t)) + Holds(p, t)' - Holds(p, t)
                 + Hit(files'[p][k], t) - Hit(files[p][k], t)
<1> DEFINE D == Process \X Place
           T == [x \in D |-> pointer(x[1], x[2])]
           U == [x \in D |-> pointer(x[1], x[2])']
           V == [x \in D |-> IF x[2][1] = "fd" THEN T[x] ELSE U[x]]
           a == <<p, <<"cwd", 0>>>>
           b == <<p, <<"w", 0>>>>
           c == <<p, <<"ip", 0>>>>
           d == <<p, <<"put", 1>>>>
           e == <<p, <<"put", 2>>>>
<1>0. IsFiniteSet(D)
  BY FinitePlaces
<1>1. a \in D /\ b \in D /\ c \in D /\ d \in D /\ e \in D
  BY DEF Place
<1>2. a # b /\ a # c /\ a # d /\ a # e /\ b # c /\ b # d /\ b # e /\ c # d /\ c # e /\ d # e
  OBVIOUS
<1>3. ASSUME NEW x \in D
      PROVE  /\ x[1] \in Process /\ x = <<x[1], x[2]>> /\ x[2] \in Place
             /\ \/ x[2] \in {<<"cwd", 0>>, <<"w", 0>>, <<"ip", 0>>, <<"put", 1>>, <<"put", 2>>}
                   /\ x[2][1] # "fd"
                \/ \E k \in Fd : x[2] = <<"fd", k>> /\ x[2][1] = "fd"
  BY DEF Place
<1>4. ASSUME NEW x \in D, x[1] # p PROVE U[x] = T[x]
  BY <1>3, <1>4 DEF pointer, Same
<1>5a. ASSUME NEW x \in D, x \notin {a, b, c, d, e} PROVE V[x] = T[x]
  <2>1. CASE x[1] = p
    <3>1. x[2][1] = "fd"
      BY <1>3, <1>5a, <2>1
    <3> QED BY <3>1
  <2>2. CASE x[1] # p
    BY <1>4, <1>5a, <2>2
  <2> QED BY <2>1, <2>2
<1>5. FiveDiffer(D, T, V, a, b, c, d, e)
  BY <1>1, <1>2, <1>5a DEF FiveDiffer
<1>6. /\ T[a] = cwd[p] /\ T[b] = w[p] /\ T[c] = ip[p]
      /\ T[d] = PutOf(puts[p], 1) /\ T[e] = PutOf(puts[p], 2)
  BY <1>1, Kinds
<1>7. /\ V[a] = cwd'[p] /\ V[b] = w'[p] /\ V[c] = ip'[p]
      /\ V[d] = PutOf(puts'[p], 1) /\ V[e] = PutOf(puts'[p], 2)
  <2>1. V[a] = U[a] /\ V[b] = U[b] /\ V[c] = U[c] /\ V[d] = U[d] /\ V[e] = U[e]
    BY <1>1
  <2>2. /\ U[a] = cwd'[p] /\ U[b] = w'[p] /\ U[c] = ip'[p]
        /\ U[d] = PutOf(puts'[p], 1) /\ U[e] = PutOf(puts'[p], 2)
    BY <1>1 DEF pointer, PutOf
  <2> QED BY <2>1, <2>2
<1>8. Count(D, V, t) = Count(D, T, t) + Holds(p, t)' - Holds(p, t)
  <2>1. Count(D, V, t) = Count(D, T, t)
           + (Hit(V[a], t) + Hit(V[b], t) + Hit(V[c], t) + Hit(V[d], t) + Hit(V[e], t))
           - (Hit(T[a], t) + Hit(T[b], t) + Hit(T[c], t) + Hit(T[d], t) + Hit(T[e], t))
    <3> HIDE DEF D, T, V, a, b, c, d, e
    <3> QED BY <1>0, <1>5, CountFive
  <2> HIDE DEF D, T, V, a, b, c, d, e
  <2> QED BY <1>6, <1>7, <2>1 DEF Holds
<1>9. Cardinality(Refs(t)) = Count(D, T, t) /\ Cardinality(Refs(t)') = Count(D, U, t)
  <2>1. Refs(t) = {x \in D : T[x] = t}
    BY DEF Refs
  <2>2. Refs(t)' = {x \in D : U[x] = t}
    BY DEF Refs
  <2> QED BY <2>1, <2>2 DEF Count
<1>10. Count(D, T, t) \in Nat
  <2> HIDE DEF D, T
  <2> QED BY <1>0, FS_Subset, FS_CardinalityType DEF Count
<1>11. CASE F = {}
  <2>1. U = V
    <3>1. ASSUME NEW x \in D PROVE U[x] = V[x]
      <4>1. CASE x[1] = p /\ x[2][1] = "fd"
        BY <1>3, <1>11, <4>1 DEF pointer
      <4>2. CASE x[1] # p
        BY <1>4, <4>2
      <4>3. CASE x[2][1] # "fd"
        BY <4>3
      <4> QED BY <4>1, <4>2, <4>3
    <3> QED BY <3>1
  <2>2. ~ \E k \in Fd : F = {k}
    BY <1>11
  <2> HIDE DEF D, U, V, T
  <2> QED BY <1>8, <1>9, <1>10, <2>1, <2>2
<1>12. ASSUME NEW k \in Fd, F = {k}
       PROVE  Cardinality(Refs(t)') = Cardinality(Refs(t)) + Holds(p, t)' - Holds(p, t)
                 + Hit(files'[p][k], t) - Hit(files[p][k], t)
  <2> DEFINE f == <<p, <<"fd", k>>>>
  <2>1. f \in D
    BY DEF Place
  <2>2. U[f] = files'[p][k] /\ V[f] = files[p][k]
    BY <2>1 DEF pointer
  <2>3. ASSUME NEW x \in D, x # f PROVE U[x] = V[x]
    <3>1. CASE x[1] = p /\ x[2][1] = "fd"
      BY <1>3, <1>12, <2>3, <3>1 DEF pointer
    <3>2. CASE x[1] # p
      BY <1>4, <2>3, <3>2
    <3>3. CASE x[2][1] # "fd"
      BY <2>3, <3>3
    <3> QED BY <3>1, <3>2, <3>3
  <2>3a. SameBut(D, V, U, {f})
    BY <2>3 DEF SameBut
  <2>4. Count(D, U, t) = Count(D, V, t) + Hit(U[f], t) - Hit(V[f], t)
    <3> HIDE DEF D, U, V, f
    <3> QED BY <1>0, <2>1, <2>3a, CountChange
  <2>5. Holds(p, t) \in Nat /\ Holds(p, t)' \in Nat
    BY DEF Holds, Hit
  <2>6. Hit(files'[p][k], t) \in Nat /\ Hit(files[p][k], t) \in Nat
    BY DEF Hit
  <2> HIDE DEF D, U, V, T, f
  <2> QED BY <1>8, <1>9, <1>10, <2>2, <2>4, <2>5, <2>6
<1> QED BY <1>9, <1>10, <1>11, <1>12

-----------------------------------------------------------------------------
(* A step of one process *)

\* What the variables of a process may be.
Typed(c, r, l, a, b, q, h, d, f) ==
  /\ c \in Points /\ r \in [op : Ops, new : Path] \cup {None}
  /\ l \in Seq(Name \cup {".", ".."})
  /\ a \in Slot \cup {None} /\ b \in Slot \cup {None} /\ q \in Seq(Slot)
  /\ h \in {"no", "free", "invalid", "drop"} /\ d \in Slot
  /\ f \in [Fd -> Slot \cup {None}]

\* What a step of p makes of them.
Goes(p, c, r, l, a, b, q, h, d, f) ==
  /\ pc' = [pc EXCEPT ![p] = c] /\ req' = [req EXCEPT ![p] = r]
  /\ path' = [path EXCEPT ![p] = l]
  /\ w' = [w EXCEPT ![p] = a] /\ ip' = [ip EXCEPT ![p] = b]
  /\ puts' = [puts EXCEPT ![p] = q] /\ iph' = [iph EXCEPT ![p] = h]
  /\ cwd' = [cwd EXCEPT ![p] = d] /\ files' = [files EXCEPT ![p] = f]

\* The types of what is not a process's own.
SharedTypes ==
  /\ dtype \in [Inum -> Types] /\ dnlink \in [Inum -> Int]
  /\ dent \in [Inum -> [Name -> Inum \cup {0}]]
  /\ dotdot \in [Inum -> Inum \cup {0}]
  /\ icache \in [Slot -> Entry]
  /\ lock \in [Slot -> Process \cup {None}]
  /\ calls \in Nat /\ stray \subseteq Inum

LEMMA Stays ==
  ASSUME TypeOK, NEW p \in Process
  PROVE  /\ pc = [pc EXCEPT ![p] = pc[p]] /\ req = [req EXCEPT ![p] = req[p]]
         /\ path = [path EXCEPT ![p] = path[p]]
         /\ w = [w EXCEPT ![p] = w[p]] /\ ip = [ip EXCEPT ![p] = ip[p]]
         /\ puts = [puts EXCEPT ![p] = puts[p]] /\ iph = [iph EXCEPT ![p] = iph[p]]
         /\ cwd = [cwd EXCEPT ![p] = cwd[p]] /\ files = [files EXCEPT ![p] = files[p]]
  BY DEF TypeOK

LEMMA TypedNow ==
  ASSUME TypeOK, NEW p \in Process
  PROVE  Typed(pc[p], req[p], path[p], w[p], ip[p], puts[p], iph[p], cwd[p], files[p])
  BY DEF TypeOK, Typed

LEMMA Went ==
  ASSUME TypeOK, NEW p \in Process, NEW c, NEW r, NEW l, NEW a, NEW b, NEW q, NEW h,
         NEW d, NEW f, Goes(p, c, r, l, a, b, q, h, d, f)
  PROVE  /\ pc'[p] = c /\ req'[p] = r /\ path'[p] = l /\ w'[p] = a /\ ip'[p] = b
         /\ puts'[p] = q /\ iph'[p] = h /\ cwd'[p] = d /\ files'[p] = f
         /\ \A o \in Process \ {p} : Same(o)
  BY DEF TypeOK, Goes, Same

LEMMA TypeStep ==
  ASSUME TypeOK, NEW p \in Process, NEW c, NEW r, NEW l, NEW a, NEW b, NEW q, NEW h,
         NEW d, NEW f, Goes(p, c, r, l, a, b, q, h, d, f), Typed(c, r, l, a, b, q, h, d, f),
         SharedTypes'
  PROVE  TypeOK'
<1>1. /\ pc' \in [Process -> Points]
      /\ req' \in [Process -> [op : Ops, new : Path] \cup {None}]
  BY DEF TypeOK, Goes, Typed
<1>2. /\ path' \in [Process -> Seq(Name \cup {".", ".."})]
      /\ puts' \in [Process -> Seq(Slot)]
  BY DEF TypeOK, Goes, Typed
<1>3. w' \in [Process -> Slot \cup {None}] /\ ip' \in [Process -> Slot \cup {None}]
  BY DEF TypeOK, Goes, Typed
<1>4. /\ iph' \in [Process -> {"no", "free", "invalid", "drop"}]
      /\ cwd' \in [Process -> Slot] /\ files' \in [Process -> [Fd -> Slot \cup {None}]]
  BY DEF TypeOK, Goes, Typed
<1> QED BY <1>1, <1>2, <1>3, <1>4, Zenon DEF TypeOK, SharedTypes

LEMMA CallStep ==
  ASSUME TypeOK, CallInv, NEW p \in Process, NEW c, NEW r, NEW l, NEW a, NEW b, NEW q,
         NEW h, NEW d, NEW f, Goes(p, c, r, l, a, b, q, h, d, f), CallAt(c, r, l, a, b, q, h)
  PROVE  CallInv'
<1>1. /\ pc'[p] = c /\ req'[p] = r /\ path'[p] = l /\ w'[p] = a /\ ip'[p] = b /\ puts'[p] = q /\ iph'[p] = h
      /\ \A o \in Process \ {p} : Same(o)
  BY Went
<1>2. \A o \in Process : CallAt(pc[o], req[o], path[o], w[o], ip[o], puts[o], iph[o])
  BY DEF CallInv
<1>3. ASSUME NEW o \in Process
      PROVE  CallAt(pc'[o], req'[o], path'[o], w'[o], ip'[o], puts'[o], iph'[o])
  <2>1. CASE o = p
    BY <1>1, <2>1
  <2>2. CASE o # p
    <3>1. /\ pc'[o] = pc[o] /\ req'[o] = req[o] /\ path'[o] = path[o] /\ w'[o] = w[o] /\ ip'[o] = ip[o]
          /\ puts'[o] = puts[o] /\ iph'[o] = iph[o]
      BY <1>1, <2>2 DEF Same
    <3> QED BY <1>2, <3>1
  <2> QED BY <2>1, <2>2
<1> QED BY <1>3 DEF CallInv

\* The locks that change are those of p.
OwnLocks(p) ==
  \A s \in Slot : lock'[s] # lock[s] => lock[s] \in {p, None} /\ lock'[s] \in {p, None}

LEMMA LockStep ==
  ASSUME TypeOK, LockInv, NEW p \in Process, NEW c, NEW r, NEW l, NEW a, NEW b, NEW q,
         NEW h, NEW d, NEW f, Goes(p, c, r, l, a, b, q, h, d, f), OwnLocks(p),
         \A s \in Slot : /\ lock'[s] = p <=> InIput(q, h, s) \/ InCall(c, a, b, s)
                         /\ ~(InIput(q, h, s) /\ InCall(c, a, b, s))
  PROVE  LockInv'
<1>1. /\ pc'[p] = c /\ w'[p] = a /\ ip'[p] = b /\ puts'[p] = q /\ iph'[p] = h
      /\ \A o \in Process \ {p} : Same(o)
  BY Went
<1>2. ASSUME NEW o \in Process, NEW s \in Slot
      PROVE  /\ lock[s] = o <=> InIput(puts[o], iph[o], s) \/ InCall(pc[o], w[o], ip[o], s)
             /\ ~(InIput(puts[o], iph[o], s) /\ InCall(pc[o], w[o], ip[o], s))
  BY DEF LockInv, LocksOf
<1>3. ASSUME NEW o \in Process, NEW s \in Slot
      PROVE  /\ lock'[s] = o <=> InIput(puts'[o], iph'[o], s) \/ InCall(pc'[o], w'[o], ip'[o], s)
             /\ ~(InIput(puts'[o], iph'[o], s) /\ InCall(pc'[o], w'[o], ip'[o], s))
  <2>1. CASE o = p
    BY <1>1, <2>1
  <2>2. CASE o # p
    <3>1. /\ pc'[o] = pc[o] /\ w'[o] = w[o] /\ ip'[o] = ip[o]
          /\ puts'[o] = puts[o] /\ iph'[o] = iph[o]
      BY <1>1, <2>2 DEF Same
    <3>2. lock'[s] = o <=> lock[s] = o
      BY <2>2, Bounds DEF OwnLocks
    <3> QED BY <1>2, <3>1, <3>2
  <2> QED BY <2>1, <2>2
<1> QED BY <1>3 DEF LockInv, LocksOf

\* Pointers to t, the descriptors aside.
HoldsAt(a, b, q, d, t) ==
  Hit(d, t) + Hit(a, t) + Hit(b, t) + Hit(PutOf(q, 1), t) + Hit(PutOf(q, 2), t)

LEMMA RefStep ==
  ASSUME TypeOK, RefInv, NEW p \in Process, NEW c, NEW r, NEW l, NEW a, NEW b, NEW q,
         NEW h, NEW d, Goes(p, c, r, l, a, b, q, h, d, files[p]),
         \A t \in Slot : icache'[t].ref = icache[t].ref + HoldsAt(a, b, q, d, t)
                                            - HoldsAt(w[p], ip[p], puts[p], cwd[p], t)
  PROVE  RefInv'
<1>1. /\ w'[p] = a /\ ip'[p] = b /\ puts'[p] = q /\ cwd'[p] = d /\ files'[p] = files[p]
      /\ \A o \in Process \ {p} : Same(o)
  BY Went
<1>2. ASSUME NEW t \in Slot
      PROVE  icache'[t].ref = Cardinality(Refs(t)')
  <2>1. \A k \in Fd \ {} : files'[p][k] = files[p][k]
    BY <1>1
  <2>2. Cardinality(Refs(t)') = Cardinality(Refs(t)) + Holds(p, t)' - Holds(p, t)
    BY <1>1, <2>1, CountStep
  <2>3. Holds(p, t) = HoldsAt(w[p], ip[p], puts[p], cwd[p], t)
    BY DEF Holds, HoldsAt
  <2>4. Holds(p, t)' = HoldsAt(a, b, q, d, t)
    BY <1>1 DEF Holds, HoldsAt
  <2>5. icache[t].ref = Cardinality(Refs(t))
    BY DEF RefInv
  <2> QED BY <2>2, <2>3, <2>4, <2>5
<1> QED BY <1>2 DEF RefInv

MoveRefs(p, a, b, q, d) ==
  \A t \in Slot : icache'[t].ref = icache[t].ref + HoldsAt(a, b, q, d, t)
                                            - HoldsAt(w[p], ip[p], puts[p], cwd[p], t)

LEMMA RefMove ==
  ASSUME TypeOK, RefInv, NEW p \in Process, NEW c, NEW r, NEW l, NEW a, NEW b, NEW q,
         NEW h, NEW d, Goes(p, c, r, l, a, b, q, h, d, files[p]), MoveRefs(p, a, b, q, d)
  PROVE  RefInv'
<1>1. \A t \in Slot : icache'[t].ref = icache[t].ref + HoldsAt(a, b, q, d, t)
                                            - HoldsAt(w[p], ip[p], puts[p], cwd[p], t)
  BY DEF MoveRefs
<1> QED BY <1>1, RefStep

\* The same for a step that changes the descriptor k.
FileRefs(p, a, b, q, d, k, x) ==
  \A t \in Slot : icache'[t].ref = icache[t].ref + HoldsAt(a, b, q, d, t)
                                            - HoldsAt(w[p], ip[p], puts[p], cwd[p], t)
                                            + Hit(x, t) - Hit(files[p][k], t)

LEMMA FileStep ==
  ASSUME TypeOK, RefInv, NEW p \in Process, NEW c, NEW r, NEW l, NEW a, NEW b, NEW q,
         NEW h, NEW d, NEW k \in Fd, NEW x, NEW f, f = [files[p] EXCEPT ![k] = x],
         Goes(p, c, r, l, a, b, q, h, d, f), FileRefs(p, a, b, q, d, k, x)
  PROVE  RefInv'
<1>1. /\ w'[p] = a /\ ip'[p] = b /\ puts'[p] = q /\ cwd'[p] = d /\ files'[p] = f
      /\ \A o \in Process \ {p} : Same(o)
  BY Went
<1>2. f[k] = x /\ \A j \in Fd \ {k} : f[j] = files[p][j]
  BY DEF TypeOK
<1>3. ASSUME NEW t \in Slot
      PROVE  icache'[t].ref = Cardinality(Refs(t)')
  <2>1. \A j \in Fd \ {k} : files'[p][j] = files[p][j]
    BY <1>1, <1>2
  <2>2. Cardinality(Refs(t)') = Cardinality(Refs(t)) + Holds(p, t)' - Holds(p, t)
                                  + Hit(files'[p][k], t) - Hit(files[p][k], t)
    BY <1>1, <2>1, CountStep
  <2>3. Holds(p, t) = HoldsAt(w[p], ip[p], puts[p], cwd[p], t)
    BY DEF Holds, HoldsAt
  <2>4. Holds(p, t)' = HoldsAt(a, b, q, d, t)
    BY <1>1 DEF Holds, HoldsAt
  <2>5. icache[t].ref = Cardinality(Refs(t)) /\ files'[p][k] = x
    BY <1>1, <1>2 DEF RefInv
  <2>6. icache'[t].ref = icache[t].ref + HoldsAt(a, b, q, d, t)
                                            - HoldsAt(w[p], ip[p], puts[p], cwd[p], t)
                                            + Hit(x, t) - Hit(files[p][k], t)
    BY DEF FileRefs
  <2> QED BY <2>2, <2>3, <2>4, <2>5, <2>6
<1> QED BY <1>3 DEF RefInv

LEMMA InvalStep ==
  ASSUME TypeOK, NEW p \in Process, NEW c, NEW r, NEW l, NEW a, NEW b, NEW q, NEW h,
         NEW d, NEW f, Goes(p, c, r, l, a, b, q, h, d, f)
  PROVE  /\ \A s \in Inval : s \in Inval' \/ (iph[p] = "invalid" /\ s = Head(puts[p]))
         /\ \A s \in Inval' : s \in Inval \/ (h = "invalid" /\ s = Head(q))
         /\ h = "invalid" /\ Head(q) \in Slot => Head(q) \in Inval'
<1>1. puts'[p] = q /\ iph'[p] = h /\ \A o \in Process \ {p} : Same(o)
  BY Went
<1>2. \A o \in Process \ {p} : puts'[o] = puts[o] /\ iph'[o] = iph[o]
  BY <1>1 DEF Same
<1> QED BY <1>1, <1>2 DEF Inval

-----------------------------------------------------------------------------
(* The cache *)

LEMMA LeastOf ==
  ASSUME NEW T \in SUBSET Nat, T # {}
  PROVE  Min(T) \in T
<1> DEFINE R == {ss \in Nat \X Nat : ss[1] < ss[2]}
<1>1. IsWellFoundedOn(R, Nat)
  BY NatLessThanWellFounded DEF OpToRel
<1>2. PICK x \in T : \A y \in T : ~(<<y, x>> \in R)
  <2> HIDE DEF R
  <2> QED BY <1>1, WFMin
<1>3. \A y \in T : ~(y < x)
  BY <1>2
<1>4. \A y \in T : x =< y
  BY <1>3
<1> QED BY <1>4 DEF Min

\* An entry that somebody has a pointer to is in use.
LEMMA Pointed ==
  ASSUME RefInv, NEW p \in Process, NEW l \in Place, NEW s \in Slot, pointer(p, l) = s
  PROVE  icache[s].ref \in Nat /\ icache[s].ref > 0
<1>1. IsFiniteSet(Refs(s))
  BY FinitePlaces, FS_Subset DEF Refs
<1>2. <<p, l>> \in Refs(s)
  BY DEF Refs
<1>3. Refs(s) # {}
  BY <1>2
<1>4. Cardinality(Refs(s)) \in Nat /\ Cardinality(Refs(s)) # 0
  BY <1>1, <1>3, FS_EmptySet, FS_CardinalityType
<1>5. icache[s].ref = Cardinality(Refs(s))
  BY DEF RefInv
<1> QED BY <1>4, <1>5

\* The inodes of a process are in use.
LEMMA InUseBy ==
  ASSUME TypeOK, CallInv, RefInv, CacheInv, NEW p \in Process, NEW s \in Slot,
         \/ s = w[p] \/ s = ip[p] \/ s = cwd[p] \/ (puts[p] # << >> /\ s = Head(puts[p]))
         \/ \E k \in Fd : s = files[p][k]
  PROVE  icache[s].ref \in Nat /\ icache[s].ref > 0 /\ icache[s].inum \in Inum
<1>1. PICK l \in Place : pointer(p, l) = s
  <2>1. CASE s = w[p]
    <3>1. <<"w", 0>> \in Place
      BY DEF Place
    <3> QED BY <2>1, <3>1, Kinds
  <2>2. CASE s = ip[p]
    <3>1. <<"ip", 0>> \in Place
      BY DEF Place
    <3> QED BY <2>2, <3>1, Kinds
  <2>3. CASE s = cwd[p]
    <3>1. <<"cwd", 0>> \in Place
      BY DEF Place
    <3> QED BY <2>3, <3>1, Kinds
  <2>4. CASE puts[p] # << >> /\ s = Head(puts[p])
    <3>1. <<"put", 1>> \in Place /\ <<"put", 2>> \in Place
      BY DEF Place
    <3>2. puts[p] \in Seq(Slot)
      BY DEF TypeOK
    <3>3. Len(puts[p]) <= 2
      BY DEF CallInv, CallAt
    <3>4. PutOf(puts[p], 1) = s \/ PutOf(puts[p], 2) = s
      BY <2>4, <3>2, <3>3, PutsTail
    <3> QED BY <3>1, <3>4, Kinds
  <2>5. CASE \E k \in Fd : s = files[p][k]
    <3>1. PICK k \in Fd : s = files[p][k]
      BY <2>5
    <3>2. <<"fd", k>> \in Place
      BY DEF Place
    <3> QED BY <3>1, <3>2, Kinds
  <2> QED BY <2>1, <2>2, <2>3, <2>4, <2>5
<1>2. icache[s].ref \in Nat /\ icache[s].ref > 0
  BY <1>1, Pointed
<1> QED BY <1>2 DEF CacheInv, Exact

\* A locked entry is in use.
LockedUsed(c, lk) == \A s \in Slot : lk[s] # None => c[s].ref > 0

LEMMA Locked ==
  ASSUME TypeOK, CallInv, LockInv, RefInv, CacheInv
  PROVE  LockedUsed(icache, lock)
<1>1. SUFFICES ASSUME NEW s \in Slot, lock[s] # None
               PROVE  icache[s].ref > 0
  BY DEF LockedUsed
<1>2. PICK p \in Process : lock[s] = p
  BY <1>1 DEF TypeOK
<1>3. InIput(puts[p], iph[p], s) \/ InCall(pc[p], w[p], ip[p], s)
  BY <1>2 DEF LockInv, LocksOf
<1>4. iph[p] # "no" => puts[p] # << >>
  BY DEF CallInv, CallAt
<1>5. s = w[p] \/ s = ip[p] \/ (puts[p] # << >> /\ s = Head(puts[p]))
  BY <1>3, <1>4 DEF InIput, InCall
<1> QED BY <1>5, InUseBy

\* Nobody frees the inode of an entry that is not locked, or that a call has
\* locked.
LEMMA NotInval ==
  ASSUME TypeOK, LockInv, NEW s \in Slot,
         \/ lock[s] = None
         \/ \E p \in Process : InCall(pc[p], w[p], ip[p], s)
  PROVE  s \notin Inval
<1>1. SUFFICES ASSUME NEW o \in Process, iph[o] = "invalid", s = Head(puts[o])
               PROVE  FALSE
  BY DEF Inval
<1>2. lock[s] = o
  BY <1>1 DEF LockInv, LocksOf, InIput
<1>3. lock[s] # None
  BY <1>2, Bounds
<1>4. PICK p \in Process : InCall(pc[p], w[p], ip[p], s)
  BY <1>3
<1>5. lock[s] = p
  BY <1>4 DEF LockInv, LocksOf
<1> QED BY <1>1, <1>2, <1>4, <1>5 DEF LockInv, LocksOf, InIput

\* What ilock does to the cache.
ReadFrom(c, dt, dn, s) ==
  [c EXCEPT ![s] = IF c[s].valid THEN c[s]
                   ELSE [c[s] EXCEPT !.valid = TRUE, !.type = dt[c[s].inum],
                                     !.nlink = dn[c[s].inum]]]

LEMMA ReadIs ==
  ASSUME NEW s
  PROVE  [icache EXCEPT ![s] = ilocked(s)] = ReadFrom(icache, dtype, dnlink, s)
  BY DEF ilocked, ReadFrom

\* The cache d differs from c in what it knows of s only.
Known(c, d, s) ==
  /\ d \in [Slot -> Entry]
  /\ \A t \in Slot : d[t].ref = c[t].ref /\ d[t].inum = c[t].inum
  /\ \A t \in Slot : t # s => d[t] = c[t]
  /\ d[s].valid

LEMMA Read ==
  ASSUME NEW c \in [Slot -> Entry], NEW dt \in [Inum -> Types], NEW dn \in [Inum -> Int],
         NEW lk, NEW S, NEW s \in Slot, c[s].inum \in Inum, s \notin S,
         ~c[s].valid => dt[c[s].inum] # "free",
         Exact(c, dt, dn, S), LockedValid(c, lk)
  PROVE  /\ Known(c, ReadFrom(c, dt, dn, s), s)
         /\ Exact(ReadFrom(c, dt, dn, s), dt, dn, S)
         /\ LockedValid(ReadFrom(c, dt, dn, s), lk)
         /\ c[s].ref > 0 => Agrees(ReadFrom(c, dt, dn, s)[s], dt, dn)
<1> DEFINE v == IF c[s].valid THEN c[s]
                ELSE [c[s] EXCEPT !.valid = TRUE, !.type = dt[c[s].inum],
                                  !.nlink = dn[c[s].inum]]
           d == [c EXCEPT ![s] = v]
<1>1. v \in Entry /\ v.ref = c[s].ref /\ v.inum = c[s].inum /\ v.valid
  BY DEF Entry
<1>2. ~c[s].valid => v.type = dt[c[s].inum] /\ v.nlink = dn[c[s].inum]
  BY DEF Entry
<1>3. c[s].valid => v = c[s]
  OBVIOUS
<1>4. ReadFrom(c, dt, dn, s) = d
  BY DEF ReadFrom
<1> HIDE DEF v
<1>5. d \in [Slot -> Entry] /\ d[s] = v /\ \A t \in Slot : t # s => d[t] = c[t]
  BY <1>1
<1> HIDE DEF d
<1>6. Known(c, d, s)
  BY <1>1, <1>5 DEF Known
<1>7. c[s].ref > 0 => Agrees(v, dt, dn)
  <2>1. c[s].ref > 0 /\ c[s].valid => Agrees(c[s], dt, dn)
    BY DEF Exact
  <2>2. ~c[s].valid => Agrees(v, dt, dn)
    BY <1>1, <1>2 DEF Agrees
  <2> QED BY <1>3, <2>1, <2>2
<1>8. Exact(d, dt, dn, S)
  <2>1. ASSUME NEW x \in Slot, d[x].ref > 0
        PROVE  /\ d[x].inum \in Inum
               /\ \A t \in Slot : d[t].ref > 0 /\ d[t].inum = d[x].inum => t = x
               /\ d[x].valid /\ x \notin S => Agrees(d[x], dt, dn)
    <3>1. \A t \in Slot : d[t].ref = c[t].ref /\ d[t].inum = c[t].inum
      BY <1>6 DEF Known
    <3>2. c[x].ref > 0
      BY <2>1, <3>1
    <3>3. /\ c[x].inum \in Inum
          /\ \A t \in Slot : c[t].ref > 0 /\ c[t].inum = c[x].inum => t = x
          /\ c[x].valid /\ x \notin S => Agrees(c[x], dt, dn)
      BY <3>2 DEF Exact
    <3>4. d[x].valid /\ x \notin S => Agrees(d[x], dt, dn)
      BY <1>5, <1>7, <3>2, <3>3
    <3> QED BY <3>1, <3>3, <3>4
  <2> QED BY <2>1 DEF Exact
<1>9. LockedValid(d, lk)
  BY <1>1, <1>5 DEF LockedValid
<1> QED BY <1>4, <1>5, <1>6, <1>7, <1>8, <1>9

\* What iget does to the cache.
Got(c, d, u, i) ==
  /\ u \in Slot /\ d \in [Slot -> Entry]
  /\ \A t \in Slot : d[t].ref = c[t].ref + Hit(u, t)
  /\ \A t \in Slot : t # u => d[t] = c[t]
  /\ d[u].inum = i
  /\ c[u].ref > 0 => /\ c[u].inum = i /\ d[u].valid = c[u].valid
                     /\ d[u].type = c[u].type /\ d[u].nlink = c[u].nlink
  /\ c[u].ref = 0 => ~d[u].valid /\ \A t \in Slot : c[t].ref > 0 => c[t].inum # i

LEMMA Gets ==
  ASSUME NEW c \in [Slot -> Entry], NEW i \in Inum, room(c, i)
  PROVE  Got(c, iget(c, i), iget_slot(c, i), i)
<1>0. \A t \in Slot : c[t] \in Entry /\ c[t].ref \in Nat
  BY DEF Entry
<1>1. CASE InUse(c, i) # {}
  <2>1. PICK u : u = iget_slot(c, i)
    OBVIOUS
  <2>2. u \in InUse(c, i)
    BY <1>1, <2>1 DEF iget_slot
  <2>3. u \in Slot /\ c[u].ref > 0 /\ c[u].inum = i
    BY <2>2 DEF InUse
  <2>4. PICK v : v = [c[u] EXCEPT !.ref = @ + 1]
    OBVIOUS
  <2>5. /\ v \in Entry /\ v.ref = c[u].ref + 1 /\ v.inum = c[u].inum /\ v.valid = c[u].valid
        /\ v.type = c[u].type /\ v.nlink = c[u].nlink
    BY <1>0, <2>3, <2>4 DEF Entry
  <2>6. PICK d : d = [c EXCEPT ![u] = v]
    OBVIOUS
  <2>7. iget(c, i) = d
    BY <1>1, <2>1, <2>4, <2>6 DEF iget
  <2>8. d \in [Slot -> Entry] /\ d[u] = v /\ \A t \in Slot : t # u => d[t] = c[t]
    BY <2>3, <2>5, <2>6
  <2>9. \A t \in Slot : d[t].ref = c[t].ref + Hit(u, t)
    BY <1>0, <2>3, <2>5, <2>8 DEF Hit
  <2> QED BY <2>1, <2>3, <2>5, <2>7, <2>8, <2>9 DEF Got
<1>2. CASE InUse(c, i) = {}
  <2>1. PICK u : u = iget_slot(c, i)
    OBVIOUS
  <2>2. u \in Slot /\ c[u].ref = 0
    <3> DEFINE Z == {s \in Slot : c[s].ref = 0}
    <3>1. Z \in SUBSET Nat /\ Z # {}
      BY <1>2, Bounds DEF room
    <3>2. u = Min(Z)
      BY <1>2, <2>1 DEF iget_slot
    <3>3. u \in Z
      BY <3>1, <3>2, LeastOf
    <3> QED BY <3>3
  <2>3. \A t \in Slot : c[t].ref > 0 => c[t].inum # i
    BY <1>2 DEF InUse
  <2>4. PICK v : v = recycled(c[u], i)
    OBVIOUS
  <2>5. v \in Entry /\ v.ref = 1 /\ v.inum = i /\ v.valid = FALSE
    BY <1>0, <2>2, <2>4 DEF Entry, recycled
  <2>6. PICK d : d = [c EXCEPT ![u] = v]
    OBVIOUS
  <2>7. iget(c, i) = d
    BY <1>2, <2>1, <2>4, <2>6 DEF iget
  <2>8. d \in [Slot -> Entry] /\ d[u] = v /\ \A t \in Slot : t # u => d[t] = c[t]
    BY <2>2, <2>5, <2>6
  <2>9. \A t \in Slot : d[t].ref = c[t].ref + Hit(u, t)
    BY <1>0, <2>2, <2>5, <2>8 DEF Hit
  <2> QED BY <2>1, <2>2, <2>3, <2>5, <2>7, <2>8, <2>9 DEF Got
<1> QED BY <1>1, <1>2

LEMMA Get ==
  ASSUME NEW c \in [Slot -> Entry], NEW dt, NEW dn, NEW lk, NEW S, NEW d, NEW u,
         NEW i \in Inum, Got(c, d, u, i),
         Exact(c, dt, dn, S), LockedValid(c, lk), LockedUsed(c, lk)
  PROVE  Exact(d, dt, dn, S) /\ LockedValid(d, lk) /\ LockedUsed(d, lk)
<1>0. \A t \in Slot : c[t].ref \in Nat /\ (c[t].ref > 0 \/ c[t].ref = 0)
  BY DEF Entry
<1>1. u \in Slot /\ d[u].inum = i /\ \A t \in Slot : t # u => d[t] = c[t]
  BY DEF Got
<1>2. ASSUME NEW x \in Slot, d[x].ref > 0
      PROVE  /\ d[x].inum \in Inum
             /\ \A t \in Slot : d[t].ref > 0 /\ d[t].inum = d[x].inum => t = x
             /\ d[x].valid /\ x \notin S => Agrees(d[x], dt, dn)
  <2>1. \A t \in Slot : t # u /\ d[t].ref > 0 => c[t].ref > 0
    BY <1>1
  <2>2. ASSUME NEW t \in Slot, t # u, c[t].ref > 0 PROVE c[t].inum # i
    BY <1>0, <1>1, <2>2 DEF Got, Exact
  <2>3. CASE x = u
    <3>1. d[x].valid /\ x \notin S => Agrees(d[x], dt, dn)
      <4>1. CASE c[u].ref = 0
        BY <2>3, <4>1 DEF Got
      <4>2. CASE c[u].ref > 0
        <5>1. /\ c[u].inum = i /\ d[u].valid = c[u].valid
              /\ d[u].type = c[u].type /\ d[u].nlink = c[u].nlink
          BY <4>2 DEF Got
        <5>2. c[u].valid /\ u \notin S => Agrees(c[u], dt, dn)
          BY <1>1, <4>2 DEF Exact
        <5> QED BY <1>1, <2>3, <5>1, <5>2 DEF Agrees
      <4> QED BY <1>0, <1>1, <4>1, <4>2
    <3> QED BY <1>1, <2>1, <2>2, <2>3, <3>1
  <2>4. CASE x # u
    <3>1. d[x] = c[x] /\ c[x].ref > 0
      BY <1>1, <1>2, <2>1, <2>4
    <3>2. /\ c[x].inum \in Inum
          /\ \A t \in Slot : c[t].ref > 0 /\ c[t].inum = c[x].inum => t = x
          /\ c[x].valid /\ x \notin S => Agrees(c[x], dt, dn)
      BY <3>1 DEF Exact
    <3>3. ASSUME NEW t \in Slot, d[t].ref > 0, d[t].inum = d[x].inum PROVE t = x
      BY <1>1, <2>1, <2>2, <2>4, <3>1, <3>2, <3>3
    <3> QED BY <3>1, <3>2, <3>3
  <2> QED BY <2>3, <2>4
<1>3. LockedValid(d, lk)
  BY <1>0, <1>1 DEF Got, LockedValid, LockedUsed
<1>4. LockedUsed(d, lk)
  <2>1. \A t \in Slot : d[t].ref = c[t].ref + Hit(u, t)
    BY DEF Got
  <2> QED BY <1>0, <2>1 DEF LockedUsed, Hit
<1> QED BY <1>2, <1>3, <1>4 DEF Exact

LEMMA Dups ==
  ASSUME NEW c \in [Slot -> Entry], NEW s \in Slot, c[s].ref > 0
  PROVE  Got(c, idup(c, s), s, c[s].inum)
<1>0. \A t \in Slot : c[t] \in Entry /\ c[t].ref \in Nat
  BY DEF Entry
<1>1. PICK v : v = [c[s] EXCEPT !.ref = @ + 1]
  OBVIOUS
<1>2. /\ v \in Entry /\ v.ref = c[s].ref + 1 /\ v.inum = c[s].inum /\ v.valid = c[s].valid
      /\ v.type = c[s].type /\ v.nlink = c[s].nlink
  BY <1>0, <1>1 DEF Entry
<1>3. PICK d : d = [c EXCEPT ![s] = v]
  OBVIOUS
<1>4. idup(c, s) = d
  BY <1>1, <1>3 DEF idup
<1>5. d \in [Slot -> Entry] /\ d[s] = v /\ \A t \in Slot : t # s => d[t] = c[t]
  BY <1>2, <1>3
<1>6. \A t \in Slot : d[t].ref = c[t].ref + Hit(s, t)
  BY <1>0, <1>2, <1>5 DEF Hit
<1> QED BY <1>2, <1>4, <1>5, <1>6 DEF Got

\* The links of an inode, in the cache and on the disk.
SetLinks(c, s, k) == [c EXCEPT ![s] = [c[s] EXCEPT !.nlink = k]]
LinksAt(dn, i, k) == [dn EXCEPT ![i] = k]

LEMMA Update ==
  ASSUME NEW c \in [Slot -> Entry], NEW dt \in [Inum -> Types], NEW dn \in [Inum -> Int],
         NEW lk, NEW S, NEW s \in Slot, NEW k \in Int, c[s].ref > 0, c[s].valid, s \notin S,
         Exact(c, dt, dn, S), LockedValid(c, lk)
  PROVE  /\ Known(c, SetLinks(c, s, k), s)
         /\ Exact(SetLinks(c, s, k), dt, LinksAt(dn, c[s].inum, k), S)
         /\ LockedValid(SetLinks(c, s, k), lk)
         /\ SetLinks(c, s, k)[s].nlink = k /\ SetLinks(c, s, k)[s].type = c[s].type
         /\ c[s].type = dt[c[s].inum] /\ c[s].type # "free" /\ c[s].nlink = dn[c[s].inum]
         /\ c[s].inum \in Inum
<1>1. PICK v : v = [c[s] EXCEPT !.nlink = k]
  OBVIOUS
<1>2. /\ v \in Entry /\ v.ref = c[s].ref /\ v.inum = c[s].inum /\ v.valid
      /\ v.type = c[s].type /\ v.nlink = k
  BY <1>1 DEF Entry
<1>3. PICK d : d = [c EXCEPT ![s] = v]
  OBVIOUS
<1>4. SetLinks(c, s, k) = d
  BY <1>1, <1>3 DEF SetLinks
<1>5. d \in [Slot -> Entry] /\ d[s] = v /\ \A t \in Slot : t # s => d[t] = c[t]
  BY <1>2, <1>3
<1>6. Known(c, d, s)
  BY <1>2, <1>5 DEF Known
<1>7. Agrees(c[s], dt, dn) /\ c[s].inum \in Inum
  BY DEF Exact
<1>8. PICK e : e = LinksAt(dn, c[s].inum, k)
  OBVIOUS
<1>9. /\ e[c[s].inum] = k /\ \A i \in Inum : i # c[s].inum => e[i] = dn[i]
  BY <1>7, <1>8 DEF LinksAt
<1>10. ASSUME NEW x \in Slot, d[x].ref > 0
       PROVE  /\ d[x].inum \in Inum
              /\ \A t \in Slot : d[t].ref > 0 /\ d[t].inum = d[x].inum => t = x
              /\ d[x].valid /\ x \notin S => Agrees(d[x], dt, e)
  <2>1. \A t \in Slot : d[t].ref = c[t].ref /\ d[t].inum = c[t].inum
    BY <1>6 DEF Known
  <2>2. c[x].ref > 0
    BY <1>10, <2>1
  <2>3. /\ c[x].inum \in Inum
        /\ \A t \in Slot : c[t].ref > 0 /\ c[t].inum = c[x].inum => t = x
        /\ c[x].valid /\ x \notin S => Agrees(c[x], dt, dn)
    BY <2>2 DEF Exact
  <2>4. CASE x = s
    <3>1. Agrees(d[x], dt, e)
      BY <1>2, <1>5, <1>7, <1>9, <2>4 DEF Agrees
    <3> QED BY <2>1, <2>3, <3>1
  <2>5. CASE x # s
    <3>1. c[x].inum # c[s].inum
      BY <2>3, <2>5
    <3>2. e[c[x].inum] = dn[c[x].inum] /\ d[x] = c[x]
      BY <1>5, <1>9, <2>3, <2>5, <3>1
    <3>3. d[x].valid /\ x \notin S => Agrees(d[x], dt, e)
      BY <2>3, <3>2 DEF Agrees
    <3> QED BY <2>1, <2>3, <3>3
  <2> QED BY <2>4, <2>5
<1>11. Exact(d, dt, e, S)
  BY <1>10 DEF Exact
<1>12. LockedValid(d, lk)
  BY <1>2, <1>5 DEF LockedValid
<1> QED BY <1>2, <1>4, <1>5, <1>6, <1>7, <1>8, <1>11, <1>12 DEF Agrees

-----------------------------------------------------------------------------
(* A step keeps PInv *)

\* What a step of p must do about its own call and locks.
Legal(p, c, r, l, a, b, q, h, d, f) ==
  /\ Typed(c, r, l, a, b, q, h, d, f) /\ CallAt(c, r, l, a, b, q, h)
  /\ OwnLocks(p)
  /\ \A s \in Slot : /\ lock'[s] = p <=> InIput(q, h, s) \/ InCall(c, a, b, s)
                     /\ ~(InIput(q, h, s) /\ InCall(c, a, b, s))

LEMMA PStep ==
  ASSUME PInv, NEW p \in Process, NEW c, NEW r, NEW l, NEW a, NEW b, NEW q,
         NEW h, NEW d, NEW f, Goes(p, c, r, l, a, b, q, h, d, f),
         Legal(p, c, r, l, a, b, q, h, d, f), SharedTypes', RefInv', CacheInv'
  PROVE  PInv'
<1>1. TypeOK /\ CallInv /\ LockInv
  BY DEF PInv
<1>2. Typed(c, r, l, a, b, q, h, d, f) /\ CallAt(c, r, l, a, b, q, h) /\ OwnLocks(p)
  BY DEF Legal
<1>3. TypeOK'
  BY <1>1, <1>2, TypeStep
<1>4. CallInv'
  BY <1>1, <1>2, CallStep
<1>5. LockInv'
  <2>1. \A s \in Slot : /\ lock'[s] = p <=> InIput(q, h, s) \/ InCall(c, a, b, s)
                        /\ ~(InIput(q, h, s) /\ InCall(c, a, b, s))
    BY DEF Legal
  <2> QED BY <1>1, <1>2, <2>1, LockStep
<1> QED BY <1>3, <1>4, <1>5 DEF PInv

LEMMA CacheStep ==
  ASSUME PInv, NEW p \in Process, NEW c, NEW r, NEW l, NEW a, NEW b, NEW q,
         NEW h, NEW d, NEW f, Goes(p, c, r, l, a, b, q, h, d, f),
         h # "invalid", iph[p] # "invalid",
         Exact(icache', dtype', dnlink', Inval), LockedValid(icache', lock')
  PROVE  CacheInv'
<1>1. TypeOK
  BY DEF PInv
<1>2. Inval' = Inval
  BY <1>1, InvalStep
<1> QED BY <1>2 DEF CacheInv

LEMMA Counts ==
  ASSUME NEW t \in Slot
  PROVE  /\ Hit(None, t) = 0 /\ \A x : Hit(x, t) \in {0, 1}
         /\ \A a, b, d : HoldsAt(a, b, << >>, d, t) = Hit(d, t) + Hit(a, t) + Hit(b, t)
         /\ \A a, b, d, x : HoldsAt(a, b, <<x>>, d, t)
                              = Hit(d, t) + Hit(a, t) + Hit(b, t) + Hit(x, t)
         /\ \A a, b, d, x, y : HoldsAt(a, b, <<x, y>>, d, t)
                              = Hit(d, t) + Hit(a, t) + Hit(b, t) + Hit(x, t) + Hit(y, t)
<1>1. Hit(None, t) = 0
  BY Bounds DEF Hit
<1>2. \A x : Hit(x, t) \in {0, 1}
  BY DEF Hit
<1>3. ASSUME NEW a, NEW b, NEW d
      PROVE  HoldsAt(a, b, << >>, d, t) = Hit(d, t) + Hit(a, t) + Hit(b, t)
  <2>1. Hit(a, t) \in Int /\ Hit(b, t) \in Int /\ Hit(d, t) \in Int
    BY <1>2
  <2> QED BY <1>1, <2>1, PutsNone DEF HoldsAt
<1>4. ASSUME NEW a, NEW b, NEW d, NEW x
      PROVE  HoldsAt(a, b, <<x>>, d, t) = Hit(d, t) + Hit(a, t) + Hit(b, t) + Hit(x, t)
  <2>1. Hit(a, t) \in Int /\ Hit(b, t) \in Int /\ Hit(d, t) \in Int /\ Hit(x, t) \in Int
    BY <1>2
  <2> QED BY <1>1, <2>1, PutsOne DEF HoldsAt
<1>5. ASSUME NEW a, NEW b, NEW d, NEW x, NEW y
      PROVE  HoldsAt(a, b, <<x, y>>, d, t)
               = Hit(d, t) + Hit(a, t) + Hit(b, t) + Hit(x, t) + Hit(y, t)
  <2>1. /\ Hit(a, t) \in Int /\ Hit(b, t) \in Int /\ Hit(d, t) \in Int
        /\ Hit(x, t) \in Int /\ Hit(y, t) \in Int
    BY <1>2
  <2>2. PutOf(<<x, y>>, 1) = y /\ PutOf(<<x, y>>, 2) = x
    BY PutsTwo
  <2> QED BY <2>1, <2>2 DEF HoldsAt
<1> QED BY <1>1, <1>2, <1>3, <1>4, <1>5

\* What is known of p before a step.
Was(p) ==
  /\ Typed(pc[p], req[p], path[p], w[p], ip[p], puts[p], iph[p], cwd[p], files[p])
  /\ CallAt(pc[p], req[p], path[p], w[p], ip[p], puts[p], iph[p])
  /\ \A s \in Slot : LocksOf(p, pc[p], w[p], ip[p], puts[p], iph[p], s)

LEMMA Before ==
  ASSUME PInv, NEW p \in Process
  PROVE  /\ TypeOK /\ CallInv /\ LockInv /\ RefInv /\ CacheInv /\ SharedTypes
         /\ Was(p) /\ LockedUsed(icache, lock)
         /\ Exact(icache, dtype, dnlink, Inval) /\ LockedValid(icache, lock)
         /\ icache \in [Slot -> Entry] /\ dtype \in [Inum -> Types] /\ dnlink \in [Inum -> Int]
<1>1. TypeOK /\ CallInv /\ LockInv /\ RefInv /\ CacheInv
  BY DEF PInv
<1>2. SharedTypes
  BY <1>1 DEF TypeOK, SharedTypes
<1>3. Was(p)
  BY <1>1, TypedNow DEF Was, CallInv, LockInv
<1>4. LockedUsed(icache, lock)
  BY <1>1, Locked
<1>5. icache \in [Slot -> Entry] /\ dtype \in [Inum -> Types] /\ dnlink \in [Inum -> Int]
  BY <1>2 DEF SharedTypes
<1> QED BY <1>1, <1>2, <1>3, <1>4, <1>5 DEF CacheInv

\* A step that changes none of the pointers.
LEMMA SameRefs ==
  ASSUME PInv, NEW p \in Process, NEW c, NEW r, NEW l, NEW h,
         Goes(p, c, r, l, w[p], ip[p], puts[p], h, cwd[p], files[p]),
         \A t \in Slot : icache'[t].ref = icache[t].ref
  PROVE  RefInv'
<1>1. TypeOK /\ RefInv /\ icache \in [Slot -> Entry]
  BY Before
<1>2. ASSUME NEW t \in Slot
      PROVE  icache'[t].ref = icache[t].ref + HoldsAt(w[p], ip[p], puts[p], cwd[p], t)
                                 - HoldsAt(w[p], ip[p], puts[p], cwd[p], t)
  <2>1. HoldsAt(w[p], ip[p], puts[p], cwd[p], t) \in Int
    BY Counts DEF HoldsAt
  <2>2. icache[t].ref \in Nat
    BY <1>1 DEF Entry
  <2> QED BY <2>1, <2>2
<1> QED BY <1>1, <1>2, RefStep

LEMMA PutHead ==
  ASSUME PInv, NEW p \in Process, puts[p] # << >>
  PROVE  /\ Head(puts[p]) \in Slot /\ icache[Head(puts[p])].ref > 0
         /\ icache[Head(puts[p])].inum \in Inum
<1>1. TypeOK /\ CallInv /\ RefInv /\ CacheInv
  BY Before
<1>2. puts[p] \in Seq(Slot) /\ Len(puts[p]) <= 2
  BY <1>1 DEF TypeOK, CallInv, CallAt
<1>3. Head(puts[p]) \in Slot
  BY <1>2, PutsTail
<1> QED BY <1>1, <1>3, InUseBy

LEMMA PTest ==
  ASSUME PInv, NEW p \in Process, IputTest(p)
  PROVE  PInv'
<1>0. /\ TypeOK /\ SharedTypes /\ Was(p) /\ icache \in [Slot -> Entry]
      /\ Exact(icache, dtype, dnlink, Inval) /\ LockedValid(icache, lock)
  BY Before
<1>1. /\ puts[p] # << >> /\ iph[p] = "no" /\ Free(Head(puts[p]))
      /\ dtype' = dtype /\ dnlink' = dnlink /\ dent' = dent /\ dotdot' = dotdot
      /\ icache' = icache /\ calls' = calls /\ stray' = stray
      /\ \/ /\ may_free(Head(puts[p]))
            /\ lock' = [lock EXCEPT ![Head(puts[p])] = p]
            /\ iph' = [iph EXCEPT ![p] = "free"]
         \/ /\ iph' = [iph EXCEPT ![p] = "drop"]
            /\ lock' = lock
  BY Zenon DEF IputTest, disk, history
<1>2. PICK s \in Slot : s = Head(puts[p])
  BY <1>1, PutHead
<1>3. PICK h : /\ h \in {"free", "drop"} /\ iph' = [iph EXCEPT ![p] = h]
               /\ h = "free" => may_free(s) /\ lock' = [lock EXCEPT ![s] = p]
               /\ h = "drop" => lock' = lock
  BY <1>1, <1>2
<1>4. Goes(p, pc[p], req[p], path[p], w[p], ip[p], puts[p], h, cwd[p], files[p])
  BY <1>0, <1>3, Stays, Zenon DEF IputTest, Goes
<1>5. lock \in [Slot -> Process \cup {None}] /\ lock[s] = None
  BY <1>0, <1>1, <1>2 DEF SharedTypes, Free
<1>6. lock' \in [Slot -> Process \cup {None}]
  BY <1>3, <1>5
<1>7. Legal(p, pc[p], req[p], path[p], w[p], ip[p], puts[p], h, cwd[p], files[p])
  <2>1. Typed(pc[p], req[p], path[p], w[p], ip[p], puts[p], h, cwd[p], files[p])
    BY <1>0, <1>3, Zenon DEF Was, Typed
  <2>2. CallAt(pc[p], req[p], path[p], w[p], ip[p], puts[p], h)
    BY <1>0, <1>1, Zenon DEF Was, CallAt
  <2>3. OwnLocks(p)
    BY <1>3, <1>5 DEF OwnLocks
  <2>4. ASSUME NEW t \in Slot
        PROVE  /\ lock'[t] = p <=> InIput(puts[p], h, t) \/ InCall(pc[p], w[p], ip[p], t)
               /\ ~(InIput(puts[p], h, t) /\ InCall(pc[p], w[p], ip[p], t))
    <3>1. lock[t] = p <=> InCall(pc[p], w[p], ip[p], t)
      BY <1>0, <1>1 DEF Was, LocksOf, InIput
    <3>2. InIput(puts[p], h, t) <=> h = "free" /\ t = s
      BY <1>2, <1>3 DEF InIput
    <3>3. ~InCall(pc[p], w[p], ip[p], s)
      <4>1. lock[s] = p <=> InCall(pc[p], w[p], ip[p], s)
        BY <1>0, <1>1 DEF Was, LocksOf, InIput
      <4> QED BY <1>5, <4>1, Bounds
    <3>4. lock'[t] = IF h = "free" /\ t = s THEN p ELSE lock[t]
      BY <1>3, <1>5
    <3> QED BY <3>1, <3>2, <3>3, <3>4
  <2> QED BY <2>1, <2>2, <2>3, <2>4 DEF Legal
<1>8. SharedTypes'
  BY <1>0, <1>1, <1>6 DEF SharedTypes
<1>9. RefInv'
  BY <1>1, <1>4, SameRefs
<1>10. CacheInv'
  <2>1. LockedValid(icache', lock')
    <3>1. \A t \in Slot : lock'[t] # None => lock[t] # None \/ (t = s /\ may_free(s))
      BY <1>3, <1>5
    <3> QED BY <1>0, <1>1, <3>1 DEF LockedValid, may_free
  <2>2. Exact(icache', dtype', dnlink', Inval)
    BY <1>0, <1>1
  <2>3. h # "invalid" /\ iph[p] # "invalid"
    BY <1>1, <1>3
  <2> QED BY <1>4, <2>1, <2>2, <2>3, CacheStep
<1> QED BY <1>4, <1>7, <1>8, <1>9, <1>10, PStep

\* What iput does to an entry before it drops its reference.
Dies(s, c, dt, dn, S, d, et, en, T) ==
  /\ \A t \in Slot : d[t].ref = c[t].ref /\ d[t].inum = c[t].inum
  /\ \A t \in Slot : t # s => d[t] = c[t]
  /\ s \in Slot /\ c[s].ref > 0
  /\ \A i \in Inum : i # c[s].inum => et[i] = dt[i] /\ en[i] = dn[i]
  /\ \A t \in S : t \in T \/ t = s
  /\ s \in T \/ ~d[s].valid

LEMMA Dying ==
  ASSUME NEW c, NEW dt, NEW dn, NEW S, NEW s, NEW d, NEW et, NEW en, NEW T,
         Dies(s, c, dt, dn, S, d, et, en, T), Exact(c, dt, dn, S)
  PROVE  Exact(d, et, en, T)
<1> USE DEF Dies
<1>1. ASSUME NEW x \in Slot, d[x].ref > 0
      PROVE  /\ d[x].inum \in Inum
             /\ \A t \in Slot : d[t].ref > 0 /\ d[t].inum = d[x].inum => t = x
             /\ d[x].valid /\ x \notin T => Agrees(d[x], et, en)
  <2>1. c[x].ref > 0
    BY <1>1
  <2>2. /\ c[x].inum \in Inum
        /\ \A t \in Slot : c[t].ref > 0 /\ c[t].inum = c[x].inum => t = x
        /\ c[x].valid /\ x \notin S => Agrees(c[x], dt, dn)
    BY <2>1 DEF Exact
  <2>3. ASSUME x # s PROVE d[x].valid /\ x \notin T => Agrees(d[x], et, en)
    <3>1. c[x].inum # c[s].inum /\ d[x] = c[x]
      BY <2>2, <2>3
    <3>2. et[c[x].inum] = dt[c[x].inum] /\ en[c[x].inum] = dn[c[x].inum]
      BY <2>2, <3>1
    <3>3. x \notin T => x \notin S
      BY <2>3
    <3> QED BY <2>2, <3>1, <3>2, <3>3 DEF Agrees
  <2> QED BY <2>2, <2>3
<1> QED BY <1>1 DEF Exact

LEMMA PFree ==
  ASSUME PInv, NEW p \in Process, IputFree(p)
  PROVE  PInv'
<1>0. /\ TypeOK /\ SharedTypes /\ Was(p) /\ icache \in [Slot -> Entry]
      /\ Exact(icache, dtype, dnlink, Inval) /\ LockedValid(icache, lock)
  BY Before
<1>1. iph[p] = "free" /\ puts[p] # << >>
  BY <1>0 DEF IputFree, Was, CallAt
<1>2. PICK s \in Slot : s = Head(puts[p])
  BY <1>1, PutHead
<1>2a. icache[s].ref > 0 /\ icache[s].inum \in Inum
  BY <1>1, <1>2, PutHead
<1>3. /\ icache' = [icache EXCEPT ![s].type = "free"]
      /\ dtype' = [dtype EXCEPT ![icache'[s].inum] = icache'[s].type]
      /\ dnlink' = [dnlink EXCEPT ![icache'[s].inum] = icache'[s].nlink]
      /\ dent' = [dent EXCEPT ![icache[s].inum] = NoEntries]
      /\ dotdot' = [dotdot EXCEPT ![icache[s].inum] = 0]
      /\ iph' = [iph EXCEPT ![p] = "invalid"] /\ lock' = lock /\ calls' = calls
      /\ stray' = stray
  BY <1>2, Zenon DEF IputFree, iupdate, history
<1>4. Goes(p, pc[p], req[p], path[p], w[p], ip[p], puts[p], "invalid", cwd[p], files[p])
  BY <1>0, <1>3, Stays, Zenon DEF IputFree, Goes
<1>5. /\ icache' \in [Slot -> Entry]
      /\ \A t \in Slot : icache'[t].ref = icache[t].ref /\ icache'[t].inum = icache[t].inum
      /\ \A t \in Slot : icache'[t].valid = icache[t].valid
      /\ \A t \in Slot : t # s => icache'[t] = icache[t]
      /\ icache'[s].type = "free" /\ icache'[s].nlink \in Int
  BY <1>0, <1>3 DEF Entry, Types
<1>6. Legal(p, pc[p], req[p], path[p], w[p], ip[p], puts[p], "invalid", cwd[p], files[p])
  <2>1. Typed(pc[p], req[p], path[p], w[p], ip[p], puts[p], "invalid", cwd[p], files[p])
    BY <1>0, Zenon DEF Was, Typed
  <2>2. CallAt(pc[p], req[p], path[p], w[p], ip[p], puts[p], "invalid")
    BY <1>0, <1>1, Zenon DEF Was, CallAt
  <2>3. OwnLocks(p)
    BY <1>3 DEF OwnLocks
  <2>4. ASSUME NEW t \in Slot
        PROVE  /\ lock'[t] = p <=> InIput(puts[p], "invalid", t) \/ InCall(pc[p], w[p], ip[p], t)
               /\ ~(InIput(puts[p], "invalid", t) /\ InCall(pc[p], w[p], ip[p], t))
    <3>1. InIput(puts[p], "invalid", t) <=> InIput(puts[p], iph[p], t)
      BY <1>1 DEF InIput
    <3> QED BY <1>0, <1>3, <3>1 DEF Was, LocksOf
  <2> QED BY <2>1, <2>2, <2>3, <2>4 DEF Legal
<1>7. SharedTypes'
  <2>1. dtype' \in [Inum -> Types] /\ dnlink' \in [Inum -> Int]
    BY <1>0, <1>3, <1>5 DEF SharedTypes, Types
  <2>2. NoEntries \in [Name -> Inum \cup {0}]
    BY DEF NoEntries
  <2>3. /\ dent' \in [Inum -> [Name -> Inum \cup {0}]]
        /\ dotdot' \in [Inum -> Inum \cup {0}]
    BY <1>0, <1>3, <2>2 DEF SharedTypes
  <2> QED BY <1>0, <1>3, <1>5, <2>1, <2>3 DEF SharedTypes
<1>8. RefInv'
  BY <1>4, <1>5, SameRefs
<1>9. CacheInv'
  <2>1. /\ \A t \in Inval : t \in Inval' \/ t = s
        /\ s \in Inval'
    BY <1>0, <1>1, <1>2, <1>4, InvalStep
  <2>2. \A i \in Inum : i # icache[s].inum => dtype'[i] = dtype[i] /\ dnlink'[i] = dnlink[i]
    BY <1>0, <1>2a, <1>3, <1>5 DEF SharedTypes
  <2>3. Exact(icache', dtype', dnlink', Inval')
    <3>1. Dies(s, icache, dtype, dnlink, Inval, icache', dtype', dnlink', Inval')
      BY <1>2a, <1>5, <2>1, <2>2 DEF Dies
    <3> QED BY <1>0, <3>1, Dying
  <2>4. LockedValid(icache', lock')
    BY <1>0, <1>3, <1>5 DEF LockedValid
  <2> QED BY <2>3, <2>4 DEF CacheInv
<1> QED BY <1>4, <1>6, <1>7, <1>8, <1>9, PStep

LEMMA PInvalid ==
  ASSUME PInv, NEW p \in Process, IputInvalid(p)
  PROVE  PInv'
<1>0. /\ TypeOK /\ SharedTypes /\ Was(p) /\ icache \in [Slot -> Entry]
      /\ Exact(icache, dtype, dnlink, Inval) /\ LockedValid(icache, lock)
  BY Before
<1>1. iph[p] = "invalid" /\ puts[p] # << >>
  BY <1>0 DEF IputInvalid, Was, CallAt
<1>2. PICK s \in Slot : s = Head(puts[p])
  BY <1>1, PutHead
<1>2a. icache[s].ref > 0 /\ icache[s].inum \in Inum
  BY <1>1, <1>2, PutHead
<1>3. /\ icache' = [icache EXCEPT ![s].valid = FALSE]
      /\ dtype' = dtype /\ dnlink' = dnlink /\ dent' = dent /\ dotdot' = dotdot
      /\ iph' = [iph EXCEPT ![p] = "drop"] /\ lock' = [lock EXCEPT ![s] = None]
      /\ calls' = calls /\ stray' = stray
  BY <1>2, Zenon DEF IputInvalid, iunlock, disk, history
<1>4. Goes(p, pc[p], req[p], path[p], w[p], ip[p], puts[p], "drop", cwd[p], files[p])
  BY <1>0, <1>3, Stays, Zenon DEF IputInvalid, Goes
<1>5. /\ icache' \in [Slot -> Entry]
      /\ \A t \in Slot : icache'[t].ref = icache[t].ref /\ icache'[t].inum = icache[t].inum
      /\ \A t \in Slot : t # s => icache'[t] = icache[t]
      /\ ~icache'[s].valid
  BY <1>0, <1>3 DEF Entry
<1>5a. lock[s] = p /\ ~InCall(pc[p], w[p], ip[p], s) /\ lock \in [Slot -> Process \cup {None}]
  BY <1>0, <1>1, <1>2 DEF Was, LocksOf, InIput, SharedTypes
<1>6. Legal(p, pc[p], req[p], path[p], w[p], ip[p], puts[p], "drop", cwd[p], files[p])
  <2>1. Typed(pc[p], req[p], path[p], w[p], ip[p], puts[p], "drop", cwd[p], files[p])
    BY <1>0, Zenon DEF Was, Typed
  <2>2. CallAt(pc[p], req[p], path[p], w[p], ip[p], puts[p], "drop")
    BY <1>0, <1>1, Zenon DEF Was, CallAt
  <2>3. OwnLocks(p)
    BY <1>3, <1>5a DEF OwnLocks
  <2>4. ASSUME NEW t \in Slot
        PROVE  /\ lock'[t] = p <=> InIput(puts[p], "drop", t) \/ InCall(pc[p], w[p], ip[p], t)
               /\ ~(InIput(puts[p], "drop", t) /\ InCall(pc[p], w[p], ip[p], t))
    <3>1. ~InIput(puts[p], "drop", t)
      BY DEF InIput
    <3>2. InIput(puts[p], iph[p], t) <=> t = s
      BY <1>1, <1>2 DEF InIput
    <3>3. lock'[t] = IF t = s THEN None ELSE lock[t]
      BY <1>3, <1>5a
    <3> QED BY <1>0, <1>5a, <3>1, <3>2, <3>3, Bounds DEF Was, LocksOf
  <2> QED BY <2>1, <2>2, <2>3, <2>4 DEF Legal
<1>7. SharedTypes'
  BY <1>0, <1>3, <1>5, <1>5a DEF SharedTypes
<1>8. RefInv'
  BY <1>4, <1>5, SameRefs
<1>9. CacheInv'
  <2>1. \A t \in Inval : t \in Inval' \/ t = s
    BY <1>0, <1>2, <1>4, InvalStep
  <2>3. Exact(icache', dtype', dnlink', Inval')
    <3>1. Dies(s, icache, dtype, dnlink, Inval, icache', dtype', dnlink', Inval')
      BY <1>2a, <1>3, <1>5, <2>1 DEF Dies
    <3> QED BY <1>0, <3>1, Dying
  <2>4. LockedValid(icache', lock')
    BY <1>0, <1>3, <1>5, <1>5a DEF LockedValid
  <2> QED BY <2>3, <2>4 DEF CacheInv
<1> QED BY <1>4, <1>6, <1>7, <1>8, <1>9, PStep

LEMMA TailCount ==
  ASSUME NEW q \in Seq(Slot), q # << >>, Len(q) <= 2, NEW a, NEW b, NEW d, NEW t \in Slot
  PROVE  HoldsAt(a, b, Tail(q), d, t) = HoldsAt(a, b, q, d, t) - Hit(Head(q), t)
<1>1. Len(q) \in {1, 2} /\ PutOf(Tail(q), 2) = None
  BY PutsTail
<1>2. /\ Len(q) = 1 => PutOf(q, 1) = Head(q) /\ PutOf(q, 2) = None /\ PutOf(Tail(q), 1) = None
      /\ Len(q) = 2 => PutOf(q, 2) = Head(q) /\ PutOf(Tail(q), 1) = PutOf(q, 1)
  BY PutsTail
<1>3. Hit(None, t) = 0 /\ \A x : Hit(x, t) \in {0, 1}
  BY Counts
<1>4. CASE Len(q) = 1
  <2>1. PutOf(q, 1) = Head(q) /\ PutOf(q, 2) = None /\ PutOf(Tail(q), 1) = None
    BY <1>2, <1>4
  <2>2. HoldsAt(a, b, q, d, t)
          = Hit(d, t) + Hit(a, t) + Hit(b, t) + Hit(Head(q), t) + Hit(None, t)
    BY <2>1, Zenon DEF HoldsAt
  <2>3. HoldsAt(a, b, Tail(q), d, t)
          = Hit(d, t) + Hit(a, t) + Hit(b, t) + Hit(None, t) + Hit(None, t)
    BY <1>1, <2>1, Zenon DEF HoldsAt
  <2> QED BY <1>3, <2>2, <2>3
<1>5. CASE Len(q) = 2
  <2>1. PutOf(q, 2) = Head(q) /\ PutOf(Tail(q), 1) = PutOf(q, 1)
    BY <1>2, <1>5
  <2>2. HoldsAt(a, b, q, d, t)
          = Hit(d, t) + Hit(a, t) + Hit(b, t) + Hit(PutOf(q, 1), t) + Hit(Head(q), t)
    BY <2>1, Zenon DEF HoldsAt
  <2>3. HoldsAt(a, b, Tail(q), d, t)
          = Hit(d, t) + Hit(a, t) + Hit(b, t) + Hit(PutOf(q, 1), t) + Hit(None, t)
    BY <1>1, <2>1, Zenon DEF HoldsAt
  <2> QED BY <1>3, <2>2, <2>3
<1> QED BY <1>1, <1>4, <1>5

LEMMA PDrop ==
  ASSUME PInv, NEW p \in Process, IputDrop(p)
  PROVE  PInv'
<1>0. /\ TypeOK /\ SharedTypes /\ Was(p) /\ icache \in [Slot -> Entry] /\ RefInv
      /\ Exact(icache, dtype, dnlink, Inval) /\ LockedValid(icache, lock)
  BY Before
<1>1. iph[p] = "drop" /\ puts[p] # << >>
  BY <1>0 DEF IputDrop, Was, CallAt
<1>2. PICK s \in Slot : s = Head(puts[p])
  BY <1>1, PutHead
<1>2a. icache[s].ref > 0
  BY <1>1, <1>2, PutHead
<1>3. /\ icache' = [icache EXCEPT ![s].ref = @ - 1]
      /\ dtype' = dtype /\ dnlink' = dnlink /\ dent' = dent /\ dotdot' = dotdot
      /\ iph' = [iph EXCEPT ![p] = "no"] /\ lock' = lock
      /\ puts' = [puts EXCEPT ![p] = Tail(puts[p])]
      /\ calls' = calls /\ stray' = stray
  BY <1>2, Zenon DEF IputDrop, disk, history
<1>4. Goes(p, pc[p], req[p], path[p], w[p], ip[p], Tail(puts[p]), "no", cwd[p], files[p])
  BY <1>0, <1>3, Stays, Zenon DEF IputDrop, Goes
<1>5. /\ icache' \in [Slot -> Entry]
      /\ icache'[s].ref = icache[s].ref - 1 /\ \A t \in Slot : icache[t].ref \in Nat
      /\ icache'[s].inum = icache[s].inum /\ icache'[s].valid = icache[s].valid
      /\ icache'[s].type = icache[s].type /\ icache'[s].nlink = icache[s].nlink
      /\ \A t \in Slot : t # s => icache'[t] = icache[t]
  <2>1. PICK v : v = [icache[s] EXCEPT !.ref = @ - 1]
    OBVIOUS
  <2>2. \A t \in Slot : icache[t] \in Entry /\ icache[t].ref \in Nat
    BY <1>0 DEF Entry
  <2>3. /\ v \in Entry /\ v.ref = icache[s].ref - 1 /\ v.inum = icache[s].inum
        /\ v.valid = icache[s].valid /\ v.type = icache[s].type /\ v.nlink = icache[s].nlink
    BY <1>2a, <2>1, <2>2 DEF Entry
  <2>4. icache' = [icache EXCEPT ![s] = v]
    BY <1>3, <2>1
  <2> QED BY <1>0, <2>2, <2>3, <2>4
<1>5a. /\ puts[p] \in Seq(Slot) /\ Len(puts[p]) <= 2 /\ (pc[p] # "end" => Len(puts[p]) <= 1)
  BY <1>0 DEF Was, Typed, CallAt
<1>5b. /\ Tail(puts[p]) \in Seq(Slot) /\ Len(Tail(puts[p])) <= 2
       /\ pc[p] # "end" => Tail(puts[p]) = << >> /\ Len(Tail(puts[p])) <= 1
  <2>1. /\ Tail(puts[p]) \in Seq(Slot) /\ Len(Tail(puts[p])) = Len(puts[p]) - 1
        /\ Len(puts[p]) \in {1, 2} /\ (Len(puts[p]) = 1 => Tail(puts[p]) = << >>)
    BY <1>1, <1>5a, PutsTail
  <2>2. \A n \in {1, 2} : n - 1 <= 2 /\ (n <= 1 => n = 1) /\ n - 1 <= 1
    OBVIOUS
  <2>3. pc[p] # "end" => Len(puts[p]) = 1
    BY <1>5a, <2>1, <2>2, Zenon
  <2> QED BY <2>1, <2>2, <2>3, Zenon
<1>6. Legal(p, pc[p], req[p], path[p], w[p], ip[p], Tail(puts[p]), "no", cwd[p], files[p])
  <2>1. Typed(pc[p], req[p], path[p], w[p], ip[p], Tail(puts[p]), "no", cwd[p], files[p])
    BY <1>0, <1>5b, Zenon DEF Was, Typed
  <2>2. CallAt(pc[p], req[p], path[p], w[p], ip[p], Tail(puts[p]), "no")
    <3>1. CallAt(pc[p], req[p], path[p], w[p], ip[p], puts[p], iph[p])
      BY <1>0 DEF Was
    <3>2. pc[p] \in {"user", "at", "init", "unlink"} => pc[p] # "end"
      OBVIOUS
    <3> QED BY <1>5b, <3>1, <3>2, Zenon DEF CallAt
  <2>3. OwnLocks(p)
    BY <1>3 DEF OwnLocks
  <2>4. ASSUME NEW t \in Slot
        PROVE  /\ lock'[t] = p <=> InIput(Tail(puts[p]), "no", t) \/ InCall(pc[p], w[p], ip[p], t)
               /\ ~(InIput(Tail(puts[p]), "no", t) /\ InCall(pc[p], w[p], ip[p], t))
    <3>1. ~InIput(Tail(puts[p]), "no", t) /\ ~InIput(puts[p], iph[p], t)
      BY <1>1 DEF InIput
    <3> QED BY <1>0, <1>3, <3>1 DEF Was, LocksOf
  <2> QED BY <2>1, <2>2, <2>3, <2>4 DEF Legal
<1>7. SharedTypes'
  BY <1>0, <1>3, <1>5 DEF SharedTypes
<1>8. RefInv'
  <2>1. ASSUME NEW t \in Slot
        PROVE  icache'[t].ref = icache[t].ref + HoldsAt(w[p], ip[p], Tail(puts[p]), cwd[p], t)
                                  - HoldsAt(w[p], ip[p], puts[p], cwd[p], t)
    <3>1. HoldsAt(w[p], ip[p], Tail(puts[p]), cwd[p], t)
            = HoldsAt(w[p], ip[p], puts[p], cwd[p], t) - Hit(s, t)
      BY <1>1, <1>2, <1>5a, TailCount
    <3>2. HoldsAt(w[p], ip[p], puts[p], cwd[p], t) \in Int
      BY Counts DEF HoldsAt
    <3>3. icache'[t].ref = icache[t].ref - Hit(s, t) /\ icache[t].ref \in Nat
      BY <1>5 DEF Hit
    <3>4. Hit(s, t) \in Int
      BY DEF Hit
    <3> QED BY <3>1, <3>2, <3>3, <3>4
  <2> QED BY <1>0, <1>4, <2>1, RefStep
<1>9. CacheInv'
  <2>1. ASSUME NEW x \in Slot, icache'[x].ref > 0
        PROVE  /\ icache'[x].inum \in Inum
               /\ \A t \in Slot : icache'[t].ref > 0 /\ icache'[t].inum = icache'[x].inum => t = x
               /\ icache'[x].valid /\ x \notin Inval => Agrees(icache'[x], dtype, dnlink)
    <3>1. \A t \in Slot : /\ icache'[t].ref > 0 => icache[t].ref > 0
                          /\ icache'[t].inum = icache[t].inum
                          /\ icache'[t].valid = icache[t].valid
                          /\ icache'[t].type = icache[t].type
                          /\ icache'[t].nlink = icache[t].nlink
      BY <1>2a, <1>5
    <3>2. /\ icache[x].inum \in Inum
          /\ \A t \in Slot : icache[t].ref > 0 /\ icache[t].inum = icache[x].inum => t = x
          /\ icache[x].valid /\ x \notin Inval => Agrees(icache[x], dtype, dnlink)
      BY <1>0, <2>1, <3>1 DEF Exact
    <3> QED BY <3>1, <3>2 DEF Agrees
  <2>2. Exact(icache', dtype', dnlink', Inval)
    BY <1>3, <2>1 DEF Exact
  <2>3. LockedValid(icache', lock')
    BY <1>0, <1>3, <1>5 DEF LockedValid
  <2>4. iph[p] # "invalid"
    BY <1>1
  <2> QED BY <1>4, <2>2, <2>3, <2>4, CacheStep
<1> QED BY <1>4, <1>6, <1>7, <1>8, <1>9, PStep

\* ilock reads an inode that is in use.
LEMMA ReadStep ==
  ASSUME PInv, NEW s \in Slot, Ilock(s), icache[s].ref > 0, NEW c,
         c = [icache EXCEPT ![s] = ilocked(s)]
  PROVE  /\ c \in [Slot -> Entry] /\ Known(icache, c, s) /\ c[s] = ilocked(s)
         /\ Exact(c, dtype, dnlink, Inval) /\ LockedValid(c, lock) /\ LockedUsed(c, lock)
         /\ Agrees(c[s], dtype, dnlink) /\ s \notin Inval
<1>1. /\ TypeOK /\ LockInv /\ CallInv /\ RefInv /\ CacheInv
      /\ Exact(icache, dtype, dnlink, Inval) /\ LockedValid(icache, lock)
      /\ icache \in [Slot -> Entry] /\ dtype \in [Inum -> Types] /\ dnlink \in [Inum -> Int]
  BY DEF PInv, CacheInv, TypeOK
<1>1a. LockedUsed(icache, lock)
  BY <1>1, Locked
<1>2. icache[s].inum \in Inum
  BY <1>1 DEF Exact
<1>3. s \notin Inval
  BY <1>1, NotInval DEF Ilock, Free
<1>4. ~icache[s].valid => dtype[icache[s].inum] # "free"
  BY DEF Ilock
<1>5. c = ReadFrom(icache, dtype, dnlink, s)
  BY ReadIs
<1>6. /\ Known(icache, c, s) /\ Exact(c, dtype, dnlink, Inval)
      /\ LockedValid(c, lock) /\ Agrees(c[s], dtype, dnlink)
  <2>1. /\ Known(icache, ReadFrom(icache, dtype, dnlink, s), s)
        /\ Exact(ReadFrom(icache, dtype, dnlink, s), dtype, dnlink, Inval)
        /\ LockedValid(ReadFrom(icache, dtype, dnlink, s), lock)
        /\ Agrees(ReadFrom(icache, dtype, dnlink, s)[s], dtype, dnlink)
    BY <1>1, <1>2, <1>3, <1>4, Read
  <2> QED BY <1>5, <2>1
<1>7. LockedUsed(c, lock) /\ c \in [Slot -> Entry]
  BY <1>1a, <1>6 DEF LockedUsed, Known
<1>8. c[s] = ilocked(s)
  BY <1>1
<1> QED BY <1>3, <1>6, <1>7, <1>8

Holding == {"init", "unlink", "refused", "created", "drop"}

\* What a step leaves alone that changes no inode and no lock.
Plain(p) ==
  /\ dtype' = dtype /\ dnlink' = dnlink /\ dent' = dent /\ dotdot' = dotdot
  /\ lock' = lock /\ stray' = stray /\ calls' \in Nat
  /\ pc[p] \notin Holding /\ puts[p] = << >>

\* A step of a process that holds no lock, before it and after it.
LEMMA PlainLegal ==
  ASSUME PInv, NEW p \in Process, NEW c, NEW r, NEW l, NEW a, NEW b, NEW q,
         NEW d, NEW f, Plain(p), c \notin Holding,
         Typed(c, r, l, a, b, q, "no", d, f), CallAt(c, r, l, a, b, q, "no")
  PROVE  Legal(p, c, r, l, a, b, q, "no", d, f)
<1>0. Was(p)
  BY Before
<1>1. iph[p] = "no"
  BY <1>0 DEF Was, CallAt, Plain
<1>2. OwnLocks(p)
  BY DEF OwnLocks, Plain
<1>3. ASSUME NEW t \in Slot
      PROVE  /\ lock'[t] = p <=> InIput(q, "no", t) \/ InCall(c, a, b, t)
             /\ ~(InIput(q, "no", t) /\ InCall(c, a, b, t))
  <2>1. ~InIput(q, "no", t) /\ ~InIput(puts[p], iph[p], t)
    BY <1>1 DEF InIput
  <2>2. ~InCall(c, a, b, t) /\ ~InCall(pc[p], w[p], ip[p], t)
    BY DEF InCall, Plain, Holding
  <2>3. lock'[t] = lock[t]
    BY DEF Plain
  <2> QED BY <1>0, <2>1, <2>2, <2>3 DEF Was, LocksOf
<1> QED BY <1>2, <1>3 DEF Legal

LEMMA PlainCache ==
  ASSUME PInv, NEW p \in Process, NEW c, NEW r, NEW l, NEW a, NEW b, NEW q,
         NEW d, NEW f, Goes(p, c, r, l, a, b, q, "no", d, f), Plain(p),
         icache' \in [Slot -> Entry],
         Exact(icache', dtype, dnlink, Inval), LockedValid(icache', lock)
  PROVE  SharedTypes' /\ CacheInv'
<1>0. Was(p) /\ SharedTypes
  BY Before
<1>1. iph[p] # "invalid"
  BY <1>0 DEF Was, CallAt, Plain
<1>2. Exact(icache', dtype', dnlink', Inval) /\ LockedValid(icache', lock')
  BY DEF Plain
<1>3. CacheInv'
  BY <1>1, <1>2, CacheStep
<1>4. SharedTypes'
  BY <1>0 DEF SharedTypes, Plain
<1> QED BY <1>3, <1>4

PlainRefs(p, a, b, q, d) ==
  \A t \in Slot : icache'[t].ref = icache[t].ref + HoldsAt(a, b, q, d, t)
                                  - (Hit(cwd[p], t) + Hit(w[p], t) + Hit(ip[p], t))
SoundCache ==
  /\ icache' \in [Slot -> Entry] /\ Exact(icache', dtype, dnlink, Inval)
  /\ LockedValid(icache', lock)

LEMMA PlainStep ==
  ASSUME PInv, NEW p \in Process, NEW c, NEW r, NEW l, NEW a, NEW b, NEW q,
         NEW d, Goes(p, c, r, l, a, b, q, "no", d, files[p]), Plain(p), c \notin Holding,
         Typed(c, r, l, a, b, q, "no", d, files[p]), CallAt(c, r, l, a, b, q, "no"),
         SoundCache, PlainRefs(p, a, b, q, d)
  PROVE  PInv'
<1>1. Legal(p, c, r, l, a, b, q, "no", d, files[p])
  BY PlainLegal
<1>2. SharedTypes' /\ CacheInv'
  BY PlainCache DEF SoundCache
<1>3. RefInv'
  <2>1. ASSUME NEW t \in Slot
        PROVE  icache'[t].ref = icache[t].ref + HoldsAt(a, b, q, d, t)
                                  - HoldsAt(w[p], ip[p], puts[p], cwd[p], t)
    <3>1. HoldsAt(w[p], ip[p], puts[p], cwd[p], t) = Hit(cwd[p], t) + Hit(w[p], t) + Hit(ip[p], t)
      BY Counts DEF Plain
    <3> QED BY <3>1 DEF PlainRefs
  <2>2. TypeOK /\ RefInv
    BY Before
  <2> QED BY <2>1, <2>2, RefStep
<1> QED BY <1>1, <1>2, <1>3, PStep

\* The start of namex.
LEMMA Starts ==
  ASSUME NEW p \in Process, NEW pt \in Path, NEW c \in [Slot -> Entry], cwd[p] \in Slot,
         c[cwd[p]].ref > 0, c[cwd[p]].inum \in Inum, Start(p, pt, c)
  PROVE  \E u \in Slot : \E i \in Inum :
           /\ Got(c, icache', u, i) /\ (i = ROOTINO \/ u = cwd[p])
           /\ w' = [w EXCEPT ![p] = u] /\ path' = [path EXCEPT ![p] = pt.elems]
           /\ pc' = [pc EXCEPT ![p] = "walk"] /\ pt.elems \in Seq(Name \cup {".", ".."})
<1>1. pt.elems \in Seq(Name \cup {".", ".."})
  BY InodesAssumption
<1>2. path' = [path EXCEPT ![p] = pt.elems] /\ pc' = [pc EXCEPT ![p] = "walk"]
  BY DEF Start
<1>3. CASE pt.abs
  <2>1. ROOTINO \in Inum /\ room(c, ROOTINO)
    BY <1>3, Bounds DEF Start
  <2>2. Got(c, iget(c, ROOTINO), iget_slot(c, ROOTINO), ROOTINO)
    BY <2>1, Gets
  <2>3. iget_slot(c, ROOTINO) \in Slot
    BY <2>2 DEF Got
  <2>4. icache' = iget(c, ROOTINO) /\ w' = [w EXCEPT ![p] = iget_slot(c, ROOTINO)]
    BY <1>3 DEF Start
  <2> QED BY <1>1, <1>2, <2>1, <2>2, <2>3, <2>4
<1>4. CASE ~pt.abs
  <2>1. icache' = idup(c, cwd[p]) /\ w' = [w EXCEPT ![p] = cwd[p]]
    BY <1>4 DEF Start
  <2>2. Got(c, idup(c, cwd[p]), cwd[p], c[cwd[p]].inum)
    BY Dups
  <2> QED BY <1>1, <1>2, <2>1, <2>2
<1> QED BY <1>3, <1>4

LEMMA PCall ==
  ASSUME PInv, NEW p \in Process, Call(p)
  PROVE  PInv'
<1>0. /\ TypeOK /\ SharedTypes /\ Was(p) /\ icache \in [Slot -> Entry] /\ LockedUsed(icache, lock)
      /\ Exact(icache, dtype, dnlink, Inval) /\ LockedValid(icache, lock)
      /\ CallInv /\ RefInv /\ CacheInv
  BY Before
<1>1. /\ pc[p] = "user" /\ puts[p] = << >> /\ w[p] = None /\ ip[p] = None /\ iph[p] = "no"
      /\ cwd[p] \in Slot
  BY <1>0 DEF Call, Was, CallAt, Typed
<1>2. icache[cwd[p]].ref > 0 /\ icache[cwd[p]].inum \in Inum
  BY <1>0, <1>1, InUseBy
<1>3. PICK op \in Ops, pt \in Path, new \in Path :
        /\ req' = [req EXCEPT ![p] = [op |-> op, new |-> new]]
        /\ Start(p, pt, icache)
  BY Zenon DEF Call
<1>4. PICK u \in Slot, i \in Inum :
        /\ Got(icache, icache', u, i)
        /\ w' = [w EXCEPT ![p] = u] /\ path' = [path EXCEPT ![p] = pt.elems]
        /\ pc' = [pc EXCEPT ![p] = "walk"] /\ pt.elems \in Seq(Name \cup {".", ".."})
  BY <1>0, <1>1, <1>2, <1>3, Starts
<1>5. PICK r : r = [op |-> op, new |-> new]
  OBVIOUS
<1>6. Goes(p, "walk", r, pt.elems, u, None, << >>, "no", cwd[p], files[p])
  <2>1. /\ ip' = ip /\ puts' = puts /\ iph' = iph /\ cwd' = cwd /\ files' = files
    BY DEF Call
  <2> QED BY <1>0, <1>1, <1>3, <1>4, <1>5, <2>1, Stays, Zenon DEF Goes
<1>7. Plain(p)
  <2>1. /\ dtype' = dtype /\ dnlink' = dnlink /\ dent' = dent /\ dotdot' = dotdot
        /\ lock' = lock /\ stray' = stray /\ calls' = calls + 1
    BY DEF Call, disk
  <2>2. calls \in Nat
    BY <1>0 DEF SharedTypes
  <2> QED BY <1>1, <2>1, <2>2 DEF Plain, Holding
<1>9. Typed("walk", r, pt.elems, u, None, << >>, "no", cwd[p], files[p])
  BY <1>0, <1>1, <1>4, <1>5 DEF Was, Typed, Points
<1>10. SoundCache
  <2>1. icache' \in [Slot -> Entry]
    BY <1>4 DEF Got
  <2> QED BY <1>0, <1>4, <2>1, Get DEF SoundCache
<1>11. CallAt("walk", r, pt.elems, u, None, << >>, "no")
  BY <1>4, <1>5, Bounds DEF CallAt
<1>12. PlainRefs(p, u, None, << >>, cwd[p])
  <2> SUFFICES ASSUME NEW t \in Slot
               PROVE  icache'[t].ref = icache[t].ref + HoldsAt(u, None, << >>, cwd[p], t)
                                  - (Hit(cwd[p], t) + Hit(w[p], t) + Hit(ip[p], t))
    BY DEF PlainRefs
  <2>1. icache'[t].ref = icache[t].ref + Hit(u, t) /\ icache[t].ref \in Nat
    BY <1>0, <1>4 DEF Got, Entry
  <2>2. HoldsAt(u, None, << >>, cwd[p], t) = Hit(cwd[p], t) + Hit(u, t) + Hit(None, t)
    BY Counts
  <2>3. Hit(None, t) = 0 /\ Hit(u, t) \in {0, 1} /\ Hit(cwd[p], t) \in {0, 1}
    BY Counts
  <2> QED BY <1>1, <2>1, <2>2, <2>3
<1>13. "walk" \notin Holding
  BY DEF Holding
<1> QED BY <1>6, <1>7, <1>9, <1>10, <1>11, <1>12, <1>13, PlainStep

\* The cache g has the references of the cache there is, and one to u in the
\* second case.
Keeps(g) ==
  /\ g \in [Slot -> Entry] /\ Exact(g, dtype, dnlink, Inval) /\ LockedValid(g, lock)
  /\ \A t \in Slot : g[t].ref = icache[t].ref /\ g[t].inum = icache[t].inum
Adds(g, u) ==
  /\ g \in [Slot -> Entry] /\ Exact(g, dtype, dnlink, Inval) /\ LockedValid(g, lock)
  /\ u \in Slot /\ \A t \in Slot : g[t].ref = icache[t].ref + Hit(u, t)

LEMMA ReadKeeps ==
  ASSUME PInv, NEW s \in Slot, Ilock(s), icache[s].ref > 0, NEW g,
         g = [icache EXCEPT ![s] = ilocked(s)]
  PROVE  Keeps(g) /\ g[s].valid /\ g[s] = ilocked(s)
<1>1. /\ g \in [Slot -> Entry] /\ Known(icache, g, s) /\ g[s] = ilocked(s)
      /\ Exact(g, dtype, dnlink, Inval) /\ LockedValid(g, lock)
  BY ReadStep
<1> QED BY <1>1 DEF Keeps, Known

LEMMA StayKeeps ==
  ASSUME PInv
  PROVE  Keeps(icache)
  BY DEF PInv, CacheInv, TypeOK, Keeps

LEMMA ReadGet ==
  ASSUME PInv, NEW s \in Slot, Ilock(s), icache[s].ref > 0, NEW c,
         c = [icache EXCEPT ![s] = ilocked(s)], NEW i \in Inum, room(c, i)
  PROVE  /\ Adds(iget(c, i), iget_slot(c, i)) /\ Got(c, iget(c, i), iget_slot(c, i), i)
         /\ iget(c, i)[s].valid
<1>1. /\ c \in [Slot -> Entry] /\ Known(icache, c, s) /\ LockedUsed(c, lock)
      /\ Exact(c, dtype, dnlink, Inval) /\ LockedValid(c, lock)
  BY ReadStep
<1>2. Got(c, iget(c, i), iget_slot(c, i), i)
  BY <1>1, Gets
<1>3. /\ Exact(iget(c, i), dtype, dnlink, Inval) /\ LockedValid(iget(c, i), lock)
  BY <1>1, <1>2, Get
<1>4. /\ iget_slot(c, i) \in Slot /\ iget(c, i) \in [Slot -> Entry]
      /\ \A t \in Slot : iget(c, i)[t].ref = c[t].ref + Hit(iget_slot(c, i), t)
  BY <1>2 DEF Got
<1>5. \A t \in Slot : c[t].ref = icache[t].ref
  BY <1>1 DEF Known
<1>6. iget(c, i)[s].valid
  <2>1. c[s].valid /\ c[s].ref > 0
    BY <1>1 DEF Known
  <2> QED BY <1>2, <2>1 DEF Got
<1> QED BY <1>2, <1>3, <1>4, <1>5, <1>6 DEF Adds

LEMMA Looked ==
  ASSUME TypeOK, NEW i \in Inum, NEW n \in Name \cup {".", ".."}
  PROVE  dirlookup(i, n) \in Inum \cup {0}
<1>1. dotdot[i] \in Inum \cup {0} /\ (n \in Name => dent[i][n] \in Inum \cup {0})
  BY DEF TypeOK
<1>2. CASE n = "."
  BY <1>2 DEF dirlookup
<1>3. CASE n = ".."
  BY <1>1, <1>3 DEF dirlookup
<1>4. CASE n \in Name
  <2>1. n # "." /\ n # ".."
    BY <1>4, InodesAssumption
  <2> QED BY <1>1, <1>4, <2>1 DEF dirlookup
<1> QED BY <1>2, <1>3, <1>4

LEMMA HeadName ==
  ASSUME TypeOK, NEW p \in Process, path[p] # << >>
  PROVE  Head(path[p]) \in Name \cup {".", ".."} /\ Tail(path[p]) \in Seq(Name \cup {".", ".."})
<1>1. path[p] \in Seq(Name \cup {".", ".."})
  BY DEF TypeOK
<1> QED BY <1>1, HeadTailProperties

LEMMA PReturn ==
  ASSUME PInv, NEW p \in Process, Return(p)
  PROVE  PInv'
<1>0. TypeOK /\ SharedTypes /\ Was(p) /\ Keeps(icache) /\ icache \in [Slot -> Entry]
  BY Before, StayKeeps
<1>1. /\ pc[p] = "end" /\ puts[p] = << >> /\ w[p] = None /\ ip[p] = None /\ iph[p] = "no"
      /\ cwd[p] \in Slot
  BY <1>0 DEF Return, Was, CallAt, Typed
<1>2. Goes(p, "user", None, << >>, None, None, << >>, "no", cwd[p], files[p])
  BY <1>0, <1>1, Stays, Zenon DEF Return, Goes
<1>3. Plain(p)
  <2>1. /\ dtype' = dtype /\ dnlink' = dnlink /\ dent' = dent /\ dotdot' = dotdot
        /\ lock' = lock /\ stray' = stray /\ calls' = calls
    BY DEF Return, disk, history
  <2> QED BY <1>0, <1>1, <2>1 DEF Plain, Holding, SharedTypes
<1>4. Typed("user", None, << >>, None, None, << >>, "no", cwd[p], files[p])
  BY <1>0, <1>1 DEF Was, Typed, Points
<1>5. CallAt("user", None, << >>, None, None, << >>, "no")
  BY DEF CallAt
<1>6. icache' = icache
  BY DEF Return
<1>7. SoundCache
  BY <1>0, <1>6 DEF SoundCache, Keeps
<1>8. PlainRefs(p, None, None, << >>, cwd[p])
  <2> SUFFICES ASSUME NEW t \in Slot
               PROVE  icache'[t].ref = icache[t].ref + HoldsAt(None, None, << >>, cwd[p], t)
                                  - (Hit(cwd[p], t) + Hit(w[p], t) + Hit(ip[p], t))
    BY DEF PlainRefs
  <2>1. icache[t].ref \in Nat
    BY <1>0 DEF Entry
  <2>2. HoldsAt(None, None, << >>, cwd[p], t) = Hit(cwd[p], t) + Hit(None, t) + Hit(None, t)
    BY Counts
  <2>3. Hit(None, t) = 0 /\ Hit(cwd[p], t) \in {0, 1}
    BY Counts
  <2> QED BY <1>1, <1>6, <2>1, <2>2, <2>3
<1>9. "user" \notin Holding
  BY DEF Holding
<1> QED BY <1>2, <1>3, <1>4, <1>5, <1>7, <1>8, <1>9, PlainStep

\* A step that gives w[p] up.
LEMMA PPutW ==
  ASSUME PInv, NEW p \in Process, pc[p] \in {"walk", "at"}, Plain(p), Keeps(icache'),
         NEW x, x = failed(p), PutW(p, x),
         UNCHANGED <<req, path, ip, iph, cwd, files>>
  PROVE  PInv'
<1>0. TypeOK /\ Was(p) /\ icache \in [Slot -> Entry]
  BY Before
<1>1. puts[p] = << >> /\ iph[p] = "no" /\ w[p] \in Slot /\ ip[p] \in Slot \cup {None}
  BY <1>0 DEF Plain, Was, CallAt, Typed
<1>2. Goes(p, x, req[p], path[p], None, ip[p], <<w[p]>>, "no", cwd[p], files[p])
  <2>1. /\ req' = req /\ path' = path /\ ip' = ip /\ iph' = iph /\ cwd' = cwd /\ files' = files
    OBVIOUS
  <2> QED BY <1>0, <1>1, <2>1, Stays, Zenon DEF PutW, Goes
<1>3. /\ x \in {"end", "bad"} /\ (x = "bad" <=> ip[p] # None)
  BY DEF failed
<1>4. Typed(x, req[p], path[p], None, ip[p], <<w[p]>>, "no", cwd[p], files[p])
  <2>1. <<w[p]>> \in Seq(Slot)
    BY <1>1
  <2> QED BY <1>0, <1>3, <2>1, Zenon DEF Was, Typed, Points
<1>5. CallAt(x, req[p], path[p], None, ip[p], <<w[p]>>, "no")
  <2>1. Len(<<w[p]>>) = 1
    OBVIOUS
  <2>2. /\ req[p] \in [op : Ops, new : Path]
        /\ ip[p] # None => req[p].op = "link"
    BY <1>0 DEF Was, CallAt
  <2> QED BY <1>3, <2>1, <2>2 DEF CallAt
<1>7. SoundCache
  BY DEF SoundCache, Keeps
<1>8. PlainRefs(p, None, ip[p], <<w[p]>>, cwd[p])
  <2> SUFFICES ASSUME NEW t \in Slot
               PROVE  icache'[t].ref = icache[t].ref + HoldsAt(None, ip[p], <<w[p]>>, cwd[p], t)
                                  - (Hit(cwd[p], t) + Hit(w[p], t) + Hit(ip[p], t))
    BY DEF PlainRefs
  <2>1. icache'[t].ref = icache[t].ref /\ icache[t].ref \in Nat
    BY <1>0 DEF Entry, Keeps
  <2>2. HoldsAt(None, ip[p], <<w[p]>>, cwd[p], t)
          = Hit(cwd[p], t) + Hit(None, t) + Hit(ip[p], t) + Hit(w[p], t)
    BY Counts
  <2>3. /\ Hit(None, t) = 0 /\ Hit(cwd[p], t) \in {0, 1} /\ Hit(ip[p], t) \in {0, 1}
        /\ Hit(w[p], t) \in {0, 1}
    BY Counts
  <2> QED BY <2>1, <2>2, <2>3
<1>9. x \notin Holding
  BY <1>3 DEF Holding
<1> QED BY <1>2, <1>4, <1>5, <1>7, <1>8, <1>9, PlainStep

\* What Plain says of an action that leaves the histories alone.
LEMMA PlainIf ==
  ASSUME PInv, UNCHANGED <<disk, lock, history>>, NEW p, pc[p] \in {"walk", "at", "exists"},
         puts[p] = << >>
  PROVE  Plain(p)
<1>1. /\ dtype' = dtype /\ dnlink' = dnlink /\ dent' = dent /\ dotdot' = dotdot
      /\ lock' = lock /\ stray' = stray /\ calls' = calls
  BY DEF disk, history
<1>2. calls \in Nat
  BY DEF PInv, TypeOK
<1> QED BY <1>1, <1>2 DEF Plain, Holding

\* The inode of namex is in use.
LEMMA WalkAt ==
  ASSUME PInv, NEW p \in Process, pc[p] \in {"walk", "at"}
  PROVE  /\ w[p] \in Slot /\ icache[w[p]].ref > 0 /\ icache[w[p]].inum \in Inum
<1>0. TypeOK /\ Was(p) /\ CallInv /\ RefInv /\ CacheInv
  BY Before
<1>1. w[p] \in Slot
  BY <1>0 DEF Was, CallAt, Typed
<1> QED BY <1>0, <1>1, InUseBy

LEMMA PWalkFails ==
  ASSUME PInv, NEW p \in Process, WalkFails(p)
  PROVE  PInv'
<1>1. pc[p] = "walk" /\ puts[p] = << >> /\ PutW(p, failed(p))
  BY DEF WalkFails
<1>2. Keeps(icache')
  <2>1. CASE icache' = icache
    BY <2>1, StayKeeps
  <2>2. CASE Ilock(w[p]) /\ icache' = [icache EXCEPT ![w[p]] = ilocked(w[p])]
    BY <1>1, <2>2, WalkAt, ReadKeeps
  <2> QED BY <2>1, <2>2 DEF WalkFails
<1>3. UNCHANGED <<disk, lock, history>> /\ UNCHANGED <<req, path, ip, iph, cwd, files>>
  BY DEF WalkFails
<1>4. Plain(p)
  BY <1>1, <1>3, PlainIf
<1> QED BY <1>1, <1>2, <1>3, <1>4, PPutW

LEMMA PWalkEnd ==
  ASSUME PInv, NEW p \in Process, WalkEnd(p)
  PROVE  PInv'
<1>0. TypeOK /\ Was(p) /\ icache \in [Slot -> Entry]
  BY Before
<1>1. pc[p] = "walk" /\ puts[p] = << >> /\ iph[p] = "no"
  BY <1>0 DEF WalkEnd, Was, CallAt
<1>2. Keeps(icache')
  <2>1. CASE icache' = icache
    BY <2>1, StayKeeps
  <2>2. CASE Ilock(w[p]) /\ icache' = [icache EXCEPT ![w[p]] = ilocked(w[p])]
    BY <1>1, <2>2, WalkAt, ReadKeeps
  <2> QED BY <2>1, <2>2 DEF WalkEnd
<1>3. UNCHANGED <<disk, lock, history>>
  BY DEF WalkEnd
<1>4. Plain(p)
  BY <1>1, <1>3, PlainIf
<1>5. Goes(p, "at", req[p], path[p], w[p], ip[p], puts[p], "no", cwd[p], files[p])
  <2>1. pc' = [pc EXCEPT ![p] = "at"] /\ UNCHANGED <<req, path, w, ip, puts, iph, cwd, files>>
    BY DEF WalkEnd, local
  <2> QED BY <1>0, <1>1, <2>1, Stays, Zenon DEF Goes
<1>6. Typed("at", req[p], path[p], w[p], ip[p], puts[p], "no", cwd[p], files[p])
  BY <1>0, Zenon DEF Was, Typed, Points
<1>7. CallAt("at", req[p], path[p], w[p], ip[p], puts[p], "no")
  <2>1. req[p].op \in ParentOps \cup {"unlink"} \/ ip[p] # None => Len(path[p]) = 1
    BY DEF WalkEnd, wants_parent, ParentOps
  <2>2. CallAt(pc[p], req[p], path[p], w[p], ip[p], puts[p], iph[p])
    BY <1>0 DEF Was
  <2> QED BY <1>1, <2>1, <2>2 DEF CallAt
<1>8. Legal(p, "at", req[p], path[p], w[p], ip[p], puts[p], "no", cwd[p], files[p])
  <2>1. "at" \notin Holding
    BY DEF Holding
  <2> QED BY <1>4, <1>6, <1>7, <2>1, PlainLegal
<1>9. SharedTypes' /\ CacheInv'
  BY <1>2, <1>4, <1>5, PlainCache DEF Keeps
<1>10. RefInv'
  <2>1. \A t \in Slot : icache'[t].ref = icache[t].ref
    BY <1>2 DEF Keeps
  <2> QED BY <1>5, <2>1, SameRefs
<1> QED BY <1>5, <1>8, <1>9, <1>10, PStep

LEMMA PWalkNext ==
  ASSUME PInv, NEW p \in Process, WalkNext(p)
  PROVE  PInv'
<1>0. TypeOK /\ Was(p) /\ icache \in [Slot -> Entry]
  BY Before
<1>1. pc[p] = "walk" /\ puts[p] = << >> /\ iph[p] = "no" /\ path[p] # << >>
  BY <1>0 DEF WalkNext, Was, CallAt
<1>2. PICK s \in Slot : s = w[p] /\ icache[s].ref > 0 /\ icache[s].inum \in Inum
  BY <1>1, WalkAt
<1>3. PICK c : c = [icache EXCEPT ![s] = ilocked(s)]
  OBVIOUS
<1>4. PICK i : i = dirlookup(ilocked(s).inum, Head(path[p]))
  OBVIOUS
<1>5. /\ Ilock(s) /\ i # 0 /\ room(c, i) /\ icache' = iget(c, i)
      /\ w' = [w EXCEPT ![p] = iget_slot(c, i)] /\ puts' = [puts EXCEPT ![p] = <<s>>]
      /\ path' = [path EXCEPT ![p] = Tail(path[p])]
  BY <1>2, <1>3, <1>4, Zenon DEF WalkNext
<1>6. i \in Inum
  <2>1. ilocked(s).inum = icache[s].inum
    <3>1. Keeps(c) /\ c[s] = ilocked(s)
      BY <1>2, <1>3, <1>5, ReadKeeps
    <3> QED BY <3>1 DEF Keeps
  <2> QED BY <1>0, <1>1, <1>2, <1>4, <1>5, <2>1, HeadName, Looked
<1>7. PICK u : u = iget_slot(c, i)
  OBVIOUS
<1>8. Adds(icache', u)
  BY <1>2, <1>3, <1>5, <1>6, <1>7, ReadGet
<1>9. UNCHANGED <<disk, lock, history>>
  BY DEF WalkNext
<1>10. Plain(p)
  BY <1>1, <1>9, PlainIf
<1>11. Goes(p, "walk", req[p], Tail(path[p]), u, ip[p], <<s>>, "no", cwd[p], files[p])
  <2>1. UNCHANGED <<pc, req, ip, iph, cwd, files>>
    BY DEF WalkNext
  <2> QED BY <1>0, <1>1, <1>5, <1>7, <2>1, Stays, Zenon DEF Goes
<1>12. Typed("walk", req[p], Tail(path[p]), u, ip[p], <<s>>, "no", cwd[p], files[p])
  <2>1. <<s>> \in Seq(Slot) /\ u \in Slot
    BY <1>8 DEF Adds
  <2>2. Tail(path[p]) \in Seq(Name \cup {".", ".."})
    BY <1>0, <1>1, HeadName
  <2> QED BY <1>0, <2>1, <2>2, Zenon DEF Was, Typed, Points
<1>13. CallAt("walk", req[p], Tail(path[p]), u, ip[p], <<s>>, "no")
  <2>1. Len(<<s>>) = 1 /\ u # None
    BY <1>8, Bounds DEF Adds
  <2>2. /\ req[p] \in [op : Ops, new : Path]
        /\ ip[p] # None => req[p].op = "link"
    BY <1>0, <1>1 DEF Was, CallAt
  <2> QED BY <2>1, <2>2 DEF CallAt
<1>14. SoundCache
  BY <1>8 DEF SoundCache, Adds
<1>15. PlainRefs(p, u, ip[p], <<s>>, cwd[p])
  <2> SUFFICES ASSUME NEW t \in Slot
               PROVE  icache'[t].ref = icache[t].ref + HoldsAt(u, ip[p], <<s>>, cwd[p], t)
                                  - (Hit(cwd[p], t) + Hit(w[p], t) + Hit(ip[p], t))
    BY DEF PlainRefs
  <2>1. icache'[t].ref = icache[t].ref + Hit(u, t) /\ icache[t].ref \in Nat
    BY <1>0, <1>8 DEF Entry, Adds
  <2>2. HoldsAt(u, ip[p], <<s>>, cwd[p], t)
          = Hit(cwd[p], t) + Hit(u, t) + Hit(ip[p], t) + Hit(s, t)
    BY Counts
  <2>3. /\ Hit(u, t) \in {0, 1} /\ Hit(cwd[p], t) \in {0, 1} /\ Hit(ip[p], t) \in {0, 1}
        /\ Hit(s, t) \in {0, 1}
    BY Counts
  <2> QED BY <1>2, <2>1, <2>2, <2>3
<1>16. "walk" \notin Holding
  BY DEF Holding
<1> QED BY <1>10, <1>11, <1>12, <1>13, <1>14, <1>15, <1>16, PlainStep

\* A process that uses the inode that namex found.
LEMMA AtPoint ==
  ASSUME PInv, NEW p \in Process, NEW S, At(p, S), Ilock(w[p])
  PROVE  /\ pc[p] = "at" /\ puts[p] = << >> /\ iph[p] = "no" /\ req[p].op \in S
         /\ req[p] \in [op : Ops, new : Path]
         /\ w[p] \in Slot /\ icache[w[p]].ref > 0 /\ icache[w[p]].inum \in Inum
         /\ ip[p] # None => req[p].op = "link"
         /\ Keeps([icache EXCEPT ![w[p]] = ilocked(w[p])])
         /\ [icache EXCEPT ![w[p]] = ilocked(w[p])][w[p]].valid
<1>0. Was(p)
  BY Before
<1>1. pc[p] = "at" /\ puts[p] = << >> /\ req[p].op \in S
  BY DEF At
<1>2. w[p] \in Slot /\ icache[w[p]].ref > 0 /\ icache[w[p]].inum \in Inum
  BY <1>1, WalkAt
<1>3. iph[p] = "no" /\ req[p] \in [op : Ops, new : Path] /\ (ip[p] # None => req[p].op = "link")
  BY <1>0, <1>1 DEF Was, CallAt
<1>4. /\ Keeps([icache EXCEPT ![w[p]] = ilocked(w[p])])
      /\ [icache EXCEPT ![w[p]] = ilocked(w[p])][w[p]].valid
  BY <1>2, ReadKeeps
<1> QED BY <1>1, <1>2, <1>3, <1>4

LEMMA PLinkDir ==
  ASSUME PInv, NEW p \in Process, LinkDir(p)
  PROVE  PInv'
<1>1. /\ At(p, {"link"}) /\ ip[p] = None /\ Ilock(w[p]) /\ PutW(p, "end")
      /\ icache' = [icache EXCEPT ![w[p]] = ilocked(w[p])]
  BY DEF LinkDir
<1>2. pc[p] = "at" /\ puts[p] = << >> /\ Keeps(icache')
  BY <1>1, AtPoint
<1>3. UNCHANGED <<disk, lock, history>> /\ UNCHANGED <<req, path, ip, iph, cwd, files>>
  BY DEF LinkDir
<1>4. Plain(p)
  BY <1>2, <1>3, PlainIf
<1>5. failed(p) = "end"
  BY <1>1 DEF failed
<1> QED BY <1>1, <1>2, <1>3, <1>4, <1>5, PPutW

LEMMA PChdir ==
  ASSUME PInv, NEW p \in Process, Chdir(p)
  PROVE  PInv'
<1>0. TypeOK /\ Was(p) /\ icache \in [Slot -> Entry]
  BY Before
<1>1. /\ At(p, {"chdir"}) /\ Ilock(w[p])
      /\ icache' = [icache EXCEPT ![w[p]] = ilocked(w[p])]
  BY DEF Chdir
<1>2a. /\ pc[p] = "at" /\ puts[p] = << >> /\ iph[p] = "no" /\ req[p].op \in {"chdir"}
       /\ req[p] \in [op : Ops, new : Path] /\ w[p] \in Slot
       /\ ip[p] # None => req[p].op = "link"
       /\ Keeps([icache EXCEPT ![w[p]] = ilocked(w[p])])
  BY <1>1, AtPoint
<1>2. /\ pc[p] = "at" /\ puts[p] = << >> /\ Keeps(icache') /\ iph[p] = "no" /\ w[p] \in Slot
      /\ req[p].op = "chdir" /\ ip[p] = None /\ req[p] \in [op : Ops, new : Path]
  BY <1>0, <1>1, <1>2a DEF Was, Typed
<1>3. UNCHANGED <<disk, lock, history>> /\ UNCHANGED <<req, path, ip, iph, files>>
  BY DEF Chdir
<1>4. Plain(p)
  BY <1>2, <1>3, PlainIf
<1>5. CASE PutW(p, "end") /\ cwd' = cwd
  <2>1. failed(p) = "end"
    BY <1>2 DEF failed
  <2> QED BY <1>2, <1>3, <1>4, <1>5, <2>1, PPutW
<1>6. CASE /\ puts' = [puts EXCEPT ![p] = <<left(p)>>]
           /\ cwd' = [cwd EXCEPT ![p] = w[p]]
           /\ w' = [w EXCEPT ![p] = None]
           /\ pc' = [pc EXCEPT ![p] = "end"]
  <2>1. Goes(p, "end", req[p], path[p], None, ip[p], <<cwd[p]>>, "no", w[p], files[p])
    BY <1>0, <1>2, <1>3, <1>6, Stays, Zenon DEF Goes, left
  <2>2. Typed("end", req[p], path[p], None, ip[p], <<cwd[p]>>, "no", w[p], files[p])
    <3>1. <<cwd[p]>> \in Seq(Slot)
      BY <1>0 DEF Was, Typed
    <3> QED BY <1>0, <1>2, <3>1, Zenon DEF Was, Typed, Points
  <2>3. CallAt("end", req[p], path[p], None, ip[p], <<cwd[p]>>, "no")
    BY <1>2 DEF CallAt
  <2>4. SoundCache
    BY <1>2 DEF SoundCache, Keeps
  <2>5. PlainRefs(p, None, ip[p], <<cwd[p]>>, w[p])
    <3> SUFFICES ASSUME NEW t \in Slot
                 PROVE  icache'[t].ref = icache[t].ref + HoldsAt(None, ip[p], <<cwd[p]>>, w[p], t)
                                  - (Hit(cwd[p], t) + Hit(w[p], t) + Hit(ip[p], t))
      BY DEF PlainRefs
    <3>1. icache'[t].ref = icache[t].ref /\ icache[t].ref \in Nat
      BY <1>0, <1>2 DEF Entry, Keeps
    <3>2. HoldsAt(None, ip[p], <<cwd[p]>>, w[p], t)
            = Hit(w[p], t) + Hit(None, t) + Hit(ip[p], t) + Hit(cwd[p], t)
      BY Counts
    <3>3. /\ Hit(None, t) = 0 /\ Hit(cwd[p], t) \in {0, 1} /\ Hit(ip[p], t) \in {0, 1}
          /\ Hit(w[p], t) \in {0, 1}
      BY Counts
    <3> QED BY <3>1, <3>2, <3>3
  <2>6. "end" \notin Holding
    BY DEF Holding
  <2> QED BY <1>4, <2>1, <2>2, <2>3, <2>4, <2>5, <2>6, PlainStep
<1> QED BY <1>5, <1>6 DEF Chdir

\* A descriptor gets an inode that has a pointer already, or gives it up.
PlainFiles(p, a, b, q, k, x) ==
  \A t \in Slot : icache'[t].ref = icache[t].ref + HoldsAt(a, b, q, cwd[p], t)
                                  - (Hit(cwd[p], t) + Hit(w[p], t) + Hit(ip[p], t))
                                  + Hit(x, t) - Hit(files[p][k], t)

LEMMA PlainFile ==
  ASSUME PInv, NEW p \in Process, NEW c, NEW r, NEW l, NEW a, NEW b, NEW q, NEW k \in Fd,
         NEW x, NEW f, f = [files[p] EXCEPT ![k] = x],
         Goes(p, c, r, l, a, b, q, "no", cwd[p], f), Plain(p), c \notin Holding,
         Typed(c, r, l, a, b, q, "no", cwd[p], f), CallAt(c, r, l, a, b, q, "no"),
         SoundCache, PlainFiles(p, a, b, q, k, x)
  PROVE  PInv'
<1>1. Legal(p, c, r, l, a, b, q, "no", cwd[p], f)
  BY PlainLegal
<1>2. SharedTypes' /\ CacheInv'
  BY PlainCache DEF SoundCache
<1>3. RefInv'
  <2>1. ASSUME NEW t \in Slot
        PROVE  icache'[t].ref = icache[t].ref + HoldsAt(a, b, q, cwd[p], t)
                                  - HoldsAt(w[p], ip[p], puts[p], cwd[p], t)
                                  + Hit(x, t) - Hit(files[p][k], t)
    <3>1. HoldsAt(w[p], ip[p], puts[p], cwd[p], t) = Hit(cwd[p], t) + Hit(w[p], t) + Hit(ip[p], t)
      BY Counts DEF Plain
    <3> QED BY <3>1 DEF PlainFiles
  <2>2. TypeOK /\ RefInv
    BY Before
  <2>3. FileRefs(p, a, b, q, cwd[p], k, x)
    BY <2>1 DEF FileRefs
  <2> QED BY <2>2, <2>3, FileStep
<1> QED BY <1>1, <1>2, <1>3, PStep

LEMMA PClose ==
  ASSUME PInv, NEW p \in Process, Close(p)
  PROVE  PInv'
<1>0. TypeOK /\ Was(p) /\ icache \in [Slot -> Entry] /\ SharedTypes /\ Keeps(icache)
  BY Before, StayKeeps
<1>1. /\ pc[p] = "user" /\ puts[p] = << >> /\ w[p] = None /\ ip[p] = None /\ iph[p] = "no"
      /\ files[p] \in [Fd -> Slot \cup {None}]
  BY <1>0 DEF Close, Was, CallAt, Typed
<1>2. PICK k \in Fd : /\ files[p][k] # None
                      /\ puts' = [puts EXCEPT ![p] = <<files[p][k]>>]
                      /\ files' = [files EXCEPT ![p][k] = None]
  BY DEF Close
<1>3. PICK s \in Slot : s = files[p][k]
  BY <1>1, <1>2
<1>4. PICK f : f = [files[p] EXCEPT ![k] = None]
  OBVIOUS
<1>5. f \in [Fd -> Slot \cup {None}]
  BY <1>1, <1>4
<1>6. files' = [files EXCEPT ![p] = f]
  BY <1>0, <1>2, <1>4
<1>7. Goes(p, "end", req[p], path[p], None, None, <<s>>, "no", cwd[p], f)
  <2>1. /\ req' = req /\ path' = path /\ w' = w /\ ip' = ip /\ iph' = iph /\ cwd' = cwd
        /\ pc' = [pc EXCEPT ![p] = "end"]
    BY DEF Close
  <2> QED BY <1>0, <1>1, <1>2, <1>3, <1>6, <2>1, Stays, Zenon DEF Goes
<1>8. Plain(p)
  <2>1. /\ dtype' = dtype /\ dnlink' = dnlink /\ dent' = dent /\ dotdot' = dotdot
        /\ lock' = lock /\ stray' = stray /\ calls' = calls + 1
    BY DEF Close, disk
  <2>2. calls \in Nat
    BY <1>0 DEF SharedTypes
  <2> QED BY <1>1, <2>1, <2>2 DEF Plain, Holding
<1>9. Typed("end", req[p], path[p], None, None, <<s>>, "no", cwd[p], f)
  <2>1. <<s>> \in Seq(Slot)
    OBVIOUS
  <2> QED BY <1>0, <1>5, <2>1, Zenon DEF Was, Typed, Points
<1>10. CallAt("end", req[p], path[p], None, None, <<s>>, "no")
  BY DEF CallAt
<1>11. icache' = icache
  BY DEF Close
<1>12. SoundCache
  BY <1>0, <1>11 DEF SoundCache, Keeps
<1>13. PlainFiles(p, None, None, <<s>>, k, None)
  <2> SUFFICES ASSUME NEW t \in Slot
               PROVE  icache'[t].ref = icache[t].ref + HoldsAt(None, None, <<s>>, cwd[p], t)
                                  - (Hit(cwd[p], t) + Hit(w[p], t) + Hit(ip[p], t))
                                  + Hit(None, t) - Hit(files[p][k], t)
    BY DEF PlainFiles
  <2>1. icache[t].ref \in Nat
    BY <1>0 DEF Entry
  <2>2. HoldsAt(None, None, <<s>>, cwd[p], t)
          = Hit(cwd[p], t) + Hit(None, t) + Hit(None, t) + Hit(s, t)
    BY Counts
  <2>3. /\ Hit(None, t) = 0 /\ Hit(cwd[p], t) \in {0, 1} /\ Hit(s, t) \in {0, 1}
    BY Counts
  <2> QED BY <1>1, <1>3, <1>11, <2>1, <2>2, <2>3
<1>14. "end" \notin Holding
  BY DEF Holding
<1> QED BY <1>4, <1>7, <1>8, <1>9, <1>10, <1>12, <1>13, <1>14, PlainFile

LEMMA POpen ==
  ASSUME PInv, NEW p \in Process, Open(p)
  PROVE  PInv'
<1>0. TypeOK /\ Was(p) /\ icache \in [Slot -> Entry]
  BY Before
<1>1. /\ At(p, {"open"}) /\ Ilock(w[p])
      /\ icache' = [icache EXCEPT ![w[p]] = ilocked(w[p])]
  BY DEF Open
<1>2a. /\ pc[p] = "at" /\ puts[p] = << >> /\ iph[p] = "no" /\ req[p].op \in {"open"}
       /\ req[p] \in [op : Ops, new : Path] /\ w[p] \in Slot
       /\ ip[p] # None => req[p].op = "link"
       /\ Keeps([icache EXCEPT ![w[p]] = ilocked(w[p])])
  BY <1>1, AtPoint
<1>2. /\ pc[p] = "at" /\ puts[p] = << >> /\ Keeps(icache') /\ iph[p] = "no" /\ w[p] \in Slot
      /\ req[p].op = "open" /\ ip[p] = None /\ files[p] \in [Fd -> Slot \cup {None}]
  BY <1>0, <1>1, <1>2a DEF Was, Typed
<1>3. UNCHANGED <<disk, lock, history>> /\ UNCHANGED <<req, path, ip, iph, cwd>>
  BY DEF Open
<1>4. Plain(p)
  BY <1>2, <1>3, PlainIf
<1>5. CASE PutW(p, "end") /\ files' = files
  <2>1. failed(p) = "end"
    BY <1>2 DEF failed
  <2> QED BY <1>2, <1>3, <1>4, <1>5, <2>1, PPutW
<1>6. CASE /\ fdalloc(p, w[p]) /\ w' = [w EXCEPT ![p] = None]
           /\ pc' = [pc EXCEPT ![p] = "end"] /\ puts' = puts
  <2>1. PICK k \in Fd : files[p][k] = None /\ files' = [files EXCEPT ![p][k] = w[p]]
    BY <1>6 DEF fdalloc
  <2>2. PICK f : f = [files[p] EXCEPT ![k] = w[p]]
    OBVIOUS
  <2>3. f \in [Fd -> Slot \cup {None}] /\ files' = [files EXCEPT ![p] = f]
    BY <1>0, <1>2, <2>1, <2>2
  <2>4. Goes(p, "end", req[p], path[p], None, None, << >>, "no", cwd[p], f)
    BY <1>0, <1>2, <1>3, <1>6, <2>3, Stays, Zenon DEF Goes
  <2>5. Typed("end", req[p], path[p], None, None, << >>, "no", cwd[p], f)
    <3>1. << >> \in Seq(Slot)
      OBVIOUS
    <3> QED BY <1>0, <2>3, <3>1, Zenon DEF Was, Typed, Points
  <2>6. CallAt("end", req[p], path[p], None, None, << >>, "no")
    BY DEF CallAt
  <2>7. SoundCache
    BY <1>2 DEF SoundCache, Keeps
  <2>8. PlainFiles(p, None, None, << >>, k, w[p])
    <3> SUFFICES ASSUME NEW t \in Slot
                 PROVE  icache'[t].ref = icache[t].ref + HoldsAt(None, None, << >>, cwd[p], t)
                                  - (Hit(cwd[p], t) + Hit(w[p], t) + Hit(ip[p], t))
                                  + Hit(w[p], t) - Hit(files[p][k], t)
      BY DEF PlainFiles
    <3>1. icache'[t].ref = icache[t].ref /\ icache[t].ref \in Nat
      BY <1>0, <1>2 DEF Entry, Keeps
    <3>2. HoldsAt(None, None, << >>, cwd[p], t)
            = Hit(cwd[p], t) + Hit(None, t) + Hit(None, t)
      BY Counts
    <3>3. /\ Hit(None, t) = 0 /\ Hit(cwd[p], t) \in {0, 1} /\ Hit(w[p], t) \in {0, 1}
      BY Counts
    <3> QED BY <1>2, <2>1, <3>1, <3>2, <3>3
  <2>9. "end" \notin Holding
    BY DEF Holding
  <2> QED BY <1>4, <2>2, <2>4, <2>5, <2>6, <2>7, <2>8, <2>9, PlainFile
<1> QED BY <1>5, <1>6 DEF Open

\* A step that takes or releases locks of a call.
CallLocks(p, c, a, b) == \A t \in Slot : lock'[t] = p <=> InCall(c, a, b, t)

LEMMA LegalIf ==
  ASSUME NEW p \in Process, NEW c, NEW r, NEW l, NEW a, NEW b, NEW q, NEW d, NEW f,
         Typed(c, r, l, a, b, q, "no", d, f), CallAt(c, r, l, a, b, q, "no"), OwnLocks(p),
         CallLocks(p, c, a, b)
  PROVE  Legal(p, c, r, l, a, b, q, "no", d, f)
<1>1. \A t \in Slot : ~InIput(q, "no", t)
  BY DEF InIput
<1> QED BY <1>1 DEF Legal, CallLocks

\* The locks of p outside iput are those of its call.
LEMMA HeldNow ==
  ASSUME PInv, NEW p \in Process, iph[p] = "no", NEW t \in Slot
  PROVE  lock[t] = p <=> InCall(pc[p], w[p], ip[p], t)
<1>1. Was(p)
  BY Before
<1> QED BY <1>1 DEF Was, LocksOf, InIput

\* The name that is looked up in the directory of the last name.
LEMMA AtName ==
  ASSUME PInv, NEW p \in Process, pc[p] = "at", NEW i,
         req[p].op \in {"creat", "mkdir", "mknod", "unlink"} \/ ip[p] # None,
         i = dirlookup(icache[w[p]].inum, Head(path[p]))
  PROVE  /\ i # 0 => i \in Inum
         /\ Len(path[p]) = 1 /\ Head(path[p]) \in Name \cup {".", ".."}
<1>0. TypeOK /\ Was(p)
  BY Before
<1>1. Len(path[p]) = 1
  BY <1>0 DEF Was, CallAt, ParentOps
<1>2. path[p] # << >>
  BY <1>1
<1>3. Head(path[p]) \in Name \cup {".", ".."}
  BY <1>0, <1>2, HeadName
<1>4. icache[w[p]].inum \in Inum
  BY WalkAt
<1>5. i \in Inum \cup {0}
  BY <1>0, <1>3, <1>4, Looked
<1> QED BY <1>1, <1>3, <1>5

LEMMA PCreateExists ==
  ASSUME PInv, NEW p \in Process, CreateExists(p)
  PROVE  PInv'
<1>0. TypeOK /\ Was(p) /\ icache \in [Slot -> Entry]
  BY Before
<1>1. At(p, ParentOps) /\ Ilock(w[p])
  BY DEF CreateExists
<1>2. /\ pc[p] = "at" /\ puts[p] = << >> /\ iph[p] = "no" /\ req[p].op \in ParentOps
      /\ req[p] \in [op : Ops, new : Path] /\ (ip[p] # None => req[p].op = "link")
      /\ w[p] \in Slot /\ icache[w[p]].ref > 0 /\ icache[w[p]].inum \in Inum
  BY <1>1, AtPoint
<1>3. ip[p] = None
  BY <1>2 DEF ParentOps
<1>4. PICK c : c = [icache EXCEPT ![w[p]] = ilocked(w[p])]
  OBVIOUS
<1>5. PICK i : i = dirlookup(icache[w[p]].inum, Head(path[p]))
  OBVIOUS
<1>6. /\ i # 0 /\ room(c, i) /\ icache' = iget(c, i)
      /\ ip' = [ip EXCEPT ![p] = iget_slot(c, i)] /\ PutW(p, "exists")
  BY <1>4, <1>5, Zenon DEF CreateExists
<1>7. UNCHANGED <<disk, lock, history>> /\ UNCHANGED <<req, path, iph, cwd, files>>
  BY DEF CreateExists
<1>8. Plain(p)
  BY <1>2, <1>7, PlainIf
<1>9. i \in Inum
  BY <1>0, <1>2, <1>5, <1>6, AtName DEF ParentOps
<1>10. PICK u : u = iget_slot(c, i)
  OBVIOUS
<1>11. Adds(icache', u)
  BY <1>1, <1>2, <1>4, <1>6, <1>9, <1>10, ReadGet
<1>12. u \in Slot /\ u # None
  BY <1>11, Bounds DEF Adds
<1>13. Goes(p, "exists", req[p], path[p], None, u, <<w[p]>>, "no", cwd[p], files[p])
  BY <1>0, <1>2, <1>6, <1>7, <1>10, Stays, Zenon DEF Goes, PutW
<1>14. Typed("exists", req[p], path[p], None, u, <<w[p]>>, "no", cwd[p], files[p])
  <2>1. <<w[p]>> \in Seq(Slot)
    BY <1>2
  <2> QED BY <1>0, <1>12, <2>1, Zenon DEF Was, Typed, Points
<1>15. CallAt("exists", req[p], path[p], None, u, <<w[p]>>, "no")
  <2>1. Len(<<w[p]>>) = 1
    OBVIOUS
  <2> QED BY <1>2, <1>12, <2>1 DEF CallAt
<1>16. SoundCache
  BY <1>11 DEF SoundCache, Adds
<1>17. PlainRefs(p, None, u, <<w[p]>>, cwd[p])
  <2> SUFFICES ASSUME NEW t \in Slot
               PROVE  icache'[t].ref = icache[t].ref + HoldsAt(None, u, <<w[p]>>, cwd[p], t)
                                  - (Hit(cwd[p], t) + Hit(w[p], t) + Hit(ip[p], t))
    BY DEF PlainRefs
  <2>1. icache'[t].ref = icache[t].ref + Hit(u, t) /\ icache[t].ref \in Nat
    BY <1>0, <1>11 DEF Entry, Adds
  <2>2. HoldsAt(None, u, <<w[p]>>, cwd[p], t)
          = Hit(cwd[p], t) + Hit(None, t) + Hit(u, t) + Hit(w[p], t)
    BY Counts
  <2>3. /\ Hit(u, t) \in {0, 1} /\ Hit(cwd[p], t) \in {0, 1} /\ Hit(None, t) = 0
        /\ Hit(w[p], t) \in {0, 1}
    BY Counts
  <2> QED BY <1>3, <2>1, <2>2, <2>3
<1>18. "exists" \notin Holding
  BY DEF Holding
<1> QED BY <1>8, <1>13, <1>14, <1>15, <1>16, <1>17, <1>18, PlainStep

LEMMA PUnlinkLookup ==
  ASSUME PInv, NEW p \in Process, UnlinkLookup(p)
  PROVE  PInv'
<1>0. /\ TypeOK /\ Was(p) /\ icache \in [Slot -> Entry] /\ SharedTypes /\ RefInv
      /\ lock \in [Slot -> Process \cup {None}]
  BY Before DEF SharedTypes
<1>1. At(p, {"unlink"}) /\ Ilock(w[p])
  BY DEF UnlinkLookup
<1>2a. /\ pc[p] = "at" /\ puts[p] = << >> /\ iph[p] = "no" /\ req[p].op \in {"unlink"}
       /\ req[p] \in [op : Ops, new : Path] /\ (ip[p] # None => req[p].op = "link")
       /\ w[p] \in Slot /\ icache[w[p]].ref > 0 /\ icache[w[p]].inum \in Inum
       /\ Keeps([icache EXCEPT ![w[p]] = ilocked(w[p])])
  BY <1>1, AtPoint
<1>2. req[p].op = "unlink" /\ ip[p] = None
  BY <1>2a
<1>4. PICK c : c = [icache EXCEPT ![w[p]] = ilocked(w[p])]
  OBVIOUS
<1>5. PICK i : i = dirlookup(icache[w[p]].inum, Head(path[p]))
  OBVIOUS
<1>6. UNCHANGED <<disk, history>> /\ UNCHANGED <<req, path, iph, cwd, files>>
  BY DEF UnlinkLookup
<1>7. CASE icache' = c /\ PutW(p, "end") /\ UNCHANGED <<ip, lock>>
  <2>1. failed(p) = "end"
    BY <1>2 DEF failed
  <2>2. UNCHANGED <<disk, lock, history>> /\ UNCHANGED <<req, path, ip, iph, cwd, files>>
    BY <1>6, <1>7
  <2>3. Plain(p)
    BY <1>2a, <2>2, PlainIf
  <2> QED BY <1>2a, <1>4, <1>7, <2>1, <2>2, <2>3, PPutW
<1>8. CASE /\ i # 0 /\ room(c, i)
           /\ icache' = iget(c, i)
           /\ ip' = [ip EXCEPT ![p] = iget_slot(c, i)]
           /\ lock' = [lock EXCEPT ![w[p]] = p]
           /\ pc' = [pc EXCEPT ![p] = "unlink"]
           /\ UNCHANGED <<puts, w>>
  <2>1. i \in Inum
    BY <1>0, <1>2, <1>2a, <1>5, <1>8, AtName
  <2>2. PICK u : u = iget_slot(c, i)
    OBVIOUS
  <2>3. Adds(icache', u) /\ icache'[w[p]].valid
    BY <1>1, <1>2a, <1>4, <1>8, <2>1, <2>2, ReadGet
  <2>4. u \in Slot /\ u # None
    BY <2>3, Bounds DEF Adds
  <2>5. Goes(p, "unlink", req[p], path[p], w[p], u, << >>, "no", cwd[p], files[p])
    <3>1. req' = req /\ path' = path /\ iph' = iph /\ cwd' = cwd /\ files' = files
          /\ puts' = puts /\ w' = w
      BY <1>6, <1>8
    <3> QED BY <1>0, <1>2a, <1>8, <2>2, <3>1, Stays, Zenon DEF Goes
  <2>6. Typed("unlink", req[p], path[p], w[p], u, << >>, "no", cwd[p], files[p])
    <3>1. << >> \in Seq(Slot)
      OBVIOUS
    <3> QED BY <1>0, <2>4, <3>1, Zenon DEF Was, Typed, Points
  <2>7. CallAt("unlink", req[p], path[p], w[p], u, << >>, "no")
    <3>1. w[p] # None /\ Len(path[p]) = 1
      BY <1>0, <1>2, <1>2a, Bounds DEF Was, CallAt
    <3> QED BY <1>2, <1>2a, <2>4, <3>1 DEF CallAt
  <2>8. lock[w[p]] = None
    BY <1>1 DEF Ilock, Free
  <2>9. OwnLocks(p)
    BY <1>0, <1>2a, <1>8, <2>8 DEF OwnLocks
  <2>10. CallLocks(p, "unlink", w[p], u)
    <3>1. ASSUME NEW t \in Slot PROVE lock[t] # p
      <4>1. ~InCall(pc[p], w[p], ip[p], t)
        BY <1>2a DEF InCall
      <4> QED BY <1>2a, <4>1, HeldNow
    <3>2. \A t \in Slot : lock'[t] = IF t = w[p] THEN p ELSE lock[t]
      BY <1>0, <1>8
    <3> QED BY <3>1, <3>2 DEF CallLocks, InCall
  <2>11. Legal(p, "unlink", req[p], path[p], w[p], u, << >>, "no", cwd[p], files[p])
    BY <2>6, <2>7, <2>9, <2>10, LegalIf
  <2>12. SharedTypes'
    <3>1. dtype' = dtype /\ dnlink' = dnlink /\ dent' = dent /\ dotdot' = dotdot
          /\ calls' = calls /\ stray' = stray
      BY <1>6 DEF disk, history
    <3>2. lock' \in [Slot -> Process \cup {None}] /\ icache' \in [Slot -> Entry]
      BY <1>0, <1>8, <2>3 DEF Adds
    <3> QED BY <1>0, <3>1, <3>2 DEF SharedTypes
  <2>13. RefInv'
    <3>1. ASSUME NEW t \in Slot
          PROVE  icache'[t].ref = icache[t].ref + HoldsAt(w[p], u, << >>, cwd[p], t)
                                     - HoldsAt(w[p], ip[p], puts[p], cwd[p], t)
      <4>1. icache'[t].ref = icache[t].ref + Hit(u, t) /\ icache[t].ref \in Nat
        BY <1>0, <2>3 DEF Entry, Adds
      <4>2. HoldsAt(w[p], u, << >>, cwd[p], t) = Hit(cwd[p], t) + Hit(w[p], t) + Hit(u, t)
        BY Counts
      <4>3. HoldsAt(w[p], ip[p], puts[p], cwd[p], t)
              = Hit(cwd[p], t) + Hit(w[p], t) + Hit(None, t)
        BY <1>2, <1>2a, Counts
      <4>4. /\ Hit(u, t) \in {0, 1} /\ Hit(cwd[p], t) \in {0, 1} /\ Hit(None, t) = 0
            /\ Hit(w[p], t) \in {0, 1}
        BY Counts
      <4> QED BY <4>1, <4>2, <4>3, <4>4
    <3>2. MoveRefs(p, w[p], u, << >>, cwd[p])
      BY <3>1 DEF MoveRefs
    <3> QED BY <1>0, <2>5, <3>2, RefMove
  <2>14. CacheInv'
    <3>1. dtype' = dtype /\ dnlink' = dnlink
      BY <1>6 DEF disk
    <3>2. Exact(icache', dtype', dnlink', Inval)
      BY <2>3, <3>1 DEF Adds
    <3>3. LockedValid(icache', lock')
      <4>1. \A t \in Slot : t # w[p] => lock'[t] = lock[t]
        BY <1>0, <1>8
      <4> QED BY <2>3, <4>1 DEF LockedValid, Adds
    <3>4. iph[p] # "invalid"
      BY <1>2a
    <3> QED BY <2>5, <3>2, <3>3, <3>4, CacheStep
  <2> QED BY <2>5, <2>11, <2>12, <2>13, <2>14, PStep
<1> QED BY <1>4, <1>5, <1>7, <1>8, Zenon DEF UnlinkLookup

\* ialloc takes an inode that no valid entry of the cache has.
LEMMA Allocates ==
  ASSUME NEW c, NEW dt, NEW dn, NEW S, Exact(c, dt, dn, S), NEW i \in Inum, dt[i] = "free",
         NEW et, NEW en, \A j \in Inum : j # i => et[j] = dt[j] /\ en[j] = dn[j]
  PROVE  Exact(c, et, en, S)
<1>1. ASSUME NEW s \in Slot, c[s].ref > 0, c[s].valid, s \notin S
      PROVE  Agrees(c[s], et, en)
  <2>1. Agrees(c[s], dt, dn) /\ c[s].inum \in Inum
    BY <1>1 DEF Exact
  <2>2. c[s].inum # i
    BY <2>1 DEF Agrees
  <2> QED BY <2>1, <2>2 DEF Agrees
<1> QED BY <1>1 DEF Exact

LEMMA PCreateAlloc ==
  ASSUME PInv, NEW p \in Process, CreateAlloc(p)
  PROVE  PInv'
<1>0. /\ TypeOK /\ Was(p) /\ icache \in [Slot -> Entry] /\ SharedTypes /\ RefInv
      /\ lock \in [Slot -> Process \cup {None}]
      /\ dtype \in [Inum -> Types] /\ dnlink \in [Inum -> Int]
  BY Before DEF SharedTypes
<1>1. At(p, ParentOps) /\ Ilock(w[p])
  BY DEF CreateAlloc
<1>2. /\ pc[p] = "at" /\ puts[p] = << >> /\ iph[p] = "no" /\ req[p].op \in ParentOps
      /\ req[p] \in [op : Ops, new : Path] /\ (ip[p] # None => req[p].op = "link")
      /\ w[p] \in Slot /\ icache[w[p]].ref > 0 /\ icache[w[p]].inum \in Inum
  BY <1>1, AtPoint
<1>3. ip[p] = None
  BY <1>2 DEF ParentOps
<1>4. PICK c : c = [icache EXCEPT ![w[p]] = ilocked(w[p])]
  OBVIOUS
<1>5. PICK i : i = Min({j \in Inum : dtype[j] = "free"})
  OBVIOUS
<1>6. /\ \E j \in Inum : dtype[j] = "free"
      /\ room(c, i) /\ icache' = iget(c, i)
      /\ dtype' = [dtype EXCEPT ![i] = new_type(p)]
      /\ dnlink' = [dnlink EXCEPT ![i] = 0]
      /\ ip' = [ip EXCEPT ![p] = iget_slot(c, i)]
      /\ lock' = [lock EXCEPT ![w[p]] = p]
      /\ pc' = [pc EXCEPT ![p] = "init"]
  BY <1>4, <1>5, Zenon DEF CreateAlloc
<1>6a. /\ dent' = dent /\ dotdot' = dotdot /\ calls' = calls /\ stray' = stray
       /\ req' = req /\ path' = path /\ w' = w /\ puts' = puts /\ iph' = iph
       /\ cwd' = cwd /\ files' = files
  BY DEF CreateAlloc, history
<1>7. i \in Inum /\ dtype[i] = "free"
  <2> DEFINE Z == {j \in Inum : dtype[j] = "free"}
  <2>1. Z \in SUBSET Nat /\ Z # {}
    BY <1>6, Bounds
  <2>2. Min(Z) \in Z
    BY <2>1, LeastOf
  <2> QED BY <1>5, <2>2
<1>8. PICK u : u = iget_slot(c, i)
  OBVIOUS
<1>9. Adds(icache', u) /\ icache'[w[p]].valid
  BY <1>1, <1>2, <1>4, <1>6, <1>7, <1>8, ReadGet
<1>10. u \in Slot /\ u # None
  BY <1>9, Bounds DEF Adds
<1>11. Goes(p, "init", req[p], path[p], w[p], u, << >>, "no", cwd[p], files[p])
  BY <1>0, <1>2, <1>6, <1>6a, <1>8, Stays, Zenon DEF Goes
<1>12. Typed("init", req[p], path[p], w[p], u, << >>, "no", cwd[p], files[p])
  <2>1. << >> \in Seq(Slot)
    OBVIOUS
  <2> QED BY <1>0, <1>10, <2>1, Zenon DEF Was, Typed, Points
<1>13. CallAt("init", req[p], path[p], w[p], u, << >>, "no")
  <2>1. w[p] # None /\ Len(path[p]) = 1
    BY <1>0, <1>2, Bounds DEF Was, CallAt
  <2> QED BY <1>2, <1>10, <2>1 DEF CallAt
<1>14. lock[w[p]] = None
  BY <1>1 DEF Ilock, Free
<1>15. OwnLocks(p)
  BY <1>0, <1>2, <1>6, <1>14 DEF OwnLocks
<1>16. CallLocks(p, "init", w[p], u)
  <2>1. ASSUME NEW t \in Slot PROVE lock[t] # p
    <3>1. ~InCall(pc[p], w[p], ip[p], t)
      BY <1>2 DEF InCall
    <3> QED BY <1>2, <3>1, HeldNow
  <2>2. \A t \in Slot : lock'[t] = IF t = w[p] THEN p ELSE lock[t]
    BY <1>0, <1>6
  <2> QED BY <2>1, <2>2 DEF CallLocks, InCall
<1>17. Legal(p, "init", req[p], path[p], w[p], u, << >>, "no", cwd[p], files[p])
  BY <1>12, <1>13, <1>15, <1>16, LegalIf
<1>18. SharedTypes'
  <2>1. new_type(p) \in Types
    BY <1>2 DEF new_type, ParentOps, Types
  <2>2a. /\ dtype' = [dtype EXCEPT ![i] = new_type(p)] /\ dnlink' = [dnlink EXCEPT ![i] = 0]
         /\ dtype \in [Inum -> Types] /\ dnlink \in [Inum -> Int]
    BY <1>0, <1>6
  <2>2b. PICK y \in Types : dtype' = [dtype EXCEPT ![i] = y]
    BY <2>1, <2>2a
  <2>2c. dtype' \in [Inum -> Types]
    BY <2>2a, <2>2b
  <2>2d. dnlink' \in [Inum -> Int]
    <3>0. 0 \in Int
      OBVIOUS
    <3>1. PICK z \in Int : dnlink' = [dnlink EXCEPT ![i] = z]
      BY <2>2a, <3>0, Zenon
    <3>2. dnlink \in [Inum -> Int]
      BY <2>2a
    <3> QED BY <3>1, <3>2
  <2>2. dtype' \in [Inum -> Types] /\ dnlink' \in [Inum -> Int]
    BY <2>2c, <2>2d
  <2>3. lock' \in [Slot -> Process \cup {None}] /\ icache' \in [Slot -> Entry]
    BY <1>0, <1>6, <1>9 DEF Adds
  <2> QED BY <1>0, <1>6a, <2>2, <2>3 DEF SharedTypes
<1>19. RefInv'
  <2>1. ASSUME NEW t \in Slot
        PROVE  icache'[t].ref = icache[t].ref + HoldsAt(w[p], u, << >>, cwd[p], t)
                                   - HoldsAt(w[p], ip[p], puts[p], cwd[p], t)
    <3>1. icache'[t].ref = icache[t].ref + Hit(u, t) /\ icache[t].ref \in Nat
      BY <1>0, <1>9 DEF Entry, Adds
    <3>2. HoldsAt(w[p], u, << >>, cwd[p], t) = Hit(cwd[p], t) + Hit(w[p], t) + Hit(u, t)
      BY Counts
    <3>3. HoldsAt(w[p], ip[p], puts[p], cwd[p], t)
            = Hit(cwd[p], t) + Hit(w[p], t) + Hit(None, t)
      BY <1>2, <1>3, Counts
    <3>4. /\ Hit(u, t) \in {0, 1} /\ Hit(cwd[p], t) \in {0, 1} /\ Hit(None, t) = 0
          /\ Hit(w[p], t) \in {0, 1}
      BY Counts
    <3> QED BY <3>1, <3>2, <3>3, <3>4
  <2>2. MoveRefs(p, w[p], u, << >>, cwd[p])
    BY <2>1 DEF MoveRefs
  <2> QED BY <1>0, <1>11, <2>2, RefMove
<1>20. CacheInv'
  <2>1. \A j \in Inum : j # i => dtype'[j] = dtype[j] /\ dnlink'[j] = dnlink[j]
    BY <1>0, <1>6
  <2>2. Exact(icache', dtype', dnlink', Inval)
    <3>1. Exact(icache', dtype, dnlink, Inval)
      BY <1>9 DEF Adds
    <3> QED BY <1>7, <2>1, <3>1, Allocates
  <2>3. LockedValid(icache', lock')
    <3>1. \A t \in Slot : t # w[p] => lock'[t] = lock[t]
      BY <1>0, <1>6
    <3> QED BY <1>9, <3>1 DEF LockedValid, Adds
  <2>4. iph[p] # "invalid"
    BY <1>2
  <2> QED BY <1>11, <2>2, <2>3, <2>4, CacheStep
<1> QED BY <1>11, <1>17, <1>18, <1>19, <1>20, PStep

\* A process that has the second inode of its call.
LEMMA IpAt ==
  ASSUME PInv, NEW p \in Process, ip[p] # None
  PROVE  ip[p] \in Slot /\ icache[ip[p]].ref > 0 /\ icache[ip[p]].inum \in Inum
<1>0. TypeOK /\ Was(p) /\ CallInv /\ RefInv /\ CacheInv
  BY Before
<1>1. ip[p] \in Slot
  BY <1>0 DEF Was, Typed
<1> QED BY <1>0, <1>1, InUseBy

LEMMA WAt ==
  ASSUME PInv, NEW p \in Process, w[p] # None
  PROVE  w[p] \in Slot /\ icache[w[p]].ref > 0 /\ icache[w[p]].inum \in Inum
<1>0. TypeOK /\ Was(p) /\ CallInv /\ RefInv /\ CacheInv
  BY Before
<1>1. w[p] \in Slot
  BY <1>0 DEF Was, Typed
<1> QED BY <1>0, <1>1, InUseBy

\* The end of a call that gives ip[p] up, with its lock.
LEMMA PPutIp ==
  ASSUME PInv, NEW p \in Process, pc[p] \in {"exists", "created", "bad", "drop"},
         puts[p] = << >>, PutIp(p), UNCHANGED <<req, path, w, iph, cwd, files>>,
         lock[ip[p]] \in {p, None},
         dtype' \in [Inum -> Types], dnlink' \in [Inum -> Int],
         UNCHANGED <<dent, dotdot, calls, stray>>,
         icache' \in [Slot -> Entry], \A t \in Slot : icache'[t].ref = icache[t].ref,
         Exact(icache', dtype', dnlink', Inval), LockedValid(icache', lock)
  PROVE  PInv'
<1>0. /\ TypeOK /\ Was(p) /\ SharedTypes /\ RefInv
      /\ lock \in [Slot -> Process \cup {None}] /\ icache \in [Slot -> Entry]
  BY Before DEF SharedTypes
<1>1. /\ ip[p] # None /\ w[p] = None /\ iph[p] = "no"
  BY <1>0 DEF Was, CallAt
<1>2. ip[p] \in Slot
  BY <1>0, <1>1 DEF Was, Typed
<1>3. /\ lock' = [lock EXCEPT ![ip[p]] = None]
      /\ puts' = [puts EXCEPT ![p] = <<ip[p]>>] /\ ip' = [ip EXCEPT ![p] = None]
      /\ pc' = [pc EXCEPT ![p] = "end"]
  BY DEF PutIp, iunlock
<1>4. Goes(p, "end", req[p], path[p], w[p], None, <<ip[p]>>, "no", cwd[p], files[p])
  <2>1. req' = req /\ path' = path /\ w' = w /\ iph' = iph /\ cwd' = cwd /\ files' = files
    OBVIOUS
  <2> QED BY <1>0, <1>1, <1>3, <2>1, Stays, Zenon DEF Goes
<1>5. Typed("end", req[p], path[p], w[p], None, <<ip[p]>>, "no", cwd[p], files[p])
  <2>1. <<ip[p]>> \in Seq(Slot)
    BY <1>2
  <2> QED BY <1>0, <2>1, Zenon DEF Was, Typed, Points
<1>6. CallAt("end", req[p], path[p], w[p], None, <<ip[p]>>, "no")
  <2>1. Len(<<ip[p]>>) = 1
    OBVIOUS
  <2> QED BY <1>1, <2>1 DEF CallAt
<1>7. \A t \in Slot : lock'[t] = IF t = ip[p] THEN None ELSE lock[t]
  BY <1>0, <1>3
<1>8. OwnLocks(p)
  BY <1>7 DEF OwnLocks
<1>9. CallLocks(p, "end", w[p], None)
  <2>1. ASSUME NEW t \in Slot PROVE lock'[t] # p
    <3>1. t # ip[p] => ~InCall(pc[p], w[p], ip[p], t)
      BY DEF InCall
    <3>2. t # ip[p] => lock[t] # p
      BY <1>1, <3>1, HeldNow
    <3> QED BY <1>7, <3>2, Bounds
  <2> QED BY <2>1 DEF CallLocks, InCall
<1>10. Legal(p, "end", req[p], path[p], w[p], None, <<ip[p]>>, "no", cwd[p], files[p])
  BY <1>5, <1>6, <1>8, <1>9, LegalIf
<1>11. SharedTypes'
  <2>1. lock' \in [Slot -> Process \cup {None}]
    BY <1>0, <1>3
  <2> QED BY <1>0, <2>1 DEF SharedTypes
<1>12. RefInv'
  <2>1. ASSUME NEW t \in Slot
        PROVE  icache'[t].ref = icache[t].ref + HoldsAt(w[p], None, <<ip[p]>>, cwd[p], t)
                                   - HoldsAt(w[p], ip[p], puts[p], cwd[p], t)
    <3>1. icache'[t].ref = icache[t].ref /\ icache[t].ref \in Nat
      BY <1>0 DEF Entry
    <3>2. HoldsAt(w[p], None, <<ip[p]>>, cwd[p], t)
            = Hit(cwd[p], t) + Hit(w[p], t) + Hit(None, t) + Hit(ip[p], t)
      BY Counts
    <3>3. HoldsAt(w[p], ip[p], puts[p], cwd[p], t)
            = Hit(cwd[p], t) + Hit(w[p], t) + Hit(ip[p], t)
      BY Counts
    <3>4. /\ Hit(ip[p], t) \in {0, 1} /\ Hit(cwd[p], t) \in {0, 1} /\ Hit(None, t) = 0
          /\ Hit(w[p], t) \in {0, 1}
      BY Counts
    <3> QED BY <3>1, <3>2, <3>3, <3>4
  <2>2. MoveRefs(p, w[p], None, <<ip[p]>>, cwd[p])
    BY <2>1 DEF MoveRefs
  <2> QED BY <1>0, <1>4, <2>2, RefMove
<1>13. CacheInv'
  <2>1. LockedValid(icache', lock')
    BY <1>7 DEF LockedValid
  <2>2. iph[p] # "invalid"
    BY <1>1
  <2> QED BY <1>4, <2>1, <2>2, CacheStep
<1> QED BY <1>4, <1>10, <1>11, <1>12, <1>13, PStep

LEMMA PCreateOld ==
  ASSUME PInv, NEW p \in Process, CreateOld(p)
  PROVE  PInv'
<1>0. /\ TypeOK /\ Was(p) /\ SharedTypes /\ RefInv
      /\ lock \in [Slot -> Process \cup {None}] /\ icache \in [Slot -> Entry]
      /\ dtype \in [Inum -> Types] /\ dnlink \in [Inum -> Int]
  BY Before DEF SharedTypes
<1>1. /\ pc[p] = "exists" /\ puts[p] = << >> /\ Ilock(ip[p])
      /\ icache' = [icache EXCEPT ![ip[p]] = ilocked(ip[p])]
  BY DEF CreateOld
<1>2. /\ ip[p] # None /\ w[p] = None /\ iph[p] = "no" /\ req[p] \in [op : Ops, new : Path]
  BY <1>0, <1>1 DEF Was, CallAt
<1>3. ip[p] \in Slot /\ icache[ip[p]].ref > 0
  BY <1>2, IpAt
<1>4. Keeps(icache') /\ icache'[ip[p]].valid
  BY <1>1, <1>3, ReadKeeps
<1>5. /\ dtype' = dtype /\ dnlink' = dnlink /\ dent' = dent /\ dotdot' = dotdot
      /\ calls' = calls /\ stray' = stray
      /\ req' = req /\ path' = path /\ w' = w /\ iph' = iph /\ cwd' = cwd /\ files' = files
  BY DEF CreateOld, disk, history
<1>6. lock[ip[p]] = None
  BY <1>1 DEF Ilock, Free
<1>7. CASE PutIp(p)
  <2>1. /\ icache' \in [Slot -> Entry] /\ \A t \in Slot : icache'[t].ref = icache[t].ref
        /\ Exact(icache', dtype', dnlink', Inval) /\ LockedValid(icache', lock)
    BY <1>4, <1>5 DEF Keeps
  <2> QED BY <1>0, <1>1, <1>5, <1>6, <1>7, <2>1, PPutIp
<1>8. CASE /\ lock' = [lock EXCEPT ![ip[p]] = p] /\ pc' = [pc EXCEPT ![p] = "created"]
           /\ UNCHANGED <<ip, puts>>
  <2>1. Goes(p, "created", req[p], path[p], w[p], ip[p], puts[p], "no", cwd[p], files[p])
    BY <1>0, <1>2, <1>5, <1>8, Stays, Zenon DEF Goes
  <2>2. Typed("created", req[p], path[p], w[p], ip[p], puts[p], "no", cwd[p], files[p])
    BY <1>0, Zenon DEF Was, Typed, Points
  <2>3. CallAt("created", req[p], path[p], w[p], ip[p], puts[p], "no")
    <3>1. Len(<< >>) = 0
      OBVIOUS
    <3> QED BY <1>1, <1>2, <3>1 DEF CallAt
  <2>4. \A t \in Slot : lock'[t] = IF t = ip[p] THEN p ELSE lock[t]
    BY <1>0, <1>8
  <2>5. OwnLocks(p)
    BY <1>6, <2>4 DEF OwnLocks
  <2>6. CallLocks(p, "created", w[p], ip[p])
    <3>1. ASSUME NEW t \in Slot PROVE lock[t] # p
      <4>1. ~InCall(pc[p], w[p], ip[p], t)
        BY <1>1 DEF InCall
      <4> QED BY <1>2, <4>1, HeldNow
    <3> QED BY <2>4, <3>1 DEF CallLocks, InCall
  <2>7. Legal(p, "created", req[p], path[p], w[p], ip[p], puts[p], "no", cwd[p], files[p])
    BY <2>2, <2>3, <2>5, <2>6, LegalIf
  <2>8. SharedTypes'
    <3>1. lock' \in [Slot -> Process \cup {None}]
      BY <1>0, <1>8
    <3> QED BY <1>0, <1>4, <1>5, <3>1 DEF SharedTypes, Keeps
  <2>9. RefInv'
    <3>1. \A t \in Slot : icache'[t].ref = icache[t].ref
      BY <1>4 DEF Keeps
    <3> QED BY <2>1, <3>1, SameRefs
  <2>10. CacheInv'
    <3>1. Exact(icache', dtype', dnlink', Inval)
      BY <1>4, <1>5 DEF Keeps
    <3>2. LockedValid(icache', lock')
      BY <1>4, <2>4 DEF LockedValid, Keeps
    <3>3. iph[p] # "invalid"
      BY <1>2
    <3> QED BY <2>1, <3>1, <3>2, <3>3, CacheStep
  <2> QED BY <2>1, <2>7, <2>8, <2>9, <2>10, PStep
<1> QED BY <1>7, <1>8 DEF CreateOld

LEMMA PCreated ==
  ASSUME PInv, NEW p \in Process, Created(p)
  PROVE  PInv'
<1>0. /\ TypeOK /\ Was(p) /\ SharedTypes /\ RefInv /\ Keeps(icache)
      /\ lock \in [Slot -> Process \cup {None}] /\ icache \in [Slot -> Entry]
      /\ dtype \in [Inum -> Types] /\ dnlink \in [Inum -> Int]
  BY Before, StayKeeps DEF SharedTypes
<1>1. pc[p] = "created" /\ puts[p] = << >>
  BY DEF Created
<1>2. /\ ip[p] # None /\ w[p] = None /\ iph[p] = "no" /\ req[p] \in [op : Ops, new : Path]
      /\ files[p] \in [Fd -> Slot \cup {None}]
  BY <1>0, <1>1 DEF Was, CallAt, Typed
<1>3. ip[p] \in Slot
  BY <1>2, IpAt
<1>5. /\ dtype' = dtype /\ dnlink' = dnlink /\ dent' = dent /\ dotdot' = dotdot
      /\ calls' = calls /\ stray' = stray /\ icache' = icache
      /\ req' = req /\ path' = path /\ w' = w /\ iph' = iph /\ cwd' = cwd
  BY DEF Created, disk, history
<1>6. lock[ip[p]] = p
  <2>1. InCall(pc[p], w[p], ip[p], ip[p])
    BY <1>1 DEF InCall
  <2> QED BY <1>2, <1>3, <2>1, HeldNow
<1>7. CASE PutIp(p) /\ files' = files
  <2>1. /\ icache' \in [Slot -> Entry] /\ \A t \in Slot : icache'[t].ref = icache[t].ref
        /\ Exact(icache', dtype', dnlink', Inval) /\ LockedValid(icache', lock)
    BY <1>0, <1>5 DEF Keeps
  <2> QED BY <1>0, <1>1, <1>5, <1>6, <1>7, <2>1, PPutIp
<1>8. CASE /\ fdalloc(p, ip[p]) /\ iunlock(ip[p])
           /\ ip' = [ip EXCEPT ![p] = None] /\ pc' = [pc EXCEPT ![p] = "end"] /\ puts' = puts
  <2>1. PICK k \in Fd : files[p][k] = None /\ files' = [files EXCEPT ![p][k] = ip[p]]
    BY <1>8 DEF fdalloc
  <2>2. PICK f : f = [files[p] EXCEPT ![k] = ip[p]]
    OBVIOUS
  <2>3. f \in [Fd -> Slot \cup {None}] /\ files' = [files EXCEPT ![p] = f]
    BY <1>0, <1>2, <1>3, <2>1, <2>2
  <2>4. Goes(p, "end", req[p], path[p], w[p], None, puts[p], "no", cwd[p], f)
    BY <1>0, <1>2, <1>5, <1>8, <2>3, Stays, Zenon DEF Goes
  <2>5. Typed("end", req[p], path[p], w[p], None, puts[p], "no", cwd[p], f)
    BY <1>0, <2>3, Zenon DEF Was, Typed, Points
  <2>6. CallAt("end", req[p], path[p], w[p], None, puts[p], "no")
    <3>1. Len(<< >>) = 0
      OBVIOUS
    <3> QED BY <1>1, <1>2, <3>1 DEF CallAt
  <2>7. \A t \in Slot : lock'[t] = IF t = ip[p] THEN None ELSE lock[t]
    BY <1>0, <1>8 DEF iunlock
  <2>8. OwnLocks(p)
    BY <1>6, <2>7 DEF OwnLocks
  <2>9. CallLocks(p, "end", w[p], None)
    <3>1. ASSUME NEW t \in Slot PROVE lock'[t] # p
      <4>1. t # ip[p] => ~InCall(pc[p], w[p], ip[p], t)
        BY <1>1 DEF InCall
      <4>2. t # ip[p] => lock[t] # p
        BY <1>2, <4>1, HeldNow
      <4> QED BY <2>7, <4>2, Bounds
    <3> QED BY <3>1 DEF CallLocks, InCall
  <2>10. Legal(p, "end", req[p], path[p], w[p], None, puts[p], "no", cwd[p], f)
    BY <2>5, <2>6, <2>8, <2>9, LegalIf
  <2>11. SharedTypes'
    <3>1. lock' \in [Slot -> Process \cup {None}]
      BY <1>0, <1>8 DEF iunlock
    <3> QED BY <1>0, <1>5, <3>1 DEF SharedTypes
  <2>12. RefInv'
    <3>1. ASSUME NEW t \in Slot
          PROVE  icache'[t].ref = icache[t].ref + HoldsAt(w[p], None, puts[p], cwd[p], t)
                                     - HoldsAt(w[p], ip[p], puts[p], cwd[p], t)
                                     + Hit(ip[p], t) - Hit(files[p][k], t)
      <4>1. icache'[t].ref = icache[t].ref /\ icache[t].ref \in Nat
        BY <1>0, <1>5 DEF Entry
      <4>2. HoldsAt(w[p], None, puts[p], cwd[p], t)
              = Hit(cwd[p], t) + Hit(w[p], t) + Hit(None, t)
        BY <1>1, Counts
      <4>3. HoldsAt(w[p], ip[p], puts[p], cwd[p], t)
              = Hit(cwd[p], t) + Hit(w[p], t) + Hit(ip[p], t)
        BY <1>1, Counts
      <4>4. /\ Hit(ip[p], t) \in {0, 1} /\ Hit(cwd[p], t) \in {0, 1} /\ Hit(None, t) = 0
            /\ Hit(w[p], t) \in {0, 1}
        BY Counts
      <4> QED BY <2>1, <4>1, <4>2, <4>3, <4>4
    <3>2. FileRefs(p, w[p], None, puts[p], cwd[p], k, ip[p])
      BY <3>1 DEF FileRefs
    <3> QED BY <1>0, <2>2, <2>4, <3>2, FileStep
  <2>13. CacheInv'
    <3>1. Exact(icache', dtype', dnlink', Inval)
      BY <1>0, <1>5 DEF Keeps
    <3>2. LockedValid(icache', lock')
      BY <1>0, <1>5, <2>7 DEF LockedValid, Keeps
    <3>3. iph[p] # "invalid"
      BY <1>2
    <3> QED BY <2>4, <3>1, <3>2, <3>3, CacheStep
  <2> QED BY <2>4, <2>10, <2>11, <2>12, <2>13, PStep
<1> QED BY <1>7, <1>8 DEF Created

LEMMA PUnlinkRefused ==
  ASSUME PInv, NEW p \in Process, UnlinkRefused(p)
  PROVE  PInv'
<1>0. /\ TypeOK /\ Was(p) /\ SharedTypes /\ RefInv
      /\ lock \in [Slot -> Process \cup {None}] /\ icache \in [Slot -> Entry]
  BY Before DEF SharedTypes
<1>1. /\ pc[p] = "unlink" /\ Ilock(ip[p])
      /\ icache' = [icache EXCEPT ![ip[p]] = ilocked(ip[p])]
      /\ puts' = [puts EXCEPT ![p] = <<ip[p]>>] /\ ip' = [ip EXCEPT ![p] = None]
      /\ pc' = [pc EXCEPT ![p] = "refused"]
  BY DEF UnlinkRefused
<1>2. /\ ip[p] # None /\ w[p] # None /\ iph[p] = "no" /\ req[p] \in [op : Ops, new : Path]
      /\ puts[p] = << >>
  BY <1>0, <1>1 DEF Was, CallAt
<1>3. ip[p] \in Slot /\ icache[ip[p]].ref > 0
  BY <1>2, IpAt
<1>4. Keeps(icache')
  BY <1>1, <1>3, ReadKeeps
<1>5. /\ dtype' = dtype /\ dnlink' = dnlink /\ dent' = dent /\ dotdot' = dotdot
      /\ calls' = calls /\ stray' = stray /\ lock' = lock
      /\ req' = req /\ path' = path /\ w' = w /\ iph' = iph /\ cwd' = cwd /\ files' = files
  BY DEF UnlinkRefused, disk, history
<1>6. Goes(p, "refused", req[p], path[p], w[p], None, <<ip[p]>>, "no", cwd[p], files[p])
  BY <1>0, <1>1, <1>2, <1>5, Stays, Zenon DEF Goes
<1>7. Typed("refused", req[p], path[p], w[p], None, <<ip[p]>>, "no", cwd[p], files[p])
  <2>1. <<ip[p]>> \in Seq(Slot)
    BY <1>3
  <2> QED BY <1>0, <2>1, Zenon DEF Was, Typed, Points
<1>8. CallAt("refused", req[p], path[p], w[p], None, <<ip[p]>>, "no")
  <2>1. Len(<<ip[p]>>) = 1
    OBVIOUS
  <2> QED BY <1>2, <2>1 DEF CallAt
<1>9. OwnLocks(p)
  BY <1>5 DEF OwnLocks
<1>10. CallLocks(p, "refused", w[p], None)
  <2>1. ASSUME NEW t \in Slot
        PROVE  InCall("refused", w[p], None, t) <=> InCall(pc[p], w[p], ip[p], t)
    BY <1>1 DEF InCall
  <2> QED BY <1>2, <1>5, <2>1, HeldNow DEF CallLocks
<1>11. Legal(p, "refused", req[p], path[p], w[p], None, <<ip[p]>>, "no", cwd[p], files[p])
  BY <1>7, <1>8, <1>9, <1>10, LegalIf
<1>12. SharedTypes'
  BY <1>0, <1>4, <1>5 DEF SharedTypes, Keeps
<1>13. RefInv'
  <2>1. ASSUME NEW t \in Slot
        PROVE  icache'[t].ref = icache[t].ref + HoldsAt(w[p], None, <<ip[p]>>, cwd[p], t)
                                   - HoldsAt(w[p], ip[p], puts[p], cwd[p], t)
    <3>1. icache'[t].ref = icache[t].ref /\ icache[t].ref \in Nat
      BY <1>0, <1>4 DEF Entry, Keeps
    <3>2. HoldsAt(w[p], None, <<ip[p]>>, cwd[p], t)
            = Hit(cwd[p], t) + Hit(w[p], t) + Hit(None, t) + Hit(ip[p], t)
      BY Counts
    <3>3. HoldsAt(w[p], ip[p], puts[p], cwd[p], t)
            = Hit(cwd[p], t) + Hit(w[p], t) + Hit(ip[p], t)
      BY <1>2, Counts
    <3>4. /\ Hit(ip[p], t) \in {0, 1} /\ Hit(cwd[p], t) \in {0, 1} /\ Hit(None, t) = 0
          /\ Hit(w[p], t) \in {0, 1}
      BY Counts
    <3> QED BY <3>1, <3>2, <3>3, <3>4
  <2>2. MoveRefs(p, w[p], None, <<ip[p]>>, cwd[p])
    BY <2>1 DEF MoveRefs
  <2> QED BY <1>0, <1>6, <2>2, RefMove
<1>14. CacheInv'
  <2>1. Exact(icache', dtype', dnlink', Inval) /\ LockedValid(icache', lock')
    BY <1>4, <1>5 DEF Keeps
  <2>2. iph[p] # "invalid"
    BY <1>2
  <2> QED BY <1>6, <2>1, <2>2, CacheStep
<1> QED BY <1>6, <1>11, <1>12, <1>13, <1>14, PStep

LEMMA PRefused ==
  ASSUME PInv, NEW p \in Process, Refused(p)
  PROVE  PInv'
<1>0. /\ TypeOK /\ Was(p) /\ SharedTypes /\ RefInv /\ Keeps(icache)
      /\ lock \in [Slot -> Process \cup {None}] /\ icache \in [Slot -> Entry]
  BY Before, StayKeeps DEF SharedTypes
<1>1. /\ pc[p] = "refused" /\ puts[p] = << >> /\ lock' = [lock EXCEPT ![w[p]] = None]
      /\ puts' = [puts EXCEPT ![p] = <<w[p]>>] /\ w' = [w EXCEPT ![p] = None]
      /\ pc' = [pc EXCEPT ![p] = failed(p)]
  BY DEF Refused, iunlock, PutW
<1>2. /\ w[p] # None /\ iph[p] = "no" /\ req[p] \in [op : Ops, new : Path]
      /\ ip[p] # None => req[p].op = "link"
  BY <1>0, <1>1 DEF Was, CallAt
<1>3. w[p] \in Slot
  BY <1>2, WAt
<1>4. PICK x : x = failed(p) /\ x \in {"end", "bad"} /\ (x = "bad" <=> ip[p] # None)
  BY DEF failed
<1>5. /\ dtype' = dtype /\ dnlink' = dnlink /\ dent' = dent /\ dotdot' = dotdot
      /\ calls' = calls /\ stray' = stray /\ icache' = icache
      /\ req' = req /\ path' = path /\ ip' = ip /\ iph' = iph /\ cwd' = cwd /\ files' = files
  BY DEF Refused, disk, history
<1>6. Goes(p, x, req[p], path[p], None, ip[p], <<w[p]>>, "no", cwd[p], files[p])
  BY <1>0, <1>1, <1>2, <1>4, <1>5, Stays, Zenon DEF Goes
<1>7. Typed(x, req[p], path[p], None, ip[p], <<w[p]>>, "no", cwd[p], files[p])
  <2>1. <<w[p]>> \in Seq(Slot)
    BY <1>3
  <2> QED BY <1>0, <1>4, <2>1, Zenon DEF Was, Typed, Points
<1>8. CallAt(x, req[p], path[p], None, ip[p], <<w[p]>>, "no")
  <2>1. Len(<<w[p]>>) = 1
    OBVIOUS
  <2> QED BY <1>2, <1>4, <2>1 DEF CallAt
<1>8a. \A t \in Slot : lock'[t] = IF t = w[p] THEN None ELSE lock[t]
  BY <1>0, <1>1
<1>8b. lock[w[p]] = p
  <2>1. InCall(pc[p], w[p], ip[p], w[p])
    BY <1>1 DEF InCall
  <2> QED BY <1>2, <1>3, <2>1, HeldNow
<1>9. OwnLocks(p)
  BY <1>8a, <1>8b DEF OwnLocks
<1>10. CallLocks(p, x, None, ip[p])
  <2>1. ASSUME NEW t \in Slot PROVE lock'[t] # p
    <3>1. t # w[p] => ~InCall(pc[p], w[p], ip[p], t)
      BY <1>1 DEF InCall
    <3>2. t # w[p] => lock[t] # p
      BY <1>2, <3>1, HeldNow
    <3> QED BY <1>8a, <3>2, Bounds
  <2> QED BY <1>4, <2>1 DEF CallLocks, InCall
<1>11. Legal(p, x, req[p], path[p], None, ip[p], <<w[p]>>, "no", cwd[p], files[p])
  BY <1>7, <1>8, <1>9, <1>10, LegalIf
<1>12. SharedTypes'
  <2>1. lock' \in [Slot -> Process \cup {None}]
    BY <1>0, <1>1
  <2> QED BY <1>0, <1>5, <2>1 DEF SharedTypes
<1>13. RefInv'
  <2>1. ASSUME NEW t \in Slot
        PROVE  icache'[t].ref = icache[t].ref + HoldsAt(None, ip[p], <<w[p]>>, cwd[p], t)
                                   - HoldsAt(w[p], ip[p], puts[p], cwd[p], t)
    <3>1. icache'[t].ref = icache[t].ref /\ icache[t].ref \in Nat
      BY <1>0, <1>5 DEF Entry
    <3>2. HoldsAt(None, ip[p], <<w[p]>>, cwd[p], t)
            = Hit(cwd[p], t) + Hit(None, t) + Hit(ip[p], t) + Hit(w[p], t)
      BY Counts
    <3>3. HoldsAt(w[p], ip[p], puts[p], cwd[p], t)
            = Hit(cwd[p], t) + Hit(w[p], t) + Hit(ip[p], t)
      BY <1>1, Counts
    <3>4. /\ Hit(ip[p], t) \in {0, 1} /\ Hit(cwd[p], t) \in {0, 1} /\ Hit(None, t) = 0
          /\ Hit(w[p], t) \in {0, 1}
      BY Counts
    <3> QED BY <3>1, <3>2, <3>3, <3>4
  <2>2. MoveRefs(p, None, ip[p], <<w[p]>>, cwd[p])
    BY <2>1 DEF MoveRefs
  <2> QED BY <1>0, <1>6, <2>2, RefMove
<1>14. CacheInv'
  <2>1. Exact(icache', dtype', dnlink', Inval)
    BY <1>0, <1>5 DEF Keeps
  <2>2. LockedValid(icache', lock')
    BY <1>0, <1>5, <1>8a DEF Keeps, LockedValid
  <2>3. iph[p] # "invalid" /\ x # "invalid"
    BY <1>2, <1>4
  <2> QED BY <1>6, <2>1, <2>2, <2>3, CacheStep
<1> QED BY <1>6, <1>11, <1>12, <1>13, <1>14, PStep

LEMMA PLinkExists ==
  ASSUME PInv, NEW p \in Process, LinkExists(p)
  PROVE  PInv'
<1>0. /\ TypeOK /\ Was(p) /\ icache \in [Slot -> Entry] /\ SharedTypes /\ RefInv
      /\ lock \in [Slot -> Process \cup {None}]
  BY Before DEF SharedTypes
<1>1. At(p, {"link"}) /\ ip[p] # None /\ Ilock(w[p])
  BY DEF LinkExists
<1>2. /\ pc[p] = "at" /\ puts[p] = << >> /\ iph[p] = "no" /\ req[p].op \in {"link"}
      /\ req[p] \in [op : Ops, new : Path]
      /\ w[p] \in Slot /\ icache[w[p]].ref > 0 /\ icache[w[p]].inum \in Inum
  BY <1>1, AtPoint
<1>3. req[p].op = "link" /\ w[p] # None
  BY <1>2, Bounds
<1>4. PICK c : c = [icache EXCEPT ![w[p]] = ilocked(w[p])]
  OBVIOUS
<1>5. PICK i : i = dirlookup(icache[w[p]].inum, Head(path[p]))
  OBVIOUS
<1>6. /\ i # 0 /\ room(c, i) /\ icache' = iget(c, i)
      /\ puts' = [puts EXCEPT ![p] = <<iget_slot(c, i)>>]
      /\ lock' = [lock EXCEPT ![w[p]] = p]
      /\ pc' = [pc EXCEPT ![p] = "refused"]
  BY <1>4, <1>5, Zenon DEF LinkExists
<1>6a. /\ dtype' = dtype /\ dnlink' = dnlink /\ dent' = dent /\ dotdot' = dotdot
       /\ calls' = calls /\ stray' = stray /\ req' = req /\ path' = path /\ w' = w
       /\ ip' = ip /\ iph' = iph /\ cwd' = cwd /\ files' = files
  BY DEF LinkExists, disk, history
<1>7. i \in Inum
  BY <1>1, <1>2, <1>5, <1>6, AtName
<1>8. PICK u : u = iget_slot(c, i)
  OBVIOUS
<1>9. Adds(icache', u) /\ icache'[w[p]].valid
  BY <1>1, <1>2, <1>4, <1>6, <1>7, <1>8, ReadGet
<1>10. u \in Slot
  BY <1>9 DEF Adds
<1>11. Goes(p, "refused", req[p], path[p], w[p], ip[p], <<u>>, "no", cwd[p], files[p])
  BY <1>0, <1>2, <1>6, <1>6a, <1>8, Stays, Zenon DEF Goes
<1>12. Typed("refused", req[p], path[p], w[p], ip[p], <<u>>, "no", cwd[p], files[p])
  <2>1. <<u>> \in Seq(Slot)
    BY <1>10
  <2> QED BY <1>0, <2>1, Zenon DEF Was, Typed, Points
<1>13. CallAt("refused", req[p], path[p], w[p], ip[p], <<u>>, "no")
  <2>1. Len(<<u>>) = 1
    OBVIOUS
  <2> QED BY <1>2, <1>3, <2>1 DEF CallAt
<1>14. lock[w[p]] = None
  BY <1>1 DEF Ilock, Free
<1>15. OwnLocks(p)
  BY <1>0, <1>2, <1>6, <1>14 DEF OwnLocks
<1>16. CallLocks(p, "refused", w[p], ip[p])
  <2>1. ASSUME NEW t \in Slot PROVE lock[t] # p
    <3>1. ~InCall(pc[p], w[p], ip[p], t)
      BY <1>2 DEF InCall
    <3> QED BY <1>2, <3>1, HeldNow
  <2>2. \A t \in Slot : lock'[t] = IF t = w[p] THEN p ELSE lock[t]
    BY <1>0, <1>6
  <2> QED BY <2>1, <2>2 DEF CallLocks, InCall
<1>17. Legal(p, "refused", req[p], path[p], w[p], ip[p], <<u>>, "no", cwd[p], files[p])
  BY <1>12, <1>13, <1>15, <1>16, LegalIf
<1>18. SharedTypes'
  <2>3. lock' \in [Slot -> Process \cup {None}] /\ icache' \in [Slot -> Entry]
    BY <1>0, <1>6, <1>9 DEF Adds
  <2> QED BY <1>0, <1>6a, <2>3 DEF SharedTypes
<1>19. RefInv'
  <2>1. ASSUME NEW t \in Slot
        PROVE  icache'[t].ref = icache[t].ref + HoldsAt(w[p], ip[p], <<u>>, cwd[p], t)
                                   - HoldsAt(w[p], ip[p], puts[p], cwd[p], t)
    <3>1. icache'[t].ref = icache[t].ref + Hit(u, t) /\ icache[t].ref \in Nat
      BY <1>0, <1>9 DEF Entry, Adds
    <3>2. HoldsAt(w[p], ip[p], <<u>>, cwd[p], t)
            = Hit(cwd[p], t) + Hit(w[p], t) + Hit(ip[p], t) + Hit(u, t)
      BY Counts
    <3>3. HoldsAt(w[p], ip[p], puts[p], cwd[p], t)
            = Hit(cwd[p], t) + Hit(w[p], t) + Hit(ip[p], t)
      BY <1>2, Counts
    <3>4. /\ Hit(u, t) \in {0, 1} /\ Hit(cwd[p], t) \in {0, 1} /\ Hit(ip[p], t) \in {0, 1}
          /\ Hit(w[p], t) \in {0, 1}
      BY Counts
    <3> QED BY <3>1, <3>2, <3>3, <3>4
  <2>2. MoveRefs(p, w[p], ip[p], <<u>>, cwd[p])
    BY <2>1 DEF MoveRefs
  <2> QED BY <1>0, <1>11, <2>2, RefMove
<1>20. CacheInv'
  <2>2. Exact(icache', dtype', dnlink', Inval)
    BY <1>6a, <1>9 DEF Adds
  <2>3. LockedValid(icache', lock')
    <3>1. \A t \in Slot : t # w[p] => lock'[t] = lock[t]
      BY <1>0, <1>6
    <3> QED BY <1>9, <3>1 DEF LockedValid, Adds
  <2>4. iph[p] # "invalid"
    BY <1>2
  <2> QED BY <1>11, <2>2, <2>3, <2>4, CacheStep
<1> QED BY <1>11, <1>17, <1>18, <1>19, <1>20, PStep

LEMMA PLinkEntry ==
  ASSUME PInv, NEW p \in Process, LinkEntry(p)
  PROVE  PInv'
<1>0. /\ TypeOK /\ Was(p) /\ icache \in [Slot -> Entry] /\ SharedTypes /\ RefInv
      /\ lock \in [Slot -> Process \cup {None}]
      /\ dent \in [Inum -> [Name -> Inum \cup {0}]] /\ stray \subseteq Inum
  BY Before DEF SharedTypes
<1>1. /\ At(p, {"link"}) /\ ip[p] # None /\ Ilock(w[p])
      /\ icache' = [icache EXCEPT ![w[p]] = ilocked(w[p])]
      /\ dirlink(icache[w[p]].inum, Head(path[p]), icache[ip[p]].inum)
      /\ puts' = [puts EXCEPT ![p] = <<w[p], ip[p]>>]
      /\ w' = [w EXCEPT ![p] = None] /\ ip' = [ip EXCEPT ![p] = None]
      /\ pc' = [pc EXCEPT ![p] = "end"]
      /\ Strays(icache[w[p]].inum, icache[ip[p]].inum)
  BY DEF LinkEntry
<1>2. /\ pc[p] = "at" /\ puts[p] = << >> /\ iph[p] = "no"
      /\ w[p] \in Slot /\ icache[w[p]].ref > 0 /\ icache[w[p]].inum \in Inum
      /\ Keeps([icache EXCEPT ![w[p]] = ilocked(w[p])])
  BY <1>1, AtPoint
<1>3. ip[p] \in Slot /\ icache[ip[p]].inum \in Inum
  BY <1>1, IpAt
<1>4. Keeps(icache')
  BY <1>1, <1>2
<1>5. /\ dtype' = dtype /\ dnlink' = dnlink /\ dotdot' = dotdot
      /\ calls' = calls /\ lock' = lock
      /\ req' = req /\ path' = path /\ iph' = iph /\ cwd' = cwd /\ files' = files
  BY DEF LinkEntry
<1>6. Goes(p, "end", req[p], path[p], None, None, <<w[p], ip[p]>>, "no", cwd[p], files[p])
  BY <1>0, <1>1, <1>2, <1>5, Stays, Zenon DEF Goes
<1>7. Typed("end", req[p], path[p], None, None, <<w[p], ip[p]>>, "no", cwd[p], files[p])
  <2>1. <<w[p], ip[p]>> \in Seq(Slot)
    BY <1>2, <1>3
  <2> QED BY <1>0, <2>1, Zenon DEF Was, Typed, Points
<1>8. CallAt("end", req[p], path[p], None, None, <<w[p], ip[p]>>, "no")
  <2>1. Len(<<w[p], ip[p]>>) = 2
    OBVIOUS
  <2> QED BY <2>1 DEF CallAt
<1>9. OwnLocks(p)
  BY <1>5 DEF OwnLocks
<1>10. CallLocks(p, "end", None, None)
  <2>1. ASSUME NEW t \in Slot PROVE lock[t] # p
    <3>1. ~InCall(pc[p], w[p], ip[p], t)
      BY <1>2 DEF InCall
    <3> QED BY <1>2, <3>1, HeldNow
  <2> QED BY <1>5, <2>1 DEF CallLocks, InCall
<1>11. Legal(p, "end", req[p], path[p], None, None, <<w[p], ip[p]>>, "no", cwd[p], files[p])
  BY <1>7, <1>8, <1>9, <1>10, LegalIf
<1>12. SharedTypes'
  <2>1. dent' \in [Inum -> [Name -> Inum \cup {0}]]
    BY <1>0, <1>1, <1>2, <1>3 DEF dirlink
  <2>2. stray' \subseteq Inum
    BY <1>0, <1>1, <1>3 DEF Strays
  <2> QED BY <1>0, <1>4, <1>5, <2>1, <2>2 DEF SharedTypes, Keeps
<1>13. RefInv'
  <2>1. ASSUME NEW t \in Slot
        PROVE  icache'[t].ref = icache[t].ref + HoldsAt(None, None, <<w[p], ip[p]>>, cwd[p], t)
                                   - HoldsAt(w[p], ip[p], puts[p], cwd[p], t)
    <3>1. icache'[t].ref = icache[t].ref /\ icache[t].ref \in Nat
      BY <1>0, <1>4 DEF Entry, Keeps
    <3>2. HoldsAt(None, None, <<w[p], ip[p]>>, cwd[p], t)
            = Hit(cwd[p], t) + Hit(None, t) + Hit(None, t) + Hit(w[p], t) + Hit(ip[p], t)
      BY Counts
    <3>3. HoldsAt(w[p], ip[p], puts[p], cwd[p], t)
            = Hit(cwd[p], t) + Hit(w[p], t) + Hit(ip[p], t)
      BY <1>2, Counts
    <3>4. /\ Hit(ip[p], t) \in {0, 1} /\ Hit(cwd[p], t) \in {0, 1} /\ Hit(None, t) = 0
          /\ Hit(w[p], t) \in {0, 1}
      BY Counts
    <3> QED BY <3>1, <3>2, <3>3, <3>4
  <2>2. MoveRefs(p, None, None, <<w[p], ip[p]>>, cwd[p])
    BY <2>1 DEF MoveRefs
  <2> QED BY <1>0, <1>6, <2>2, RefMove
<1>14. CacheInv'
  <2>1. Exact(icache', dtype', dnlink', Inval) /\ LockedValid(icache', lock')
    BY <1>4, <1>5 DEF Keeps
  <2>2. iph[p] # "invalid"
    BY <1>2
  <2> QED BY <1>6, <2>1, <2>2, CacheStep
<1> QED BY <1>6, <1>11, <1>12, <1>13, <1>14, PStep

\* The links of an inode that has just been read change.
Relinked(s, k) == [icache EXCEPT ![s] = [ilocked(s) EXCEPT !.nlink = k]]

LEMMA ReadSet ==
  ASSUME PInv, NEW s \in Slot, Ilock(s), icache[s].ref > 0, NEW k \in Int, NEW g,
         g = Relinked(s, k)
  PROVE  /\ g \in [Slot -> Entry] /\ Known(icache, g, s) /\ g[s].nlink = k
         /\ Exact(g, dtype, LinksAt(dnlink, icache[s].inum, k), Inval)
         /\ LockedValid(g, lock) /\ LockedUsed(g, lock)
         /\ g[s].type = dtype[icache[s].inum] /\ g[s].inum = icache[s].inum
         /\ ilocked(s).type = dtype[icache[s].inum] /\ ilocked(s).nlink = dnlink[icache[s].inum]
         /\ ilocked(s).inum = icache[s].inum /\ dtype[icache[s].inum] # "free"
<1>0. dtype \in [Inum -> Types] /\ dnlink \in [Inum -> Int] /\ icache \in [Slot -> Entry]
  BY DEF PInv, TypeOK
<1>1. PICK c : c = [icache EXCEPT ![s] = ilocked(s)]
  OBVIOUS
<1>2. /\ c \in [Slot -> Entry] /\ Known(icache, c, s) /\ c[s] = ilocked(s)
      /\ Exact(c, dtype, dnlink, Inval) /\ LockedValid(c, lock) /\ LockedUsed(c, lock)
      /\ s \notin Inval
  BY <1>1, ReadStep
<1>3. c[s].ref = icache[s].ref /\ c[s].inum = icache[s].inum /\ c[s].valid
  BY <1>2 DEF Known
<1>4. g = SetLinks(c, s, k)
  BY <1>0, <1>1, <1>2 DEF SetLinks, Relinked
<1>5. /\ Known(c, SetLinks(c, s, k), s)
      /\ Exact(SetLinks(c, s, k), dtype, LinksAt(dnlink, c[s].inum, k), Inval)
      /\ LockedValid(SetLinks(c, s, k), lock)
      /\ SetLinks(c, s, k)[s].nlink = k /\ SetLinks(c, s, k)[s].type = c[s].type
      /\ c[s].type = dtype[c[s].inum] /\ c[s].type # "free" /\ c[s].nlink = dnlink[c[s].inum]
  BY <1>0, <1>2, <1>3, Update
<1>6. Known(icache, g, s)
  BY <1>2, <1>4, <1>5 DEF Known
<1>7. g \in [Slot -> Entry] /\ LockedUsed(g, lock) /\ g[s].inum = icache[s].inum
  BY <1>2, <1>4, <1>5, <1>6 DEF Known, LockedUsed
<1> QED BY <1>2, <1>3, <1>4, <1>5, <1>6, <1>7

LEMMA PLinkBad ==
  ASSUME PInv, NEW p \in Process, LinkBad(p)
  PROVE  PInv'
<1>0. /\ TypeOK /\ Was(p) /\ SharedTypes
      /\ dtype \in [Inum -> Types] /\ dnlink \in [Inum -> Int]
  BY Before DEF SharedTypes
<1>1. /\ pc[p] = "bad" /\ puts[p] = << >> /\ Ilock(ip[p]) /\ PutIp(p)
      /\ icache' = [icache EXCEPT ![ip[p]] = unlinked(ilocked(ip[p]))]
      /\ iupdate(icache'[ip[p]])
  BY DEF LinkBad
<1>2. ip[p] # None
  BY <1>0, <1>1 DEF Was, CallAt
<1>3. PICK s \in Slot : s = ip[p] /\ icache[s].ref > 0 /\ icache[s].inum \in Inum
  BY <1>2, IpAt
<1>4. PICK k : k = ilocked(s).nlink - 1
  OBVIOUS
<1>5. k \in Int
  <2>1. Keeps([icache EXCEPT ![s] = ilocked(s)])
        /\ [icache EXCEPT ![s] = ilocked(s)][s] = ilocked(s)
    BY <1>1, <1>3, ReadKeeps
  <2>2. ilocked(s) \in Entry
    BY <2>1 DEF Keeps
  <2> QED BY <1>4, <2>2 DEF Entry
<1>6. icache' = [icache EXCEPT ![s] = [ilocked(s) EXCEPT !.nlink = k]]
  BY <1>1, <1>3, <1>4 DEF unlinked
<1>7. /\ icache' \in [Slot -> Entry] /\ Known(icache, icache', s) /\ icache'[s].nlink = k
      /\ Exact(icache', dtype, LinksAt(dnlink, icache[s].inum, k), Inval)
      /\ LockedValid(icache', lock)
      /\ icache'[s].type = dtype[icache[s].inum] /\ icache'[s].inum = icache[s].inum
  <2>1. Ilock(s)
    BY <1>1, <1>3
  <2>2. PICK g : g = icache'
    OBVIOUS
  <2>3. g = Relinked(s, k)
    BY <1>6, <2>2 DEF Relinked
  <2>4. /\ g \in [Slot -> Entry] /\ Known(icache, g, s) /\ g[s].nlink = k
        /\ Exact(g, dtype, LinksAt(dnlink, icache[s].inum, k), Inval)
        /\ LockedValid(g, lock)
        /\ g[s].type = dtype[icache[s].inum] /\ g[s].inum = icache[s].inum
    BY <1>3, <1>5, <2>1, <2>3, ReadSet
  <2> QED BY <2>2, <2>4
<1>8. /\ dtype' = [dtype EXCEPT ![icache'[s].inum] = icache'[s].type]
      /\ dnlink' = [dnlink EXCEPT ![icache'[s].inum] = icache'[s].nlink]
  BY <1>1, <1>3 DEF iupdate
<1>9. dtype' = dtype /\ dnlink' = [dnlink EXCEPT ![icache[s].inum] = k]
  BY <1>0, <1>3, <1>7, <1>8
<1>10. dtype' \in [Inum -> Types] /\ dnlink' \in [Inum -> Int]
  BY <1>0, <1>5, <1>9
<1>11. UNCHANGED <<req, path, w, iph, cwd, files>> /\ UNCHANGED <<dent, dotdot, calls, stray>>
  BY DEF LinkBad, history
<1>12. lock[ip[p]] = None
  BY <1>1 DEF Ilock, Free
<1>13. Exact(icache', dtype', dnlink', Inval) /\ \A t \in Slot : icache'[t].ref = icache[t].ref
  BY <1>7, <1>9 DEF Known, LinksAt
<1> QED BY <1>1, <1>7, <1>10, <1>11, <1>12, <1>13, PPutIp

LEMMA PUnlinkDrop ==
  ASSUME PInv, NEW p \in Process, UnlinkDrop(p)
  PROVE  PInv'
<1>0. /\ TypeOK /\ Was(p) /\ SharedTypes /\ LockInv /\ icache \in [Slot -> Entry]
      /\ dtype \in [Inum -> Types] /\ dnlink \in [Inum -> Int]
      /\ Exact(icache, dtype, dnlink, Inval) /\ LockedValid(icache, lock)
  BY Before DEF SharedTypes
<1>1. /\ pc[p] = "drop" /\ puts[p] = << >> /\ PutIp(p)
      /\ icache' = [icache EXCEPT ![ip[p]].nlink = @ - 1]
      /\ iupdate(icache'[ip[p]])
  BY DEF UnlinkDrop
<1>2. ip[p] # None /\ iph[p] = "no"
  BY <1>0, <1>1 DEF Was, CallAt
<1>3. PICK s \in Slot : s = ip[p] /\ icache[s].ref > 0 /\ icache[s].inum \in Inum
  BY <1>2, IpAt
<1>3a. InCall(pc[p], w[p], ip[p], s)
  BY <1>1, <1>3 DEF InCall
<1>3b. lock[s] = p /\ s \notin Inval /\ icache[s].valid
  <2>1. lock[s] = p
    BY <1>2, <1>3a, HeldNow
  <2>2. s \notin Inval
    BY <1>0, <1>3a, NotInval
  <2>3. icache[s].valid
    BY <1>0, <2>1, Bounds DEF LockedValid
  <2> QED BY <2>1, <2>2, <2>3
<1>4. PICK k : k = icache[s].nlink - 1
  OBVIOUS
<1>5. k \in Int
  BY <1>0, <1>4 DEF Entry
<1>6. icache' = SetLinks(icache, s, k)
  BY <1>1, <1>3, <1>4 DEF SetLinks
<1>7. /\ Known(icache, icache', s) /\ icache'[s].nlink = k
      /\ Exact(icache', dtype, LinksAt(dnlink, icache[s].inum, k), Inval)
      /\ LockedValid(icache', lock) /\ icache'[s].type = icache[s].type
      /\ icache[s].type = dtype[icache[s].inum]
  BY <1>0, <1>3, <1>3b, <1>5, <1>6, Update
<1>8. /\ dtype' = [dtype EXCEPT ![icache'[s].inum] = icache'[s].type]
      /\ dnlink' = [dnlink EXCEPT ![icache'[s].inum] = icache'[s].nlink]
  BY <1>1, <1>3 DEF iupdate
<1>8a. icache'[s].inum = icache[s].inum
  BY <1>7 DEF Known
<1>9. dtype' = dtype /\ dnlink' = [dnlink EXCEPT ![icache[s].inum] = k]
  BY <1>0, <1>3, <1>7, <1>8, <1>8a
<1>10. dtype' \in [Inum -> Types] /\ dnlink' \in [Inum -> Int] /\ icache' \in [Slot -> Entry]
  BY <1>0, <1>5, <1>7, <1>9 DEF Known
<1>11. UNCHANGED <<req, path, w, iph, cwd, files>> /\ UNCHANGED <<dent, dotdot, calls, stray>>
  BY DEF UnlinkDrop, history
<1>12. lock[ip[p]] = p
  BY <1>3, <1>3b
<1>13. Exact(icache', dtype', dnlink', Inval) /\ \A t \in Slot : icache'[t].ref = icache[t].ref
  BY <1>7, <1>9 DEF Known, LinksAt
<1> QED BY <1>1, <1>7, <1>10, <1>11, <1>12, <1>13, PPutIp
\* create and unlink leave the directory and go on with the lock of the inode.
LEMMA PSwap ==
  ASSUME PInv, NEW p \in Process, pc[p] \in {"init", "unlink"}, Ilock(ip[p]),
         NEW x \in {"created", "drop"}, PutW(p, x),
         lock' = [lock EXCEPT ![w[p]] = None, ![ip[p]] = p],
         UNCHANGED <<req, path, ip, iph, cwd, files, calls>>,
         dtype' \in [Inum -> Types], dnlink' \in [Inum -> Int],
         dent' \in [Inum -> [Name -> Inum \cup {0}]], dotdot' \in [Inum -> Inum \cup {0}],
         stray' \subseteq Inum,
         icache' \in [Slot -> Entry], \A t \in Slot : icache'[t].ref = icache[t].ref,
         Exact(icache', dtype', dnlink', Inval), LockedValid(icache', lock),
         icache'[ip[p]].valid
  PROVE  PInv'
<1>0. /\ TypeOK /\ Was(p) /\ SharedTypes /\ RefInv
      /\ lock \in [Slot -> Process \cup {None}] /\ icache \in [Slot -> Entry]
  BY Before DEF SharedTypes
<1>1. /\ puts' = [puts EXCEPT ![p] = <<w[p]>>] /\ w' = [w EXCEPT ![p] = None]
      /\ pc' = [pc EXCEPT ![p] = x]
  BY DEF PutW
<1>2. /\ w[p] # None /\ ip[p] # None /\ puts[p] = << >> /\ req[p] \in [op : Ops, new : Path]
  BY <1>0 DEF Was, CallAt
<1>2a. iph[p] = "no"
  BY <1>0, <1>2 DEF Was, CallAt
<1>3. w[p] \in Slot /\ ip[p] \in Slot
  BY <1>2, WAt, IpAt
<1>4. lock[w[p]] = p /\ lock[ip[p]] = None /\ w[p] # ip[p]
  <2>1. InCall(pc[p], w[p], ip[p], w[p])
    BY DEF InCall
  <2>2. lock[w[p]] = p
    BY <1>2a, <1>3, <2>1, HeldNow
  <2> QED BY <2>2, Bounds DEF Ilock, Free
<1>5. /\ calls' = calls
      /\ req' = req /\ path' = path /\ ip' = ip /\ iph' = iph /\ cwd' = cwd /\ files' = files
  OBVIOUS
<1>6. Goes(p, x, req[p], path[p], None, ip[p], <<w[p]>>, "no", cwd[p], files[p])
  BY <1>0, <1>1, <1>2a, <1>5, Stays, Zenon DEF Goes
<1>7. Typed(x, req[p], path[p], None, ip[p], <<w[p]>>, "no", cwd[p], files[p])
  <2>1. <<w[p]>> \in Seq(Slot)
    BY <1>3
  <2>2. x \in Points
    BY DEF Points
  <2> QED BY <1>0, <2>1, <2>2, Zenon DEF Was, Typed
<1>8. CallAt(x, req[p], path[p], None, ip[p], <<w[p]>>, "no")
  <2>1. Len(<<w[p]>>) = 1
    OBVIOUS
  <2> QED BY <1>2, <2>1 DEF CallAt
<1>9. \A t \in Slot : lock'[t] = IF t = ip[p] THEN p ELSE IF t = w[p] THEN None ELSE lock[t]
  BY <1>0, <1>3
<1>10. OwnLocks(p)
  BY <1>4, <1>9 DEF OwnLocks
<1>11. CallLocks(p, x, None, ip[p])
  <2>1. ASSUME NEW t \in Slot PROVE lock'[t] = p <=> t = ip[p]
    <3>1. t # w[p] => ~InCall(pc[p], w[p], ip[p], t)
      BY DEF InCall
    <3>2. t # w[p] => lock[t] # p
      BY <1>2a, <3>1, HeldNow
    <3>3. CASE t = ip[p]
      BY <1>9, <3>3
    <3>4. CASE t = w[p]
      BY <1>4, <1>9, <3>4, Bounds
    <3>5. CASE t # ip[p] /\ t # w[p]
      BY <1>9, <3>2, <3>5
    <3> QED BY <3>3, <3>4, <3>5
  <2> QED BY <2>1 DEF CallLocks, InCall
<1>12. Legal(p, x, req[p], path[p], None, ip[p], <<w[p]>>, "no", cwd[p], files[p])
  BY <1>7, <1>8, <1>10, <1>11, LegalIf
<1>13. SharedTypes'
  <2>1. lock' \in [Slot -> Process \cup {None}]
    BY <1>0
  <2> QED BY <1>0, <1>5, <2>1 DEF SharedTypes
<1>14. RefInv'
  <2>1. ASSUME NEW t \in Slot
        PROVE  icache'[t].ref = icache[t].ref + HoldsAt(None, ip[p], <<w[p]>>, cwd[p], t)
                                   - HoldsAt(w[p], ip[p], puts[p], cwd[p], t)
    <3>1. icache'[t].ref = icache[t].ref /\ icache[t].ref \in Nat
      BY <1>0 DEF Entry
    <3>2. HoldsAt(None, ip[p], <<w[p]>>, cwd[p], t)
            = Hit(cwd[p], t) + Hit(None, t) + Hit(ip[p], t) + Hit(w[p], t)
      BY Counts
    <3>3. HoldsAt(w[p], ip[p], puts[p], cwd[p], t)
            = Hit(cwd[p], t) + Hit(w[p], t) + Hit(ip[p], t)
      BY <1>2, Counts
    <3>4. /\ Hit(ip[p], t) \in {0, 1} /\ Hit(cwd[p], t) \in {0, 1} /\ Hit(None, t) = 0
          /\ Hit(w[p], t) \in {0, 1}
      BY Counts
    <3> QED BY <3>1, <3>2, <3>3, <3>4
  <2>2. MoveRefs(p, None, ip[p], <<w[p]>>, cwd[p])
    BY <2>1 DEF MoveRefs
  <2> QED BY <1>0, <1>6, <2>2, RefMove
<1>15. CacheInv'
  <2>1. LockedValid(icache', lock')
    <3>1. ASSUME NEW t \in Slot, lock'[t] # None PROVE icache'[t].valid
      BY <1>9, <3>1 DEF LockedValid
    <3> QED BY <3>1 DEF LockedValid
  <2>2. iph[p] # "invalid"
    BY <1>2a
  <2> QED BY <1>6, <2>1, <2>2, CacheStep
<1> QED BY <1>6, <1>12, <1>13, <1>14, <1>15, PStep

\* The directory and the inode, where both are locked.
LEMMA BothAt ==
  ASSUME PInv, NEW p \in Process, pc[p] \in {"init", "unlink"}, Ilock(ip[p])
  PROVE  /\ w[p] \in Slot /\ icache[w[p]].ref > 0 /\ icache[w[p]].inum \in Inum
         /\ ip[p] \in Slot /\ icache[ip[p]].ref > 0 /\ icache[ip[p]].inum \in Inum
         /\ w[p] # ip[p] /\ icache[w[p]].inum # icache[ip[p]].inum
         /\ w[p] \notin Inval /\ icache[w[p]].valid /\ lock[w[p]] = p /\ lock[ip[p]] = None
         /\ Head(path[p]) \in Name \cup {".", ".."} /\ puts[p] = << >> /\ iph[p] = "no"
         /\ Len(path[p]) = 1
<1>0. TypeOK /\ Was(p) /\ LockInv /\ LockedValid(icache, lock) /\ Exact(icache, dtype, dnlink, Inval)
  BY Before
<1>1. /\ w[p] # None /\ ip[p] # None /\ puts[p] = << >> /\ Len(path[p]) = 1
  BY <1>0 DEF Was, CallAt
<1>2. iph[p] = "no"
  BY <1>0, <1>1 DEF Was, CallAt
<1>3. /\ w[p] \in Slot /\ icache[w[p]].ref > 0 /\ icache[w[p]].inum \in Inum
      /\ ip[p] \in Slot /\ icache[ip[p]].ref > 0 /\ icache[ip[p]].inum \in Inum
  BY <1>1, WAt, IpAt
<1>4. InCall(pc[p], w[p], ip[p], w[p])
  BY DEF InCall
<1>5. lock[w[p]] = p
  BY <1>2, <1>3, <1>4, HeldNow
<1>6. lock[ip[p]] = None /\ w[p] # ip[p]
  BY <1>5, Bounds DEF Ilock, Free
<1>7. icache[w[p]].valid
  BY <1>0, <1>3, <1>5, Bounds DEF LockedValid
<1>8. w[p] \notin Inval
  BY <1>0, <1>3, <1>4, NotInval
<1>9. icache[w[p]].inum # icache[ip[p]].inum
  BY <1>0, <1>3, <1>6 DEF Exact
<1>10. path[p] # << >>
  BY <1>1
<1>11. Head(path[p]) \in Name \cup {".", ".."}
  BY <1>0, <1>10, HeadName
<1> QED BY <1>1, <1>2, <1>3, <1>5, <1>6, <1>7, <1>8, <1>9, <1>11

LEMMA PUnlinkEntry ==
  ASSUME PInv, NEW p \in Process, UnlinkEntry(p)
  PROVE  PInv'
<1>0. /\ TypeOK /\ Was(p) /\ SharedTypes /\ icache \in [Slot -> Entry]
      /\ dtype \in [Inum -> Types] /\ dnlink \in [Inum -> Int]
      /\ dent \in [Inum -> [Name -> Inum \cup {0}]] /\ dotdot \in [Inum -> Inum \cup {0}]
      /\ stray \subseteq Inum
  BY Before DEF SharedTypes
<1>1. pc[p] = "unlink" /\ Ilock(ip[p]) /\ PutW(p, "drop")
      /\ lock' = [lock EXCEPT ![w[p]] = None, ![ip[p]] = p]
  BY DEF UnlinkEntry
<1>2. UNCHANGED <<req, path, ip, iph, cwd, files, calls>>
  BY DEF UnlinkEntry, history
<1>3. dtype' = dtype /\ dotdot' = dotdot /\ stray' = stray
  BY DEF UnlinkEntry, history
<1>4. PICK s \in Slot, t \in Slot :
        /\ s = ip[p] /\ t = w[p] /\ icache[s].ref > 0 /\ icache[s].inum \in Inum
        /\ icache[t].ref > 0 /\ icache[t].inum \in Inum
        /\ t # s /\ t \notin Inval /\ icache[t].valid /\ lock[t] = p /\ lock[s] = None
        /\ Head(path[p]) \in Name \cup {".", ".."}
  BY <1>1, BothAt
<1>5. PICK k : /\ k = icache[t].nlink - dotdot_links(ilocked(s).type)
               /\ icache' = [icache EXCEPT ![s] = ilocked(s), ![t].nlink = k]
               /\ dnlink' = [dnlink EXCEPT ![icache[t].inum] = k]
               /\ dent' = [dent EXCEPT ![icache[t].inum][Head(path[p])] = 0]
  BY <1>4 DEF UnlinkEntry
<1>6. k \in Int
  BY <1>0, <1>5 DEF Entry, dotdot_links
<1>7. PICK c : c = [icache EXCEPT ![s] = ilocked(s)]
  OBVIOUS
<1>8. /\ c \in [Slot -> Entry] /\ Known(icache, c, s)
      /\ Exact(c, dtype, dnlink, Inval) /\ LockedValid(c, lock)
  <2>1. Ilock(s)
    BY <1>1, <1>4
  <2> QED BY <1>4, <1>7, <2>1, ReadStep
<1>9. c[t] = icache[t] /\ c[s].valid
  BY <1>4, <1>8 DEF Known
<1>10. icache' = SetLinks(c, t, k)
  BY <1>0, <1>4, <1>5, <1>7, <1>9 DEF SetLinks
<1>11. /\ Known(c, SetLinks(c, t, k), t)
       /\ Exact(SetLinks(c, t, k), dtype, LinksAt(dnlink, c[t].inum, k), Inval)
       /\ LockedValid(SetLinks(c, t, k), lock)
  BY <1>0, <1>4, <1>6, <1>8, <1>9, Update
<1>12. icache' \in [Slot -> Entry] /\ \A x \in Slot : icache'[x].ref = icache[x].ref
  BY <1>8, <1>10, <1>11 DEF Known
<1>13. icache'[ip[p]].valid
  BY <1>4, <1>9, <1>10, <1>11 DEF Known
<1>14. Exact(icache', dtype', dnlink', Inval) /\ LockedValid(icache', lock)
  BY <1>3, <1>5, <1>9, <1>10, <1>11 DEF LinksAt
<1>15. /\ dtype' \in [Inum -> Types] /\ dnlink' \in [Inum -> Int]
       /\ dotdot' \in [Inum -> Inum \cup {0}] /\ stray' \subseteq Inum
  BY <1>0, <1>3, <1>5, <1>6
<1>16. dent' \in [Inum -> [Name -> Inum \cup {0}]]
  BY <1>0, <1>4, <1>5
<1> QED BY <1>1, <1>2, <1>12, <1>13, <1>14, <1>15, <1>16, PSwap

LEMMA PCreateInit ==
  ASSUME PInv, NEW p \in Process, CreateInit(p)
  PROVE  PInv'
<1>0. /\ TypeOK /\ Was(p) /\ SharedTypes /\ icache \in [Slot -> Entry]
      /\ dtype \in [Inum -> Types] /\ dnlink \in [Inum -> Int]
      /\ dent \in [Inum -> [Name -> Inum \cup {0}]] /\ dotdot \in [Inum -> Inum \cup {0}]
      /\ stray \subseteq Inum
  BY Before DEF SharedTypes
<1>1. pc[p] = "init" /\ Ilock(ip[p]) /\ PutW(p, "created")
      /\ lock' = [lock EXCEPT ![w[p]] = None, ![ip[p]] = p]
  BY DEF CreateInit
<1>2. UNCHANGED <<req, path, ip, iph, cwd, files, calls>>
  BY DEF CreateInit
<1>3. dtype' = dtype
  BY DEF CreateInit
<1>4. PICK s \in Slot, t \in Slot :
        /\ s = ip[p] /\ t = w[p] /\ icache[s].ref > 0 /\ icache[s].inum \in Inum
        /\ icache[t].ref > 0 /\ icache[t].inum \in Inum
        /\ t # s /\ t \notin Inval /\ icache[t].valid /\ lock[t] = p /\ lock[s] = None
        /\ Head(path[p]) \in Name \cup {".", ".."}
  BY <1>1, BothAt
<1>5. PICK k : /\ k = icache[t].nlink + (IF req[p].op = "mkdir" THEN 1 ELSE 0)
               /\ icache' = [icache EXCEPT ![s] = [ilocked(s) EXCEPT !.nlink = 1], ![t].nlink = k]
               /\ dnlink' = [dnlink EXCEPT ![ilocked(s).inum] = 1, ![icache[t].inum] = k]
               /\ dirlink(icache[t].inum, Head(path[p]), ilocked(s).inum)
               /\ dotdot' = IF req[p].op = "mkdir"
                      THEN [dotdot EXCEPT ![ilocked(s).inum] = icache[t].inum] ELSE dotdot
               /\ Strays(icache[t].inum, ilocked(s).inum)
  BY <1>4 DEF CreateInit
<1>6. k \in Int
  BY <1>0, <1>5 DEF Entry
<1>7. PICK g : g = Relinked(s, 1)
  OBVIOUS
<1>8. /\ g \in [Slot -> Entry] /\ Known(icache, g, s) /\ ilocked(s).inum = icache[s].inum
      /\ Exact(g, dtype, LinksAt(dnlink, icache[s].inum, 1), Inval) /\ LockedValid(g, lock)
  <2>1. Ilock(s) /\ 1 \in Int
    BY <1>1, <1>4
  <2> QED BY <1>4, <1>7, <2>1, ReadSet
<1>9. g[t] = icache[t] /\ g[s].valid
  BY <1>4, <1>8 DEF Known
<1>10. icache' = SetLinks(g, t, k)
  BY <1>0, <1>4, <1>5, <1>7, <1>9 DEF SetLinks, Relinked
<1>11. PICK e : e = LinksAt(dnlink, icache[s].inum, 1)
  OBVIOUS
<1>12. e \in [Inum -> Int]
  BY <1>0, <1>4, <1>11 DEF LinksAt
<1>13. /\ Known(g, SetLinks(g, t, k), t)
       /\ Exact(SetLinks(g, t, k), dtype, LinksAt(e, g[t].inum, k), Inval)
       /\ LockedValid(SetLinks(g, t, k), lock)
  <2>1. /\ g[t].ref > 0 /\ g[t].valid /\ t \notin Inval
        /\ Exact(g, dtype, e, Inval) /\ LockedValid(g, lock)
    BY <1>4, <1>8, <1>9, <1>11
  <2> QED BY <1>0, <1>6, <1>8, <1>12, <2>1, Update
<1>14. icache' \in [Slot -> Entry] /\ \A x \in Slot : icache'[x].ref = icache[x].ref
  BY <1>8, <1>10, <1>13 DEF Known
<1>15. icache'[ip[p]].valid
  BY <1>4, <1>9, <1>10, <1>13 DEF Known
<1>16. dnlink' = LinksAt(e, g[t].inum, k)
  BY <1>0, <1>4, <1>5, <1>8, <1>9, <1>11 DEF LinksAt
<1>17. Exact(icache', dtype', dnlink', Inval) /\ LockedValid(icache', lock)
  BY <1>3, <1>10, <1>13, <1>16
<1>18. dtype' \in [Inum -> Types] /\ dnlink' \in [Inum -> Int]
  BY <1>0, <1>3, <1>4, <1>6, <1>9, <1>12, <1>16 DEF LinksAt
<1>19. dent' \in [Inum -> [Name -> Inum \cup {0}]]
  BY <1>0, <1>4, <1>5, <1>8 DEF dirlink
<1>20. dotdot' \in [Inum -> Inum \cup {0}] /\ stray' \subseteq Inum
  BY <1>0, <1>4, <1>5, <1>8 DEF Strays
<1> QED BY <1>1, <1>2, <1>14, <1>15, <1>17, <1>18, <1>19, <1>20, PSwap

LEMMA PLinkInc ==
  ASSUME PInv, NEW p \in Process, LinkInc(p)
  PROVE  PInv'
<1>0. /\ TypeOK /\ Was(p) /\ SharedTypes /\ RefInv /\ CallInv /\ CacheInv
      /\ icache \in [Slot -> Entry]
      /\ dtype \in [Inum -> Types] /\ dnlink \in [Inum -> Int]
  BY Before DEF SharedTypes
<1>1. /\ At(p, {"link"}) /\ ip[p] = None /\ Ilock(w[p])
      /\ ip' = [ip EXCEPT ![p] = w[p]]
  BY DEF LinkInc
<1>2. /\ pc[p] = "at" /\ puts[p] = << >> /\ iph[p] = "no" /\ req[p].op = "link"
      /\ w[p] \in Slot /\ icache[w[p]].ref > 0 /\ icache[w[p]].inum \in Inum
  BY <1>1, AtPoint DEF At
<1>3. req[p] \in [op : Ops, new : Path]
  BY <1>0, <1>2 DEF Was, CallAt
<1>4. PICK s \in Slot : s = w[p] /\ icache[s].ref > 0 /\ icache[s].inum \in Inum /\ Ilock(s)
  BY <1>1, <1>2
<1>5. PICK k : k = ilocked(s).nlink + 1
  OBVIOUS
<1>6. k \in Int
  <2>1. Keeps([icache EXCEPT ![s] = ilocked(s)])
        /\ [icache EXCEPT ![s] = ilocked(s)][s] = ilocked(s)
    BY <1>4, ReadKeeps
  <2>2. ilocked(s) \in Entry
    BY <2>1 DEF Keeps
  <2> QED BY <1>5, <2>2 DEF Entry
<1>7. PICK g : g = Relinked(s, k)
  OBVIOUS
<1>8. /\ g \in [Slot -> Entry] /\ Known(icache, g, s) /\ g[s].nlink = k
      /\ Exact(g, dtype, LinksAt(dnlink, icache[s].inum, k), Inval)
      /\ LockedValid(g, lock) /\ LockedUsed(g, lock)
      /\ ilocked(s).type = dtype[icache[s].inum] /\ ilocked(s).inum = icache[s].inum
  BY <1>4, <1>6, <1>7, ReadSet
<1>9. PICK x : x = [ilocked(s) EXCEPT !.nlink = @ + 1]
  OBVIOUS
<1>10. /\ iupdate(x) /\ Start(p, req[p].new, [icache EXCEPT ![s] = x])
  BY <1>4, <1>9 DEF LinkInc
<1>11. ilocked(s) \in Entry
  <2>1. Keeps([icache EXCEPT ![s] = ilocked(s)])
        /\ [icache EXCEPT ![s] = ilocked(s)][s] = ilocked(s)
    BY <1>4, ReadKeeps
  <2> QED BY <2>1 DEF Keeps
<1>12. /\ x = [ilocked(s) EXCEPT !.nlink = k] /\ x.type = ilocked(s).type
       /\ x.inum = ilocked(s).inum /\ x.nlink = k
  BY <1>5, <1>9, <1>11 DEF Entry
<1>13. g = [icache EXCEPT ![s] = x]
  BY <1>7, <1>12 DEF Relinked
<1>14. dtype' = dtype /\ dnlink' = LinksAt(dnlink, icache[s].inum, k)
  BY <1>0, <1>4, <1>8, <1>10, <1>12 DEF iupdate, LinksAt
<1>15. cwd[p] \in Slot /\ g[cwd[p]].ref > 0 /\ g[cwd[p]].inum \in Inum
  <2>1. cwd[p] \in Slot
    BY <1>0 DEF Was, Typed
  <2>2. icache[cwd[p]].ref > 0 /\ icache[cwd[p]].inum \in Inum
    BY <1>0, <2>1, InUseBy
  <2> QED BY <1>8, <2>1, <2>2 DEF Known
<1>16. PICK u \in Slot, i \in Inum, l \in Seq(Name \cup {".", ".."}) :
        /\ Got(g, icache', u, i)
        /\ w' = [w EXCEPT ![p] = u] /\ path' = [path EXCEPT ![p] = l]
        /\ pc' = [pc EXCEPT ![p] = "walk"]
  <2>1. Start(p, req[p].new, g) /\ req[p].new \in Path
    BY <1>3, <1>10, <1>13
  <2> QED BY <1>8, <1>15, <2>1, Starts
<1>17. /\ dent' = dent /\ dotdot' = dotdot /\ lock' = lock /\ req' = req /\ puts' = puts
       /\ iph' = iph /\ cwd' = cwd /\ files' = files /\ calls' = calls /\ stray' = stray
  BY DEF LinkInc, history
<1>18. Goes(p, "walk", req[p], l, u, s, << >>, "no", cwd[p], files[p])
  BY <1>0, <1>1, <1>2, <1>4, <1>16, <1>17, Stays, Zenon DEF Goes
<1>19. Typed("walk", req[p], l, u, s, << >>, "no", cwd[p], files[p])
  <2>1. << >> \in Seq(Slot) /\ "walk" \in Points
    BY DEF Points
  <2> QED BY <1>0, <2>1, Zenon DEF Was, Typed
<1>20. CallAt("walk", req[p], l, u, s, << >>, "no")
  <2>1. Len(<< >>) = 0
    OBVIOUS
  <2> QED BY <1>2, <1>3, <2>1, Bounds DEF CallAt
<1>21. OwnLocks(p) /\ CallLocks(p, "walk", u, s)
  <2>1. ASSUME NEW t \in Slot PROVE lock[t] # p
    <3>1. ~InCall(pc[p], w[p], ip[p], t)
      BY <1>2 DEF InCall
    <3> QED BY <1>2, <3>1, HeldNow
  <2> QED BY <1>17, <2>1 DEF OwnLocks, CallLocks, InCall
<1>22. Legal(p, "walk", req[p], l, u, s, << >>, "no", cwd[p], files[p])
  BY <1>19, <1>20, <1>21, LegalIf
<1>23. /\ Exact(icache', dtype', dnlink', Inval) /\ LockedValid(icache', lock')
       /\ icache' \in [Slot -> Entry]
  <2>1. Exact(icache', dtype, LinksAt(dnlink, icache[s].inum, k), Inval)
        /\ LockedValid(icache', lock)
    BY <1>8, <1>16, Get
  <2>2. icache' \in [Slot -> Entry]
    BY <1>16 DEF Got
  <2> QED BY <1>14, <1>17, <2>1, <2>2
<1>24. SharedTypes'
  <2>1. dtype' \in [Inum -> Types] /\ dnlink' \in [Inum -> Int]
    BY <1>0, <1>4, <1>6, <1>14 DEF LinksAt
  <2> QED BY <1>0, <1>17, <1>23, <2>1 DEF SharedTypes
<1>25. RefInv'
  <2>1. ASSUME NEW t \in Slot
        PROVE  icache'[t].ref = icache[t].ref + HoldsAt(u, s, << >>, cwd[p], t)
                                   - HoldsAt(w[p], ip[p], puts[p], cwd[p], t)
    <3>1. icache'[t].ref = g[t].ref + Hit(u, t)
      BY <1>16 DEF Got
    <3>1a. g[t].ref = icache[t].ref /\ icache[t].ref \in Nat
      BY <1>0, <1>8 DEF Entry, Known
    <3>2. HoldsAt(u, s, << >>, cwd[p], t) = Hit(cwd[p], t) + Hit(u, t) + Hit(s, t)
      BY Counts
    <3>3. HoldsAt(w[p], ip[p], puts[p], cwd[p], t)
            = Hit(cwd[p], t) + Hit(s, t) + Hit(None, t)
      BY <1>1, <1>2, <1>4, Counts
    <3>4. /\ Hit(u, t) \in {0, 1} /\ Hit(cwd[p], t) \in {0, 1} /\ Hit(None, t) = 0
          /\ Hit(s, t) \in {0, 1}
      BY Counts
    <3> QED BY <3>1, <3>1a, <3>2, <3>3, <3>4
  <2>2. MoveRefs(p, u, s, << >>, cwd[p])
    BY <2>1 DEF MoveRefs
  <2> QED BY <1>0, <1>18, <2>2, RefMove
<1>26. CacheInv'
  <2>1. iph[p] # "invalid"
    BY <1>2
  <2> QED BY <1>18, <1>23, <2>1, CacheStep
<1> QED BY <1>18, <1>22, <1>24, <1>25, <1>26, PStep

-----------------------------------------------------------------------------
(* The first state, and the theorems about references and the cache *)

LEMMA InitEntries ==
  ASSUME Init
  PROVE  dent \in [Inum -> [Name -> Inum \cup {0}]]
<1>1. ASSUME NEW i \in Inum, NEW n \in Name PROVE dent[i][n] \in Inum \cup {0}
  <2>1. dent[i][n] = IF i = ROOTINO /\ \E k \in DOMAIN Image : Image[k] = n
                     THEN 1 + (CHOOSE k \in DOMAIN Image : Image[k] = n) ELSE 0
    BY DEF Init
  <2>2. CASE i = ROOTINO /\ \E k \in DOMAIN Image : Image[k] = n
    <3>1. PICK j : j = CHOOSE k \in DOMAIN Image : Image[k] = n
      OBVIOUS
    <3>2. j \in DOMAIN Image
      BY <2>2, <3>1
    <3>3. DOMAIN Image = 1 .. Len(Image) /\ Len(Image) \in Nat /\ Len(Image) < NInum
      BY InodesAssumption
    <3>4. 1 + j \in Inum
      BY <3>2, <3>3, Bounds DEF Inum
    <3> QED BY <2>1, <2>2, <3>1, <3>4
  <2>3. CASE ~(i = ROOTINO /\ \E k \in DOMAIN Image : Image[k] = n)
    BY <2>1, <2>3
  <2> QED BY <2>2, <2>3
<1>2. \A i \in Inum : dent[i] \in [Name -> Inum \cup {0}]
  <2>1. ASSUME NEW i \in Inum PROVE dent[i] = [n \in Name |-> dent[i][n]]
    BY DEF Init
  <2> QED BY <1>1, <2>1
<1>3. dent = [i \in Inum |-> dent[i]]
  BY DEF Init
<1> QED BY <1>2, <1>3

LEMMA InitRefs ==
  ASSUME Init
  PROVE  RefInv
<1>0. /\ cwd = [p \in Process |-> 1] /\ w = [p \in Process |-> None]
      /\ ip = [p \in Process |-> None] /\ puts = [p \in Process |-> << >>]
      /\ files = [p \in Process |-> [k \in Fd |-> None]]
  BY DEF Init
<1>1. ASSUME NEW p \in Process, NEW l \in Place
      PROVE  pointer(p, l) = IF l = <<"cwd", 0>> THEN 1 ELSE None
  <2>1. /\ cwd[p] = 1 /\ w[p] = None /\ ip[p] = None /\ puts[p] = << >>
        /\ \A k \in Fd : files[p][k] = None
    BY <1>0
  <2>2. l \in {<<"cwd", 0>>, <<"w", 0>>, <<"ip", 0>>, <<"put", 1>>, <<"put", 2>>}
        \/ \E k \in Fd : l = <<"fd", k>>
    BY DEF Place
  <2> QED BY <2>1, <2>2, Kinds, PutsNone
<1>2. PICK z \in Place : z = <<"cwd", 0>>
  <2>1. <<"cwd", 0>> \in Place
    BY DEF Place
  <2> QED BY <2>1
<1>3. Refs(1) = Process \X {z}
  BY <1>1, <1>2, Bounds DEF Refs
<1>4. \A s \in Slot : s # 1 => Refs(s) = {}
  BY <1>1, Bounds DEF Refs
<1>5. IsFiniteSet(Process) /\ IsFiniteSet({z}) /\ Cardinality({z}) = 1
  BY InodesAssumption, FS_Singleton
<1>6. Cardinality(Process \X {z}) = Cardinality(Process) * 1 /\ Cardinality(Process) \in Nat
  BY <1>5, FS_Product, FS_CardinalityType
<1>7. Cardinality({}) = 0
  BY FS_EmptySet
<1>8. \A s \in Slot : icache[s].ref = IF s = 1 THEN Cardinality(Process) ELSE 0
  BY DEF Init
<1>9. Cardinality(Refs(1)) = Cardinality(Process)
  BY <1>3, <1>6
<1>10. \A s \in Slot : s # 1 => Cardinality(Refs(s)) = 0
  BY <1>4, <1>7
<1>11. ASSUME NEW s \in Slot PROVE icache[s].ref = Cardinality(Refs(s))
  <2>1. CASE s = 1
    BY <1>8, <1>9, <2>1
  <2>2. CASE s # 1
    BY <1>8, <1>10, <2>2
  <2> QED BY <2>1, <2>2
<1> QED BY <1>11 DEF RefInv

LEMMA PInit ==
  ASSUME Init
  PROVE  PInv
<1>1. TypeOK
  <2>1. dtype \in [Inum -> Types] /\ dnlink \in [Inum -> Int]
    BY DEF Init, Types
  <2>2. dotdot \in [Inum -> Inum \cup {0}]
    BY Bounds DEF Init
  <2>3. icache \in [Slot -> Entry]
    <3>1. Cardinality(Process) \in Nat
      BY InodesAssumption, FS_CardinalityType
    <3> QED BY <3>1, Bounds DEF Init, Entry, Types
  <2>4. /\ lock \in [Slot -> Process \cup {None}] /\ pc \in [Process -> Points]
        /\ req \in [Process -> [op : Ops, new : Path] \cup {None}]
    BY DEF Init, Points
  <2>5. /\ path \in [Process -> Seq(Name \cup {".", ".."})] /\ puts \in [Process -> Seq(Slot)]
    BY DEF Init
  <2>6. /\ w \in [Process -> Slot \cup {None}] /\ ip \in [Process -> Slot \cup {None}]
        /\ iph \in [Process -> {"no", "free", "invalid", "drop"}]
    BY DEF Init
  <2>7. /\ cwd \in [Process -> Slot] /\ files \in [Process -> [Fd -> Slot \cup {None}]]
        /\ calls \in Nat /\ stray \subseteq Inum
    BY Bounds DEF Init
  <2> QED BY <2>1, <2>2, <2>3, <2>4, <2>5, <2>6, <2>7, InitEntries, Zenon DEF TypeOK
<1>2. \A p \in Process : /\ pc[p] = "user" /\ w[p] = None /\ ip[p] = None
                         /\ puts[p] = << >> /\ iph[p] = "no"
  BY DEF Init
<1>3. CallInv
  <2>1. Len(<< >>) = 0
    OBVIOUS
  <2> QED BY <1>2, <2>1 DEF CallInv, CallAt
<1>4. \A s \in Slot : lock[s] = None
  BY DEF Init
<1>5. LockInv
  BY <1>2, <1>4, Bounds DEF LockInv, LocksOf, InIput, InCall
<1>6. CacheInv
  <2>1. \A s \in Slot : icache[s].ref > 0 => s = 1
    BY DEF Init
  <2>2. icache[1].inum = ROOTINO /\ ~icache[1].valid
    BY Bounds DEF Init
  <2>3. Exact(icache, dtype, dnlink, Inval)
    BY <2>1, <2>2, Bounds DEF Exact
  <2> QED BY <1>4, <2>3 DEF CacheInv, LockedValid
<1> QED BY <1>1, <1>3, <1>5, <1>6, InitRefs DEF PInv

LEMMA PNext ==
  ASSUME PInv, [Next]_vars
  PROVE  PInv'
<1>1. CASE UNCHANGED vars
  <2>1. /\ dtype' = dtype /\ dnlink' = dnlink /\ dent' = dent /\ dotdot' = dotdot
        /\ icache' = icache /\ lock' = lock /\ pc' = pc /\ req' = req /\ path' = path
        /\ w' = w /\ ip' = ip /\ puts' = puts /\ iph' = iph /\ cwd' = cwd
        /\ files' = files /\ calls' = calls /\ stray' = stray
    BY <1>1 DEF vars, disk, local, history
  <2>2. TypeOK' /\ CallInv' /\ LockInv'
    BY <2>1 DEF PInv, TypeOK, CallInv, LockInv, LocksOf
  <2>3. RefInv' /\ CacheInv'
    <3>1. Inval' = Inval
      BY <2>1 DEF Inval
    <3>2. \A s : Refs(s)' = Refs(s)
      BY <2>1 DEF Refs, pointer
    <3> QED BY <2>1, <3>1, <3>2 DEF PInv, RefInv, CacheInv
  <2> QED BY <2>2, <2>3 DEF PInv
<1>2. ASSUME NEW p \in Process, Step(p) PROVE PInv'
  <2>1. CASE IputTest(p) \/ IputFree(p) \/ IputInvalid(p) \/ IputDrop(p)
    BY <2>1, PTest, PFree, PInvalid, PDrop
  <2>2. CASE Call(p) \/ Close(p) \/ Return(p)
    BY <2>2, PCall, PClose, PReturn
  <2>3. CASE WalkNext(p) \/ WalkEnd(p) \/ WalkFails(p)
    BY <2>3, PWalkNext, PWalkEnd, PWalkFails
  <2>4. CASE Open(p) \/ Chdir(p)
    BY <2>4, POpen, PChdir
  <2>5. CASE CreateExists(p) \/ CreateAlloc(p) \/ CreateInit(p) \/ CreateOld(p) \/ Created(p)
    BY <2>5, PCreateExists, PCreateAlloc, PCreateInit, PCreateOld, PCreated
  <2>6. CASE UnlinkLookup(p) \/ UnlinkEntry(p) \/ UnlinkDrop(p)
    BY <2>6, PUnlinkLookup, PUnlinkEntry, PUnlinkDrop
  <2>7. CASE UnlinkRefused(p) \/ Refused(p)
    BY <2>7, PUnlinkRefused, PRefused
  <2>8. CASE LinkInc(p) \/ LinkDir(p) \/ LinkExists(p) \/ LinkEntry(p) \/ LinkBad(p)
    BY <2>8, PLinkInc, PLinkDir, PLinkExists, PLinkEntry, PLinkBad
  <2> QED BY <1>2, <2>1, <2>2, <2>3, <2>4, <2>5, <2>6, <2>7, <2>8 DEF Step
<1> QED BY <1>1, <1>2 DEF Next

\* Every call of fs.c and sysfile.c, and every step of iput, keeps the pointers
\* of a process as its point in the call says, the locks it holds, the
\* reference counts and the cache.
THEOREM Invariance == Spec => []PInv
<1>1. Init => PInv
  BY PInit
<1>2. PInv /\ [Next]_vars => PInv'
  BY PNext
<1> QED BY <1>1, <1>2, PTL DEF Spec

\* The reference count of a cached inode is the number of pointers to it (iget,
\* idup and iput, on every path of namex, create, link, unlink, open, chdir and
\* close).
THEOREM References == Spec => []RefsExact
<1>1. PInv => RefsExact
  <2> SUFFICES ASSUME PInv PROVE RefsExact
    OBVIOUS
  <2>1. TypeOK /\ CallInv /\ RefInv
    BY DEF PInv
  <2>2. \A p \in Process : Len(puts[p]) <= 2
    BY <2>1 DEF CallInv, CallAt
  <2> QED BY <2>1, <2>2 DEF RefsExact, RefInv
<1> QED BY <1>1, Invariance, PTL

\* An inode has one entry of the cache at most (iget), which agrees with the
\* disk whenever it is valid and not locked (ilock, iupdate and iput).
THEOREM Cache == Spec => []CacheExact
<1>1. PInv => CacheExact
  <2> SUFFICES ASSUME PInv, NEW s \in Slot, icache[s].ref > 0
               PROVE  /\ InUse(icache, icache[s].inum) = {s}
                      /\ icache[s].valid /\ lock[s] = None
                           => /\ icache[s].type = dtype[icache[s].inum]
                              /\ icache[s].nlink = dnlink[icache[s].inum]
    BY DEF CacheExact
  <2>1. TypeOK /\ LockInv /\ Exact(icache, dtype, dnlink, Inval)
    BY DEF PInv, CacheInv
  <2>2. \A t \in Slot : icache[t].ref > 0 /\ icache[t].inum = icache[s].inum => t = s
    BY <2>1 DEF Exact
  <2>3. InUse(icache, icache[s].inum) = {s}
    BY <2>2 DEF InUse
  <2>4. ASSUME icache[s].valid, lock[s] = None
        PROVE  Agrees(icache[s], dtype, dnlink)
    <3>1. s \notin Inval
      BY <2>1, <2>4, NotInval
    <3> QED BY <2>1, <2>4, <3>1 DEF Exact
  <2> QED BY <2>3, <2>4 DEF Agrees
<1> QED BY <1>1, Invariance, PTL

-----------------------------------------------------------------------------
(* Counting names, subdirectories and links that are owed *)

LEMMA FiniteAll ==
  /\ IsFiniteSet(Inum \X Name) /\ IsFiniteSet(Name) /\ IsFiniteSet(Process)
  /\ \A i : IsFiniteSet(Entries(i)) /\ IsFiniteSet(Subdirs(i)) /\ IsFiniteSet(Pending(i))
<1>1. IsFiniteSet(Inum) /\ IsFiniteSet(Name) /\ IsFiniteSet(Process)
  BY Bounds, InodesAssumption, FS_Interval DEF Inum
<1>2. IsFiniteSet(Inum \X Name)
  BY <1>1, FS_Product
<1>3. ASSUME NEW i
      PROVE  IsFiniteSet(Entries(i)) /\ IsFiniteSet(Subdirs(i)) /\ IsFiniteSet(Pending(i))
  BY <1>1, <1>2, FS_Subset DEF Entries, Subdirs, Pending
<1> QED BY <1>1, <1>2, <1>3

LEMMA LinkParts ==
  ASSUME NEW i
  PROVE  /\ Named(i) \in Nat /\ Cardinality(Entries(i)) \in Nat
         /\ Cardinality(Subdirs(i)) \in Nat /\ Cardinality(Pending(i)) \in Nat
         /\ Links(i) = Named(i) + Cardinality(Subdirs(i)) + Cardinality(Pending(i))
         /\ Named(i) = Cardinality(Entries(i)) + Hit(i, ROOTINO)
         /\ Named(i) = 0 <=> i # ROOTINO /\ Entries(i) = {}
<1>1. /\ Cardinality(Entries(i)) \in Nat
      /\ Cardinality(Subdirs(i)) \in Nat /\ Cardinality(Pending(i)) \in Nat
  BY FiniteAll, FS_CardinalityType
<1>2. Named(i) = Cardinality(Entries(i)) + Hit(i, ROOTINO)
  BY DEF Named, Hit
<1>3. Hit(i, ROOTINO) \in {0, 1} /\ (Hit(i, ROOTINO) = 0 <=> i # ROOTINO)
  BY DEF Hit
<1>4. Cardinality(Entries(i)) = 0 <=> Entries(i) = {}
  BY FiniteAll, FS_EmptySet
<1>5. Named(i) \in Nat
  BY <1>1, <1>2, <1>3
<1>6. Named(i) = 0 <=> i # ROOTINO /\ Entries(i) = {}
  BY <1>1, <1>2, <1>3, <1>4
<1> QED BY <1>1, <1>2, <1>5, <1>6 DEF Links

LEMMA NotEmptyCount ==
  ASSUME NEW S, IsFiniteSet(S), NEW x \in S
  PROVE  Cardinality(S) \in Nat /\ Cardinality(S) >= 1
<1>1. Cardinality(S) \in Nat /\ Cardinality(S) # 0
  BY FS_EmptySet, FS_CardinalityType
<1> QED BY <1>1

\* One entry of a directory changes.
LEMMA EntryChange ==
  ASSUME TypeOK, NEW d \in Inum, NEW n \in Name, NEW y, dirlink(d, n, y), NEW j
  PROVE  Named(j)' = Named(j) + Hit(y, j) - Hit(dent[d][n], j)
<1>a. dent' = [dent EXCEPT ![d][n] = y]
  BY DEF dirlink
<1> DEFINE D == Inum \X Name
           T == [x \in D |-> dent[x[1]][x[2]]]
           U == [x \in D |-> dent'[x[1]][x[2]]]
           z == <<d, n>>
<1>0. dent \in [Inum -> [Name -> Inum \cup {0}]]
  BY DEF TypeOK
<1>1. z \in D /\ T[z] = dent[d][n] /\ U[z] = y
  BY <1>a, <1>0
<1>2. \A x \in D : x = <<x[1], x[2]>> /\ x[1] \in Inum /\ x[2] \in Name
  OBVIOUS
<1>3. ASSUME NEW x \in D, x # z PROVE U[x] = T[x]
  <2>1. x[1] # d \/ x[2] # n
    BY <1>2, <1>3
  <2> QED BY <1>a, <1>0, <1>2, <2>1
<1>4. SameBut(D, T, U, {z})
  BY <1>3 DEF SameBut
<1>5. Entries(j) = {x \in D : T[x] = j} /\ Entries(j)' = {x \in D : U[x] = j}
  BY DEF Entries
<1>6. Cardinality(Entries(j)) = Count(D, T, j) /\ Cardinality(Entries(j)') = Count(D, U, j)
  BY <1>5 DEF Count
<1>7. IsFiniteSet(D)
  BY FiniteAll
<1> HIDE DEF D, T, U, z
<1>8. Count(D, U, j) = Count(D, T, j) + Hit(U[z], j) - Hit(T[z], j) /\ Count(D, T, j) \in Nat
  BY <1>1, <1>4, <1>7, CountChange
<1>9. Named(j) = Cardinality(Entries(j)) + Hit(j, ROOTINO)
  BY DEF Named, Hit
<1>10. Named(j)' = Cardinality(Entries(j)') + Hit(j, ROOTINO)
  BY DEF Named, Hit
<1>11. /\ Hit(j, ROOTINO) \in {0, 1} /\ Hit(y, j) \in {0, 1} /\ Hit(dent[d][n], j) \in {0, 1}
  BY DEF Hit
<1> QED BY <1>1, <1>6, <1>8, <1>9, <1>10, <1>11

IsDir(y) == IF y # 0 /\ dtype[y] = "dir" THEN 1 ELSE 0

LEMMA DirChange ==
  ASSUME TypeOK, NEW d \in Inum, NEW n \in Name, NEW y, dirlink(d, n, y), dtype' = dtype
  PROVE  /\ Cardinality(Subdirs(d)') = Cardinality(Subdirs(d)) + IsDir(y) - IsDir(dent[d][n])
         /\ \A j \in Inum : j # d => Subdirs(j)' = Subdirs(j)
<1>a. dent' = [dent EXCEPT ![d][n] = y]
  BY DEF dirlink
<1> DEFINE T == [m \in Name |-> IsDir(dent[d][m])]
           U == [m \in Name |-> IsDir(dent'[d][m])]
<1>0. dent \in [Inum -> [Name -> Inum \cup {0}]]
  BY DEF TypeOK
<1>1. T[n] = IsDir(dent[d][n]) /\ U[n] = IsDir(y) /\ \A m \in Name : m # n => U[m] = T[m]
  BY <1>a, <1>0
<1>2. SameBut(Name, T, U, {n})
  BY <1>1 DEF SameBut
<1>3. Subdirs(d) = {m \in Name : T[m] = 1} /\ Subdirs(d)' = {m \in Name : U[m] = 1}
  BY DEF Subdirs, IsDir
<1>4. Cardinality(Subdirs(d)) = Count(Name, T, 1) /\ Cardinality(Subdirs(d)') = Count(Name, U, 1)
  BY <1>3 DEF Count
<1>5. IsFiniteSet(Name)
  BY FiniteAll
<1>6. \A j \in Inum : j # d => Subdirs(j)' = Subdirs(j)
  BY <1>a, <1>0 DEF Subdirs
<1> HIDE DEF T, U
<1>7. /\ Count(Name, U, 1) = Count(Name, T, 1) + Hit(U[n], 1) - Hit(T[n], 1)
      /\ Count(Name, T, 1) \in Nat
  BY <1>2, <1>5, CountChange
<1>8. Hit(U[n], 1) = IsDir(y) /\ Hit(T[n], 1) = IsDir(dent[d][n])
  BY <1>1 DEF Hit, IsDir
<1> QED BY <1>4, <1>6, <1>7, <1>8

\* The inode that p owes a name, or the removal of a link.
Owed(p) == IF Owes(p) THEN I(ip[p]) ELSE 0
OthersSame(p) == \A q \in Process \ {p} : Same(q)
InumsKept == \A s \in Slot : icache[s].ref > 0 => icache'[s].inum = icache[s].inum

LEMMA OwedStays ==
  ASSUME PInv, NEW p \in Process, OthersSame(p), InumsKept, NEW q \in Process, q # p
  PROVE  Owed(q)' = Owed(q)
<1>1. pc'[q] = pc[q] /\ ip'[q] = ip[q]
  BY DEF OthersSame, Same
<1>2. Owes(q)' <=> Owes(q)
  BY <1>1 DEF Owes
<1>3. CASE Owes(q)
  <2>1. ip[q] \in Slot /\ icache[ip[q]].ref > 0
    BY <1>3, IpAt DEF Owes
  <2>2. icache'[ip[q]].inum = icache[ip[q]].inum
    BY <2>1 DEF InumsKept
  <2> QED BY <1>1, <1>2, <1>3, <2>2 DEF Owed, I
<1>4. CASE ~Owes(q)
  BY <1>2, <1>4 DEF Owed
<1> QED BY <1>3, <1>4

LEMMA PendingChange ==
  ASSUME PInv, NEW p \in Process, OthersSame(p), InumsKept, NEW i \in Inum
  PROVE  Cardinality(Pending(i)')
           = Cardinality(Pending(i)) + Hit(Owed(p)', i) - Hit(Owed(p), i)
<1> DEFINE T == [q \in Process |-> Owed(q)]
           U == [q \in Process |-> Owed(q)']
<1>1. \A q \in Process : q # p => U[q] = T[q]
  BY OwedStays
<1>2. SameBut(Process, T, U, {p})
  BY <1>1 DEF SameBut
<1>3. i # 0
  BY Bounds
<1>4. Pending(i) = {q \in Process : T[q] = i} /\ Pending(i)' = {q \in Process : U[q] = i}
  BY <1>3 DEF Pending, Owed, I
<1>5. Cardinality(Pending(i)) = Count(Process, T, i) /\ Cardinality(Pending(i)') = Count(Process, U, i)
  BY <1>4 DEF Count
<1>6. T[p] = Owed(p) /\ U[p] = Owed(p)'
  OBVIOUS
<1>7. IsFiniteSet(Process)
  BY FiniteAll
<1> HIDE DEF T, U
<1>8. /\ Count(Process, U, i) = Count(Process, T, i) + Hit(U[p], i) - Hit(T[p], i)
      /\ Count(Process, T, i) \in Nat
  BY <1>2, <1>7, CountChange
<1> QED BY <1>5, <1>6, <1>8

-----------------------------------------------------------------------------
(* What a step of p leaves to the others *)

LEMMA SameI ==
  ASSUME PInv, NEW s \in Slot, NEW t \in Slot, icache[s].ref > 0, icache[t].ref > 0,
         I(s) = I(t)
  PROVE  s = t
<1>1. Exact(icache, dtype, dnlink, Inval)
  BY DEF PInv, CacheInv
<1> QED BY <1>1 DEF Exact, I

LEMMA WantedAt ==
  ASSUME PInv, NEW p \in Process, NEW s \in Wanted(p)
  PROVE  s \in Slot /\ icache[s].ref \in Nat /\ icache[s].ref > 0 /\ I(s) \in Inum
<1>0. TypeOK /\ CallInv /\ RefInv /\ CacheInv /\ Was(p)
  BY Before
<1>1. s # None /\ (s \in {w[p], ip[p], cwd[p]} \/ \E k \in Fd : s = files[p][k])
  BY DEF Wanted
<1>2. s \in Slot
  BY <1>0, <1>1 DEF Was, Typed
<1>3. icache[s].ref \in Nat /\ icache[s].ref > 0 /\ icache[s].inum \in Inum
  BY <1>0, <1>1, <1>2, InUseBy
<1> QED BY <1>2, <1>3 DEF I

\* An inode that one process puts and that one wants has two references.
LEMMA TwoRefs ==
  ASSUME PInv, NEW p \in Process, NEW q \in Process, puts[q] # << >>,
         Head(puts[q]) \in Wanted(p)
  PROVE  icache[Head(puts[q])].ref >= 2
<1>0. TypeOK /\ RefInv /\ Was(q)
  BY Before
<1>1. PICK s \in Slot : s = Head(puts[q])
  BY PutHead
<1>2. PICK l \in Place : pointer(p, l) = s /\ l[1] # "put"
  <2>1. s \in {w[p], ip[p], cwd[p]} \/ \E k \in Fd : s = files[p][k]
    BY <1>1 DEF Wanted
  <2>2. CASE s = w[p]
    <3>1. <<"w", 0>> \in Place
      BY DEF Place
    <3> QED BY <2>2, <3>1, Kinds
  <2>3. CASE s = ip[p]
    <3>1. <<"ip", 0>> \in Place
      BY DEF Place
    <3> QED BY <2>3, <3>1, Kinds
  <2>4. CASE s = cwd[p]
    <3>1. <<"cwd", 0>> \in Place
      BY DEF Place
    <3> QED BY <2>4, <3>1, Kinds
  <2>5. CASE \E k \in Fd : s = files[p][k]
    <3>1. PICK k \in Fd : s = files[p][k]
      BY <2>5
    <3>2. <<"fd", k>> \in Place
      BY DEF Place
    <3> QED BY <3>1, <3>2, Kinds
  <2> QED BY <2>1, <2>2, <2>3, <2>4, <2>5
<1>3. PICK m \in Place : pointer(q, m) = s /\ m[1] = "put"
  <2>1. <<"put", 1>> \in Place /\ <<"put", 2>> \in Place
    BY DEF Place
  <2>2. puts[q] \in Seq(Slot)
    BY <1>0 DEF TypeOK
  <2>3. Len(puts[q]) <= 2
    BY <1>0 DEF Was, CallAt
  <2>4. PutOf(puts[q], 1) = s \/ PutOf(puts[q], 2) = s
    BY <1>1, <2>2, <2>3, PutsTail
  <2>5. pointer(q, <<"put", 1>>) = PutOf(puts[q], 1) /\ pointer(q, <<"put", 2>>) = PutOf(puts[q], 2)
    BY Kinds
  <2> QED BY <2>1, <2>4, <2>5
<1>4. PICK x, y : x = <<p, l>> /\ y = <<q, m>>
  OBVIOUS
<1>5. x # y /\ x \in Refs(s) /\ y \in Refs(s)
  BY <1>2, <1>3, <1>4 DEF Refs
<1>6. IsFiniteSet(Refs(s)) /\ IsFiniteSet(Refs(s) \ {x})
  BY FinitePlaces, FS_Subset DEF Refs
<1>7. Cardinality(Refs(s) \ {x}) = Cardinality(Refs(s)) - 1
  BY <1>5, <1>6, FS_RemoveElement
<1>8. y \in Refs(s) \ {x}
  BY <1>5
<1>9. Cardinality(Refs(s) \ {x}) >= 1 /\ Cardinality(Refs(s) \ {x}) \in Nat
  BY <1>6, <1>8, NotEmptyCount
<1>10. Cardinality(Refs(s)) \in Nat
  BY <1>6, FS_CardinalityType
<1>11. icache[s].ref = Cardinality(Refs(s))
  BY <1>0 DEF RefInv
<1>12. icache[s].ref >= 2
  BY <1>7, <1>9, <1>10, <1>11
<1> QED BY <1>1, <1>12

LEMMA PutUsed ==
  PInv => \A q \in Process : puts[q] # << >> =>
            icache[Head(puts[q])].ref \in Nat /\ icache[Head(puts[q])].ref > 0
<1> SUFFICES ASSUME PInv, NEW q \in Process, puts[q] # << >>
             PROVE  icache[Head(puts[q])].ref \in Nat /\ icache[Head(puts[q])].ref > 0
  OBVIOUS
<1>1. Head(puts[q]) \in Slot
  BY PutHead
<1>2. TypeOK /\ CallInv /\ RefInv /\ CacheInv
  BY DEF PInv
<1> QED BY <1>1, <1>2, InUseBy

LEMMA PutUsedNext ==
  PInv' => \A q \in Process : puts'[q] # << >> =>
             icache'[Head(puts'[q])].ref \in Nat /\ icache'[Head(puts'[q])].ref > 0
<1>1. (PInv => \A q \in Process : puts[q] # << >> =>
            icache[Head(puts[q])].ref \in Nat /\ icache[Head(puts[q])].ref > 0)'
  BY PutUsed, PTL
<1> QED BY <1>1

\* What a step of p must leave alone for q.
Spares(p, q) ==
  /\ \A s \in Wanted(q) : dtype'[I(s)] = dtype[I(s)]
  /\ iph[q] = "free" => /\ icache'[Head(puts[q])].nlink = icache[Head(puts[q])].nlink
                        /\ icache'[Head(puts[q])].ref <= icache[Head(puts[q])].ref
  /\ pc[q] = "init" =>
       /\ dnlink'[I(ip[q])] = dnlink[I(ip[q])] /\ dent'[I(ip[q])] = dent[I(ip[q])]
       /\ dotdot'[I(ip[q])] = dotdot[I(ip[q])] /\ ip[q] \notin Wanted(p)'
  /\ pc[q] \in {"init", "unlink"} => dent'[I(w[q])] = dent[I(w[q])]

LEMMA UseOther ==
  ASSUME PInv, UseInv, PInv', NEW p \in Process, NEW q \in Process, q # p,
         OthersSame(p), InumsKept, Spares(p, q)
  PROVE  UseOf(q)'
<1>1. /\ pc'[q] = pc[q] /\ req'[q] = req[q] /\ path'[q] = path[q] /\ w'[q] = w[q]
      /\ ip'[q] = ip[q] /\ puts'[q] = puts[q] /\ iph'[q] = iph[q] /\ cwd'[q] = cwd[q]
      /\ files'[q] = files[q]
  BY DEF OthersSame, Same
<1>2. Wanted(q)' = Wanted(q)
  BY <1>1 DEF Wanted
<1>3. \A s \in Wanted(q) : icache'[s].inum = I(s)
  BY WantedAt DEF InumsKept, I
<1>4. Was(q)
  BY Before
<1>5. (wants_parent(q)' <=> wants_parent(q)) /\ new_type(q)' = new_type(q) /\ (Owes(q)' <=> Owes(q))
  BY <1>1 DEF wants_parent, new_type, Owes
<1>6. UseOf(q)
  BY DEF UseInv
<1>7. \A s \in Wanted(q)' : dtype'[icache'[s].inum] # "free"
  BY <1>2, <1>3, <1>6 DEF UseOf, Spares
<1>8. pc[q] \in {"init", "unlink", "refused", "at"} =>
        w[q] \in Wanted(q) /\ icache'[w[q]].inum = I(w[q]) /\ dtype'[I(w[q])] = dtype[I(w[q])]
  <2>1. pc[q] \in {"init", "unlink", "refused", "at"} => w[q] # None
    BY <1>4 DEF Was, CallAt
  <2>2. pc[q] \in {"init", "unlink", "refused", "at"} => w[q] \in Wanted(q)
    BY <2>1 DEF Wanted
  <2> QED BY <1>3, <2>2 DEF Spares
<1>9. ip[q] # None =>
        ip[q] \in Wanted(q) /\ icache'[ip[q]].inum = I(ip[q]) /\ dtype'[I(ip[q])] = dtype[I(ip[q])]
  <2>1. ip[q] # None => ip[q] \in Wanted(q)
    BY DEF Wanted
  <2> QED BY <1>3, <2>1 DEF Spares
<1>10. pc[q] \in {"init", "unlink", "refused"} \/ (pc[q] = "at" /\ wants_parent(q)) =>
       dtype'[icache'[w[q]].inum] = "dir"
  BY <1>6, <1>8 DEF UseOf
<1>11. iph[q] = "free" =>
       icache'[Head(puts[q])].ref = 1 /\ icache'[Head(puts[q])].nlink = 0
  <2> SUFFICES ASSUME iph[q] = "free"
               PROVE  icache'[Head(puts[q])].ref = 1 /\ icache'[Head(puts[q])].nlink = 0
    OBVIOUS
  <2>1. puts[q] # << >>
    BY <1>4 DEF Was, CallAt
  <2>2. PICK s \in Slot : s = Head(puts[q])
    BY <2>1, PutHead
  <2>3. icache[s].ref = 1 /\ icache[s].nlink = 0
    BY <1>6, <2>2 DEF UseOf
  <2>4. icache'[s].ref <= 1 /\ icache'[s].nlink = 0
    BY <2>2, <2>3 DEF Spares
  <2>5. icache'[s].ref > 0 /\ icache'[s].ref \in Nat
    <3>1. s = Head(puts'[q]) /\ puts'[q] # << >>
      BY <1>1, <2>1, <2>2
    <3> QED BY <3>1, PutUsedNext
  <2> QED BY <2>2, <2>4, <2>5
<1>12. ASSUME pc[q] = "init"
       PROVE  /\ req[q].op \in ParentOps /\ dtype'[icache'[ip[q]].inum] = new_type(q)
              /\ dnlink'[icache'[ip[q]].inum] = 0 /\ dent'[icache'[ip[q]].inum] = NoEntries
              /\ dotdot'[icache'[ip[q]].inum] = 0
              /\ ip[q] # w[q] /\ ip[q] # cwd[q] /\ \A k \in Fd : ip[q] # files[q][k]
              /\ \A o \in Process \ {q} : ip[q] \notin Wanted(o)'
              /\ Head(path[q]) \in Name /\ dent'[icache'[w[q]].inum][Head(path[q])] = 0
  <2>1. ip[q] # None
    BY <1>4, <1>12 DEF Was, CallAt
  <2>2. icache'[ip[q]].inum = I(ip[q]) /\ dtype'[I(ip[q])] = dtype[I(ip[q])]
    BY <1>9, <2>1
  <2>3. /\ dnlink'[I(ip[q])] = dnlink[I(ip[q])] /\ dent'[I(ip[q])] = dent[I(ip[q])]
        /\ dotdot'[I(ip[q])] = dotdot[I(ip[q])] /\ ip[q] \notin Wanted(p)'
        /\ dent'[I(w[q])] = dent[I(w[q])]
    BY <1>12 DEF Spares
  <2>4. icache'[w[q]].inum = I(w[q])
    BY <1>8, <1>12
  <2>5. /\ req[q].op \in ParentOps /\ dtype[I(ip[q])] = new_type(q)
        /\ dnlink[I(ip[q])] = 0 /\ dent[I(ip[q])] = NoEntries /\ dotdot[I(ip[q])] = 0
        /\ ip[q] # w[q] /\ ip[q] # cwd[q] /\ \A k \in Fd : ip[q] # files[q][k]
        /\ \A o \in Process \ {q} : ip[q] \notin Wanted(o)
        /\ Head(path[q]) \in Name /\ dent[I(w[q])][Head(path[q])] = 0
    BY <1>6, <1>12 DEF UseOf
  <2>6. ASSUME NEW o \in Process \ {q} PROVE ip[q] \notin Wanted(o)'
    <3>1. CASE o = p
      BY <2>3, <3>1
    <3>2. CASE o # p
      <4>1. Wanted(o)' = Wanted(o)
        BY <3>2 DEF OthersSame, Same, Wanted
      <4> QED BY <2>5, <4>1
    <3> QED BY <3>1, <3>2
  <2> QED BY <2>2, <2>3, <2>4, <2>5, <2>6
<1>13. pc[q] = "unlink" =>
        /\ Head(path[q]) \in Name
        /\ dent'[icache'[w[q]].inum][Head(path[q])] = icache'[ip[q]].inum
  <2>1. pc[q] = "unlink" => ip[q] # None
    BY <1>4 DEF Was, CallAt
  <2> QED BY <1>6, <1>8, <1>9, <2>1 DEF UseOf, Spares
<1>14. Owes(q) /\ pc[q] # "drop" => dtype'[icache'[ip[q]].inum] # "dir"
  BY <1>6, <1>9 DEF UseOf, Owes
<1>15. /\ pc'[q] \in {"init", "unlink", "refused"} \/ (pc'[q] = "at" /\ wants_parent(q)') =>
            dtype'[icache'[w'[q]].inum] = "dir"
       /\ iph'[q] = "free" =>
            icache'[Head(puts'[q])].ref = 1 /\ icache'[Head(puts'[q])].nlink = 0
       /\ pc'[q] = "unlink" =>
            /\ Head(path'[q]) \in Name
            /\ dent'[icache'[w'[q]].inum][Head(path'[q])] = icache'[ip'[q]].inum
       /\ Owes(q)' /\ pc'[q] # "drop" => dtype'[icache'[ip'[q]].inum] # "dir"
  BY <1>1, <1>5, <1>10, <1>11, <1>13, <1>14
<1>16. pc'[q] = "init" =>
       /\ req'[q].op \in ParentOps /\ dtype'[icache'[ip'[q]].inum] = new_type(q)'
       /\ dnlink'[icache'[ip'[q]].inum] = 0 /\ dent'[icache'[ip'[q]].inum] = NoEntries
       /\ dotdot'[icache'[ip'[q]].inum] = 0
       /\ ip'[q] # w'[q] /\ ip'[q] # cwd'[q] /\ \A k \in Fd : ip'[q] # files'[q][k]
       /\ \A o \in Process \ {q} : ip'[q] \notin Wanted(o)'
       /\ Head(path'[q]) \in Name /\ dent'[icache'[w'[q]].inum][Head(path'[q])] = 0
  BY <1>1, <1>5, <1>12
<1> QED BY <1>7, <1>15, <1>16, Zenon DEF UseOf, I, NoEntries

\* The inode that iput is about to free.
LEMMA FreeingAt ==
  ASSUME PInv, UseInv, NEW q \in Process, iph[q] = "free", NEW h, h = Head(puts[q])
  PROVE  /\ h \in Slot /\ lock[h] = q /\ I(h) \in Inum /\ puts[q] # << >>
         /\ icache[h].ref = 1 /\ icache[h].nlink = 0 /\ dnlink[I(h)] = 0
         /\ dtype[I(h)] # "free" /\ icache[h].type = dtype[I(h)] /\ icache[h].valid
         /\ \A p \in Process : h \notin Wanted(p)
<1>0. /\ TypeOK /\ Was(q) /\ LockInv /\ Exact(icache, dtype, dnlink, Inval)
      /\ LockedValid(icache, lock)
  BY Before
<1>1. puts[q] # << >>
  BY <1>0 DEF Was, CallAt
<1>2. h \in Slot /\ icache[h].ref > 0 /\ I(h) \in Inum
  BY <1>1, PutHead DEF I
<1>3. lock[h] = q
  BY <1>0, <1>2 DEF Was, LocksOf, InIput
<1>4. icache[h].valid
  BY <1>0, <1>2, <1>3, Bounds DEF LockedValid
<1>5. h \notin Inval
  <2>1. ASSUME NEW o \in Process, iph[o] = "invalid", h = Head(puts[o]) PROVE FALSE
    <3>1. lock[h] = o
      BY <1>0, <1>2, <2>1 DEF LockInv, LocksOf, InIput
    <3> QED BY <1>3, <2>1, <3>1
  <2> QED BY <2>1 DEF Inval
<1>6. Agrees(icache[h], dtype, dnlink)
  BY <1>0, <1>2, <1>4, <1>5 DEF Exact
<1>7. icache[h].ref = 1 /\ icache[h].nlink = 0
  BY DEF UseInv, UseOf
<1>8. \A p \in Process : h \notin Wanted(p)
  BY <1>1, <1>7, TwoRefs
<1> QED BY <1>1, <1>2, <1>3, <1>4, <1>6, <1>7, <1>8 DEF Agrees, I

\* An entry that p may take: p has it already, or its inode has links.
Good(p, s) == s \in Wanted(p) \/ dnlink[icache'[s].inum] >= 1

\* A step of p takes such entries only, and touches inodes it has, those of
\* other processes' locks aside.
Shares(p) ==
  /\ OthersSame(p) /\ InumsKept
  /\ \A s \in Slot : icache'[s].ref > icache[s].ref => Good(p, s)
  /\ \A s \in Slot : lock[s] \notin {None, p} => icache'[s].nlink = icache[s].nlink
  /\ \A s \in Wanted(p)' : Good(p, s)
Touches(p) ==
  /\ dtype' = dtype
  /\ \A i \in Inum :
       \/ dnlink'[i] = dnlink[i] /\ dent'[i] = dent[i] /\ dotdot'[i] = dotdot[i]
       \/ \E s \in Wanted(p) : I(s) = i
  /\ \A i \in Inum :
       \/ dent'[i] = dent[i]
       \/ w[p] \in Wanted(p) /\ i = I(w[p]) /\ lock[w[p]] \in {None, p}

LEMMA Touch ==
  ASSUME PInv, UseInv, PInv', NEW p \in Process, Shares(p), Touches(p),
         NEW q \in Process, q # p
  PROVE  UseOf(q)'
<1>0. TypeOK /\ Was(q) /\ UseOf(q) /\ OthersSame(p) /\ InumsKept /\ icache \in [Slot -> Entry]
  BY Before DEF UseInv, Shares
<1>1. \A s \in Wanted(q) : dtype'[I(s)] = dtype[I(s)]
  BY DEF Touches
<1>2. ASSUME iph[q] = "free", NEW h, h = Head(puts[q])
      PROVE  icache'[h].nlink = icache[h].nlink /\ icache'[h].ref <= icache[h].ref
  <2>1. /\ h \in Slot /\ lock[h] = q /\ icache[h].ref = 1 /\ dnlink[I(h)] = 0
        /\ h \notin Wanted(p)
    BY <1>2, FreeingAt
  <2>2. icache'[h].nlink = icache[h].nlink
    BY <2>1, Bounds DEF Shares
  <2>3. icache'[h].inum = I(h)
    BY <1>0, <2>1 DEF InumsKept, I
  <2>4. ~Good(p, h)
    BY <2>1, <2>3 DEF Good
  <2>5. ~(icache'[h].ref > icache[h].ref)
    BY <2>1, <2>4 DEF Shares
  <2>6. icache'[h].ref \in Nat
    <3>1. icache' \in [Slot -> Entry]
      BY DEF PInv, TypeOK
    <3> QED BY <2>1, <3>1 DEF Entry
  <2> QED BY <2>1, <2>2, <2>5, <2>6
<1>3. ASSUME pc[q] = "init"
      PROVE  /\ dnlink'[I(ip[q])] = dnlink[I(ip[q])] /\ dent'[I(ip[q])] = dent[I(ip[q])]
             /\ dotdot'[I(ip[q])] = dotdot[I(ip[q])] /\ ip[q] \notin Wanted(p)'
  <2>1. ip[q] # None
    BY <1>0, <1>3 DEF Was, CallAt
  <2>2. ip[q] \in Slot /\ icache[ip[q]].ref > 0 /\ I(ip[q]) \in Inum
    BY <2>1, IpAt DEF I
  <2>3. ip[q] \notin Wanted(p) /\ dnlink[I(ip[q])] = 0
    BY <1>0, <1>3 DEF UseOf
  <2>4. ASSUME NEW s \in Wanted(p), I(s) = I(ip[q]) PROVE FALSE
    <3>1. s \in Slot /\ icache[s].ref > 0
      BY WantedAt
    <3>2. s = ip[q]
      BY <2>2, <2>4, <3>1, SameI
    <3> QED BY <2>3, <3>2
  <2>5. /\ dnlink'[I(ip[q])] = dnlink[I(ip[q])] /\ dent'[I(ip[q])] = dent[I(ip[q])]
        /\ dotdot'[I(ip[q])] = dotdot[I(ip[q])]
    BY <2>2, <2>4 DEF Touches
  <2>6. icache'[ip[q]].inum = I(ip[q])
    BY <1>0, <2>2 DEF InumsKept, I
  <2>7. ~Good(p, ip[q])
    BY <2>3, <2>6 DEF Good
  <2> QED BY <2>5, <2>7 DEF Shares
<1>4. ASSUME pc[q] \in {"init", "unlink"} PROVE dent'[I(w[q])] = dent[I(w[q])]
  <2>1. w[q] # None /\ puts[q] = << >>
    BY <1>0, <1>4 DEF Was, CallAt
  <2>1a. iph[q] = "no"
    BY <1>0, <2>1 DEF Was, CallAt
  <2>2. w[q] \in Slot /\ icache[w[q]].ref > 0 /\ I(w[q]) \in Inum
    BY <2>1, WAt DEF I
  <2>3. InCall(pc[q], w[q], ip[q], w[q])
    BY <1>4 DEF InCall
  <2>4. lock[w[q]] = q
    BY <2>1a, <2>2, <2>3, HeldNow
  <2>5. ASSUME w[p] \in Wanted(p), I(w[q]) = I(w[p]), lock[w[p]] \in {None, p} PROVE FALSE
    <3>1. w[p] \in Slot /\ icache[w[p]].ref > 0
      BY <2>5, WantedAt
    <3>2. w[p] = w[q]
      BY <2>2, <2>5, <3>1, SameI
    <3> QED BY <2>4, <2>5, <3>2, Bounds
  <2> QED BY <2>2, <2>5 DEF Touches
<1>5. Spares(p, q)
  BY <1>1, <1>2, <1>3, <1>4 DEF Spares
<1> QED BY <1>0, <1>5, UseOther

LEMMA LinkSame ==
  ASSUME PInv, LinkInv, NEW p \in Process, OthersSame(p), InumsKept,
         dnlink' = dnlink, dent' = dent, dtype' = dtype, stray' = stray, Owed(p)' = Owed(p)
  PROVE  LinkInv'
<1> SUFFICES ASSUME NEW i \in Inum
             PROVE  dnlink'[i] >= Links(i)' /\ (i \notin stray' => dnlink'[i] = Links(i)')
  BY DEF LinkInv
<1>1. Cardinality(Pending(i)') = Cardinality(Pending(i)) + Hit(Owed(p)', i) - Hit(Owed(p), i)
  BY PendingChange
<1>2. Hit(Owed(p), i) \in {0, 1} /\ Cardinality(Pending(i)) \in Nat
  BY LinkParts DEF Hit
<1>3. Cardinality(Pending(i)') = Cardinality(Pending(i))
  BY <1>1, <1>2
<1>4. Named(i)' = Named(i) /\ Subdirs(i)' = Subdirs(i)
  BY DEF Named, Subdirs, Entries
<1>5. Links(i)' = Links(i)
  BY <1>3, <1>4 DEF Links
<1> QED BY <1>5 DEF LinkInv

LEMMA TreeSame ==
  ASSUME TreeInv, dnlink' = dnlink, dent' = dent, dtype' = dtype, dotdot' = dotdot, stray' = stray
  PROVE  TreeInv'
<1>1. \A i : Entries(i)' = Entries(i) /\ Named(i)' = Named(i)
  BY DEF Entries, Named
<1>2. \A i \in Inum : TreeOf(i)'
  BY <1>1 DEF TreeInv, TreeOf
<1>3. dtype'[ROOTINO] = "dir" /\ dotdot'[ROOTINO] = ROOTINO /\ Entries(ROOTINO)' = {}
  BY <1>1 DEF TreeInv
<1> QED BY <1>2, <1>3 DEF TreeInv

\* A step of p that changes nothing on the disk, and where it leaves p.
Quiet(p) ==
  /\ Shares(p) /\ Owed(p)' = Owed(p)
  /\ dtype' = dtype /\ dnlink' = dnlink /\ dent' = dent /\ dotdot' = dotdot /\ stray' = stray
Placed(p) ==
  /\ pc'[p] # "init"
  /\ Owes(p)' /\ pc'[p] # "drop" => Owes(p) /\ pc[p] # "drop"
  /\ pc'[p] \in {"unlink", "refused"} \/ (pc'[p] = "at" /\ wants_parent(p)') =>
       dtype'[icache'[w'[p]].inum] = "dir"
  /\ iph'[p] = "free" =>
       icache'[Head(puts'[p])].ref = 1 /\ icache'[Head(puts'[p])].nlink = 0
  /\ pc'[p] = "unlink" =>
       /\ Head(path'[p]) \in Name
       /\ dent'[icache'[w'[p]].inum][Head(path'[p])] = icache'[ip'[p]].inum

LEMMA LinkedAllocated ==
  ASSUME TreeInv, NEW i \in Inum, dnlink[i] >= 1
  PROVE  dtype[i] # "free"
<1>1. dtype[i] = "free" => dnlink[i] = 0
  BY DEF TreeInv, TreeOf
<1> QED BY <1>1

LEMMA WantedNow ==
  PInv => \A q \in Process : \A t \in Wanted(q) : icache[t].inum \in Inum
  BY WantedAt DEF I

LEMMA WantedNext ==
  PInv' => \A q \in Process : \A t \in Wanted(q)' : icache'[t].inum \in Inum
<1>1. (PInv => \A q \in Process : \A t \in Wanted(q) : icache[t].inum \in Inum)'
  BY WantedNow, PTL
<1> QED BY <1>1

\* The inodes that p wants after a step are allocated.
LEMMA OwnWanted ==
  ASSUME NInv, PInv', NEW p \in Process, Shares(p), dtype' = dtype
  PROVE  \A s \in Wanted(p)' : dtype'[icache'[s].inum] # "free"
<1> SUFFICES ASSUME NEW s \in Wanted(p)' PROVE dtype[icache'[s].inum] # "free"
  OBVIOUS
<1>0. PInv /\ UseInv /\ TreeInv
  BY DEF NInv
<1>1. Good(p, s)
  BY DEF Shares
<1>2. CASE s \in Wanted(p)
  <2>1. s \in Slot /\ icache[s].ref > 0
    BY <1>0, <1>2, WantedAt
  <2>2. icache'[s].inum = I(s)
    BY <2>1 DEF Shares, InumsKept, I
  <2> QED BY <1>0, <1>2, <2>2 DEF UseInv, UseOf
<1>3. CASE dnlink[icache'[s].inum] >= 1
  <2>1. icache'[s].inum \in Inum
    BY WantedNext
  <2> QED BY <1>0, <1>3, <2>1, LinkedAllocated
<1> QED BY <1>1, <1>2, <1>3 DEF Good

LEMMA QuietStep ==
  ASSUME NInv, PInv', NEW p \in Process, Quiet(p), Placed(p)
  PROVE  NInv'
<1>0. PInv /\ LinkInv /\ TreeInv /\ UseInv
  BY DEF NInv
<1>1. /\ Shares(p) /\ OthersSame(p) /\ InumsKept /\ Owed(p)' = Owed(p)
      /\ dtype' = dtype /\ dnlink' = dnlink /\ dent' = dent /\ dotdot' = dotdot /\ stray' = stray
  BY DEF Quiet, Shares
<1>2. LinkInv' /\ TreeInv'
  BY <1>0, <1>1, LinkSame, TreeSame
<1>3. Touches(p)
  BY <1>1 DEF Touches
<1>4. \A q \in Process : q # p => UseOf(q)'
  BY <1>0, <1>1, <1>3, Touch
<1>5. \A s \in Wanted(p)' : dtype'[icache'[s].inum] # "free"
  BY <1>1, OwnWanted
<1>6. Owes(p)' /\ pc'[p] # "drop" => dtype'[icache'[ip'[p]].inum] # "dir"
  <2> SUFFICES ASSUME Owes(p)', pc'[p] # "drop" PROVE dtype[icache'[ip'[p]].inum] # "dir"
    BY <1>1
  <2>1. Owes(p) /\ pc[p] # "drop"
    BY DEF Placed
  <2>2. icache'[ip'[p]].inum = I(ip[p])
    BY <1>1, <2>1 DEF Owed, I
  <2> QED BY <1>0, <2>1, <2>2 DEF UseInv, UseOf
<1>7. UseOf(p)'
  BY <1>5, <1>6, Zenon DEF UseOf, Placed, I
<1>8. UseInv'
  BY <1>4, <1>7 DEF UseInv
<1> QED BY <1>2, <1>8 DEF NInv

-----------------------------------------------------------------------------
(* Steps that leave the disk alone *)

DiskStays ==
  dtype' = dtype /\ dnlink' = dnlink /\ dent' = dent /\ dotdot' = dotdot /\ stray' = stray

\* The cache g knows more of inodes that are not locked, and may have one more
\* reference to u.
Calm(g) ==
  \A t \in Slot : /\ g[t].ref = icache[t].ref /\ g[t].inum = icache[t].inum
                  /\ lock[t] # None => g[t].nlink = icache[t].nlink
Grown(g, u) ==
  \A t \in Slot : /\ icache[t].ref > 0 => g[t].inum = icache[t].inum
                  /\ t # u => g[t].ref = icache[t].ref
                  /\ lock[t] # None => g[t].nlink = icache[t].nlink
OwesStays(p) == (Owes(p)' <=> Owes(p)) /\ (Owes(p) => ip'[p] = ip[p])

LEMMA WantStep ==
  ASSUME NEW p, NEW X, w'[p] \in X \cup {None}, ip'[p] \in X \cup {None},
         cwd'[p] \in X \cup {None}, \A k \in Fd : files'[p][k] \in X \cup {None}
  PROVE  Wanted(p)' \subseteq X
  BY DEF Wanted

LEMMA WantNow ==
  ASSUME NEW p
  PROVE  /\ w[p] \in Wanted(p) \cup {None} /\ ip[p] \in Wanted(p) \cup {None}
         /\ cwd[p] \in Wanted(p) \cup {None}
         /\ \A k \in Fd : files[p][k] \in Wanted(p) \cup {None}
  BY DEF Wanted

LEMMA OwedIf ==
  ASSUME PInv, NEW p \in Process, InumsKept, OwesStays(p)
  PROVE  Owed(p)' = Owed(p)
<1>1. CASE Owes(p)
  <2>1. ip[p] \in Slot /\ icache[ip[p]].ref > 0
    BY <1>1, IpAt DEF Owes
  <2>2. icache'[ip[p]].inum = icache[ip[p]].inum
    BY <2>1 DEF InumsKept
  <2> QED BY <1>1, <2>2 DEF Owed, I, OwesStays
<1>2. CASE ~Owes(p)
  BY <1>2 DEF Owed, OwesStays
<1> QED BY <1>1, <1>2

LEMMA QuietGrown ==
  ASSUME NInv, PInv', NEW p \in Process, OthersSame(p), DiskStays, NEW u,
         Grown(icache', u), Good(p, u), Wanted(p)' \subseteq Wanted(p) \cup {u},
         OwesStays(p), Placed(p)
  PROVE  NInv'
<1>0. PInv /\ icache \in [Slot -> Entry]
  BY Before DEF NInv, PInv, TypeOK
<1>1. InumsKept
  BY DEF Grown, InumsKept
<1>2. ASSUME NEW s \in Slot, icache'[s].ref > icache[s].ref PROVE Good(p, s)
  <2>1. icache[s].ref \in Nat
    BY <1>0 DEF Entry
  <2>2. s = u
    BY <1>2, <2>1 DEF Grown
  <2> QED BY <2>2
<1>3. \A s \in Slot : lock[s] \notin {None, p} => icache'[s].nlink = icache[s].nlink
  BY DEF Grown
<1>4. \A s \in Wanted(p)' : Good(p, s)
  BY DEF Good
<1>5. Shares(p)
  BY <1>1, <1>2, <1>3, <1>4 DEF Shares
<1>6. Owed(p)' = Owed(p)
  BY <1>0, <1>1, OwedIf
<1> QED BY <1>5, <1>6, QuietStep DEF Quiet, DiskStays

LEMMA QuietCalm ==
  ASSUME NInv, PInv', NEW p \in Process, OthersSame(p), DiskStays,
         Calm(icache'), Wanted(p)' \subseteq Wanted(p), OwesStays(p), Placed(p)
  PROVE  NInv'
<1>0. PInv /\ Was(p)
  BY Before DEF NInv
<1>1. cwd[p] \in Wanted(p)
  BY <1>0, WantNow, Bounds DEF Was, Typed
<1>2. Good(p, cwd[p]) /\ Wanted(p)' \subseteq Wanted(p) \cup {cwd[p]}
  BY <1>1 DEF Good
<1>3. Grown(icache', cwd[p])
  BY DEF Calm, Grown
<1> QED BY <1>2, <1>3, QuietGrown

LEMMA ReadCalm ==
  ASSUME PInv, NEW s \in Slot, Ilock(s), icache[s].ref > 0, NEW g,
         g = [icache EXCEPT ![s] = ilocked(s)]
  PROVE  /\ Calm(g) /\ ilocked(s).type = dtype[I(s)] /\ ilocked(s).nlink = dnlink[I(s)]
         /\ dtype[I(s)] # "free"
<1>1. /\ g \in [Slot -> Entry] /\ Known(icache, g, s) /\ g[s] = ilocked(s)
      /\ Agrees(g[s], dtype, dnlink)
  BY ReadStep
<1>2. lock[s] = None
  BY DEF Ilock, Free
<1>3. Calm(g)
  BY <1>1, <1>2 DEF Known, Calm
<1>4. g[s].inum = I(s)
  BY <1>1 DEF Known, I
<1> QED BY <1>1, <1>3, <1>4 DEF Agrees

LEMMA StayCalm == Calm(icache)
  BY DEF Calm

\* A reference more in a calm cache.
LEMMA CalmGrown ==
  ASSUME PInv, NEW c, Calm(c), NEW g, NEW u, NEW i, Got(c, g, u, i)
  PROVE  Grown(g, u) /\ g[u].inum = i /\ u \in Slot
<1>0. LockedUsed(icache, lock) /\ icache \in [Slot -> Entry]
  <2>1. TypeOK /\ CallInv /\ LockInv /\ RefInv /\ CacheInv
    BY DEF PInv
  <2>2. icache \in [Slot -> Entry]
    BY <2>1 DEF TypeOK
  <2> QED BY <2>1, <2>2, Locked
<1>1. u \in Slot /\ g[u].inum = i
  BY DEF Got
<1>2. ASSUME NEW t \in Slot
      PROVE  /\ icache[t].ref > 0 => g[t].inum = icache[t].inum
             /\ t # u => g[t].ref = icache[t].ref
             /\ lock[t] # None => g[t].nlink = icache[t].nlink
  <2>1. /\ c[t].ref = icache[t].ref /\ c[t].inum = icache[t].inum
        /\ lock[t] # None => c[t].nlink = icache[t].nlink
    BY DEF Calm
  <2>2. lock[t] # None => icache[t].ref > 0
    BY <1>0 DEF LockedUsed
  <2>3. CASE t = u
    <3>1. c[u].ref > 0 => c[u].inum = i /\ g[u].nlink = c[u].nlink
      BY DEF Got
    <3> QED BY <1>1, <2>1, <2>2, <2>3, <3>1
  <2>4. CASE t # u
    <3>1. g[t] = c[t]
      BY <2>4 DEF Got
    <3> QED BY <2>1, <2>4, <3>1
  <2> QED BY <2>3, <2>4
<1> QED BY <1>1, <1>2 DEF Grown

\* The entry of an inode that is in the cache is that one.
LEMMA GotOld ==
  ASSUME PInv, NEW c, Calm(c), NEW g, NEW u, NEW s \in Slot, icache[s].ref > 0,
         Got(c, g, u, I(s))
  PROVE  u = s
<1>0. icache \in [Slot -> Entry]
  BY DEF PInv, TypeOK
<1>1. \A t \in Slot : c[t].ref = icache[t].ref /\ c[t].inum = icache[t].inum
  BY DEF Calm
<1>2. c[u].ref # 0
  BY <1>1 DEF Got, I
<1>3. u \in Slot /\ c[u].ref \in Nat
  BY <1>0, <1>1 DEF Got, Entry
<1>4. c[u].ref > 0 /\ c[u].inum = I(s)
  BY <1>2, <1>3 DEF Got
<1> QED BY <1>1, <1>3, <1>4, SameI DEF I

LEMMA LinkedCount ==
  ASSUME NEW k \in Int, NEW n \in Nat, NEW d \in Nat, NEW o \in Nat, k >= n + d + o, n # 0
  PROVE  k >= 1
  OBVIOUS

\* What namex finds has links, unless it is the directory itself.
LEMMA Found ==
  ASSUME NInv, NEW d \in Inum, NEW n \in Name \cup {".", ".."}, NEW i,
         i = dirlookup(d, n), i # 0, n = ".." => Named(d) > 0
  PROVE  i \in Inum /\ (n # "." => dnlink[i] >= 1) /\ (n = "." => i = d)
<1>0. PInv /\ TypeOK /\ LinkInv /\ TreeInv /\ dnlink \in [Inum -> Int]
  BY DEF NInv, PInv, TypeOK
<1>1. i \in Inum
  BY <1>0, Looked
<1>2. /\ dnlink[i] >= Links(i) /\ dnlink[i] \in Int
      /\ Links(i) = Named(i) + Cardinality(Subdirs(i)) + Cardinality(Pending(i))
      /\ Named(i) \in Nat /\ Cardinality(Subdirs(i)) \in Nat /\ Cardinality(Pending(i)) \in Nat
  BY <1>0, <1>1, LinkParts DEF LinkInv
<1>3. CASE n = "."
  BY <1>1, <1>3 DEF dirlookup
<1>4. CASE n = ".."
  <2>1. i = dotdot[d] /\ Named(d) > 0
    BY <1>4 DEF dirlookup
  <2>2. CASE d = ROOTINO
    <3>1. i = ROOTINO
      BY <1>0, <2>1, <2>2 DEF TreeInv
    <3>2. Named(i) # 0
      BY <3>1, LinkParts
    <3>3. dnlink[i] >= 1
      BY <1>2, <3>2, LinkedCount
    <3> QED BY <1>1, <1>4, <3>3
  <2>3. CASE d # ROOTINO
    <3>1. TreeOf(d)
      BY <1>0 DEF TreeInv
    <3>2. dtype[d] = "dir"
      BY <2>1, <3>1 DEF TreeOf
    <3>3. Named(d) # 0
      BY <2>1, LinkParts
    <3>4. PICK x : x \in Entries(d)
      BY <2>3, <3>3, LinkParts
    <3>5. x[1] = i /\ x[2] \in Name /\ dent[i][x[2]] = d
      BY <2>1, <3>1, <3>2, <3>4 DEF TreeOf, Entries
    <3>6. d # 0
      BY Bounds
    <3>7. x[2] \in Subdirs(i)
      BY <3>2, <3>5, <3>6 DEF Subdirs
    <3>8. Cardinality(Subdirs(i)) >= 1
      BY <3>7, FiniteAll, NotEmptyCount
    <3> QED BY <1>1, <1>2, <1>4, <3>8
  <2> QED BY <2>2, <2>3
<1>5. CASE n \in Name
  <2>1. n # "." /\ n # ".."
    BY <1>5, InodesAssumption
  <2>2. i = dent[d][n]
    BY <2>1 DEF dirlookup
  <2>3. <<d, n>> \in Entries(i)
    BY <1>5, <2>2 DEF Entries
  <2>4. Named(i) # 0
    BY <2>3, LinkParts
  <2> QED BY <1>1, <1>2, <2>1, <2>4
<1> QED BY <1>3, <1>4, <1>5

LEMMA RootLinked ==
  ASSUME NInv
  PROVE  dnlink[ROOTINO] >= 1 /\ dnlink[ROOTINO] \in Int
<1>0. PInv /\ TypeOK /\ LinkInv /\ dnlink \in [Inum -> Int] /\ ROOTINO \in Inum
  BY Bounds DEF NInv, PInv, TypeOK
<1>1. Named(ROOTINO) # 0
  BY LinkParts
<1>2. /\ dnlink[ROOTINO] >= Links(ROOTINO) /\ dnlink[ROOTINO] \in Int
      /\ Links(ROOTINO) = Named(ROOTINO) + Cardinality(Subdirs(ROOTINO))
                            + Cardinality(Pending(ROOTINO))
      /\ Named(ROOTINO) \in Nat /\ Cardinality(Subdirs(ROOTINO)) \in Nat
      /\ Cardinality(Pending(ROOTINO)) \in Nat
  BY <1>0, LinkParts DEF LinkInv
<1>3. dnlink[ROOTINO] >= 1
  BY <1>1, <1>2, LinkedCount
<1> QED BY <1>2, <1>3

\* What such a step may make of the variables of p.
Owing == {"walk", "at", "refused", "bad", "drop"}
Moves(p, c, r, l, a, b, h, d, f, u) ==
  /\ c # "init" /\ h # "free"
  /\ \A x \in {a, b, d} : x \in Wanted(p) \cup {None, u}
  /\ \A k \in Fd : f[k] \in Wanted(p) \cup {None, u}
  /\ b # None /\ c \in Owing <=> Owes(p)
  /\ Owes(p) => b = ip[p] /\ pc[p] # "drop"
  /\ \/ c \in {"unlink", "refused"}
     \/ c = "at" /\ (r.op \in {"creat", "mkdir", "mknod", "unlink"} \/ b # None)
     => dtype[icache'[a].inum] = "dir"
  /\ c = "unlink" => Head(l) \in Name /\ dent[icache'[a].inum][Head(l)] = icache'[b].inum

LEMMA QuietGoes ==
  ASSUME NInv, PInv', NEW p \in Process, NEW c, NEW r, NEW l, NEW a, NEW b, NEW q, NEW h,
         NEW d, NEW f, NEW u, Goes(p, c, r, l, a, b, q, h, d, f), DiskStays,
         Grown(icache', u), Good(p, u), Moves(p, c, r, l, a, b, h, d, f, u)
  PROVE  NInv'
<1>0. TypeOK
  BY DEF NInv, PInv
<1>1. /\ pc'[p] = c /\ req'[p] = r /\ path'[p] = l /\ w'[p] = a /\ ip'[p] = b
      /\ puts'[p] = q /\ iph'[p] = h /\ cwd'[p] = d /\ files'[p] = f
      /\ \A o \in Process \ {p} : Same(o)
  BY <1>0, Went
<1>2. OthersSame(p)
  BY <1>1 DEF OthersSame
<1>3. Wanted(p)' \subseteq Wanted(p) \cup {u}
  BY <1>1 DEF Wanted, Moves
<1>4. OwesStays(p)
  BY <1>1 DEF OwesStays, Owes, Moves, Owing
<1>5. Placed(p)
  <2>1. wants_parent(p)' <=> r.op \in {"creat", "mkdir", "mknod", "unlink"} \/ b # None
    BY <1>1 DEF wants_parent
  <2>2. dtype' = dtype /\ dent' = dent
    BY DEF DiskStays
  <2>3. Owes(p)' => Owes(p) /\ pc[p] # "drop"
    BY <1>4 DEF OwesStays, Moves
  <2> QED BY <1>1, <2>1, <2>2, <2>3 DEF Placed, Moves
<1> QED BY <1>2, <1>3, <1>4, <1>5, QuietGrown

\* The same where the cache has no reference more.
LEMMA CalmGoes ==
  ASSUME NInv, PInv', NEW p \in Process, NEW c, NEW r, NEW l, NEW a, NEW b, NEW q, NEW h,
         NEW d, NEW f, Goes(p, c, r, l, a, b, q, h, d, f), DiskStays,
         Calm(icache'), Moves(p, c, r, l, a, b, h, d, f, cwd[p])
  PROVE  NInv'
<1>0. PInv /\ Was(p)
  BY Before DEF NInv
<1>1. cwd[p] \in Wanted(p)
  BY <1>0, WantNow, Bounds DEF Was, Typed
<1>2. Good(p, cwd[p])
  BY <1>1 DEF Good
<1>3. Grown(icache', cwd[p])
  BY DEF Calm, Grown
<1> QED BY <1>2, <1>3, QuietGoes

LEMMA DiskKept ==
  ASSUME UNCHANGED disk, stray' = stray
  PROVE  DiskStays
  BY DEF DiskStays, disk

LEMMA NReturn ==
  ASSUME NInv, PInv', NEW p \in Process, Return(p)
  PROVE  NInv'
<1>0. PInv /\ TypeOK /\ Was(p) /\ icache' = icache
  BY Before DEF NInv, Return
<1>1. pc[p] = "end" /\ puts[p] = << >> /\ w[p] = None /\ ip[p] = None /\ iph[p] = "no"
  BY <1>0 DEF Return, Was, CallAt
<1>2. Goes(p, "user", None, << >>, None, None, << >>, "no", cwd[p], files[p])
  BY <1>0, <1>1, Stays, Zenon DEF Return, Goes
<1>3. DiskStays
  BY DiskKept DEF Return, history
<1>4. Moves(p, "user", None, << >>, None, None, "no", cwd[p], files[p], cwd[p])
  BY <1>1, WantNow DEF Moves, Owes, Owing
<1> QED BY <1>0, <1>2, <1>3, <1>4, StayCalm, CalmGoes

LEMMA NClose ==
  ASSUME NInv, PInv', NEW p \in Process, Close(p)
  PROVE  NInv'
<1>0. PInv /\ TypeOK /\ Was(p) /\ icache' = icache
  BY Before DEF NInv, Close
<1>1. pc[p] = "user" /\ puts[p] = << >> /\ w[p] = None /\ ip[p] = None /\ iph[p] = "no"
  BY <1>0 DEF Close, Was, CallAt
<1>2. PICK k \in Fd : /\ files[p][k] # None
                      /\ puts' = [puts EXCEPT ![p] = <<files[p][k]>>]
                      /\ files' = [files EXCEPT ![p][k] = None]
  BY Zenon DEF Close
<1>3. PICK f : f = [files[p] EXCEPT ![k] = None]
  OBVIOUS
<1>4. Goes(p, "end", req[p], path[p], None, None, <<files[p][k]>>, "no", cwd[p], f)
  <2>1. files' = [files EXCEPT ![p] = f]
    BY <1>2, <1>3
  <2> QED BY <1>0, <1>1, <1>2, <2>1, Stays, Zenon DEF Close, Goes
<1>5. DiskStays
  BY DiskKept DEF Close
<1>6. \A j \in Fd : f[j] \in Wanted(p) \cup {None, cwd[p]}
  <2>1. files[p] \in [Fd -> Slot \cup {None}]
    BY <1>0 DEF Was, Typed
  <2> QED BY <1>3, <2>1, WantNow
<1>7. Moves(p, "end", req[p], path[p], None, None, "no", cwd[p], f, cwd[p])
  BY <1>1, <1>6, WantNow DEF Moves, Owes, Owing
<1> QED BY <1>0, <1>4, <1>5, <1>7, StayCalm, CalmGoes

\* A step that gives w[p] up.
LEMMA NPutW ==
  ASSUME NInv, PInv', NEW p \in Process, pc[p] \in {"walk", "at", "refused"},
         puts[p] = << >>, DiskStays, Calm(icache'), NEW x, x = failed(p), PutW(p, x),
         UNCHANGED <<req, path, ip, iph, cwd, files>>
  PROVE  NInv'
<1>0. PInv /\ TypeOK /\ Was(p)
  BY Before DEF NInv
<1>1. iph[p] = "no"
  BY <1>0 DEF Was, CallAt
<1>2. Goes(p, x, req[p], path[p], None, ip[p], <<w[p]>>, "no", cwd[p], files[p])
  <2>1. /\ req' = req /\ path' = path /\ ip' = ip /\ iph' = iph /\ cwd' = cwd /\ files' = files
    OBVIOUS
  <2> QED BY <1>0, <1>1, <2>1, Stays, Zenon DEF PutW, Goes
<1>3. x \in {"end", "bad"} /\ (x = "bad" <=> ip[p] # None)
  BY DEF failed
<1>4. Moves(p, x, req[p], path[p], None, ip[p], "no", cwd[p], files[p], cwd[p])
  BY <1>3, WantNow DEF Moves, Owes, Owing
<1> QED BY <1>2, <1>4, CalmGoes

LEMMA NWalkFails ==
  ASSUME NInv, PInv', NEW p \in Process, WalkFails(p)
  PROVE  NInv'
<1>0. PInv
  BY DEF NInv
<1>1. pc[p] = "walk" /\ puts[p] = << >> /\ PutW(p, failed(p))
  BY DEF WalkFails
<1>2. Calm(icache')
  <2>1. CASE icache' = icache
    BY <2>1, StayCalm
  <2>2. CASE Ilock(w[p]) /\ icache' = [icache EXCEPT ![w[p]] = ilocked(w[p])]
    BY <1>0, <1>1, <2>2, WalkAt, ReadCalm
  <2> QED BY <2>1, <2>2 DEF WalkFails
<1>3. DiskStays /\ UNCHANGED <<req, path, ip, iph, cwd, files>>
  BY DiskKept DEF WalkFails, history
<1> QED BY <1>1, <1>2, <1>3, NPutW

LEMMA NWalkEnd ==
  ASSUME NInv, PInv', NEW p \in Process, WalkEnd(p)
  PROVE  NInv'
<1>0. PInv /\ TypeOK /\ Was(p)
  BY Before DEF NInv
<1>1. pc[p] = "walk" /\ puts[p] = << >> /\ iph[p] = "no"
  BY <1>0 DEF WalkEnd, Was, CallAt
<1>2. /\ Calm(icache') /\ (wants_parent(p) => dtype[icache[w[p]].inum] = "dir")
  <2>1. CASE icache' = icache /\ ~wants_parent(p)
    BY <2>1, StayCalm
  <2>2. CASE /\ Ilock(w[p]) /\ icache' = [icache EXCEPT ![w[p]] = ilocked(w[p])]
             /\ ilocked(w[p]).type = "dir"
    BY <1>0, <1>1, <2>2, WalkAt, ReadCalm DEF I
  <2> QED BY <2>1, <2>2 DEF WalkEnd
<1>3. Goes(p, "at", req[p], path[p], w[p], ip[p], puts[p], "no", cwd[p], files[p])
  <2>1. pc' = [pc EXCEPT ![p] = "at"] /\ UNCHANGED <<req, path, w, ip, puts, iph, cwd, files>>
    BY DEF WalkEnd, local
  <2> QED BY <1>0, <1>1, <2>1, Stays, Zenon DEF Goes
<1>4. DiskStays
  BY DiskKept DEF WalkEnd, history
<1>5. icache'[w[p]].inum = icache[w[p]].inum
  BY <1>0, <1>1, <1>2, WalkAt DEF Calm
<1>6. Moves(p, "at", req[p], path[p], w[p], ip[p], "no", cwd[p], files[p], cwd[p])
  BY <1>1, <1>2, <1>5, WantNow DEF Moves, Owes, Owing, wants_parent
<1> QED BY <1>2, <1>3, <1>4, <1>6, CalmGoes

LEMMA NLinkDir ==
  ASSUME NInv, PInv', NEW p \in Process, LinkDir(p)
  PROVE  NInv'
<1>0. PInv
  BY DEF NInv
<1>1. /\ At(p, {"link"}) /\ ip[p] = None /\ Ilock(w[p]) /\ PutW(p, "end")
      /\ icache' = [icache EXCEPT ![w[p]] = ilocked(w[p])]
  BY DEF LinkDir
<1>2. pc[p] = "at" /\ puts[p] = << >> /\ Calm(icache')
  BY <1>0, <1>1, AtPoint, ReadCalm
<1>3. DiskStays /\ UNCHANGED <<req, path, ip, iph, cwd, files>>
  BY DiskKept DEF LinkDir, history
<1>4. failed(p) = "end"
  BY <1>1 DEF failed
<1> QED BY <1>1, <1>2, <1>3, <1>4, NPutW

LEMMA NRefused ==
  ASSUME NInv, PInv', NEW p \in Process, Refused(p)
  PROVE  NInv'
<1>1. pc[p] = "refused" /\ puts[p] = << >> /\ PutW(p, failed(p)) /\ icache' = icache
  BY DEF Refused
<1>2. Calm(icache')
  BY <1>1, StayCalm
<1>3. DiskStays /\ UNCHANGED <<req, path, ip, iph, cwd, files>>
  BY DiskKept DEF Refused, history
<1> QED BY <1>1, <1>2, <1>3, NPutW

LEMMA NChdir ==
  ASSUME NInv, PInv', NEW p \in Process, Chdir(p)
  PROVE  NInv'
<1>0. PInv /\ TypeOK /\ Was(p)
  BY Before DEF NInv
<1>1. /\ At(p, {"chdir"}) /\ Ilock(w[p])
      /\ icache' = [icache EXCEPT ![w[p]] = ilocked(w[p])]
  BY DEF Chdir
<1>2. /\ pc[p] = "at" /\ puts[p] = << >> /\ iph[p] = "no" /\ req[p].op \in {"chdir"}
      /\ w[p] \in Slot /\ icache[w[p]].ref > 0 /\ (ip[p] # None => req[p].op = "link")
  BY <1>0, <1>1, AtPoint
<1>3. Calm(icache')
  BY <1>0, <1>1, <1>2, ReadCalm
<1>4. DiskStays /\ UNCHANGED <<req, path, ip, iph, files>>
  BY DiskKept DEF Chdir, history
<1>5. ip[p] = None
  BY <1>2
<1>6. CASE PutW(p, "end") /\ cwd' = cwd
  <2>1. failed(p) = "end"
    BY <1>5 DEF failed
  <2> QED BY <1>2, <1>3, <1>4, <1>6, <2>1, NPutW
<1>7. CASE /\ puts' = [puts EXCEPT ![p] = <<left(p)>>]
           /\ cwd' = [cwd EXCEPT ![p] = w[p]]
           /\ w' = [w EXCEPT ![p] = None]
           /\ pc' = [pc EXCEPT ![p] = "end"]
  <2>1. Goes(p, "end", req[p], path[p], None, ip[p], <<cwd[p]>>, "no", w[p], files[p])
    BY <1>0, <1>2, <1>4, <1>7, Stays, Zenon DEF Goes, left
  <2>2. Moves(p, "end", req[p], path[p], None, ip[p], "no", w[p], files[p], cwd[p])
    BY <1>5, WantNow DEF Moves, Owes, Owing
  <2> QED BY <1>3, <1>4, <2>1, <2>2, CalmGoes
<1> QED BY <1>6, <1>7 DEF Chdir

LEMMA NOpen ==
  ASSUME NInv, PInv', NEW p \in Process, Open(p)
  PROVE  NInv'
<1>0. PInv /\ TypeOK /\ Was(p)
  BY Before DEF NInv
<1>1. /\ At(p, {"open"}) /\ Ilock(w[p])
      /\ icache' = [icache EXCEPT ![w[p]] = ilocked(w[p])]
  BY DEF Open
<1>2. /\ pc[p] = "at" /\ puts[p] = << >> /\ iph[p] = "no" /\ req[p].op \in {"open"}
      /\ w[p] \in Slot /\ icache[w[p]].ref > 0 /\ (ip[p] # None => req[p].op = "link")
  BY <1>0, <1>1, AtPoint
<1>3. Calm(icache')
  BY <1>0, <1>1, <1>2, ReadCalm
<1>4. DiskStays /\ UNCHANGED <<req, path, ip, iph, cwd>>
  BY DiskKept DEF Open, history
<1>5. ip[p] = None /\ files[p] \in [Fd -> Slot \cup {None}]
  BY <1>0, <1>2 DEF Was, Typed
<1>6. CASE PutW(p, "end") /\ files' = files
  <2>1. failed(p) = "end"
    BY <1>5 DEF failed
  <2> QED BY <1>2, <1>3, <1>4, <1>6, <2>1, NPutW
<1>7. CASE /\ fdalloc(p, w[p]) /\ w' = [w EXCEPT ![p] = None]
           /\ pc' = [pc EXCEPT ![p] = "end"] /\ puts' = puts
  <2>1. PICK k \in Fd : files[p][k] = None /\ files' = [files EXCEPT ![p][k] = w[p]]
    BY <1>7 DEF fdalloc
  <2>2. PICK f : f = [files[p] EXCEPT ![k] = w[p]]
    OBVIOUS
  <2>3. files' = [files EXCEPT ![p] = f]
    BY <2>1, <2>2
  <2>4. Goes(p, "end", req[p], path[p], None, None, << >>, "no", cwd[p], f)
    BY <1>0, <1>2, <1>4, <1>5, <1>7, <2>3, Stays, Zenon DEF Goes
  <2>5. \A j \in Fd : f[j] \in Wanted(p) \cup {None, cwd[p]}
    BY <1>5, <2>2, WantNow
  <2>6. Moves(p, "end", req[p], path[p], None, None, "no", cwd[p], f, cwd[p])
    BY <1>5, <2>5, WantNow DEF Moves, Owes, Owing
  <2> QED BY <1>3, <1>4, <2>4, <2>6, CalmGoes
<1> QED BY <1>6, <1>7 DEF Open

\* The end of a call that gives ip[p] up.
LEMMA NPutIp ==
  ASSUME NInv, PInv', NEW p \in Process, pc[p] \in {"exists", "created"}, puts[p] = << >>,
         PutIp(p), UNCHANGED <<req, path, w, iph, cwd, files>>, DiskStays, Calm(icache')
  PROVE  NInv'
<1>0. PInv /\ TypeOK /\ Was(p)
  BY Before DEF NInv
<1>1. w[p] = None /\ iph[p] = "no"
  BY <1>0 DEF Was, CallAt
<1>2. /\ puts' = [puts EXCEPT ![p] = <<ip[p]>>] /\ ip' = [ip EXCEPT ![p] = None]
      /\ pc' = [pc EXCEPT ![p] = "end"]
  BY DEF PutIp
<1>3. Goes(p, "end", req[p], path[p], w[p], None, <<ip[p]>>, "no", cwd[p], files[p])
  <2>1. req' = req /\ path' = path /\ w' = w /\ iph' = iph /\ cwd' = cwd /\ files' = files
    OBVIOUS
  <2> QED BY <1>0, <1>1, <1>2, <2>1, Stays, Zenon DEF Goes
<1>4. Moves(p, "end", req[p], path[p], w[p], None, "no", cwd[p], files[p], cwd[p])
  BY WantNow DEF Moves, Owes, Owing
<1> QED BY <1>3, <1>4, CalmGoes

LEMMA NCreateOld ==
  ASSUME NInv, PInv', NEW p \in Process, CreateOld(p)
  PROVE  NInv'
<1>0. PInv /\ TypeOK /\ Was(p)
  BY Before DEF NInv
<1>1. /\ pc[p] = "exists" /\ puts[p] = << >> /\ Ilock(ip[p])
      /\ icache' = [icache EXCEPT ![ip[p]] = ilocked(ip[p])]
  BY DEF CreateOld
<1>2. ip[p] # None /\ w[p] = None /\ iph[p] = "no"
  BY <1>0, <1>1 DEF Was, CallAt
<1>3. Calm(icache')
  BY <1>0, <1>1, <1>2, IpAt, ReadCalm
<1>4. DiskStays /\ UNCHANGED <<req, path, w, iph, cwd, files>>
  BY DiskKept DEF CreateOld, history
<1>5. CASE PutIp(p)
  BY <1>1, <1>3, <1>4, <1>5, NPutIp
<1>6. CASE pc' = [pc EXCEPT ![p] = "created"] /\ UNCHANGED <<ip, puts>>
  <2>1. Goes(p, "created", req[p], path[p], w[p], ip[p], puts[p], "no", cwd[p], files[p])
    BY <1>0, <1>2, <1>4, <1>6, Stays, Zenon DEF Goes
  <2>2. Moves(p, "created", req[p], path[p], w[p], ip[p], "no", cwd[p], files[p], cwd[p])
    BY <1>1, WantNow DEF Moves, Owes, Owing
  <2> QED BY <1>3, <1>4, <2>1, <2>2, CalmGoes
<1> QED BY <1>5, <1>6 DEF CreateOld

LEMMA NCreated ==
  ASSUME NInv, PInv', NEW p \in Process, Created(p)
  PROVE  NInv'
<1>0. PInv /\ TypeOK /\ Was(p) /\ icache' = icache
  BY Before DEF NInv, Created
<1>1. pc[p] = "created" /\ puts[p] = << >>
  BY DEF Created
<1>2. /\ ip[p] # None /\ w[p] = None /\ iph[p] = "no" /\ files[p] \in [Fd -> Slot \cup {None}]
  BY <1>0, <1>1 DEF Was, CallAt, Typed
<1>3. Calm(icache')
  BY <1>0, StayCalm
<1>4. DiskStays /\ UNCHANGED <<req, path, w, iph, cwd>>
  BY DiskKept DEF Created, history
<1>5. CASE PutIp(p) /\ files' = files
  BY <1>1, <1>3, <1>4, <1>5, NPutIp
<1>6. CASE /\ fdalloc(p, ip[p])
           /\ ip' = [ip EXCEPT ![p] = None] /\ pc' = [pc EXCEPT ![p] = "end"] /\ puts' = puts
  <2>1. PICK k \in Fd : files[p][k] = None /\ files' = [files EXCEPT ![p][k] = ip[p]]
    BY <1>6 DEF fdalloc
  <2>2. PICK f : f = [files[p] EXCEPT ![k] = ip[p]]
    OBVIOUS
  <2>3. files' = [files EXCEPT ![p] = f]
    BY <2>1, <2>2
  <2>4. Goes(p, "end", req[p], path[p], w[p], None, puts[p], "no", cwd[p], f)
    BY <1>0, <1>2, <1>4, <1>6, <2>3, Stays, Zenon DEF Goes
  <2>5. \A j \in Fd : f[j] \in Wanted(p) \cup {None, cwd[p]}
    BY <1>2, <2>2, WantNow
  <2>6. Moves(p, "end", req[p], path[p], w[p], None, "no", cwd[p], f, cwd[p])
    BY <1>1, <2>5, WantNow DEF Moves, Owes, Owing
  <2> QED BY <1>3, <1>4, <2>4, <2>6, CalmGoes
<1> QED BY <1>5, <1>6 DEF Created

LEMMA NUnlinkRefused ==
  ASSUME NInv, PInv', NEW p \in Process, UnlinkRefused(p)
  PROVE  NInv'
<1>0. PInv /\ TypeOK /\ Was(p) /\ UseOf(p)
  BY Before DEF NInv, UseInv
<1>1. /\ pc[p] = "unlink" /\ Ilock(ip[p])
      /\ icache' = [icache EXCEPT ![ip[p]] = ilocked(ip[p])]
      /\ puts' = [puts EXCEPT ![p] = <<ip[p]>>] /\ ip' = [ip EXCEPT ![p] = None]
      /\ pc' = [pc EXCEPT ![p] = "refused"]
  BY DEF UnlinkRefused
<1>2. ip[p] # None /\ w[p] # None /\ iph[p] = "no" /\ puts[p] = << >>
  BY <1>0, <1>1 DEF Was, CallAt
<1>3. Calm(icache')
  BY <1>0, <1>1, <1>2, IpAt, ReadCalm
<1>4. DiskStays /\ UNCHANGED <<req, path, w, iph, cwd, files>>
  BY DiskKept DEF UnlinkRefused, history
<1>5. Goes(p, "refused", req[p], path[p], w[p], None, <<ip[p]>>, "no", cwd[p], files[p])
  BY <1>0, <1>1, <1>2, <1>4, Stays, Zenon DEF Goes
<1>6. dtype[icache'[w[p]].inum] = "dir"
  <2>1. icache'[w[p]].inum = I(w[p])
    BY <1>0, <1>2, <1>3, WAt DEF Calm, I
  <2> QED BY <1>0, <1>1, <2>1 DEF UseOf
<1>7. Moves(p, "refused", req[p], path[p], w[p], None, "no", cwd[p], files[p], cwd[p])
  BY <1>1, <1>6, WantNow DEF Moves, Owes, Owing
<1> QED BY <1>3, <1>4, <1>5, <1>7, CalmGoes

\* Process p looks its next name up: iget returns u, the entry of inode i.
Finds(p, c, i, u) ==
  /\ pc[p] \in {"walk", "at"} /\ path[p] # << >> /\ Ilock(w[p])
  /\ c = [icache EXCEPT ![w[p]] = ilocked(w[p])]
  /\ i = dirlookup(icache[w[p]].inum, Head(path[p])) /\ i # 0 /\ room(c, i)
  /\ u = iget_slot(c, i) /\ icache' = iget(c, i)
HasFound(p, i, u) ==
  /\ Grown(icache', u) /\ Good(p, u) /\ u \in Slot /\ u # None
  /\ icache'[u].inum = i /\ i \in Inum
  /\ icache'[w[p]].inum = icache[w[p]].inum

LEMMA FindGood ==
  ASSUME NInv, DotDotNamed, NEW p \in Process, NEW c, NEW i, NEW u, Finds(p, c, i, u)
  PROVE  HasFound(p, i, u)
<1>a. /\ pc[p] \in {"walk", "at"} /\ path[p] # << >> /\ Ilock(w[p])
      /\ c = [icache EXCEPT ![w[p]] = ilocked(w[p])]
      /\ i = dirlookup(icache[w[p]].inum, Head(path[p])) /\ i # 0 /\ room(c, i)
      /\ u = iget_slot(c, i) /\ icache' = iget(c, i)
  BY DEF Finds
<1>0. PInv /\ TypeOK
  BY DEF NInv, PInv
<1>1. w[p] \in Slot /\ icache[w[p]].ref > 0 /\ icache[w[p]].inum \in Inum
  BY <1>a, <1>0, WalkAt
<1>2. Head(path[p]) \in Name \cup {".", ".."}
  BY <1>a, <1>0, HeadName
<1>3. Head(path[p]) = ".." => Named(icache[w[p]].inum) > 0
  BY <1>a DEF DotDotNamed
<1>4. /\ i \in Inum /\ (Head(path[p]) # "." => dnlink[i] >= 1)
      /\ Head(path[p]) = "." => i = icache[w[p]].inum
  BY <1>a, <1>1, <1>2, <1>3, Found
<1>5. Got(c, icache', u, i)
  BY <1>a, <1>0, <1>1, <1>4, ReadGet
<1>6. Calm(c)
  BY <1>a, <1>0, <1>1, ReadCalm
<1>7. Grown(icache', u) /\ icache'[u].inum = i /\ u \in Slot
  BY <1>0, <1>5, <1>6, CalmGrown
<1>8. Good(p, u)
  <2>1. CASE Head(path[p]) = "."
    <3>1. Got(c, icache', u, I(w[p]))
      BY <1>4, <1>5, <2>1 DEF I
    <3>2. u = w[p]
      BY <1>0, <1>1, <1>6, <3>1, GotOld
    <3>3. u \in Wanted(p)
      BY <1>1, <3>2, WantNow, Bounds
    <3> QED BY <3>3 DEF Good
  <2>2. CASE Head(path[p]) # "."
    BY <1>4, <1>7, <2>2 DEF Good
  <2> QED BY <2>1, <2>2
<1>9. icache'[w[p]].inum = icache[w[p]].inum
  BY <1>1, <1>7 DEF Grown
<1> QED BY <1>4, <1>7, <1>8, <1>9, Bounds DEF HasFound

LEMMA NCall ==
  ASSUME NInv, PInv', NEW p \in Process, Call(p)
  PROVE  NInv'
<1>0. /\ PInv /\ TypeOK /\ Was(p) /\ icache \in [Slot -> Entry]
      /\ CallInv /\ RefInv /\ CacheInv
  BY Before DEF NInv
<1>1. /\ pc[p] = "user" /\ puts[p] = << >> /\ w[p] = None /\ ip[p] = None /\ iph[p] = "no"
      /\ cwd[p] \in Slot
  BY <1>0 DEF Call, Was, CallAt, Typed
<1>2. icache[cwd[p]].ref > 0 /\ icache[cwd[p]].inum \in Inum
  BY <1>0, <1>1, InUseBy
<1>3. PICK op \in Ops, pt \in Path, new \in Path :
        /\ req' = [req EXCEPT ![p] = [op |-> op, new |-> new]]
        /\ Start(p, pt, icache)
  BY Zenon DEF Call
<1>4. PICK u \in Slot, i \in Inum :
        /\ Got(icache, icache', u, i) /\ (i = ROOTINO \/ u = cwd[p])
        /\ w' = [w EXCEPT ![p] = u] /\ path' = [path EXCEPT ![p] = pt.elems]
        /\ pc' = [pc EXCEPT ![p] = "walk"]
  BY <1>0, <1>1, <1>2, <1>3, Starts
<1>5. PICK r : r = [op |-> op, new |-> new]
  OBVIOUS
<1>6. Goes(p, "walk", r, pt.elems, u, None, << >>, "no", cwd[p], files[p])
  <2>1. /\ ip' = ip /\ puts' = puts /\ iph' = iph /\ cwd' = cwd /\ files' = files
    BY DEF Call
  <2> QED BY <1>0, <1>1, <1>3, <1>4, <1>5, <2>1, Stays, Zenon DEF Goes
<1>7. DiskStays
  BY DiskKept DEF Call
<1>8. Grown(icache', u) /\ icache'[u].inum = i
  BY <1>0, <1>4, StayCalm, CalmGrown
<1>9. Good(p, u)
  <2>1. CASE i = ROOTINO
    BY <1>8, <2>1, RootLinked DEF Good
  <2>2. CASE u = cwd[p]
    BY <1>1, <2>2, WantNow, Bounds DEF Good
  <2> QED BY <1>4, <2>1, <2>2
<1>10. Moves(p, "walk", r, pt.elems, u, None, "no", cwd[p], files[p], u)
  BY <1>1, WantNow DEF Moves, Owes, Owing
<1> QED BY <1>6, <1>7, <1>8, <1>9, <1>10, QuietGoes

LEMMA NWalkNext ==
  ASSUME NInv, DotDotNamed, PInv', NEW p \in Process, WalkNext(p)
  PROVE  NInv'
<1>0. PInv /\ TypeOK /\ Was(p)
  BY Before DEF NInv
<1>1. pc[p] = "walk" /\ puts[p] = << >> /\ iph[p] = "no" /\ path[p] # << >>
  BY <1>0 DEF WalkNext, Was, CallAt
<1>2. PICK s \in Slot : s = w[p] /\ icache[s].ref > 0 /\ icache[s].inum \in Inum
  BY <1>0, <1>1, WalkAt
<1>3. PICK c : c = [icache EXCEPT ![s] = ilocked(s)]
  OBVIOUS
<1>4. PICK i : i = dirlookup(ilocked(s).inum, Head(path[p]))
  OBVIOUS
<1>5. /\ Ilock(s) /\ i # 0 /\ room(c, i) /\ icache' = iget(c, i)
      /\ w' = [w EXCEPT ![p] = iget_slot(c, i)] /\ puts' = [puts EXCEPT ![p] = <<s>>]
      /\ path' = [path EXCEPT ![p] = Tail(path[p])]
  BY <1>2, <1>3, <1>4, Zenon DEF WalkNext
<1>6. ilocked(s).inum = icache[s].inum
  <2>1. Keeps(c) /\ c[s] = ilocked(s)
    BY <1>0, <1>2, <1>3, <1>5, ReadKeeps
  <2> QED BY <2>1 DEF Keeps
<1>7. PICK u : u = iget_slot(c, i)
  OBVIOUS
<1>8. Grown(icache', u) /\ Good(p, u)
  <2>1. i = dirlookup(icache[w[p]].inum, Head(path[p])) /\ Ilock(w[p])
        /\ c = [icache EXCEPT ![w[p]] = ilocked(w[p])]
    BY <1>2, <1>3, <1>4, <1>5, <1>6
  <2>2. Finds(p, c, i, u)
    BY <1>1, <1>5, <1>7, <2>1 DEF Finds
  <2>3. HasFound(p, i, u)
    BY <2>2, FindGood
  <2> QED BY <2>3 DEF HasFound
<1>9. DiskStays
  BY DiskKept DEF WalkNext, history
<1>10. Goes(p, "walk", req[p], Tail(path[p]), u, ip[p], <<s>>, "no", cwd[p], files[p])
  <2>1. UNCHANGED <<pc, req, ip, iph, cwd, files>>
    BY DEF WalkNext
  <2> QED BY <1>0, <1>1, <1>5, <1>7, <2>1, Stays, Zenon DEF Goes
<1>11. Moves(p, "walk", req[p], Tail(path[p]), u, ip[p], "no", cwd[p], files[p], u)
  BY <1>1, WantNow DEF Moves, Owes, Owing
<1> QED BY <1>8, <1>9, <1>10, <1>11, QuietGoes

LEMMA NCreateExists ==
  ASSUME NInv, DotDotNamed, PInv', NEW p \in Process, CreateExists(p)
  PROVE  NInv'
<1>0. PInv /\ TypeOK /\ Was(p)
  BY Before DEF NInv
<1>1. At(p, ParentOps) /\ Ilock(w[p])
  BY DEF CreateExists
<1>2. /\ pc[p] = "at" /\ puts[p] = << >> /\ iph[p] = "no" /\ req[p].op \in ParentOps
      /\ (ip[p] # None => req[p].op = "link") /\ w[p] \in Slot
  BY <1>0, <1>1, AtPoint
<1>3. ip[p] = None
  BY <1>2 DEF ParentOps
<1>4. PICK c : c = [icache EXCEPT ![w[p]] = ilocked(w[p])]
  OBVIOUS
<1>5. PICK i : i = dirlookup(icache[w[p]].inum, Head(path[p]))
  OBVIOUS
<1>6. /\ i # 0 /\ room(c, i) /\ icache' = iget(c, i)
      /\ ip' = [ip EXCEPT ![p] = iget_slot(c, i)] /\ PutW(p, "exists")
  BY <1>4, <1>5, Zenon DEF CreateExists
<1>7. DiskStays /\ UNCHANGED <<req, path, iph, cwd, files>>
  BY DiskKept DEF CreateExists, history
<1>8. path[p] # << >>
  <2>1. Len(path[p]) = 1
    BY <1>0, <1>2, <1>5, AtName DEF ParentOps
  <2> QED BY <2>1
<1>9. PICK u : u = iget_slot(c, i)
  OBVIOUS
<1>10. Grown(icache', u) /\ Good(p, u)
  <2>1. Finds(p, c, i, u)
    BY <1>1, <1>2, <1>4, <1>5, <1>6, <1>8, <1>9 DEF Finds
  <2>2. HasFound(p, i, u)
    BY <2>1, FindGood
  <2> QED BY <2>2 DEF HasFound
<1>11. Goes(p, "exists", req[p], path[p], None, u, <<w[p]>>, "no", cwd[p], files[p])
  BY <1>0, <1>2, <1>6, <1>7, <1>9, Stays, Zenon DEF Goes, PutW
<1>12. Moves(p, "exists", req[p], path[p], None, u, "no", cwd[p], files[p], u)
  BY <1>3, WantNow DEF Moves, Owes, Owing
<1> QED BY <1>7, <1>10, <1>11, <1>12, QuietGoes

LEMMA NUnlinkLookup ==
  ASSUME NInv, DotDotNamed, PInv', NEW p \in Process, UnlinkLookup(p)
  PROVE  NInv'
<1>0. PInv /\ TypeOK /\ Was(p) /\ UseOf(p)
  BY Before DEF NInv, UseInv
<1>1. At(p, {"unlink"}) /\ Ilock(w[p])
  BY DEF UnlinkLookup
<1>2. /\ pc[p] = "at" /\ puts[p] = << >> /\ iph[p] = "no" /\ req[p].op \in {"unlink"}
      /\ (ip[p] # None => req[p].op = "link")
      /\ w[p] \in Slot /\ icache[w[p]].ref > 0 /\ icache[w[p]].inum \in Inum
  BY <1>0, <1>1, AtPoint
<1>3. req[p].op = "unlink" /\ ip[p] = None
  BY <1>2
<1>4. PICK c : c = [icache EXCEPT ![w[p]] = ilocked(w[p])]
  OBVIOUS
<1>5. PICK i : i = dirlookup(icache[w[p]].inum, Head(path[p]))
  OBVIOUS
<1>6. DiskStays /\ UNCHANGED <<req, path, iph, cwd, files>>
  BY DiskKept DEF UnlinkLookup, history
<1>7. CASE icache' = c /\ PutW(p, "end") /\ UNCHANGED <<ip, lock>>
  <2>1. failed(p) = "end"
    BY <1>3 DEF failed
  <2>2. Calm(icache')
    BY <1>0, <1>1, <1>2, <1>4, <1>7, ReadCalm
  <2> QED BY <1>2, <1>6, <1>7, <2>1, <2>2, NPutW
<1>8. CASE /\ Head(path[p]) \notin {".", ".."} /\ i # 0 /\ room(c, i)
           /\ icache' = iget(c, i)
           /\ ip' = [ip EXCEPT ![p] = iget_slot(c, i)]
           /\ pc' = [pc EXCEPT ![p] = "unlink"]
           /\ UNCHANGED <<puts, w>>
  <2>1. Len(path[p]) = 1 /\ Head(path[p]) \in Name \cup {".", ".."}
    BY <1>0, <1>2, <1>3, <1>5, AtName
  <2>2. path[p] # << >> /\ Head(path[p]) \in Name
    BY <1>8, <2>1
  <2>3. PICK u : u = iget_slot(c, i)
    OBVIOUS
  <2>4. /\ Grown(icache', u) /\ Good(p, u) /\ u \in Slot /\ u # None
        /\ icache'[u].inum = i /\ i \in Inum
        /\ icache'[w[p]].inum = icache[w[p]].inum
    <3>1. Finds(p, c, i, u)
      BY <1>1, <1>2, <1>4, <1>5, <1>8, <2>2, <2>3 DEF Finds
    <3>2. HasFound(p, i, u)
      BY <3>1, FindGood
    <3> QED BY <3>2 DEF HasFound
  <2>5. Goes(p, "unlink", req[p], path[p], w[p], u, << >>, "no", cwd[p], files[p])
    <3>1. req' = req /\ path' = path /\ iph' = iph /\ cwd' = cwd /\ files' = files
          /\ puts' = puts /\ w' = w
      BY <1>6, <1>8
    <3> QED BY <1>0, <1>2, <1>8, <2>3, <3>1, Stays, Zenon DEF Goes
  <2>6. dtype[icache'[w[p]].inum] = "dir"
    BY <1>0, <1>2, <1>3, <2>4 DEF UseOf, wants_parent, I
  <2>7. dent[icache'[w[p]].inum][Head(path[p])] = icache'[u].inum
    BY <1>5, <1>8, <2>4 DEF dirlookup
  <2>8. Moves(p, "unlink", req[p], path[p], w[p], u, "no", cwd[p], files[p], u)
    BY <1>3, <2>2, <2>6, <2>7, WantNow DEF Moves, Owes, Owing
  <2> QED BY <1>6, <2>4, <2>5, <2>8, QuietGoes
<1> QED BY <1>4, <1>5, <1>7, <1>8 DEF UnlinkLookup

LEMMA NLinkExists ==
  ASSUME NInv, DotDotNamed, PInv', NEW p \in Process, LinkExists(p)
  PROVE  NInv'
<1>0. PInv /\ TypeOK /\ Was(p) /\ UseOf(p)
  BY Before DEF NInv, UseInv
<1>1. At(p, {"link"}) /\ ip[p] # None /\ Ilock(w[p])
  BY DEF LinkExists
<1>2. /\ pc[p] = "at" /\ puts[p] = << >> /\ iph[p] = "no" /\ w[p] \in Slot
  BY <1>0, <1>1, AtPoint
<1>4. PICK c : c = [icache EXCEPT ![w[p]] = ilocked(w[p])]
  OBVIOUS
<1>5. PICK i : i = dirlookup(icache[w[p]].inum, Head(path[p]))
  OBVIOUS
<1>6. /\ i # 0 /\ room(c, i) /\ icache' = iget(c, i)
      /\ puts' = [puts EXCEPT ![p] = <<iget_slot(c, i)>>]
      /\ pc' = [pc EXCEPT ![p] = "refused"]
  BY <1>4, <1>5, Zenon DEF LinkExists
<1>7. DiskStays /\ UNCHANGED <<req, path, w, ip, iph, cwd, files>>
  BY DiskKept DEF LinkExists, history
<1>8. path[p] # << >>
  <2>1. Len(path[p]) = 1
    BY <1>0, <1>1, <1>2, <1>5, AtName
  <2> QED BY <2>1
<1>9. PICK u : u = iget_slot(c, i)
  OBVIOUS
<1>10. Grown(icache', u) /\ Good(p, u) /\ icache'[w[p]].inum = icache[w[p]].inum
  <2>1. Finds(p, c, i, u)
    BY <1>1, <1>2, <1>4, <1>5, <1>6, <1>8, <1>9 DEF Finds
  <2>2. HasFound(p, i, u)
    BY <2>1, FindGood
  <2> QED BY <2>2 DEF HasFound
<1>11. Goes(p, "refused", req[p], path[p], w[p], ip[p], <<u>>, "no", cwd[p], files[p])
  BY <1>0, <1>2, <1>6, <1>7, <1>9, Stays, Zenon DEF Goes
<1>12. dtype[icache'[w[p]].inum] = "dir"
  BY <1>0, <1>1, <1>2, <1>10 DEF UseOf, wants_parent, I
<1>13. Moves(p, "refused", req[p], path[p], w[p], ip[p], "no", cwd[p], files[p], u)
  BY <1>1, <1>2, <1>12, WantNow DEF Moves, Owes, Owing
<1> QED BY <1>7, <1>10, <1>11, <1>13, QuietGoes

-----------------------------------------------------------------------------
(* iput *)

\* A step of iput that changes no inode on the disk.
LEMMA PutGoes ==
  ASSUME NInv, PInv', NEW p \in Process, NEW q, NEW h, puts[p] # << >>,
         Goes(p, pc[p], req[p], path[p], w[p], ip[p], q, h, cwd[p], files[p]), DiskStays,
         \A t \in Slot : /\ icache'[t].inum = icache[t].inum
                         /\ icache'[t].ref <= icache[t].ref
                         /\ icache'[t].nlink = icache[t].nlink,
         h = "free" => icache'[Head(q)].ref = 1 /\ icache'[Head(q)].nlink = 0
  PROVE  NInv'
<1>0. PInv /\ TypeOK /\ Was(p) /\ UseOf(p) /\ icache \in [Slot -> Entry]
  BY Before DEF NInv, UseInv
<1>1. /\ pc'[p] = pc[p] /\ req'[p] = req[p] /\ path'[p] = path[p] /\ w'[p] = w[p]
      /\ ip'[p] = ip[p] /\ puts'[p] = q /\ iph'[p] = h /\ cwd'[p] = cwd[p]
      /\ files'[p] = files[p] /\ \A o \in Process \ {p} : Same(o)
  BY <1>0, Went
<1>2. OthersSame(p) /\ InumsKept
  BY <1>1 DEF OthersSame, InumsKept
<1>3. Wanted(p)' = Wanted(p)
  BY <1>1 DEF Wanted
<1>4. OwesStays(p)
  BY <1>1 DEF OwesStays, Owes
<1>5. Owed(p)' = Owed(p)
  BY <1>0, <1>2, <1>4, OwedIf
<1>6. ASSUME NEW s \in Slot PROVE ~(icache'[s].ref > icache[s].ref)
  <2>1. icache[s].ref \in Nat /\ icache'[s].ref \in Nat
    <3>1. icache' \in [Slot -> Entry]
      BY DEF PInv, TypeOK
    <3> QED BY <1>0, <3>1 DEF Entry
  <2> QED BY <2>1
<1>7. Shares(p)
  BY <1>2, <1>3, <1>6 DEF Shares, Good
<1>8. pc[p] \notin {"init", "unlink", "at", "user"}
  BY <1>0 DEF Was, CallAt
<1>9. pc[p] = "refused" => dtype'[icache'[w'[p]].inum] = "dir"
  <2> SUFFICES ASSUME pc[p] = "refused" PROVE dtype'[icache'[w'[p]].inum] = "dir"
    OBVIOUS
  <2>1. w[p] # None
    BY <1>0 DEF Was, CallAt
  <2>2. icache'[w[p]].inum = I(w[p])
    BY <1>0, <2>1, WAt DEF I
  <2>3. dtype' = dtype
    BY DEF DiskStays
  <2> QED BY <1>0, <1>1, <2>2, <2>3 DEF UseOf
<1>10. Owes(p)' <=> Owes(p)
  BY <1>4 DEF OwesStays
<1>11. Placed(p)
  BY <1>1, <1>8, <1>9, <1>10 DEF Placed
<1> QED BY <1>5, <1>7, <1>11, QuietStep DEF Quiet, DiskStays

LEMMA NTest ==
  ASSUME NInv, PInv', NEW p \in Process, IputTest(p)
  PROVE  NInv'
<1>0. PInv /\ TypeOK /\ icache \in [Slot -> Entry]
  BY Before DEF NInv
<1>1. /\ puts[p] # << >> /\ icache' = icache
      /\ \/ may_free(Head(puts[p])) /\ iph' = [iph EXCEPT ![p] = "free"]
         \/ iph' = [iph EXCEPT ![p] = "drop"]
  BY Zenon DEF IputTest
<1>2. PICK h \in {"free", "drop"} :
        /\ iph' = [iph EXCEPT ![p] = h]
        /\ h = "free" => may_free(Head(puts[p]))
  BY <1>1
<1>3. Goes(p, pc[p], req[p], path[p], w[p], ip[p], puts[p], h, cwd[p], files[p])
  BY <1>0, <1>2, Stays, Zenon DEF IputTest, Goes
<1>4. DiskStays
  BY DiskKept DEF IputTest, history
<1>5. \A t \in Slot : /\ icache'[t].inum = icache[t].inum
                      /\ icache'[t].ref <= icache[t].ref
                      /\ icache'[t].nlink = icache[t].nlink
  BY <1>0, <1>1 DEF Entry
<1>6. h = "free" => icache'[Head(puts[p])].ref = 1 /\ icache'[Head(puts[p])].nlink = 0
  BY <1>1, <1>2 DEF may_free
<1> QED BY <1>1, <1>3, <1>4, <1>5, <1>6, PutGoes

LEMMA NInvalid ==
  ASSUME NInv, PInv', NEW p \in Process, IputInvalid(p)
  PROVE  NInv'
<1>0. PInv /\ TypeOK /\ Was(p) /\ icache \in [Slot -> Entry]
  BY Before DEF NInv
<1>1. iph[p] = "invalid" /\ puts[p] # << >>
  BY <1>0 DEF IputInvalid, Was, CallAt
<1>2. PICK s \in Slot : s = Head(puts[p])
  BY <1>0, <1>1, PutHead
<1>3. icache' = [icache EXCEPT ![s].valid = FALSE] /\ iph' = [iph EXCEPT ![p] = "drop"]
  BY <1>2, Zenon DEF IputInvalid
<1>4. Goes(p, pc[p], req[p], path[p], w[p], ip[p], puts[p], "drop", cwd[p], files[p])
  BY <1>0, <1>3, Stays, Zenon DEF IputInvalid, Goes
<1>5. \A t \in Slot : /\ icache'[t].inum = icache[t].inum
                      /\ icache'[t].ref <= icache[t].ref
                      /\ icache'[t].nlink = icache[t].nlink
  BY <1>0, <1>3 DEF Entry
<1>6. DiskStays
  BY DiskKept DEF IputInvalid, history
<1> QED BY <1>1, <1>4, <1>5, <1>6, PutGoes

LEMMA NDrop ==
  ASSUME NInv, PInv', NEW p \in Process, IputDrop(p)
  PROVE  NInv'
<1>0. PInv /\ TypeOK /\ Was(p) /\ icache \in [Slot -> Entry]
  BY Before DEF NInv
<1>1. iph[p] = "drop" /\ puts[p] # << >>
  BY <1>0 DEF IputDrop, Was, CallAt
<1>2. PICK s \in Slot : s = Head(puts[p])
  BY <1>0, <1>1, PutHead
<1>3. /\ icache' = [icache EXCEPT ![s].ref = @ - 1] /\ iph' = [iph EXCEPT ![p] = "no"]
      /\ puts' = [puts EXCEPT ![p] = Tail(puts[p])]
  BY <1>2, Zenon DEF IputDrop
<1>4. Goes(p, pc[p], req[p], path[p], w[p], ip[p], Tail(puts[p]), "no", cwd[p], files[p])
  BY <1>0, <1>3, Stays, Zenon DEF IputDrop, Goes
<1>5. ASSUME NEW t \in Slot
      PROVE  /\ icache'[t].inum = icache[t].inum
             /\ icache'[t].ref <= icache[t].ref
             /\ icache'[t].nlink = icache[t].nlink
  <2>1. icache[t] \in Entry /\ icache[t].ref \in Nat
    BY <1>0 DEF Entry
  <2>2. icache'[t] = IF t = s THEN [icache[s] EXCEPT !.ref = @ - 1] ELSE icache[t]
    BY <1>0, <1>3
  <2> QED BY <2>1, <2>2 DEF Entry
<1>6. DiskStays
  BY DiskKept DEF IputDrop, history
<1> QED BY <1>1, <1>4, <1>5, <1>6, PutGoes

-----------------------------------------------------------------------------
(* Steps that change links and names *)

\* The links of each inode when the entry x of the directory d becomes y, and
\* what p owes becomes b instead of a.
Counted(d, x, y, a, b) ==
  \A j \in Inum :
    dnlink'[j] = dnlink[j] + Hit(y, j) - Hit(x, j) + Hit(b, j) - Hit(a, j)
                   + (IF j = d THEN IsDir(y) - IsDir(x) ELSE 0)
CountedSame(a, b) == \A j \in Inum : dnlink'[j] = dnlink[j] + Hit(b, j) - Hit(a, j)

LEMMA LinkSum ==
  ASSUME NEW k \in Int, NEW n \in Int, NEW s \in Int, NEW o \in Int,
         NEW u \in Int, NEW z \in Int, NEW v \in Int,
         NEW kk, kk = k + u + v + z, NEW nn, nn = n + u, NEW ss, ss = s + z, NEW oo, oo = o + v
  PROVE  /\ kk \in Int /\ nn + ss + oo \in Int
         /\ k >= n + s + o => kk >= nn + ss + oo
         /\ k = n + s + o => kk = nn + ss + oo
  OBVIOUS

LEMMA ChangeLinks ==
  ASSUME PInv, LinkInv, NEW p \in Process, OthersSame(p), InumsKept, dtype' = dtype,
         stray \subseteq stray', NEW d \in Inum, NEW n \in Name, NEW x, x = dent[d][n], NEW y,
         dirlink(d, n, y), NEW a, a = Owed(p), NEW b, b = Owed(p)', Counted(d, x, y, a, b)
  PROVE  LinkInv'
<1>0. TypeOK /\ dnlink \in [Inum -> Int]
  BY DEF PInv, TypeOK
<1>1. ASSUME NEW j \in Inum
      PROVE  dnlink'[j] >= Links(j)' /\ (j \notin stray' => dnlink'[j] = Links(j)')
  <2>0. dnlink[j] >= Links(j) /\ (j \notin stray => dnlink[j] = Links(j))
    BY DEF LinkInv
  <2>1. Named(j)' = Named(j) + Hit(y, j) - Hit(x, j)
    BY <1>0, EntryChange
  <2>2. Cardinality(Subdirs(j)')
          = Cardinality(Subdirs(j)) + (IF j = d THEN IsDir(y) - IsDir(x) ELSE 0)
    <3>1. Cardinality(Subdirs(d)') = Cardinality(Subdirs(d)) + IsDir(y) - IsDir(x)
          /\ \A i \in Inum : i # d => Subdirs(i)' = Subdirs(i)
      BY <1>0, DirChange
    <3>2. Cardinality(Subdirs(j)) \in Nat /\ IsDir(x) \in {0, 1} /\ IsDir(y) \in {0, 1}
      BY LinkParts DEF IsDir
    <3>3. CASE j = d
      BY <3>1, <3>2, <3>3
    <3>4. CASE j # d
      BY <3>1, <3>2, <3>4
    <3> QED BY <3>3, <3>4
  <2>3. Cardinality(Pending(j)') = Cardinality(Pending(j)) + Hit(b, j) - Hit(a, j)
    BY PendingChange
  <2>4. /\ Named(j) \in Nat /\ Cardinality(Subdirs(j)) \in Nat /\ Cardinality(Pending(j)) \in Nat
        /\ Links(j) = Named(j) + Cardinality(Subdirs(j)) + Cardinality(Pending(j))
        /\ Links(j)' = Named(j)' + Cardinality(Subdirs(j)') + Cardinality(Pending(j)')
    BY LinkParts DEF Links
  <2>5. PICK u \in Int, v \in Int, z \in Int :
          /\ u = Hit(y, j) - Hit(x, j) /\ v = Hit(b, j) - Hit(a, j)
          /\ z = IF j = d THEN IsDir(y) - IsDir(x) ELSE 0
    <3>1. /\ Hit(y, j) - Hit(x, j) \in Int /\ Hit(b, j) - Hit(a, j) \in Int
          /\ IsDir(y) - IsDir(x) \in Int
      BY DEF Hit, IsDir
    <3> QED BY <3>1
  <2>6. PICK n1 \in Int, s1 \in Int, o1 \in Int, k1 \in Int :
          /\ n1 = Named(j) /\ s1 = Cardinality(Subdirs(j)) /\ o1 = Cardinality(Pending(j))
          /\ k1 = dnlink[j]
    BY <1>0, <2>4
  <2>7. /\ Hit(y, j) \in {0, 1} /\ Hit(x, j) \in {0, 1} /\ Hit(a, j) \in {0, 1}
        /\ Hit(b, j) \in {0, 1}
    BY DEF Hit
  <2>8. dnlink'[j] = k1 + u + v + z
    BY <2>5, <2>6, <2>7 DEF Counted
  <2>9. /\ Named(j)' = n1 + u /\ Cardinality(Subdirs(j)') = s1 + z
        /\ Cardinality(Pending(j)') = o1 + v
    BY <2>1, <2>2, <2>3, <2>5, <2>6, <2>7
  <2>10. /\ k1 >= n1 + s1 + o1 => dnlink'[j] >= Links(j)'
         /\ k1 = n1 + s1 + o1 => dnlink'[j] = Links(j)'
    BY <2>4, <2>8, <2>9, LinkSum
  <2> QED BY <2>0, <2>4, <2>6, <2>10
<1> QED BY <1>1 DEF LinkInv

LEMMA CountLinks ==
  ASSUME PInv, LinkInv, NEW p \in Process, OthersSame(p), InumsKept, dtype' = dtype,
         stray' = stray, dent' = dent, NEW a, a = Owed(p), NEW b, b = Owed(p)',
         CountedSame(a, b)
  PROVE  LinkInv'
<1>0. TypeOK /\ dnlink \in [Inum -> Int]
  BY DEF PInv, TypeOK
<1>2. ASSUME NEW j \in Inum
      PROVE  dnlink'[j] >= Links(j)' /\ (j \notin stray' => dnlink'[j] = Links(j)')
  <2>1. dnlink[j] >= Links(j) /\ (j \notin stray => dnlink[j] = Links(j))
    BY DEF LinkInv
  <2>2. Named(j)' = Named(j) /\ Subdirs(j)' = Subdirs(j)
    BY DEF Named, Subdirs, Entries
  <2>3. Cardinality(Pending(j)') = Cardinality(Pending(j)) + Hit(b, j) - Hit(a, j)
    BY PendingChange
  <2>4. /\ Named(j) \in Nat /\ Cardinality(Subdirs(j)) \in Nat /\ Cardinality(Pending(j)) \in Nat
        /\ Links(j) = Named(j) + Cardinality(Subdirs(j)) + Cardinality(Pending(j))
        /\ Links(j)' = Named(j)' + Cardinality(Subdirs(j)') + Cardinality(Pending(j)')
    BY LinkParts DEF Links
  <2>5. Hit(a, j) \in {0, 1} /\ Hit(b, j) \in {0, 1}
    BY DEF Hit
  <2>6. dnlink'[j] = dnlink[j] + Hit(b, j) - Hit(a, j) /\ dnlink[j] \in Int
    BY <1>0 DEF CountedSame
  <2>7. dnlink'[j] >= Links(j)' /\ (dnlink[j] = Links(j) => dnlink'[j] = Links(j)')
    BY <2>1, <2>2, <2>3, <2>4, <2>5, <2>6
  <2> QED BY <2>1, <2>7
<1> QED BY <1>2 DEF LinkInv

\* The links of inodes that are allocated change, and nothing else.
LEMMA TreeLinks ==
  ASSUME TreeInv, dent' = dent, dtype' = dtype, dotdot' = dotdot, stray' = stray,
         \A i \in Inum : dtype[i] = "free" => dnlink'[i] = dnlink[i]
  PROVE  TreeInv'
<1>1. \A i : Entries(i)' = Entries(i) /\ Named(i)' = Named(i)
  BY DEF Entries, Named
<1>2. ASSUME NEW i \in Inum PROVE TreeOf(i)'
  <2>1. TreeOf(i)
    BY DEF TreeInv
  <2>2. Entries(i)' = Entries(i) /\ Named(i)' = Named(i)
    BY <1>1
  <2> QED BY <2>1, <2>2 DEF TreeOf
<1>3. dtype'[ROOTINO] = "dir" /\ dotdot'[ROOTINO] = ROOTINO /\ Entries(ROOTINO)' = {}
  BY <1>1 DEF TreeInv
<1> QED BY <1>2, <1>3 DEF TreeInv

\* Where such a step leaves p.
Settled(p) ==
  /\ pc'[p] \notin {"init", "unlink", "refused", "at"} /\ iph'[p] # "free"
  /\ Owes(p)' /\ pc'[p] # "drop" => dtype'[icache'[ip'[p]].inum] # "dir"

LEMMA Settle ==
  ASSUME NInv, PInv', NEW p \in Process, Shares(p), Touches(p), Settled(p), LinkInv', TreeInv'
  PROVE  NInv'
<1>0. PInv /\ UseInv /\ dtype' = dtype
  BY DEF NInv, Touches
<1>1. \A q \in Process : q # p => UseOf(q)'
  BY <1>0, Touch
<1>2. \A s \in Wanted(p)' : dtype'[icache'[s].inum] # "free"
  BY <1>0, OwnWanted
<1>3. UseOf(p)'
  BY <1>2, Zenon DEF UseOf, Settled, I
<1>4. UseInv'
  BY <1>1, <1>3 DEF UseInv
<1> QED BY <1>4 DEF NInv

\* A step of p that takes no new entry and changes the links of no inode that
\* somebody else has locked.
Tame(p) ==
  \A t \in Slot : /\ icache'[t].ref = icache[t].ref /\ icache'[t].inum = icache[t].inum
                  /\ lock[t] \notin {None, p} => icache'[t].nlink = icache[t].nlink

LEMMA SharesTame ==
  ASSUME PInv, NEW p \in Process, OthersSame(p), Tame(p), Wanted(p)' \subseteq Wanted(p)
  PROVE  Shares(p)
<1>1. InumsKept
  BY DEF Tame, InumsKept
<1>2. ASSUME NEW s \in Slot PROVE ~(icache'[s].ref > icache[s].ref)
  <2>1. icache[s].ref \in Nat
    BY DEF PInv, TypeOK, Entry
  <2>2. icache'[s].ref = icache[s].ref
    BY DEF Tame
  <2> QED BY <2>1, <2>2
<1>3. \A s \in Wanted(p)' : Good(p, s)
  BY DEF Good
<1>4. \A s \in Slot : lock[s] \notin {None, p} => icache'[s].nlink = icache[s].nlink
  BY DEF Tame
<1> QED BY <1>1, <1>2, <1>3, <1>4 DEF Shares

\* The same, from what the step makes of the variables of p.
LEMMA TameGoes ==
  ASSUME NInv, PInv', NEW p \in Process, NEW c, NEW r, NEW l, NEW a, NEW b, NEW q,
         Goes(p, c, r, l, a, b, q, "no", cwd[p], files[p]),
         c \in {"created", "drop", "end"}, a \in Wanted(p) \cup {None},
         b \in Wanted(p) \cup {None}, Tame(p), Touches(p), LinkInv', TreeInv'
  PROVE  NInv'
<1>0. PInv /\ TypeOK
  BY DEF NInv, PInv
<1>1. /\ pc'[p] = c /\ req'[p] = r /\ path'[p] = l /\ w'[p] = a /\ ip'[p] = b
      /\ puts'[p] = q /\ iph'[p] = "no" /\ cwd'[p] = cwd[p] /\ files'[p] = files[p]
      /\ \A o \in Process \ {p} : Same(o)
  BY <1>0, Went
<1>2. OthersSame(p)
  BY <1>1 DEF OthersSame
<1>3. Wanted(p)' \subseteq Wanted(p)
  BY <1>1, WantNow DEF Wanted
<1>4. Shares(p)
  BY <1>0, <1>2, <1>3, SharesTame
<1>5. Settled(p)
  BY <1>1 DEF Settled, Owes
<1> QED BY <1>4, <1>5, Settle

\* A link of ip[p] that p owed goes.
LEMMA DropsLink ==
  ASSUME NInv, PInv', NEW p \in Process, NEW s \in Slot, s = ip[p], Owes(p), w[p] = None,
         Goes(p, "end", req[p], path[p], None, None, <<ip[p]>>, "no", cwd[p], files[p]),
         Known(icache, icache', s), lock[s] \in {None, p}, NEW i \in Inum, i = I(s),
         dtype' = dtype, dent' = dent, dotdot' = dotdot, stray' = stray,
         NEW k \in Int, k = dnlink[i], dnlink' = [dnlink EXCEPT ![i] = k - 1]
  PROVE  NInv'
<1>0. /\ PInv /\ TypeOK /\ LinkInv /\ TreeInv /\ UseOf(p) /\ dnlink \in [Inum -> Int]
      /\ s # None
  BY Bounds DEF NInv, PInv, TypeOK, UseInv
<1>1. Tame(p)
  BY DEF Known, Tame
<1>2. s \in Wanted(p)
  BY <1>0 DEF Wanted
<1>3. dtype[i] # "free"
  BY <1>0, <1>2 DEF UseOf
<1>4. Touches(p)
  BY <1>0, <1>2 DEF Touches
<1>5. TreeInv'
  BY <1>0, <1>3, TreeLinks
<1>6. pc'[p] = "end" /\ \A o \in Process \ {p} : Same(o)
  BY <1>0, Went
<1>7. OthersSame(p) /\ InumsKept
  BY <1>1, <1>6 DEF OthersSame, InumsKept, Tame
<1>8. Owed(p) = i /\ Owed(p)' = 0
  BY <1>6 DEF Owed, Owes
<1>9. CountedSame(i, 0)
  <2>1. ASSUME NEW j \in Inum PROVE dnlink'[j] = dnlink[j] + Hit(0, j) - Hit(i, j)
    <3>1. j # 0 /\ dnlink[j] \in Int
      BY <1>0, Bounds
    <3> QED BY <1>0, <3>1 DEF Hit
  <2> QED BY <2>1 DEF CountedSame
<1>10. LinkInv'
  BY <1>0, <1>7, <1>8, <1>9, CountLinks
<1> QED BY <1>1, <1>4, <1>5, <1>10, TameGoes

LEMMA NLinkBad ==
  ASSUME NInv, PInv', NEW p \in Process, LinkBad(p)
  PROVE  NInv'
<1>0. /\ PInv /\ TypeOK /\ Was(p) /\ dtype \in [Inum -> Types] /\ dnlink \in [Inum -> Int]
  BY Before DEF NInv
<1>1. /\ pc[p] = "bad" /\ puts[p] = << >> /\ Ilock(ip[p]) /\ PutIp(p)
      /\ icache' = [icache EXCEPT ![ip[p]] = unlinked(ilocked(ip[p]))]
      /\ iupdate(icache'[ip[p]])
  BY DEF LinkBad
<1>2. ip[p] # None /\ w[p] = None /\ iph[p] = "no"
  BY <1>0, <1>1 DEF Was, CallAt
<1>3. PICK s \in Slot : s = ip[p] /\ icache[s].ref > 0 /\ icache[s].inum \in Inum
  BY <1>0, <1>2, IpAt
<1>4. PICK i \in Inum : i = I(s)
  BY <1>3 DEF I
<1>5. PICK k \in Int : k = dnlink[i]
  BY <1>0
<1>6. Ilock(s) /\ k - 1 \in Int
  BY <1>1, <1>3
<1>7. ilocked(s).nlink = k
  <2>1. PICK g : g = [icache EXCEPT ![s] = ilocked(s)]
    OBVIOUS
  <2>2. ilocked(s).nlink = dnlink[I(s)]
    BY <1>0, <1>3, <1>6, <2>1, ReadCalm
  <2> QED BY <1>4, <1>5, <2>2
<1>8. PICK g : g = Relinked(s, k - 1)
  OBVIOUS
<1>9. /\ Known(icache, g, s) /\ g[s].nlink = k - 1 /\ g[s].type = dtype[icache[s].inum]
      /\ g[s].inum = icache[s].inum
  BY <1>0, <1>3, <1>6, <1>8, ReadSet
<1>10. icache' = g
  BY <1>1, <1>3, <1>7, <1>8 DEF unlinked, Relinked
<1>11. dtype' = dtype /\ dnlink' = [dnlink EXCEPT ![i] = k - 1]
  <2>1. /\ dtype' = [dtype EXCEPT ![g[s].inum] = g[s].type]
        /\ dnlink' = [dnlink EXCEPT ![g[s].inum] = g[s].nlink]
    BY <1>1, <1>3, <1>10 DEF iupdate
  <2> QED BY <1>0, <1>4, <1>9, <2>1 DEF I
<1>12. /\ dent' = dent /\ dotdot' = dotdot /\ stray' = stray /\ req' = req /\ path' = path
       /\ w' = w /\ iph' = iph /\ cwd' = cwd /\ files' = files
  BY DEF LinkBad, history
<1>13. Goes(p, "end", req[p], path[p], None, None, <<ip[p]>>, "no", cwd[p], files[p])
  BY <1>0, <1>1, <1>2, <1>12, Stays, Zenon DEF Goes, PutIp
<1>14. lock[s] = None /\ Owes(p)
  BY <1>1, <1>2, <1>6 DEF Ilock, Free, Owes
<1> QED BY <1>2, <1>3, <1>4, <1>5, <1>9, <1>10, <1>11, <1>12, <1>13, <1>14, DropsLink

LEMMA NUnlinkDrop ==
  ASSUME NInv, PInv', NEW p \in Process, UnlinkDrop(p)
  PROVE  NInv'
<1>0. /\ PInv /\ TypeOK /\ Was(p) /\ LockInv /\ icache \in [Slot -> Entry]
      /\ dtype \in [Inum -> Types] /\ dnlink \in [Inum -> Int]
      /\ Exact(icache, dtype, dnlink, Inval) /\ LockedValid(icache, lock)
  BY Before DEF NInv
<1>1. /\ pc[p] = "drop" /\ puts[p] = << >> /\ PutIp(p)
      /\ icache' = [icache EXCEPT ![ip[p]].nlink = @ - 1]
      /\ iupdate(icache'[ip[p]])
  BY DEF UnlinkDrop
<1>2. ip[p] # None /\ iph[p] = "no" /\ w[p] = None
  BY <1>0, <1>1 DEF Was, CallAt
<1>3. PICK s \in Slot : s = ip[p] /\ icache[s].ref > 0 /\ icache[s].inum \in Inum
  BY <1>0, <1>2, IpAt
<1>4. PICK i \in Inum : i = I(s)
  BY <1>3 DEF I
<1>5. PICK k \in Int : k = dnlink[i]
  BY <1>0
<1>6. InCall(pc[p], w[p], ip[p], s)
  BY <1>1, <1>3 DEF InCall
<1>7. lock[s] = p /\ s \notin Inval /\ icache[s].valid
  <2>1. lock[s] = p
    BY <1>0, <1>2, <1>6, HeldNow
  <2>2. s \notin Inval
    BY <1>0, <1>6, NotInval
  <2>3. icache[s].valid
    BY <1>0, <2>1, Bounds DEF LockedValid
  <2> QED BY <2>1, <2>2, <2>3
<1>8. icache[s].nlink = k /\ k - 1 \in Int
  BY <1>0, <1>3, <1>4, <1>5, <1>7 DEF Exact, Agrees, I
<1>9. PICK g : g = SetLinks(icache, s, k - 1)
  OBVIOUS
<1>10. /\ Known(icache, g, s) /\ g[s].nlink = k - 1 /\ g[s].type = icache[s].type
       /\ icache[s].type = dtype[icache[s].inum]
  BY <1>0, <1>3, <1>7, <1>8, <1>9, Update
<1>11. icache' = g
  BY <1>1, <1>3, <1>8, <1>9 DEF SetLinks
<1>12. g[s].inum = icache[s].inum
  BY <1>10 DEF Known
<1>13. dtype' = dtype /\ dnlink' = [dnlink EXCEPT ![i] = k - 1]
  <2>1. /\ dtype' = [dtype EXCEPT ![g[s].inum] = g[s].type]
        /\ dnlink' = [dnlink EXCEPT ![g[s].inum] = g[s].nlink]
    BY <1>1, <1>3, <1>11 DEF iupdate
  <2> QED BY <1>0, <1>4, <1>10, <1>12, <2>1 DEF I
<1>14. /\ dent' = dent /\ dotdot' = dotdot /\ stray' = stray /\ req' = req /\ path' = path
       /\ w' = w /\ iph' = iph /\ cwd' = cwd /\ files' = files
  BY DEF UnlinkDrop, history
<1>15. Goes(p, "end", req[p], path[p], None, None, <<ip[p]>>, "no", cwd[p], files[p])
  BY <1>0, <1>1, <1>2, <1>14, Stays, Zenon DEF Goes, PutIp
<1>16. Owes(p)
  BY <1>1, <1>2 DEF Owes
<1> QED BY <1>2, <1>3, <1>4, <1>5, <1>7, <1>10, <1>11, <1>13, <1>14, <1>15, <1>16, DropsLink

LEMMA SharesGrown ==
  ASSUME PInv, NEW p \in Process, OthersSame(p), NEW u, Grown(icache', u), Good(p, u),
         Wanted(p)' \subseteq Wanted(p) \cup {u}
  PROVE  Shares(p)
<1>0. icache \in [Slot -> Entry]
  BY DEF PInv, TypeOK
<1>1. InumsKept
  BY DEF Grown, InumsKept
<1>2. ASSUME NEW s \in Slot, icache'[s].ref > icache[s].ref PROVE Good(p, s)
  <2>1. icache[s].ref \in Nat
    BY <1>0 DEF Entry
  <2>2. s = u
    BY <1>2, <2>1 DEF Grown
  <2> QED BY <2>2
<1>3. \A s \in Slot : lock[s] \notin {None, p} => icache'[s].nlink = icache[s].nlink
  BY DEF Grown
<1>4. \A s \in Wanted(p)' : Good(p, s)
  BY DEF Good
<1> QED BY <1>1, <1>2, <1>3, <1>4 DEF Shares

LEMMA NLinkInc ==
  ASSUME NInv, PInv', NEW p \in Process, LinkInc(p)
  PROVE  NInv'
<1>0. /\ PInv /\ TypeOK /\ Was(p) /\ RefInv /\ CallInv /\ CacheInv
      /\ icache \in [Slot -> Entry] /\ dtype \in [Inum -> Types] /\ dnlink \in [Inum -> Int]
      /\ LinkInv /\ TreeInv /\ UseOf(p)
  BY Before DEF NInv, UseInv
<1>1. /\ At(p, {"link"}) /\ ip[p] = None /\ Ilock(w[p])
      /\ ip' = [ip EXCEPT ![p] = w[p]] /\ ilocked(w[p]).type # "dir"
  BY DEF LinkInc
<1>2. /\ pc[p] = "at" /\ puts[p] = << >> /\ iph[p] = "no" /\ req[p].op \in {"link"}
      /\ w[p] \in Slot /\ icache[w[p]].ref > 0 /\ icache[w[p]].inum \in Inum
      /\ req[p] \in [op : Ops, new : Path]
  BY <1>0, <1>1, AtPoint
<1>3. PICK s \in Slot : s = w[p] /\ icache[s].ref > 0 /\ icache[s].inum \in Inum /\ Ilock(s)
  BY <1>1, <1>2
<1>4. PICK i \in Inum : i = I(s)
  BY <1>3 DEF I
<1>5. PICK k \in Int : k = dnlink[i]
  BY <1>0
<1>6. k + 1 \in Int
  OBVIOUS
<1>7. PICK g : g = Relinked(s, k + 1)
  OBVIOUS
<1>8. /\ g \in [Slot -> Entry] /\ Known(icache, g, s) /\ g[s].nlink = k + 1
      /\ ilocked(s).type = dtype[icache[s].inum] /\ ilocked(s).nlink = dnlink[icache[s].inum]
      /\ ilocked(s).inum = icache[s].inum /\ dtype[icache[s].inum] # "free"
  BY <1>0, <1>3, <1>6, <1>7, ReadSet
<1>9. PICK x : x = [ilocked(s) EXCEPT !.nlink = @ + 1]
  OBVIOUS
<1>10. iupdate(x) /\ Start(p, req[p].new, [icache EXCEPT ![s] = x])
  BY <1>3, <1>9 DEF LinkInc
<1>11. ilocked(s) \in Entry
  <2>1. Keeps([icache EXCEPT ![s] = ilocked(s)])
        /\ [icache EXCEPT ![s] = ilocked(s)][s] = ilocked(s)
    BY <1>0, <1>3, ReadKeeps
  <2> QED BY <2>1 DEF Keeps
<1>12. /\ x = [ilocked(s) EXCEPT !.nlink = k + 1] /\ x.type = ilocked(s).type
       /\ x.inum = ilocked(s).inum /\ x.nlink = k + 1
  BY <1>4, <1>5, <1>8, <1>9, <1>11 DEF Entry, I
<1>13. g = [icache EXCEPT ![s] = x]
  BY <1>7, <1>12 DEF Relinked
<1>14. dtype' = dtype /\ dnlink' = [dnlink EXCEPT ![i] = k + 1]
  BY <1>0, <1>4, <1>8, <1>10, <1>12 DEF iupdate, I
<1>15. cwd[p] \in Slot /\ g[cwd[p]].ref > 0 /\ g[cwd[p]].inum \in Inum
  <2>1. cwd[p] \in Slot
    BY <1>0 DEF Was, Typed
  <2>2. icache[cwd[p]].ref > 0 /\ icache[cwd[p]].inum \in Inum
    BY <1>0, <2>1, InUseBy
  <2> QED BY <1>8, <2>1, <2>2 DEF Known
<1>16. PICK u \in Slot, j \in Inum, l \in Seq(Name \cup {".", ".."}) :
        /\ Got(g, icache', u, j) /\ (j = ROOTINO \/ u = cwd[p])
        /\ w' = [w EXCEPT ![p] = u] /\ path' = [path EXCEPT ![p] = l]
        /\ pc' = [pc EXCEPT ![p] = "walk"]
  <2>1. PICK pt \in Path : pt = req[p].new
    BY <1>2
  <2>2. Start(p, pt, g)
    BY <1>10, <1>13, <2>1
  <2>3. \E u \in Slot : \E j \in Inum :
           /\ Got(g, icache', u, j) /\ (j = ROOTINO \/ u = cwd[p])
           /\ w' = [w EXCEPT ![p] = u] /\ path' = [path EXCEPT ![p] = pt.elems]
           /\ pc' = [pc EXCEPT ![p] = "walk"] /\ pt.elems \in Seq(Name \cup {".", ".."})
    BY <1>8, <1>15, <2>2, Starts
  <2> QED BY <2>3, Zenon
<1>17. /\ dent' = dent /\ dotdot' = dotdot /\ req' = req /\ puts' = puts
       /\ iph' = iph /\ cwd' = cwd /\ files' = files /\ stray' = stray
  BY DEF LinkInc, history
<1>18. Goes(p, "walk", req[p], l, u, s, << >>, "no", cwd[p], files[p])
  BY <1>0, <1>1, <1>2, <1>3, <1>16, <1>17, Stays, Zenon DEF Goes
<1>19. /\ pc'[p] = "walk" /\ w'[p] = u /\ ip'[p] = s /\ iph'[p] = "no"
       /\ cwd'[p] = cwd[p] /\ files'[p] = files[p] /\ \A o \in Process \ {p} : Same(o)
  BY <1>0, <1>18, Went
<1>20. lock[s] = None
  BY <1>3 DEF Ilock, Free
<1>21. Calm(g)
  BY <1>8, <1>20 DEF Known, Calm
<1>22. Grown(icache', u) /\ icache'[u].inum = j
  BY <1>0, <1>16, <1>21, CalmGrown
<1>23. Good(p, u)
  <2>1. CASE j = ROOTINO
    BY <1>22, <2>1, RootLinked DEF Good
  <2>2. CASE u = cwd[p]
    BY <1>15, <2>2, WantNow, Bounds DEF Good
  <2> QED BY <1>16, <2>1, <2>2
<1>24. s \in Wanted(p)
  BY <1>3, Bounds DEF Wanted
<1>25. Wanted(p)' \subseteq Wanted(p) \cup {u}
  BY <1>19, <1>24, WantNow DEF Wanted
<1>26. OthersSame(p) /\ InumsKept
  BY <1>19, <1>22 DEF OthersSame, Grown, InumsKept
<1>27. Shares(p)
  BY <1>0, <1>22, <1>23, <1>25, <1>26, SharesGrown
<1>28. Touches(p)
  BY <1>0, <1>4, <1>14, <1>17, <1>24 DEF Touches
<1>29. icache'[s].inum = i /\ dtype[i] # "dir" /\ dtype[i] # "free"
  BY <1>1, <1>3, <1>4, <1>8, <1>26 DEF InumsKept, I
<1>30. Settled(p)
  BY <1>14, <1>19, <1>29 DEF Settled
<1>31. TreeInv'
  <2>1. \A m \in Inum : dtype[m] = "free" => dnlink'[m] = dnlink[m]
    BY <1>0, <1>14, <1>29
  <2> QED BY <1>0, <1>14, <1>17, <2>1, TreeLinks
<1>32. Owed(p) = 0 /\ Owed(p)' = i
  <2>1. Owed(p) = 0
    BY <1>1 DEF Owed, Owes
  <2>2. Owed(p)' = i
    BY <1>19, <1>29, Bounds DEF Owed, Owes, I
  <2> QED BY <2>1, <2>2
<1>33. CountedSame(0, i)
  <2>1. ASSUME NEW m \in Inum PROVE dnlink'[m] = dnlink[m] + Hit(i, m) - Hit(0, m)
    <3>1. m # 0 /\ dnlink[m] \in Int
      BY <1>0, Bounds
    <3> QED BY <1>0, <1>5, <1>14, <3>1 DEF Hit
  <2> QED BY <2>1 DEF CountedSame
<1>34. LinkInv'
  BY <1>0, <1>14, <1>17, <1>26, <1>32, <1>33, CountLinks
<1> QED BY <1>27, <1>28, <1>30, <1>31, <1>34, Settle

\* An entry is cleared: the inode it named has no entries itself.
LEMMA TreeDel ==
  ASSUME TypeOK, TreeInv, NEW d \in Inum, NEW n \in Name, NEW i \in Inum, dent[d][n] = i,
         dirlink(d, n, 0), i # d, dtype[d] = "dir", dtype[i] = "dir" => dent[i] = NoEntries,
         dtype' = dtype, dotdot' = dotdot, stray' = stray,
         \A j \in Inum : dtype[j] = "free" => dnlink'[j] = dnlink[j]
  PROVE  TreeInv'
<1>0. dent \in [Inum -> [Name -> Inum \cup {0}]] /\ dent' = [dent EXCEPT ![d][n] = 0]
  BY DEF TypeOK, dirlink
<1>1. /\ \A j \in Inum : j # d => dent'[j] = dent[j]
      /\ \A m \in Name : m # n => dent'[d][m] = dent[d][m]
      /\ dent'[d][n] = 0
  BY <1>0
<1>2. ASSUME NEW j \in Inum
      PROVE  Entries(j)' \subseteq Entries(j)
  <2> SUFFICES ASSUME NEW x \in Inum \X Name, dent'[x[1]][x[2]] = j
               PROVE  dent[x[1]][x[2]] = j
    BY DEF Entries
  <2>1. x[1] \in Inum /\ x[2] \in Name /\ j # 0
    BY Bounds
  <2> QED BY <1>1, <2>1
<1>3. ASSUME NEW j \in Inum, j # i
      PROVE  Entries(j)' = Entries(j)
  <2> SUFFICES ASSUME NEW x \in Inum \X Name, dent[x[1]][x[2]] = j
               PROVE  dent'[x[1]][x[2]] = j
    BY <1>2, <1>3 DEF Entries
  <2>1. x[1] \in Inum /\ x[2] \in Name
    OBVIOUS
  <2> QED BY <1>1, <1>3, <2>1
<1>4. ASSUME NEW j \in Inum PROVE TreeOf(j)'
  <2>0. TreeOf(j) /\ TreeOf(i)
    BY DEF TreeInv
  <2>1. Entries(j)' # {} => dtype'[j] # "free"
    BY <1>2, <2>0 DEF TreeOf
  <2>2. dtype'[j] # "dir" => dent'[j] = NoEntries /\ dotdot'[j] = 0
    BY <1>1, <2>0 DEF TreeOf
  <2>3. dtype'[j] = "free" => dnlink'[j] = 0
    BY <2>0 DEF TreeOf
  <2>4. dtype'[j] = "dir" => \A x, y \in Entries(j)' : x = y
    BY <1>2, <2>0 DEF TreeOf
  <2>5. dtype'[j] = "dir" => \A x \in Entries(j)' : x[1] = dotdot'[j] /\ x[1] # j
    BY <1>2, <2>0 DEF TreeOf
  <2>6. ASSUME Named(j)' = 0, NEW m \in Name, dent'[j][m] # 0
        PROVE  dent'[j][m] \in stray'
    <3>1. CASE j = i
      <4>1. dent'[j] = NoEntries
        BY <1>1, <2>0, <3>1 DEF TreeOf
      <4> QED BY <2>6, <4>1 DEF NoEntries
    <3>2. CASE j # i
      <4>1. Entries(j)' = Entries(j)
        BY <1>3, <3>2
      <4>2. Named(j) = 0
        BY <2>6, <4>1 DEF Named
      <4>3. dent'[j][m] = dent[j][m]
        BY <1>1, <2>6
      <4> QED BY <2>0, <2>6, <4>2, <4>3 DEF TreeOf
    <3> QED BY <3>1, <3>2
  <2> QED BY <2>1, <2>2, <2>3, <2>4, <2>5, <2>6, Zenon DEF TreeOf, NoEntries
<1>5. dtype'[ROOTINO] = "dir" /\ dotdot'[ROOTINO] = ROOTINO /\ Entries(ROOTINO)' = {}
  BY <1>2, Bounds DEF TreeInv
<1> QED BY <1>4, <1>5 DEF TreeInv

\* What the directory of a call knows while it is locked.
LEMMA DirExact ==
  ASSUME NInv, NEW p \in Process, pc[p] \in {"init", "unlink"}, Ilock(ip[p]), NEW t, t = w[p]
  PROVE  /\ icache[t].nlink = dnlink[I(t)] /\ dtype[I(t)] = "dir" /\ t \in Wanted(p)
         /\ ip[p] \in Wanted(p)
<1>0. PInv /\ UseOf(p) /\ Exact(icache, dtype, dnlink, Inval)
  BY Before DEF NInv, UseInv
<1>1. /\ t \in Slot /\ icache[t].ref > 0 /\ t \notin Inval /\ icache[t].valid
      /\ ip[p] \in Slot
  BY <1>0, BothAt
<1>2. icache[t].nlink = dnlink[I(t)]
  BY <1>0, <1>1 DEF Exact, Agrees, I
<1>3. t \in Wanted(p) /\ ip[p] \in Wanted(p)
  BY <1>1, Bounds DEF Wanted
<1> QED BY <1>0, <1>2, <1>3 DEF UseOf

LEMMA NUnlinkEntry ==
  ASSUME NInv, PInv', NEW p \in Process, UnlinkEntry(p)
  PROVE  NInv'
<1>0. /\ PInv /\ TypeOK /\ Was(p) /\ icache \in [Slot -> Entry]
      /\ dtype \in [Inum -> Types] /\ dnlink \in [Inum -> Int]
      /\ LinkInv /\ TreeInv /\ UseOf(p)
  BY Before DEF NInv, UseInv
<1>1. pc[p] = "unlink" /\ Ilock(ip[p]) /\ PutW(p, "drop")
  BY DEF UnlinkEntry
<1>2. /\ dtype' = dtype /\ dotdot' = dotdot /\ stray' = stray /\ req' = req /\ path' = path
      /\ ip' = ip /\ iph' = iph /\ cwd' = cwd /\ files' = files
  BY DEF UnlinkEntry, history
<1>3. PICK s \in Slot, t \in Slot :
        /\ s = ip[p] /\ t = w[p] /\ icache[s].ref > 0 /\ icache[s].inum \in Inum
        /\ icache[t].ref > 0 /\ icache[t].inum \in Inum /\ icache[t].inum # icache[s].inum
        /\ t # s /\ lock[t] = p /\ lock[s] = None /\ puts[p] = << >> /\ iph[p] = "no"
  BY <1>0, <1>1, BothAt
<1>4. PICK d \in Inum, i \in Inum : d = I(t) /\ i = I(s)
  BY <1>3 DEF I
<1>5. /\ icache[t].nlink = dnlink[d] /\ dtype[d] = "dir" /\ t \in Wanted(p) /\ s \in Wanted(p)
  BY <1>1, <1>3, <1>4, DirExact
<1>6. PICK n \in Name : n = Head(path[p]) /\ dent[d][n] = i
  BY <1>0, <1>1, <1>3, <1>4 DEF UseOf
<1>7. PICK c : c = [icache EXCEPT ![s] = ilocked(s)]
  OBVIOUS
<1>8. /\ Known(icache, c, s) /\ c[s] = ilocked(s) /\ Agrees(c[s], dtype, dnlink)
  BY <1>0, <1>1, <1>3, <1>7, ReadStep
<1>9. ilocked(s).type = dtype[i] /\ ilocked(s).inum = i
  BY <1>3, <1>4, <1>8 DEF Known, Agrees, I
<1>10. PICK k : /\ k = icache[t].nlink - dotdot_links(ilocked(s).type)
                /\ icache' = [icache EXCEPT ![s] = ilocked(s), ![t].nlink = k]
                /\ dnlink' = [dnlink EXCEPT ![icache[t].inum] = k]
                /\ dent' = [dent EXCEPT ![icache[t].inum][Head(path[p])] = 0]
                /\ ilocked(s).type = "dir" => isdirempty(ilocked(s).inum)
  BY <1>3 DEF UnlinkEntry
<1>11. dirlink(d, n, 0) /\ dnlink' = [dnlink EXCEPT ![d] = k]
  BY <1>4, <1>6, <1>10 DEF dirlink, I
<1>12. k = dnlink[d] - IsDir(i) /\ k \in Int /\ dnlink[d] \in Int
  <2>1. dotdot_links(ilocked(s).type) = IsDir(i)
    BY <1>4, <1>9, Bounds DEF dotdot_links, IsDir
  <2> QED BY <1>0, <1>5, <1>10, <2>1 DEF IsDir
<1>13. dtype[i] = "dir" => dent[i] = NoEntries
  BY <1>9, <1>10 DEF isdirempty
<1>14. i # d
  BY <1>3, <1>4 DEF I
<1>15. TreeInv'
  <2>1. \A j \in Inum : dtype[j] = "free" => dnlink'[j] = dnlink[j]
    BY <1>0, <1>5, <1>11
  <2> QED BY <1>0, <1>2, <1>5, <1>6, <1>11, <1>13, <1>14, <2>1, TreeDel
<1>16. Goes(p, "drop", req[p], path[p], None, s, <<t>>, "no", cwd[p], files[p])
  BY <1>0, <1>1, <1>2, <1>3, Stays, Zenon DEF Goes, PutW
<1>17. Tame(p)
  <2>1. ASSUME NEW x \in Slot
        PROVE  /\ icache'[x].ref = icache[x].ref /\ icache'[x].inum = icache[x].inum
               /\ lock[x] \notin {None, p} => icache'[x].nlink = icache[x].nlink
    <3>1. CASE x = s
      <4>1. icache'[x] = ilocked(s)
        BY <1>0, <1>3, <1>10, <3>1
      <4> QED BY <1>3, <1>8, <3>1, <4>1 DEF Known
    <3>2. CASE x = t
      <4>1. icache'[x] = [icache[t] EXCEPT !.nlink = k]
        BY <1>0, <1>3, <1>10, <3>2
      <4> QED BY <1>0, <1>3, <3>2, <4>1 DEF Entry
    <3>3. CASE x # s /\ x # t
      BY <1>0, <1>10, <3>3
    <3> QED BY <3>1, <3>2, <3>3
  <2> QED BY <2>1 DEF Tame
<1>18. pc'[p] = "drop" /\ ip'[p] = s /\ \A o \in Process \ {p} : Same(o)
  BY <1>0, <1>16, Went
<1>19. OthersSame(p) /\ InumsKept
  BY <1>17, <1>18 DEF OthersSame, InumsKept, Tame
<1>20. Touches(p)
  <2>1. dent' = [dent EXCEPT ![d][n] = 0] /\ dent \in [Inum -> [Name -> Inum \cup {0}]]
    BY <1>0, <1>11 DEF dirlink, TypeOK
  <2>2. \A j \in Inum : j # d => dent'[j] = dent[j] /\ dnlink'[j] = dnlink[j]
    BY <1>0, <1>11, <2>1
  <2> QED BY <1>2, <1>3, <1>4, <1>5, <2>2 DEF Touches
<1>21. Owed(p) = 0 /\ Owed(p)' = i
  <2>1. Owed(p) = 0
    BY <1>1 DEF Owed, Owes
  <2>2. icache'[s].inum = i
    BY <1>3, <1>4, <1>19 DEF InumsKept, I
  <2>3. Owed(p)' = i
    BY <1>18, <2>2, Bounds DEF Owed, Owes, I
  <2> QED BY <2>1, <2>3
<1>22. Counted(d, i, 0, 0, i)
  <2>1. ASSUME NEW j \in Inum
        PROVE  dnlink'[j] = dnlink[j] + Hit(0, j) - Hit(i, j) + Hit(i, j) - Hit(0, j)
                   + (IF j = d THEN IsDir(0) - IsDir(i) ELSE 0)
    <3>1. IsDir(0) = 0 /\ IsDir(i) \in {0, 1} /\ Hit(0, j) \in {0, 1} /\ Hit(i, j) \in {0, 1}
      BY DEF IsDir, Hit
    <3>2. dnlink[j] \in Int /\ dnlink'[j] = IF j = d THEN k ELSE dnlink[j]
      BY <1>0, <1>11
    <3> QED BY <1>12, <3>1, <3>2
  <2> QED BY <2>1 DEF Counted
<1>23. LinkInv'
  BY <1>0, <1>2, <1>6, <1>11, <1>19, <1>21, <1>22, ChangeLinks
<1> QED BY <1>5, <1>15, <1>16, <1>17, <1>20, <1>23, TameGoes

LEMMA Unnamed == \A j : Named(j) = 0 => j # ROOTINO /\ Entries(j) = {}
  BY LinkParts

LEMMA UnnamedNext == \A j : Named(j)' = 0 => Entries(j)' = {}
<1>1. (\A j : Named(j) = 0 => j # ROOTINO /\ Entries(j) = {})'
  BY Unnamed, PTL
<1> QED BY <1>1

\* An inode is entered in a directory.
LEMMA TreeAdd ==
  ASSUME TypeOK, TreeInv, NEW d \in Inum, NEW n \in Name, NEW i \in Inum, dent[d][n] = 0,
         dirlink(d, n, i), i # d, i # ROOTINO, dtype[d] = "dir", dtype[i] # "free",
         dtype[i] = "dir" => Entries(i) = {} /\ dotdot'[i] = d,
         dtype[i] # "dir" => dotdot'[i] = dotdot[i],
         \A j \in Inum : j # i => dotdot'[j] = dotdot[j], Strays(d, i), dtype' = dtype,
         \A j \in Inum : dtype[j] = "free" => dnlink'[j] = dnlink[j]
  PROVE  TreeInv'
<1>0. dent \in [Inum -> [Name -> Inum \cup {0}]] /\ dent' = [dent EXCEPT ![d][n] = i]
  BY DEF TypeOK, dirlink
<1>1. /\ \A j \in Inum : j # d => dent'[j] = dent[j]
      /\ \A m \in Name : m # n => dent'[d][m] = dent[d][m]
      /\ dent'[d][n] = i
  BY <1>0
<1>2. ASSUME NEW j \in Inum
      PROVE  /\ Entries(j) \subseteq Entries(j)'
             /\ \A x \in Entries(j)' : x \in Entries(j) \/ (j = i /\ x[1] = d /\ x[2] = n)
  <2>1. ASSUME NEW x \in Inum \X Name
        PROVE  /\ dent[x[1]][x[2]] = j => dent'[x[1]][x[2]] = j
               /\ dent'[x[1]][x[2]] = j =>
                    dent[x[1]][x[2]] = j \/ (j = i /\ x[1] = d /\ x[2] = n)
    <3>1. x[1] \in Inum /\ x[2] \in Name /\ j # 0
      BY Bounds
    <3> QED BY <1>1, <3>1
  <2> QED BY <2>1 DEF Entries
<1>3. ASSUME NEW j \in Inum, j # i PROVE Entries(j)' = Entries(j)
  BY <1>2, <1>3
<1>4. stray \subseteq stray' /\ (Named(d) = 0 => i \in stray')
  BY DEF Strays
<1>5. <<d, n>> \in Entries(i)'
  BY <1>1 DEF Entries
<1>6. ASSUME NEW j \in Inum PROVE TreeOf(j)'
  <2>0. TreeOf(j)
    BY DEF TreeInv
  <2>1. Entries(j)' # {} => dtype'[j] # "free"
    BY <1>3, <2>0 DEF TreeOf
  <2>2. dtype'[j] # "dir" => dent'[j] = NoEntries /\ dotdot'[j] = 0
    BY <1>1, <2>0 DEF TreeOf
  <2>3. dtype'[j] = "free" => dnlink'[j] = 0
    BY <2>0 DEF TreeOf
  <2>4. dtype'[j] = "dir" => \A x, y \in Entries(j)' : x = y
    <3>1. CASE j = i
      <4>1. ASSUME dtype[i] = "dir", NEW x \in Entries(i)' PROVE x = <<d, n>>
        <5>1. x[1] = d /\ x[2] = n
          BY <1>2, <4>1
        <5>2. x \in Inum \X Name
          BY <4>1 DEF Entries
        <5> QED BY <5>1, <5>2
      <4> QED BY <3>1, <4>1
    <3>2. CASE j # i
      BY <1>3, <2>0, <3>2 DEF TreeOf
    <3> QED BY <3>1, <3>2
  <2>5. dtype'[j] = "dir" => \A x \in Entries(j)' : x[1] = dotdot'[j] /\ x[1] # j
    <3>1. CASE j = i
      BY <1>2, <3>1
    <3>2. CASE j # i
      BY <1>3, <2>0, <3>2 DEF TreeOf
    <3> QED BY <3>1, <3>2
  <2>6. ASSUME Named(j)' = 0, NEW m \in Name, dent'[j][m] # 0
        PROVE  dent'[j][m] \in stray'
    <3>1. Entries(j)' = {}
      BY <2>6, UnnamedNext
    <3>2. j # i
      BY <1>5, <3>1
    <3>3. Named(j) = 0
      <4>1. Entries(j)' = Entries(j)
        BY <1>3, <3>2
      <4> QED BY <2>6, <4>1 DEF Named
    <3>4. CASE j = d /\ m = n
      BY <1>1, <1>4, <3>3, <3>4
    <3>5. CASE ~(j = d /\ m = n)
      <4>1. dent'[j][m] = dent[j][m]
        BY <1>1, <3>5
      <4> QED BY <1>4, <2>0, <2>6, <3>3, <4>1 DEF TreeOf
    <3> QED BY <3>4, <3>5
  <2> QED BY <2>1, <2>2, <2>3, <2>4, <2>5, <2>6, Zenon DEF TreeOf, NoEntries
<1>7. dtype'[ROOTINO] = "dir" /\ dotdot'[ROOTINO] = ROOTINO /\ Entries(ROOTINO)' = {}
  BY <1>3, Bounds DEF TreeInv
<1> QED BY <1>6, <1>7 DEF TreeInv

\* An inode that has no links is not the root, and has no name.
LEMMA NoLinks ==
  ASSUME NInv, NEW i \in Inum, dnlink[i] = 0
  PROVE  /\ i # ROOTINO /\ Named(i) = 0 /\ Entries(i) = {}
         /\ Subdirs(i) = {} /\ Pending(i) = {}
<1>0. LinkInv
  BY DEF NInv
<1>1. /\ 0 >= Links(i) /\ Named(i) \in Nat /\ Cardinality(Subdirs(i)) \in Nat
      /\ Cardinality(Pending(i)) \in Nat
      /\ Links(i) = Named(i) + Cardinality(Subdirs(i)) + Cardinality(Pending(i))
      /\ Named(i) = 0 <=> i # ROOTINO /\ Entries(i) = {}
  BY <1>0, LinkParts DEF LinkInv
<1>2. Named(i) = 0 /\ Cardinality(Subdirs(i)) = 0 /\ Cardinality(Pending(i)) = 0
  BY <1>1
<1>3. Subdirs(i) = {} /\ Pending(i) = {}
  BY <1>2, FiniteAll, FS_EmptySet
<1> QED BY <1>1, <1>2, <1>3

\* A last name that is not found is that of a new entry.
LEMMA NewName ==
  ASSUME NInv, DotDotNamed, NEW p \in Process, pc[p] = "at",
         req[p].op \in ParentOps \/ ip[p] # None, NEW d, d = I(w[p]),
         dirlookup(d, Head(path[p])) = 0
  PROVE  /\ Head(path[p]) \in Name /\ dent[d][Head(path[p])] = 0 /\ dtype[d] = "dir"
         /\ d \in Inum /\ w[p] \in Wanted(p)
<1>0. PInv /\ TypeOK /\ TreeInv /\ UseOf(p)
  BY DEF NInv, PInv, UseInv
<1>1. w[p] \in Slot /\ d \in Inum
  BY <1>0, WalkAt DEF I
<1>2. dtype[d] = "dir"
  BY <1>0 DEF UseOf, wants_parent, ParentOps
<1>3. PICK n : n = Head(path[p])
  OBVIOUS
<1>4. Len(path[p]) = 1 /\ n \in Name \cup {".", ".."}
  <2>1. PICK i : i = dirlookup(icache[w[p]].inum, Head(path[p]))
    OBVIOUS
  <2>2. req[p].op \in {"creat", "mkdir", "mknod", "unlink"} \/ ip[p] # None
    BY DEF ParentOps
  <2> QED BY <1>0, <1>3, <2>1, <2>2, AtName
<1>5. path[p] # << >>
  BY <1>4
<1>6. n # "."
  BY <1>1, <1>3, Bounds DEF dirlookup
<1>7. n # ".."
  <2> SUFFICES ASSUME n = ".." PROVE FALSE
    OBVIOUS
  <2>1. dotdot[d] = 0
    BY <1>3 DEF dirlookup
  <2>2. Named(d) > 0
    BY <1>3, <1>5 DEF DotDotNamed, I
  <2>3. d # ROOTINO
    BY <1>0, <2>1, Bounds DEF TreeInv
  <2>4. Named(d) # 0
    BY <2>2, LinkParts
  <2>5. PICK x : x \in Entries(d)
    BY <2>3, <2>4, LinkParts
  <2>6. x[1] = dotdot[d]
    BY <1>0, <1>1, <1>2, <2>5 DEF TreeInv, TreeOf
  <2>7. x[1] \in Inum
    BY <2>5 DEF Entries
  <2> QED BY <2>1, <2>6, <2>7, Bounds
<1>8. n \in Name /\ dent[d][n] = 0
  BY <1>3, <1>4, <1>6, <1>7 DEF dirlookup
<1>9. w[p] \in Wanted(p)
  BY <1>1, Bounds DEF Wanted
<1> QED BY <1>1, <1>2, <1>3, <1>8, <1>9

LEMMA NLinkEntry ==
  ASSUME NInv, DotDotNamed, PInv', NEW p \in Process, LinkEntry(p)
  PROVE  NInv'
<1>0. /\ PInv /\ TypeOK /\ Was(p) /\ dnlink \in [Inum -> Int]
      /\ LinkInv /\ TreeInv /\ UseOf(p)
  BY Before DEF NInv, UseInv
<1>1. /\ At(p, {"link"}) /\ ip[p] # None /\ Ilock(w[p])
      /\ icache' = [icache EXCEPT ![w[p]] = ilocked(w[p])]
      /\ dirlookup(icache[w[p]].inum, Head(path[p])) = 0
      /\ dirlink(icache[w[p]].inum, Head(path[p]), icache[ip[p]].inum)
      /\ puts' = [puts EXCEPT ![p] = <<w[p], ip[p]>>]
      /\ w' = [w EXCEPT ![p] = None] /\ ip' = [ip EXCEPT ![p] = None]
      /\ pc' = [pc EXCEPT ![p] = "end"]
      /\ Strays(icache[w[p]].inum, icache[ip[p]].inum)
  BY DEF LinkEntry
<1>2. /\ pc[p] = "at" /\ puts[p] = << >> /\ iph[p] = "no"
      /\ w[p] \in Slot /\ icache[w[p]].ref > 0 /\ icache[w[p]].inum \in Inum
  BY <1>0, <1>1, AtPoint
<1>3. ip[p] \in Slot /\ icache[ip[p]].inum \in Inum /\ ip[p] \in Wanted(p)
  BY <1>0, <1>1, IpAt DEF Wanted
<1>4. PICK d \in Inum, i \in Inum : d = I(w[p]) /\ i = I(ip[p])
  BY <1>2, <1>3 DEF I
<1>5. /\ dtype' = dtype /\ dnlink' = dnlink /\ dotdot' = dotdot
      /\ req' = req /\ path' = path /\ iph' = iph /\ cwd' = cwd /\ files' = files
  BY DEF LinkEntry
<1>6. dirlookup(d, Head(path[p])) = 0
  BY <1>1, <1>4 DEF I
<1>7. PICK n \in Name : /\ n = Head(path[p]) /\ dent[d][n] = 0 /\ dtype[d] = "dir"
                        /\ w[p] \in Wanted(p)
  BY <1>1, <1>2, <1>4, <1>6, NewName
<1>8. dirlink(d, n, i) /\ Strays(d, i)
  BY <1>1, <1>4, <1>7 DEF I
<1>9. Owes(p)
  BY <1>1, <1>2 DEF Owes
<1>10. dtype[i] # "dir" /\ dtype[i] # "free"
  BY <1>0, <1>2, <1>3, <1>4, <1>9 DEF UseOf
<1>11. i # d /\ i # ROOTINO
  BY <1>0, <1>7, <1>10 DEF TreeInv
<1>12. TreeInv'
  BY <1>0, <1>5, <1>7, <1>8, <1>10, <1>11, TreeAdd
<1>13. Goes(p, "end", req[p], path[p], None, None, <<w[p], ip[p]>>, "no", cwd[p], files[p])
  BY <1>0, <1>1, <1>2, <1>5, Stays, Zenon DEF Goes
<1>14. Calm(icache')
  BY <1>0, <1>1, <1>2, ReadCalm
<1>15. Tame(p)
  BY <1>14 DEF Calm, Tame
<1>16. pc'[p] = "end" /\ \A o \in Process \ {p} : Same(o)
  BY <1>0, <1>13, Went
<1>17. OthersSame(p) /\ InumsKept
  BY <1>15, <1>16 DEF OthersSame, InumsKept, Tame
<1>18. Touches(p)
  <2>1. dent' = [dent EXCEPT ![d][n] = i] /\ dent \in [Inum -> [Name -> Inum \cup {0}]]
    BY <1>0, <1>8 DEF dirlink, TypeOK
  <2>2. \A j \in Inum : j # d => dent'[j] = dent[j]
    BY <2>1
  <2>3. lock[w[p]] = None
    BY <1>1 DEF Ilock, Free
  <2> QED BY <1>4, <1>5, <1>7, <2>2, <2>3 DEF Touches
<1>19. Owed(p) = i /\ Owed(p)' = 0
  BY <1>4, <1>9, <1>16 DEF Owed, Owes
<1>20. Counted(d, 0, i, i, 0)
  <2>1. ASSUME NEW j \in Inum
        PROVE  dnlink'[j] = dnlink[j] + Hit(i, j) - Hit(0, j) + Hit(0, j) - Hit(i, j)
                   + (IF j = d THEN IsDir(i) - IsDir(0) ELSE 0)
    <3>1. IsDir(0) = 0 /\ IsDir(i) = 0 /\ Hit(0, j) \in {0, 1} /\ Hit(i, j) \in {0, 1}
      BY <1>10 DEF IsDir, Hit
    <3>2. dnlink[j] \in Int /\ dnlink'[j] = dnlink[j]
      BY <1>0, <1>5
    <3> QED BY <3>1, <3>2
  <2> QED BY <2>1 DEF Counted
<1>21. stray \subseteq stray'
  BY <1>8 DEF Strays
<1>22. LinkInv'
  <2>1. dent[d][n] = 0
    BY <1>7
  <2> QED BY <1>0, <1>5, <1>8, <1>17, <1>19, <1>20, <1>21, <2>1, ChangeLinks
<1> QED BY <1>12, <1>13, <1>15, <1>18, <1>22, TameGoes

LEMMA NCreateInit ==
  ASSUME NInv, PInv', NEW p \in Process, CreateInit(p)
  PROVE  NInv'
<1>0. /\ PInv /\ TypeOK /\ Was(p) /\ icache \in [Slot -> Entry]
      /\ dtype \in [Inum -> Types] /\ dnlink \in [Inum -> Int]
      /\ dotdot \in [Inum -> Inum \cup {0}]
      /\ LinkInv /\ TreeInv /\ UseOf(p)
  BY Before DEF NInv, UseInv, TypeOK
<1>1. pc[p] = "init" /\ Ilock(ip[p]) /\ PutW(p, "created")
  BY DEF CreateInit
<1>2. /\ dtype' = dtype /\ req' = req /\ path' = path
      /\ ip' = ip /\ iph' = iph /\ cwd' = cwd /\ files' = files
  BY DEF CreateInit
<1>3. PICK s \in Slot, t \in Slot :
        /\ s = ip[p] /\ t = w[p] /\ icache[s].ref > 0 /\ icache[s].inum \in Inum
        /\ icache[t].ref > 0 /\ icache[t].inum \in Inum /\ icache[t].inum # icache[s].inum
        /\ t # s /\ lock[t] = p /\ lock[s] = None /\ puts[p] = << >> /\ iph[p] = "no"
  BY <1>0, <1>1, BothAt
<1>4. PICK d \in Inum, i \in Inum : d = I(t) /\ i = I(s)
  BY <1>3 DEF I
<1>5. /\ icache[t].nlink = dnlink[d] /\ dtype[d] = "dir" /\ t \in Wanted(p) /\ s \in Wanted(p)
  BY <1>1, <1>3, <1>4, DirExact
<1>6. PICK n \in Name : n = Head(path[p]) /\ dent[d][n] = 0
  BY <1>0, <1>1, <1>3, <1>4 DEF UseOf
<1>7. /\ req[p].op \in ParentOps /\ dtype[i] = new_type(p) /\ dnlink[i] = 0
  BY <1>0, <1>1, <1>3, <1>4 DEF UseOf
<1>8. PICK k : /\ k = icache[t].nlink + (IF req[p].op = "mkdir" THEN 1 ELSE 0)
               /\ icache' = [icache EXCEPT ![s] = [ilocked(s) EXCEPT !.nlink = 1], ![t].nlink = k]
               /\ dnlink' = [dnlink EXCEPT ![ilocked(s).inum] = 1, ![icache[t].inum] = k]
               /\ dirlink(icache[t].inum, Head(path[p]), ilocked(s).inum)
               /\ dotdot' = IF req[p].op = "mkdir"
                      THEN [dotdot EXCEPT ![ilocked(s).inum] = icache[t].inum] ELSE dotdot
               /\ Strays(icache[t].inum, ilocked(s).inum)
  BY <1>3 DEF CreateInit
<1>9. PICK g : g = Relinked(s, 1)
  OBVIOUS
<1>10. /\ g \in [Slot -> Entry] /\ Known(icache, g, s) /\ ilocked(s).inum = icache[s].inum
       /\ dtype[icache[s].inum] # "free"
  <2>1. Ilock(s) /\ 1 \in Int
    BY <1>1, <1>3
  <2> QED BY <1>0, <1>3, <1>9, <2>1, ReadSet
<1>11. /\ dirlink(d, n, i) /\ Strays(d, i) /\ dnlink' = [dnlink EXCEPT ![i] = 1, ![d] = k]
       /\ dotdot' = IF req[p].op = "mkdir" THEN [dotdot EXCEPT ![i] = d] ELSE dotdot
  BY <1>3, <1>4, <1>6, <1>8, <1>10 DEF I
<1>12. dtype[i] # "free" /\ (dtype[i] = "dir" <=> req[p].op = "mkdir")
  BY <1>4, <1>7, <1>10 DEF new_type, ParentOps, I
<1>13. k = dnlink[d] + IsDir(i) /\ k \in Int /\ dnlink[d] \in Int
  <2>1. IsDir(i) = IF req[p].op = "mkdir" THEN 1 ELSE 0
    BY <1>12, Bounds DEF IsDir
  <2> QED BY <1>0, <1>5, <1>8, <2>1
<1>14. i # d
  BY <1>3, <1>4 DEF I
<1>15. i # ROOTINO /\ Entries(i) = {}
  BY <1>7, NoLinks
<1>16. TreeInv'
  <2>1. \A j \in Inum : dtype[j] = "free" => dnlink'[j] = dnlink[j]
    BY <1>0, <1>5, <1>11, <1>12
  <2>2. /\ dtype[i] = "dir" => dotdot'[i] = d
        /\ dtype[i] # "dir" => dotdot'[i] = dotdot[i]
        /\ \A j \in Inum : j # i => dotdot'[j] = dotdot[j]
    BY <1>0, <1>11, <1>12
  <2> QED BY <1>0, <1>2, <1>5, <1>6, <1>11, <1>12, <1>14, <1>15, <2>1, <2>2, TreeAdd
<1>17. Goes(p, "created", req[p], path[p], None, s, <<t>>, "no", cwd[p], files[p])
  BY <1>0, <1>1, <1>2, <1>3, Stays, Zenon DEF Goes, PutW
<1>18. Tame(p)
  <2>1. ASSUME NEW x \in Slot
        PROVE  /\ icache'[x].ref = icache[x].ref /\ icache'[x].inum = icache[x].inum
               /\ lock[x] \notin {None, p} => icache'[x].nlink = icache[x].nlink
    <3>0. g[x].ref = icache[x].ref /\ g[x].inum = icache[x].inum
      BY <1>10 DEF Known
    <3>1. CASE x = s
      <4>1. icache'[x] = g[x]
        BY <1>0, <1>3, <1>8, <1>9, <3>1 DEF Relinked
      <4> QED BY <1>3, <3>0, <3>1, <4>1
    <3>2. CASE x = t
      <4>1. icache'[x] = [icache[t] EXCEPT !.nlink = k]
        BY <1>0, <1>3, <1>8, <3>2
      <4> QED BY <1>0, <1>3, <3>2, <4>1 DEF Entry
    <3>3. CASE x # s /\ x # t
      BY <1>0, <1>8, <3>3
    <3> QED BY <3>1, <3>2, <3>3
  <2> QED BY <2>1 DEF Tame
<1>19. pc'[p] = "created" /\ ip'[p] = s /\ \A o \in Process \ {p} : Same(o)
  BY <1>0, <1>17, Went
<1>20. OthersSame(p) /\ InumsKept
  BY <1>18, <1>19 DEF OthersSame, InumsKept, Tame
<1>21. Touches(p)
  <2>1. dent' = [dent EXCEPT ![d][n] = i] /\ dent \in [Inum -> [Name -> Inum \cup {0}]]
    BY <1>0, <1>11 DEF dirlink, TypeOK
  <2>2. \A j \in Inum : j # d => dent'[j] = dent[j]
    BY <2>1
  <2>3. \A j \in Inum : j # d /\ j # i => dotdot'[j] = dotdot[j] /\ dnlink'[j] = dnlink[j]
    BY <1>0, <1>11
  <2> QED BY <1>2, <1>3, <1>4, <1>5, <2>2, <2>3 DEF Touches
<1>22. Owed(p) = 0 /\ Owed(p)' = 0
  BY <1>1, <1>19 DEF Owed, Owes
<1>23. Counted(d, 0, i, 0, 0)
  <2>1. ASSUME NEW j \in Inum
        PROVE  dnlink'[j] = dnlink[j] + Hit(i, j) - Hit(0, j) + Hit(0, j) - Hit(0, j)
                   + (IF j = d THEN IsDir(i) - IsDir(0) ELSE 0)
    <3>1. IsDir(0) = 0 /\ IsDir(i) \in {0, 1} /\ Hit(0, j) = 0
          /\ Hit(i, j) = IF j = i THEN 1 ELSE 0
      BY Bounds DEF IsDir, Hit
    <3>2. dnlink[j] \in Int
          /\ dnlink'[j] = IF j = d THEN k ELSE IF j = i THEN 1 ELSE dnlink[j]
      BY <1>0, <1>11, <1>14
    <3>3. CASE j = d
      BY <1>13, <1>14, <3>1, <3>2, <3>3
    <3>4. CASE j = i
      <4>1. dnlink'[j] = 1 /\ dnlink[j] = 0 /\ Hit(i, j) = 1 /\ Hit(0, j) = 0 /\ j # d
        BY <1>7, <1>14, <3>1, <3>2, <3>4
      <4> QED BY <4>1
    <3>5. CASE j # d /\ j # i
      BY <3>1, <3>2, <3>5
    <3> QED BY <3>3, <3>4, <3>5
  <2> QED BY <2>1 DEF Counted
<1>24. stray \subseteq stray'
  BY <1>11 DEF Strays
<1>25. LinkInv'
  <2>1. dent[d][n] = 0
    BY <1>6
  <2> QED BY <1>0, <1>2, <1>11, <1>20, <1>22, <1>23, <1>24, <2>1, ChangeLinks
<1> QED BY <1>5, <1>16, <1>17, <1>18, <1>21, <1>25, TameGoes

-----------------------------------------------------------------------------
(* iput frees an inode *)

\* The inode i, which has no name, loses its type, its entries and "..".
Frees(i) ==
  /\ dtype' = [dtype EXCEPT ![i] = "free"] /\ dnlink' = dnlink
  /\ dent' = [dent EXCEPT ![i] = NoEntries] /\ dotdot' = [dotdot EXCEPT ![i] = 0]
  /\ stray' = stray

LEMMA FreedEntries ==
  ASSUME NInv, NEW i \in Inum, dnlink[i] = 0, Frees(i), NEW j \in Inum
  PROVE  /\ Entries(j)' \subseteq Entries(j)
         /\ j \notin stray \/ dtype[j] = "dir" => Entries(j)' = Entries(j)
         /\ Subdirs(j)' = Subdirs(j)
<1>0. /\ TypeOK /\ TreeOf(i) /\ dent \in [Inum -> [Name -> Inum \cup {0}]]
      /\ dtype \in [Inum -> Types] /\ j # 0
  BY Bounds DEF NInv, PInv, TypeOK, TreeInv
<1>1. Named(i) = 0 /\ Entries(i) = {} /\ Subdirs(i) = {}
  BY NoLinks
<1>2. /\ \A m \in Inum : m # i => dent'[m] = dent[m] /\ dtype'[m] = dtype[m]
      /\ dent'[i] = NoEntries
  BY <1>0 DEF Frees
<1>3. Entries(j)' \subseteq Entries(j)
  <2> SUFFICES ASSUME NEW x \in Inum \X Name, dent'[x[1]][x[2]] = j
               PROVE  dent[x[1]][x[2]] = j
    BY DEF Entries
  <2>1. x[1] \in Inum /\ x[2] \in Name
    OBVIOUS
  <2> QED BY <1>0, <1>2, <2>1 DEF NoEntries
<1>4. ASSUME j \notin stray \/ dtype[j] = "dir" PROVE Entries(j)' = Entries(j)
  <2> SUFFICES ASSUME NEW x \in Inum \X Name, dent[x[1]][x[2]] = j
               PROVE  dent'[x[1]][x[2]] = j
    BY <1>3 DEF Entries
  <2>1. x[1] \in Inum /\ x[2] \in Name
    OBVIOUS
  <2>2. x[1] # i
    <3> SUFFICES ASSUME x[1] = i PROVE FALSE
      OBVIOUS
    <3>1. dent[i][x[2]] = j
      OBVIOUS
    <3>2. j \in stray
      BY <1>0, <1>1, <2>1, <3>1 DEF TreeOf
    <3>3. dtype[j] # "dir"
      BY <1>0, <1>1, <2>1, <3>1 DEF Subdirs
    <3> QED BY <1>4, <3>2, <3>3
  <2> QED BY <1>2, <2>1, <2>2
<1>5. Subdirs(j)' = Subdirs(j)
  <2>1. CASE j = i
    <3>1. Subdirs(i)' = {}
      BY <1>2 DEF Subdirs, NoEntries
    <3> QED BY <1>1, <2>1, <3>1
  <2>2. CASE j # i
    <3>1. ASSUME NEW n \in Name, dent[j][n] # 0
          PROVE  dent'[j][n] = dent[j][n] /\ dtype'[dent[j][n]] = dtype[dent[j][n]]
      <4>1. dent[j][n] \in Inum
        BY <1>0, <3>1
      <4>2. <<j, n>> \in Entries(dent[j][n])
        BY DEF Entries
      <4>3. dent[j][n] # i
        BY <1>1, <4>2
      <4> QED BY <1>2, <2>2, <4>1, <4>3
    <3>2. dent'[j] = dent[j]
      BY <1>2, <2>2
    <3> QED BY <3>1, <3>2 DEF Subdirs
  <2> QED BY <2>1, <2>2
<1> QED BY <1>3, <1>4, <1>5

LEMMA FewerLinks ==
  ASSUME NEW k \in Int, NEW n \in Nat, NEW m \in Nat, NEW s \in Nat, NEW o \in Nat, m <= n
  PROVE  k >= n + s + o => k >= m + s + o
  OBVIOUS

LEMMA FreeLinks ==
  ASSUME NInv, NEW i \in Inum, dnlink[i] = 0, Frees(i),
         \A j \in Inum : Pending(j)' = Pending(j)
  PROVE  LinkInv'
<1>0. LinkInv /\ dnlink \in [Inum -> Int]
  BY DEF NInv, PInv, TypeOK
<1> SUFFICES ASSUME NEW j \in Inum
             PROVE  dnlink'[j] >= Links(j)' /\ (j \notin stray' => dnlink'[j] = Links(j)')
  BY DEF LinkInv
<1>1. /\ Entries(j)' \subseteq Entries(j) /\ Subdirs(j)' = Subdirs(j)
      /\ j \notin stray => Entries(j)' = Entries(j)
  BY FreedEntries
<1>2. Pending(j)' = Pending(j) /\ dnlink' = dnlink /\ stray' = stray
  BY DEF Frees
<1>3. /\ dnlink[j] >= Links(j) /\ (j \notin stray => dnlink[j] = Links(j)) /\ dnlink[j] \in Int
  BY <1>0 DEF LinkInv
<1>4. /\ Named(j) \in Nat /\ Cardinality(Subdirs(j)) \in Nat /\ Cardinality(Pending(j)) \in Nat
      /\ Links(j) = Named(j) + Cardinality(Subdirs(j)) + Cardinality(Pending(j))
      /\ Links(j)' = Named(j)' + Cardinality(Subdirs(j)) + Cardinality(Pending(j))
  BY <1>1, <1>2, LinkParts DEF Links
<1>5. j \notin stray => Named(j)' = Named(j)
  BY <1>1 DEF Named
<1>6. Named(j)' \in Nat /\ Named(j)' <= Named(j)
  <2>1. PICK E, F : E = Entries(j) /\ F = Entries(j)'
    OBVIOUS
  <2>2. IsFiniteSet(E) /\ F \subseteq E
    BY <1>1, <2>1, FiniteAll
  <2>3. IsFiniteSet(F) /\ Cardinality(F) <= Cardinality(E)
    BY <2>2, FS_Subset
  <2>4. Cardinality(F) \in Nat /\ Cardinality(E) \in Nat
    BY <2>2, <2>3, FS_CardinalityType
  <2>5. Named(j) = Cardinality(E) + Hit(j, ROOTINO) /\ Named(j)' = Cardinality(F) + Hit(j, ROOTINO)
    BY <2>1 DEF Named, Hit
  <2>6. Hit(j, ROOTINO) \in {0, 1}
    BY DEF Hit
  <2> QED BY <2>3, <2>4, <2>5, <2>6
<1>7. dnlink[j] >= Links(j)'
  BY <1>3, <1>4, <1>6, FewerLinks
<1>8. j \notin stray => dnlink[j] = Links(j)'
  BY <1>3, <1>4, <1>5
<1> QED BY <1>2, <1>7, <1>8

LEMMA FreeTree ==
  ASSUME NInv, NEW i \in Inum, dnlink[i] = 0, Frees(i)
  PROVE  TreeInv'
<1>0. /\ TreeInv /\ dent \in [Inum -> [Name -> Inum \cup {0}]] /\ dtype \in [Inum -> Types]
      /\ dotdot \in [Inum -> Inum \cup {0}]
  BY DEF NInv, PInv, TypeOK
<1>1. i # ROOTINO /\ Entries(i) = {}
  BY NoLinks
<1>2. /\ \A j \in Inum : j # i =>
           dent'[j] = dent[j] /\ dtype'[j] = dtype[j] /\ dotdot'[j] = dotdot[j]
      /\ dent'[i] = NoEntries /\ dtype'[i] = "free" /\ dotdot'[i] = 0
      /\ dnlink' = dnlink /\ stray' = stray
  BY <1>0 DEF Frees
<1>3. ASSUME NEW j \in Inum PROVE TreeOf(j)'
  <2>0. TreeOf(j)
    BY <1>0 DEF TreeInv
  <2>1. Entries(j)' \subseteq Entries(j) /\ (dtype[j] = "dir" => Entries(j)' = Entries(j))
    BY FreedEntries
  <2>2. Entries(j)' # {} => dtype'[j] # "free"
    BY <1>1, <1>2, <2>0, <2>1 DEF TreeOf
  <2>3. dtype'[j] # "dir" => dent'[j] = NoEntries /\ dotdot'[j] = 0
    BY <1>2, <2>0 DEF TreeOf
  <2>4. dtype'[j] = "free" => dnlink'[j] = 0
    BY <1>2, <2>0 DEF TreeOf
  <2>5. dtype'[j] = "dir" => \A x, y \in Entries(j)' : x = y
    BY <1>2, <2>0, <2>1 DEF TreeOf
  <2>6. dtype'[j] = "dir" => \A x \in Entries(j)' : x[1] = dotdot'[j] /\ x[1] # j
    BY <1>2, <2>0, <2>1 DEF TreeOf
  <2>7. ASSUME Named(j)' = 0, NEW m \in Name, dent'[j][m] # 0
        PROVE  dent'[j][m] \in stray'
    <3>1. j # i
      BY <1>2, <2>7 DEF NoEntries
    <3>2. dent'[j] = dent[j]
      BY <1>2, <3>1
    <3>3. dtype[j] = "dir"
      BY <2>0, <2>7, <3>2 DEF TreeOf, NoEntries
    <3>4. Named(j) = 0
      BY <2>1, <2>7, <3>3 DEF Named
    <3> QED BY <1>2, <2>0, <2>7, <3>2, <3>4 DEF TreeOf
  <2> QED BY <2>2, <2>3, <2>4, <2>5, <2>6, <2>7, Zenon DEF TreeOf, NoEntries
<1>4. dtype'[ROOTINO] = "dir" /\ dotdot'[ROOTINO] = ROOTINO /\ Entries(ROOTINO)' = {}
  BY <1>0, <1>1, <1>2, Bounds, FreedEntries DEF TreeInv
<1> QED BY <1>3, <1>4 DEF TreeInv

LEMMA NFree ==
  ASSUME NInv, PInv', NEW p \in Process, IputFree(p)
  PROVE  NInv'
<1>0. /\ PInv /\ TypeOK /\ Was(p) /\ UseInv /\ UseOf(p) /\ icache \in [Slot -> Entry]
      /\ dtype \in [Inum -> Types] /\ dnlink \in [Inum -> Int]
      /\ dent \in [Inum -> [Name -> Inum \cup {0}]] /\ dotdot \in [Inum -> Inum \cup {0}]
  BY Before DEF NInv, UseInv, TypeOK
<1>1. iph[p] = "free"
  BY DEF IputFree
<1>2. PICK s \in Slot : /\ s = Head(puts[p]) /\ I(s) \in Inum /\ puts[p] # << >>
                        /\ icache[s].ref = 1 /\ icache[s].nlink = 0 /\ dnlink[I(s)] = 0
                        /\ \A q \in Process : s \notin Wanted(q)
  BY <1>0, <1>1, FreeingAt
<1>3. PICK i \in Inum : i = I(s)
  BY <1>2
<1>4. /\ icache' = [icache EXCEPT ![s].type = "free"]
      /\ dtype' = [dtype EXCEPT ![icache'[s].inum] = icache'[s].type]
      /\ dnlink' = [dnlink EXCEPT ![icache'[s].inum] = icache'[s].nlink]
      /\ dent' = [dent EXCEPT ![icache[s].inum] = NoEntries]
      /\ dotdot' = [dotdot EXCEPT ![icache[s].inum] = 0]
      /\ iph' = [iph EXCEPT ![p] = "invalid"] /\ stray' = stray
  BY <1>2, Zenon DEF IputFree, iupdate, history
<1>5. Goes(p, pc[p], req[p], path[p], w[p], ip[p], puts[p], "invalid", cwd[p], files[p])
  BY <1>0, <1>4, Stays, Zenon DEF IputFree, Goes
<1>6. /\ \A t \in Slot : /\ icache'[t].ref = icache[t].ref /\ icache'[t].inum = icache[t].inum
                         /\ icache'[t].nlink = icache[t].nlink
      /\ icache'[s].type = "free"
  BY <1>0, <1>4 DEF Entry, Types
<1>7. Frees(i) /\ dnlink[i] = 0
  <2>1. /\ dtype' = [dtype EXCEPT ![i] = "free"] /\ dnlink' = [dnlink EXCEPT ![i] = 0]
        /\ dent' = [dent EXCEPT ![i] = NoEntries] /\ dotdot' = [dotdot EXCEPT ![i] = 0]
        /\ stray' = stray
    BY <1>2, <1>3, <1>4, <1>6 DEF I
  <2>2. dnlink' = dnlink
    BY <1>0, <1>2, <1>3, <2>1
  <2> QED BY <1>2, <1>3, <2>1, <2>2 DEF Frees
<1>8. /\ pc'[p] = pc[p] /\ req'[p] = req[p] /\ path'[p] = path[p] /\ w'[p] = w[p]
      /\ ip'[p] = ip[p] /\ iph'[p] = "invalid" /\ cwd'[p] = cwd[p]
      /\ files'[p] = files[p] /\ \A o \in Process \ {p} : Same(o)
  BY <1>0, <1>5, Went
<1>9. OthersSame(p) /\ InumsKept
  BY <1>6, <1>8 DEF OthersSame, InumsKept
<1>10. \A j \in Inum : Pending(j)' = Pending(j)
  <2> SUFFICES ASSUME NEW j \in Inum, NEW q \in Process
               PROVE  Owes(q)' /\ icache'[ip'[q]].inum = j <=> Owes(q) /\ icache[ip[q]].inum = j
    BY DEF Pending
  <2>1. pc'[q] = pc[q] /\ ip'[q] = ip[q]
    BY <1>8, <1>9 DEF OthersSame, Same
  <2>2. Owes(q)' <=> Owes(q)
    BY <2>1 DEF Owes
  <2>3. Owes(q) => ip[q] \in Slot
    BY <1>0, IpAt DEF Owes
  <2> QED BY <1>6, <2>1, <2>2, <2>3
<1>11. LinkInv' /\ TreeInv'
  BY <1>7, <1>10, FreeLinks, FreeTree
<1>12. ASSUME NEW q \in Process, NEW t \in Wanted(q)
       PROVE  I(t) # i /\ I(t) \in Inum /\ dtype'[I(t)] = dtype[I(t)]
  <2>1. t \in Slot /\ icache[t].ref > 0 /\ I(t) \in Inum
    BY <1>0, WantedAt
  <2>2. t # s
    BY <1>2
  <2>3. I(t) # i
    BY <1>0, <1>2, <1>3, <2>1, <2>2, SameI
  <2> QED BY <1>0, <1>7, <2>1, <2>3 DEF Frees
<1>13. Wanted(p)' = Wanted(p)
  BY <1>8 DEF Wanted
<1>14. ASSUME NEW q \in Process, q # p PROVE UseOf(q)'
  <2>0. UseOf(q) /\ Was(q)
    BY <1>0, Before DEF UseInv
  <2>1. \A t \in Wanted(q) : dtype'[I(t)] = dtype[I(t)]
    BY <1>12
  <2>2. ASSUME iph[q] = "free"
        PROVE  /\ icache'[Head(puts[q])].nlink = icache[Head(puts[q])].nlink
               /\ icache'[Head(puts[q])].ref <= icache[Head(puts[q])].ref
    <3>1. PICK h \in Slot : h = Head(puts[q]) /\ icache[h].ref = 1
      BY <1>0, <2>2, FreeingAt
    <3> QED BY <1>6, <3>1
  <2>3. ASSUME pc[q] = "init"
        PROVE  /\ dnlink'[I(ip[q])] = dnlink[I(ip[q])] /\ dent'[I(ip[q])] = dent[I(ip[q])]
               /\ dotdot'[I(ip[q])] = dotdot[I(ip[q])] /\ ip[q] \notin Wanted(p)'
    <3>1. ip[q] # None
      BY <2>0, <2>3 DEF Was, CallAt
    <3>2. ip[q] \in Wanted(q)
      BY <3>1 DEF Wanted
    <3>3. I(ip[q]) # i /\ I(ip[q]) \in Inum
      BY <1>12, <3>2
    <3>4. ip[q] \notin Wanted(p)
      BY <1>14, <2>0, <2>3 DEF UseOf
    <3> QED BY <1>0, <1>7, <1>13, <3>3, <3>4 DEF Frees
  <2>4. ASSUME pc[q] \in {"init", "unlink"} PROVE dent'[I(w[q])] = dent[I(w[q])]
    <3>1. w[q] # None
      BY <2>0, <2>4 DEF Was, CallAt
    <3>2. w[q] \in Wanted(q)
      BY <3>1 DEF Wanted
    <3>3. I(w[q]) # i /\ I(w[q]) \in Inum
      BY <1>12, <3>2
    <3> QED BY <1>0, <1>7, <3>3 DEF Frees
  <2>5. Spares(p, q)
    BY <2>1, <2>2, <2>3, <2>4 DEF Spares
  <2> QED BY <1>0, <1>9, <1>14, <2>5, UseOther
<1>15. UseOf(p)'
  <2>1. \A t \in Wanted(p)' : dtype'[icache'[t].inum] # "free"
    <3> SUFFICES ASSUME NEW t \in Wanted(p) PROVE dtype'[icache'[t].inum] # "free"
      BY <1>13
    <3>1. icache'[t].inum = I(t)
      BY <1>0, <1>6, WantedAt DEF I
    <3> QED BY <1>0, <1>12, <3>1 DEF UseOf
  <2>2. pc[p] \notin {"init", "unlink", "at"}
    BY <1>0, <1>2 DEF Was, CallAt
  <2>3. pc[p] = "refused" => dtype'[icache'[w[p]].inum] = "dir"
    <3> SUFFICES ASSUME pc[p] = "refused" PROVE dtype'[icache'[w[p]].inum] = "dir"
      OBVIOUS
    <3>1. w[p] # None
      BY <1>0 DEF Was, CallAt
    <3>2. w[p] \in Wanted(p) /\ icache'[w[p]].inum = I(w[p])
      BY <1>0, <1>6, <3>1, WAt DEF I, Wanted
    <3> QED BY <1>0, <1>12, <3>2 DEF UseOf
  <2>4. Owes(p)' /\ pc[p] # "drop" => dtype'[icache'[ip[p]].inum] # "dir"
    <3> SUFFICES ASSUME Owes(p), pc[p] # "drop" PROVE dtype'[icache'[ip[p]].inum] # "dir"
      BY <1>8 DEF Owes
    <3>1. ip[p] # None
      BY DEF Owes
    <3>2. ip[p] \in Wanted(p) /\ icache'[ip[p]].inum = I(ip[p])
      BY <1>0, <1>6, <3>1, IpAt DEF I, Wanted
    <3> QED BY <1>0, <1>12, <3>2 DEF UseOf
  <2> QED BY <1>8, <2>1, <2>2, <2>3, <2>4 DEF UseOf, I
<1>16. UseInv'
  BY <1>14, <1>15 DEF UseInv
<1> QED BY <1>11, <1>16 DEF NInv

-----------------------------------------------------------------------------
(* ialloc *)

\* The inode i, which was free, gets the type y.
Takes(i, y) ==
  /\ dtype' = [dtype EXCEPT ![i] = y] /\ dnlink' = dnlink
  /\ dent' = dent /\ dotdot' = dotdot /\ stray' = stray

LEMMA FreeInode ==
  ASSUME NInv, NEW i \in Inum, dtype[i] = "free"
  PROVE  /\ i # ROOTINO /\ Entries(i) = {} /\ dent[i] = NoEntries /\ dotdot[i] = 0
         /\ dnlink[i] = 0
<1>1. TreeOf(i) /\ dtype[ROOTINO] = "dir"
  BY DEF NInv, TreeInv
<1> QED BY <1>1 DEF TreeOf

LEMMA TakeLinks ==
  ASSUME NInv, NEW p \in Process, OthersSame(p), InumsKept, NEW i \in Inum, dtype[i] = "free",
         NEW y, Takes(i, y), Owed(p) = 0, Owed(p)' = 0
  PROVE  LinkInv'
<1>0. /\ PInv /\ LinkInv /\ dent \in [Inum -> [Name -> Inum \cup {0}]]
      /\ dtype \in [Inum -> Types]
  BY DEF NInv, PInv, TypeOK
<1> SUFFICES ASSUME NEW j \in Inum
             PROVE  dnlink'[j] >= Links(j)' /\ (j \notin stray' => dnlink'[j] = Links(j)')
  BY DEF LinkInv
<1>1. Entries(i) = {}
  BY FreeInode
<1>2. Subdirs(j)' = Subdirs(j)
  <2>1. ASSUME NEW n \in Name, dent[j][n] # 0
        PROVE  dtype'[dent[j][n]] = dtype[dent[j][n]]
    <3>1. dent[j][n] \in Inum
      BY <1>0, <2>1
    <3>2. <<j, n>> \in Entries(dent[j][n])
      BY DEF Entries
    <3>3. dent[j][n] # i
      BY <1>1, <3>2
    <3> QED BY <1>0, <3>1, <3>3 DEF Takes
  <2>2. dent' = dent
    BY DEF Takes
  <2> QED BY <2>1, <2>2 DEF Subdirs
<1>3. Named(j)' = Named(j)
  BY DEF Named, Entries, Takes
<1>4. Cardinality(Pending(j)') = Cardinality(Pending(j))
  <2>1. Cardinality(Pending(j)') = Cardinality(Pending(j)) + Hit(Owed(p)', j) - Hit(Owed(p), j)
    BY <1>0, PendingChange
  <2>2. Hit(0, j) = 0 /\ Cardinality(Pending(j)) \in Nat
    BY LinkParts, Bounds DEF Hit
  <2> QED BY <2>1, <2>2
<1>5. Links(j)' = Links(j)
  BY <1>2, <1>3, <1>4 DEF Links
<1> QED BY <1>0, <1>5 DEF LinkInv, Takes

LEMMA TakeTree ==
  ASSUME NInv, NEW i \in Inum, dtype[i] = "free", NEW y, y # "free", Takes(i, y)
  PROVE  TreeInv'
<1>0. TreeInv /\ dtype \in [Inum -> Types]
  BY DEF NInv, PInv, TypeOK
<1>1. \A j : Entries(j)' = Entries(j) /\ Named(j)' = Named(j)
  BY DEF Entries, Named, Takes
<1>2. ASSUME NEW j \in Inum PROVE TreeOf(j)'
  <2>0. TreeOf(j) /\ Entries(j)' = Entries(j) /\ Named(j)' = Named(j)
    BY <1>0, <1>1 DEF TreeInv
  <2>1. CASE j = i
    <3>1. Entries(i) = {} /\ dent[i] = NoEntries /\ dotdot[i] = 0
      BY FreeInode
    <3>2. dtype'[i] = y
      BY <1>0 DEF Takes
    <3>3. \A n \in Name : dent[i][n] = 0
      BY <3>1 DEF NoEntries
    <3> QED BY <2>0, <2>1, <3>1, <3>2, <3>3 DEF TreeOf, Takes, NoEntries
  <2>2. CASE j # i
    <3>1. dtype'[j] = dtype[j]
      BY <1>0, <2>2 DEF Takes
    <3> QED BY <2>0, <3>1 DEF TreeOf, Takes, NoEntries
  <2> QED BY <2>1, <2>2
<1>3. dtype'[ROOTINO] = "dir" /\ dotdot'[ROOTINO] = ROOTINO /\ Entries(ROOTINO)' = {}
  BY <1>0, <1>1, FreeInode, Bounds DEF TreeInv, Takes
<1> QED BY <1>2, <1>3 DEF TreeInv

LEMMA NCreateAlloc ==
  ASSUME NInv, DotDotNamed, PInv', NEW p \in Process, CreateAlloc(p)
  PROVE  NInv'
<1>0. /\ PInv /\ TypeOK /\ Was(p) /\ UseInv /\ UseOf(p) /\ icache \in [Slot -> Entry]
      /\ dtype \in [Inum -> Types] /\ dnlink \in [Inum -> Int]
  BY Before DEF NInv, UseInv
<1>1. At(p, ParentOps) /\ Ilock(w[p])
  BY DEF CreateAlloc
<1>2. /\ pc[p] = "at" /\ puts[p] = << >> /\ iph[p] = "no" /\ req[p].op \in ParentOps
      /\ (ip[p] # None => req[p].op = "link")
      /\ w[p] \in Slot /\ icache[w[p]].ref > 0 /\ icache[w[p]].inum \in Inum
  BY <1>0, <1>1, AtPoint
<1>3. ip[p] = None
  BY <1>2 DEF ParentOps
<1>4. PICK c : c = [icache EXCEPT ![w[p]] = ilocked(w[p])]
  OBVIOUS
<1>5. PICK i : i = Min({j \in Inum : dtype[j] = "free"})
  OBVIOUS
<1>6. /\ \E j \in Inum : dtype[j] = "free"
      /\ dirlookup(icache[w[p]].inum, Head(path[p])) = 0
      /\ room(c, i) /\ icache' = iget(c, i)
      /\ dtype' = [dtype EXCEPT ![i] = new_type(p)]
      /\ dnlink' = [dnlink EXCEPT ![i] = 0]
      /\ ip' = [ip EXCEPT ![p] = iget_slot(c, i)]
      /\ pc' = [pc EXCEPT ![p] = "init"]
  BY <1>4, <1>5, Zenon DEF CreateAlloc
<1>7. /\ dent' = dent /\ dotdot' = dotdot /\ stray' = stray
      /\ req' = req /\ path' = path /\ w' = w /\ puts' = puts /\ iph' = iph
      /\ cwd' = cwd /\ files' = files
  BY DEF CreateAlloc, history
<1>8. i \in Inum /\ dtype[i] = "free"
  <2> DEFINE Z == {j \in Inum : dtype[j] = "free"}
  <2>1. Z \in SUBSET Nat /\ Z # {}
    BY <1>6, Bounds
  <2>2. Min(Z) \in Z
    BY <2>1, LeastOf
  <2> QED BY <1>5, <2>2
<1>9. PICK u : u = iget_slot(c, i)
  OBVIOUS
<1>10. PICK y : y = new_type(p)
  OBVIOUS
<1>11. y # "free"
  BY <1>2, <1>10 DEF new_type, ParentOps
<1>12. Takes(i, y) /\ dnlink[i] = 0 /\ dent[i] = NoEntries /\ dotdot[i] = 0
  <2>1. dnlink[i] = 0 /\ dent[i] = NoEntries /\ dotdot[i] = 0
    BY <1>8, FreeInode
  <2>2. dnlink' = dnlink
    BY <1>0, <1>6, <2>1
  <2> QED BY <1>6, <1>7, <1>10, <2>1, <2>2 DEF Takes
<1>13. Calm(c) /\ c \in [Slot -> Entry]
  <2>1. Calm(c)
    BY <1>0, <1>1, <1>2, <1>4, ReadCalm
  <2>2. c \in [Slot -> Entry]
    BY <1>0, <1>1, <1>2, <1>4, ReadStep
  <2> QED BY <2>1, <2>2
<1>14. Got(c, icache', u, i)
  BY <1>6, <1>8, <1>9, <1>13, Gets
<1>15. Grown(icache', u) /\ icache'[u].inum = i /\ u \in Slot
  BY <1>0, <1>13, <1>14, CalmGrown
<1>16. Goes(p, "init", req[p], path[p], w[p], u, << >>, "no", cwd[p], files[p])
  BY <1>0, <1>2, <1>6, <1>7, <1>9, Stays, Zenon DEF Goes
<1>17. /\ pc'[p] = "init" /\ req'[p] = req[p] /\ path'[p] = path[p] /\ w'[p] = w[p]
       /\ ip'[p] = u /\ iph'[p] = "no" /\ cwd'[p] = cwd[p]
       /\ files'[p] = files[p] /\ \A o \in Process \ {p} : Same(o)
  BY <1>0, <1>16, Went
<1>18. OthersSame(p) /\ InumsKept
  BY <1>15, <1>17 DEF OthersSame, Grown, InumsKept
<1>19. Owed(p) = 0 /\ Owed(p)' = 0
  BY <1>3, <1>17 DEF Owed, Owes
<1>20. LinkInv' /\ TreeInv'
  BY <1>8, <1>11, <1>12, <1>18, <1>19, TakeLinks, TakeTree
<1>21. ASSUME NEW t \in Slot, icache[t].ref > 0, I(t) \in Inum, dtype[I(t)] # "free"
       PROVE  t # u /\ icache'[t].inum = I(t) /\ dtype'[I(t)] = dtype[I(t)]
  <2>1. icache'[t].inum = I(t) /\ I(t) # i
    BY <1>8, <1>18, <1>21 DEF InumsKept, I
  <2>2. dtype'[I(t)] = dtype[I(t)]
    BY <1>0, <1>12, <1>21, <2>1 DEF Takes
  <2> QED BY <1>15, <2>1, <2>2
<1>22. ASSUME NEW q \in Process, NEW t \in Wanted(q)
       PROVE  t # u /\ icache'[t].inum = I(t) /\ dtype'[I(t)] = dtype[I(t)]
  <2>1. t \in Slot /\ icache[t].ref > 0 /\ I(t) \in Inum
    BY <1>0, WantedAt
  <2>2. dtype[I(t)] # "free"
    BY <1>0 DEF UseInv, UseOf
  <2> QED BY <1>21, <2>1, <2>2
<1>23. Wanted(p)' \subseteq Wanted(p) \cup {u}
  BY <1>17, WantNow DEF Wanted
<1>24. ASSUME NEW q \in Process, q # p PROVE UseOf(q)' /\ u \notin Wanted(q)'
  <2>0. UseOf(q) /\ Was(q)
    BY <1>0, Before DEF UseInv
  <2>1. \A t \in Wanted(q) : dtype'[I(t)] = dtype[I(t)]
    BY <1>22
  <2>2. ASSUME iph[q] = "free", NEW h, h = Head(puts[q])
        PROVE  icache'[h].nlink = icache[h].nlink /\ icache'[h].ref <= icache[h].ref
    <3>1. /\ h \in Slot /\ lock[h] = q /\ icache[h].ref = 1 /\ I(h) \in Inum
          /\ dtype[I(h)] # "free"
      BY <1>0, <2>2, FreeingAt
    <3>2. h # u
      BY <1>21, <3>1
    <3>3. lock[h] # None
      BY <3>1, Bounds
    <3>4. icache'[h].ref = icache[h].ref /\ icache'[h].nlink = icache[h].nlink
      BY <1>15, <3>1, <3>2, <3>3 DEF Grown
    <3> QED BY <3>1, <3>4
  <2>3. ASSUME pc[q] = "init"
        PROVE  /\ dnlink'[I(ip[q])] = dnlink[I(ip[q])] /\ dent'[I(ip[q])] = dent[I(ip[q])]
               /\ dotdot'[I(ip[q])] = dotdot[I(ip[q])] /\ ip[q] \notin Wanted(p)'
    <3>1. ip[q] # None
      BY <2>0, <2>3 DEF Was, CallAt
    <3>2. ip[q] \in Wanted(q)
      BY <3>1 DEF Wanted
    <3>3. ip[q] # u
      BY <1>22, <3>2
    <3>4. ip[q] \notin Wanted(p)
      BY <1>24, <2>0, <2>3 DEF UseOf
    <3> QED BY <1>12, <1>23, <3>3, <3>4 DEF Takes
  <2>4. dent'[I(w[q])] = dent[I(w[q])]
    BY <1>12 DEF Takes
  <2>5. Spares(p, q)
    BY <2>1, <2>2, <2>3, <2>4 DEF Spares
  <2>6. UseOf(q)'
    BY <1>0, <1>18, <1>24, <2>5, UseOther
  <2>7. Wanted(q)' = Wanted(q)
    BY <1>18, <1>24 DEF OthersSame, Same, Wanted
  <2> QED BY <1>22, <2>6, <2>7
<1>25. UseOf(p)'
  <2>1. \A t \in Wanted(p)' : dtype'[icache'[t].inum] # "free"
    <3> SUFFICES ASSUME NEW t \in Wanted(p)' PROVE dtype'[icache'[t].inum] # "free"
      OBVIOUS
    <3>1. CASE t \in Wanted(p)
      BY <1>0, <1>22, <3>1 DEF UseOf
    <3>2. CASE t = u
      BY <1>0, <1>8, <1>11, <1>12, <1>15, <3>2 DEF Takes
    <3> QED BY <1>23, <3>1, <3>2
  <2>2. PICK d : d = I(w[p])
    OBVIOUS
  <2>3. dirlookup(d, Head(path[p])) = 0
    BY <1>6, <2>2 DEF I
  <2>4. /\ Head(path[p]) \in Name /\ dent[d][Head(path[p])] = 0 /\ dtype[d] = "dir"
        /\ d \in Inum /\ w[p] \in Wanted(p)
    BY <1>2, <2>2, <2>3, NewName
  <2>5. icache'[w[p]].inum = d /\ dtype'[d] = "dir" /\ w[p] # u
    BY <1>22, <2>2, <2>4
  <2>6. u # cwd[p] /\ \A k \in Fd : u # files[p][k]
    <3>1. u # None
      BY <1>15, Bounds
    <3> QED BY <1>22, <3>1, WantNow
  <2>7. dtype'[i] = y
    BY <1>0, <1>8, <1>12 DEF Takes
  <2>8. new_type(p)' = y
    BY <1>10, <1>17 DEF new_type
  <2>9. ~Owes(p)'
    BY <1>17 DEF Owes
  <2>10. /\ dnlink'[i] = 0 /\ dent'[i] = NoEntries /\ dotdot'[i] = 0
         /\ dent'[d][Head(path[p])] = 0
    BY <1>12, <2>4 DEF Takes
  <2>11. \A q \in Process \ {p} : u \notin Wanted(q)'
    BY <1>24
  <2> QED BY <1>2, <1>15, <1>17, <2>1, <2>4, <2>5, <2>6, <2>7, <2>8, <2>9, <2>10, <2>11
          DEF UseOf, I, NoEntries
<1>26. UseInv'
  BY <1>24, <1>25 DEF UseInv
<1> QED BY <1>20, <1>26 DEF NInv

-----------------------------------------------------------------------------
(* What mkfs made, and the theorems *)

\* The directory that mkfs has written has the files of the image.
LEMMA InitNames ==
  ASSUME Init
  PROVE  /\ \A i \in Inum : \A n \in Name : dent[i][n] # 0 =>
              i = ROOTINO /\ dent[i][n] - 1 \in DOMAIN Image /\ Image[dent[i][n] - 1] = n
         /\ \A k \in DOMAIN Image : Image[k] \in Name /\ dent[ROOTINO][Image[k]] = k + 1
<1>0. DOMAIN Image = 1 .. Len(Image) /\ Len(Image) \in Nat /\ Image \in Seq(Name)
  BY InodesAssumption
<1>1. ASSUME NEW i \in Inum, NEW n \in Name
      PROVE  dent[i][n] = IF i = ROOTINO /\ \E k \in DOMAIN Image : Image[k] = n
                          THEN 1 + (CHOOSE k \in DOMAIN Image : Image[k] = n) ELSE 0
  BY DEF Init
<1>2. ASSUME NEW i \in Inum, NEW n \in Name, dent[i][n] # 0
      PROVE  i = ROOTINO /\ dent[i][n] - 1 \in DOMAIN Image /\ Image[dent[i][n] - 1] = n
  <2>1. i = ROOTINO /\ \E k \in DOMAIN Image : Image[k] = n
    BY <1>1, <1>2
  <2>2. PICK c : c = CHOOSE k \in DOMAIN Image : Image[k] = n
    OBVIOUS
  <2>3. c \in DOMAIN Image /\ Image[c] = n
    BY <2>1, <2>2
  <2>4. dent[i][n] = 1 + c
    BY <1>1, <2>1, <2>2
  <2>5. dent[i][n] - 1 = c
    BY <1>0, <2>3, <2>4
  <2> QED BY <2>1, <2>3, <2>5
<1>3. ASSUME NEW k \in DOMAIN Image
      PROVE  Image[k] \in Name /\ dent[ROOTINO][Image[k]] = k + 1
  <2>1. PICK n \in Name : n = Image[k]
    BY <1>0
  <2>2. PICK c : c = CHOOSE j \in DOMAIN Image : Image[j] = n
    OBVIOUS
  <2>3. c \in DOMAIN Image /\ Image[c] = n
    BY <2>1, <2>2
  <2>4. c = k
    BY <1>0, <2>1, <2>3, InodesAssumption
  <2>5. dent[ROOTINO][n] = 1 + c
    BY <1>1, <2>1, <2>2, Bounds
  <2> QED BY <1>0, <2>1, <2>4, <2>5
<1> QED BY <1>2, <1>3

LEMMA InitCounts ==
  ASSUME Init, NEW i \in Inum
  PROVE  /\ dnlink[i] = Links(i)
         /\ Entries(i) # {} => dtype[i] = "file"
         /\ i = ROOTINO => Entries(i) = {}
<1>0. /\ DOMAIN Image = 1 .. Len(Image) /\ Len(Image) \in Nat /\ i \in Nat
      /\ dtype[i] = (IF i = ROOTINO THEN "dir"
                     ELSE IF i - 1 \in DOMAIN Image THEN "file" ELSE "free")
      /\ dnlink[i] = (IF dtype[i] = "free" THEN 0 ELSE 1)
  BY InodesAssumption, Bounds DEF Init
<1>1. ASSUME NEW x \in Entries(i)
      PROVE  i # ROOTINO /\ i - 1 \in DOMAIN Image /\ x = <<ROOTINO, Image[i - 1]>>
  <2>1. x \in Inum \X Name /\ dent[x[1]][x[2]] = i
    BY DEF Entries
  <2>2. x[1] \in Inum /\ x[2] \in Name /\ x = <<x[1], x[2]>> /\ i # 0
    BY <2>1, Bounds
  <2>3. x[1] = ROOTINO /\ i - 1 \in DOMAIN Image /\ Image[i - 1] = x[2]
    BY <2>1, <2>2, InitNames
  <2>4. i # ROOTINO
    BY <1>0, <2>3 DEF ROOTINO
  <2> QED BY <2>2, <2>3, <2>4
<1>2. i = ROOTINO => Entries(i) = {}
  BY <1>1
<1>3. Entries(i) # {} => dtype[i] = "file"
  BY <1>0, <1>1
<1>4. Pending(i) = {}
  <2>1. \A p \in Process : ~Owes(p)
    BY DEF Init, Owes
  <2> QED BY <2>1 DEF Pending
<1>5. Subdirs(i) = {}
  <2> SUFFICES ASSUME NEW n \in Name, dent[i][n] # 0 PROVE dtype[dent[i][n]] # "dir"
    BY DEF Subdirs
  <2>1. PICK j : j = dent[i][n]
    OBVIOUS
  <2>2. j - 1 \in DOMAIN Image /\ j \in Inum
    BY <2>1, InitNames, PInit DEF PInv, TypeOK
  <2>3. j # ROOTINO
    BY <1>0, <2>2 DEF ROOTINO
  <2>4. dtype[j] = "file"
    BY <2>2, <2>3 DEF Init
  <2> QED BY <2>1, <2>4
<1>6. Cardinality(Subdirs(i)) = 0 /\ Cardinality(Pending(i)) = 0
  BY <1>4, <1>5, FS_EmptySet
<1>7. Named(i) = dnlink[i]
  <2>1. CASE i = ROOTINO
    <3>1. Cardinality(Entries(i)) = 0
      BY <1>2, <2>1, FS_EmptySet
    <3> QED BY <1>0, <2>1, <3>1 DEF Named
  <2>2. CASE i # ROOTINO /\ i - 1 \in DOMAIN Image
    <3>1. PICK k \in DOMAIN Image : k = i - 1
      BY <2>2
    <3>2. Image[k] \in Name /\ dent[ROOTINO][Image[k]] = i
      BY <1>0, <3>1, InitNames
    <3>3. <<ROOTINO, Image[k]>> \in Entries(i)
      BY <3>2, Bounds DEF Entries
    <3>4. Entries(i) = {<<ROOTINO, Image[k]>>}
      BY <1>1, <3>1, <3>3
    <3>5. Cardinality(Entries(i)) = 1
      BY <3>4, FS_Singleton
    <3> QED BY <1>0, <2>2, <3>5 DEF Named
  <2>3. CASE i # ROOTINO /\ i - 1 \notin DOMAIN Image
    <3>1. Entries(i) = {}
      BY <1>1, <2>3
    <3>2. Cardinality(Entries(i)) = 0
      BY <3>1, FS_EmptySet
    <3> QED BY <1>0, <2>3, <3>2 DEF Named
  <2> QED BY <2>1, <2>2, <2>3
<1>8. dnlink[i] \in Int
  BY <1>0
<1>9. dnlink[i] = Links(i)
  BY <1>6, <1>7, <1>8 DEF Links
<1> QED BY <1>2, <1>3, <1>9

LEMMA NInit ==
  ASSUME Init
  PROVE  NInv
<1>1. PInv /\ dnlink \in [Inum -> Int]
  BY PInit DEF PInv, TypeOK
<1>2. LinkInv
  <2>1. ASSUME NEW i \in Inum PROVE dnlink[i] >= Links(i) /\ dnlink[i] = Links(i)
    <3>1. dnlink[i] \in Int /\ dnlink[i] = Links(i)
      BY <1>1, InitCounts
    <3> QED BY <3>1
  <2> QED BY <2>1 DEF LinkInv
<1>3. ASSUME NEW i \in Inum PROVE TreeOf(i)
  <2>1. Entries(i) # {} => dtype[i] = "file"
    BY InitCounts
  <2>2. i # ROOTINO => dent[i] = NoEntries /\ dotdot[i] = 0
    <3>1. dent[i] \in [Name -> Inum \cup {0}]
      BY <1>1 DEF PInv, TypeOK
    <3>2. i # ROOTINO => \A n \in Name : dent[i][n] = 0
      BY InitNames
    <3>3. i # ROOTINO => dotdot[i] = 0
      BY DEF Init
    <3> QED BY <3>1, <3>2, <3>3 DEF NoEntries
  <2>3. dtype[i] = "dir" <=> i = ROOTINO
    BY DEF Init
  <2>4. dtype[i] = "free" => dnlink[i] = 0
    BY DEF Init
  <2>5. Named(i) = 0 => i # ROOTINO
    BY LinkParts
  <2>6. i # ROOTINO => \A n \in Name : dent[i][n] = 0
    BY <2>2 DEF NoEntries
  <2> QED BY <2>1, <2>2, <2>3, <2>4, <2>5, <2>6 DEF TreeOf, NoEntries
<1>4. TreeInv
  <2>1. dtype[ROOTINO] = "dir" /\ dotdot[ROOTINO] = ROOTINO
    BY Bounds DEF Init
  <2> QED BY <1>3, <2>1, InitCounts, Bounds DEF TreeInv
<1>5. UseInv
  <2> SUFFICES ASSUME NEW p \in Process PROVE UseOf(p)
    BY DEF UseInv
  <2>1. /\ pc[p] = "user" /\ iph[p] = "no" /\ ip[p] = None /\ w[p] = None /\ cwd[p] = 1
        /\ \A k \in Fd : files[p][k] = None
    BY DEF Init
  <2>2. \A s \in Wanted(p) : s = 1
    BY <2>1 DEF Wanted
  <2>3. icache[1].inum = ROOTINO /\ dtype[ROOTINO] = "dir"
    BY Bounds DEF Init
  <2>4. ~Owes(p)
    BY <2>1 DEF Owes
  <2> QED BY <2>1, <2>2, <2>3, <2>4 DEF UseOf, I
<1> QED BY <1>1, <1>2, <1>4, <1>5 DEF NInv

\* A step that changes nothing.
LEMMA NStutter ==
  ASSUME NInv, PInv', UNCHANGED vars
  PROVE  NInv'
<1>1. /\ dtype' = dtype /\ dnlink' = dnlink /\ dent' = dent /\ dotdot' = dotdot
      /\ icache' = icache /\ pc' = pc /\ req' = req /\ path' = path
      /\ w' = w /\ ip' = ip /\ puts' = puts /\ iph' = iph /\ cwd' = cwd
      /\ files' = files /\ stray' = stray
  BY DEF vars, disk, local, history
<1>2. \A p : Owes(p)' <=> Owes(p)
  BY <1>1 DEF Owes
<1>3. \A i : Entries(i)' = Entries(i) /\ Subdirs(i)' = Subdirs(i) /\ Pending(i)' = Pending(i)
  BY <1>1, <1>2 DEF Entries, Subdirs, Pending
<1>4. \A i : Named(i)' = Named(i) /\ Links(i)' = Links(i)
  BY <1>3 DEF Named, Links
<1>5. LinkInv'
  BY <1>1, <1>4 DEF NInv, LinkInv
<1>6. TreeInv'
  BY <1>1, TreeSame DEF NInv
<1>7. ASSUME NEW p \in Process PROVE UseOf(p)'
  <2>1. UseOf(p)
    BY DEF NInv, UseInv
  <2>2. /\ \A q : Wanted(q)' = Wanted(q)
        /\ \A s : I(s)' = I(s)
    BY <1>1 DEF Wanted, I
  <2>3. (wants_parent(p)' <=> wants_parent(p)) /\ new_type(p)' = new_type(p)
    BY <1>1 DEF wants_parent, new_type
  <2> QED BY <1>1, <1>2, <2>1, <2>2, <2>3 DEF UseOf, I
<1> QED BY <1>5, <1>6, <1>7 DEF NInv, UseInv

LEMMA NNext ==
  ASSUME NInv, DotDotNamed, [Next]_vars
  PROVE  NInv'
<1>0. PInv
  BY DEF NInv
<1>1. PInv'
  BY <1>0, PNext
<1>2. CASE UNCHANGED vars
  BY <1>1, <1>2, NStutter
<1>3. ASSUME NEW p \in Process, Step(p) PROVE NInv'
  <2>1. CASE IputTest(p) \/ IputFree(p) \/ IputInvalid(p) \/ IputDrop(p)
    BY <1>1, <2>1, NTest, NFree, NInvalid, NDrop
  <2>2. CASE Call(p) \/ Close(p) \/ Return(p)
    BY <1>1, <2>2, NCall, NClose, NReturn
  <2>3. CASE WalkNext(p) \/ WalkEnd(p) \/ WalkFails(p)
    BY <1>1, <2>3, NWalkNext, NWalkEnd, NWalkFails
  <2>4. CASE Open(p) \/ Chdir(p)
    BY <1>1, <2>4, NOpen, NChdir
  <2>5. CASE CreateExists(p) \/ CreateAlloc(p) \/ CreateInit(p) \/ CreateOld(p) \/ Created(p)
    BY <1>1, <2>5, NCreateExists, NCreateAlloc, NCreateInit, NCreateOld, NCreated
  <2>6. CASE UnlinkLookup(p) \/ UnlinkEntry(p) \/ UnlinkDrop(p)
    BY <1>1, <2>6, NUnlinkLookup, NUnlinkEntry, NUnlinkDrop
  <2>7. CASE UnlinkRefused(p) \/ Refused(p)
    BY <1>1, <2>7, NUnlinkRefused, NRefused
  <2>8. CASE LinkInc(p) \/ LinkDir(p) \/ LinkExists(p) \/ LinkEntry(p) \/ LinkBad(p)
    BY <1>1, <2>8, NLinkInc, NLinkDir, NLinkExists, NLinkEntry, NLinkBad
  <2> QED BY <1>3, <2>1, <2>2, <2>3, <2>4, <2>5, <2>6, <2>7, <2>8 DEF Step
<1> QED BY <1>2, <1>3 DEF Next

LEMMA WantedHaveType ==
  ASSUME NInv
  PROVE  NoTypePanic
<1>0. /\ PInv /\ UseInv /\ TypeOK /\ LockInv /\ Exact(icache, dtype, dnlink, Inval)
      /\ icache \in [Slot -> Entry]
  BY DEF NInv, PInv, CacheInv, TypeOK
<1> SUFFICES ASSUME NEW p \in Process, NEW s \in Wanted(p), lock[s] = None
             PROVE  ilocked(s).type # "free"
  BY DEF NoTypePanic
<1>1. s \in Slot /\ icache[s].ref > 0
  BY <1>0, WantedAt
<1>2. dtype[I(s)] # "free"
  BY <1>0 DEF UseInv, UseOf
<1>3. CASE icache[s].valid
  <2>1. s \notin Inval
    BY <1>0, <1>1, NotInval
  <2>2. Agrees(icache[s], dtype, dnlink)
    BY <1>0, <1>1, <1>3, <2>1 DEF Exact
  <2> QED BY <1>3, <2>2 DEF Agrees, ilocked
<1>4. CASE ~icache[s].valid
  <2>1. icache[s] \in Entry
    BY <1>0, <1>1
  <2> QED BY <1>2, <1>4, <2>1 DEF ilocked, I, Entry
<1> QED BY <1>3, <1>4

\* The directories in i, and the names in i of directories, are as many.
LEMMA DirsCounted ==
  ASSUME NInv, NEW i \in Inum
  PROVE  Cardinality({d \in Inum \ {i} : dotdot[d] = i /\ Named(d) > 0}) = Cardinality(Subdirs(i))
<1> DEFINE D == {d \in Inum \ {i} : dotdot[d] = i /\ Named(d) > 0}
           S == Subdirs(i)
           f == [n \in S |-> dent[i][n]]
<1>0. TreeInv /\ dent \in [Inum -> [Name -> Inum \cup {0}]] /\ i # 0
  BY Bounds DEF NInv, PInv, TypeOK
<1>1. ASSUME NEW n \in S
      PROVE  /\ dent[i][n] \in Inum /\ dtype[dent[i][n]] = "dir"
             /\ <<i, n>> \in Entries(dent[i][n]) /\ dent[i][n] \in D
  <2>1. n \in Name /\ dent[i][n] # 0 /\ dtype[dent[i][n]] = "dir"
    BY DEF Subdirs
  <2>2. PICK d \in Inum : d = dent[i][n]
    BY <1>0, <2>1
  <2>3. <<i, n>> \in Entries(d)
    BY <2>1, <2>2 DEF Entries
  <2>4. TreeOf(d)
    BY <1>0 DEF TreeInv
  <2>5. dotdot[d] = i /\ i # d
    <3>1. PICK x : x = <<i, n>>
      OBVIOUS
    <3>2. x[1] = dotdot[d] /\ x[1] # d
      BY <2>1, <2>2, <2>3, <2>4, <3>1 DEF TreeOf
    <3> QED BY <3>1, <3>2
  <2>6. Named(d) > 0
    <3>1. Named(d) \in Nat /\ Named(d) # 0
      BY <2>3, LinkParts
    <3> QED BY <3>1
  <2> QED BY <2>1, <2>2, <2>3, <2>5, <2>6
<1>2. f \in [S -> D]
  BY <1>1
<1>3. ASSUME NEW n \in S, NEW m \in S, f[n] = f[m] PROVE n = m
  <2>1. PICK d \in Inum : d = dent[i][n]
    BY <1>1
  <2>2. d = dent[i][m] /\ dtype[d] = "dir"
    BY <1>1, <1>3, <2>1
  <2>3. <<i, n>> \in Entries(d) /\ <<i, m>> \in Entries(d)
    BY <1>1, <2>1, <2>2
  <2>4. <<i, n>> = <<i, m>>
    BY <1>0, <2>2, <2>3 DEF TreeInv, TreeOf
  <2> QED BY <2>4
<1>4. ASSUME NEW d \in D PROVE \E n \in S : f[n] = d
  <2>1. d \in Inum /\ d # i /\ dotdot[d] = i /\ Named(d) > 0
    OBVIOUS
  <2>2. d # ROOTINO
    BY <1>0, <2>1 DEF TreeInv
  <2>3. Named(d) # 0
    BY <2>1, LinkParts
  <2>4. PICK x : x \in Entries(d)
    BY <2>2, <2>3, LinkParts
  <2>5. TreeOf(d)
    BY <1>0, <2>1 DEF TreeInv
  <2>6. dtype[d] = "dir"
    BY <1>0, <2>1, <2>5 DEF TreeOf
  <2>7. x[1] = i /\ x[2] \in Name /\ dent[i][x[2]] = d
    BY <2>1, <2>4, <2>5, <2>6 DEF TreeOf, Entries
  <2>8. d # 0
    BY <2>1, Bounds
  <2>9. x[2] \in S
    BY <2>6, <2>7, <2>8 DEF Subdirs
  <2> QED BY <2>7, <2>9
<1>5. IsFiniteSet(S)
  BY FiniteAll
<1> HIDE DEF D, S, f
<1>6. f \in Bijection(S, D)
  BY <1>2, <1>3, <1>4 DEF Bijection, Injection, Surjection, IsInjective
<1>7. Cardinality(D) = Cardinality(S)
  BY <1>5, <1>6, FS_Bijection DEF ExistsBijection
<1> QED BY <1>7 DEF D, S

LEMMA LinksCounted ==
  ASSUME NInv
  PROVE  LinksExact
<1>0. PInv /\ LinkInv /\ TreeInv /\ CallInv /\ dnlink \in [Inum -> Int]
  BY DEF NInv, PInv, TypeOK
<1>1. ASSUME NEW i \in Inum, Entries(i) # {}
      PROVE  dtype[i] # "free" /\ dnlink[i] >= Named(i)
  <2>1. dtype[i] # "free"
    BY <1>0, <1>1 DEF TreeInv, TreeOf
  <2>2. /\ dnlink[i] >= Links(i) /\ dnlink[i] \in Int
        /\ Links(i) = Named(i) + Cardinality(Subdirs(i)) + Cardinality(Pending(i))
        /\ Named(i) \in Nat /\ Cardinality(Subdirs(i)) \in Nat /\ Cardinality(Pending(i)) \in Nat
    BY <1>0, LinkParts DEF LinkInv
  <2>3. dnlink[i] >= Named(i)
    BY <2>2
  <2> QED BY <2>1, <2>3
<1>2. ASSUME \A p \in Process : pc[p] = "user", NEW i \in Inum, i \notin stray
      PROVE  dnlink[i] = Named(i)
               + Cardinality({d \in Inum \ {i} : dotdot[d] = i /\ Named(d) > 0})
  <2>1. \A p \in Process : ~Owes(p)
    BY <1>2 DEF Owes
  <2>2. Pending(i) = {}
    BY <2>1 DEF Pending
  <2>3. Cardinality(Pending(i)) = 0
    BY <2>2, FS_EmptySet
  <2>4. /\ dnlink[i] = Links(i)
        /\ Links(i) = Named(i) + Cardinality(Subdirs(i)) + Cardinality(Pending(i))
        /\ Named(i) \in Nat /\ Cardinality(Subdirs(i)) \in Nat
    BY <1>0, <1>2, LinkParts DEF LinkInv
  <2>5. dnlink[i] = Named(i) + Cardinality(Subdirs(i))
    BY <2>3, <2>4
  <2> QED BY <2>5, DirsCounted
<1> QED BY <1>1, <1>2 DEF LinksExact

\* The links that unlink, create and link count and take away, the entries
\* they write, the inode that iput frees and the one that ialloc takes: all of
\* it keeps the tree of names and the counts, until namex follows the ".." of
\* a directory that has no name any more (it may be a freed inode's).
THEOREM NamesInvariance == Spec => [](astray \/ NInv)
<1>1. Init => astray \/ NInv
  BY NInit
<1>2. ASSUME astray \/ NInv, [Next]_vars PROVE (astray \/ NInv)'
  <2>1. CASE UNCHANGED vars
    <3>1. NInv => PInv'
      BY <1>2, PNext DEF NInv
    <3>2. astray' = astray
      BY <2>1 DEF vars
    <3> QED BY <1>2, <2>1, <3>1, <3>2, NStutter
  <2>2. CASE Next
    <3>1. astray' \/ (~astray /\ DotDotNamed)
      BY <2>2 DEF Next
    <3> QED BY <1>2, <3>1, NNext
  <2> QED BY <1>2, <2>1, <2>2
<1> QED BY <1>1, <1>2, PTL DEF Spec

\* ilock finds an inode that is not allocated (panic "ilock: no type") only
\* after namex has followed the ".." of a directory that has no name any more.
THEOREM NoPanic == Spec => []NoTypePanic
<1>1. NInv => NoTypePanic
  BY WantedHaveType
<1>2. astray => NoTypePanic
  BY DEF NoTypePanic
<1> QED BY <1>1, <1>2, NamesInvariance, PTL

\* A directory entry names an inode that is allocated and whose link count
\* covers its names; between calls the link count of an inode that has a name
\* is the number of its names and of the ".." in it; again until namex follows
\* the ".." of a directory that has no name.
THEOREM LinkCounts == Spec => [](astray \/ LinksExact)
<1>1. NInv => LinksExact
  BY LinksCounted
<1> QED BY <1>1, NamesInvariance, PTL

\* No path that programs use has "..", and none that namex has still to walk.
DotDotFree == \A pt \in Path : \A k \in DOMAIN pt.elems : pt.elems[k] # ".."
NoDots(l) == \A k \in DOMAIN l : l[k] # ".."
PathsNoDots == \A p \in Process : NoDots(path[p])

LEMMA NoDotsGoes ==
  ASSUME PathsNoDots, NEW p, NEW l, NoDots(l), path' = [path EXCEPT ![p] = l],
         path \in [Process -> Seq(Name \cup {".", ".."})]
  PROVE  PathsNoDots'
<1> SUFFICES ASSUME NEW q \in Process PROVE NoDots(path'[q])
  BY DEF PathsNoDots, NoDots
<1>1. path'[q] = l \/ path'[q] = path[q]
  OBVIOUS
<1> QED BY <1>1 DEF PathsNoDots

LEMMA NoDotsStep ==
  ASSUME DotDotFree, PInv, PathsNoDots, [Next]_vars
  PROVE  PathsNoDots'
<1>0. TypeOK /\ CallInv /\ path \in [Process -> Seq(Name \cup {".", ".."})]
  BY DEF PInv, TypeOK
<1>1. ASSUME path' = path PROVE PathsNoDots'
  BY <1>1 DEF PathsNoDots, NoDots
<1>2. CASE UNCHANGED vars
  BY <1>1, <1>2 DEF vars, local
<1>3. ASSUME NEW p \in Process, Step(p) PROVE PathsNoDots'
  <2>1. CASE IputTest(p) \/ IputFree(p) \/ IputInvalid(p) \/ IputDrop(p)
    BY <1>1, <2>1 DEF IputTest, IputFree, IputInvalid, IputDrop
  <2>2. CASE Call(p)
    <3>1. PICK pt \in Path : Start(p, pt, icache)
      BY <2>2 DEF Call
    <3>2. PICK l : l = pt.elems
      OBVIOUS
    <3>3. path' = [path EXCEPT ![p] = l] /\ NoDots(l)
      BY <3>1, <3>2 DEF Start, DotDotFree, NoDots
    <3> QED BY <1>0, <3>3, NoDotsGoes
  <2>3. CASE Close(p)
    BY <1>1, <2>3 DEF Close
  <2>4. CASE Return(p)
    <3>1. PICK l : l = << >>
      OBVIOUS
    <3>2. path' = [path EXCEPT ![p] = l] /\ NoDots(l)
      BY <2>4, <3>1 DEF Return, NoDots
    <3> QED BY <1>0, <3>2, NoDotsGoes
  <2>5. CASE WalkNext(p)
    <3>1. path[p] # << >> /\ path[p] \in Seq(Name \cup {".", ".."})
      BY <1>0, <2>5 DEF WalkNext
    <3>2. PICK l : l = Tail(path[p])
      OBVIOUS
    <3>3. path' = [path EXCEPT ![p] = l]
      BY <2>5, <3>2 DEF WalkNext
    <3>4. NoDots(path[p])
      BY DEF PathsNoDots
    <3>5. ASSUME NEW k \in DOMAIN l PROVE l[k] # ".."
      <4>1. Len(l) = Len(path[p]) - 1 /\ Len(path[p]) \in Nat /\ l \in Seq(Name \cup {".", ".."})
        BY <3>1, <3>2, HeadTailProperties
      <4>2. k \in 1 .. Len(path[p]) - 1 /\ k + 1 \in 1 .. Len(path[p])
        BY <4>1
      <4>3. l[k] = path[p][k + 1]
        BY <3>1, <3>2, <4>2, HeadTailProperties
      <4> QED BY <3>1, <3>4, <4>2, <4>3 DEF NoDots
    <3> QED BY <1>0, <3>3, <3>5, NoDotsGoes DEF NoDots
  <2>6. CASE WalkEnd(p) \/ WalkFails(p)
    BY <1>1, <2>6 DEF WalkEnd, WalkFails, local
  <2>7. CASE Open(p) \/ Chdir(p)
    BY <1>1, <2>7 DEF Open, Chdir
  <2>8. CASE CreateExists(p) \/ CreateAlloc(p) \/ CreateInit(p) \/ CreateOld(p) \/ Created(p)
    BY <1>1, <2>8 DEF CreateExists, CreateAlloc, CreateInit, CreateOld, Created
  <2>9. CASE UnlinkLookup(p) \/ UnlinkEntry(p) \/ UnlinkDrop(p) \/ UnlinkRefused(p) \/ Refused(p)
    BY <1>1, <2>9 DEF UnlinkLookup, UnlinkEntry, UnlinkDrop, UnlinkRefused, Refused
  <2>10. CASE LinkInc(p)
    <3>1. pc[p] = "at"
      BY <2>10 DEF LinkInc, At
    <3>2. req[p].new \in Path
      BY <1>0, <3>1 DEF CallInv, CallAt
    <3>3. PICK l : l = req[p].new.elems
      OBVIOUS
    <3>4. path' = [path EXCEPT ![p] = l]
      BY <2>10, <3>3 DEF LinkInc, Start
    <3>5. NoDots(l)
      BY <3>2, <3>3 DEF DotDotFree, NoDots
    <3> QED BY <1>0, <3>4, <3>5, NoDotsGoes
  <2>11. CASE LinkDir(p) \/ LinkExists(p) \/ LinkEntry(p) \/ LinkBad(p)
    BY <1>1, <2>11 DEF LinkDir, LinkExists, LinkEntry, LinkBad
  <2> QED BY <1>3, <2>1, <2>2, <2>3, <2>4, <2>5, <2>6, <2>7, <2>8, <2>9, <2>10, <2>11 DEF Step
<1> QED BY <1>2, <1>3 DEF Next

\* When programs use no "..", ilock finds every inode allocated and every link
\* count is that of the names, without exception.
THEOREM WithoutDotDot ==
  DotDotFree => (Spec => []~astray /\ []NoTypePanic /\ []LinksExact)
<1> SUFFICES ASSUME DotDotFree
             PROVE  Spec => []~astray /\ []NoTypePanic /\ []LinksExact
  OBVIOUS
<1>1. Init => PathsNoDots /\ ~astray
  BY DEF Init, PathsNoDots, NoDots
<1>2. PInv /\ PathsNoDots /\ [Next]_vars => PathsNoDots'
  BY NoDotsStep
<1>3. PInv /\ PathsNoDots => DotDotNamed
  <2> SUFFICES ASSUME PInv, PathsNoDots, NEW p \in Process, path[p] # << >>
               PROVE  Head(path[p]) # ".."
    BY DEF DotDotNamed
  <2>1. path[p] \in Seq(Name \cup {".", ".."})
    BY DEF PInv, TypeOK
  <2>2. Head(path[p]) = path[p][1] /\ 1 \in DOMAIN path[p]
    BY <2>1
  <2> QED BY <2>2 DEF PathsNoDots, NoDots
<1>4. DotDotNamed /\ ~astray /\ [Next]_vars => ~astray'
  BY DEF Next, vars
<1>5. Spec => [](PathsNoDots /\ ~astray)
  BY <1>1, <1>2, <1>3, <1>4, Invariance, PTL DEF Spec
<1> QED BY <1>5, NoPanic, LinkCounts, PTL
=============================================================================
