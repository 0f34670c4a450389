----------------------------- MODULE MlfqProofs -----------------------------
(***************************************************************************)
(* Proofs about Mlfq, for every number of slots and processors, every      *)
(* quantum and threshold, and every bound.                                 *)
(***************************************************************************)
EXTENDS Mlfq, SequenceTheorems, WellFoundedInduction, TLAPS

(***************************************************************************)
(* Least elements, for the loops that stop at the first match.             *)
(***************************************************************************)

\* Every nonempty set of naturals has a least element.
LEMMA LeastNat ==
  ASSUME NEW T \in SUBSET Nat, T # {}
  PROVE  \E x \in T : \A y \in T : x <= y
<1> DEFINE R == {ss \in Nat \X Nat : ss[1] < ss[2]}
<1>1. IsWellFoundedOn(R, Nat)
  BY NatLessThanWellFounded DEF OpToRel
<1>2. PICK x \in T : \A y \in T : ~(<<y, x>> \in R)
  <2> HIDE DEF R
  <2> QED BY <1>1, WFMin
<1>3. \A y \in T : ~(y < x)
  BY <1>2
<1> QED BY <1>3

\* First(S) is an element of S.
LEMMA FirstInSet ==
  ASSUME NEW S \in SUBSET Nat, S # {}
  PROVE  First(S) \in S /\ \A q \in S : First(S) <= q
  BY LeastNat DEF First

-----------------------------------------------------------------------------
(***************************************************************************)
(* Sequences.                                                              *)
(***************************************************************************)

\* What InsertAt, the insertion of add_to_queue, returns.
LEMMA InsertAtElements ==
  ASSUME NEW S, NEW q \in Seq(S), NEW i \in 1 .. Len(q) + 1, NEW e \in S
  PROVE  /\ InsertAt(q, i, e) \in Seq(S)
         /\ Len(InsertAt(q, i, e)) = Len(q) + 1
         /\ \A k \in 1 .. Len(q) + 1 :
              InsertAt(q, i, e)[k] = IF k < i THEN q[k]
                                     ELSE IF k = i THEN e ELSE q[k - 1]
<1> DEFINE a == SubSeq(q, 1, i - 1)
           b == SubSeq(q, i, Len(q))
           ae == a \o <<e>>
<1>0. Len(q) \in Nat /\ i \in Nat /\ \A k \in 1 .. Len(q) : q[k] \in S
  OBVIOUS
<1>1. /\ a \in Seq(S) /\ Len(a) = i - 1
      /\ \A k \in 1 .. i - 1 : a[k] = q[k]
  BY <1>0, SubSeqProperties
<1>2. /\ b \in Seq(S) /\ Len(b) = Len(q) - i + 1
      /\ \A k \in 1 .. Len(q) - i + 1 : b[k] = q[i + k - 1]
  BY <1>0, SubSeqProperties
<1> HIDE DEF a, b
<1>3. /\ ae \in Seq(S) /\ Len(ae) = i
      /\ \A k \in 1 .. i : ae[k] = IF k < i THEN q[k] ELSE e
  BY <1>1
<1> HIDE DEF ae
<1>4. /\ ae \o b \in Seq(S)
      /\ Len(ae \o b) = Len(q) + 1
      /\ \A k \in 1 .. Len(q) + 1 :
           (ae \o b)[k] = IF k <= i THEN ae[k] ELSE b[k - i]
  <2>1. Len(ae) + Len(b) = Len(q) + 1
    BY <1>0, <1>2, <1>3
  <2> QED BY <1>2, <1>3, <2>1, ConcatProperties
<1>5. ASSUME NEW k \in 1 .. Len(q) + 1
      PROVE (ae \o b)[k] = IF k < i THEN q[k]
                           ELSE IF k = i THEN e ELSE q[k - 1]
  <2>1. CASE k <= i
    BY <1>0, <1>4, <1>3, <2>1
  <2>2. CASE k > i
    <3>1. k - i \in 1 .. Len(q) - i + 1 /\ i + (k - i) - 1 = k - 1
      BY <1>0, <2>2
    <3>2. b[k - i] = q[k - 1]
      BY <1>2, <3>1
    <3>3. ~(k <= i) /\ ~(k < i) /\ k # i
      BY <1>0, <2>2
    <3>4. (ae \o b)[k] = b[k - i]
      BY <1>4, <3>3
    <3> QED BY <3>2, <3>3, <3>4
  <2>3. k <= i \/ k > i
    BY <1>0
  <2> QED BY <2>1, <2>2, <2>3
<1> QED BY <1>4, <1>5 DEF InsertAt, ae, a, b

\* What RemoveAt, the unlinking of remove_from_queue, returns.
LEMMA RemoveAtElements ==
  ASSUME NEW S, NEW q \in Seq(S), NEW i \in 1 .. Len(q)
  PROVE  /\ RemoveAt(q, i) \in Seq(S)
         /\ Len(RemoveAt(q, i)) = Len(q) - 1
         /\ \A k \in 1 .. Len(q) - 1 :
              RemoveAt(q, i)[k] = IF k < i THEN q[k] ELSE q[k + 1]
<1> DEFINE a == SubSeq(q, 1, i - 1)
           b == SubSeq(q, i + 1, Len(q))
<1>0. Len(q) \in Nat /\ i \in Nat /\ \A k \in 1 .. Len(q) : q[k] \in S
  OBVIOUS
<1>1. /\ a \in Seq(S) /\ Len(a) = i - 1
      /\ \A k \in 1 .. i - 1 : a[k] = q[k]
  BY <1>0, SubSeqProperties
<1>2. /\ b \in Seq(S) /\ Len(b) = Len(q) - i
      /\ \A k \in 1 .. Len(q) - i : b[k] = q[i + k]
  <2>1. /\ b \in Seq(S) /\ Len(b) = Len(q) - i
        /\ \A k \in 1 .. Len(q) - (i + 1) + 1 : b[k] = q[(i + 1) + k - 1]
    BY <1>0, SubSeqProperties
  <2> QED BY <1>0, <2>1
<1> HIDE DEF a, b
<1>3. /\ a \o b \in Seq(S)
      /\ Len(a \o b) = Len(q) - 1
      /\ \A k \in 1 .. Len(q) - 1 :
           (a \o b)[k] = IF k <= i - 1 THEN a[k] ELSE b[k - (i - 1)]
  <2>1. Len(a) + Len(b) = Len(q) - 1
    BY <1>0, <1>1, <1>2
  <2>2. /\ a \o b \in Seq(S)
        /\ Len(a \o b) = Len(a) + Len(b)
        /\ \A k \in 1 .. Len(a) + Len(b) :
             (a \o b)[k] = IF k <= Len(a) THEN a[k] ELSE b[k - Len(a)]
    BY <1>1, <1>2, ConcatProperties
  <2> QED BY <1>1, <2>1, <2>2
<1>4. ASSUME NEW k \in 1 .. Len(q) - 1
      PROVE (a \o b)[k] = IF k < i THEN q[k] ELSE q[k + 1]
  <2>1. CASE k < i
    BY <1>0, <1>1, <1>3, <2>1
  <2>2. CASE k >= i
    <3>1. k - (i - 1) \in 1 .. Len(q) - i /\ i + (k - (i - 1)) = k + 1
      BY <1>0, <2>2
    <3>2. b[k - (i - 1)] = q[k + 1]
      BY <1>2, <3>1
    <3>3. ~(k <= i - 1) /\ ~(k < i)
      BY <1>0, <2>2
    <3>4. (a \o b)[k] = b[k - (i - 1)]
      BY <1>3, <3>3
    <3> QED BY <3>2, <3>3, <3>4
  <2>3. k < i \/ k >= i
    BY <1>0
  <2> QED BY <2>1, <2>2, <2>3
<1> QED BY <1>3, <1>4 DEF RemoveAt, a, b

-----------------------------------------------------------------------------
(***************************************************************************)
(* Lists without duplicates.                                               *)
(***************************************************************************)

\* Inserting a new element keeps a list free of duplicates, and adds exactly
\* that element.
LEMMA InsertAtSet ==
  ASSUME NEW S, NEW q \in Seq(S), NEW k \in 1 .. Len(q) + 1, NEW e \in S,
         IsInjective(q), e \notin ToSet(q)
  PROVE  /\ IsInjective(InsertAt(q, k, e))
         /\ ToSet(InsertAt(q, k, e)) = ToSet(q) \cup {e}
<1> DEFINE r == InsertAt(q, k, e)
           old(i) == IF i < k THEN i ELSE i - 1
<1>1. Len(q) \in Nat /\ k \in Nat /\ 1 <= k /\ k <= Len(q) + 1
  OBVIOUS
<1>2. /\ r \in Seq(S)
      /\ Len(r) = Len(q) + 1
      /\ \A i \in 1 .. Len(q) + 1 :
           r[i] = IF i < k THEN q[i] ELSE IF i = k THEN e ELSE q[i - 1]
  BY InsertAtElements
<1> HIDE DEF r
<1>d. DOMAIN q = 1 .. Len(q) /\ DOMAIN r = 1 .. Len(r)
  BY <1>2
<1>q. /\ \A i, j \in 1 .. Len(q) : q[i] = q[j] => i = j
      /\ \A i \in 1 .. Len(q) : q[i] # e
  BY <1>d DEF IsInjective, ToSet
<1>3. k \in 1 .. Len(r) /\ r[k] = e
  BY <1>1, <1>2
<1>4. ASSUME NEW i \in 1 .. Len(r), i # k
      PROVE  old(i) \in 1 .. Len(q) /\ r[i] = q[old(i)]
  <2>1. i \in 1 .. Len(q) + 1
    BY <1>2
  <2>2. CASE i < k
    BY <1>1, <1>2, <2>1, <2>2
  <2>3. CASE ~(i < k)
    <3>1. i - 1 \in 1 .. Len(q)
      BY <1>1, <1>4, <2>1, <2>3
    <3> QED BY <1>2, <1>4, <2>1, <2>3, <3>1
  <2> QED BY <2>2, <2>3
<1>5. ASSUME NEW i \in 1 .. Len(r), NEW j \in 1 .. Len(r), r[i] = r[j]
      PROVE  i = j
  <2>1. i = k <=> r[i] = e
    BY <1>3, <1>4, <1>q
  <2>2. j = k <=> r[j] = e
    BY <1>3, <1>4, <1>q
  <2>3. CASE i = k
    BY <1>5, <2>1, <2>2, <2>3
  <2>4. CASE i # k
    <3>1. j # k
      BY <1>5, <2>1, <2>2, <2>4
    <3>2. old(i) = old(j)
      BY <1>4, <1>5, <1>q, <2>4, <3>1, Zenon
    <3> QED BY <1>1, <1>2, <2>4, <3>1, <3>2
  <2> QED BY <2>3, <2>4
<1>6. ASSUME NEW j \in 1 .. Len(q)
      PROVE  \E i \in 1 .. Len(r) : r[i] = q[j]
  <2>1. CASE j < k
    BY <1>1, <1>2, <2>1
  <2>2. CASE ~(j < k)
    <3>1. /\ j + 1 \in 1 .. Len(r) /\ j + 1 \in 1 .. Len(q) + 1
          /\ ~(j + 1 < k) /\ j + 1 # k /\ (j + 1) - 1 = j
      BY <1>1, <1>2, <2>2
    <3>2. r[j + 1] = q[j]
      BY <1>2, <3>1
    <3> QED BY <3>1, <3>2
  <2> QED BY <2>1, <2>2
<1>7. IsInjective(r)
  BY <1>5, <1>d DEF IsInjective
<1>8. ToSet(r) = ToSet(q) \cup {e}
  <2>1. ASSUME NEW x \in ToSet(r) PROVE x \in ToSet(q) \cup {e}
    <3>1. PICK i \in 1 .. Len(r) : r[i] = x
      BY <1>d DEF ToSet
    <3>2. CASE i = k
      BY <1>3, <3>1, <3>2
    <3>3. CASE i # k
      BY <1>4, <1>d, <3>1, <3>3 DEF ToSet
    <3> QED BY <3>2, <3>3
  <2>2. ASSUME NEW x \in ToSet(q) \cup {e} PROVE x \in ToSet(r)
    BY <1>3, <1>6, <1>d DEF ToSet
  <2> QED BY <2>1, <2>2
<1> QED BY <1>7, <1>8 DEF r

\* Unlinking an element of a list without duplicates removes just that one.
LEMMA RemoveAtSet ==
  ASSUME NEW S, NEW q \in Seq(S), NEW k \in 1 .. Len(q), IsInjective(q)
  PROVE  /\ IsInjective(RemoveAt(q, k))
         /\ ToSet(RemoveAt(q, k)) = ToSet(q) \ {q[k]}
<1> DEFINE r == RemoveAt(q, k)
           old(i) == IF i < k THEN i ELSE i + 1
<1>1. Len(q) \in Nat /\ k \in Nat /\ 1 <= k /\ k <= Len(q)
  OBVIOUS
<1>2. /\ r \in Seq(S)
      /\ Len(r) = Len(q) - 1
      /\ \A i \in 1 .. Len(q) - 1 : r[i] = IF i < k THEN q[i] ELSE q[i + 1]
  BY RemoveAtElements
<1> HIDE DEF r
<1>3. DOMAIN q = 1 .. Len(q) /\ DOMAIN r = 1 .. Len(r)
  BY <1>2
<1>4. \A i, j \in 1 .. Len(q) : q[i] = q[j] => i = j
  BY <1>3 DEF IsInjective
<1>5. ASSUME NEW i \in 1 .. Len(r)
      PROVE  old(i) \in 1 .. Len(q) /\ old(i) # k /\ r[i] = q[old(i)]
  <2>1. i \in 1 .. Len(q) - 1
    BY <1>2
  <2>2. CASE i < k
    BY <1>1, <1>2, <2>1, <2>2
  <2>3. CASE ~(i < k)
    <3>1. i + 1 \in 1 .. Len(q) /\ i + 1 # k
      BY <1>1, <2>1, <2>3
    <3> QED BY <1>2, <2>1, <2>3, <3>1
  <2> QED BY <2>2, <2>3
<1>6. ASSUME NEW i \in 1 .. Len(r), NEW j \in 1 .. Len(r), r[i] = r[j]
      PROVE  i = j
  <2>1. old(i) = old(j)
    BY <1>4, <1>5, <1>6, Zenon
  <2> QED BY <1>1, <1>2, <2>1
<1>7. ASSUME NEW j \in 1 .. Len(q), j # k
      PROVE  \E i \in 1 .. Len(r) : r[i] = q[j]
  <2>1. CASE j < k
    BY <1>1, <1>2, <2>1
  <2>2. CASE ~(j < k)
    <3>1. /\ j - 1 \in 1 .. Len(r) /\ j - 1 \in 1 .. Len(q) - 1
          /\ ~(j - 1 < k) /\ (j - 1) + 1 = j
      BY <1>1, <1>2, <1>7, <2>2
    <3>2. r[j - 1] = q[j]
      BY <1>2, <3>1
    <3> QED BY <3>1, <3>2
  <2> QED BY <2>1, <2>2
<1>8. IsInjective(r)
  BY <1>3, <1>6 DEF IsInjective
<1>9. ToSet(r) = ToSet(q) \ {q[k]}
  <2>1. ASSUME NEW x \in ToSet(r) PROVE x \in ToSet(q) \ {q[k]}
    <3>1. PICK i \in 1 .. Len(r) : r[i] = x
      BY <1>3 DEF ToSet
    <3>2. old(i) \in 1 .. Len(q) /\ old(i) # k /\ x = q[old(i)]
      BY <1>5, <3>1
    <3> HIDE DEF old
    <3>3. x \in ToSet(q) /\ x # q[k]
      BY <1>1, <1>3, <1>4, <3>2 DEF ToSet
    <3> QED BY <3>3
  <2>2. ASSUME NEW x \in ToSet(q) \ {q[k]} PROVE x \in ToSet(r)
    BY <1>3, <1>7 DEF ToSet
  <2> QED BY <2>1, <2>2
<1> QED BY <1>8, <1>9 DEF r

\* The head of a list is one of its elements.
LEMMA HeadInSet ==
  ASSUME NEW S, NEW q \in Seq(S), q # << >>
  PROVE  Head(q) \in ToSet(q) /\ Head(q) = q[1]
  BY DEF ToSet

-----------------------------------------------------------------------------
(***************************************************************************)
(* The lists qs hold exactly the processes of R, each once and at the      *)
(* level lev gives it.  QueuesExact is this predicate of the RUNNABLE      *)
(* processes; the lemmas say how the two queue operations change it.       *)
(***************************************************************************)
Exact(qs, lev, R) ==
  \A lv \in Level : /\ IsInjective(qs[lv])
                    /\ ToSet(qs[lv]) = {p \in R : lev[p] = lv}

Runnable == {p \in Proc : state[p] = "RUNNABLE"}

\* QueuesExact in terms of Exact.
LEMMA QueuesExactIsExact == QueuesExact <=> Exact(queue, q_level, Runnable)
<1>1. \A lv \in Level : {p \in Proc : state[p] = "RUNNABLE" /\ q_level[p] = lv}
                        = {p \in Runnable : q_level[p] = lv}
  BY DEF Runnable
<1> HIDE DEF Runnable
<1> QED BY <1>1 DEF QueuesExact, Exact

\* add_to_queue finds a place in the list.
LEMMA InsertPosInRange ==
  ASSUME NEW q \in Seq(Proc), NEW io
  PROVE  InsertPos(q, io) \in 1 .. Len(q) + 1
<1> DEFINE T == {i \in 1 .. Len(q) : p_is_higher(io, q[i])}
<1>1. DOMAIN q = 1 .. Len(q) /\ Len(q) \in Nat
  OBVIOUS
<1>2. CASE T # {}
  <2>1. PICK i \in T : \A j \in T : i <= j
    <3>1. T \in SUBSET Nat
      BY <1>1
    <3> HIDE DEF T
    <3> QED BY <1>2, <3>1, LeastNat
  <2>2. /\ i \in DOMAIN q /\ p_is_higher(io, q[i])
        /\ \A j \in 1 .. i - 1 : ~p_is_higher(io, q[j])
    BY <1>1, <2>1
  <2>3. InsertPos(q, io) \in DOMAIN q
    BY <2>2 DEF InsertPos
  <2> QED BY <1>1, <2>3
<1>3. CASE T = {}
  <2>1. ~ \E i \in DOMAIN q : p_is_higher(io, q[i])
    BY <1>1, <1>3
  <2>2. InsertPos(q, io) = Len(q) + 1
    BY <2>1 DEF InsertPos
  <2> QED BY <1>1, <2>2
<1> QED BY <1>2, <1>3

\* add_to_queue of a process that is in no list.
LEMMA AddExact ==
  ASSUME NEW qs \in [Level -> Seq(Proc)], NEW lev \in [Proc -> Level],
         NEW R \in SUBSET Proc, Exact(qs, lev, R),
         NEW p \in Proc, p \notin R, NEW lv \in Level, NEW io
  PROVE  /\ add_to_queue(qs, p, lv, io) \in [Level -> Seq(Proc)]
         /\ Exact(add_to_queue(qs, p, lv, io), [lev EXCEPT ![p] = lv],
                  R \cup {p})
<1> DEFINE q == qs[lv]
           r == InsertAt(q, InsertPos(q, io), p)
           qs2 == add_to_queue(qs, p, lv, io)
           lev2 == [lev EXCEPT ![p] = lv]
<1>1. q \in Seq(Proc)
  OBVIOUS
<1>2. qs2 = [qs EXCEPT ![lv] = r]
  BY DEF add_to_queue
<1>3. InsertPos(q, io) \in 1 .. Len(q) + 1
  BY <1>1, InsertPosInRange
<1>4. IsInjective(q) /\ ToSet(q) = {x \in R : lev[x] = lv}
  BY DEF Exact
<1> HIDE DEF q
<1>5. r \in Seq(Proc)
  BY <1>1, <1>3, InsertAtElements
<1>6. p \notin ToSet(q)
  BY <1>4
<1>7. IsInjective(r) /\ ToSet(r) = ToSet(q) \cup {p}
  BY <1>1, <1>3, <1>4, <1>6, InsertAtSet
<1> HIDE DEF r, qs2
<1>8. ASSUME NEW l \in Level
      PROVE  /\ IsInjective(qs2[l])
             /\ ToSet(qs2[l]) = {x \in R \cup {p} : lev2[x] = l}
  <2>1. CASE l = lv
    <3>1. qs2[l] = r
      BY <1>2, <2>1
    <3>2. {x \in R \cup {p} : lev2[x] = l} = {x \in R : lev[x] = lv} \cup {p}
      BY <2>1
    <3> QED BY <1>4, <1>7, <3>1, <3>2
  <2>2. CASE l # lv
    <3>1. qs2[l] = qs[l]
      BY <1>2, <2>2
    <3>2. {x \in R \cup {p} : lev2[x] = l} = {x \in R : lev[x] = l}
      BY <2>2
    <3> QED BY <3>1, <3>2 DEF Exact
  <2> QED BY <2>1, <2>2
<1> HIDE DEF lev2
<1>9. Exact(qs2, lev2, R \cup {p})
  BY <1>8 DEF Exact
<1>10. qs2 \in [Level -> Seq(Proc)]
  BY <1>2, <1>5
<1> QED BY <1>9, <1>10 DEF qs2, lev2

\* remove_from_queue of a process that is in a list.
LEMMA RemoveExact ==
  ASSUME queue \in [Level -> Seq(Proc)], q_level \in [Proc -> Level],
         Exact(queue, q_level, Runnable), NEW p \in Runnable
  PROVE  /\ remove_from_queue(p) \in [Level -> Seq(Proc)]
         /\ Exact(remove_from_queue(p), q_level, Runnable \ {p})
<1> DEFINE lv == q_level[p]
           q == queue[lv]
           qs2 == remove_from_queue(p)
<1>1. p \in Proc /\ lv \in Level /\ q \in Seq(Proc)
  BY DEF Runnable
<1>2. IsInjective(q) /\ ToSet(q) = {x \in Runnable : q_level[x] = lv}
  BY <1>1 DEF Exact
<1>3. DOMAIN q = 1 .. Len(q)
  BY <1>1
<1>4. \E i \in DOMAIN q : q[i] = p
  <2>1. p \in ToSet(q)
    BY <1>2
  <2> QED BY <2>1 DEF ToSet
<1>5. PICK i \in DOMAIN q :
        q[i] = p /\ qs2 = [queue EXCEPT ![lv] = RemoveAt(q, i)]
  <2> DEFINE i0 == CHOOSE i \in DOMAIN q : q[i] = p
  <2>1. i0 \in DOMAIN q /\ q[i0] = p
    BY <1>4
  <2>2. qs2 = [queue EXCEPT ![lv] = RemoveAt(q, i0)]
    BY <1>4 DEF remove_from_queue
  <2> QED BY <2>1, <2>2
<1> DEFINE r == RemoveAt(q, i)
<1> HIDE DEF q, qs2, lv
<1>6. i \in 1 .. Len(q)
  BY <1>3
<1>7. r \in Seq(Proc)
  BY <1>1, <1>6, RemoveAtElements
<1>8. IsInjective(r) /\ ToSet(r) = ToSet(q) \ {p}
  BY <1>1, <1>2, <1>5, <1>6, RemoveAtSet
<1> HIDE DEF r
<1>9. qs2 = [queue EXCEPT ![lv] = r]
  BY <1>5 DEF r
<1>10. ASSUME NEW l \in Level
       PROVE  /\ IsInjective(qs2[l])
              /\ ToSet(qs2[l]) = {x \in Runnable \ {p} : q_level[x] = l}
  <2>1. CASE l = lv
    <3>1. qs2[l] = r
      BY <1>9, <2>1
    <3>2. {x \in Runnable \ {p} : q_level[x] = l}
            = {x \in Runnable : q_level[x] = lv} \ {p}
      BY <2>1
    <3> QED BY <1>2, <1>8, <3>1, <3>2
  <2>2. CASE l # lv
    <3>1. qs2[l] = queue[l]
      BY <1>9, <2>2
    <3>2. {x \in Runnable \ {p} : q_level[x] = l}
            = {x \in Runnable : q_level[x] = l}
      BY <2>2 DEF lv
    <3> QED BY <3>1, <3>2 DEF Exact
  <2> QED BY <2>1, <2>2
<1>11. Exact(qs2, q_level, Runnable \ {p})
  BY <1>10 DEF Exact
<1>12. qs2 \in [Level -> Seq(Proc)]
  BY <1>1, <1>7, <1>9
<1> QED BY <1>11, <1>12 DEF qs2

\* remove_from_queue of a process that is in no list changes nothing.
LEMMA RemoveNothing ==
  ASSUME queue \in [Level -> Seq(Proc)], q_level \in [Proc -> Level],
         Exact(queue, q_level, Runnable), NEW p \in Proc, p \notin Runnable
  PROVE  remove_from_queue(p) = queue
<1>1. p \notin ToSet(queue[q_level[p]])
  BY DEF Exact
<1>2. ~ \E i \in DOMAIN queue[q_level[p]] : queue[q_level[p]][i] = p
  BY <1>1 DEF ToSet
<1> QED BY <1>2 DEF remove_from_queue

\* The levels of processes that are in no list do not matter.
LEMMA KeepExact ==
  ASSUME NEW qs, NEW lev, NEW lev2, NEW R,
         Exact(qs, lev, R), \A p \in R : lev2[p] = lev[p]
  PROVE  Exact(qs, lev2, R)
<1>1. ASSUME NEW lv \in Level
      PROVE  {p \in R : lev2[p] = lv} = {p \in R : lev[p] = lv}
  OBVIOUS
<1> QED BY <1>1 DEF Exact

\* get_next_proc is a RUNNABLE process, and no RUNNABLE process is at a better
\* level; it is null only if nothing is RUNNABLE.
LEMMA NextProcBest ==
  ASSUME queue \in [Level -> Seq(Proc)], q_level \in [Proc -> Level],
         Exact(queue, q_level, Runnable), get_next_proc # Null
  PROVE  /\ get_next_proc \in Runnable
         /\ \A p \in Runnable : q_level[get_next_proc] <= q_level[p]
<1> DEFINE T == {l \in Level : queue[l] # << >>}
           Lowest(l) == /\ queue[l] # << >>
                        /\ \A m \in 0 .. l - 1 : queue[m] = << >>
<1>1. T # {} /\ T \in SUBSET Nat
  BY DEF get_next_proc, Level
<1>2. PICK l0 \in T : \A m \in T : l0 <= m
  <2> HIDE DEF T
  <2> QED BY <1>1, LeastNat
<1>3. \E l \in Level : Lowest(l)
  <2>1. \A m \in 0 .. l0 - 1 : queue[m] = << >>
    BY <1>2 DEF Level
  <2> QED BY <1>2, <2>1
<1>4. PICK l \in Level : Lowest(l) /\ get_next_proc = Head(queue[l])
  <2> DEFINE l1 == CHOOSE l \in Level : Lowest(l)
  <2>1. l1 \in Level /\ Lowest(l1)
    BY <1>3
  <2>2. get_next_proc = Head(queue[l1])
    BY <1>1 DEF get_next_proc
  <2> QED BY <2>1, <2>2
<1>5. get_next_proc \in ToSet(queue[l])
  BY <1>4, HeadInSet
<1>6. get_next_proc \in Runnable /\ q_level[get_next_proc] = l
  BY <1>5 DEF Exact
<1>7. ASSUME NEW p \in Runnable PROVE l <= q_level[p]
  <2>1. q_level[p] \in Level /\ p \in ToSet(queue[q_level[p]])
    BY DEF Exact, Runnable
  <2>2. queue[q_level[p]] # << >>
    BY <2>1 DEF ToSet
  <2> QED BY <1>4, <2>1, <2>2 DEF Level
<1> QED BY <1>6, <1>7

-----------------------------------------------------------------------------
(***************************************************************************)
(* The inductive invariant.  QueuesExact and RunningOnOneCpu need to know  *)
(* that a processor inside the timer handler or exit still has its         *)
(* process, and that the child fork works on stays an EMBRYO of that fork. *)
(***************************************************************************)
IInv == /\ TypeOK /\ QueuesExact /\ RunningOnOneCpu
        /\ CpuInv /\ ForkInv /\ StackInv

\* IInv is typed and exact, in the terms of the queue lemmas.
LEMMA IInvQueues ==
  ASSUME IInv
  PROVE  /\ TypeOK /\ RunningOnOneCpu /\ CpuInv /\ ForkInv /\ StackInv
         /\ queue \in [Level -> Seq(Proc)] /\ q_level \in [Proc -> Level]
         /\ Exact(queue, q_level, Runnable)
  BY QueuesExactIsExact DEF IInv, TypeOK

\* QueuesExact after a step, in terms of Exact.
LEMMA QueuesExactNext ==
  ASSUME NEW R, Runnable' = R, Exact(queue', q_level', R)
  PROVE  QueuesExact'
<1>1. \A lv \in Level : {p \in Proc : state'[p] = "RUNNABLE" /\ q_level'[p] = lv}
                        = {p \in R : q_level'[p] = lv}
  BY DEF Runnable
<1> QED BY <1>1 DEF QueuesExact, Exact

\* A step that changes neither queue, q_level nor who is RUNNABLE.
LEMMA QueuesKept ==
  ASSUME IInv, queue' = queue, q_level' = q_level, Runnable' = Runnable
  PROVE  QueuesExact'
<1>1. Exact(queue', q_level', Runnable)
  BY IInvQueues DEF Exact
<1> QED BY <1>1, QueuesExactNext

\* A step in which p, not RUNNABLE before, becomes RUNNABLE and is queued.
LEMMA EnqueueExact ==
  ASSUME IInv, NEW p \in Proc, p \notin Runnable, NEW lv \in Level, NEW io,
         Enqueue(queue, p, lv, io), state' = [state EXCEPT ![p] = "RUNNABLE"]
  PROVE  /\ queue' \in [Level -> Seq(Proc)]
         /\ q_level' \in [Proc -> Level]
         /\ queue_entry_time' \in [Proc -> Nat]
         /\ QueuesExact'
<1>1. /\ queue' \in [Level -> Seq(Proc)]
      /\ Exact(queue', q_level', Runnable \cup {p})
  BY IInvQueues, AddExact DEF Enqueue, Runnable
<1>2. Runnable' = Runnable \cup {p}
  BY DEF Runnable, IInv, TypeOK
<1>3. q_level' \in [Proc -> Level] /\ queue_entry_time' \in [Proc -> Nat]
  BY DEF Enqueue, IInv, TypeOK
<1> QED BY <1>1, <1>2, <1>3, QueuesExactNext

\* fork's work is not disturbed by steps that leave the EMBRYOs and the
\* processes inside fork alone.
LEMMA ForkInvKept ==
  ASSUME TypeOK, ForkInv, np' = np,
         \A q \in Proc : /\ pc'[q] \in ForkPoints => pc'[q] = pc[q]
                         /\ pc[q] \in ForkPoints /\ Live(q) => Live(q)'
                         /\ state[q] = "EMBRYO" => state'[q] = "EMBRYO"
                         /\ state[q] = "EMBRYO" /\ kstack[q] => kstack'[q]
  PROVE  ForkInv'
<1>1. \A q \in Proc : np[q] # Null => np[q] \in Proc
  BY DEF TypeOK
<1> QED BY <1>1 DEF ForkInv

\* Steps that change no processor's process, and no RUNNING process.
LEMMA RunningKept ==
  ASSUME TypeOK, RunningOnOneCpu, cproc' = cproc,
         \A q \in Proc : /\ state'[q] = "RUNNING" <=> state[q] = "RUNNING"
                         /\ state[q] = "RUNNING" /\ kstack[q] => kstack'[q]
  PROVE  RunningOnOneCpu'
<1>1. \A c \in CPU : cproc[c] # Null => cproc[c] \in Proc
  BY DEF TypeOK
<1> QED BY <1>1 DEF RunningOnOneCpu

\* sched: the process of c is RUNNING no longer and c has no process.
LEMMA RunningLeft ==
  ASSUME TypeOK, RunningOnOneCpu, NEW c \in CPU, cproc[c] # Null,
         NEW s, s # "RUNNING",
         cproc' = [cproc EXCEPT ![c] = Null],
         state' = [state EXCEPT ![cproc[c]] = s], kstack' = kstack
  PROVE  RunningOnOneCpu'
<1>1. \A d \in CPU : cproc[d] # Null => cproc[d] \in Proc
  BY DEF TypeOK
<1>2. \A d \in CPU : cproc'[d] # Null => d # c /\ cproc'[d] = cproc[d]
                                         /\ cproc[d] # cproc[c]
  BY DEF TypeOK, RunningOnOneCpu
<1>3. \A q \in Proc : q # cproc[c] => state'[q] = state[q]
  BY <1>1 DEF TypeOK
<1>4. state'[cproc[c]] # "RUNNING"
  BY <1>1 DEF TypeOK
<1>5. \A q \in Proc : state'[q] = "RUNNING" => \E d \in CPU : cproc'[d] = q
  <2> SUFFICES ASSUME NEW q \in Proc, state'[q] = "RUNNING"
               PROVE  \E d \in CPU : cproc'[d] = q
    OBVIOUS
  <2>1. q # cproc[c] /\ state[q] = "RUNNING"
    BY <1>3, <1>4
  <2>2. PICK d \in CPU : cproc[d] = q
    BY <2>1 DEF RunningOnOneCpu
  <2> QED BY <2>1, <2>2 DEF TypeOK
<1>6. \A d \in CPU : cproc'[d] # Null =>
        /\ state'[cproc'[d]] = "RUNNING"
        /\ kstack'[cproc'[d]]
        /\ \A e \in CPU : cproc'[e] = cproc'[d] => e = d
  BY <1>1, <1>2, <1>3 DEF RunningOnOneCpu
<1> QED BY <1>5, <1>6 DEF RunningOnOneCpu

\* The process of a processor is in the table and RUNNING.
LEMMA CurrentRuns ==
  ASSUME IInv, NEW c \in CPU, cproc[c] # Null
  PROVE  /\ cproc[c] \in Proc
         /\ state[cproc[c]] = "RUNNING"
         /\ kstack[cproc[c]]
         /\ \A d \in CPU : cproc[d] = cproc[c] => d = c
  BY DEF IInv, TypeOK, RunningOnOneCpu

-----------------------------------------------------------------------------
(***************************************************************************)
(* One lemma per action: a step of the action keeps IInv.                  *)
(***************************************************************************)
USE DEF identity, counters, placing

\* A device handler takes ptable.lock.
LEMMA DeviceIntrInv ==
  ASSUME IInv, NEW c \in CPU, NEW ch \in IoChan, DeviceIntr(c, ch)
  PROVE  IInv'
<1>1. TypeOK'
  BY DEF IInv, TypeOK, CpuPoints, ProcPoints, States, Types, DeviceIntr
<1>2. QueuesExact'
  BY QueuesKept DEF Runnable, DeviceIntr, Interruptible
<1>3. RunningOnOneCpu'
  BY RunningKept DEF IInv, DeviceIntr, Interruptible
<1>4. CpuInv'
  BY DEF IInv, TypeOK, CpuInv, ExitPoints, RunningOnOneCpu, DeviceIntr,
     Interruptible
<1>5. ForkInv'
  BY ForkInvKept DEF IInv, TypeOK, ForkPoints, Live, DeviceIntr, Interruptible
<1>6. StackInv'
  BY DEF IInv, StackInv, Live, DeviceIntr, Interruptible
<1> QED BY <1>1, <1>2, <1>3, <1>4, <1>5, <1>6 DEF IInv

\* A timer interrupt arrives.
LEMMA TimerIntrInv ==
  ASSUME IInv, NEW c \in CPU, TimerIntr(c)
  PROVE  IInv'
<1>1. TypeOK'
  BY DEF IInv, TypeOK, CpuPoints, ProcPoints, States, Types, TimerIntr
<1>2. QueuesExact'
  BY QueuesKept DEF Runnable, TimerIntr, Interruptible
<1>3. RunningOnOneCpu'
  BY RunningKept DEF IInv, TimerIntr, Interruptible
<1>4. CpuInv'
  BY DEF IInv, TypeOK, CpuInv, ExitPoints, RunningOnOneCpu, TimerIntr,
     Interruptible
<1>5. ForkInv'
  BY ForkInvKept DEF IInv, TypeOK, ForkPoints, Live, TimerIntr, Interruptible
<1>6. StackInv'
  BY DEF IInv, StackInv, Live, TimerIntr, Interruptible
<1> QED BY <1>1, <1>2, <1>3, <1>4, <1>5, <1>6 DEF IInv

\* The clock takes ptable.lock.
LEMMA TickWakeupInv ==
  ASSUME IInv, NEW c \in CPU, TickWakeup(c)
  PROVE  IInv'
<1>1. TypeOK'
  BY ConstantsAssumption DEF IInv, TypeOK, CpuPoints, ProcPoints, States,
     Types, TickWakeup
<1>2. QueuesExact'
  BY QueuesKept DEF Runnable, TickWakeup
<1>3. RunningOnOneCpu'
  BY RunningKept DEF IInv, TickWakeup
<1>4. CpuInv'
  BY DEF IInv, TypeOK, CpuInv, ExitPoints, RunningOnOneCpu, TickWakeup
<1>5. ForkInv'
  BY ForkInvKept DEF IInv, TypeOK, ForkPoints, Live, TickWakeup
<1>6. StackInv'
  BY DEF IInv, StackInv, Live, TickWakeup
<1> QED BY <1>1, <1>2, <1>3, <1>4, <1>5, <1>6 DEF IInv

\* A timer interrupt on an idle processor.
LEMMA TimerIdleInv ==
  ASSUME IInv, NEW c \in CPU, TimerIdle(c)
  PROVE  IInv'
<1>1. TypeOK'
  BY DEF IInv, TypeOK, CpuPoints, ProcPoints, States, Types, TimerIdle
<1>2. QueuesExact'
  BY QueuesKept DEF Runnable, TimerIdle
<1>3. RunningOnOneCpu'
  BY RunningKept DEF IInv, TimerIdle
<1>4. CpuInv'
  BY DEF IInv, TypeOK, CpuInv, ExitPoints, RunningOnOneCpu, TimerIdle
<1>5. ForkInv'
  BY ForkInvKept DEF IInv, TypeOK, ForkPoints, Live, TimerIdle
<1>6. StackInv'
  BY DEF IInv, StackInv, Live, TimerIdle
<1> QED BY <1>1, <1>2, <1>3, <1>4, <1>5, <1>6 DEF IInv

\* check_aging ends.
LEMMA AgeDoneInv ==
  ASSUME IInv, NEW c \in CPU, AgeDone(c)
  PROVE  IInv'
<1>1. TypeOK'
  BY DEF IInv, TypeOK, CpuPoints, ProcPoints, States, Types, AgeDone
<1>2. QueuesExact'
  BY QueuesKept DEF Runnable, AgeDone
<1>3. RunningOnOneCpu'
  BY RunningKept DEF IInv, AgeDone
<1>4. CpuInv'
  BY DEF IInv, TypeOK, CpuInv, ExitPoints, RunningOnOneCpu, AgeDone
<1>5. ForkInv'
  BY ForkInvKept DEF IInv, TypeOK, ForkPoints, Live, AgeDone
<1>6. StackInv'
  BY DEF IInv, StackInv, Live, AgeDone
<1> QED BY <1>1, <1>2, <1>3, <1>4, <1>5, <1>6 DEF IInv

\* The timer interrupt finds its process killed.
LEMMA TimerExitInv ==
  ASSUME IInv, NEW c \in CPU, TimerExit(c)
  PROVE  IInv'
<1>1. TypeOK'
  BY DEF IInv, TypeOK, CpuPoints, ProcPoints, States, Types, TimerExit
<1>2. QueuesExact'
  BY QueuesKept DEF Runnable, TimerExit
<1>3. RunningOnOneCpu'
  BY RunningKept DEF IInv, TimerExit
<1>4. CpuInv'
  BY DEF IInv, TypeOK, CpuInv, ExitPoints, RunningOnOneCpu, TimerExit
<1>5. ForkInv'
  BY ForkInvKept DEF IInv, TypeOK, ForkPoints, Live, TimerExit
<1>6. StackInv'
  BY DEF IInv, StackInv, Live, TimerExit
<1> QED BY <1>1, <1>2, <1>3, <1>4, <1>5, <1>6 DEF IInv

\* The last killed test of trap.
LEMMA TrapTailInv ==
  ASSUME IInv, NEW c \in CPU, TrapTail(c)
  PROVE  IInv'
<1>1. TypeOK'
  <2>1. pc' \in [Proc -> ProcPoints]
    BY DEF IInv, TypeOK, ProcPoints, TrapTail, SyscallReturn
  <2> QED BY <2>1 DEF IInv, TypeOK, TrapTail
<1>2. QueuesExact'
  BY QueuesKept DEF Runnable, TrapTail, At, SyscallReturn
<1>3. RunningOnOneCpu'
  BY RunningKept DEF IInv, TrapTail, At, SyscallReturn
<1>4. CpuInv'
  BY DEF IInv, TypeOK, CpuInv, ExitPoints, RunningOnOneCpu, TrapTail, At,
     SyscallReturn
<1>5. ForkInv'
  BY ForkInvKept DEF IInv, TypeOK, ForkPoints, Live, TrapTail, At,
     SyscallReturn
<1>6. StackInv'
  BY DEF IInv, StackInv, Live, TrapTail, At, SyscallReturn
<1> QED BY <1>1, <1>2, <1>3, <1>4, <1>5, <1>6 DEF IInv

\* A fault in user space.
LEMMA FaultInv ==
  ASSUME IInv, NEW c \in CPU, Fault(c)
  PROVE  IInv'
<1>1. TypeOK'
  <2>1. pc' \in [Proc -> ProcPoints]
    BY DEF IInv, TypeOK, ProcPoints, Fault
  <2> QED BY <2>1 DEF IInv, TypeOK, Fault
<1>2. QueuesExact'
  BY QueuesKept DEF Runnable, Fault, At, Syscall, SyscallReturn
<1>3. RunningOnOneCpu'
  BY RunningKept DEF IInv, Fault, At, Syscall, SyscallReturn
<1>4. CpuInv'
  BY DEF IInv, TypeOK, CpuInv, ExitPoints, RunningOnOneCpu, Fault, At, Syscall,
     SyscallReturn
<1>5. ForkInv'
  BY ForkInvKept DEF IInv, TypeOK, ForkPoints, Live, Fault, At, Syscall,
     SyscallReturn
<1>6. StackInv'
  BY DEF IInv, StackInv, Live, Fault, At, Syscall, SyscallReturn
<1> QED BY <1>1, <1>2, <1>3, <1>4, <1>5, <1>6 DEF IInv

\* A system call that may sleep.
LEMMA SysIoInv ==
  ASSUME IInv, NEW c \in CPU, SysIo(c)
  PROVE  IInv'
<1>1. TypeOK'
  <2>1. pc' \in [Proc -> ProcPoints]
    BY DEF IInv, TypeOK, ProcPoints, SysIo
  <2> QED BY <2>1 DEF IInv, TypeOK, SysIo
<1>2. QueuesExact'
  BY QueuesKept DEF Runnable, SysIo, At, Syscall, SyscallReturn
<1>3. RunningOnOneCpu'
  BY RunningKept DEF IInv, SysIo, At, Syscall, SyscallReturn
<1>4. CpuInv'
  BY DEF IInv, TypeOK, CpuInv, ExitPoints, RunningOnOneCpu, SysIo, At, Syscall,
     SyscallReturn
<1>5. ForkInv'
  BY ForkInvKept DEF IInv, TypeOK, ForkPoints, Live, SysIo, At, Syscall,
     SyscallReturn
<1>6. StackInv'
  BY DEF IInv, StackInv, Live, SysIo, At, Syscall, SyscallReturn
<1> QED BY <1>1, <1>2, <1>3, <1>4, <1>5, <1>6 DEF IInv

\* A system call returns.
LEMMA IoReturnInv ==
  ASSUME IInv, NEW c \in CPU, IoReturn(c)
  PROVE  IInv'
<1>1. TypeOK'
  <2>1. pc' \in [Proc -> ProcPoints]
    BY DEF IInv, TypeOK, ProcPoints, IoReturn, SyscallReturn
  <2> QED BY <2>1 DEF IInv, TypeOK, IoReturn
<1>2. QueuesExact'
  BY QueuesKept DEF Runnable, IoReturn, At, Syscall, SyscallReturn
<1>3. RunningOnOneCpu'
  BY RunningKept DEF IInv, IoReturn, At, Syscall, SyscallReturn
<1>4. CpuInv'
  BY DEF IInv, TypeOK, CpuInv, ExitPoints, RunningOnOneCpu, IoReturn, At,
     Syscall, SyscallReturn
<1>5. ForkInv'
  BY ForkInvKept DEF IInv, TypeOK, ForkPoints, Live, IoReturn, At, Syscall,
     SyscallReturn
<1>6. StackInv'
  BY DEF IInv, StackInv, Live, IoReturn, At, Syscall, SyscallReturn
<1> QED BY <1>1, <1>2, <1>3, <1>4, <1>5, <1>6 DEF IInv

\* The exit system call.
LEMMA SysExitInv ==
  ASSUME IInv, NEW c \in CPU, SysExit(c)
  PROVE  IInv'
<1>1. TypeOK'
  <2>1. pc' \in [Proc -> ProcPoints]
    BY DEF IInv, TypeOK, ProcPoints, SysExit
  <2> QED BY <2>1 DEF IInv, TypeOK, SysExit
<1>2. QueuesExact'
  BY QueuesKept DEF Runnable, SysExit, At, Syscall, SyscallReturn
<1>3. RunningOnOneCpu'
  BY RunningKept DEF IInv, SysExit, At, Syscall, SyscallReturn
<1>4. CpuInv'
  BY DEF IInv, TypeOK, CpuInv, ExitPoints, RunningOnOneCpu, SysExit, At,
     Syscall, SyscallReturn
<1>5. ForkInv'
  BY ForkInvKept DEF IInv, TypeOK, ForkPoints, Live, SysExit, At, Syscall,
     SyscallReturn
<1>6. StackInv'
  BY DEF IInv, StackInv, Live, SysExit, At, Syscall, SyscallReturn
<1> QED BY <1>1, <1>2, <1>3, <1>4, <1>5, <1>6 DEF IInv

\* scheduler dispatches the process that get_next_proc returns.
LEMMA SchedulerInv ==
  ASSUME IInv, NEW c \in CPU, Scheduler(c)
  PROVE  IInv'
<1> DEFINE p == get_next_proc
<1>1. /\ cproc[c] = Null /\ p # Null /\ kstack[p]
      /\ cproc' = [cproc EXCEPT ![c] = p]
      /\ state' = [state EXCEPT ![p] = "RUNNING"]
      /\ queue' = remove_from_queue(p)
      /\ chan' = [chan EXCEPT ![p] = Null]
      /\ ptlock' = IF pc[p] = "wait" THEN c ELSE NoCpu
      /\ UNCHANGED <<identity, counters, killed, end_time, q_level,
                     queue_entry_time, ticks, cpc, wchan, pc, np, shell>>
  BY DEF Scheduler
<1>2. p \in Runnable
  BY <1>1, IInvQueues, NextProcBest
<1> HIDE DEF p
<1>3. p \in Proc /\ state[p] = "RUNNABLE"
  BY <1>2 DEF Runnable
<1>4. /\ queue' \in [Level -> Seq(Proc)]
      /\ Exact(queue', q_level', Runnable \ {p})
  BY <1>1, <1>2, IInvQueues, RemoveExact
<1>5. TypeOK'
  BY <1>1, <1>3, <1>4 DEF IInv, TypeOK, States
<1>6. QueuesExact'
  <2>1. Runnable' = Runnable \ {p}
    BY <1>1, <1>3 DEF Runnable, IInv, TypeOK
  <2> QED BY <1>4, <2>1, QueuesExactNext
<1>7. \A q \in Proc : q # p => state'[q] = state[q]
  BY <1>1, <1>3 DEF IInv, TypeOK
<1>8. RunningOnOneCpu'
  <2>1. \A d \in CPU : d # c => cproc'[d] = cproc[d] /\ cproc[d] # p
    BY <1>1, <1>3 DEF IInv, TypeOK, RunningOnOneCpu
  <2>2. cproc'[c] = p /\ state'[p] = "RUNNING"
    BY <1>1, <1>3 DEF IInv, TypeOK
  <2>3. \A d \in CPU : cproc'[d] # Null =>
          /\ state'[cproc'[d]] = "RUNNING"
          /\ kstack'[cproc'[d]]
          /\ \A e \in CPU : cproc'[e] = cproc'[d] => e = d
    <3> SUFFICES ASSUME NEW d \in CPU, cproc'[d] # Null
                 PROVE  /\ state'[cproc'[d]] = "RUNNING"
                        /\ kstack'[cproc'[d]]
                        /\ \A e \in CPU : cproc'[e] = cproc'[d] => e = d
      OBVIOUS
    <3>1. CASE d = c
      BY <1>1, <2>1, <2>2, <3>1
    <3>2. CASE d # c
      BY <1>1, <1>7, <2>1, <2>2, <3>2, CurrentRuns
    <3> QED BY <3>1, <3>2
  <2>4. \A q \in Proc : state'[q] = "RUNNING" => \E d \in CPU : cproc'[d] = q
    <3> SUFFICES ASSUME NEW q \in Proc, state'[q] = "RUNNING", q # p
                 PROVE  \E d \in CPU : cproc'[d] = q
      BY <2>2
    <3>1. PICK d \in CPU : cproc[d] = q
      BY <1>7 DEF IInv, RunningOnOneCpu
    <3>2. d # c
      BY <1>1, <3>1 DEF Proc, Null
    <3> QED BY <2>1, <3>1, <3>2
  <2> QED BY <2>3, <2>4 DEF RunningOnOneCpu
<1>9. CpuInv'
  <2>1. \A d \in CPU : cproc[d] # Null => cproc'[d] = cproc[d]
    BY <1>1 DEF IInv, TypeOK
  <2> QED BY <1>1, <2>1 DEF IInv, CpuInv
<1>10. ForkInv'
  BY <1>1, <1>3, <1>7, ForkInvKept DEF IInv, TypeOK, Live
<1>11. StackInv'
  BY <1>1, <1>3, <1>7 DEF IInv, StackInv, Live
<1> QED BY <1>5, <1>6, <1>8, <1>9, <1>10, <1>11 DEF IInv

\* sleep: the process leaves its processor.
LEMMA SleepInv ==
  ASSUME IInv, NEW c \in CPU, NEW ch \in IoChan, Sleep(c, ch)
  PROVE  IInv'
<1>1. PICK p \in Proc :
        /\ cproc[c] = p /\ p # Null /\ cpc[c] = "run"
        /\ pc[p] \in {"io", "exit"}
        /\ chan' = [chan EXCEPT ![p] = ch]
        /\ state' = [state EXCEPT ![p] = "SLEEPING"]
        /\ cproc' = [cproc EXCEPT ![c] = Null]
        /\ UNCHANGED <<identity, counters, placing, killed, end_time, ticks,
                       ptlock, cpc, wchan, pc, np, shell>>
  BY DEF Sleep, At
<1>2. state[p] = "RUNNING" /\ kstack[p]
  BY <1>1, CurrentRuns
<1>3. TypeOK'
  BY <1>1 DEF IInv, TypeOK, States
<1>4. \A q \in Proc : state'[q] = IF q = p THEN "SLEEPING" ELSE state[q]
  BY <1>1 DEF IInv, TypeOK
<1>5. QueuesExact'
  <2>1. Runnable' = Runnable
    BY <1>2, <1>4 DEF Runnable
  <2> QED BY <1>1, <2>1, QueuesKept
<1>6. RunningOnOneCpu'
  BY <1>1, RunningLeft DEF IInv
<1>7. CpuInv'
  BY <1>1 DEF IInv, TypeOK, CpuInv, ExitPoints
<1>8. ForkInv'
  BY <1>1, <1>2, <1>4, ForkInvKept DEF IInv, TypeOK, Live
<1>9. StackInv'
  BY <1>1, <1>2, <1>4 DEF IInv, StackInv, Live
<1> QED BY <1>3, <1>5, <1>6, <1>7, <1>8, <1>9 DEF IInv

\* The common part of WakeOne and Kill: a sleeper becomes RUNNABLE.
LEMMA WokenInv ==
  ASSUME IInv, NEW p \in Proc, state[p] = "SLEEPING",
         state' = [state EXCEPT ![p] = "RUNNABLE"],
         Enqueue(queue, p, q_level[p], io_wait_time[p]),
         cproc' = cproc, kstack' = kstack
  PROVE  /\ state' \in [Proc -> States]
         /\ queue' \in [Level -> Seq(Proc)]
         /\ q_level' \in [Proc -> Level]
         /\ queue_entry_time' \in [Proc -> Nat]
         /\ QueuesExact' /\ RunningOnOneCpu' /\ StackInv'
         /\ \A q \in Proc : Live(q)' <=> Live(q)
         /\ \A q \in Proc : state[q] = "EMBRYO" => state'[q] = "EMBRYO"
<1>1. \A q \in Proc : state'[q] = IF q = p THEN "RUNNABLE" ELSE state[q]
  BY DEF IInv, TypeOK
<1>2. state' \in [Proc -> States]
  BY DEF IInv, TypeOK, States
<1>3. q_level[p] \in Level /\ p \notin Runnable
  BY DEF IInv, TypeOK, Runnable
<1>4. /\ queue' \in [Level -> Seq(Proc)]
      /\ q_level' \in [Proc -> Level]
      /\ queue_entry_time' \in [Proc -> Nat]
      /\ QueuesExact'
  BY <1>3, EnqueueExact
<1>5. RunningOnOneCpu'
  BY <1>1, RunningKept DEF IInv
<1>6. \A q \in Proc : Live(q)' <=> Live(q)
  BY <1>1 DEF Live
<1>7. StackInv'
  BY <1>6 DEF IInv, StackInv
<1> QED BY <1>1, <1>2, <1>4, <1>5, <1>6, <1>7

\* wakeup1 wakes a process.
LEMMA WakeOneInv ==
  ASSUME IInv, NEW c \in CPU, WakeOne(c)
  PROVE  IInv'
<1> DEFINE p == First(SleepersOn(wchan[c]))
<1>1. p \in Proc /\ state[p] = "SLEEPING"
  <2>1. SleepersOn(wchan[c]) \in SUBSET Nat /\ SleepersOn(wchan[c]) # {}
    BY ConstantsAssumption DEF WakeOne, SleepersOn, Proc
  <2>2. p \in SleepersOn(wchan[c])
    BY <2>1, FirstInSet
  <2> QED BY <2>2 DEF SleepersOn
<1>2. /\ state' = [state EXCEPT ![p] = "RUNNABLE"]
      /\ Enqueue(queue, p, q_level[p], io_wait_time[p])
      /\ UNCHANGED <<identity, counters, chan, killed, end_time, ticks, ptlock,
                     cproc, cpc, wchan, pc, np, shell>>
  BY DEF WakeOne
<1> HIDE DEF p
<1>3. /\ state' \in [Proc -> States]
      /\ queue' \in [Level -> Seq(Proc)]
      /\ q_level' \in [Proc -> Level]
      /\ queue_entry_time' \in [Proc -> Nat]
      /\ QueuesExact' /\ RunningOnOneCpu' /\ StackInv'
      /\ \A q \in Proc : Live(q)' <=> Live(q)
      /\ \A q \in Proc : state[q] = "EMBRYO" => state'[q] = "EMBRYO"
  BY <1>1, <1>2, WokenInv
<1>4. TypeOK'
  BY <1>2, <1>3 DEF IInv, TypeOK
<1>5. CpuInv'
  BY <1>2 DEF IInv, CpuInv
<1>6. ForkInv'
  BY <1>2, <1>3, ForkInvKept DEF IInv
<1> QED BY <1>3, <1>4, <1>5, <1>6 DEF IInv

\* wakeup1 ends.
LEMMA WakeDoneInv ==
  ASSUME IInv, NEW c \in CPU, WakeDone(c)
  PROVE  IInv'
<1> DEFINE to == CASE cpc[c] = "tickwake" -> "acct"
                   [] cpc[c] = "intrwake" -> "run"
                   [] cpc[c] = "exitwake" -> "reparent"
                   [] OTHER -> "zombie"
<1>1. /\ cpc[c] \in WakePoints
      /\ cpc' = [cpc EXCEPT ![c] = to]
      /\ wchan' = [wchan EXCEPT ![c] = Null]
      /\ UNCHANGED <<identity, counters, placing, state, chan, killed,
                     end_time, ticks, cproc, np, shell>>
  BY DEF WakeDone
<1>2. ptlock' \in CPU \cup {NoCpu}
  BY DEF WakeDone
<1>3. /\ to \in CpuPoints
      /\ to \notin {"age", "post"}
      /\ to \in ExitPoints => cpc[c] \in ExitPoints
  BY <1>1 DEF WakePoints, CpuPoints, ExitPoints
<1> HIDE DEF to
<1>4. /\ pc' \in [Proc -> ProcPoints]
      /\ \A q \in Proc : pc'[q] = pc[q] \/ (pc[q] = "user" /\ pc'[q] = "exit")
  <2>1. CASE cpc[c] = "intrwake" /\ cproc[c] # Null
    <3>1. cproc[c] \in Proc
      BY <2>1, CurrentRuns
    <3>2. pc' = [pc EXCEPT ![cproc[c]] =
                   IF pc[cproc[c]] = "user" /\ killed[cproc[c]]
                   THEN "exit" ELSE pc[cproc[c]]]
      BY <2>1 DEF WakeDone
    <3> QED BY <3>1, <3>2 DEF IInv, TypeOK, ProcPoints
  <2>2. CASE ~(cpc[c] = "intrwake" /\ cproc[c] # Null)
    <3>1. pc' = pc
      BY <2>2 DEF WakeDone
    <3> QED BY <3>1 DEF IInv, TypeOK
  <2> QED BY <2>1, <2>2
<1>5. TypeOK'
  BY <1>1, <1>2, <1>3, <1>4 DEF IInv, TypeOK
<1>6. QueuesExact'
  BY <1>1, QueuesKept DEF Runnable
<1>7. RunningOnOneCpu'
  BY <1>1, RunningKept DEF IInv
<1>8. CpuInv'
  <2> SUFFICES ASSUME NEW d \in CPU
               PROVE  /\ cpc'[d] \in {"age", "post"} => cproc[d] # Null
                      /\ cpc'[d] \in ExitPoints =>
                           cproc[d] # Null /\ pc'[cproc[d]] = "exit"
    BY <1>1 DEF CpuInv
  <2>1. /\ cpc'[d] \in {"age", "post"} => cpc[d] \in {"age", "post"}
        /\ cpc'[d] \in ExitPoints => cpc[d] \in ExitPoints
    BY <1>1, <1>3 DEF IInv, TypeOK
  <2>2. cproc[d] # Null /\ pc[cproc[d]] = "exit" => pc'[cproc[d]] = "exit"
    BY <1>4, CurrentRuns
  <2> QED BY <2>1, <2>2 DEF IInv, CpuInv
<1>9. ForkInv'
  BY <1>1, <1>4, ForkInvKept DEF IInv, ForkPoints, Live
<1>10. StackInv'
  BY <1>1 DEF IInv, StackInv, Live
<1> QED BY <1>5, <1>6, <1>7, <1>8, <1>9, <1>10 DEF IInv

\* update_all_proc_timers keeps a counter a natural number.
LEMMA UpdateTimersType ==
  ASSUME NEW f \in [Proc -> Nat], NEW st
  PROVE  update_timers(f, st) \in [Proc -> Nat]
  BY DEF update_timers

\* The accounting of the timer interrupt: only the levels of RUNNING processes
\* change, and those are in no list.
LEMMA TimerAcctInv ==
  ASSUME IInv, NEW c \in CPU, TimerAcct(c)
  PROVE  IInv'
<1> DEFINE p == cproc[c]
           burst == update_timers(cpu_burst, "RUNNING")
           wait  == update_timers(cpu_wait, "RUNNABLE")
           io    == update_timers(io_wait_time, "SLEEPING")
           total == update_timers(total_cpu_time, "RUNNING")
           over  == end_time[p] > 0 /\ total[p] >= end_time[p]
           used  == ~over /\ ~killed[p] /\ quantum_used(p, burst)
           down  == used /\ q_level[p] # 3
<1>1. /\ p # Null
      /\ total_cpu_time' = total
      /\ killed' = IF over THEN [killed EXCEPT ![p] = TRUE] ELSE killed
      /\ cpu_burst' = IF used THEN [burst EXCEPT ![p] = 0] ELSE burst
      /\ q_level' = IF down THEN [q_level EXCEPT ![p] = @ + 1] ELSE q_level
      /\ cpu_wait' = IF down THEN [wait EXCEPT ![p] = 0] ELSE wait
      /\ io_wait_time' = IF down THEN [io EXCEPT ![p] = 0] ELSE io
      /\ ptlock' = c
      /\ cpc' = [cpc EXCEPT ![c] = "age"]
      /\ UNCHANGED <<identity, state, chan, end_time, queue, queue_entry_time,
                     ticks, cproc, wchan, pc, np, shell>>
  BY DEF TimerAcct
<1>2. down => q_level[p] # 3
  OBVIOUS
<1>3. /\ burst \in [Proc -> Nat] /\ wait \in [Proc -> Nat]
      /\ io \in [Proc -> Nat] /\ total \in [Proc -> Nat]
  BY UpdateTimersType DEF IInv, TypeOK
<1> HIDE DEF burst, wait, io, total, over, used, down
<1>4. p \in Proc /\ state[p] = "RUNNING"
  BY <1>1, CurrentRuns
<1>5. /\ q_level' \in [Proc -> Level]
      /\ \A q \in Proc : q # p => q_level'[q] = q_level[q]
  <2>1. CASE down
    <3>1. q_level' = [q_level EXCEPT ![p] = q_level[p] + 1]
      BY <1>1, <2>1
    <3>2. q_level[p] + 1 \in Level
      <4>1. q_level[p] \in Level
        BY <1>4 DEF IInv, TypeOK
      <4> QED BY <1>2, <2>1, <4>1 DEF Level
    <3> QED BY <1>4, <3>1, <3>2 DEF IInv, TypeOK
  <2>2. CASE ~down
    BY <1>1, <2>2 DEF IInv, TypeOK
  <2> QED BY <2>1, <2>2
<1>6. /\ cpu_burst' \in [Proc -> Nat] /\ cpu_wait' \in [Proc -> Nat]
      /\ io_wait_time' \in [Proc -> Nat]
  BY <1>1, <1>3, <1>4
<1>7. killed' \in [Proc -> BOOLEAN]
  BY <1>1, <1>4 DEF IInv, TypeOK
<1>8. TypeOK'
  BY <1>1, <1>3, <1>5, <1>6, <1>7 DEF IInv, TypeOK, CpuPoints
<1>9. QueuesExact'
  <2>1. Runnable' = Runnable
    BY <1>1 DEF Runnable
  <2>2. \A q \in Runnable : q_level'[q] = q_level[q]
    BY <1>4, <1>5 DEF Runnable
  <2>3. Exact(queue, q_level', Runnable)
    BY <2>2, IInvQueues, KeepExact
  <2> QED BY <1>1, <2>1, <2>3, QueuesExactNext
<1>10. RunningOnOneCpu'
  BY <1>1, RunningKept DEF IInv
<1>11. CpuInv'
  BY <1>1 DEF IInv, TypeOK, CpuInv, ExitPoints
<1>12. ForkInv'
  BY <1>1, ForkInvKept DEF IInv, Live
<1>13. StackInv'
  BY <1>1 DEF IInv, StackInv, Live
<1> QED BY <1>8, <1>9, <1>10, <1>11, <1>12, <1>13 DEF IInv

\* What check_aging promotes is RUNNABLE, and its level is not 0.
LEMMA AgedProc ==
  ASSUME IInv, Aged # {}
  PROVE  LET lv == First(Aged)
             p  == queue[lv][First(AgedAt(lv))]
         IN  /\ p \in Proc /\ p \in Runnable
             /\ q_level[p] = lv /\ lv \in 1 .. 3
<1> DEFINE lv == First(Aged)
           i  == First(AgedAt(lv))
           p  == queue[lv][i]
<1>1. lv \in Aged
  <2>1. Aged \in SUBSET Nat
    BY DEF Aged, AgedLevels
  <2> QED BY <2>1, FirstInSet
<1> HIDE DEF lv
<1>2. lv \in 1 .. 3 /\ lv \in Level /\ AgedAt(lv) # {}
  <2>1. lv \in 1 .. 3 /\ AgedAt(lv) # {}
    BY <1>1 DEF Aged, AgedLevels
  <2> QED BY <2>1 DEF Level
<1>3. DOMAIN queue[lv] = 1 .. Len(queue[lv]) /\ queue[lv] \in Seq(Proc)
  BY <1>2 DEF IInv, TypeOK
<1>4. i \in AgedAt(lv)
  <2>1. AgedAt(lv) \in SUBSET Nat
    BY <1>3 DEF AgedAt
  <2> QED BY <1>2, <2>1, FirstInSet
<1>5. i \in DOMAIN queue[lv]
  BY <1>4 DEF AgedAt
<1>6. p \in ToSet(queue[lv])
  BY <1>5 DEF ToSet
<1>7. p \in Runnable /\ q_level[p] = lv
  BY <1>2, <1>6, IInvQueues DEF Exact
<1> QED BY <1>2, <1>7 DEF Runnable, lv

\* promote_process moves a process up by one list.
LEMMA AgeOneInv ==
  ASSUME IInv, NEW c \in CPU, AgeOne(c)
  PROVE  IInv'
<1> DEFINE lv == First(Aged)
           p  == queue[lv][First(AgedAt(lv))]
<1>1. /\ Aged # {}
      /\ Enqueue(remove_from_queue(p), p, lv - 1, io_wait_time[p])
      /\ cpu_wait' = [cpu_wait EXCEPT ![p] = 0]
      /\ cpu_burst' = [cpu_burst EXCEPT ![p] = 0]
      /\ UNCHANGED <<identity, io_wait_time, total_cpu_time, state, chan,
                     killed, end_time, ticks, ptlock, cproc, cpc, wchan, pc,
                     np, shell>>
  BY DEF AgeOne
<1>2. p \in Proc /\ p \in Runnable /\ lv \in 1 .. 3
  BY <1>1, AgedProc
<1> HIDE DEF lv, p
<1>3. lv - 1 \in Level
  BY <1>2 DEF Level
<1> DEFINE qs == remove_from_queue(p)
<1>4. qs \in [Level -> Seq(Proc)] /\ Exact(qs, q_level, Runnable \ {p})
  BY <1>2, IInvQueues, RemoveExact
<1> HIDE DEF qs
<1>5. /\ queue' = add_to_queue(qs, p, lv - 1, io_wait_time[p])
      /\ q_level' = [q_level EXCEPT ![p] = lv - 1]
      /\ queue_entry_time' = [queue_entry_time EXCEPT ![p] = ticks]
  BY <1>1 DEF Enqueue, qs
<1>6. /\ queue' \in [Level -> Seq(Proc)]
      /\ Exact(queue', q_level', (Runnable \ {p}) \cup {p})
  <2>1. p \notin Runnable \ {p} /\ Runnable \ {p} \in SUBSET Proc
    BY DEF Runnable
  <2> QED BY <1>2, <1>3, <1>4, <1>5, <2>1, IInvQueues, AddExact
<1>7. TypeOK'
  BY <1>1, <1>2, <1>3, <1>5, <1>6 DEF IInv, TypeOK
<1>8. QueuesExact'
  <2>1. Runnable' = (Runnable \ {p}) \cup {p}
    BY <1>1, <1>2 DEF Runnable
  <2> QED BY <1>6, <2>1, QueuesExactNext
<1>9. RunningOnOneCpu'
  BY <1>1, RunningKept DEF IInv
<1>10. CpuInv'
  BY <1>1 DEF IInv, CpuInv
<1>11. ForkInv'
  BY <1>1, ForkInvKept DEF IInv, Live
<1>12. StackInv'
  BY <1>1 DEF IInv, StackInv, Live
<1> QED BY <1>7, <1>8, <1>9, <1>10, <1>11, <1>12 DEF IInv

\* yield queues the process that the timer interrupted.
LEMMA TimerYieldInv ==
  ASSUME IInv, NEW c \in CPU, TimerYield(c)
  PROVE  IInv'
<1> DEFINE p == cproc[c]
<1>1. /\ cpc[c] = "post"
      /\ state' = [state EXCEPT ![p] = "RUNNABLE"]
      /\ Enqueue(queue, p, q_level[p], io_wait_time[p])
      /\ pc' = [pc EXCEPT ![p] = IF pc[p] = "user" THEN "tail" ELSE pc[p]]
      /\ cproc' = [cproc EXCEPT ![c] = Null]
      /\ cpc' = [cpc EXCEPT ![c] = "run"]
      /\ UNCHANGED <<identity, counters, chan, killed, end_time, ticks, ptlock,
                     wchan, np, shell>>
  BY DEF TimerYield
<1>2. p # Null /\ p \in Proc /\ state[p] = "RUNNING" /\ kstack[p]
      /\ \A d \in CPU : cproc[d] = p => d = c
  BY <1>1, CurrentRuns DEF IInv, CpuInv
<1>3. RunningOnOneCpu'
  BY <1>1, <1>2, RunningLeft DEF IInv
<1> HIDE DEF p
<1>4. \A q \in Proc : state'[q] = IF q = p THEN "RUNNABLE" ELSE state[q]
  BY <1>1, <1>2 DEF IInv, TypeOK
<1>5. q_level[p] \in Level /\ p \notin Runnable
  BY <1>2 DEF IInv, TypeOK, Runnable
<1>6. /\ queue' \in [Level -> Seq(Proc)]
      /\ q_level' \in [Proc -> Level]
      /\ queue_entry_time' \in [Proc -> Nat]
      /\ QueuesExact'
  BY <1>1, <1>2, <1>5, EnqueueExact
<1>7. /\ pc' \in [Proc -> ProcPoints]
      /\ \A q \in Proc : pc'[q] = pc[q] \/ (pc[q] = "user" /\ pc'[q] = "tail")
  BY <1>1, <1>2 DEF IInv, TypeOK, ProcPoints
<1>8. TypeOK'
  <2>1. state' \in [Proc -> States] /\ cpc' \in [CPU -> CpuPoints]
        /\ cproc' \in [CPU -> Proc \cup {Null}]
    BY <1>1, <1>2 DEF IInv, TypeOK, States, CpuPoints
  <2> QED BY <1>1, <1>6, <1>7, <2>1 DEF IInv, TypeOK
<1>9. CpuInv'
  <2> SUFFICES ASSUME NEW d \in CPU
               PROVE  /\ cpc'[d] \in {"age", "post"} => cproc'[d] # Null
                      /\ cpc'[d] \in ExitPoints =>
                           cproc'[d] # Null /\ pc'[cproc'[d]] = "exit"
    BY DEF CpuInv
  <2>1. CASE d = c
    BY <1>1, <2>1 DEF IInv, TypeOK, ExitPoints
  <2>2. CASE d # c
    <3>1. cpc'[d] = cpc[d] /\ cproc'[d] = cproc[d]
      BY <1>1, <2>2 DEF IInv, TypeOK
    <3>2. cproc[d] # Null /\ pc[cproc[d]] = "exit" => pc'[cproc[d]] = "exit"
      BY <1>7, CurrentRuns
    <3> QED BY <3>1, <3>2 DEF IInv, CpuInv
  <2> QED BY <2>1, <2>2
<1>10. ForkInv'
  BY <1>1, <1>2, <1>4, <1>7, ForkInvKept DEF IInv, Live, ForkPoints
<1>11. StackInv'
  BY <1>1, <1>2, <1>4 DEF IInv, StackInv, Live
<1> QED BY <1>3, <1>6, <1>8, <1>9, <1>10, <1>11 DEF IInv

\* set_proc_info changes the level of its caller, which is in no list.
LEMMA SetProcInfoInv ==
  ASSUME IInv, NEW c \in CPU, NEW a \in SetInfoArgs, SetProcInfo(c, a)
  PROVE  IInv'
<1>1. PICK p \in Proc :
        /\ cproc[c] = p /\ p # Null
        /\ q_level' = [q_level EXCEPT ![p] = a.q_level]
        /\ cpu_burst' = [cpu_burst EXCEPT ![p] = a.cpu_burst]
        /\ cpu_wait' = [cpu_wait EXCEPT ![p] = a.cpu_wait]
        /\ io_wait_time' = [io_wait_time EXCEPT ![p] = a.io_wait_time]
        /\ end_time' = [end_time EXCEPT ![p] = a.end_time]
        /\ UNCHANGED <<identity, total_cpu_time, queue_entry_time, queue,
                       state, chan, killed, ticks, ptlock, cproc, cpc, wchan,
                       pc, np, shell>>
  BY DEF SetProcInfo, Syscall, At
<1>2. /\ a.q_level \in Level /\ a.cpu_burst \in Nat /\ a.cpu_wait \in Nat
      /\ a.io_wait_time \in Nat /\ a.end_time \in Int
  BY ConstantsAssumption
<1>3. state[p] = "RUNNING"
  BY <1>1, CurrentRuns
<1>4. TypeOK'
  <2>1. /\ q_level' \in [Proc -> Level] /\ cpu_burst' \in [Proc -> Nat]
        /\ cpu_wait' \in [Proc -> Nat] /\ io_wait_time' \in [Proc -> Nat]
        /\ end_time' \in [Proc -> Int]
    BY <1>1, <1>2 DEF IInv, TypeOK
  <2> QED BY <1>1, <2>1 DEF IInv, TypeOK
<1>5. QueuesExact'
  <2>1. Runnable' = Runnable
    BY <1>1 DEF Runnable
  <2>2. \A q \in Runnable : q_level'[q] = q_level[q]
    BY <1>1, <1>3 DEF Runnable, IInv, TypeOK
  <2>3. Exact(queue, q_level', Runnable)
    BY <2>2, IInvQueues, KeepExact
  <2> QED BY <1>1, <2>1, <2>3, QueuesExactNext
<1>6. RunningOnOneCpu'
  BY <1>1, RunningKept DEF IInv
<1>7. CpuInv'
  BY <1>1 DEF IInv, CpuInv
<1>8. ForkInv'
  BY <1>1, ForkInvKept DEF IInv, Live
<1>9. StackInv'
  BY <1>1 DEF IInv, StackInv, Live
<1> QED BY <1>4, <1>5, <1>6, <1>7, <1>8, <1>9 DEF IInv

\* kill marks its victim and wakes it if it sleeps.
LEMMA KillInv ==
  ASSUME IInv, NEW c \in CPU, NEW k \in KillPids, Kill(c, k)
  PROVE  IInv'
<1> DEFINE p == First({q \in Proc : pid[q] = k})
<1>1. PICK caller \in Proc :
        /\ cproc[c] = caller /\ caller # Null /\ cpc[c] = "run"
        /\ pc[caller] = "user"
        /\ {q \in Proc : pid[q] = k} # {}
        /\ killed' = [killed EXCEPT ![p] = TRUE]
        /\ IF kill_wakes(p)
           THEN /\ state' = [state EXCEPT ![p] = "RUNNABLE"]
                /\ Enqueue(queue, p, q_level[p], io_wait_time[p])
           ELSE UNCHANGED <<state, placing>>
        /\ pc' = [pc EXCEPT ![caller] = IF p = caller THEN "exit"
                                        ELSE pc[caller]]
        /\ UNCHANGED <<identity, counters, chan, end_time, ticks, ptlock,
                       cproc, cpc, wchan, np, shell>>
  BY DEF Kill, Syscall, At
<1>2. p \in Proc
  <2>1. {q \in Proc : pid[q] = k} \in SUBSET Nat
    BY ConstantsAssumption DEF Proc
  <2> QED BY <1>1, <2>1, FirstInSet
<1> HIDE DEF p
<1>3. /\ state' \in [Proc -> States]
      /\ queue' \in [Level -> Seq(Proc)]
      /\ q_level' \in [Proc -> Level]
      /\ queue_entry_time' \in [Proc -> Nat]
      /\ QueuesExact' /\ RunningOnOneCpu' /\ StackInv'
      /\ \A q \in Proc : Live(q)' <=> Live(q)
      /\ \A q \in Proc : state[q] = "EMBRYO" => state'[q] = "EMBRYO"
  <2>1. CASE kill_wakes(p)
    BY <1>1, <1>2, <2>1, WokenInv DEF kill_wakes
  <2>2. CASE ~kill_wakes(p)
    <3>1. UNCHANGED <<state, placing, cproc, kstack>>
      BY <1>1, <2>2
    <3>2. QueuesExact'
      BY <3>1, QueuesKept DEF Runnable
    <3>3. RunningOnOneCpu'
      BY <3>1, RunningKept DEF IInv
    <3> QED BY <3>1, <3>2, <3>3 DEF IInv, TypeOK, StackInv, Live
  <2> QED BY <2>1, <2>2
<1>4. /\ pc' \in [Proc -> ProcPoints]
      /\ \A q \in Proc : pc'[q] = pc[q] \/ (pc[q] = "user" /\ pc'[q] = "exit")
  BY <1>1 DEF IInv, TypeOK, ProcPoints
<1>5. TypeOK'
  <2>1. killed' \in [Proc -> BOOLEAN]
    BY <1>1, <1>2 DEF IInv, TypeOK
  <2> QED BY <1>1, <1>3, <1>4, <2>1 DEF IInv, TypeOK
<1>6. CpuInv'
  <2>1. \A d \in CPU : cproc[d] # Null /\ pc[cproc[d]] = "exit"
                         => pc'[cproc[d]] = "exit"
    BY <1>4, CurrentRuns
  <2> QED BY <1>1, <2>1 DEF IInv, CpuInv
<1>7. ForkInv'
  BY <1>1, <1>3, <1>4, ForkInvKept DEF IInv, ForkPoints
<1> QED BY <1>3, <1>5, <1>6, <1>7 DEF IInv

\* allocproc makes an UNUSED slot the EMBRYO of this fork.
LEMMA ForkAllocInv ==
  ASSUME IInv, NEW c \in CPU, ForkAlloc(c)
  PROVE  IInv'
<1> DEFINE n == First(Unused)
<1>1. PICK p \in Proc :
        /\ cproc[c] = p /\ p # Null /\ cpc[c] = "run" /\ pc[p] = "user"
        /\ Unused # {}
        /\ state' = [state EXCEPT ![n] = "EMBRYO"]
        /\ pid' = [pid EXCEPT ![n] = nextpid]
        /\ nextpid' = nextpid + 1
        /\ q_level' = [q_level EXCEPT ![n] = 0]
        /\ cpu_burst' = [cpu_burst EXCEPT ![n] = 0]
        /\ cpu_wait' = [cpu_wait EXCEPT ![n] = 0]
        /\ io_wait_time' = [io_wait_time EXCEPT ![n] = 0]
        /\ end_time' = [end_time EXCEPT ![n] = -1]
        /\ total_cpu_time' = [total_cpu_time EXCEPT ![n] = 0]
        /\ queue_entry_time' = [queue_entry_time EXCEPT ![n] = 0]
        /\ np' = [np EXCEPT ![p] = n]
        /\ pc' = [pc EXCEPT ![p] = "fkstack"]
        /\ UNCHANGED <<parent, type, kstack, queue, chan, killed, ticks,
                       ptlock, cproc, cpc, wchan, shell>>
  BY DEF ForkAlloc, Syscall, At
<1>2. n \in Proc /\ state[n] = "UNUSED"
  <2>1. Unused \in SUBSET Nat
    BY ConstantsAssumption DEF Unused, Proc
  <2>2. n \in Unused
    BY <1>1, <2>1, FirstInSet
  <2> QED BY <2>2 DEF Unused
<1> HIDE DEF n
<1>3. state[p] = "RUNNING" /\ kstack[p]
  BY <1>1, CurrentRuns
<1>4. /\ \A q \in Proc : state'[q] = IF q = n THEN "EMBRYO" ELSE state[q]
      /\ \A q \in Proc : pc'[q] = IF q = p THEN "fkstack" ELSE pc[q]
      /\ \A q \in Proc : np'[q] = IF q = p THEN n ELSE np[q]
      /\ n # p
  BY <1>1, <1>2, <1>3 DEF IInv, TypeOK
<1>5. TypeOK'
  <2>1. /\ state' \in [Proc -> States] /\ pid' \in [Proc -> Nat]
        /\ nextpid' \in Nat /\ q_level' \in [Proc -> Level]
    <3>1. 0 \in Level /\ "EMBRYO" \in States
      BY DEF Level, States
    <3>2. nextpid \in Nat /\ nextpid' \in Nat
      BY <1>1 DEF IInv, TypeOK
    <3>3. pid' = [pid EXCEPT ![n] = nextpid] /\ pid' \in [Proc -> Nat]
      BY <1>1, <3>2 DEF IInv, TypeOK
    <3>4. state' \in [Proc -> States] /\ q_level' \in [Proc -> Level]
      BY <1>1, <3>1 DEF IInv, TypeOK
    <3> QED BY <3>2, <3>3, <3>4
  <2>2. /\ cpu_burst' \in [Proc -> Nat] /\ cpu_wait' \in [Proc -> Nat]
        /\ io_wait_time' \in [Proc -> Nat] /\ total_cpu_time' \in [Proc -> Nat]
    BY <1>1, <1>2 DEF IInv, TypeOK
  <2>3. end_time' \in [Proc -> Int] /\ queue_entry_time' \in [Proc -> Nat]
    <3>1. -1 \in Int /\ 0 \in Nat
      OBVIOUS
    <3>2. end_time' = [end_time EXCEPT ![n] = -1]
          /\ queue_entry_time' = [queue_entry_time EXCEPT ![n] = 0]
      BY <1>1
    <3> QED BY <1>2, <3>1, <3>2 DEF IInv, TypeOK
  <2>4. np' \in [Proc -> Proc \cup {Null}] /\ pc' \in [Proc -> ProcPoints]
    BY <1>1, <1>2 DEF IInv, TypeOK, ProcPoints
  <2> QED BY <1>1, <2>1, <2>2, <2>3, <2>4 DEF IInv, TypeOK
<1>6. QueuesExact'
  <2>1. Runnable' = Runnable
    BY <1>2, <1>4 DEF Runnable
  <2>2. \A q \in Runnable : q_level'[q] = q_level[q]
    BY <1>1, <1>2 DEF Runnable, IInv, TypeOK
  <2>3. Exact(queue, q_level', Runnable)
    BY <2>2, IInvQueues, KeepExact
  <2> QED BY <1>1, <2>1, <2>3, QueuesExactNext
<1>7. RunningOnOneCpu'
  BY <1>1, <1>2, <1>4, RunningKept DEF IInv
<1>8. CpuInv'
  <2> SUFFICES ASSUME NEW d \in CPU
               PROVE  /\ cpc[d] \in {"age", "post"} => cproc[d] # Null
                      /\ cpc[d] \in ExitPoints =>
                           cproc[d] # Null /\ pc'[cproc[d]] = "exit"
    BY <1>1 DEF CpuInv
  <2>1. cproc[d] # Null /\ pc[cproc[d]] = "exit" => pc'[cproc[d]] = "exit"
    BY <1>1, <1>4, CurrentRuns
  <2> QED BY <2>1 DEF IInv, CpuInv
<1>9. ForkInv'
  <2>1. ASSUME NEW q \in Proc, pc'[q] \in ForkPoints, q # p
        PROVE  /\ pc[q] \in ForkPoints /\ pc'[q] = pc[q] /\ np'[q] = np[q]
               /\ np[q] \in Proc /\ np[q] # Null /\ np[q] # n
               /\ Live(q) /\ state[np[q]] = "EMBRYO"
               /\ pc[q] # "fkstack" => kstack[np[q]]
    <3>1. pc[q] \in ForkPoints /\ pc'[q] = pc[q] /\ np'[q] = np[q]
      BY <1>4, <2>1
    <3>2. /\ np[q] # Null /\ Live(q) /\ state[np[q]] = "EMBRYO"
          /\ pc[q] # "fkstack" => kstack[np[q]]
      BY <3>1 DEF IInv, ForkInv
    <3> QED BY <1>2, <3>1, <3>2 DEF IInv, TypeOK
  <2>2. n # Null /\ Live(p)'
    BY <1>2, <1>3, <1>4 DEF Live, Proc, Null
  <2>3. \A q \in Proc : pc'[q] \in ForkPoints =>
          /\ Live(q)'
          /\ np'[q] # Null
          /\ state'[np'[q]] = "EMBRYO"
          /\ pc'[q] # "fkstack" => kstack'[np'[q]]
    <3> SUFFICES ASSUME NEW q \in Proc, pc'[q] \in ForkPoints
                 PROVE  /\ Live(q)'
                        /\ np'[q] # Null
                        /\ state'[np'[q]] = "EMBRYO"
                        /\ pc'[q] # "fkstack" => kstack'[np'[q]]
      OBVIOUS
    <3>1. CASE q = p
      BY <1>2, <1>4, <2>2, <3>1
    <3>2. CASE q # p
      <4>1. q # n
        BY <1>2, <2>1, <3>2 DEF Live
      <4> QED BY <1>1, <1>4, <2>1, <3>2, <4>1 DEF Live
    <3> QED BY <3>1, <3>2
  <2>4. \A q, r \in Proc : pc'[q] \in ForkPoints /\ pc'[r] \in ForkPoints
                           /\ np'[q] = np'[r] => q = r
    <3> SUFFICES ASSUME NEW q \in Proc, NEW r \in Proc,
                        pc'[q] \in ForkPoints, pc'[r] \in ForkPoints,
                        np'[q] = np'[r]
                 PROVE  q = r
      OBVIOUS
    <3>1. CASE q = p
      BY <1>4, <2>1, <3>1
    <3>2. CASE r = p
      BY <1>4, <2>1, <3>2
    <3>3. CASE q # p /\ r # p
      BY <2>1, <3>3 DEF IInv, ForkInv
    <3> QED BY <3>1, <3>2, <3>3
  <2> QED BY <2>3, <2>4 DEF ForkInv
<1>10. StackInv'
  BY <1>1, <1>4 DEF IInv, StackInv, Live
<1> QED BY <1>5, <1>6, <1>7, <1>8, <1>9, <1>10 DEF IInv

\* What a process inside fork knows of its child.
LEMMA ForkChild ==
  ASSUME IInv, NEW c \in CPU, NEW p \in Proc, cproc[c] = p, p # Null,
         pc[p] \in ForkPoints
  PROVE  /\ state[p] = "RUNNING" /\ kstack[p]
         /\ np[p] \in Proc /\ np[p] # p /\ state[np[p]] = "EMBRYO"
         /\ pc[p] # "fkstack" => kstack[np[p]]
         /\ \A q \in Proc : pc[q] \in ForkPoints /\ np[q] = np[p] => q = p
         /\ pc[np[p]] \notin ForkPoints
<1>1. state[p] = "RUNNING" /\ kstack[p]
  BY CurrentRuns
<1>2. /\ np[p] # Null /\ state[np[p]] = "EMBRYO"
      /\ pc[p] # "fkstack" => kstack[np[p]]
      /\ \A q \in Proc : pc[q] \in ForkPoints /\ np[q] = np[p] => q = p
  BY DEF IInv, ForkInv
<1>3. np[p] \in Proc
  BY <1>2 DEF IInv, TypeOK
<1>4. pc[np[p]] \notin ForkPoints
  BY <1>2, <1>3 DEF IInv, ForkInv, Live
<1> QED BY <1>1, <1>2, <1>3, <1>4

\* The steps of fork before its critical section: p goes on to the point l, or
\* gives its child's slot back.  Only the EMBRYO np[p] and p's own place in the
\* code change.
LEMMA ForkStepInv ==
  ASSUME IInv, NEW c \in CPU, NEW p \in Proc, cproc[c] = p, p # Null,
         pc[p] \in {"fkstack", "fcopy"},
         \/ /\ kstack' = [kstack EXCEPT ![np[p]] = TRUE]
            /\ pc' = [pc EXCEPT ![p] =
                        IF pc[p] = "fkstack" THEN "fcopy" ELSE "ffinish"]
            /\ UNCHANGED <<state, np>>
         \/ ForkUndo(p),
         parent' \in [Proc -> Proc \cup {Null}],
         UNCHANGED <<pid, type, nextpid, counters, placing, chan, killed,
                     end_time, ticks, ptlock, cproc, cpc, wchan, shell>>
  PROVE  IInv'
<1> DEFINE n == np[p]
<1>1. /\ state[p] = "RUNNING" /\ kstack[p]
      /\ n \in Proc /\ n # p /\ state[n] = "EMBRYO"
      /\ \A q \in Proc : pc[q] \in ForkPoints /\ np[q] = n => q = p
      /\ pc[n] \notin ForkPoints
  BY ForkChild DEF ForkPoints
<1>2. /\ state' \in [Proc -> States]
      /\ kstack' \in [Proc -> BOOLEAN]
      /\ np' \in [Proc -> Proc \cup {Null}]
      /\ pc' \in [Proc -> ProcPoints]
      /\ \A q \in Proc : q # n => state'[q] = state[q] /\ kstack'[q] = kstack[q]
      /\ \A q \in Proc : q # p => pc'[q] = pc[q] /\ np'[q] = np[q]
      /\ \/ state'[n] = "EMBRYO" /\ kstack'[n] /\ np'[p] = n
         \/ state'[n] = "UNUSED" /\ pc'[p] \in {"user", "exit"}
  <2>1. CASE ForkUndo(p)
    <3>1. /\ kstack' = [kstack EXCEPT ![n] = FALSE]
          /\ state' = [state EXCEPT ![n] = "UNUSED"]
          /\ np' = [np EXCEPT ![p] = Null]
          /\ pc' = [pc EXCEPT ![p] = IF killed[p] THEN "exit" ELSE "user"]
      BY <2>1 DEF ForkUndo, SyscallReturn
    <3> HIDE DEF n
    <3> QED BY <1>1, <3>1 DEF IInv, TypeOK, States, ProcPoints
  <2>2. CASE ~ForkUndo(p)
    <3>1. /\ kstack' = [kstack EXCEPT ![n] = TRUE]
          /\ pc' = [pc EXCEPT ![p] =
                      IF pc[p] = "fkstack" THEN "fcopy" ELSE "ffinish"]
          /\ UNCHANGED <<state, np>>
      BY <2>2
    <3>2. np'[p] = n
      BY <3>1
    <3> HIDE DEF n
    <3> QED BY <1>1, <3>1, <3>2 DEF IInv, TypeOK, ProcPoints
  <2> QED BY <2>1, <2>2
<1> HIDE DEF n
<1>3. TypeOK'
  BY <1>2 DEF IInv, TypeOK
<1>4. QueuesExact'
  <2>1. Runnable' = Runnable
    BY <1>1, <1>2 DEF Runnable
  <2> QED BY <2>1, QueuesKept
<1>5. RunningOnOneCpu'
  BY <1>1, <1>2, RunningKept DEF IInv
<1>6. CpuInv'
  <2>1. \A d \in CPU : cproc[d] # Null /\ pc[cproc[d]] = "exit"
                         => pc'[cproc[d]] = "exit"
    BY <1>2, CurrentRuns
  <2> QED BY <2>1 DEF IInv, CpuInv
<1>7. ForkInv'
  <2>1. ASSUME NEW q \in Proc, pc'[q] \in ForkPoints
        PROVE  /\ pc[q] \in ForkPoints /\ np'[q] = np[q]
               /\ Live(q)' /\ np'[q] # Null
               /\ state'[np'[q]] = "EMBRYO"
               /\ pc'[q] # "fkstack" => kstack'[np'[q]]
    <3>1. CASE q = p
      <4>1. state'[n] = "EMBRYO" /\ kstack'[n] /\ np'[p] = n
        BY <1>2, <2>1, <3>1 DEF ForkPoints
      <4>2. Live(q)' /\ n # Null
        BY <1>1, <1>2, <3>1 DEF Live, Proc, Null
      <4> QED BY <3>1, <4>1, <4>2 DEF n, ForkPoints
    <3>2. CASE q # p
      <4>1. pc[q] \in ForkPoints /\ pc'[q] = pc[q] /\ np'[q] = np[q]
        BY <1>2, <2>1, <3>2
      <4>2. /\ np[q] # Null /\ Live(q) /\ state[np[q]] = "EMBRYO"
            /\ pc[q] # "fkstack" => kstack[np[q]]
        BY <4>1 DEF IInv, ForkInv
      <4>3. np[q] \in Proc /\ np[q] # n /\ q # n
        BY <1>1, <3>2, <4>1, <4>2 DEF IInv, TypeOK
      <4> QED BY <1>2, <4>1, <4>2, <4>3 DEF Live
    <3> QED BY <3>1, <3>2
  <2> QED BY <2>1 DEF IInv, ForkInv
<1>8. StackInv'
  <2>1. ASSUME NEW q \in Proc, Live(q)' PROVE kstack'[q]
    <3>1. q # n
      BY <1>2, <2>1 DEF Live
    <3> QED BY <1>2, <2>1, <3>1 DEF IInv, StackInv, Live
  <2> QED BY <2>1 DEF StackInv
<1> QED BY <1>3, <1>4, <1>5, <1>6, <1>7, <1>8 DEF IInv

\* allocproc allocates the kernel stack, or fails.
LEMMA ForkKstackInv ==
  ASSUME IInv, NEW c \in CPU, ForkKstack(c)
  PROVE  IInv'
<1>1. PICK p \in Proc :
        /\ At(c, p, "fkstack")
        /\ \/ /\ kstack' = [kstack EXCEPT ![np[p]] = TRUE]
              /\ pc' = [pc EXCEPT ![p] = "fcopy"]
              /\ UNCHANGED <<state, parent, np>>
           \/ ForkUndo(p)
        /\ UNCHANGED <<pid, type, nextpid, counters, placing, chan, killed,
                       end_time, ticks, ptlock, cproc, cpc, wchan, shell>>
  BY DEF ForkKstack
<1>2. cproc[c] = p /\ p # Null /\ pc[p] = "fkstack"
  BY <1>1 DEF At
<1>3. parent' = parent
  BY <1>1 DEF ForkUndo
<1>4. parent' \in [Proc -> Proc \cup {Null}]
  BY <1>3 DEF IInv, TypeOK
<1>5. \/ /\ kstack' = [kstack EXCEPT ![np[p]] = TRUE]
         /\ pc' = [pc EXCEPT ![p] =
                     IF pc[p] = "fkstack" THEN "fcopy" ELSE "ffinish"]
         /\ UNCHANGED <<state, np>>
      \/ ForkUndo(p)
  BY <1>1, <1>2
<1> QED BY <1>1, <1>2, <1>4, <1>5, ForkStepInv

\* fork copies the address space and sets the child's parent, or fails.
LEMMA ForkCopyInv ==
  ASSUME IInv, NEW c \in CPU, ForkCopy(c)
  PROVE  IInv'
<1>1. PICK p \in Proc :
        /\ At(c, p, "fcopy")
        /\ \/ /\ parent' = [parent EXCEPT ![np[p]] = p]
              /\ pc' = [pc EXCEPT ![p] = "ffinish"]
              /\ UNCHANGED <<state, kstack, np>>
           \/ ForkUndo(p)
        /\ UNCHANGED <<pid, type, nextpid, counters, placing, chan, killed,
                       end_time, ticks, ptlock, cproc, cpc, wchan, shell>>
  BY DEF ForkCopy
<1>2. cproc[c] = p /\ p # Null /\ pc[p] = "fcopy"
  BY <1>1 DEF At
<1>3. parent' \in [Proc -> Proc \cup {Null}]
  <2>1. parent' = parent \/ parent' = [parent EXCEPT ![np[p]] = p]
    BY <1>1 DEF ForkUndo
  <2> QED BY <2>1 DEF IInv, TypeOK
<1>4. kstack[np[p]] /\ np[p] \in Proc
  BY <1>2, ForkChild DEF ForkPoints
<1>5. kstack = [kstack EXCEPT ![np[p]] = TRUE]
  BY <1>4 DEF IInv, TypeOK
<1>6. \/ /\ kstack' = [kstack EXCEPT ![np[p]] = TRUE]
         /\ pc' = [pc EXCEPT ![p] =
                     IF pc[p] = "fkstack" THEN "fcopy" ELSE "ffinish"]
         /\ UNCHANGED <<state, np>>
      \/ ForkUndo(p)
  <2>1. CASE ForkUndo(p)
    BY <2>1
  <2>2. CASE ~ForkUndo(p)
    <3>1. /\ kstack' = kstack /\ pc' = [pc EXCEPT ![p] = "ffinish"]
          /\ UNCHANGED <<state, np>>
      BY <1>1, <2>2
    <3>2. kstack' = [kstack EXCEPT ![np[p]] = TRUE]
      BY <1>5, <3>1
    <3> QED BY <1>2, <3>1, <3>2
  <2> QED BY <2>1, <2>2
<1> QED BY <1>1, <1>2, <1>3, <1>6, ForkStepInv

\* fork makes its child RUNNABLE.
LEMMA ForkFinishInv ==
  ASSUME IInv, NEW c \in CPU, ForkFinish(c)
  PROVE  IInv'
<1>1. PICK p \in Proc :
        /\ cproc[c] = p /\ p # Null /\ pc[p] = "ffinish"
        /\ state' = [state EXCEPT ![np[p]] = "RUNNABLE"]
        /\ type' = IF pid[p] = 1 THEN [type EXCEPT ![np[p]] = "SHELL"] ELSE type
        /\ cpu_burst' = [cpu_burst EXCEPT ![np[p]] = 0]
        /\ cpu_wait' = [cpu_wait EXCEPT ![np[p]] = 0]
        /\ io_wait_time' = [io_wait_time EXCEPT ![np[p]] = 0]
        /\ end_time' = [end_time EXCEPT ![np[p]] = -1]
        /\ total_cpu_time' = [total_cpu_time EXCEPT ![np[p]] = 0]
        /\ Enqueue(queue, np[p], IF pid[p] = 1 THEN 3 ELSE 0, 0)
        /\ pc' = [pc EXCEPT ![p] = IF killed[p] THEN "exit" ELSE "user",
                            ![np[p]] = "user"]
        /\ np' = [np EXCEPT ![p] = Null]
        /\ shell' = IF p = InitProc THEN np[p] ELSE shell
        /\ UNCHANGED <<pid, parent, kstack, nextpid, chan, killed, ticks,
                       ptlock, cproc, cpc, wchan>>
  BY DEF ForkFinish, At
<1> DEFINE n == np[p]
           lv == IF pid[p] = 1 THEN 3 ELSE 0
<1>2. /\ state[p] = "RUNNING" /\ kstack[p]
      /\ n \in Proc /\ n # p /\ state[n] = "EMBRYO" /\ kstack[n]
      /\ \A q \in Proc : pc[q] \in ForkPoints /\ np[q] = n => q = p
  BY <1>1, ForkChild DEF ForkPoints
<1>3. lv \in Level
  BY DEF Level
<1>4. /\ Enqueue(queue, n, lv, 0)
      /\ state' = [state EXCEPT ![n] = "RUNNABLE"]
      /\ n \notin Runnable
  BY <1>1, <1>2 DEF Runnable
<1> HIDE DEF lv
<1>5. /\ queue' \in [Level -> Seq(Proc)]
      /\ q_level' \in [Proc -> Level]
      /\ queue_entry_time' \in [Proc -> Nat]
      /\ QueuesExact'
  BY <1>2, <1>3, <1>4, EnqueueExact
<1>6. /\ \A q \in Proc : state'[q] = IF q = n THEN "RUNNABLE" ELSE state[q]
      /\ \A q \in Proc : q # p => np'[q] = np[q]
      /\ \A q \in Proc : q # p /\ q # n => pc'[q] = pc[q]
      /\ pc'[p] \in {"exit", "user"} /\ pc'[n] = "user"
      /\ pc' \in [Proc -> ProcPoints]
  BY <1>1, <1>2 DEF IInv, TypeOK, ProcPoints
<1>7. TypeOK'
  <2>1. state' \in [Proc -> States] /\ type' \in [Proc -> Types]
    BY <1>1, <1>2 DEF IInv, TypeOK, States, Types
  <2>2. /\ cpu_burst' \in [Proc -> Nat] /\ cpu_wait' \in [Proc -> Nat]
        /\ io_wait_time' \in [Proc -> Nat] /\ total_cpu_time' \in [Proc -> Nat]
    BY <1>1, <1>2 DEF IInv, TypeOK
  <2>3. end_time' \in [Proc -> Int]
    <3>1. -1 \in Int /\ end_time' = [end_time EXCEPT ![n] = -1]
      BY <1>1
    <3> QED BY <1>2, <3>1 DEF IInv, TypeOK
  <2>4. np' \in [Proc -> Proc \cup {Null}] /\ shell' \in Proc \cup {Null}
    BY <1>1, <1>2 DEF IInv, TypeOK
  <2> QED BY <1>1, <1>5, <1>6, <2>1, <2>2, <2>3, <2>4 DEF IInv, TypeOK
<1>8. RunningOnOneCpu'
  BY <1>1, <1>2, <1>6, RunningKept DEF IInv
<1>9. CpuInv'
  <2>1. \A d \in CPU : cproc[d] # Null /\ pc[cproc[d]] = "exit"
                         => pc'[cproc[d]] = "exit"
    BY <1>1, <1>2, <1>6, CurrentRuns
  <2> QED BY <1>1, <2>1 DEF IInv, CpuInv
<1>10. ForkInv'
  <2>1. ASSUME NEW q \in Proc, pc'[q] \in ForkPoints
        PROVE  /\ pc[q] \in ForkPoints /\ np'[q] = np[q]
               /\ Live(q)' /\ np'[q] # Null
               /\ state'[np'[q]] = "EMBRYO"
               /\ pc'[q] # "fkstack" => kstack'[np'[q]]
    <3>1. q # p /\ q # n
      BY <1>6, <2>1 DEF ForkPoints
    <3>2. pc[q] \in ForkPoints /\ pc'[q] = pc[q] /\ np'[q] = np[q]
      BY <1>6, <2>1, <3>1
    <3>3. /\ np[q] # Null /\ Live(q) /\ state[np[q]] = "EMBRYO"
          /\ pc[q] # "fkstack" => kstack[np[q]]
      BY <3>2 DEF IInv, ForkInv
    <3>4. np[q] \in Proc /\ np[q] # n
      BY <1>2, <3>1, <3>2, <3>3 DEF IInv, TypeOK
    <3> QED BY <1>1, <1>6, <3>1, <3>2, <3>3, <3>4 DEF Live
  <2> QED BY <2>1 DEF IInv, ForkInv
<1>11. StackInv'
  BY <1>1, <1>2, <1>6 DEF IInv, StackInv, Live
<1> QED BY <1>5, <1>7, <1>8, <1>9, <1>10, <1>11 DEF IInv

\* exit takes the lock; its process is RUNNING, so it is in no list.
LEMMA ExitBeginInv ==
  ASSUME IInv, NEW c \in CPU, ExitBegin(c)
  PROVE  IInv'
<1>1. PICK p \in Proc :
        /\ cproc[c] = p /\ p # Null /\ pc[p] = "exit"
        /\ queue' = remove_from_queue(p)
        /\ ptlock' = c
        /\ cpc' = [cpc EXCEPT ![c] = "exitwake"]
        /\ wchan' = [wchan EXCEPT ![c] = parent[p]]
        /\ UNCHANGED <<identity, counters, q_level, queue_entry_time, state,
                       chan, killed, end_time, ticks, cproc, pc, np, shell>>
  BY DEF ExitBegin, At, exit_wakes
<1>2. queue' = queue
  <2>1. p \notin Runnable
    BY <1>1, CurrentRuns DEF Runnable
  <2> QED BY <1>1, <2>1, IInvQueues, RemoveNothing
<1>3. TypeOK'
  BY <1>1, <1>2 DEF IInv, TypeOK, CpuPoints
<1>4. QueuesExact'
  BY <1>1, <1>2, QueuesKept DEF Runnable
<1>5. RunningOnOneCpu'
  BY <1>1, RunningKept DEF IInv
<1>6. CpuInv'
  BY <1>1 DEF IInv, TypeOK, CpuInv, ExitPoints
<1>7. ForkInv'
  BY <1>1, ForkInvKept DEF IInv, Live
<1>8. StackInv'
  BY <1>1 DEF IInv, StackInv, Live
<1> QED BY <1>3, <1>4, <1>5, <1>6, <1>7, <1>8 DEF IInv

\* exit hands its children to init.
LEMMA ReparentInv ==
  ASSUME IInv, NEW c \in CPU, Reparent(c)
  PROVE  IInv'
<1>1. /\ cpc[c] = "reparent"
      /\ parent' = [q \in Proc |-> IF q \in Children(cproc[c]) THEN InitProc
                                   ELSE parent[q]]
      /\ \/ /\ cpc' = [cpc EXCEPT ![c] = "initwake"]
            /\ wchan' = [wchan EXCEPT ![c] = InitProc]
         \/ /\ cpc' = [cpc EXCEPT ![c] = "zombie"]
            /\ wchan' = wchan
      /\ UNCHANGED <<pid, type, kstack, nextpid, counters, placing, state,
                     chan, killed, end_time, ticks, ptlock, cproc, pc, np,
                     shell>>
  BY DEF Reparent
<1>2. InitProc \in Proc
  BY ConstantsAssumption DEF InitProc, Proc
<1>3. TypeOK'
  <2>1. parent' \in [Proc -> Proc \cup {Null}]
    BY <1>1, <1>2 DEF IInv, TypeOK
  <2>2. /\ cpc' \in [CPU -> CpuPoints]
        /\ wchan' \in [CPU -> Proc \cup IoChan \cup {Null}]
    BY <1>1, <1>2 DEF IInv, TypeOK, CpuPoints
  <2> QED BY <1>1, <2>1, <2>2 DEF IInv, TypeOK
<1>4. QueuesExact'
  BY <1>1, QueuesKept DEF Runnable
<1>5. RunningOnOneCpu'
  BY <1>1, RunningKept DEF IInv
<1>6. CpuInv'
  <2>1. \A d \in CPU : /\ cpc'[d] \in {"age", "post"} => cpc'[d] = cpc[d]
                       /\ cpc'[d] \in ExitPoints => cpc[d] \in ExitPoints
    BY <1>1 DEF IInv, TypeOK, ExitPoints
  <2> QED BY <1>1, <2>1 DEF IInv, CpuInv
<1>7. ForkInv'
  BY <1>1, ForkInvKept DEF IInv, Live
<1>8. StackInv'
  BY <1>1 DEF IInv, StackInv, Live
<1> QED BY <1>3, <1>4, <1>5, <1>6, <1>7, <1>8 DEF IInv

\* exit becomes a ZOMBIE and leaves its processor.
LEMMA ExitFinishInv ==
  ASSUME IInv, NEW c \in CPU, ExitFinish(c)
  PROVE  IInv'
<1> DEFINE p == cproc[c]
<1>1. /\ cpc[c] = "zombie"
      /\ state' = [state EXCEPT ![p] = "ZOMBIE"]
      /\ cproc' = [cproc EXCEPT ![c] = Null]
      /\ cpc' = [cpc EXCEPT ![c] = "run"]
      /\ ptlock' = NoCpu
      /\ UNCHANGED <<identity, counters, placing, chan, killed, end_time,
                     ticks, wchan, pc, np, shell>>
  BY DEF ExitFinish
<1>2. p # Null /\ pc[p] = "exit"
  BY <1>1 DEF IInv, CpuInv, ExitPoints
<1>3. p \in Proc /\ state[p] = "RUNNING"
  BY <1>2, CurrentRuns
<1>4. RunningOnOneCpu'
  BY <1>1, <1>2, RunningLeft DEF IInv
<1> HIDE DEF p
<1>5. \A q \in Proc : state'[q] = IF q = p THEN "ZOMBIE" ELSE state[q]
  BY <1>1, <1>3 DEF IInv, TypeOK
<1>6. TypeOK'
  BY <1>1, <1>3 DEF IInv, TypeOK, States, CpuPoints
<1>7. QueuesExact'
  <2>1. Runnable' = Runnable
    BY <1>3, <1>5 DEF Runnable
  <2> QED BY <1>1, <2>1, QueuesKept
<1>8. CpuInv'
  BY <1>1 DEF IInv, TypeOK, CpuInv, ExitPoints
<1>9. ForkInv'
  BY <1>1, <1>2, <1>3, <1>5, ForkInvKept DEF IInv, Live, ForkPoints
<1>10. StackInv'
  BY <1>1, <1>5 DEF IInv, StackInv, Live
<1> QED BY <1>4, <1>6, <1>7, <1>8, <1>9, <1>10 DEF IInv

\* wait reaps a ZOMBIE, gives up or sleeps.
LEMMA WaitInv ==
  ASSUME IInv, NEW c \in CPU, Wait(c)
  PROVE  IInv'
<1>1. PICK p \in Proc :
        /\ cproc[c] = p /\ p # Null /\ cpc[c] = "run"
        /\ pc[p] \in {"user", "wait"}
        /\ LET zombies == {q \in Children(p) : state[q] = "ZOMBIE"} IN
           \/ /\ zombies # {}
              /\ LET z == First(zombies) IN
                 /\ kstack' = [kstack EXCEPT ![z] = FALSE]
                 /\ pid' = [pid EXCEPT ![z] = 0]
                 /\ parent' = [parent EXCEPT ![z] = Null]
                 /\ killed' = [killed EXCEPT ![z] = FALSE]
                 /\ state' = [state EXCEPT ![z] = "UNUSED"]
                 /\ shell' = IF p = InitProc /\ z = shell THEN Null ELSE shell
              /\ SyscallReturn(p)
              /\ UNCHANGED <<chan, cproc>>
           \/ /\ SyscallReturn(p)
              /\ shell' = IF p = InitProc THEN Null ELSE shell
              /\ UNCHANGED <<kstack, pid, parent, killed, state, chan, cproc>>
           \/ /\ chan' = [chan EXCEPT ![p] = p]
              /\ state' = [state EXCEPT ![p] = "SLEEPING"]
              /\ cproc' = [cproc EXCEPT ![c] = Null]
              /\ pc' = [pc EXCEPT ![p] = "wait"]
              /\ UNCHANGED <<kstack, pid, parent, killed, shell>>
        /\ ptlock' = NoCpu
        /\ UNCHANGED <<type, nextpid, counters, placing, end_time, ticks, cpc,
                       wchan, np>>
  BY DEF Wait, Syscall, At
<1> DEFINE zombies == {q \in Children(p) : state[q] = "ZOMBIE"}
           z == First(zombies)
           Reap  == /\ zombies # {}
                    /\ kstack' = [kstack EXCEPT ![z] = FALSE]
                    /\ pid' = [pid EXCEPT ![z] = 0]
                    /\ parent' = [parent EXCEPT ![z] = Null]
                    /\ killed' = [killed EXCEPT ![z] = FALSE]
                    /\ state' = [state EXCEPT ![z] = "UNUSED"]
                    /\ shell' \in {Null, shell}
                    /\ SyscallReturn(p)
                    /\ UNCHANGED <<chan, cproc>>
           GiveUp == /\ SyscallReturn(p)
                     /\ shell' \in {Null, shell}
                     /\ UNCHANGED <<kstack, pid, parent, killed, state, chan,
                                    cproc>>
           Block == /\ chan' = [chan EXCEPT ![p] = p]
                    /\ state' = [state EXCEPT ![p] = "SLEEPING"]
                    /\ cproc' = [cproc EXCEPT ![c] = Null]
                    /\ pc' = [pc EXCEPT ![p] = "wait"]
                    /\ UNCHANGED <<kstack, pid, parent, killed, shell>>
<1>2. Reap \/ GiveUp \/ Block
  BY <1>1
<1>3. /\ state[p] = "RUNNING" /\ kstack[p]
      /\ \A d \in CPU : cproc[d] = p => d = c
  BY <1>1, CurrentRuns
<1>4. zombies # {} => z \in Proc /\ state[z] = "ZOMBIE" /\ z # p
  <2>1. zombies \in SUBSET Nat /\ zombies \in SUBSET Proc
    BY ConstantsAssumption DEF Children, Proc
  <2>2. zombies # {} => z \in zombies
    <3> HIDE DEF zombies
    <3> QED BY <2>1, FirstInSet
  <2> QED BY <1>3, <2>1, <2>2
<1> HIDE DEF zombies, z
<1>5. /\ pc' \in [Proc -> ProcPoints]
      /\ \A q \in Proc : q # p => pc'[q] = pc[q]
      /\ pc'[p] \in {"exit", "user", "wait"}
  <2>1. PICK l \in {"exit", "user", "wait"} : pc' = [pc EXCEPT ![p] = l]
    BY <1>2 DEF SyscallReturn
  <2> QED BY <2>1 DEF IInv, TypeOK, ProcPoints
<1>6. TypeOK'
  <2>0. shell' \in Proc \cup {Null}
    BY <1>2 DEF IInv, TypeOK
  <2>1. CASE Reap
    <3>1. /\ kstack' \in [Proc -> BOOLEAN] /\ pid' \in [Proc -> Nat]
          /\ parent' \in [Proc -> Proc \cup {Null}]
          /\ killed' \in [Proc -> BOOLEAN] /\ state' \in [Proc -> States]
      BY <1>4, <2>1 DEF IInv, TypeOK, States
    <3> QED BY <1>1, <1>5, <2>0, <2>1, <3>1 DEF IInv, TypeOK
  <2>2. CASE GiveUp
    BY <1>1, <1>5, <2>0, <2>2 DEF IInv, TypeOK
  <2>3. CASE Block
    <3>1. /\ chan' \in [Proc -> Proc \cup IoChan \cup {Null}]
          /\ state' \in [Proc -> States]
          /\ cproc' \in [CPU -> Proc \cup {Null}]
      BY <2>3 DEF IInv, TypeOK, States
    <3> QED BY <1>1, <1>5, <2>0, <2>3, <3>1 DEF IInv, TypeOK
  <2> QED BY <1>2, <2>1, <2>2, <2>3
<1>7. \A q \in Proc :
        \/ state'[q] = state[q] /\ kstack'[q] = kstack[q]
        \/ state[q] = "ZOMBIE" /\ state'[q] = "UNUSED"
        \/ q = p /\ state'[q] = "SLEEPING" /\ kstack'[q] = kstack[q]
  <2>1. CASE Reap
    BY <1>4, <2>1 DEF IInv, TypeOK
  <2>2. CASE GiveUp
    BY <2>2
  <2>3. CASE Block
    BY <2>3 DEF IInv, TypeOK
  <2> QED BY <1>2, <2>1, <2>2, <2>3
<1>8. QueuesExact'
  <2>1. Runnable' = Runnable
    BY <1>3, <1>7 DEF Runnable
  <2> QED BY <1>1, <2>1, QueuesKept
<1>9. RunningOnOneCpu'
  <2>1. CASE Reap
    <3>1. \A q \in Proc : /\ state'[q] = "RUNNING" <=> state[q] = "RUNNING"
                          /\ state[q] = "RUNNING" => kstack'[q] = kstack[q]
      BY <1>4, <2>1 DEF IInv, TypeOK
    <3> QED BY <2>1, <3>1, RunningKept DEF IInv
  <2>2. CASE GiveUp
    BY <2>2, RunningKept DEF IInv
  <2>3. CASE Block
    BY <1>1, <2>3, RunningLeft DEF IInv
  <2> QED BY <1>2, <2>1, <2>2, <2>3
<1>10. CpuInv'
  <2> SUFFICES ASSUME NEW d \in CPU
               PROVE  /\ cpc[d] \in {"age", "post"} => cproc'[d] # Null
                      /\ cpc[d] \in ExitPoints =>
                           cproc'[d] # Null /\ pc'[cproc'[d]] = "exit"
    BY <1>1 DEF CpuInv
  <2>1. CASE d = c
    BY <1>1, <2>1 DEF ExitPoints
  <2>2. CASE d # c
    <3>1. cproc'[d] = cproc[d]
      BY <1>2, <2>2 DEF IInv, TypeOK
    <3>2. cproc[d] # Null => cproc[d] \in Proc /\ cproc[d] # p
      BY <1>3, <2>2, CurrentRuns
    <3> QED BY <1>5, <3>1, <3>2 DEF IInv, CpuInv
  <2> QED BY <2>1, <2>2
<1>11. ForkInv'
  <2>1. \A q \in Proc : pc'[q] \in ForkPoints => pc'[q] = pc[q]
    BY <1>5 DEF ForkPoints
  <2>2. \A q \in Proc : /\ pc[q] \in ForkPoints /\ Live(q) => Live(q)'
                        /\ state[q] = "EMBRYO" => state'[q] = "EMBRYO"
                        /\ state[q] = "EMBRYO" /\ kstack[q] => kstack'[q]
    BY <1>3, <1>7 DEF Live
  <2> QED BY <1>1, <2>1, <2>2, ForkInvKept DEF IInv
<1>12. StackInv'
  BY <1>3, <1>7 DEF IInv, StackInv, Live
<1> QED BY <1>6, <1>8, <1>9, <1>10, <1>11, <1>12 DEF IInv

-----------------------------------------------------------------------------
(***************************************************************************)
(* The theorems.                                                           *)
(***************************************************************************)

\* What main leaves for the schedulers satisfies IInv.
LEMMA InitIInv == Init => IInv
<1> SUFFICES ASSUME Init PROVE IInv
  OBVIOUS
<1>1. InitProc \in Proc /\ InitProc # Null /\ \A p \in Proc : p # Null
  BY ConstantsAssumption DEF InitProc, Proc, Null
<1>2. 0 \in Level /\ 3 \in Level /\ <<InitProc>> \in Seq(Proc)
      /\ << >> \in Seq(Proc) /\ -1 \in Int
  BY <1>1 DEF Level
<1>3. TypeOK
  <2>1. /\ state \in [Proc -> States] /\ pid \in [Proc -> Nat]
        /\ nextpid \in Nat /\ parent \in [Proc -> Proc \cup {Null}]
        /\ chan \in [Proc -> Proc \cup IoChan \cup {Null}]
        /\ killed \in [Proc -> BOOLEAN] /\ kstack \in [Proc -> BOOLEAN]
        /\ type \in [Proc -> Types]
    BY DEF Init, States, Types
  <2>2. /\ q_level \in [Proc -> Level] /\ queue \in [Level -> Seq(Proc)]
    BY <1>2 DEF Init
  <2>3. /\ cpu_burst \in [Proc -> Nat] /\ cpu_wait \in [Proc -> Nat]
        /\ io_wait_time \in [Proc -> Nat] /\ total_cpu_time \in [Proc -> Nat]
        /\ end_time \in [Proc -> Int] /\ queue_entry_time \in [Proc -> Nat]
        /\ ticks \in Nat
    BY <1>2 DEF Init
  <2>4. /\ ptlock \in CPU \cup {NoCpu} /\ cproc \in [CPU -> Proc \cup {Null}]
        /\ cpc \in [CPU -> CpuPoints]
        /\ wchan \in [CPU -> Proc \cup IoChan \cup {Null}]
        /\ pc \in [Proc -> ProcPoints] /\ np \in [Proc -> Proc \cup {Null}]
        /\ shell \in Proc \cup {Null}
    BY DEF Init, CpuPoints, ProcPoints
  <2> QED BY <2>1, <2>2, <2>3, <2>4 DEF TypeOK
<1>4. QueuesExact
  <2> SUFFICES ASSUME NEW lv \in Level
               PROVE  /\ IsInjective(queue[lv])
                      /\ ToSet(queue[lv]) = {p \in Proc : state[p] = "RUNNABLE"
                                                       /\ q_level[p] = lv}
    BY DEF QueuesExact
  <2>1. \A p \in Proc : state[p] = "RUNNABLE" <=> p = InitProc
    BY DEF Init
  <2>2. q_level[InitProc] = 3
    BY <1>1 DEF Init
  <2>3. CASE lv = 3
    <3>1. queue[lv] = <<InitProc>>
      BY <2>3 DEF Init
    <3>2. {p \in Proc : state[p] = "RUNNABLE" /\ q_level[p] = lv} = {InitProc}
      BY <1>1, <2>1, <2>2, <2>3
    <3>3. IsInjective(<<InitProc>>) /\ ToSet(<<InitProc>>) = {InitProc}
      BY DEF IsInjective, ToSet
    <3> QED BY <3>1, <3>2, <3>3
  <2>4. CASE lv # 3
    <3>1. queue[lv] = << >>
      BY <2>4 DEF Init
    <3>2. {p \in Proc : state[p] = "RUNNABLE" /\ q_level[p] = lv} = {}
      BY <1>1, <2>1, <2>2, <2>4
    <3>3. IsInjective(<< >>) /\ ToSet(<< >>) = {}
      BY DEF IsInjective, ToSet
    <3> QED BY <3>1, <3>2, <3>3
  <2> QED BY <2>3, <2>4
<1>5. RunningOnOneCpu
  BY DEF Init, RunningOnOneCpu
<1>6. CpuInv
  BY DEF Init, CpuInv, ExitPoints
<1>7. ForkInv
  BY DEF Init, ForkInv, ForkPoints
<1>8. StackInv
  BY DEF Init, StackInv, Live
<1> QED BY <1>3, <1>4, <1>5, <1>6, <1>7, <1>8 DEF IInv

\* Every step keeps IInv.
LEMMA NextIInv == IInv /\ [Next]_vars => IInv'
<1> SUFFICES ASSUME IInv, [Next]_vars PROVE IInv'
  OBVIOUS
<1>1. CASE UNCHANGED vars
  <2>1. UNCHANGED <<state, chan, killed, end_time, ticks, ptlock, cproc, cpc,
                    wchan, pc, np, shell, identity, counters, placing>>
    BY <1>1 DEF vars
  <2>2. TypeOK'
    BY <2>1 DEF IInv, TypeOK
  <2>3. QueuesExact'
    BY <2>1, QueuesKept DEF Runnable
  <2>4. RunningOnOneCpu'
    BY <2>1, RunningKept DEF IInv
  <2>5. CpuInv'
    BY <2>1 DEF IInv, CpuInv
  <2>6. ForkInv'
    BY <2>1, ForkInvKept DEF IInv, Live
  <2>7. StackInv'
    BY <2>1 DEF IInv, StackInv, Live
  <2> QED BY <2>2, <2>3, <2>4, <2>5, <2>6, <2>7 DEF IInv
<1>2. CASE Next
  <2>1. PICK c \in CPU :
          \/ Scheduler(c)
          \/ \E ch \in IoChan : Sleep(c, ch) \/ DeviceIntr(c, ch)
          \/ WakeOne(c) \/ WakeDone(c)
          \/ TimerIntr(c) \/ TickWakeup(c) \/ TimerAcct(c) \/ TimerIdle(c)
          \/ AgeOne(c) \/ AgeDone(c) \/ TimerExit(c) \/ TimerYield(c)
          \/ TrapTail(c) \/ Fault(c) \/ SysIo(c) \/ IoReturn(c)
          \/ \E a \in SetInfoArgs : SetProcInfo(c, a)
          \/ \E k \in KillPids : Kill(c, k)
          \/ ForkAlloc(c) \/ ForkKstack(c) \/ ForkCopy(c) \/ ForkFinish(c)
          \/ SysExit(c) \/ ExitBegin(c) \/ Reparent(c) \/ ExitFinish(c)
          \/ Wait(c)
    BY <1>2 DEF Next
  <2>2. CASE \/ Scheduler(c)
             \/ \E ch \in IoChan : Sleep(c, ch) \/ DeviceIntr(c, ch)
             \/ WakeOne(c) \/ WakeDone(c)
    BY <2>2, SchedulerInv, SleepInv, DeviceIntrInv, WakeOneInv, WakeDoneInv
  <2>3. CASE \/ TimerIntr(c) \/ TickWakeup(c) \/ TimerAcct(c) \/ TimerIdle(c)
             \/ AgeOne(c) \/ AgeDone(c) \/ TimerExit(c) \/ TimerYield(c)
             \/ TrapTail(c) \/ Fault(c) \/ SysIo(c) \/ IoReturn(c)
    BY <2>3, TimerIntrInv, TickWakeupInv, TimerAcctInv, TimerIdleInv,
       AgeOneInv, AgeDoneInv, TimerExitInv, TimerYieldInv, TrapTailInv,
       FaultInv, SysIoInv, IoReturnInv
  <2>4. CASE \/ \E a \in SetInfoArgs : SetProcInfo(c, a)
             \/ \E k \in KillPids : Kill(c, k)
    BY <2>4, SetProcInfoInv, KillInv
  <2>5. CASE \/ ForkAlloc(c) \/ ForkKstack(c) \/ ForkCopy(c) \/ ForkFinish(c)
             \/ SysExit(c) \/ ExitBegin(c) \/ Reparent(c) \/ ExitFinish(c)
             \/ Wait(c)
    BY <2>5, ForkAllocInv, ForkKstackInv, ForkCopyInv, ForkFinishInv,
       SysExitInv, ExitBeginInv, ReparentInv, ExitFinishInv, WaitInv
  <2> QED BY <2>1, <2>2, <2>3, <2>4, <2>5
<1> QED BY <1>1, <1>2

\* IInv is an invariant of the specification.
THEOREM Invariance == Spec => []IInv
  BY InitIInv, NextIInv, PTL DEF Spec

\* The fields of struct proc, the queues and the processors keep their types,
\* whatever the number of slots and processors.
THEOREM TypeCorrect == Spec => []TypeOK
<1>1. IInv => TypeOK
  BY DEF IInv
<1> QED BY Invariance, <1>1, PTL

\* add_to_queue, remove_from_queue and their callers in fork, yield, wakeup1,
\* kill, exit, scheduler and promote_process keep every RUNNABLE process
\* linked exactly once, in the list of its level, and nothing else.
THEOREM QueuesAreExact == Spec => []QueuesExact
<1>1. IInv => QueuesExact
  BY DEF IInv
<1> QED BY Invariance, <1>1, PTL

\* scheduler, sched, sleep, yield and exit: no process is on two processors,
\* and exactly the processes on a processor are RUNNING, each on a kernel stack
\* that neither wait nor a failing fork has freed.
THEOREM OneCpuPerProcess == Spec => []RunningOnOneCpu
<1>1. IInv => RunningOnOneCpu
  BY DEF IInv
<1> QED BY Invariance, <1>1, PTL

(***************************************************************************)
(* Mlfq implements PrioritySched: the initial state maps to an initial     *)
(* state and every step maps to a step of the abstract scheduler or to a   *)
(* stutter.                                                                *)
(***************************************************************************)

ready   == {p \in Proc : state[p] = "RUNNABLE"}
blocked == {p \in Proc : state[p] = "SLEEPING"}

\* A step that changes none of the variables that Abstract sees.
AbstractStutter ==
  ready' = ready /\ blocked' = blocked /\ UNCHANGED <<cproc, q_level>>

AbstractStep == Abstract!PNext \/ AbstractStutter

\* Steps that leave state, cproc and q_level alone are stutters.
LEMMA StutterStep ==
  ASSUME UNCHANGED <<state, cproc, q_level>>
  PROVE  AbstractStep
  BY DEF AbstractStep, AbstractStutter, ready, blocked

\* scheduler dispatches a process of the best level.
LEMMA SchedulerStep ==
  ASSUME IInv, NEW c \in CPU, Scheduler(c)
  PROVE  AbstractStep
<1> DEFINE p == get_next_proc
<1>1. /\ cproc[c] = Null /\ p # Null
      /\ cproc' = [cproc EXCEPT ![c] = p]
      /\ state' = [state EXCEPT ![p] = "RUNNING"]
      /\ q_level' = q_level
  BY DEF Scheduler
<1>2. p \in Runnable /\ \A q \in Runnable : q_level[p] <= q_level[q]
  BY <1>1, IInvQueues, NextProcBest
<1> HIDE DEF p
<1>3. ready' = ready \ {p} /\ blocked' = blocked /\ p \in ready
  BY <1>1, <1>2 DEF ready, blocked, Runnable, IInv, TypeOK
<1>4. \A k \in ready : q_level[p] <= q_level[k]
  BY <1>2 DEF ready, Runnable
<1>5. Abstract!Dispatch(c)
  BY <1>1, <1>3, <1>4 DEF Abstract!Dispatch, ready, blocked
<1> QED BY <1>5 DEF AbstractStep, Abstract!PNext

\* A step in which the process of c stops running and is neither RUNNABLE nor
\* anywhere else that Abstract sees, except perhaps SLEEPING.
LEMMA BlockStep ==
  ASSUME IInv, NEW c \in CPU, cproc[c] # Null,
         state' = [state EXCEPT ![cproc[c]] = "SLEEPING"],
         cproc' = [cproc EXCEPT ![c] = Null], q_level' = q_level
  PROVE  AbstractStep
<1> DEFINE p == cproc[c]
<1>1. p \in Proc /\ state[p] = "RUNNING"
  BY CurrentRuns
<1>2. blocked' = blocked \cup {p} /\ ready' = ready
  BY <1>1 DEF ready, blocked, IInv, TypeOK
<1>3. Abstract!Block(c)
  BY <1>2 DEF Abstract!Block, ready, blocked
<1> QED BY <1>3 DEF AbstractStep, Abstract!PNext

\* A sleeper becomes RUNNABLE at the level it had.
LEMMA WakeStep ==
  ASSUME IInv, NEW p \in Proc, state[p] = "SLEEPING",
         state' = [state EXCEPT ![p] = "RUNNABLE"],
         q_level' = [q_level EXCEPT ![p] = q_level[p]], cproc' = cproc
  PROVE  AbstractStep
<1>1. q_level' = q_level
  BY DEF IInv, TypeOK
<1>2. p \in blocked /\ ready' = ready \cup {p} /\ blocked' = blocked \ {p}
  BY DEF ready, blocked, IInv, TypeOK
<1>3. Abstract!Wake(p)
  BY <1>1, <1>2 DEF Abstract!Wake, ready, blocked
<1> QED BY <1>3 DEF AbstractStep, Abstract!PNext

\* wakeup1 wakes the first sleeper on its channel.
LEMMA WakeOneStep ==
  ASSUME IInv, NEW c \in CPU, WakeOne(c)
  PROVE  AbstractStep
<1> DEFINE p == First(SleepersOn(wchan[c]))
<1>1. p \in Proc /\ state[p] = "SLEEPING"
  <2>1. SleepersOn(wchan[c]) \in SUBSET Nat /\ SleepersOn(wchan[c]) # {}
    BY ConstantsAssumption DEF WakeOne, SleepersOn, Proc
  <2>2. p \in SleepersOn(wchan[c])
    BY <2>1, FirstInSet
  <2> QED BY <2>2 DEF SleepersOn
<1>2. /\ state' = [state EXCEPT ![p] = "RUNNABLE"]
      /\ q_level' = [q_level EXCEPT ![p] = q_level[p]]
      /\ cproc' = cproc
  BY DEF WakeOne, Enqueue
<1> QED BY <1>1, <1>2, WakeStep

\* kill wakes its victim, or changes nothing that Abstract sees.
LEMMA KillStep ==
  ASSUME IInv, NEW c \in CPU, NEW k \in KillPids, Kill(c, k)
  PROVE  AbstractStep
<1> DEFINE p == First({q \in Proc : pid[q] = k})
<1>1. /\ {q \in Proc : pid[q] = k} # {}
      /\ IF kill_wakes(p)
         THEN /\ state' = [state EXCEPT ![p] = "RUNNABLE"]
              /\ q_level' = [q_level EXCEPT ![p] = q_level[p]]
         ELSE UNCHANGED <<state, q_level>>
      /\ cproc' = cproc
  BY DEF Kill, Enqueue
<1>2. p \in Proc
  <2>1. {q \in Proc : pid[q] = k} \in SUBSET Nat
    BY ConstantsAssumption DEF Proc
  <2> QED BY <1>1, <2>1, FirstInSet
<1> HIDE DEF p
<1>3. CASE kill_wakes(p)
  BY <1>1, <1>2, <1>3, WakeStep DEF kill_wakes
<1>4. CASE ~kill_wakes(p)
  BY <1>1, <1>4, StutterStep
<1> QED BY <1>3, <1>4

\* The timer demotes the running process by one level, or not at all.
LEMMA TimerAcctStep ==
  ASSUME IInv, NEW c \in CPU, TimerAcct(c)
  PROVE  AbstractStep
<1> DEFINE p == cproc[c]
<1>1. /\ p # Null /\ UNCHANGED <<state, cproc>>
      /\ \/ q_level' = q_level
         \/ q_level' = [q_level EXCEPT ![p] = q_level[p] + 1] /\ q_level[p] # 3
  BY DEF TimerAcct
<1>2. p \in Proc /\ q_level[p] \in Level
  BY <1>1, CurrentRuns DEF IInv, TypeOK
<1>3. CASE q_level' = q_level
  BY <1>1, <1>3, StutterStep
<1>4. CASE q_level' = [q_level EXCEPT ![p] = q_level[p] + 1] /\ q_level[p] # 3
  <2>1. q_level[p] < 3
    BY <1>2, <1>4 DEF Level
  <2>2. ready' = ready /\ blocked' = blocked
    BY <1>1 DEF ready, blocked
  <2>3. Abstract!Demote(c)
    BY <1>1, <1>4, <2>1, <2>2 DEF Abstract!Demote, ready, blocked
  <2> QED BY <2>3 DEF AbstractStep, Abstract!PNext
<1> QED BY <1>1, <1>3, <1>4

\* check_aging promotes a RUNNABLE process by one level.
LEMMA AgeOneStep ==
  ASSUME IInv, NEW c \in CPU, AgeOne(c)
  PROVE  AbstractStep
<1> DEFINE lv == First(Aged)
           p  == queue[lv][First(AgedAt(lv))]
<1>1. /\ Aged # {} /\ UNCHANGED <<state, cproc>>
      /\ q_level' = [q_level EXCEPT ![p] = lv - 1]
  BY DEF AgeOne, Enqueue
<1>2. p \in Proc /\ p \in Runnable /\ q_level[p] = lv /\ lv \in 1 .. 3
  BY <1>1, AgedProc
<1> HIDE DEF lv, p
<1>3. /\ q_level' = [q_level EXCEPT ![p] = q_level[p] - 1] /\ q_level[p] > 0
      /\ p \in ready /\ ready' = ready /\ blocked' = blocked
  BY <1>1, <1>2 DEF ready, blocked, Runnable
<1>4. Abstract!Promote(p)
  BY <1>1, <1>3 DEF Abstract!Promote, ready, blocked
<1> QED BY <1>2, <1>4 DEF AbstractStep, Abstract!PNext

\* yield leaves the level alone.
LEMMA TimerYieldStep ==
  ASSUME IInv, NEW c \in CPU, TimerYield(c)
  PROVE  AbstractStep
<1> DEFINE p == cproc[c]
<1>1. /\ cpc[c] = "post"
      /\ state' = [state EXCEPT ![p] = "RUNNABLE"]
      /\ q_level' = [q_level EXCEPT ![p] = q_level[p]]
      /\ cproc' = [cproc EXCEPT ![c] = Null]
  BY DEF TimerYield, Enqueue
<1>2. p # Null /\ p \in Proc /\ state[p] = "RUNNING"
  BY <1>1, CurrentRuns DEF IInv, CpuInv
<1>3. q_level' = q_level
  BY <1>1, <1>2 DEF IInv, TypeOK
<1>4. ready' = ready \cup {p} /\ blocked' = blocked
  BY <1>1, <1>2 DEF ready, blocked, IInv, TypeOK
<1>5. Abstract!Yield(c)
  BY <1>1, <1>2, <1>3, <1>4 DEF Abstract!Yield, ready, blocked
<1> QED BY <1>5 DEF AbstractStep, Abstract!PNext

\* set_proc_info: a running process chooses its level.
LEMMA SetProcInfoStep ==
  ASSUME IInv, NEW c \in CPU, NEW a \in SetInfoArgs, SetProcInfo(c, a)
  PROVE  AbstractStep
<1>1. PICK p \in Proc :
        /\ cproc[c] = p /\ p # Null
        /\ q_level' = [q_level EXCEPT ![p] = a.q_level]
        /\ UNCHANGED <<state, cproc>>
  BY DEF SetProcInfo, Syscall, At
<1>2. a.q_level \in {b.q_level : b \in SetInfoArgs}
  OBVIOUS
<1>3. ready' = ready /\ blocked' = blocked
  BY <1>1 DEF ready, blocked
<1>4. Abstract!SetLevel(c)
  BY <1>1, <1>2, <1>3 DEF Abstract!SetLevel, ready, blocked
<1> QED BY <1>4 DEF AbstractStep, Abstract!PNext

\* A slot that is UNUSED or an EMBRYO is absent for Abstract.
LEMMA AbsentSlot ==
  ASSUME IInv, NEW n \in Proc, state[n] \in {"UNUSED", "EMBRYO"}
  PROVE  n \in Abstract!Absent
<1>1. \A d \in CPU : cproc[d] # n
  BY CurrentRuns DEF Proc, Null
<1>2. n \notin ready /\ n \notin blocked
  BY DEF ready, blocked
<1> QED BY <1>1, <1>2 DEF Abstract!Absent, Abstract!Busy, ready, blocked

\* allocproc sets the level of a slot that nobody looks at.
LEMMA ForkAllocStep ==
  ASSUME IInv, NEW c \in CPU, ForkAlloc(c)
  PROVE  AbstractStep
<1> DEFINE n == First(Unused)
<1>1. /\ Unused # {} /\ cproc' = cproc
      /\ state' = [state EXCEPT ![n] = "EMBRYO"]
      /\ q_level' = [q_level EXCEPT ![n] = 0]
  BY DEF ForkAlloc
<1>2. n \in Proc /\ state[n] = "UNUSED"
  <2>1. Unused \in SUBSET Nat
    BY ConstantsAssumption DEF Unused, Proc
  <2>2. n \in Unused
    BY <1>1, <2>1, FirstInSet
  <2> QED BY <2>2 DEF Unused
<1> HIDE DEF n
<1>3. ready' = ready /\ blocked' = blocked
  BY <1>1, <1>2 DEF ready, blocked, IInv, TypeOK
<1>4. n \in Abstract!Absent /\ 0 \in Abstract!Level
  BY <1>2, AbsentSlot DEF Abstract!Level
<1>5. Abstract!Prepare(n)
  BY <1>1, <1>3, <1>4 DEF Abstract!Prepare, ready, blocked
<1> QED BY <1>2, <1>5 DEF AbstractStep, Abstract!PNext

\* A failing fork gives its EMBRYO back; a successful step changes no state.
LEMMA ForkStepStutter ==
  ASSUME IInv, NEW c \in CPU, ForkKstack(c) \/ ForkCopy(c)
  PROVE  AbstractStep
<1>1. PICK p \in Proc :
        /\ cproc[c] = p /\ p # Null /\ pc[p] \in ForkPoints
        /\ state' = state \/ state' = [state EXCEPT ![np[p]] = "UNUSED"]
        /\ UNCHANGED <<cproc, q_level>>
  BY DEF ForkKstack, ForkCopy, ForkUndo, At, ForkPoints
<1>2. np[p] \in Proc /\ state[np[p]] = "EMBRYO"
  BY <1>1, ForkChild
<1>3. ready' = ready /\ blocked' = blocked
  <2>1. PICK n \in Proc : n = np[p] /\ state[n] = "EMBRYO"
    BY <1>2
  <2>2. CASE state' = state
    BY <2>2 DEF ready, blocked
  <2>3. CASE state' = [state EXCEPT ![n] = "UNUSED"]
    <3>1. \A q \in Proc : q # n => state'[q] = state[q]
      BY <2>3 DEF IInv, TypeOK
    <3>2. state'[n] = "UNUSED"
      BY <2>3 DEF IInv, TypeOK
    <3> QED BY <2>1, <3>1, <3>2 DEF ready, blocked
  <2> QED BY <1>1, <2>1, <2>2, <2>3
<1> QED BY <1>1, <1>3 DEF AbstractStep, AbstractStutter

\* fork's child arrives, at level 3 for a shell and at level 0 otherwise.
LEMMA ForkFinishStep ==
  ASSUME IInv, NEW c \in CPU, ForkFinish(c)
  PROVE  AbstractStep
<1>1. PICK p \in Proc :
        /\ cproc[c] = p /\ p # Null /\ pc[p] = "ffinish"
        /\ state' = [state EXCEPT ![np[p]] = "RUNNABLE"]
        /\ q_level' = [q_level EXCEPT ![np[p]] = IF pid[p] = 1 THEN 3 ELSE 0]
        /\ cproc' = cproc
  BY DEF ForkFinish, At, Enqueue
<1>2. PICK n \in Proc : n = np[p] /\ state[n] = "EMBRYO"
  BY <1>1, ForkChild DEF ForkPoints
<1>3. n \in Abstract!Absent
  BY <1>2, AbsentSlot
<1>4. ready' = ready \cup {n} /\ blocked' = blocked
  BY <1>1, <1>2 DEF ready, blocked, IInv, TypeOK
<1>5. \E l \in Abstract!EntryLevels : q_level' = [q_level EXCEPT ![n] = l]
  BY <1>1, <1>2 DEF Abstract!EntryLevels
<1>6. Abstract!Arrive(n)
  BY <1>1, <1>3, <1>4, <1>5 DEF Abstract!Arrive, ready, blocked
<1> QED BY <1>6 DEF AbstractStep, Abstract!PNext

\* exit ends the job of its processor.
LEMMA ExitFinishStep ==
  ASSUME IInv, NEW c \in CPU, ExitFinish(c)
  PROVE  AbstractStep
<1> DEFINE p == cproc[c]
<1>1. /\ cpc[c] = "zombie"
      /\ state' = [state EXCEPT ![p] = "ZOMBIE"]
      /\ cproc' = [cproc EXCEPT ![c] = Null]
      /\ q_level' = q_level
  BY DEF ExitFinish
<1>2. p # Null /\ p \in Proc /\ state[p] = "RUNNING"
  BY <1>1, CurrentRuns DEF IInv, CpuInv, ExitPoints
<1>3. ready' = ready /\ blocked' = blocked
  BY <1>1, <1>2 DEF ready, blocked, IInv, TypeOK
<1>4. Abstract!Finish(c)
  BY <1>1, <1>2, <1>3 DEF Abstract!Finish, ready, blocked
<1> QED BY <1>4 DEF AbstractStep, Abstract!PNext

\* wait blocks its caller, or reaps a ZOMBIE that Abstract has forgotten.
LEMMA WaitStep ==
  ASSUME IInv, NEW c \in CPU, Wait(c)
  PROVE  AbstractStep
<1>1. PICK p \in Proc :
        /\ cproc[c] = p /\ p # Null
        /\ q_level' = q_level
        /\ LET zombies == {q \in Children(p) : state[q] = "ZOMBIE"} IN
           \/ /\ zombies # {} /\ cproc' = cproc
              /\ state' = [state EXCEPT ![First(zombies)] = "UNUSED"]
           \/ UNCHANGED <<state, cproc>>
           \/ /\ state' = [state EXCEPT ![p] = "SLEEPING"]
              /\ cproc' = [cproc EXCEPT ![c] = Null]
  BY DEF Wait, Syscall, At
<1> DEFINE zombies == {q \in Children(p) : state[q] = "ZOMBIE"}
           z == First(zombies)
<1>2. CASE zombies # {} /\ cproc' = cproc
           /\ state' = [state EXCEPT ![z] = "UNUSED"]
  <2>1. zombies \in SUBSET Nat /\ zombies \in SUBSET Proc
    BY ConstantsAssumption DEF Children, Proc
  <2>2. z \in zombies
    <3> HIDE DEF zombies
    <3> QED BY <1>2, <2>1, FirstInSet
  <2>3. z \in Proc /\ state[z] = "ZOMBIE"
    BY <2>1, <2>2
  <2> HIDE DEF z, zombies
  <2>4. ready' = ready /\ blocked' = blocked
    BY <1>2, <2>3 DEF ready, blocked, IInv, TypeOK
  <2> QED BY <1>1, <1>2, <2>4 DEF AbstractStep, AbstractStutter
<1>3. CASE UNCHANGED <<state, cproc>>
  BY <1>1, <1>3, StutterStep
<1>4. CASE /\ state' = [state EXCEPT ![p] = "SLEEPING"]
           /\ cproc' = [cproc EXCEPT ![c] = Null]
  BY <1>1, <1>4, BlockStep
<1> QED BY <1>1, <1>2, <1>3, <1>4

\* Every step of Mlfq is a step of Abstract or a stutter.
LEMMA NextStep ==
  ASSUME IInv, [Next]_vars
  PROVE  AbstractStep
<1>1. CASE UNCHANGED vars
  BY <1>1, StutterStep DEF vars
<1>2. CASE Next
  <2>1. PICK c \in CPU :
          \/ Scheduler(c)
          \/ \E ch \in IoChan : Sleep(c, ch) \/ DeviceIntr(c, ch)
          \/ WakeOne(c) \/ WakeDone(c)
          \/ TimerIntr(c) \/ TickWakeup(c) \/ TimerAcct(c) \/ TimerIdle(c)
          \/ AgeOne(c) \/ AgeDone(c) \/ TimerExit(c) \/ TimerYield(c)
          \/ TrapTail(c) \/ Fault(c) \/ SysIo(c) \/ IoReturn(c)
          \/ \E a \in SetInfoArgs : SetProcInfo(c, a)
          \/ \E k \in KillPids : Kill(c, k)
          \/ ForkAlloc(c) \/ ForkKstack(c) \/ ForkCopy(c) \/ ForkFinish(c)
          \/ SysExit(c) \/ ExitBegin(c) \/ Reparent(c) \/ ExitFinish(c)
          \/ Wait(c)
    BY <1>2 DEF Next
  <2>2. CASE Scheduler(c) \/ WakeOne(c) \/ TimerAcct(c) \/ AgeOne(c)
             \/ TimerYield(c)
    BY <2>2, SchedulerStep, WakeOneStep, TimerAcctStep, AgeOneStep,
       TimerYieldStep
  <2>3. CASE \E ch \in IoChan : Sleep(c, ch)
    <3>1. /\ cproc[c] # Null
          /\ state' = [state EXCEPT ![cproc[c]] = "SLEEPING"]
          /\ cproc' = [cproc EXCEPT ![c] = Null] /\ q_level' = q_level
      BY <2>3 DEF Sleep, At
    <3> QED BY <3>1, BlockStep
  <2>4. CASE \/ \E a \in SetInfoArgs : SetProcInfo(c, a)
             \/ \E k \in KillPids : Kill(c, k)
    BY <2>4, SetProcInfoStep, KillStep
  <2>5. CASE ForkAlloc(c) \/ ForkKstack(c) \/ ForkCopy(c) \/ ForkFinish(c)
             \/ ExitFinish(c) \/ Wait(c)
    BY <2>5, ForkAllocStep, ForkStepStutter, ForkFinishStep, ExitFinishStep,
       WaitStep
  <2>6. CASE \/ \E ch \in IoChan : DeviceIntr(c, ch)
             \/ WakeDone(c) \/ TimerIntr(c) \/ TickWakeup(c) \/ TimerIdle(c)
             \/ AgeDone(c) \/ TimerExit(c)
    <3>1. UNCHANGED <<state, cproc, q_level>>
      BY <2>6 DEF DeviceIntr, WakeDone, TimerIntr, TickWakeup, TimerIdle,
                  AgeDone, TimerExit
    <3> QED BY <3>1, StutterStep
  <2>7. CASE TrapTail(c) \/ Fault(c) \/ SysIo(c) \/ IoReturn(c) \/ SysExit(c)
             \/ ExitBegin(c) \/ Reparent(c)
    <3>1. UNCHANGED <<state, cproc, q_level>>
      BY <2>7 DEF TrapTail, Fault, SysIo, IoReturn, SysExit, ExitBegin,
                  Reparent
    <3> QED BY <3>1, StutterStep
  <2> QED BY <2>1, <2>2, <2>3, <2>4, <2>5, <2>6, <2>7
<1> QED BY <1>1, <1>2

\* The initial state maps to an initial state.
LEMMA InitStep == Init => Abstract!PInit
<1> SUFFICES ASSUME Init PROVE Abstract!PInit
  OBVIOUS
<1>1. q_level \in [Proc -> Abstract!Level]
  BY DEF Init, Abstract!Level
<1>2. blocked = {} /\ ready \in SUBSET Proc
  BY DEF Init, ready, blocked
<1> QED BY <1>1, <1>2 DEF Init, Abstract!PInit, ready, blocked

\* The kernel's scheduler implements the abstract one: on any number of
\* processors, every dispatch takes a RUNNABLE process of the best level at
\* which any is RUNNABLE, and levels change only the ways PrioritySched allows.
THEOREM MlfqServesBestLevel == Spec => ServesBestLevel
<1>1. IInv /\ [Next]_vars => [Abstract!PNext]_(Abstract!pvars)
  <2>1. AbstractStep => [Abstract!PNext]_(Abstract!pvars)
    BY DEF AbstractStep, AbstractStutter, Abstract!pvars, ready, blocked
  <2> QED BY <2>1, NextStep
<1> QED BY Invariance, InitStep, <1>1, PTL
        DEF Spec, ServesBestLevel, Abstract!PSpec

-----------------------------------------------------------------------------
(***************************************************************************)
(* The life of a process (fork, exit, wait and kill), the order of the     *)
(* queues, aging and the quantum.                                          *)
(***************************************************************************)

(***************************************************************************)
(* The inductive invariant, next to IInv.                                  *)
(***************************************************************************)

\* The points at which a processor has ptable.lock over several steps.
LockedPoints == WakePoints \cup ExitPoints \cup {"age"}

\* The processor at such a point is the one that has ptable.lock.
LockInv == \A c \in CPU : cpc[c] \in LockedPoints => ptlock = c

\* p sleeps in wait.
Waits(p) == state[p] = "SLEEPING" /\ chan[p] = p

\* init never exits and has no parent; nobody is its own parent.
InitInv ==
  /\ InitProc \in Proc /\ Live(InitProc) /\ parent[InitProc] = Null
  /\ \A q \in Proc : parent[q] # q

\* exit on processor c: it wakes its parent first, which cannot sleep in wait
\* again while c has the lock, and after Reparent it has no child.
ExitInv ==
  \A c \in CPU :
    /\ cpc[c] \in ExitPoints => cproc[c] # InitProc
    /\ cpc[c] = "exitwake" => wchan[c] = parent[cproc[c]]
    /\ cpc[c] \in {"reparent", "initwake", "zombie"} => ~Waits(parent[cproc[c]])
    /\ cpc[c] \in {"initwake", "zombie"} =>
         \A q \in Proc : parent[q] # cproc[c]
    /\ cpc[c] = "initwake" => wchan[c] = InitProc

\* fork has made its caller the parent of the child before it finishes.
ChildInv == \A p \in Proc : pc[p] = "ffinish" => parent[np[p]] = p

\* A parent sleeps in wait over a ZOMBIE child only if it is init, and only
\* while exit is about to wake it.
ZombieInv ==
  \A p, q \in Proc :
    Waits(p) /\ parent[q] = p /\ state[q] = "ZOMBIE"
      => p = InitProc /\ \E c \in CPU : cpc[c] = "initwake"

LInv == /\ LockInv /\ InitInv /\ ExitInv /\ ChildInv /\ ZombieInv
        /\ ParentAlive /\ KillReachesWait

-----------------------------------------------------------------------------
(***************************************************************************)
(* Steps that are not about families.                                      *)
(***************************************************************************)
USE DEF identity, counters, placing

\* The process of a processor in exit.
LEMMA Exiting ==
  ASSUME IInv, LInv, NEW c \in CPU, cpc[c] \in ExitPoints
  PROVE  /\ cproc[c] \in Proc \ {InitProc} /\ pc[cproc[c]] = "exit"
         /\ state[cproc[c]] = "RUNNING" /\ ptlock = c
         /\ parent[cproc[c]] \in Proc /\ Live(parent[cproc[c]])
         /\ parent[cproc[c]] # cproc[c]
<1>1. cproc[c] \in Proc /\ state[cproc[c]] = "RUNNING" /\ pc[cproc[c]] = "exit"
  BY CurrentRuns DEF IInv, CpuInv
<1>2. cproc[c] # InitProc /\ ptlock = c
  BY DEF LInv, ExitInv, LockInv, LockedPoints
<1>3. parent[cproc[c]] # Null /\ Live(parent[cproc[c]])
  BY <1>1, <1>2 DEF LInv, ParentAlive, Live
<1>4. parent[cproc[c]] \in Proc
  BY <1>1, <1>3 DEF IInv, TypeOK
<1>5. parent[cproc[c]] # cproc[c]
  BY <1>1 DEF LInv, InitInv
<1> QED BY <1>1, <1>2, <1>3, <1>4, <1>5

\* The processor that is alone at a point under the lock.
LEMMA OneLocked ==
  ASSUME LInv, NEW c \in CPU, ptlock = c \/ ptlock = NoCpu,
         NEW d \in CPU, cpc[d] \in LockedPoints
  PROVE  d = c /\ ptlock = c
<1>1. ptlock = d
  BY DEF LInv, LockInv
<1> QED BY <1>1, ConstantsAssumption DEF CPU, NoCpu

\* A step that changes no family: parents, who is alive and who is a ZOMBIE stay,
\* nobody goes to sleep in wait, and no processor enters or leaves exit.
LEMMA LifeKept ==
  ASSUME IInv, IInv', LInv, LockInv',
         parent' = parent,
         \A q \in Proc :
           /\ Live(q)' <=> Live(q)
           /\ state'[q] = "ZOMBIE" <=> state[q] = "ZOMBIE"
           /\ state'[q] = "SLEEPING" =>
                \/ /\ state[q] = "SLEEPING" /\ chan'[q] = chan[q]
                   /\ killed'[q] = killed[q] /\ pc'[q] = pc[q]
                \/ chan'[q] # q /\ pc'[q] # "wait"
           /\ pc'[q] = "ffinish" => pc[q] = "ffinish" /\ np'[q] = np[q],
         \A c \in CPU :
           /\ cpc'[c] \in ExitPoints => /\ cpc'[c] = cpc[c]
                                        /\ cproc'[c] = cproc[c]
                                        /\ wchan'[c] = wchan[c]
           /\ cpc[c] = "initwake" => cpc'[c] = "initwake"
  PROVE  LInv'
<1>1. \A q \in Proc : Waits(q)' => Waits(q)
  BY DEF Waits
<1>2. InitInv'
  BY DEF LInv, InitInv
<1>3. ExitInv'
  <2>1. \A c \in CPU : cpc'[c] \in ExitPoints =>
          /\ cpc[c] \in ExitPoints /\ parent[cproc[c]] \in Proc
          /\ cpc'[c] = cpc[c] /\ cproc'[c] = cproc[c] /\ wchan'[c] = wchan[c]
    BY Exiting
  <2>2. ASSUME NEW c \in CPU, cpc'[c] \in {"reparent", "initwake", "zombie"}
        PROVE  ~Waits(parent[cproc[c]])'
    <3>1. PICK q \in Proc : q = parent[cproc[c]]
      BY <2>1, <2>2 DEF ExitPoints
    <3>2. parent'[cproc'[c]] = q /\ ~Waits(q)
      BY <2>1, <2>2, <3>1 DEF LInv, ExitInv, ExitPoints
    <3>3. ~Waits(q)'
      BY <1>1, <3>2
    <3> QED BY <3>2, <3>3 DEF Waits
  <2>3. \A c \in CPU : cpc'[c] \in ExitPoints =>
          /\ cproc'[c] # InitProc
          /\ cpc'[c] = "exitwake" => wchan'[c] = parent'[cproc'[c]]
          /\ cpc'[c] \in {"initwake", "zombie"} =>
               \A q \in Proc : parent'[q] # cproc'[c]
          /\ cpc'[c] = "initwake" => wchan'[c] = InitProc
    BY <2>1 DEF LInv, ExitInv
  <2> QED BY <2>2, <2>3 DEF ExitInv, ExitPoints, Waits
<1>4. ChildInv'
  BY DEF LInv, ChildInv
<1>5. ZombieInv'
  BY <1>1 DEF LInv, ZombieInv
<1>6. ParentAlive'
  <2>1. \A q \in Proc : parent[q] # Null => parent[q] \in Proc
    BY DEF IInv, TypeOK
  <2> QED BY <2>1 DEF LInv, ParentAlive
<1>7. KillReachesWait'
  BY DEF LInv, KillReachesWait
<1> QED BY <1>2, <1>3, <1>4, <1>5, <1>6, <1>7 DEF LInv

\* A step in which nobody goes to sleep or wakes, only a running process is
\* killed or moves on, and processors enter or leave only the timer and device
\* handlers.
LEMMA HandlerKept ==
  ASSUME IInv, IInv', LInv, LockInv', UNCHANGED <<state, chan, parent, np, cproc>>,
         NEW c \in CPU,
         \A q \in Proc : q # cproc[c] => killed'[q] = killed[q] /\ pc'[q] = pc[q],
         cproc[c] # Null /\ pc'[cproc[c]] = "ffinish" => pc[cproc[c]] = "ffinish",
         \A d \in CPU : d # c => cpc'[d] = cpc[d] /\ wchan'[d] = wchan[d],
         cpc[c] \notin ExitPoints, cpc'[c] \notin ExitPoints
  PROVE  LInv'
<1>1. \A q \in Proc : state[q] = "SLEEPING" => q # cproc[c]
  BY CurrentRuns DEF Null, Proc
<1>2. \A q \in Proc : pc'[q] = "ffinish" => pc[q] = "ffinish"
  BY DEF Null, Proc
<1>3. \A q \in Proc : Live(q)' <=> Live(q)
  BY DEF Live
<1>4. \A d \in CPU :
        /\ cpc'[d] \in ExitPoints => /\ cpc'[d] = cpc[d]
                                     /\ cproc'[d] = cproc[d]
                                     /\ wchan'[d] = wchan[d]
        /\ cpc[d] = "initwake" => cpc'[d] = "initwake"
  BY DEF ExitPoints
<1> QED BY <1>1, <1>2, <1>3, <1>4, LifeKept

\* The timer and device handlers, and the system calls that are not about
\* processes.
LEMMA HandlersLInv ==
  ASSUME IInv, IInv', LInv, NEW c \in CPU,
         \/ \E ch \in IoChan : DeviceIntr(c, ch)
         \/ TimerIntr(c) \/ TickWakeup(c) \/ TimerAcct(c) \/ TimerIdle(c)
         \/ AgeOne(c) \/ AgeDone(c) \/ TimerExit(c) \/ TrapTail(c) \/ Fault(c)
         \/ SysIo(c) \/ IoReturn(c) \/ SysExit(c)
         \/ \E a \in SetInfoArgs : SetProcInfo(c, a)
  PROVE  LInv'
<1>0. LockInv /\ cpc \in [CPU -> CpuPoints] /\ cproc \in [CPU -> Proc \cup {Null}]
      /\ NoCpu \notin CPU /\ pc \in [Proc -> ProcPoints]
      /\ wchan \in [CPU -> Proc \cup IoChan \cup {Null}]
      /\ killed \in [Proc -> BOOLEAN] /\ Null \notin Proc
  <2>1. NoCpu \notin CPU /\ Null \notin Proc
    BY ConstantsAssumption DEF CPU, NoCpu, Null, Proc
  <2> QED BY <2>1 DEF LInv, IInv, TypeOK
<1> USE DEF LockInv, LockedPoints, WakePoints, ExitPoints, LockFree
<1>1. ASSUME NEW ch \in IoChan, DeviceIntr(c, ch) PROVE LInv'
  <2>1. LockInv'
    BY <1>0, <1>1 DEF DeviceIntr, Interruptible
  <2> QED BY <1>0, <1>1, <2>1, HandlerKept DEF DeviceIntr, Interruptible
<1>2. CASE TimerIntr(c)
  <2>1. LockInv'
    BY <1>0, <1>2 DEF TimerIntr, Interruptible
  <2> QED BY <1>0, <1>2, <2>1, HandlerKept DEF TimerIntr, Interruptible
<1>3. CASE TickWakeup(c)
  <2>1. LockInv'
    BY <1>0, <1>3 DEF TickWakeup
  <2> QED BY <1>0, <1>3, <2>1, HandlerKept DEF TickWakeup
<1>4. CASE TimerIdle(c)
  <2>1. LockInv'
    BY <1>0, <1>4 DEF TimerIdle
  <2> QED BY <1>0, <1>4, <2>1, HandlerKept DEF TimerIdle
<1>5. CASE AgeDone(c)
  <2>1. LockInv'
    BY <1>0, <1>5 DEF AgeDone
  <2> QED BY <1>0, <1>5, <2>1, HandlerKept DEF AgeDone
<1>6. CASE TimerExit(c)
  <2>1. LockInv'
    BY <1>0, <1>6 DEF TimerExit
  <2> QED BY <1>0, <1>6, <2>1, HandlerKept DEF TimerExit
<1>7. CASE TrapTail(c)
  <2>1. LockInv'
    BY <1>0, <1>7 DEF TrapTail, SyscallReturn, At
  <2>2. PICK p \in Proc : TrapTail(c)!(p)
    BY <1>7 DEF TrapTail
  <2>3. /\ cproc[c] = p /\ cpc[c] \notin ExitPoints
        /\ \A q \in Proc : q # p => pc'[q] = pc[q]
        /\ pc'[p] \in {"exit", "user"}
        /\ UNCHANGED <<state, chan, parent, np, cproc, cpc, wchan, killed>>
    BY <1>0, <2>2 DEF SyscallReturn, At, ExitPoints
  <2> QED BY <2>1, <2>3, HandlerKept
<1>8. CASE Fault(c)
  <2>1. LockInv'
    BY <1>0, <1>8 DEF Fault, At
  <2>2. killed \in [Proc -> BOOLEAN]
    BY DEF IInv, TypeOK
  <2>3. PICK p \in Proc : Fault(c)!(p)
    BY <1>8 DEF Fault
  <2>4. /\ cproc[c] = p /\ cpc[c] \notin ExitPoints /\ pc'[p] = "exit"
        /\ UNCHANGED <<state, chan, parent, np, cproc, cpc, wchan>>
    BY <1>0, <2>3 DEF At, ExitPoints
  <2>5. \A q \in Proc : q # p => killed'[q] = killed[q] /\ pc'[q] = pc[q]
    BY <1>0, <2>2, <2>3
  <2> QED BY <2>1, <2>4, <2>5, HandlerKept
<1>9. CASE SysIo(c)
  <2>1. LockInv'
    BY <1>0, <1>9 DEF SysIo, Syscall, At
  <2> QED BY <1>0, <1>9, <2>1, HandlerKept DEF SysIo, Syscall, At
<1>10. CASE IoReturn(c)
  <2>1. LockInv'
    BY <1>0, <1>10 DEF IoReturn, SyscallReturn, At
  <2> QED BY <1>0, <1>10, <2>1, HandlerKept DEF IoReturn, SyscallReturn, At
<1>11. CASE SysExit(c)
  <2>1. LockInv'
    BY <1>0, <1>11 DEF SysExit, At
  <2> QED BY <1>0, <1>11, <2>1, HandlerKept DEF SysExit, At
<1>12. ASSUME NEW a \in SetInfoArgs, SetProcInfo(c, a) PROVE LInv'
  <2>1. LockInv'
    BY <1>0, <1>12 DEF SetProcInfo, Syscall, At
  <2> QED BY <1>0, <1>12, <2>1, HandlerKept DEF SetProcInfo, Syscall, At
<1>13. CASE TimerAcct(c)
  <2>1. LockInv'
    BY <1>0, <1>13 DEF TimerAcct
  <2> QED BY <1>0, <1>13, <2>1, HandlerKept DEF TimerAcct
<1>14. CASE AgeOne(c)
  <2>1. LockInv'
    BY <1>0, <1>14 DEF AgeOne
  <2> QED BY <1>0, <1>14, <2>1, HandlerKept DEF AgeOne
<1> QED BY <1>1, <1>2, <1>3, <1>4, <1>5, <1>6, <1>7, <1>8, <1>9, <1>10, <1>11, <1>12, <1>13, <1>14

\* scheduler dispatches a process.
LEMMA SchedulerLInv ==
  ASSUME IInv, IInv', LInv, NEW c \in CPU, Scheduler(c)
  PROVE  LInv'
<1>1. PICK p \in Proc :
        /\ state[p] = "RUNNABLE" /\ cproc[c] = Null /\ cpc[c] = "run" /\ LockFree
        /\ cproc' = [cproc EXCEPT ![c] = p]
        /\ state' = [state EXCEPT ![p] = "RUNNING"]
        /\ chan' = [chan EXCEPT ![p] = Null]
        /\ UNCHANGED <<parent, killed, cpc, wchan, pc, np>>
  <2>1. get_next_proc \in Proc
    BY IInvQueues, NextProcBest DEF Scheduler, Runnable
  <2> QED BY <2>1 DEF Scheduler
<1>2. \A d \in CPU : cpc[d] \notin LockedPoints
  BY <1>1, OneLocked DEF LockFree, LockedPoints, WakePoints, ExitPoints
<1>3. LockInv'
  BY <1>1, <1>2 DEF LockInv
<1>4. \A d \in CPU : cpc'[d] \notin ExitPoints /\ cpc[d] # "initwake"
  BY <1>1, <1>2 DEF LockedPoints, ExitPoints
<1>5. \A q \in Proc :
        /\ state'[q] = IF q = p THEN "RUNNING" ELSE state[q]
        /\ q # p => chan'[q] = chan[q]
  BY <1>1 DEF IInv, TypeOK
<1> QED BY <1>1, <1>3, <1>4, <1>5, LifeKept DEF Live

\* A process leaves its processor to sleep, or to be queued again.
LEMMA LeaveLInv ==
  ASSUME IInv, IInv', LInv, NEW c \in CPU,
         (\E ch \in IoChan : Sleep(c, ch)) \/ TimerYield(c)
  PROVE  LInv'
<1>1. PICK p \in Proc :
        /\ cproc[c] = p /\ cpc[c] \in {"run", "post"} /\ LockFree
        /\ cproc' = [cproc EXCEPT ![c] = Null]
        /\ cpc' = [cpc EXCEPT ![c] = "run"]
        /\ UNCHANGED <<parent, killed, wchan, np, ptlock>>
        /\ \/ /\ state' = [state EXCEPT ![p] = "SLEEPING"] /\ pc' = pc
              /\ pc[p] \in {"io", "exit"}
              /\ \E ch \in IoChan : chan' = [chan EXCEPT ![p] = ch]
           \/ /\ state' = [state EXCEPT ![p] = "RUNNABLE"] /\ chan' = chan
              /\ pc' = [pc EXCEPT ![p] = IF @ = "user" THEN "tail" ELSE @]
  <2>1. ASSUME NEW ch \in IoChan, NEW p \in Proc, cproc[c] = p, cpc[c] = "run"
        PROVE  cpc = [cpc EXCEPT ![c] = "run"]
    BY <2>1 DEF IInv, TypeOK
  <2>2. CASE \E ch \in IoChan : Sleep(c, ch)
    BY <2>1, <2>2 DEF Sleep, At
  <2>3. CASE TimerYield(c)
    <3>1. cproc[c] \in Proc
      BY <2>3 DEF TimerYield, IInv, TypeOK, CpuInv
    <3> QED BY <2>3, <3>1 DEF TimerYield, LockFree
  <2> QED BY <2>2, <2>3
<1>2. state[p] = "RUNNING" /\ p # Null
  BY <1>1, CurrentRuns, ConstantsAssumption DEF Null, Proc
<1>3. \A d \in CPU : cpc[d] \notin LockedPoints
  BY <1>1, OneLocked DEF LockFree, LockedPoints, WakePoints, ExitPoints
<1>4. \A d \in CPU : cpc'[d] \notin LockedPoints
  <2>1. cpc \in [CPU -> CpuPoints]
    BY DEF IInv, TypeOK
  <2>2. \A d \in CPU : cpc'[d] = IF d = c THEN "run" ELSE cpc[d]
    BY <1>1, <2>1
  <2>3. "run" \notin LockedPoints
    BY DEF LockedPoints, WakePoints, ExitPoints
  <2> QED BY <1>3, <2>2, <2>3
<1>5. LockInv'
  BY <1>4 DEF LockInv
<1>6. \A q \in Proc : q # p =>
        state'[q] = state[q] /\ chan'[q] = chan[q] /\ pc'[q] = pc[q]
  <2>1. Proc = DOMAIN state /\ Proc = DOMAIN chan /\ Proc = DOMAIN pc
    BY DEF IInv, TypeOK
  <2>2. \A q \in Proc : q # p => state'[q] = state[q]
    BY <1>1, <2>1
  <2>3. \A q \in Proc : q # p => chan'[q] = chan[q]
    BY <1>1, <2>1
  <2>4. \A q \in Proc : q # p => pc'[q] = pc[q]
    BY <1>1, <2>1
  <2> QED BY <2>2, <2>3, <2>4
<1>7. /\ state'[p] \in {"SLEEPING", "RUNNABLE"}
      /\ pc'[p] = "ffinish" => pc[p] = "ffinish"
      /\ state'[p] = "SLEEPING" => chan'[p] # p /\ pc'[p] # "wait"
  <2>1. \A ch \in IoChan : ch # p
    BY ConstantsAssumption DEF Proc
  <2>2. /\ state \in [Proc -> States] /\ pc \in [Proc -> ProcPoints]
        /\ chan \in [Proc -> Proc \cup IoChan \cup {Null}]
    BY DEF IInv, TypeOK
  <2>3. CASE pc' = pc /\ state' = [state EXCEPT ![p] = "SLEEPING"]
    <3>1. PICK ch \in IoChan : chan' = [chan EXCEPT ![p] = ch]
      BY <1>1, <2>2, <2>3
    <3> QED BY <1>1, <2>1, <2>2, <2>3, <3>1
  <2>4. CASE state' = [state EXCEPT ![p] = "RUNNABLE"]
    BY <1>1, <2>2, <2>4
  <2> QED BY <1>1, <2>3, <2>4
<1>8. \A d \in CPU : cpc'[d] \notin ExitPoints /\ cpc[d] # "initwake"
  BY <1>3, <1>4 DEF LockedPoints, ExitPoints
<1> QED BY <1>1, <1>2, <1>5, <1>6, <1>7, <1>8, LifeKept DEF Live

\* wakeup1 wakes a process.
LEMMA WakeOneLInv ==
  ASSUME IInv, IInv', LInv, NEW c \in CPU, WakeOne(c)
  PROVE  LInv'
<1>1. PICK p \in Proc :
        /\ state[p] = "SLEEPING" /\ state' = [state EXCEPT ![p] = "RUNNABLE"]
        /\ UNCHANGED <<parent, chan, killed, ptlock, cproc, cpc, wchan, pc, np>>
  <2>1. SleepersOn(wchan[c]) \in SUBSET Nat /\ SleepersOn(wchan[c]) # {}
    BY ConstantsAssumption DEF WakeOne, SleepersOn, Proc
  <2>2. First(SleepersOn(wchan[c])) \in SleepersOn(wchan[c])
    BY <2>1, FirstInSet
  <2> QED BY <2>2 DEF SleepersOn, WakeOne
<1>2. \A q \in Proc : state'[q] = IF q = p THEN "RUNNABLE" ELSE state[q]
  BY <1>1 DEF IInv, TypeOK
<1>3. LockInv'
  BY <1>1 DEF LInv, LockInv
<1> QED BY <1>1, <1>2, <1>3, LifeKept DEF Live

\* kill marks a process, and wakes it.
LEMMA KillLInv ==
  ASSUME IInv, IInv', LInv, NEW c \in CPU, NEW k \in KillPids, Kill(c, k)
  PROVE  LInv'
<1>1. PICK caller \in Proc : Kill(c, k)!(caller)
  BY DEF Kill
<1>2. PICK p \in Proc : p = First({q \in Proc : pid[q] = k})
  <2>1. {q \in Proc : pid[q] = k} \in SUBSET Nat /\ {q \in Proc : pid[q] = k} # {}
    BY <1>1, ConstantsAssumption DEF Proc
  <2> QED BY <2>1, FirstInSet
<1>3. /\ killed' = [killed EXCEPT ![p] = TRUE]
      /\ IF state[p] = "SLEEPING" THEN state' = [state EXCEPT ![p] = "RUNNABLE"]
         ELSE state' = state
      /\ pc' = [pc EXCEPT ![caller] = IF p = caller THEN "exit" ELSE @]
      /\ cproc[c] = caller
      /\ UNCHANGED <<parent, chan, ptlock, cproc, cpc, wchan, np>>
  BY <1>1, <1>2 DEF kill_wakes, Syscall, At
<1>4. \A q \in Proc :
        /\ state'[q] = IF q = p /\ state[p] = "SLEEPING" THEN "RUNNABLE"
                       ELSE state[q]
        /\ q # p => killed'[q] = killed[q]
  <2>1. state \in [Proc -> States] /\ killed \in [Proc -> BOOLEAN]
    BY DEF IInv, TypeOK
  <2>2. CASE state[p] = "SLEEPING"
    BY <1>3, <2>1, <2>2
  <2>3. CASE state[p] # "SLEEPING"
    BY <1>3, <2>1, <2>3
  <2> QED BY <2>2, <2>3
<1>40. \A q \in Proc :
         /\ q # caller => pc'[q] = pc[q]
         /\ pc'[q] = "ffinish" => pc[q] = "ffinish"
  BY <1>3 DEF IInv, TypeOK
<1>5. state[caller] = "RUNNING"
  BY <1>3, CurrentRuns, ConstantsAssumption DEF Null, Proc
<1>6. LockInv'
  BY <1>3 DEF LInv, LockInv
<1>7. \A q \in Proc :
        /\ Live(q)' <=> Live(q)
        /\ state'[q] = "ZOMBIE" <=> state[q] = "ZOMBIE"
        /\ state'[q] = "SLEEPING" => /\ state[q] = "SLEEPING" /\ q # p
                                    /\ q # caller
  BY <1>4, <1>5 DEF Live
<1> QED BY <1>3, <1>4, <1>40, <1>6, <1>7, LifeKept

\* fork takes a slot, and a kernel stack or gives the slot back.
LEMMA ForkAllocLInv ==
  ASSUME IInv, IInv', LInv, NEW c \in CPU, ForkAlloc(c)
  PROVE  LInv'
<1>1. PICK p \in Proc : ForkAlloc(c)!(p)
  BY DEF ForkAlloc
<1>2. PICK n \in Proc : n = First(Unused) /\ state[n] = "UNUSED"
  <2>1. Unused \in SUBSET Nat /\ Unused # {}
    BY <1>1, ConstantsAssumption DEF Proc, Unused
  <2> QED BY <2>1, FirstInSet DEF Unused
<1>3. /\ state' = [state EXCEPT ![n] = "EMBRYO"] /\ np' = [np EXCEPT ![p] = n]
      /\ pc' = [pc EXCEPT ![p] = "fkstack"] /\ cproc[c] = p
      /\ UNCHANGED <<parent, chan, killed, ptlock, cproc, cpc, wchan>>
  BY <1>1, <1>2 DEF Syscall, At
<1>4. \A q \in Proc :
        /\ state'[q] = IF q = n THEN "EMBRYO" ELSE state[q]
        /\ q # p => pc'[q] = pc[q] /\ np'[q] = np[q]
        /\ pc'[p] = "fkstack"
  BY <1>3 DEF IInv, TypeOK
<1>5. state[p] = "RUNNING"
  BY <1>3, CurrentRuns, ConstantsAssumption DEF Null, Proc
<1>6. LockInv'
  BY <1>3 DEF LInv, LockInv
<1> QED BY <1>2, <1>3, <1>4, <1>5, <1>6, LifeKept DEF Live

\* The error returns of fork, and allocproc's kalloc.
LEMMA ForkBackLInv ==
  ASSUME IInv, IInv', LInv, NEW c \in CPU, NEW p \in Proc,
         cproc[c] = p, pc[p] \in {"fkstack", "fcopy"},
         \/ /\ state' = [state EXCEPT ![np[p]] = "UNUSED"] /\ SyscallReturn(p)
            /\ np' = [np EXCEPT ![p] = Null]
         \/ /\ state' = state /\ pc' = [pc EXCEPT ![p] = "fcopy"] /\ np' = np,
         UNCHANGED <<parent, chan, killed, ptlock, cproc, cpc, wchan>>
  PROVE  LInv'
<1>1. np[p] \in Proc /\ state[np[p]] = "EMBRYO"
  BY DEF IInv, TypeOK, ForkInv, ForkPoints
<1>2. state[p] = "RUNNING"
  BY CurrentRuns, ConstantsAssumption DEF Null, Proc
<1>3. \A q \in Proc :
        \/ state'[q] = state[q]
        \/ state[q] = "EMBRYO" /\ state'[q] = "UNUSED"
  <2>1. state \in [Proc -> States]
    BY DEF IInv, TypeOK
  <2>2. CASE state' = [state EXCEPT ![np[p]] = "UNUSED"]
    BY <1>1, <2>1, <2>2
  <2> QED BY <2>2
<1>30. /\ \A q \in Proc : q # p => pc'[q] = pc[q] /\ np'[q] = np[q]
       /\ pc'[p] # "ffinish"
  <2>1. pc \in [Proc -> ProcPoints] /\ np \in [Proc -> Proc \cup {Null}]
    BY DEF IInv, TypeOK
  <2> QED BY <2>1 DEF SyscallReturn
<1>4. LockInv'
  BY DEF LInv, LockInv
<1> QED BY <1>2, <1>3, <1>30, <1>4, LifeKept DEF Live

-----------------------------------------------------------------------------
(***************************************************************************)
(* Steps that are about families: the end of fork, exit and wait.          *)
(***************************************************************************)

\* A step outside exit that leaves the processors alone, and after which nobody
\* sleeps in wait who did not before.  The parents of ZOMBIEs stay; only the
\* slots in S get another parent.
LEMMA ExitInvKept ==
  ASSUME IInv, LInv, NEW S \in SUBSET Proc, NEW c \in CPU, cpc[c] \notin ExitPoints,
         UNCHANGED <<cpc, wchan>>, \A d \in CPU : d # c => cproc'[d] = cproc[d],
         \A q \in Proc \ S : parent'[q] = parent[q],
         \A q \in S : state[q] # "RUNNING" /\
           \A d \in CPU : cpc[d] \in ExitPoints => parent'[q] # cproc[d],
         \A d \in CPU : cpc[d] \in ExitPoints =>
           \A q \in Proc : Waits(q)' => Waits(q)
  PROVE  ExitInv'
<1>1. ASSUME NEW d \in CPU, cpc'[d] \in ExitPoints
      PROVE  /\ cproc'[d] # InitProc
             /\ cpc'[d] = "exitwake" => wchan'[d] = parent'[cproc'[d]]
             /\ cpc'[d] \in {"reparent", "initwake", "zombie"} =>
                  ~Waits(parent[cproc[d]])'
             /\ cpc'[d] \in {"initwake", "zombie"} =>
                  \A q \in Proc : parent'[q] # cproc'[d]
             /\ cpc'[d] = "initwake" => wchan'[d] = InitProc
  <2>1. d # c /\ cpc[d] \in ExitPoints /\ cproc'[d] = cproc[d] /\ cpc'[d] = cpc[d]
        /\ wchan'[d] = wchan[d]
    BY <1>1
  <2>2. PICK p \in Proc : p = cproc[d] /\ state[p] = "RUNNING"
    BY <2>1, Exiting
  <2>3. PICK r \in Proc : r = parent[p]
    BY <2>1, <2>2, Exiting
  <2>4. p \notin S /\ parent'[p] = r
    BY <2>2, <2>3
  <2>5. /\ p # InitProc
        /\ cpc[d] = "exitwake" => wchan[d] = r
        /\ cpc[d] \in {"reparent", "initwake", "zombie"} => ~Waits(r)
        /\ cpc[d] \in {"initwake", "zombie"} => \A q \in Proc : parent[q] # p
        /\ cpc[d] = "initwake" => wchan[d] = InitProc
    BY <2>1, <2>2, <2>3 DEF LInv, ExitInv
  <2>6. Waits(parent[cproc[d]])' = Waits(r)'
    BY <2>1, <2>2, <2>4 DEF Waits
  <2>7. cpc[d] \in {"initwake", "zombie"} => \A q \in Proc : parent'[q] # p
    BY <2>1, <2>2, <2>5
  <2> QED BY <2>1, <2>2, <2>4, <2>5, <2>6, <2>7
<1> QED BY <1>1 DEF ExitInv, ExitPoints, Waits

\* fork makes its caller the parent.
LEMMA ForkCopyLInv ==
  ASSUME IInv, IInv', LInv, NEW c \in CPU, NEW p \in Proc, At(c, p, "fcopy"),
         parent' = [parent EXCEPT ![np[p]] = p], pc' = [pc EXCEPT ![p] = "ffinish"],
         UNCHANGED <<state, np, chan, killed, ptlock, cproc, cpc, wchan>>
  PROVE  LInv'
<1>1. PICK n \in Proc : n = np[p] /\ state[n] = "EMBRYO"
  BY DEF IInv, TypeOK, ForkInv, ForkPoints, At
<1>2. state[p] = "RUNNING" /\ cproc[c] = p /\ cpc[c] = "run"
  BY CurrentRuns DEF At
<1>3. /\ parent'[n] = p /\ \A q \in Proc : q # n => parent'[q] = parent[q]
      /\ \A q \in Proc : q # p => pc'[q] = pc[q]
      /\ pc'[p] = "ffinish"
  BY <1>1 DEF IInv, TypeOK
<1>4. \A q \in Proc : Waits(q)' = Waits(q) /\ Live(q)' = Live(q)
  BY DEF Waits, Live
<1>5. n # InitProc /\ n # p
  BY <1>1, <1>2 DEF LInv, InitInv, Live
<1>6. LockInv' /\ InitInv'
  BY <1>3, <1>4, <1>5 DEF LInv, LockInv, InitInv
<1>7. ExitInv'
  <2>1. \A d \in CPU : cpc[d] \in ExitPoints => p # cproc[d]
    BY Exiting DEF At
  <2>2. /\ {n} \in SUBSET Proc /\ cpc[c] \notin ExitPoints
        /\ \A q \in Proc \ {n} : parent'[q] = parent[q]
        /\ \A q \in {n} : state[q] # "RUNNING" /\ parent'[q] = p
    <3>1. {n} \in SUBSET Proc /\ cpc[c] \notin ExitPoints
      BY <1>2 DEF ExitPoints
    <3>2. \A q \in Proc \ {n} : parent'[q] = parent[q]
      BY <1>3
    <3>3. state[n] # "RUNNING" /\ parent'[n] = p
      BY <1>1, <1>3
    <3> QED BY <3>1, <3>2, <3>3
  <2>3. PICK S \in SUBSET Proc : S = {n}
    BY <2>2
  <2>4. /\ \A q \in Proc \ S : parent'[q] = parent[q]
        /\ \A q \in S : state[q] # "RUNNING" /\
             \A d \in CPU : cpc[d] \in ExitPoints => parent'[q] # cproc[d]
    BY <2>1, <2>2, <2>3
  <2> QED BY <1>4, <2>2, <2>4, ExitInvKept
<1>8. ChildInv'
  <2>1. ASSUME NEW q \in Proc, q # p, pc[q] = "ffinish"
        PROVE  np[q] \in Proc /\ np[q] # n
    BY <1>1, <2>1 DEF IInv, TypeOK, ForkInv, ForkPoints, At
  <2> QED BY <1>1, <1>3, <2>1 DEF LInv, ChildInv
<1>9. ZombieInv'
  BY <1>1, <1>3, <1>4 DEF LInv, ZombieInv
<1>10. ParentAlive'
  <2>1. \A q \in Proc : parent[q] # Null => parent[q] \in Proc
    BY DEF IInv, TypeOK
  <2>2. ~Live(n) /\ state[n] # "ZOMBIE"
    BY <1>1 DEF Live
  <2> QED BY <1>3, <1>4, <2>1, <2>2 DEF LInv, ParentAlive
<1>11. KillReachesWait'
  BY <1>2, <1>3 DEF LInv, KillReachesWait
<1> QED BY <1>6, <1>7, <1>8, <1>9, <1>10, <1>11 DEF LInv

\* fork queues the child, which has a living parent.
LEMMA ForkFinishLInv ==
  ASSUME IInv, IInv', LInv, NEW c \in CPU, ForkFinish(c)
  PROVE  LInv'
<1>0. PICK p \in Proc : ForkFinish(c)!(p)
  BY DEF ForkFinish
<1>1. PICK n \in Proc : n = np[p] /\ state[n] = "EMBRYO" /\ parent[n] = p
  BY <1>0 DEF IInv, TypeOK, ForkInv, ForkPoints, At, LInv, ChildInv
<1>2. /\ state[p] = "RUNNING" /\ cproc[c] = p /\ cpc[c] = "run" /\ LockFree
      /\ pc[p] = "ffinish"
  BY <1>0, CurrentRuns DEF At
<1>3. /\ state' = [state EXCEPT ![n] = "RUNNABLE"]
      /\ pc' = [pc EXCEPT ![p] = IF killed[p] THEN "exit" ELSE "user",
                          ![n] = "user"]
      /\ np' = [np EXCEPT ![p] = Null]
      /\ UNCHANGED <<parent, chan, killed, ptlock, cproc, cpc, wchan>>
  BY <1>0, <1>1
<1>4. /\ \A q \in Proc : state'[q] = IF q = n THEN "RUNNABLE" ELSE state[q]
      /\ \A q \in Proc : q # p /\ q # n => pc'[q] = pc[q]
      /\ \A q \in Proc : q # p => np'[q] = np[q]
      /\ pc'[p] \in {"exit", "user"} /\ pc'[n] = "user"
  <2>1. state \in [Proc -> States] /\ pc \in [Proc -> ProcPoints]
        /\ np \in [Proc -> Proc \cup {Null}]
    BY DEF IInv, TypeOK
  <2>2. n # p
    BY <1>1, <1>2
  <2> QED BY <1>1, <1>3, <2>1, <2>2
<1>5. \A q \in Proc : Waits(q)' => Waits(q)
  BY <1>3, <1>4 DEF Waits
<1>6. \A q \in Proc : (Live(q)' <=> q = n \/ Live(q))
  BY <1>4 DEF Live
<1>7. LockInv' /\ InitInv'
  BY <1>3, <1>6 DEF LInv, LockInv, InitInv
<1>8. ExitInv'
  <2>1. {} \in SUBSET Proc /\ \A q \in Proc : parent'[q] = parent[q]
    BY <1>3
  <2> QED BY <1>2, <1>3, <1>5, <2>1, ExitInvKept DEF ExitPoints
<1>9. ChildInv'
  BY <1>3, <1>4 DEF LInv, ChildInv
<1>10. ZombieInv'
  BY <1>3, <1>4, <1>5 DEF LInv, ZombieInv
<1>11. ParentAlive'
  <2>1. \A q \in Proc : parent[q] # Null => parent[q] \in Proc
    BY DEF IInv, TypeOK
  <2>2. p # Null /\ Live(p)
    BY <1>2, ConstantsAssumption DEF Live, Null, Proc
  <2>3. \A q \in Proc : q # n => (state'[q] = "ZOMBIE" <=> state[q] = "ZOMBIE")
    BY <1>4
  <2> QED BY <1>1, <1>3, <1>6, <2>1, <2>2, <2>3 DEF LInv, ParentAlive
<1>12. KillReachesWait'
  BY <1>2, <1>3, <1>4 DEF LInv, KillReachesWait
<1> QED BY <1>7, <1>8, <1>9, <1>10, <1>11, <1>12 DEF LInv

\* exit takes ptable.lock to wake its parent.
LEMMA ExitBeginLInv ==
  ASSUME IInv, IInv', LInv, NEW c \in CPU, ExitBegin(c)
  PROVE  LInv'
<1>1. PICK p \in Proc \ {InitProc} :
        /\ cproc[c] = p /\ cpc[c] = "run" /\ LockFree
        /\ ptlock' = c /\ cpc' = [cpc EXCEPT ![c] = "exitwake"]
        /\ wchan' = [wchan EXCEPT ![c] = parent[p]]
        /\ UNCHANGED <<parent, state, chan, killed, cproc, pc, np>>
  BY DEF ExitBegin, At, exit_wakes
<1>2. \A d \in CPU : cpc[d] \notin LockedPoints
  BY <1>1, OneLocked DEF LockFree, LockedPoints, WakePoints, ExitPoints
<1>3. /\ cpc'[c] = "exitwake" /\ wchan'[c] = parent[p]
      /\ \A d \in CPU : d # c => cpc'[d] = cpc[d] /\ cpc'[d] \notin LockedPoints
  BY <1>1, <1>2 DEF IInv, TypeOK
<1>4. LockInv'
  BY <1>1, <1>3 DEF LockInv
<1>5. InitInv' /\ ChildInv' /\ ParentAlive' /\ KillReachesWait'
  BY <1>1 DEF LInv, InitInv, ChildInv, ParentAlive, KillReachesWait, Live
<1>6. ExitInv'
  BY <1>1, <1>3 DEF ExitInv, ExitPoints, LockedPoints
<1>7. ZombieInv'
  <2>1. \A q \in Proc : Waits(q)' <=> Waits(q)
    BY <1>1 DEF Waits
  <2>2. ~ \E d \in CPU : cpc[d] = "initwake"
    BY <1>2 DEF LockedPoints, ExitPoints
  <2> QED BY <1>1, <2>1, <2>2 DEF LInv, ZombieInv
<1> QED BY <1>4, <1>5, <1>6, <1>7 DEF LInv

\* wakeup1 ends: nobody sleeps on its channel any more.
LEMMA WakeDoneLInv ==
  ASSUME IInv, IInv', LInv, NEW c \in CPU, WakeDone(c)
  PROVE  LInv'
<1>1. /\ cpc[c] \in WakePoints /\ SleepersOn(wchan[c]) = {}
      /\ cpc' = [cpc EXCEPT ![c] =
                   CASE @ = "tickwake" -> "acct"
                     [] @ = "intrwake" -> "run"
                     [] @ = "exitwake" -> "reparent"
                     [] OTHER -> "zombie"]
      /\ ptlock' = IF cpc[c] \in {"tickwake", "intrwake"} THEN NoCpu ELSE c
      /\ wchan' = [wchan EXCEPT ![c] = Null]
      /\ UNCHANGED <<parent, state, chan, killed, cproc, np>>
  BY DEF WakeDone
<1>2. ptlock = c /\ \A d \in CPU : d # c => cpc[d] \notin LockedPoints
  BY <1>1, OneLocked DEF LInv, LockInv, LockedPoints
<1>3. /\ \A d \in CPU : d # c => cpc'[d] = cpc[d]
      /\ cpc[c] = "tickwake" => cpc'[c] = "acct"
      /\ cpc[c] = "intrwake" => cpc'[c] = "run"
      /\ cpc[c] = "exitwake" => cpc'[c] = "reparent"
      /\ cpc[c] = "initwake" => cpc'[c] = "zombie"
  <2>1. cpc \in [CPU -> CpuPoints]
    BY DEF IInv, TypeOK
  <2> QED BY <1>1, <2>1
<1>4. \A d \in CPU : d # c => cpc'[d] \notin LockedPoints
  BY <1>2, <1>3
<1>5. LockInv'
  BY <1>1, <1>3, <1>4 DEF LockInv, LockedPoints, WakePoints, ExitPoints
<1>6. InitInv' /\ ParentAlive'
  BY <1>1 DEF LInv, InitInv, ParentAlive, Live
<1>7. ExitInv'
  <2>1. CASE cpc[c] = "exitwake"
    <3>1. /\ cproc[c] \in Proc \ {InitProc} /\ wchan[c] = parent[cproc[c]]
          /\ parent[cproc[c]] \in Proc
      BY <2>1, Exiting DEF LInv, ExitInv, ExitPoints
    <3>2. ~Waits(parent[cproc[c]])'
      BY <1>1, <3>1 DEF Waits, SleepersOn
    <3> QED BY <1>1, <1>3, <1>4, <2>1, <3>1, <3>2
            DEF ExitInv, ExitPoints, LockedPoints
  <2>2. CASE cpc[c] = "initwake"
    <3>1. /\ cproc[c] # InitProc /\ ~Waits(parent[cproc[c]])
          /\ \A q \in Proc : parent[q] # cproc[c]
      BY <2>2 DEF LInv, ExitInv, ExitPoints
    <3>2. ~Waits(parent[cproc[c]])'
      BY <1>1, <3>1 DEF Waits
    <3> QED BY <1>1, <1>3, <1>4, <2>2, <3>1, <3>2
            DEF ExitInv, ExitPoints, LockedPoints
  <2>3. CASE cpc[c] \in {"tickwake", "intrwake"}
    BY <1>3, <1>4, <2>3 DEF ExitInv, ExitPoints, LockedPoints
  <2> QED BY <1>1, <2>1, <2>2, <2>3 DEF WakePoints
<1>8. ZombieInv'
  <2>1. ASSUME NEW p \in Proc, NEW q \in Proc, Waits(p), parent[q] = p,
               state[q] = "ZOMBIE"
        PROVE  FALSE
    <3>1. p = InitProc /\ cpc[c] = "initwake"
      BY <1>2, <2>1 DEF LInv, ZombieInv, LockedPoints, ExitPoints
    <3>2. wchan[c] = p
      BY <3>1 DEF LInv, ExitInv
    <3> QED BY <1>1, <2>1, <3>2 DEF SleepersOn, Waits
  <2> QED BY <1>1, <2>1 DEF ZombieInv, Waits
<1>9. \A q \in Proc : pc'[q] = pc[q] \/ (state[q] = "RUNNING" /\ pc'[q] = "exit")
  <2>1. pc \in [Proc -> ProcPoints]
    BY DEF IInv, TypeOK
  <2>2. CASE cproc[c] = Null
    BY <2>2 DEF WakeDone
  <2>3. CASE cproc[c] # Null
    <3>1. PICK p \in Proc : p = cproc[c] /\ state[p] = "RUNNING"
      BY <2>3, CurrentRuns
    <3>2. \/ pc' = pc
          \/ pc' = [pc EXCEPT ![p] = IF @ = "user" /\ killed[p] THEN "exit" ELSE @]
      BY <2>3, <3>1 DEF WakeDone
    <3> QED BY <2>1, <3>1, <3>2
  <2> QED BY <2>2, <2>3
<1>10. ChildInv' /\ KillReachesWait'
  BY <1>1, <1>9 DEF LInv, ChildInv, KillReachesWait
<1> QED BY <1>5, <1>6, <1>7, <1>8, <1>10 DEF LInv

\* exit hands its children to init.
LEMMA ReparentLInv ==
  ASSUME IInv, IInv', LInv, NEW c \in CPU, Reparent(c)
  PROVE  LInv'
<1> DEFINE kids == Children(cproc[c])
<1>1. /\ cpc[c] = "reparent"
      /\ parent' = [q \in Proc |-> IF q \in kids THEN InitProc ELSE parent[q]]
      /\ IF \E q \in kids : state[q] = "ZOMBIE"
         THEN cpc' = [cpc EXCEPT ![c] = "initwake"]
              /\ wchan' = [wchan EXCEPT ![c] = InitProc]
         ELSE cpc' = [cpc EXCEPT ![c] = "zombie"]
      /\ UNCHANGED <<state, chan, killed, ptlock, cproc, pc, np>>
  BY DEF Reparent
<1>2. PICK p \in Proc : p = cproc[c]
  BY <1>1, Exiting DEF ExitPoints
<1>3. /\ p # InitProc /\ pc[p] = "exit" /\ state[p] = "RUNNING" /\ ptlock = c
      /\ parent[p] \in Proc /\ parent[p] # p /\ ~Waits(parent[p])
  BY <1>1, <1>2, Exiting DEF ExitPoints, LInv, ExitInv
<1>4. \A q \in Proc : q \in kids <=> parent[q] = p
  BY <1>2 DEF Children
<1>5. \A q \in Proc : parent'[q] = IF parent[q] = p THEN InitProc ELSE parent[q]
  BY <1>1, <1>4
<1>6. \A d \in CPU : d # c => cpc[d] \notin LockedPoints
  BY <1>3, OneLocked DEF LInv
<1>7. /\ \A d \in CPU : d # c => cpc'[d] = cpc[d] /\ cpc'[d] \notin LockedPoints
      /\ IF \E q \in kids : state[q] = "ZOMBIE"
         THEN cpc'[c] = "initwake" /\ wchan'[c] = InitProc
         ELSE cpc'[c] = "zombie"
  <2>1. cpc \in [CPU -> CpuPoints] /\ c \in DOMAIN wchan
    BY DEF IInv, TypeOK
  <2>2. CASE \E q \in kids : state[q] = "ZOMBIE"
    BY <1>1, <1>6, <2>1, <2>2
  <2>3. CASE ~ \E q \in kids : state[q] = "ZOMBIE"
    BY <1>1, <1>6, <2>1, <2>3
  <2> QED BY <2>2, <2>3
<1> HIDE DEF kids
<1>8. \A q \in Proc : (Waits(q)' <=> Waits(q)) /\ (Live(q)' <=> Live(q))
  BY <1>1 DEF Waits, Live
<1>9. LockInv'
  BY <1>1, <1>3, <1>7 DEF LockInv
<1>10. InitInv'
  <2>1. Null # p
    BY ConstantsAssumption DEF Null, Proc
  <2>2. InitProc \in Proc /\ Live(InitProc) /\ parent[InitProc] = Null
        /\ \A q \in Proc : parent[q] # q
    BY DEF LInv, InitInv
  <2> QED BY <1>5, <1>8, <2>1, <2>2 DEF InitInv
<1>11. ExitInv'
  <2>1. parent'[p] = parent[p] /\ cproc'[c] = p
    BY <1>1, <1>2, <1>3, <1>5
  <2>2. ~Waits(parent[cproc[c]])'
    BY <1>1, <1>3, <2>1 DEF Waits
  <2>3. \A q \in Proc : parent'[q] # p
    BY <1>3, <1>5
  <2> QED BY <1>3, <1>7, <2>1, <2>2, <2>3 DEF ExitInv, ExitPoints, LockedPoints
<1>12. ChildInv'
  <2>1. ASSUME NEW q \in Proc, pc[q] = "ffinish"
        PROVE  np[q] \in Proc /\ parent[np[q]] = q /\ q # p
    BY <1>3, <2>1 DEF IInv, TypeOK, ForkInv, ForkPoints, LInv, ChildInv
  <2> QED BY <1>1, <1>5, <2>1 DEF ChildInv
<1>13. ZombieInv'
  <2>1. ASSUME NEW r \in Proc, NEW q \in Proc, Waits(r), parent'[q] = r,
               state[q] = "ZOMBIE"
        PROVE  r = InitProc /\ cpc'[c] = "initwake"
    <3>1. CASE parent[q] = p
      BY <1>4, <1>5, <1>7, <2>1, <3>1
    <3>2. CASE parent[q] # p
      BY <1>1, <1>5, <1>6, <2>1, <3>2
         DEF LInv, ZombieInv, LockedPoints, ExitPoints
    <3> QED BY <3>1, <3>2
  <2> QED BY <1>1, <1>8, <2>1 DEF ZombieInv
<1>14. ParentAlive'
  <2>1. \A q \in Proc : parent[q] # Null => parent[q] \in Proc
    BY DEF IInv, TypeOK
  <2>2. InitProc \in Proc /\ Live(InitProc) /\ InitProc # Null
    BY DEF LInv, InitInv, InitProc, Null
  <2> QED BY <1>1, <1>5, <1>8, <2>1, <2>2 DEF LInv, ParentAlive
<1>15. KillReachesWait'
  BY <1>1 DEF LInv, KillReachesWait
<1> QED BY <1>9, <1>10, <1>11, <1>12, <1>13, <1>14, <1>15 DEF LInv

\* exit becomes a ZOMBIE: its parent does not sleep in wait, and it has no child.
LEMMA ExitFinishLInv ==
  ASSUME IInv, IInv', LInv, NEW c \in CPU, ExitFinish(c)
  PROVE  LInv'
<1>1. PICK p \in Proc :
        /\ p = cproc[c] /\ cpc[c] = "zombie"
        /\ state' = [state EXCEPT ![p] = "ZOMBIE"]
        /\ cpc' = [cpc EXCEPT ![c] = "run"]
        /\ UNCHANGED <<parent, chan, killed, pc, np>>
  BY Exiting DEF ExitFinish, ExitPoints
<1>2. /\ p # InitProc /\ pc[p] = "exit" /\ state[p] = "RUNNING" /\ ptlock = c
      /\ ~Waits(parent[p]) /\ \A q \in Proc : parent[q] # p
      /\ parent[p] # Null /\ Live(parent[p])
  <2>1. parent[p] \in Proc /\ Null \notin Proc
    BY <1>1, Exiting, ConstantsAssumption DEF ExitPoints, Null, Proc
  <2> QED BY <1>1, <2>1, Exiting DEF ExitPoints, LInv, ExitInv
<1>3. \A d \in CPU : d # c => cpc[d] \notin LockedPoints
  BY <1>2, OneLocked DEF LInv
<1>4. \A d \in CPU : cpc'[d] \notin LockedPoints
  BY <1>1, <1>3 DEF IInv, TypeOK, LockedPoints, WakePoints, ExitPoints
<1>5. \A q \in Proc : state'[q] = IF q = p THEN "ZOMBIE" ELSE state[q]
  BY <1>1 DEF IInv, TypeOK
<1>6. LockInv' /\ ExitInv'
  BY <1>4 DEF LockInv, ExitInv, LockedPoints, ExitPoints
<1>7. \A q \in Proc : (Waits(q)' => Waits(q)) /\ (q # p => (Live(q)' <=> Live(q)))
  BY <1>1, <1>2, <1>5 DEF Waits, Live
<1>8. InitInv'
  BY <1>1, <1>2, <1>7 DEF LInv, InitInv
<1>9. ChildInv' /\ KillReachesWait'
  BY <1>1, <1>2, <1>5 DEF LInv, ChildInv, KillReachesWait
<1>10. ZombieInv'
  <2>1. ASSUME NEW r \in Proc, NEW q \in Proc, Waits(r), parent[q] = r,
               state'[q] = "ZOMBIE"
        PROVE  FALSE
    <3>1. q # p
      BY <1>2, <2>1
    <3> QED BY <1>1, <1>3, <1>5, <2>1, <3>1
            DEF LInv, ZombieInv, LockedPoints, ExitPoints
  <2> QED BY <1>1, <1>7, <2>1 DEF ZombieInv
<1>11. ParentAlive'
  <2>1. \A q \in Proc : parent[q] # Null => parent[q] \in Proc /\ parent[q] # p
    BY <1>2 DEF IInv, TypeOK
  <2>2. ~Live(p)'
    BY <1>5 DEF Live
  <2> QED BY <1>1, <1>2, <1>5, <1>7, <2>1, <2>2 DEF LInv, ParentAlive
<1> QED BY <1>6, <1>8, <1>9, <1>10, <1>11 DEF LInv

\* wait reaps a ZOMBIE child, gives up, or sleeps with no ZOMBIE child.
LEMMA WaitLInv ==
  ASSUME IInv, IInv', LInv, NEW c \in CPU, Wait(c)
  PROVE  LInv'
<1>0. PICK p \in Proc : Wait(c)!(p)
  BY DEF Wait
<1> DEFINE zombies == {q \in Children(p) : state[q] = "ZOMBIE"}
<1>1. /\ cproc[c] = p /\ state[p] = "RUNNING" /\ cpc[c] = "run"
      /\ pc[p] \in {"user", "wait"} /\ ptlock \in {c, NoCpu}
      /\ UNCHANGED <<cpc, wchan, np>>
  BY <1>0, CurrentRuns DEF Syscall, At, LockFree
<1>2. \A d \in CPU : cpc[d] \notin LockedPoints
  <2>1. cpc[c] \notin LockedPoints
    BY <1>1 DEF LockedPoints, WakePoints, ExitPoints
  <2> QED BY <1>1, <2>1, OneLocked
<1>3. LockInv' /\ ExitInv'
  BY <1>1, <1>2 DEF LockInv, ExitInv, LockedPoints, ExitPoints
<1>4. \A r, q \in Proc : ~(Waits(r) /\ parent[q] = r /\ state[q] = "ZOMBIE")
  BY <1>2 DEF LInv, ZombieInv, LockedPoints, ExitPoints
<1>5. /\ state \in [Proc -> States] /\ pc \in [Proc -> ProcPoints]
      /\ parent \in [Proc -> Proc \cup {Null}] /\ killed \in [Proc -> BOOLEAN]
      /\ chan \in [Proc -> Proc \cup IoChan \cup {Null}]
  BY DEF IInv, TypeOK
<1>6. CASE zombies # {}
  <2>1. PICK z \in Proc : /\ z = First(zombies) /\ parent[z] = p
                          /\ state[z] = "ZOMBIE"
    <3>1. zombies \in SUBSET Nat
      BY ConstantsAssumption DEF Children, Proc
    <3>2. First(zombies) \in zombies
      BY <1>6, <3>1, FirstInSet
    <3> QED BY <3>2 DEF Children
  <2>2. /\ parent' = [parent EXCEPT ![z] = Null]
        /\ killed' = [killed EXCEPT ![z] = FALSE]
        /\ state' = [state EXCEPT ![z] = "UNUSED"]
        /\ SyscallReturn(p) /\ UNCHANGED <<chan, cproc>>
    BY <1>0, <1>6, <2>1
  <2>3. \A q \in Proc :
          /\ parent'[q] = IF q = z THEN Null ELSE parent[q]
          /\ state'[q] = IF q = z THEN "UNUSED" ELSE state[q]
          /\ q # z => killed'[q] = killed[q]
    BY <1>5, <2>2
  <2>4. \A q \in Proc : q # p => pc'[q] = pc[q]
    BY <1>5, <2>2 DEF SyscallReturn
  <2>5. pc'[p] \in {"exit", "user"} /\ z # p
    BY <1>1, <1>5, <2>1, <2>2 DEF SyscallReturn
  <2>6. \A q \in Proc : (Waits(q)' => Waits(q)) /\ (Live(q)' <=> Live(q))
    BY <2>1, <2>2, <2>3 DEF Waits, Live
  <2>7. Null \notin Proc
    BY ConstantsAssumption DEF Null, Proc
  <2>8. InitInv'
    <3>1. InitProc \in Proc /\ Live(InitProc) /\ parent[InitProc] = Null
          /\ \A q \in Proc : parent[q] # q
      BY DEF LInv, InitInv
    <3> QED BY <2>3, <2>6, <2>7, <3>1 DEF InitInv
  <2>9. ChildInv'
    <3>1. \A q \in Proc : pc[q] = "ffinish" =>
            np[q] \in Proc /\ state[np[q]] = "EMBRYO"
      BY DEF IInv, TypeOK, ForkInv, ForkPoints
    <3> QED BY <1>1, <2>1, <2>3, <2>4, <2>5, <3>1 DEF LInv, ChildInv
  <2>10. ZombieInv'
    BY <1>4, <2>3, <2>6, <2>7 DEF ZombieInv
  <2>11. ParentAlive'
    <3>1. \A q \in Proc : parent[q] # Null => parent[q] \in Proc
      BY <1>5
    <3>2. ~Live(z)' /\ state'[z] # "ZOMBIE"
      BY <2>3 DEF Live
    <3> QED BY <2>3, <2>6, <3>1, <3>2 DEF LInv, ParentAlive
  <2>12. KillReachesWait'
    BY <1>1, <2>3, <2>4, <2>5 DEF LInv, KillReachesWait
  <2> QED BY <1>3, <2>8, <2>9, <2>10, <2>11, <2>12 DEF LInv
<1>7. CASE zombies = {} /\ wait_gives_up(p)
  <2>1. SyscallReturn(p) /\ UNCHANGED <<parent, killed, state, chan, cproc>>
    BY <1>0, <1>7
  <2>2. /\ \A q \in Proc : q # p => pc'[q] = pc[q]
        /\ pc'[p] \in {"exit", "user"}
    BY <1>5, <2>1 DEF SyscallReturn
  <2>3. \A q \in Proc :
          /\ Live(q)' <=> Live(q)
          /\ state'[q] = "SLEEPING" => q # p
          /\ pc'[q] = "ffinish" => q # p
    BY <1>1, <2>1, <2>2 DEF Live
  <2>4. \A d \in CPU : cpc'[d] \notin ExitPoints /\ cpc[d] # "initwake"
    BY <1>1, <1>2 DEF LockedPoints, ExitPoints
  <2> QED BY <1>1, <1>3, <2>1, <2>2, <2>3, <2>4, LifeKept
<1>8. CASE zombies = {} /\ ~wait_gives_up(p)
  <2>1. /\ chan' = [chan EXCEPT ![p] = p]
        /\ state' = [state EXCEPT ![p] = "SLEEPING"]
        /\ pc' = [pc EXCEPT ![p] = "wait"]
        /\ UNCHANGED <<parent, killed>>
    BY <1>0, <1>8
  <2>2. \A q \in Proc :
          /\ state'[q] = IF q = p THEN "SLEEPING" ELSE state[q]
          /\ pc'[q] = IF q = p THEN "wait" ELSE pc[q]
          /\ q # p => chan'[q] = chan[q]
    BY <1>5, <2>1
  <2>3. \A q \in Proc : (Live(q)' <=> Live(q)) /\ (q # p => (Waits(q)' => Waits(q)))
    BY <1>1, <2>2 DEF Waits, Live
  <2>4. \A q \in Proc : ~(parent[q] = p /\ state[q] = "ZOMBIE")
    BY <1>8 DEF Children
  <2>5. ~killed[p]
    BY <1>8 DEF wait_gives_up
  <2>6. InitInv' /\ ChildInv'
    BY <1>1, <2>1, <2>2, <2>3 DEF LInv, InitInv, ChildInv
  <2>7. ZombieInv'
    BY <1>4, <2>1, <2>2, <2>3, <2>4 DEF ZombieInv
  <2>8. ParentAlive'
    <3>1. \A q \in Proc : parent[q] # Null => parent[q] \in Proc
      BY <1>5
    <3> QED BY <2>1, <2>2, <2>3, <3>1 DEF LInv, ParentAlive
  <2>9. KillReachesWait'
    BY <2>1, <2>2, <2>5 DEF LInv, KillReachesWait
  <2> QED BY <1>3, <2>6, <2>7, <2>8, <2>9 DEF LInv
<1> QED BY <1>6, <1>7, <1>8

-----------------------------------------------------------------------------
\* Every step preserves the invariant.
LEMMA NextLInv ==
  ASSUME IInv, IInv', LInv, [Next]_vars
  PROVE  LInv'
<1>1. CASE UNCHANGED vars
  <2>1. LockInv'
    BY <1>1 DEF vars, LInv, LockInv
  <2> QED BY <1>1, <2>1, LifeKept DEF vars, Live
<1>2. ASSUME NEW c \in CPU, ForkKstack(c) PROVE LInv'
  BY <1>2, ForkBackLInv DEF ForkKstack, ForkUndo, At
<1>3. ASSUME NEW c \in CPU, ForkCopy(c) PROVE LInv'
  <2>1. PICK p \in Proc : ForkCopy(c)!(p)
    BY <1>3 DEF ForkCopy
  <2>2. CASE ForkUndo(p)
    BY <2>1, <2>2, ForkBackLInv DEF ForkUndo, At
  <2>3. CASE ~ForkUndo(p)
    BY <2>1, <2>3, ForkCopyLInv
  <2> QED BY <2>2, <2>3
<1>4. CASE Next
  BY <1>2, <1>3, <1>4, HandlersLInv, SchedulerLInv, LeaveLInv, WakeOneLInv,
     WakeDoneLInv, KillLInv, ForkAllocLInv, ForkFinishLInv, ExitBeginLInv,
     ReparentLInv, ExitFinishLInv, WaitLInv
     DEF Next
<1> QED BY <1>1, <1>4

\* The initial state satisfies the invariant.
LEMMA InitLInv ==
  ASSUME Init PROVE LInv
<1>1. InitProc \in Proc /\ Null \notin Proc
  BY ConstantsAssumption DEF InitProc, Proc, Null
<1>2. LockInv /\ ExitInv
  BY DEF Init, LockInv, ExitInv, LockedPoints, WakePoints, ExitPoints
<1>3. InitInv
  BY <1>1 DEF Init, InitInv, Live
<1>4. ChildInv /\ KillReachesWait /\ ZombieInv /\ ParentAlive
  BY <1>1 DEF Init, ChildInv, KillReachesWait, ZombieInv, ParentAlive, Waits, Live
<1> QED BY <1>2, <1>3, <1>4 DEF LInv

\* LInv is an invariant of the specification.
THEOREM LifeInvariant == Spec => []LInv
<1>1. Init => LInv
  BY InitLInv
<1>2. IInv /\ IInv' /\ LInv /\ [Next]_vars => LInv'
  BY NextLInv
<1> QED BY <1>1, <1>2, Invariance, PTL DEF Spec

\* exit and wait: outside the critical sections of ptable.lock no parent sleeps
\* in wait over a ZOMBIE child, its own or one that exit has handed to init.
THEOREM NoChildIsLost == Spec => []NoLostChild
<1>1. ASSUME LInv PROVE NoLostChild
  <2>1. LockFree => \A c \in CPU : cpc[c] # "initwake"
    <3>1. NoCpu \notin CPU
      BY ConstantsAssumption DEF NoCpu, CPU
    <3> QED BY <1>1, <3>1 DEF LInv, LockInv, LockFree, LockedPoints, ExitPoints
  <2> QED BY <1>1, <2>1 DEF LInv, ZombieInv, NoLostChild, Waits
<1> QED BY <1>1, LifeInvariant, PTL

\* exit and fork: the parent of every process, dead or alive, is alive.
THEOREM ParentsAreAlive == Spec => []ParentAlive
<1>1. LInv => ParentAlive
  BY DEF LInv
<1> QED BY <1>1, LifeInvariant, PTL

\* kill and wait: no killed process sleeps in wait.
THEOREM KillIsSeen == Spec => []KillReachesWait
<1>1. LInv => KillReachesWait
  BY DEF LInv
<1> QED BY <1>1, LifeInvariant, PTL

-----------------------------------------------------------------------------

(***************************************************************************)
(* The order of the queues, aging and the quantum: the inductive           *)
(* invariants, next to IInv and LInv above.                                *)
(***************************************************************************)

\* No process has entered its queue in the future: add_to_queue compares ticks
\* with the entry times of the others.
EntryInv == \A p \in Proc : queue_entry_time[p] <= ticks

\* p is in a list that check_aging visits and has waited for its promotion.
Overdue(p) ==
  /\ Live(p) /\ q_level[p] > 0 /\ ~Exempt(p)
  /\ cpu_wait[p] >= AgingTicks

\* A process is overdue only while it is queued and check_aging is at work; the
\* one that runs or sleeps keeps what it has waited for later.
AgeInv ==
  \A p \in Proc : Overdue(p) => /\ state[p] = "RUNNABLE"
                                /\ \E c \in CPU : cpc[c] = "age"

-----------------------------------------------------------------------------
(***************************************************************************)
(* Sorted lists, in the terms of the fields io and et of the processes.    *)
(***************************************************************************)

\* p may stand before q.
Ahead(io, et, p, q) == io[p] > io[q] \/ (io[p] = io[q] /\ et[p] >= et[q])

SortedSeq(s, io, et) ==
  \A i, j \in 1 .. Len(s) : i < j => Ahead(io, et, s[i], s[j])

Sorted(qs, io, et) == \A lv \in Level : SortedSeq(qs[lv], io, et)

Fields == [Proc -> Nat]

\* ListOrder in these terms.
LEMMA SortedIs ==
  ASSUME TypeOK
  PROVE  /\ ListOrder <=> Sorted(queue, io_wait_time, queue_entry_time)
         /\ io_wait_time \in Fields /\ queue_entry_time \in Fields
<1>1. \A lv \in Level : DOMAIN queue[lv] = 1 .. Len(queue[lv])
  BY DEF TypeOK
<1> QED BY <1>1 DEF TypeOK, ListOrder, Sorted, SortedSeq, Ahead, Fields

\* ListOrder after a step.
LEMMA SortedNext ==
  ASSUME TypeOK', Sorted(queue', io_wait_time', queue_entry_time')
  PROVE  ListOrder'
<1>1. \A lv \in Level : DOMAIN queue'[lv] = 1 .. Len(queue'[lv])
  BY DEF TypeOK
<1> QED BY <1>1 DEF TypeOK, ListOrder, Sorted, SortedSeq, Ahead

\* The order is transitive.
LEMMA AheadTransitive ==
  ASSUME NEW io \in Fields, NEW et \in Fields,
         NEW p \in Proc, NEW q \in Proc, NEW r \in Proc,
         Ahead(io, et, p, q), Ahead(io, et, q, r)
  PROVE  Ahead(io, et, p, r)
<1>1. /\ io[p] \in Nat /\ io[q] \in Nat /\ io[r] \in Nat
      /\ et[p] \in Nat /\ et[q] \in Nat /\ et[r] \in Nat
  BY DEF Fields
<1> QED BY <1>1 DEF Ahead

\* Inserting behind what is ahead and before what is not keeps a list sorted.
LEMMA InsertSorted ==
  ASSUME NEW s \in Seq(Proc), NEW i \in 1 .. Len(s) + 1, NEW p \in Proc,
         NEW io \in Fields, NEW et \in Fields, SortedSeq(s, io, et),
         \A j \in 1 .. i - 1 : Ahead(io, et, s[j], p),
         i <= Len(s) => Ahead(io, et, p, s[i])
  PROVE  SortedSeq(InsertAt(s, i, p), io, et)
<1> DEFINE n == InsertAt(s, i, p)
<1>1. /\ Len(n) = Len(s) + 1
      /\ \A k \in 1 .. Len(s) + 1 : n[k] = IF k < i THEN s[k]
                                           ELSE IF k = i THEN p ELSE s[k - 1]
  <2>1. /\ InsertAt(s, i, p) \in Seq(Proc)
        /\ Len(InsertAt(s, i, p)) = Len(s) + 1
        /\ \A k \in 1 .. Len(s) + 1 :
             InsertAt(s, i, p)[k] = IF k < i THEN s[k]
                                    ELSE IF k = i THEN p ELSE s[k - 1]
    BY InsertAtElements
  <2> QED BY <2>1
<1>2. Len(s) \in Nat /\ i \in Nat /\ \A k \in 1 .. Len(s) : s[k] \in Proc
  OBVIOUS
<1> HIDE DEF n
<1>3. ASSUME NEW j \in 1 .. Len(s) + 1, NEW k \in 1 .. Len(s) + 1, j < k
      PROVE  Ahead(io, et, n[j], n[k])
  <2>1. CASE k < i
    <3>1. j \in 1 .. Len(s) /\ k \in 1 .. Len(s) /\ j < i
      BY <1>2, <1>3, <2>1
    <3> QED BY <1>1, <1>3, <2>1, <3>1 DEF SortedSeq
  <2>2. CASE k = i
    <3>1. j \in 1 .. i - 1 /\ j < i
      BY <1>2, <1>3, <2>2
    <3>2. n[j] = s[j] /\ n[k] = p
      BY <1>1, <1>2, <2>2, <3>1
    <3> QED BY <3>1, <3>2
  <2>3. CASE k > i /\ j = i
    <3>1. i <= Len(s) /\ i \in 1 .. Len(s) /\ k - 1 \in 1 .. Len(s)
      BY <1>2, <2>3
    <3>2. n[j] = p /\ n[k] = s[k - 1]
      BY <1>1, <1>2, <2>3
    <3>3. CASE k - 1 = i
      BY <3>1, <3>2, <3>3
    <3>4. CASE k - 1 # i
      <4>1. i < k - 1
        BY <1>2, <2>3, <3>4
      <4>2. Ahead(io, et, s[i], s[k - 1])
        BY <3>1, <4>1 DEF SortedSeq
      <4>3. s[i] \in Proc /\ s[k - 1] \in Proc /\ Ahead(io, et, p, s[i])
        BY <1>2, <3>1
      <4> QED BY <3>2, <4>2, <4>3, AheadTransitive
    <3> QED BY <3>3, <3>4
  <2>4. CASE k > i /\ j # i
    <3> DEFINE j2 == IF j < i THEN j ELSE j - 1
    <3>1. j2 \in 1 .. Len(s) /\ k - 1 \in 1 .. Len(s) /\ j2 < k - 1
      BY <1>2, <1>3, <2>4
    <3>2. n[j] = s[j2] /\ n[k] = s[k - 1]
      BY <1>1, <1>2, <1>3, <2>4
    <3> HIDE DEF j2
    <3> QED BY <3>1, <3>2 DEF SortedSeq
  <2> QED BY <1>2, <2>1, <2>2, <2>3, <2>4
<1> QED BY <1>1, <1>3 DEF SortedSeq, n

\* Unlinking keeps a list sorted.
LEMMA RemoveSorted ==
  ASSUME NEW s \in Seq(Proc), NEW i \in 1 .. Len(s), NEW io, NEW et,
         SortedSeq(s, io, et)
  PROVE  SortedSeq(RemoveAt(s, i), io, et)
<1> DEFINE n == RemoveAt(s, i)
<1>1. /\ Len(n) = Len(s) - 1
      /\ \A k \in 1 .. Len(s) - 1 : n[k] = IF k < i THEN s[k] ELSE s[k + 1]
  BY RemoveAtElements
<1>2. Len(s) \in Nat /\ i \in Nat
  OBVIOUS
<1> HIDE DEF n
<1>3. ASSUME NEW j \in 1 .. Len(s) - 1, NEW k \in 1 .. Len(s) - 1, j < k
      PROVE  Ahead(io, et, n[j], n[k])
  <2> DEFINE at(x) == IF x < i THEN x ELSE x + 1
  <2>1. at(j) \in 1 .. Len(s) /\ at(k) \in 1 .. Len(s) /\ at(j) < at(k)
    BY <1>2, <1>3
  <2>2. n[j] = s[at(j)] /\ n[k] = s[at(k)]
    BY <1>1
  <2> HIDE DEF at
  <2> QED BY <2>1, <2>2 DEF SortedSeq
<1> QED BY <1>1, <1>3 DEF SortedSeq, n

\* Only the fields of the queued processes matter.
LEMMA SortedFields ==
  ASSUME NEW qs \in [Level -> Seq(Proc)], NEW lev, NEW R \in SUBSET Proc,
         Exact(qs, lev, R), NEW io, NEW et, NEW io2, NEW et2, Sorted(qs, io, et),
         \A p \in R : io2[p] = io[p] /\ et2[p] = et[p]
  PROVE  Sorted(qs, io2, et2)
<1>1. ASSUME NEW lv \in Level, NEW k \in 1 .. Len(qs[lv])
      PROVE  qs[lv][k] \in R
  <2>1. qs[lv][k] \in ToSet(qs[lv])
    BY DEF ToSet
  <2> QED BY <2>1 DEF Exact
<1> QED BY <1>1 DEF Sorted, SortedSeq, Ahead

\* Where add_to_queue stops: behind every process that is not to be passed.
LEMMA InsertPosIs ==
  ASSUME NEW s \in Seq(Proc), NEW io
  PROVE  /\ InsertPos(s, io) \in 1 .. Len(s) + 1
         /\ \A j \in 1 .. InsertPos(s, io) - 1 : ~p_is_higher(io, s[j])
         /\ InsertPos(s, io) <= Len(s) => p_is_higher(io, s[InsertPos(s, io)])
<1> DEFINE T == {i \in 1 .. Len(s) : p_is_higher(io, s[i])}
<1>1. DOMAIN s = 1 .. Len(s) /\ Len(s) \in Nat
  OBVIOUS
<1>2. CASE T # {}
  <2>1. PICK i \in T : \A j \in T : i <= j
    <3>1. T \in SUBSET Nat
      BY <1>1
    <3> HIDE DEF T
    <3> QED BY <1>2, <3>1, LeastNat
  <2>2. /\ i \in DOMAIN s /\ p_is_higher(io, s[i])
        /\ \A j \in 1 .. i - 1 : ~p_is_higher(io, s[j])
    BY <1>1, <2>1
  <2>3. /\ InsertPos(s, io) \in DOMAIN s /\ p_is_higher(io, s[InsertPos(s, io)])
        /\ \A j \in 1 .. InsertPos(s, io) - 1 : ~p_is_higher(io, s[j])
    BY <2>2 DEF InsertPos
  <2> QED BY <1>1, <2>3
<1>3. CASE T = {}
  <2>1. ~ \E i \in DOMAIN s : p_is_higher(io, s[i])
    BY <1>1, <1>3
  <2>2. InsertPos(s, io) = Len(s) + 1
    BY <2>1 DEF InsertPos
  <2> QED BY <1>1, <2>1, <2>2
<1> QED BY <1>2, <1>3

\* add_to_queue keeps the lists sorted, for a process in no list that enters now
\* with io_wait_time io.
LEMMA AddSorted ==
  ASSUME TypeOK, EntryInv,
         NEW qs \in [Level -> Seq(Proc)], NEW lev, NEW R \in SUBSET Proc,
         Exact(qs, lev, R), Sorted(qs, io_wait_time, queue_entry_time),
         NEW p \in Proc, p \notin R, NEW lv \in Level, NEW io \in Nat,
         NEW io2 \in Fields, NEW et2 \in Fields,
         io2[p] = io, et2[p] = ticks,
         \A q \in R : io2[q] = io_wait_time[q] /\ et2[q] = queue_entry_time[q]
  PROVE  Sorted(add_to_queue(qs, p, lv, io), io2, et2)
<1> DEFINE s == qs[lv]
           i == InsertPos(s, io)
<1>1. Sorted(qs, io2, et2)
  BY SortedFields
<1>2. s \in Seq(Proc) /\ \A k \in 1 .. Len(s) : s[k] \in R
  <2>1. \A k \in 1 .. Len(s) : s[k] \in ToSet(s)
    BY DEF ToSet
  <2> QED BY <2>1 DEF Exact
<1>3. /\ i \in 1 .. Len(s) + 1 /\ \A j \in 1 .. i - 1 : ~p_is_higher(io, s[j])
      /\ i <= Len(s) => p_is_higher(io, s[i])
  BY <1>2, InsertPosIs
<1>4. SortedSeq(s, io2, et2)
  BY <1>1 DEF Sorted
<1>5. add_to_queue(qs, p, lv, io) = [qs EXCEPT ![lv] = InsertAt(s, i, p)]
  BY DEF add_to_queue
<1> HIDE DEF s, i
<1>6. ASSUME NEW q \in R
      PROVE  /\ p_is_higher(io, q) => Ahead(io2, et2, p, q)
             /\ ~p_is_higher(io, q) => Ahead(io2, et2, q, p)
  <2>1. /\ io_wait_time[q] \in Nat /\ queue_entry_time[q] \in Nat /\ ticks \in Nat
        /\ queue_entry_time[q] <= ticks
    BY DEF TypeOK, EntryInv
  <2> QED BY <1>6, <2>1 DEF p_is_higher, Ahead
<1>7. SortedSeq(InsertAt(s, i, p), io2, et2)
  <2>1. \A j \in 1 .. i - 1 : j \in 1 .. Len(s)
    BY <1>2, <1>3
  <2>2. \A j \in 1 .. i - 1 : Ahead(io2, et2, s[j], p)
    BY <1>2, <1>3, <1>6, <2>1
  <2>3. i <= Len(s) => Ahead(io2, et2, p, s[i])
    BY <1>2, <1>3, <1>6
  <2> QED BY <1>2, <1>3, <1>4, <2>2, <2>3, InsertSorted
<1> QED BY <1>1, <1>5, <1>7 DEF Sorted

\* remove_from_queue keeps the lists sorted.
LEMMA UnlinkSorted ==
  ASSUME TypeOK, NEW p \in Proc, NEW io, NEW et, Sorted(queue, io, et)
  PROVE  Sorted(remove_from_queue(p), io, et)
<1> DEFINE lv == q_level[p]
           s == queue[lv]
<1>1. lv \in Level /\ s \in Seq(Proc) /\ DOMAIN s = 1 .. Len(s)
  BY DEF TypeOK
<1>2. CASE \E i \in DOMAIN s : s[i] = p
  <2> DEFINE i == CHOOSE i \in DOMAIN s : s[i] = p
  <2>1. i \in DOMAIN s
    BY <1>2
  <2>2. remove_from_queue(p) = [queue EXCEPT ![lv] = RemoveAt(s, i)]
    BY <1>2 DEF remove_from_queue
  <2>3. SortedSeq(s, io, et)
    BY <1>1 DEF Sorted
  <2> HIDE DEF i, s, lv
  <2>4. SortedSeq(RemoveAt(s, i), io, et)
    BY <1>1, <2>1, <2>3, RemoveSorted
  <2>5. queue \in [Level -> Seq(Proc)]
    BY DEF TypeOK
  <2> QED BY <1>1, <2>2, <2>4, <2>5 DEF Sorted
<1>3. CASE ~ \E i \in DOMAIN s : s[i] = p
  <2>1. remove_from_queue(p) = queue
    BY <1>3 DEF remove_from_queue, TypeOK
  <2> QED BY <2>1
<1> QED BY <1>2, <1>3

-----------------------------------------------------------------------------
(***************************************************************************)
(* The lists stay sorted.                                                  *)
(***************************************************************************)

SInv == ListOrder /\ EntryInv

\* A step that neither links nor unlinks, and leaves the queued processes alone.
LEMMA SortedKept ==
  ASSUME IInv, IInv', SInv, queue' = queue,
         \A p \in Proc : state[p] = "RUNNABLE" =>
           /\ io_wait_time'[p] = io_wait_time[p]
           /\ queue_entry_time'[p] = queue_entry_time[p]
  PROVE  ListOrder'
<1>1. Sorted(queue, io_wait_time, queue_entry_time)
  BY SortedIs DEF IInv, SInv
<1>2. Sorted(queue, io_wait_time', queue_entry_time')
  <2>1. /\ queue \in [Level -> Seq(Proc)] /\ Runnable \in SUBSET Proc
        /\ Exact(queue, q_level, Runnable)
    BY IInvQueues DEF Runnable
  <2>2. \A p \in Runnable : /\ io_wait_time'[p] = io_wait_time[p]
                            /\ queue_entry_time'[p] = queue_entry_time[p]
    BY DEF Runnable
  <2> QED BY <1>1, <2>1, <2>2, SortedFields
<1> QED BY <1>2, SortedNext DEF IInv

\* Entry times are 0 or the present, and the present does not go back.
LEMMA EntryKept ==
  ASSUME IInv, SInv, ticks' \in {ticks, ticks + 1},
         \A p \in Proc : queue_entry_time'[p] \in {queue_entry_time[p], ticks, 0}
  PROVE  EntryInv'
<1>1. ticks \in Nat /\ \A p \in Proc : /\ queue_entry_time[p] \in Nat
                                       /\ queue_entry_time[p] <= ticks
  BY DEF IInv, TypeOK, SInv, EntryInv
<1> QED BY <1>1 DEF EntryInv

\* A process that was not queued is queued at its place.
LEMMA QueuedSorted ==
  ASSUME IInv, IInv', SInv, NEW p \in Proc, state[p] # "RUNNABLE",
         NEW lv \in Level, NEW io \in Nat, Enqueue(queue, p, lv, io),
         io_wait_time'[p] = io, ticks' = ticks,
         \A q \in Proc : q # p => io_wait_time'[q] = io_wait_time[q]
  PROVE  SInv'
<1>1. /\ Sorted(queue, io_wait_time, queue_entry_time)
      /\ queue \in [Level -> Seq(Proc)] /\ Runnable \in SUBSET Proc
      /\ Exact(queue, q_level, Runnable) /\ p \notin Runnable
      /\ TypeOK /\ EntryInv
  BY SortedIs, IInvQueues DEF IInv, SInv, Runnable
<1>2. io_wait_time' \in Fields /\ queue_entry_time' \in Fields
  BY DEF IInv, TypeOK, Fields
<1>3. \A q \in Proc : queue_entry_time'[q] = IF q = p THEN ticks
                                             ELSE queue_entry_time[q]
  BY DEF Enqueue, IInv, TypeOK
<1>4. Sorted(add_to_queue(queue, p, lv, io), io_wait_time', queue_entry_time')
  <2>1. \A q \in Runnable : /\ io_wait_time'[q] = io_wait_time[q]
                            /\ queue_entry_time'[q] = queue_entry_time[q]
    BY <1>1, <1>3
  <2>2. queue_entry_time'[p] = ticks
    BY <1>3
  <2> QED BY <1>1, <1>2, <2>1, <2>2, AddSorted
<1>5. ListOrder'
  BY <1>4, SortedNext DEF Enqueue, IInv
<1>6. EntryInv'
  BY <1>3, EntryKept
<1> QED BY <1>5, <1>6 DEF SInv

\* scheduler unlinks the process that it dispatches.
LEMMA SchedulerSorted ==
  ASSUME IInv, IInv', SInv, NEW c \in CPU, Scheduler(c)
  PROVE  SInv'
<1>1. get_next_proc \in Proc
  BY IInvQueues, NextProcBest DEF Scheduler, Runnable
<1>2. Sorted(remove_from_queue(get_next_proc), io_wait_time, queue_entry_time)
  BY <1>1, SortedIs, UnlinkSorted DEF IInv, SInv
<1>3. ListOrder'
  BY <1>2, SortedNext DEF Scheduler, IInv
<1>4. EntryInv'
  BY EntryKept DEF Scheduler
<1> QED BY <1>3, <1>4 DEF SInv

\* promote_process unlinks a process and queues it one level up.
LEMMA AgeOneSorted ==
  ASSUME IInv, IInv', SInv, NEW c \in CPU, AgeOne(c)
  PROVE  SInv'
<1> DEFINE lv == First(Aged)
           p  == queue[lv][First(AgedAt(lv))]
<1>1. /\ p \in Runnable /\ lv - 1 \in Level
      /\ Enqueue(remove_from_queue(p), p, lv - 1, io_wait_time[p])
      /\ UNCHANGED <<io_wait_time, ticks>>
  <2>1. Aged # {}
    BY DEF AgeOne
  <2>2. p \in Runnable /\ lv \in 1 .. 3
    BY <2>1, AgedProc
  <2>3. /\ Enqueue(remove_from_queue(p), p, lv - 1, io_wait_time[p])
        /\ UNCHANGED <<io_wait_time, ticks>>
    BY DEF AgeOne
  <2> HIDE DEF p, lv
  <2>4. lv - 1 \in Level
    BY <2>2 DEF Level
  <2> QED BY <2>2, <2>3, <2>4
<1> HIDE DEF p, lv
<1>2. p \in Proc /\ Runnable \ {p} \in SUBSET Proc /\ p \notin Runnable \ {p}
  BY <1>1 DEF Runnable
<1>3. /\ remove_from_queue(p) \in [Level -> Seq(Proc)]
      /\ Exact(remove_from_queue(p), q_level, Runnable \ {p})
      /\ Sorted(remove_from_queue(p), io_wait_time, queue_entry_time)
  BY <1>1, <1>2, IInvQueues, RemoveExact, SortedIs, UnlinkSorted DEF IInv, SInv
<1>4. \A q \in Proc : queue_entry_time'[q] = IF q = p THEN ticks
                                             ELSE queue_entry_time[q]
  BY <1>1 DEF Enqueue, IInv, TypeOK
<1>5. /\ io_wait_time' \in Fields /\ queue_entry_time' \in Fields
      /\ io_wait_time[p] \in Nat /\ io_wait_time'[p] = io_wait_time[p]
      /\ queue_entry_time'[p] = ticks
      /\ \A q \in Runnable \ {p} : /\ io_wait_time'[q] = io_wait_time[q]
                                   /\ queue_entry_time'[q] = queue_entry_time[q]
  BY <1>1, <1>2, <1>4 DEF IInv, TypeOK, Fields, Runnable
<1>6. Sorted(add_to_queue(remove_from_queue(p), p, lv - 1, io_wait_time[p]),
             io_wait_time', queue_entry_time')
  BY <1>1, <1>2, <1>3, <1>5, AddSorted DEF IInv, SInv
<1>7. ListOrder'
  BY <1>1, <1>6, SortedNext DEF Enqueue, IInv
<1>8. EntryInv'
  BY <1>1, <1>4, EntryKept
<1> QED BY <1>7, <1>8 DEF SInv

\* A step that leaves the lists and the fields they are sorted by alone.
LEMMA PlainSorted ==
  ASSUME IInv, IInv', SInv, UNCHANGED <<queue, io_wait_time, queue_entry_time>>,
         ticks' \in {ticks, ticks + 1}
  PROVE  SInv'
<1>1. ListOrder'
  BY SortedKept
<1>2. EntryInv'
  BY EntryKept
<1> QED BY <1>1, <1>2 DEF SInv

\* The actions of this kind, and exit, which unlinks a process in no list.
LEMMA HandlersSorted ==
  ASSUME IInv, IInv', SInv, NEW c \in CPU,
         \/ \E ch \in IoChan : Sleep(c, ch) \/ DeviceIntr(c, ch)
         \/ WakeDone(c) \/ TimerIntr(c) \/ TickWakeup(c) \/ TimerIdle(c)
         \/ AgeDone(c) \/ TimerExit(c) \/ TrapTail(c) \/ Fault(c)
         \/ SysIo(c) \/ IoReturn(c) \/ ForkKstack(c) \/ ForkCopy(c)
         \/ SysExit(c) \/ Reparent(c) \/ ExitFinish(c) \/ Wait(c)
  PROVE  SInv'
<1>1. ASSUME NEW ch \in IoChan, Sleep(c, ch) \/ DeviceIntr(c, ch)
      PROVE  SInv'
  BY <1>1, PlainSorted DEF Sleep, DeviceIntr
<1>2. CASE WakeDone(c) \/ TimerIntr(c) \/ TickWakeup(c) \/ TimerIdle(c)
  BY <1>2, PlainSorted DEF WakeDone, TimerIntr, TickWakeup, TimerIdle
<1>3. CASE AgeDone(c) \/ TimerExit(c) \/ TrapTail(c) \/ Fault(c)
  BY <1>3, PlainSorted DEF AgeDone, TimerExit, TrapTail, Fault
<1>4. CASE SysIo(c) \/ IoReturn(c) \/ ForkKstack(c) \/ ForkCopy(c)
  BY <1>4, PlainSorted DEF SysIo, IoReturn, ForkKstack, ForkCopy
<1>5. CASE SysExit(c) \/ Reparent(c) \/ ExitFinish(c) \/ Wait(c)
  BY <1>5, PlainSorted DEF SysExit, Reparent, ExitFinish, Wait
<1> QED BY <1>1, <1>2, <1>3, <1>4, <1>5

\* exit unlinks its caller, which runs and so is in no list.
LEMMA ExitBeginSorted ==
  ASSUME IInv, IInv', SInv, NEW c \in CPU, ExitBegin(c)
  PROVE  SInv'
<1>1. PICK p \in Proc : /\ At(c, p, "exit") /\ queue' = remove_from_queue(p)
                        /\ UNCHANGED <<counters, queue_entry_time, ticks>>
  BY DEF ExitBegin
<1>2. p \notin Runnable
  BY <1>1, CurrentRuns DEF At, Runnable
<1>3. queue' = queue
  BY <1>1, <1>2, IInvQueues, RemoveNothing
<1> QED BY <1>1, <1>3, PlainSorted

\* wakeup1 queues a sleeper.
LEMMA WakeOneSorted ==
  ASSUME IInv, IInv', SInv, NEW c \in CPU, WakeOne(c)
  PROVE  SInv'
<1> DEFINE p == First(SleepersOn(wchan[c]))
<1>1. /\ SleepersOn(wchan[c]) # {}
      /\ Enqueue(queue, p, q_level[p], io_wait_time[p])
      /\ UNCHANGED <<io_wait_time, ticks>>
  BY DEF WakeOne
<1>2. p \in SleepersOn(wchan[c])
  <2>1. SleepersOn(wchan[c]) \in SUBSET Nat
    BY DEF SleepersOn, Proc
  <2> QED BY <1>1, <2>1, FirstInSet
<1> HIDE DEF p
<1>3. p \in Proc /\ state[p] = "SLEEPING"
  BY <1>2 DEF SleepersOn
<1>4. q_level[p] \in Level /\ io_wait_time[p] \in Nat
  BY <1>3 DEF IInv, TypeOK
<1> QED BY <1>1, <1>3, <1>4, QueuedSorted

\* yield queues the process that ran.
LEMMA TimerYieldSorted ==
  ASSUME IInv, IInv', SInv, NEW c \in CPU, TimerYield(c)
  PROVE  SInv'
<1> DEFINE p == cproc[c]
<1>1. /\ cpc[c] = "post" /\ Enqueue(queue, p, q_level[p], io_wait_time[p])
      /\ UNCHANGED <<io_wait_time, ticks>>
  BY DEF TimerYield
<1>2. p \in Proc /\ state[p] = "RUNNING"
  BY <1>1, CurrentRuns DEF IInv, CpuInv
<1> HIDE DEF p
<1>3. q_level[p] \in Level /\ io_wait_time[p] \in Nat
  BY <1>2 DEF IInv, TypeOK
<1> QED BY <1>1, <1>2, <1>3, QueuedSorted

\* kill queues its victim if it sleeps.
LEMMA KillSorted ==
  ASSUME IInv, IInv', SInv, NEW c \in CPU, NEW k \in KillPids, Kill(c, k)
  PROVE  SInv'
<1> DEFINE P == {q \in Proc : pid[q] = k}
           p == First(P)
<1>1. /\ P # {}
      /\ IF kill_wakes(p)
         THEN Enqueue(queue, p, q_level[p], io_wait_time[p])
         ELSE UNCHANGED placing
      /\ UNCHANGED <<io_wait_time, ticks>>
  BY DEF Kill
<1>2. p \in P
  <2>1. P \in SUBSET Nat
    BY DEF Proc
  <2> HIDE DEF P
  <2> QED BY <1>1, <2>1, FirstInSet
<1>3. p \in Proc
  BY <1>2
<1> HIDE DEF p, P
<1>4. CASE kill_wakes(p)
  <2>1. q_level[p] \in Level /\ io_wait_time[p] \in Nat
    BY <1>3 DEF IInv, TypeOK
  <2>2. state[p] = "SLEEPING"
    BY <1>4 DEF kill_wakes
  <2> QED BY <1>1, <1>3, <1>4, <2>1, <2>2, QueuedSorted
<1>5. CASE ~kill_wakes(p)
  BY <1>1, <1>5, PlainSorted
<1> QED BY <1>4, <1>5

\* fork queues the new child, which was an EMBRYO.
LEMMA ForkFinishSorted ==
  ASSUME IInv, IInv', SInv, NEW c \in CPU, ForkFinish(c)
  PROVE  SInv'
<1>1. PICK p \in Proc :
        /\ At(c, p, "ffinish")
        /\ Enqueue(queue, np[p], IF pid[p] = 1 THEN 3 ELSE 0, 0)
        /\ io_wait_time' = [io_wait_time EXCEPT ![np[p]] = 0]
        /\ UNCHANGED ticks
  BY DEF ForkFinish
<1>2. np[p] \in Proc /\ state[np[p]] = "EMBRYO"
  BY <1>1, ForkChild DEF At, ForkPoints
<1>3. /\ io_wait_time'[np[p]] = 0
      /\ \A q \in Proc : q # np[p] => io_wait_time'[q] = io_wait_time[q]
  BY <1>1, <1>2 DEF IInv, TypeOK
<1>4. (IF pid[p] = 1 THEN 3 ELSE 0) \in Level
  BY DEF Level
<1> QED BY <1>1, <1>2, <1>3, <1>4, QueuedSorted

\* allocproc resets the fields of a slot that holds no process.
LEMMA ForkAllocSorted ==
  ASSUME IInv, IInv', SInv, NEW c \in CPU, ForkAlloc(c)
  PROVE  SInv'
<1> DEFINE n == First(Unused)
<1>1. /\ Unused # {} /\ UNCHANGED <<queue, ticks>>
      /\ io_wait_time' = [io_wait_time EXCEPT ![n] = 0]
      /\ queue_entry_time' = [queue_entry_time EXCEPT ![n] = 0]
  BY DEF ForkAlloc
<1>2. n \in Unused
  <2>1. Unused \in SUBSET Nat
    BY DEF Unused, Proc
  <2> QED BY <1>1, <2>1, FirstInSet
<1> HIDE DEF n
<1>3. n \in Proc /\ state[n] = "UNUSED"
  BY <1>2 DEF Unused
<1>4. \A q \in Proc :
        /\ q # n => io_wait_time'[q] = io_wait_time[q]
        /\ queue_entry_time'[q] = IF q = n THEN 0 ELSE queue_entry_time[q]
  BY <1>1, <1>3 DEF IInv, TypeOK
<1>5. ListOrder'
  BY <1>1, <1>3, <1>4, SortedKept
<1>6. EntryInv'
  BY <1>1, <1>4, EntryKept
<1> QED BY <1>5, <1>6 DEF SInv

\* The clock counts I/O waiting of SLEEPING processes only, and demote_process
\* resets that of a RUNNING one: no process in a list is overtaken in its place.
LEMMA TimerAcctSorted ==
  ASSUME IInv, IInv', SInv, NEW c \in CPU, TimerAcct(c)
  PROVE  SInv'
<1>1. /\ cproc[c] # Null /\ UNCHANGED <<queue, queue_entry_time, ticks>>
      /\ LET io == update_timers(io_wait_time, "SLEEPING") IN
           \/ io_wait_time' = io
           \/ io_wait_time' = [io EXCEPT ![cproc[c]] = 0]
  BY DEF TimerAcct
<1>2. cproc[c] \in Proc /\ state[cproc[c]] = "RUNNING"
  BY <1>1, CurrentRuns
<1>3. \A q \in Proc : state[q] = "RUNNABLE" => io_wait_time'[q] = io_wait_time[q]
  BY <1>1, <1>2 DEF update_timers
<1>4. ListOrder'
  BY <1>1, <1>3, SortedKept
<1>5. EntryInv'
  BY <1>1, EntryKept
<1> QED BY <1>4, <1>5 DEF SInv

\* set_proc_info writes the fields of its caller, which is in no list.
LEMMA SetProcInfoSorted ==
  ASSUME IInv, IInv', SInv, NEW c \in CPU, NEW a \in SetInfoArgs,
         SetProcInfo(c, a)
  PROVE  SInv'
<1>1. PICK p \in Proc :
        /\ At(c, p, "user") /\ UNCHANGED <<queue, queue_entry_time, ticks>>
        /\ io_wait_time' = [io_wait_time EXCEPT ![p] = a.io_wait_time]
  BY DEF SetProcInfo, Syscall
<1>2. state[p] = "RUNNING"
  BY <1>1, CurrentRuns DEF At
<1>3. \A q \in Proc : state[q] = "RUNNABLE" => io_wait_time'[q] = io_wait_time[q]
  BY <1>1, <1>2 DEF IInv, TypeOK
<1>4. ListOrder'
  BY <1>1, <1>3, SortedKept
<1>5. EntryInv'
  BY <1>1, EntryKept
<1> QED BY <1>4, <1>5 DEF SInv

\* Every step keeps the lists sorted.
LEMMA NextSInv ==
  ASSUME IInv, IInv', SInv, [Next]_vars
  PROVE  SInv'
<1>1. CASE UNCHANGED vars
  BY <1>1, PlainSorted DEF vars
<1>2. CASE Next
  BY <1>2, HandlersSorted, ExitBeginSorted, WakeOneSorted, TimerYieldSorted,
     KillSorted, ForkFinishSorted, ForkAllocSorted, TimerAcctSorted,
     SetProcInfoSorted, SchedulerSorted, AgeOneSorted
     DEF Next
<1> QED BY <1>1, <1>2

\* One process is a sorted list.
LEMMA InitSInv ==
  ASSUME Init PROVE SInv
<1>1. EntryInv
  BY DEF Init, EntryInv
<1>2. \A lv \in Level : DOMAIN queue[lv] \subseteq {1}
  <2>1. \A lv \in Level : queue[lv] = IF lv = 3 THEN <<InitProc>> ELSE << >>
    BY DEF Init
  <2>2. DOMAIN <<InitProc>> = {1} /\ DOMAIN << >> = {}
    OBVIOUS
  <2> QED BY <2>1, <2>2
<1>3. ListOrder
  BY <1>2 DEF ListOrder
<1> QED BY <1>1, <1>3 DEF SInv

\* add_to_queue: every list is ordered by falling io_wait_time, although the
\* clock goes on, counters change and processes leave from anywhere in the list.
\* It is proved of the stronger order that p_is_higher keeps.
THEOREM QueuesStaySorted == Spec => []QueueSorted
<1>1. Init => SInv
  BY InitSInv
<1>2. IInv /\ IInv' /\ SInv /\ [Next]_vars => SInv'
  BY NextSInv
<1>3. IInv /\ SInv => QueueSorted
  <2> SUFFICES ASSUME IInv, SInv, NEW lv \in Level, NEW i \in DOMAIN queue[lv],
                      NEW j \in DOMAIN queue[lv], i < j
               PROVE  io_wait_time[queue[lv][i]] >= io_wait_time[queue[lv][j]]
    BY DEF QueueSorted
  <2>1. queue[lv][i] \in Proc /\ queue[lv][j] \in Proc
    BY DEF IInv, TypeOK
  <2>2. /\ io_wait_time[queue[lv][i]] \in Nat
        /\ io_wait_time[queue[lv][j]] \in Nat
    BY <2>1 DEF IInv, TypeOK
  <2> QED BY <2>2 DEF SInv, ListOrder
<1> QED BY <1>1, <1>2, <1>3, Invariance, PTL DEF Spec

-----------------------------------------------------------------------------
(***************************************************************************)
(* Steps that leave the counters of the live processes alone.              *)
(***************************************************************************)

\* Nobody comes to life, is spared, or changes level, type or counters.
Quiet ==
  \A p \in Proc : Live(p)' =>
    /\ Live(p)
    /\ killed[p] => killed'[p]
    /\ q_level'[p] = q_level[p] /\ type'[p] = type[p]
    /\ cpu_burst'[p] = cpu_burst[p] /\ cpu_wait'[p] = cpu_wait[p]

\* The states of the live processes stay too.
StatesStay == \A p \in Proc : Live(p)' => state'[p] = state[p]

\* The steps that may be taken while another processor has ptable.lock.
LEMMA OutsideQuiet ==
  ASSUME IInv, NEW c \in CPU,
         \/ TimerIntr(c) \/ TimerIdle(c) \/ TimerExit(c) \/ TrapTail(c)
         \/ Fault(c) \/ SysIo(c) \/ IoReturn(c)
         \/ ForkKstack(c) \/ ForkCopy(c) \/ SysExit(c)
  PROVE  /\ Quiet /\ StatesStay
         /\ \A d \in CPU : cpc[d] = "age" => cpc'[d] = "age"
<1>1. CASE TimerIntr(c) \/ TimerIdle(c)
  BY <1>1 DEF TimerIntr, TimerIdle, Interruptible, Quiet, StatesStay, Live,
     IInv, TypeOK
<1>2. CASE TimerExit(c)
  BY <1>2 DEF TimerExit, Quiet, StatesStay, Live, IInv, TypeOK
<1>3. CASE TrapTail(c) \/ SysIo(c) \/ IoReturn(c) \/ SysExit(c)
  BY <1>3 DEF TrapTail, SysIo, IoReturn, SysExit, Quiet, StatesStay, Live
<1>4. CASE Fault(c)
  BY <1>4 DEF Fault, Quiet, StatesStay, Live, IInv, TypeOK
<1>5. CASE ForkKstack(c) \/ ForkCopy(c)
  <2>1. PICK p \in Proc :
          /\ At(c, p, "fkstack") \/ At(c, p, "fcopy")
          /\ state' = state \/ state' = [state EXCEPT ![np[p]] = "UNUSED"]
          /\ UNCHANGED <<type, counters, placing, killed, cpc>>
    BY <1>5 DEF ForkKstack, ForkCopy, ForkUndo
  <2>2. \A q \in Proc : state'[q] = state[q] \/ state'[q] = "UNUSED"
    BY <2>1 DEF IInv, TypeOK
  <2> QED BY <2>1, <2>2 DEF Quiet, StatesStay, Live
<1> QED BY <1>1, <1>2, <1>3, <1>4, <1>5

\* The steps that need ptable.lock: check_aging is not at work.
LEMMA InsideQuiet ==
  ASSUME IInv, LInv, NEW c \in CPU,
         \/ Scheduler(c)
         \/ \E ch \in IoChan : Sleep(c, ch) \/ DeviceIntr(c, ch)
         \/ WakeOne(c) \/ WakeDone(c) \/ TickWakeup(c) \/ TimerYield(c)
         \/ \E k \in KillPids : Kill(c, k)
         \/ ExitBegin(c) \/ Reparent(c) \/ ExitFinish(c) \/ Wait(c)
  PROVE  Quiet /\ \A d \in CPU : cpc[d] # "age"
<1>1. (LockFree \/ ptlock = c) /\ cpc[c] # "age"
  <2>1. CASE \/ Scheduler(c) \/ \E ch \in IoChan : Sleep(c, ch) \/ DeviceIntr(c, ch)
             \/ TickWakeup(c) \/ TimerYield(c) \/ ExitBegin(c) \/ Wait(c)
    BY <2>1 DEF Scheduler, Sleep, DeviceIntr, Interruptible, TickWakeup,
       TimerYield, ExitBegin, Wait, Syscall, At
  <2>2. CASE \E k \in KillPids : Kill(c, k)
    BY <2>2 DEF Kill, Syscall, At
  <2>3. CASE WakeOne(c) \/ WakeDone(c) \/ Reparent(c) \/ ExitFinish(c)
    <3>1. cpc[c] \in LockedPoints /\ cpc[c] # "age"
      BY <2>3 DEF WakeOne, WakeDone, Reparent, ExitFinish, LockedPoints,
         WakePoints, ExitPoints
    <3> QED BY <3>1 DEF LInv, LockInv
  <2> QED BY <2>1, <2>2, <2>3
<1>2. \A d \in CPU : cpc[d] # "age"
  BY <1>1, OneLocked DEF LockFree, LockedPoints
<1>3. CASE Scheduler(c)
  <2>1. get_next_proc \in Proc /\ state[get_next_proc] = "RUNNABLE"
    BY <1>3, IInvQueues, NextProcBest DEF Scheduler, Runnable
  <2>2. /\ \A q \in Proc : q # get_next_proc => state'[q] = state[q]
        /\ UNCHANGED <<killed, type, q_level, counters>>
    BY <1>3, <2>1 DEF Scheduler, IInv, TypeOK
  <2> QED BY <1>2, <2>1, <2>2 DEF Quiet, Live
<1>4. ASSUME NEW ch \in IoChan, Sleep(c, ch)
      PROVE  Quiet
  <2>1. PICK p \in Proc :
          /\ At(c, p, "io") \/ At(c, p, "exit")
          /\ state' = [state EXCEPT ![p] = "SLEEPING"]
          /\ UNCHANGED <<killed, type, q_level, counters>>
    BY <1>4 DEF Sleep
  <2>2. state[p] = "RUNNING" /\ \A q \in Proc : q # p => state'[q] = state[q]
    BY <2>1, CurrentRuns DEF At, IInv, TypeOK
  <2> QED BY <2>1, <2>2 DEF Quiet, Live
<1>5. ASSUME NEW ch \in IoChan, DeviceIntr(c, ch)
      PROVE  Quiet
  BY <1>5 DEF DeviceIntr, Quiet, Live
<1>6. CASE WakeDone(c) \/ TickWakeup(c) \/ ExitBegin(c) \/ Reparent(c)
  BY <1>2, <1>6 DEF WakeDone, TickWakeup, ExitBegin, Reparent, Quiet, Live
<1>7. ASSUME NEW p \in Proc, Live(p),
             state' = [state EXCEPT ![p] = "RUNNABLE"],
             Enqueue(queue, p, q_level[p], io_wait_time[p]),
             UNCHANGED <<type, counters>>,
             \A q \in Proc : killed[q] => killed'[q]
      PROVE  Quiet
  <2>1. \A q \in Proc : (q # p => state'[q] = state[q]) /\ q_level'[q] = q_level[q]
    BY <1>7 DEF Enqueue, IInv, TypeOK
  <2> QED BY <1>7, <2>1 DEF Quiet, Live
<1>8. CASE WakeOne(c)
  <2> DEFINE p == First(SleepersOn(wchan[c]))
  <2>1. p \in SleepersOn(wchan[c])
    <3>1. SleepersOn(wchan[c]) \in SUBSET Nat /\ SleepersOn(wchan[c]) # {}
      BY <1>8 DEF SleepersOn, Proc, WakeOne
    <3> QED BY <3>1, FirstInSet
  <2>2. /\ state' = [state EXCEPT ![p] = "RUNNABLE"]
        /\ Enqueue(queue, p, q_level[p], io_wait_time[p])
        /\ UNCHANGED <<type, counters, killed>>
    BY <1>8 DEF WakeOne
  <2> HIDE DEF p
  <2>3. p \in Proc /\ Live(p)
    BY <2>1 DEF SleepersOn, Live
  <2> QED BY <1>2, <1>7, <2>2, <2>3
<1>9. CASE TimerYield(c)
  <2>1. cproc[c] \in Proc /\ Live(cproc[c])
    BY <1>9, CurrentRuns DEF TimerYield, IInv, CpuInv, Live
  <2>2. /\ state' = [state EXCEPT ![cproc[c]] = "RUNNABLE"]
        /\ Enqueue(queue, cproc[c], q_level[cproc[c]], io_wait_time[cproc[c]])
        /\ UNCHANGED <<type, counters, killed>>
    BY <1>9 DEF TimerYield
  <2> QED BY <1>2, <1>7, <2>1, <2>2
<1>10. ASSUME NEW k \in KillPids, Kill(c, k)
       PROVE  Quiet
  <2> DEFINE P == {q \in Proc : pid[q] = k}
             p == First(P)
  <2>1. /\ P # {}
        /\ killed' = [killed EXCEPT ![p] = TRUE]
        /\ IF kill_wakes(p)
           THEN /\ state' = [state EXCEPT ![p] = "RUNNABLE"]
                /\ Enqueue(queue, p, q_level[p], io_wait_time[p])
           ELSE UNCHANGED <<state, placing>>
        /\ UNCHANGED <<type, counters>>
    BY <1>10 DEF Kill
  <2>2. p \in P
    <3>1. P \in SUBSET Nat
      BY DEF Proc
    <3> HIDE DEF P
    <3> QED BY <2>1, <3>1, FirstInSet
  <2>3. p \in Proc
    BY <2>2
  <2> HIDE DEF p, P
  <2>4. \A q \in Proc : killed[q] => killed'[q]
    BY <2>1, <2>3 DEF IInv, TypeOK
  <2>5. CASE kill_wakes(p)
    BY <1>7, <2>1, <2>3, <2>4, <2>5 DEF kill_wakes, Live
  <2>6. CASE ~kill_wakes(p)
    BY <2>1, <2>4, <2>6 DEF Quiet, Live
  <2> QED BY <2>5, <2>6
<1>11. CASE ExitFinish(c)
  <2>1. /\ state' = [state EXCEPT ![cproc[c]] = "ZOMBIE"]
        /\ UNCHANGED <<type, counters, killed, q_level>>
    BY <1>11 DEF ExitFinish
  <2>2. \A q \in Proc : state'[q] = state[q] \/ state'[q] = "ZOMBIE"
    BY <2>1 DEF IInv, TypeOK
  <2> QED BY <1>2, <2>1, <2>2 DEF Quiet, Live
<1>12. CASE Wait(c)
  <2>1. PICK p \in Proc :
          /\ At(c, p, "user") \/ At(c, p, "wait")
          /\ \/ /\ state' = [state EXCEPT ![p] = "SLEEPING"] /\ killed' = killed
             \/ \E z \in Proc : /\ state' = [state EXCEPT ![z] = "UNUSED"]
                                /\ killed' = [killed EXCEPT ![z] = FALSE]
             \/ state' = state /\ killed' = killed
          /\ UNCHANGED <<type, counters, q_level>>
    <3>1. PICK p \in Proc : Wait(c)!(p)
      BY <1>12 DEF Wait
    <3> DEFINE Z == {q \in Children(p) : state[q] = "ZOMBIE"}
    <3>2. Z # {} => First(Z) \in Proc
      <4>1. Z \in SUBSET Proc /\ Z \in SUBSET Nat
        BY DEF Children, Proc
      <4> HIDE DEF Z
      <4> QED BY <4>1, FirstInSet
    <3>3. /\ At(c, p, "user") \/ At(c, p, "wait")
          /\ \/ /\ state' = [state EXCEPT ![p] = "SLEEPING"] /\ killed' = killed
             \/ /\ Z # {}
                /\ state' = [state EXCEPT ![First(Z)] = "UNUSED"]
                /\ killed' = [killed EXCEPT ![First(Z)] = FALSE]
             \/ state' = state /\ killed' = killed
          /\ UNCHANGED <<type, counters, q_level>>
      BY <3>1 DEF Syscall
    <3> HIDE DEF Z
    <3> QED BY <3>2, <3>3
  <2>2. state[p] = "RUNNING"
    BY <2>1, CurrentRuns DEF At
  <2>3. \A q \in Proc : Live(q)' => /\ Live(q) /\ killed'[q] = killed[q]
    BY <2>1, <2>2 DEF Live, IInv, TypeOK
  <2> QED BY <1>2, <2>1, <2>3 DEF Quiet
<1> QED BY <1>2, <1>3, <1>4, <1>5, <1>6, <1>8, <1>9, <1>10, <1>11, <1>12

-----------------------------------------------------------------------------
(***************************************************************************)
(* check_aging is prompt.                                                  *)
(***************************************************************************)

\* What programs may tell set_proc_info: not that they are overdue already.
WaitArgsInBounds ==
  \A a \in SetInfoArgs : a.q_level > 0 => a.cpu_wait < AgingTicks

\* A quiet step makes nobody overdue.
LEMMA QuietAge ==
  ASSUME AgeInv, Quiet,
         \/ \A c \in CPU : cpc[c] # "age"
         \/ StatesStay /\ \A c \in CPU : cpc[c] = "age" => cpc'[c] = "age"
  PROVE  AgeInv'
<1> SUFFICES ASSUME NEW p \in Proc, Overdue(p)'
             PROVE  state'[p] = "RUNNABLE" /\ \E c \in CPU : cpc'[c] = "age"
  BY DEF AgeInv
<1>1. Overdue(p) /\ Live(p)'
  BY DEF Overdue, Quiet, Exempt
<1>2. state[p] = "RUNNABLE" /\ \E c \in CPU : cpc[c] = "age"
  BY <1>1 DEF AgeInv
<1> QED BY <1>1, <1>2 DEF StatesStay

\* While ptable.lock is free nobody is overdue.
LEMMA NobodyOverdue ==
  ASSUME LInv, AgeInv, LockFree, NEW p \in Proc
  PROVE  ~Overdue(p)
<1>1. NoCpu \notin CPU
  BY ConstantsAssumption DEF NoCpu, CPU
<1>2. ~ \E c \in CPU : cpc[c] = "age"
  BY <1>1 DEF LInv, LockInv, LockFree, LockedPoints
<1> QED BY <1>2 DEF AgeInv

\* The clock charges waiting to RUNNABLE processes and goes on to check_aging;
\* a demoted process starts to wait anew.
LEMMA TimerAcctAge ==
  ASSUME IInv, LInv, AgeInv, NEW c \in CPU, TimerAcct(c)
  PROVE  AgeInv'
<1> DEFINE p == cproc[c]
           wait == update_timers(cpu_wait, "RUNNABLE")
<1>1. /\ p # Null /\ LockFree /\ cpc' = [cpc EXCEPT ![c] = "age"]
      /\ \/ q_level' = q_level /\ cpu_wait' = wait
         \/ /\ q_level' = [q_level EXCEPT ![p] = @ + 1]
            /\ cpu_wait' = [wait EXCEPT ![p] = 0]
      /\ UNCHANGED <<state, type>>
  BY DEF TimerAcct
<1>2. wait \in [Proc -> Nat] /\ \A q \in Proc : state[q] # "RUNNABLE" => wait[q] = cpu_wait[q]
  BY UpdateTimersType DEF update_timers, IInv, TypeOK
<1>3. p \in Proc /\ cpc'[c] = "age"
  BY <1>1, CurrentRuns DEF IInv, TypeOK
<1> HIDE DEF p, wait
<1> SUFFICES ASSUME NEW q \in Proc, Overdue(q)', state[q] # "RUNNABLE"
             PROVE  FALSE
  BY <1>1, <1>3 DEF AgeInv
<1>4. ~Overdue(q)
  BY <1>1, NobodyOverdue
<1>5. q = p => cpu_wait'[q] = cpu_wait[q] /\ q_level'[q] = q_level[q]
  <2>1. AgingTicks \in Nat \ {0}
    BY ConstantsAssumption
  <2>2. cpu_wait'[q] # 0
    BY <2>1 DEF Overdue
  <2>3. CASE q_level' = q_level /\ cpu_wait' = wait
    BY <1>2, <2>3
  <2>4. CASE cpu_wait' = [wait EXCEPT ![p] = 0]
    BY <1>2, <1>3, <2>2, <2>4
  <2> QED BY <1>1, <2>3, <2>4
<1>6. q # p => cpu_wait'[q] = cpu_wait[q] /\ q_level'[q] = q_level[q]
  BY <1>1, <1>2, <1>3 DEF IInv, TypeOK
<1> QED BY <1>1, <1>4, <1>5, <1>6 DEF Overdue, Live, Exempt

\* promote_process: the process has no longer waited.
LEMMA AgeOneAge ==
  ASSUME IInv, LInv, AgeInv, NEW c \in CPU, AgeOne(c)
  PROVE  AgeInv'
<1>1. PICK p \in Proc, lv \in Level :
        /\ Enqueue(remove_from_queue(p), p, lv - 1, io_wait_time[p])
        /\ cpu_wait' = [cpu_wait EXCEPT ![p] = 0]
        /\ UNCHANGED <<state, type, cpc>>
  <2> DEFINE l == First(Aged)
             q == queue[l][First(AgedAt(l))]
  <2>1. /\ Aged # {}
        /\ Enqueue(remove_from_queue(q), q, l - 1, io_wait_time[q])
        /\ cpu_wait' = [cpu_wait EXCEPT ![q] = 0]
        /\ UNCHANGED <<state, type, cpc>>
    BY DEF AgeOne
  <2>2. q \in Proc /\ l \in 1 .. 3
    BY <2>1, AgedProc
  <2> HIDE DEF q, l
  <2>3. l \in Level
    BY <2>2 DEF Level
  <2> QED BY <2>1, <2>2, <2>3
<1>3. /\ cpu_wait'[p] = 0
      /\ \A q \in Proc : q # p => /\ q_level'[q] = q_level[q]
                                  /\ cpu_wait'[q] = cpu_wait[q]
  BY <1>1 DEF Enqueue, IInv, TypeOK
<1>4. ~Overdue(p)'
  BY <1>3, ConstantsAssumption DEF Overdue
<1>5. \A q \in Proc : Overdue(q)' => Overdue(q)
  BY <1>1, <1>3, <1>4 DEF Overdue, Live, Exempt
<1> QED BY <1>1, <1>5 DEF AgeInv

\* check_aging ends: a RUNNABLE process is in the list of its level, where the
\* loop would have found it.
LEMMA AgeDoneAge ==
  ASSUME IInv, LInv, AgeInv, NEW c \in CPU, AgeDone(c)
  PROVE  AgeInv'
<1>1. Aged = {} /\ UNCHANGED <<state, type, q_level, cpu_wait>>
  BY DEF AgeDone
<1>2. ASSUME NEW p \in Proc, Overdue(p)
      PROVE  FALSE
  <2>1. state[p] = "RUNNABLE" /\ q_level[p] \in 1 .. 3
    BY <1>2 DEF AgeInv, Overdue, IInv, TypeOK, Level
  <2>2. p \in ToSet(queue[q_level[p]])
    BY <2>1 DEF IInv, QueuesExact, Level
  <2>3. PICK i \in DOMAIN queue[q_level[p]] : queue[q_level[p]][i] = p
    BY <2>2 DEF ToSet
  <2>4. i \in AgedAt(q_level[p])
    BY <1>2, <2>3 DEF AgedAt, Overdue
  <2> QED BY <1>1, <2>1, <2>4 DEF Aged, AgedLevels
<1>3. \A p \in Proc : Overdue(p)' => Overdue(p)
  BY <1>1 DEF Overdue, Live, Exempt
<1> QED BY <1>2, <1>3 DEF AgeInv

\* set_proc_info, within these bounds, and fork make nobody overdue.
LEMMA WrittenAge ==
  ASSUME IInv, LInv, AgeInv, WaitArgsInBounds, NEW c \in CPU,
         \/ \E a \in SetInfoArgs : SetProcInfo(c, a)
         \/ ForkAlloc(c) \/ ForkFinish(c)
  PROVE  AgeInv'
<1>1. ASSUME NEW p \in Proc, ~Overdue(p)', LockFree,
             \A q \in Proc : q # p => /\ state'[q] = state[q]
                                      /\ type'[q] = type[q]
                                      /\ q_level'[q] = q_level[q]
                                      /\ cpu_wait'[q] = cpu_wait[q]
      PROVE  AgeInv'
  <2>1. \A q \in Proc : Overdue(q)' => Overdue(q)
    BY <1>1 DEF Overdue, Live, Exempt
  <2> QED BY <1>1, <2>1, NobodyOverdue DEF AgeInv
<1>2. ASSUME NEW a \in SetInfoArgs, SetProcInfo(c, a)
      PROVE  AgeInv'
  <2>1. PICK p \in Proc : /\ LockFree /\ UNCHANGED <<state, type>>
                          /\ q_level' = [q_level EXCEPT ![p] = a.q_level]
                          /\ cpu_wait' = [cpu_wait EXCEPT ![p] = a.cpu_wait]
    BY <1>2 DEF SetProcInfo
  <2>2. /\ q_level'[p] = a.q_level /\ cpu_wait'[p] = a.cpu_wait
        /\ \A q \in Proc : q # p => /\ q_level'[q] = q_level[q]
                                    /\ cpu_wait'[q] = cpu_wait[q]
    BY <2>1 DEF IInv, TypeOK
  <2>3. a.cpu_wait \in Nat /\ AgingTicks \in Nat
    BY ConstantsAssumption
  <2>4. ~Overdue(p)'
    BY <2>2, <2>3 DEF Overdue, WaitArgsInBounds
  <2> QED BY <1>1, <2>1, <2>2, <2>4
<1>3. CASE ForkAlloc(c)
  <2>1. PICK n \in Proc :
          /\ LockFree /\ UNCHANGED type
          /\ state' = [state EXCEPT ![n] = "EMBRYO"]
          /\ q_level' = [q_level EXCEPT ![n] = 0]
          /\ cpu_wait' = [cpu_wait EXCEPT ![n] = 0]
    <3>1. Unused \in SUBSET Nat /\ Unused # {}
      BY <1>3 DEF Unused, Proc, ForkAlloc
    <3>2. First(Unused) \in Proc
      BY <3>1, FirstInSet DEF Unused
    <3> QED BY <1>3, <3>2 DEF ForkAlloc
  <2>2. /\ state'[n] = "EMBRYO"
        /\ \A q \in Proc : q # n => /\ state'[q] = state[q]
                                    /\ q_level'[q] = q_level[q]
                                    /\ cpu_wait'[q] = cpu_wait[q]
    BY <2>1 DEF IInv, TypeOK
  <2>3. ~Overdue(n)'
    BY <2>2 DEF Overdue, Live
  <2> QED BY <1>1, <2>1, <2>2, <2>3
<1>4. CASE ForkFinish(c)
  <2>1. PICK n \in Proc, lv \in Level :
          /\ LockFree
          /\ state' = [state EXCEPT ![n] = "RUNNABLE"]
          /\ type' = type \/ type' = [type EXCEPT ![n] = "SHELL"]
          /\ cpu_wait' = [cpu_wait EXCEPT ![n] = 0]
          /\ Enqueue(queue, n, lv, 0)
    <3>1. PICK p \in Proc : ForkFinish(c)!(p)
      BY <1>4 DEF ForkFinish
    <3>2. np[p] \in Proc
      BY <3>1, ForkChild DEF At, ForkPoints
    <3>3. (IF pid[p] = 1 THEN 3 ELSE 0) \in Level
      BY DEF Level
    <3> QED BY <3>1, <3>2, <3>3
  <2>2. /\ cpu_wait'[n] = 0
        /\ \A q \in Proc : q # n => /\ state'[q] = state[q]
                                    /\ type'[q] = type[q]
                                    /\ q_level'[q] = q_level[q]
                                    /\ cpu_wait'[q] = cpu_wait[q]
    BY <2>1 DEF IInv, TypeOK, Enqueue
  <2>3. ~Overdue(n)'
    BY <2>2, ConstantsAssumption DEF Overdue
  <2> QED BY <1>1, <2>1, <2>2, <2>3
<1> QED BY <1>2, <1>3, <1>4

\* Every step keeps AgeInv.
LEMMA NextAge ==
  ASSUME IInv, LInv, AgeInv, WaitArgsInBounds, [Next]_vars
  PROVE  AgeInv'
<1>1. CASE UNCHANGED vars
  BY <1>1 DEF vars, AgeInv, Overdue, Live, Exempt
<1>2. CASE Next
  BY <1>2, OutsideQuiet, InsideQuiet, QuietAge, TimerAcctAge, AgeOneAge,
     AgeDoneAge, WrittenAge
     DEF Next
<1> QED BY <1>1, <1>2

\* check_aging: as long as no program gives itself an overdue cpu_wait with
\* set_proc_info, every RUNNABLE process of the lists 1..3 that has waited
\* AgingTicks is promoted before ptable.lock is next free.
THEOREM AgingIsPrompt ==
  ASSUME WaitArgsInBounds
  PROVE  Spec => []AgingPrompt
<1>1. Init => AgeInv
  BY ConstantsAssumption DEF Init, AgeInv, Overdue, Live
<1>2. IInv /\ LInv /\ AgeInv /\ [Next]_vars => AgeInv'
  BY NextAge
<1>3. LInv /\ AgeInv /\ IInv => AgingPrompt
  <2> SUFFICES ASSUME LInv, AgeInv, IInv, LockFree, NEW p \in Proc,
                      state[p] = "RUNNABLE", q_level[p] > 0, ~Exempt(p)
               PROVE  cpu_wait[p] < AgingTicks
    BY DEF AgingPrompt
  <2>1. ~Overdue(p)
    BY NobodyOverdue
  <2>2. cpu_wait[p] \in Nat /\ AgingTicks \in Nat
    BY ConstantsAssumption DEF IInv, TypeOK
  <2> QED BY <2>1, <2>2 DEF Overdue, Live
<1> QED BY <1>1, <1>2, <1>3, Invariance, LifeInvariant, PTL DEF Spec
=============================================================================
