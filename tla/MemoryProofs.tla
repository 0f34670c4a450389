---------------------------- MODULE MemoryProofs ----------------------------
(***************************************************************************)
(* Proofs about the pages and the address spaces of Memory.                *)
(***************************************************************************)
EXTENDS Memory, SequenceTheorems, WellFoundedInduction, TLAPS

\* The pages that a bytes take.
Np(a) == (a + PGSIZE - 1) \div PGSIZE

InLoop(p) == pc[p] \in {"page", "map"}

\* Where a call can be, and what it has in hand there.
CallOf(p) ==
  /\ op[p] = "none" <=> pc[p] = "user"
  /\ op[p] # "none" => state[p] = "live"
  /\ pc[p] = "kstack" => op[p] = "fork"
  /\ pc[p] = "kvm" => op[p] \in {"fork", "exec"}
  /\ pc[p] \in {"segment", "commit"} => op[p] = "exec"
  /\ op[p] \in {"none", "sbrk"} => wk[p] = NoSpace
  /\ mem[p] # 0 <=> pc[p] = "map"

\* What a slot holds in each state.
SlotOf(p) ==
  /\ state[p] \in {"unused", "embryo"} => as[p] = NoSpace
  /\ state[p] = "unused" => kstack[p] = 0
  /\ state[p] \in {"live", "zombie"} => kstack[p] # 0

\* SizeMapped without TypeOK.
SizeOf(p) ==
  state[p] \in {"live", "zombie"} /\ op[p] # "sbrk" /\ as[p].pte[0] # 0 =>
    \A v \in Vpn : (as[p].pte[v] # 0) <=> (v * PGSIZE < sz[p])

\* The loops of allocuvm and copyuvm: the pages below at[p], a multiple of the
\* page, are mapped and no others; and what is mapped before and after a loop.
LoopOf(p) ==
  /\ InLoop(p) =>
       /\ \E k \in 0 .. NVpn : /\ at[p] = k * PGSIZE
                               /\ Np(from[p]) <= k /\ k <= Np(to[p])
       /\ \A v \in Vpn : (space(p).pte[v] # 0) <=> (v * PGSIZE < at[p])
  /\ pc[p] = "map" => at[p] < to[p]
  /\ op[p] = "sbrk" => from[p] = sz[p]
  /\ op[p] = "fork" /\ InLoop(p) => to[p] = sz[p]
  /\ pc[p] \in {"user", "kstack", "kvm"} =>
       to[p] = 0 /\ \A v \in Vpn : wk[p].pte[v] = 0
  /\ pc[p] \in {"segment", "commit"} =>
       \A v \in Vpn : (wk[p].pte[v] # 0) <=> (v * PGSIZE < to[p])

ProcInv(p) == CallOf(p) /\ SlotOf(p) /\ SizeOf(p) /\ LoopOf(p)

\* The child of fork is an EMBRYO, of this fork only, and has a kernel stack
\* after the first kalloc.
ForkInv ==
  /\ \A p \in Proc : op[p] = "fork" =>
       /\ child[p] \in Proc /\ state[child[p]] = "embryo"
       /\ kstack[child[p]] = 0 <=> pc[p] = "kstack"
  /\ \A p, q \in Proc :
       op[p] = "fork" /\ op[q] = "fork" /\ child[p] = child[q] => p = q

IInv == /\ TypeOK /\ ForkInv /\ PagesPartitioned
        /\ \A p \in Proc : ProcInv(p)

-----------------------------------------------------------------------------
(***************************************************************************)
(* Addresses and pages.                                                    *)
(***************************************************************************)

\* The size of a page is positive.
LEMMA PageSize == PGSIZE \in Nat /\ PGSIZE > 0
BY MemoryAssumption

\* Multiples of the page are ordered as their factors.
LEMMA Multiples ==
  ASSUME NEW v \in Int, NEW k \in Int
  PROVE  /\ v * PGSIZE \in Int
         /\ (v * PGSIZE < k * PGSIZE) <=> v < k
         /\ (v * PGSIZE = k * PGSIZE) <=> v = k
         /\ (k + 1) * PGSIZE = k * PGSIZE + PGSIZE
<1> DEFINE n == PGSIZE
<1>1. n \in Nat /\ n > 0
  BY PageSize
<1> HIDE DEF n
<1>2. \A i, j \in Int : i < j => i * n < j * n
  BY <1>1, SMT
<1>3. v * n \in Int /\ k * n \in Int /\ (k + 1) * n = k * n + n
  BY <1>1, SMT
<1>4. v < k \/ v = k \/ k < v
  OBVIOUS
<1>5. /\ (v * n < k * n) <=> v < k
      /\ (v * n = k * n) <=> v = k
  BY <1>2, <1>3, <1>4
<1> QED BY <1>3, <1>5 DEF n

\* Division by the size of the page.
LEMMA PageDiv ==
  ASSUME NEW a \in Nat
  PROVE  /\ a \div PGSIZE \in Nat
         /\ (a \div PGSIZE) * PGSIZE <= a
         /\ a < (a \div PGSIZE) * PGSIZE + PGSIZE
<1> DEFINE n == PGSIZE
<1>1. n \in Nat /\ n > 0
  BY PageSize
<1> HIDE DEF n
<1>2. a = n * (a \div n) + (a % n) /\ a % n \in 0 .. n - 1 /\ a \div n \in Int
  BY <1>1, SMT
<1>3. a \div n \in Nat
  BY <1>1, <1>2, SMT
<1>4. (a \div n) * n = n * (a \div n)
  BY <1>1, <1>3, SMT
<1> QED BY <1>1, <1>2, <1>3, <1>4 DEF n

\* Page k starts at k * PGSIZE.
LEMMA PageOf ==
  ASSUME NEW k \in Nat
  PROVE  k * PGSIZE \in Nat /\ (k * PGSIZE) \div PGSIZE = k
<1> DEFINE d == (k * PGSIZE) \div PGSIZE
<1>1. k * PGSIZE \in Nat
  BY PageSize, SMT
<1>2. d \in Nat /\ d * PGSIZE <= k * PGSIZE /\ k * PGSIZE < d * PGSIZE + PGSIZE
  BY <1>1, PageDiv
<1> HIDE DEF d
<1>3. ~(k < d) /\ (k * PGSIZE < (d + 1) * PGSIZE) /\ d * PGSIZE \in Int
  BY <1>1, <1>2, Multiples, PageSize
<1>4. k < d + 1
  BY <1>2, <1>3, Multiples
<1> QED BY <1>1, <1>2, <1>3, <1>4 DEF d

\* PGROUNDUP(a) is the end of the last page that a bytes take, and a page starts
\* below a exactly if it is one of these.
LEMMA RoundUp ==
  ASSUME NEW a \in Nat
  PROVE  /\ Np(a) \in Nat /\ PGROUNDUP(a) = Np(a) * PGSIZE
         /\ PGROUNDUP(a) \in Nat /\ a <= PGROUNDUP(a)
         /\ \A v \in Nat : (v * PGSIZE < a) <=> v < Np(a)
         /\ \A v \in Nat : (v * PGSIZE < PGROUNDUP(a)) <=> v < Np(a)
<1> DEFINE b == a + PGSIZE - 1
           k == b \div PGSIZE
<1>1. b \in Nat /\ b + 1 = a + PGSIZE /\ PGSIZE \in Nat
  BY PageSize
<1>2. k \in Nat /\ k * PGSIZE <= b /\ b < k * PGSIZE + PGSIZE
  <2> HIDE DEF b
  <2> QED BY <1>1, PageDiv
<1>3. Np(a) = k /\ PGROUNDUP(a) = k * PGSIZE
  BY DEF Np, PGROUNDUP
<1> HIDE DEF b, k
<1>4. k * PGSIZE \in Nat
  BY <1>2, PageOf
<1>5. a <= k * PGSIZE /\ k * PGSIZE < a + PGSIZE
  BY <1>1, <1>2, <1>4
<1>6. ASSUME NEW v \in Nat PROVE (v * PGSIZE < k * PGSIZE) <=> v < k
  BY <1>2, Multiples
<1>7. ASSUME NEW v \in Nat PROVE (v * PGSIZE < a) <=> v < k
  <2>1. v * PGSIZE \in Nat /\ (v + 1) * PGSIZE = v * PGSIZE + PGSIZE
    BY Multiples, PageOf
  <2>2. CASE v < k
    <3>1. v + 1 < k \/ v + 1 = k
      BY <1>2, <2>2
    <3>2. (v + 1) * PGSIZE <= k * PGSIZE
      BY <1>2, <1>4, <2>1, <3>1, Multiples
    <3> QED BY <1>1, <1>4, <1>5, <2>1, <2>2, <3>2
  <2>3. CASE ~(v < k)
    <3>1. ~(v * PGSIZE < k * PGSIZE)
      BY <1>6, <2>3
    <3> QED BY <1>4, <1>5, <2>1, <2>3, <3>1
  <2> QED BY <2>2, <2>3
<1> QED BY <1>2, <1>3, <1>4, <1>5, <1>6, <1>7

\* A multiple of the page is rounded up to itself; what ends below the kernel's
\* part takes at most NVpn pages.
LEMMA RoundUpBounds ==
  /\ \A k \in Nat : Np(k * PGSIZE) = k
  /\ \A a \in Nat : a < KERNBASE => Np(a) <= NVpn
  /\ \A a, b \in Nat : a <= b => Np(a) <= Np(b)
  /\ KERNBASE \in Nat /\ PGSIZE < KERNBASE
<1>0. NVpn \in Nat /\ 1 < NVpn
  BY MemoryAssumption
<1>1. KERNBASE \in Nat /\ 1 * PGSIZE < KERNBASE /\ 1 * PGSIZE = PGSIZE
  BY <1>0, Multiples, PageOf, PageSize DEF KERNBASE
<1>2. ASSUME NEW k \in Nat PROVE Np(k * PGSIZE) = k
  <2>1. k * PGSIZE \in Nat
    BY PageOf
  <2>2. Np(k * PGSIZE) \in Nat
    BY <2>1, RoundUp
  <2>3. \A v \in Nat : (v * PGSIZE < k * PGSIZE) <=> v < Np(k * PGSIZE)
    BY <2>1, RoundUp
  <2>4. \A v \in Nat : v < k <=> v < Np(k * PGSIZE)
    BY <2>3, Multiples
  <2> HIDE DEF Np
  <2> QED BY <2>2, <2>4
<1>3. ASSUME NEW a \in Nat, NEW b \in Nat, a <= b PROVE Np(a) <= Np(b)
  <2>1. Np(a) \in Nat /\ Np(b) \in Nat
    BY RoundUp
  <2>2. Np(b) * PGSIZE \in Nat /\ ~(Np(b) * PGSIZE < b)
    BY <2>1, RoundUp, PageOf
  <2>3. ~(Np(b) * PGSIZE < a)
    BY <1>3, <2>2
  <2>4. ~(Np(b) < Np(a))
    BY <2>1, <2>3, RoundUp
  <2> QED BY <2>1, <2>4
<1>4. ASSUME NEW a \in Nat, a < KERNBASE PROVE Np(a) <= NVpn
  <2>1. Np(a) <= Np(KERNBASE)
    BY <1>1, <1>3, <1>4
  <2> QED BY <1>0, <1>2, <2>1 DEF KERNBASE
<1> QED BY <1>1, <1>2, <1>3, <1>4

\* The page table of a page.
LEMMA TableOf ==
  ASSUME NEW v \in Vpn
  PROVE  v \div PerTable \in Table
<1> DEFINE n == PerTable
           m == NVpn \div n
           d == v \div n
<1>1. n \in Nat /\ n > 0 /\ NVpn \in Nat /\ NVpn % n = 0
  BY MemoryAssumption
<1> HIDE DEF n
<1>2. NVpn = n * m + (NVpn % n) /\ m \in Int
  BY <1>1, SMT
<1>3. v \in Nat /\ v < NVpn
  BY <1>1 DEF Vpn
<1>4. v = n * d + (v % n) /\ v % n \in 0 .. n - 1 /\ d \in Int /\ d >= 0
  BY <1>1, <1>3, SMT
<1> HIDE DEF d, m
<1>5. n * d < n * m
  BY <1>1, <1>2, <1>3, <1>4
<1>6. d < m
  BY <1>1, <1>2, <1>4, <1>5, SMT
<1> QED BY <1>2, <1>4, <1>6 DEF Table, d, m, n

-----------------------------------------------------------------------------
(***************************************************************************)
(* The free list.                                                          *)
(***************************************************************************)

\* A nonempty set of naturals has a minimum.
LEMMA MinInSet ==
  ASSUME NEW T \in SUBSET Nat, T # {}
  PROVE  Min(T) \in T
<1> DEFINE R == {ss \in Nat \X Nat : ss[1] < ss[2]}
<1>1. IsWellFoundedOn(R, Nat)
  BY NatLessThanWellFounded DEF OpToRel
<1>2. PICK x \in T : \A y \in T : ~(<<y, x>> \in R)
  <2> HIDE DEF R
  <2> QED BY <1>1, WFMin
<1>3. \A y \in T : ~(y < x)
  BY <1>2
<1>4. \A y \in T : x <= y
  BY <1>3
<1> QED BY <1>4 DEF Min

\* kalloc takes a page of the free list.
LEMMA MinFree ==
  ASSUME free \subseteq Page, free # {}
  PROVE  Min(free) \in free
<1>1. free \in SUBSET Nat
  BY DEF Page
<1> QED BY <1>1, MinInSet

\* allocproc takes a slot that is not in use.
LEMMA MinUnused ==
  ASSUME \E c \in Proc : state[c] = "unused"
  PROVE  Min({q \in Proc : state[q] = "unused"}) \in
           {q \in Proc : state[q] = "unused"}
<1> DEFINE U == {q \in Proc : state[q] = "unused"}
<1>1. U \in SUBSET Nat /\ U # {}
  BY DEF Proc
<1> HIDE DEF U
<1>2. Min(U) \in U
  BY <1>1, MinInSet
<1> QED BY <1>2 DEF U

-----------------------------------------------------------------------------
(***************************************************************************)
(* Address spaces.                                                         *)
(***************************************************************************)

\* No page is 0.
LEMMA PageNotNull == 0 \notin Page
BY DEF Page

\* The kinds of entries.
LEMMA EntryIs ==
  ASSUME NEW x \in Entry
  PROVE  \/ x = <<"dir", 0>>
         \/ \E k \in 1 .. KTables : x = <<"ktab", k>>
         \/ \E t \in Table : x = <<"tab", t>>
         \/ \E v \in Vpn : x = <<"pte", v>>
BY DEF Entry

\* The page of each entry.
LEMMA PageAtIs ==
  ASSUME NEW s
  PROVE  /\ PageAt(s, <<"dir", 0>>) = s.dir
         /\ \A k : PageAt(s, <<"ktab", k>>) = IF k \in DOMAIN s.ktab THEN s.ktab[k]
                                              ELSE 0
         /\ \A t : PageAt(s, <<"tab", t>>) = s.tab[t]
         /\ \A v : PageAt(s, <<"pte", v>>) = s.pte[v]
BY DEF PageAt

\* Entries of different kinds or places.
LEMMA EntriesDiffer ==
  /\ <<"dir", 0>> \in Entry
  /\ \A k \in 1 .. KTables : <<"ktab", k>> \in Entry
  /\ \A t \in Table : <<"tab", t>> \in Entry
  /\ \A v \in Vpn : <<"pte", v>> \in Entry
  /\ \A a, b, c, d : (<<a, b>> = <<c, d>>) <=> (a = c /\ b = d)
BY DEF Entry

\* An entry holds a page or nothing.
LEMMA PageAtType ==
  ASSUME NEW s \in Space, NEW x \in Entry
  PROVE  PageAt(s, x) \in Page \cup {0}
<1>1. /\ s.dir \in Page \cup {0}
      /\ \A k \in DOMAIN s.ktab : s.ktab[k] \in Page
      /\ \A t \in Table : s.tab[t] \in Page \cup {0}
      /\ \A v \in Vpn : s.pte[v] \in Page \cup {0}
  BY DEF Space
<1> QED BY <1>1, EntryIs, PageAtIs

\* The empty address space.
LEMMA NoSpaceIs ==
  /\ NoSpace \in Space /\ Len(NoSpace.ktab) = 0 /\ NoSpace.dir = 0
  /\ \A v \in Vpn : NoSpace.pte[v] = 0
  /\ \A x \in Entry : PageAt(NoSpace, x) = 0
  /\ Pages(NoSpace) = {} /\ Distinct(NoSpace)
<1>1. /\ NoSpace \in Space /\ NoSpace.ktab = << >> /\ NoSpace.dir = 0
      /\ \A v \in Vpn : NoSpace.pte[v] = 0
      /\ \A t \in Table : NoSpace.tab[t] = 0
  BY DEF NoSpace, Space
<1>2. \A x \in Entry : PageAt(NoSpace, x) = 0
  BY <1>1, EntryIs, PageAtIs
<1> QED BY <1>1, <1>2 DEF Pages, Distinct

\* A page is put into an empty entry.
LEMMA PutPage ==
  ASSUME NEW s \in Space, NEW s2, NEW e \in Entry, NEW g \in Page,
         PageAt(s, e) = 0, Distinct(s), g \notin Pages(s),
         \A x \in Entry : PageAt(s2, x) = IF x = e THEN g ELSE PageAt(s, x)
  PROVE  Pages(s2) = Pages(s) \cup {g} /\ Distinct(s2)
<1>1. g # 0 /\ \A x \in Entry : PageAt(s, x) # g
  BY PageNotNull DEF Pages
<1>2. Pages(s2) = Pages(s) \cup {g}
  BY <1>1 DEF Pages
<1>3. Distinct(s2)
  BY <1>1 DEF Distinct
<1> QED BY <1>2, <1>3

\* Entries are emptied.
LEMMA DropPages ==
  ASSUME NEW s \in Space, NEW s2, NEW E \in SUBSET Entry, Distinct(s),
         \A x \in Entry : PageAt(s2, x) = IF x \in E THEN 0 ELSE PageAt(s, x)
  PROVE  /\ Distinct(s2)
         /\ Pages(s2) = Pages(s) \ ({PageAt(s, x) : x \in E} \ {0})
         /\ {PageAt(s, x) : x \in E} \ {0} \subseteq Pages(s)
<1>1. Distinct(s2)
  BY DEF Distinct
<1>2. {PageAt(s, x) : x \in E} \ {0} \subseteq Pages(s)
  BY DEF Pages
<1>3. ASSUME NEW g \in Pages(s2)
      PROVE  g \in Pages(s) \ ({PageAt(s, x) : x \in E} \ {0})
  <2>1. PICK x \in Entry : PageAt(s2, x) = g /\ g # 0
    BY <1>3 DEF Pages
  <2>2. x \notin E /\ PageAt(s, x) = g
    BY <2>1
  <2>3. \A y \in E : PageAt(s, y) # g
    BY <2>1, <2>2 DEF Distinct
  <2> QED BY <2>1, <2>2, <2>3 DEF Pages
<1>4. ASSUME NEW g \in Pages(s) \ ({PageAt(s, x) : x \in E} \ {0})
      PROVE  g \in Pages(s2)
  <2>1. PICK x \in Entry : PageAt(s, x) = g /\ g # 0
    BY <1>4 DEF Pages
  <2>2. x \notin E
    BY <1>4, <2>1
  <2> QED BY <2>1, <2>2 DEF Pages
<1> QED BY <1>1, <1>2, <1>3, <1>4

\* The changes that setupkvm, walkpgdir and mappages make.
LEMMA SetDir ==
  ASSUME NEW s \in Space, NEW g \in Page
  PROVE  LET s2 == [s EXCEPT !.dir = g] IN
         /\ s2 \in Space /\ s2.ktab = s.ktab /\ s2.pte = s.pte
         /\ \A x \in Entry : PageAt(s2, x) = IF x = <<"dir", 0>> THEN g
                                             ELSE PageAt(s, x)
<1> DEFINE s2 == [s EXCEPT !.dir = g]
<1>1. /\ s2 \in Space /\ s2.dir = g /\ s2.ktab = s.ktab /\ s2.tab = s.tab
      /\ s2.pte = s.pte
  BY DEF Space
<1> HIDE DEF s2
<1>2. \A x \in Entry : PageAt(s2, x) = IF x = <<"dir", 0>> THEN g ELSE PageAt(s, x)
  BY <1>1, EntryIs, PageAtIs, EntriesDiffer
<1> QED BY <1>1, <1>2 DEF s2

LEMMA AddKtab ==
  ASSUME NEW s \in Space, NEW g \in Page
  PROVE  LET s2 == [s EXCEPT !.ktab = Append(s.ktab, g)] IN
         /\ s2 \in Space /\ Len(s2.ktab) = Len(s.ktab) + 1 /\ s2.pte = s.pte
         /\ \A x \in Entry :
              PageAt(s2, x) = IF x = <<"ktab", Len(s.ktab) + 1>> THEN g
                              ELSE PageAt(s, x)
<1> DEFINE s2 == [s EXCEPT !.ktab = Append(s.ktab, g)]
           n == Len(s.ktab)
<1>1. /\ s2.dir = s.dir /\ s2.ktab = Append(s.ktab, g) /\ s2.tab = s.tab
      /\ s2.pte = s.pte /\ s.ktab \in Seq(Page) /\ n \in Nat
  BY DEF Space
<1>2. /\ Append(s.ktab, g) \in Seq(Page) /\ Len(Append(s.ktab, g)) = n + 1
      /\ DOMAIN s.ktab = 1 .. n /\ DOMAIN Append(s.ktab, g) = 1 .. n + 1
      /\ \A k \in 1 .. n + 1 : Append(s.ktab, g)[k] = IF k = n + 1 THEN g
                                                      ELSE s.ktab[k]
  BY <1>1
<1>3. s2 \in Space
  BY <1>2 DEF Space
<1> HIDE DEF s2
<1>4. ASSUME NEW x \in Entry
      PROVE  PageAt(s2, x) = IF x = <<"ktab", n + 1>> THEN g ELSE PageAt(s, x)
  <2>1. CASE \E k \in 1 .. KTables : x = <<"ktab", k>>
    <3>1. PICK k \in 1 .. KTables : x = <<"ktab", k>>
      BY <2>1
    <3>2. (x = <<"ktab", n + 1>>) <=> k = n + 1
      BY <3>1, EntriesDiffer
    <3>3. k \in 1 .. n + 1 <=> (k \in 1 .. n \/ k = n + 1)
      BY <1>1
    <3>4. k = n + 1 => ~(k \in 1 .. n) /\ k \in 1 .. n + 1
      BY <1>1
    <3>5. PageAt(s2, x) = IF k \in 1 .. n + 1
                          THEN IF k = n + 1 THEN g ELSE s.ktab[k] ELSE 0
      BY <1>1, <1>2, <3>1, PageAtIs
    <3>6. PageAt(s, x) = IF k \in 1 .. n THEN s.ktab[k] ELSE 0
      BY <1>2, <3>1, PageAtIs
    <3> QED BY <3>2, <3>3, <3>4, <3>5, <3>6
  <2>2. CASE ~ \E k \in 1 .. KTables : x = <<"ktab", k>>
    <3>1. x # <<"ktab", n + 1>>
      BY <2>2, EntryIs, EntriesDiffer
    <3>2. PageAt(s2, x) = PageAt(s, x)
      BY <1>1, <2>2, EntryIs, PageAtIs
    <3> QED BY <3>1, <3>2
  <2> QED BY <2>1, <2>2
<1> QED BY <1>1, <1>2, <1>3, <1>4 DEF s2

LEMMA SetTab ==
  ASSUME NEW s \in Space, NEW t \in Table, NEW g \in Page
  PROVE  LET s2 == [s EXCEPT !.tab[t] = g] IN
         /\ s2 \in Space /\ s2.ktab = s.ktab /\ s2.pte = s.pte
         /\ \A x \in Entry : PageAt(s2, x) = IF x = <<"tab", t>> THEN g
                                             ELSE PageAt(s, x)
<1> DEFINE s2 == [s EXCEPT !.tab[t] = g]
<1>1. /\ s2 \in Space /\ s2.dir = s.dir /\ s2.ktab = s.ktab /\ s2.pte = s.pte
      /\ \A u \in Table : s2.tab[u] = IF u = t THEN g ELSE s.tab[u]
  BY DEF Space
<1> HIDE DEF s2
<1>2. \A x \in Entry : PageAt(s2, x) = IF x = <<"tab", t>> THEN g ELSE PageAt(s, x)
  BY <1>1, EntryIs, PageAtIs, EntriesDiffer
<1> QED BY <1>1, <1>2 DEF s2

LEMMA SetPte ==
  ASSUME NEW s \in Space, NEW v \in Vpn, NEW g \in Page
  PROVE  LET s2 == [s EXCEPT !.pte[v] = g] IN
         /\ s2 \in Space /\ s2.ktab = s.ktab
         /\ \A w \in Vpn : s2.pte[w] = IF w = v THEN g ELSE s.pte[w]
         /\ \A x \in Entry : PageAt(s2, x) = IF x = <<"pte", v>> THEN g
                                             ELSE PageAt(s, x)
<1> DEFINE s2 == [s EXCEPT !.pte[v] = g]
<1>1. /\ s2 \in Space /\ s2.dir = s.dir /\ s2.ktab = s.ktab /\ s2.tab = s.tab
      /\ \A u \in Vpn : s2.pte[u] = IF u = v THEN g ELSE s.pte[u]
  BY DEF Space
<1> HIDE DEF s2
<1>2. \A x \in Entry : PageAt(s2, x) = IF x = <<"pte", v>> THEN g ELSE PageAt(s, x)
  BY <1>1, EntryIs, PageAtIs, EntriesDiffer
<1> QED BY <1>1, <1>2 DEF s2

\* deallocuvm: the pages of the address space that go are the freed ones.
LEMMA Shrunk ==
  ASSUME NEW s \in Space, Distinct(s), NEW old \in Nat, NEW new \in Nat
  PROVE  /\ shrunk(s, old, new) \in Space
         /\ shrunk(s, old, new).ktab = s.ktab
         /\ \A v \in Vpn : shrunk(s, old, new).pte[v] =
              IF Np(new) <= v /\ v < Np(old) THEN 0 ELSE s.pte[v]
         /\ Distinct(shrunk(s, old, new))
         /\ Pages(shrunk(s, old, new)) = Pages(s) \ freed(s, old, new)
         /\ freed(s, old, new) \subseteq Pages(s)
<1> DEFINE s2 == shrunk(s, old, new)
           D == doomed(old, new)
           E == {x \in Entry : x[1] = "pte" /\ x[2] \in D}
<1>1. D = {v \in Vpn : Np(new) <= v /\ v < Np(old)}
  <2>1. ASSUME NEW v \in Vpn
        PROVE  v \in D <=> Np(new) <= v /\ v < Np(old)
    <3>1. v \in Nat /\ Np(new) \in Nat /\ v * PGSIZE \in Nat /\ PGROUNDUP(new) \in Nat
      BY RoundUp, PageOf DEF Vpn
    <3>2. (v * PGSIZE < old) <=> v < Np(old)
      BY <3>1, RoundUp
    <3>3. (v * PGSIZE < PGROUNDUP(new)) <=> v < Np(new)
      BY <3>1, RoundUp
    <3>4. v \in D <=> (v * PGSIZE >= PGROUNDUP(new) /\ v * PGSIZE < old)
      BY DEF doomed
    <3> HIDE DEF D
    <3> QED BY <3>1, <3>2, <3>3, <3>4
  <2>2. D \subseteq Vpn
    BY DEF doomed
  <2> HIDE DEF D
  <2> QED BY <2>1, <2>2
<1>2. freed(s, old, new) = {s.pte[v] : v \in D} \ {0}
  BY DEF freed
<1>3. s2 = [s EXCEPT !.pte = [v \in Vpn |-> IF v \in D THEN 0 ELSE s.pte[v]]]
  BY DEF shrunk
<1> HIDE DEF D, s2
<1>4. /\ s2 \in Space /\ s2.dir = s.dir /\ s2.ktab = s.ktab /\ s2.tab = s.tab
      /\ \A v \in Vpn : s2.pte[v] = IF v \in D THEN 0 ELSE s.pte[v]
  BY <1>3 DEF Space
<1>5. \A v \in Vpn : <<"pte", v>> \in E <=> v \in D
  BY EntriesDiffer
<1>6. \A x \in E : \E v \in D : x = <<"pte", v>>
  BY <1>1, EntryIs
<1>7. E \in SUBSET Entry
  OBVIOUS
<1>8. D \subseteq Vpn
  BY <1>1
<1> HIDE DEF E
<1>9. {PageAt(s, x) : x \in E} = {s.pte[v] : v \in D}
  <2>1. \A v \in D : <<"pte", v>> \in E /\ PageAt(s, <<"pte", v>>) = s.pte[v]
    BY <1>5, <1>8, PageAtIs
  <2>2. \A x \in E : \E v \in D : PageAt(s, x) = s.pte[v]
    BY <1>6, PageAtIs
  <2> QED BY <2>1, <2>2
<1>10. \A x \in Entry : PageAt(s2, x) = IF x \in E THEN 0 ELSE PageAt(s, x)
  <2> SUFFICES ASSUME NEW x \in Entry
               PROVE  PageAt(s2, x) = IF x \in E THEN 0 ELSE PageAt(s, x)
    OBVIOUS
  <2>1. CASE \E v \in Vpn : x = <<"pte", v>>
    BY <1>4, <1>5, <2>1, PageAtIs
  <2>2. CASE ~ \E v \in Vpn : x = <<"pte", v>>
    <3>1. x \notin E
      BY <1>6, <1>8, <2>2
    <3> QED BY <1>4, <2>2, <3>1, EntryIs, PageAtIs
  <2> QED BY <2>1, <2>2
<1>11. /\ Distinct(s2)
       /\ Pages(s2) = Pages(s) \ freed(s, old, new)
       /\ freed(s, old, new) \subseteq Pages(s)
  <2>1. /\ Distinct(s2)
        /\ Pages(s2) = Pages(s) \ ({PageAt(s, x) : x \in E} \ {0})
        /\ {PageAt(s, x) : x \in E} \ {0} \subseteq Pages(s)
    BY <1>7, <1>10, DropPages
  <2> QED BY <1>2, <1>9, <2>1
<1> QED BY <1>1, <1>4, <1>11 DEF s2

-----------------------------------------------------------------------------
(***************************************************************************)
(* Who holds which page.                                                   *)
(***************************************************************************)

held == [h \in Holder |-> Held(h)]

Partition(fr, f) ==
  /\ fr \cup UNION {f[h] : h \in Holder} = Page
  /\ \A h \in Holder : f[h] \cap fr = {}
  /\ \A h, i \in Holder : h # i => f[h] \cap f[i] = {}

DistinctSpaces == \A p \in Proc : Distinct(as[p]) /\ Distinct(wk[p])

\* The page g goes to the holder h, the pages of h go to i, and pages go to the
\* free list.
Takes(f, f2, h, g) ==
  \A i \in Holder : f2[i] = IF i = h THEN f[i] \cup {g} ELSE f[i]
Moves(f, f2, h, i) ==
  \A j \in Holder : f2[j] = IF j = h THEN {}
                            ELSE IF j = i THEN f[i] \cup f[h] ELSE f[j]
Gives(fr, f, fr2, f2) ==
  /\ \A i \in Holder : f2[i] \subseteq f[i]
  /\ \A g : g \in fr2 <=> g \in fr \/ \E i \in Holder : g \in f[i] \ f2[i]

\* PagesPartitioned in these terms.
LEMMA PartitionIs ==
  PagesPartitioned <=> Partition(free, held) /\ DistinctSpaces
<1> DEFINE holding == {<<h, Held(h)>> : h \in Holder}
<1>0. /\ \A h \in Holder : \E a \in holding : a[1] = h /\ a[2] = held[h]
      /\ \A a \in holding : \E h \in Holder : a[1] = h /\ a[2] = held[h]
  <2>1. \A h \in Holder : held[h] = Held(h)
    BY DEF held
  <2> HIDE DEF held
  <2>2. ASSUME NEW h \in Holder
        PROVE  \E a \in holding : a[1] = h /\ a[2] = held[h]
    <3>1. <<h, Held(h)>> \in holding
      OBVIOUS
    <3> QED BY <2>1, <3>1
  <2>3. ASSUME NEW a \in holding
        PROVE  \E h \in Holder : a[1] = h /\ a[2] = held[h]
    <3>1. PICK h \in Holder : a = <<h, Held(h)>>
      OBVIOUS
    <3> QED BY <2>1, <3>1
  <2> QED BY <2>2, <2>3
<1> HIDE DEF holding
<1>1. UNION {a[2] : a \in holding} = UNION {held[h] : h \in Holder}
  <2>1. {a[2] : a \in holding} = {held[h] : h \in Holder}
    BY <1>0
  <2> QED BY <2>1
<1>2. (\A a \in holding : a[2] \cap free = {})
        <=> (\A h \in Holder : held[h] \cap free = {})
  BY <1>0
<1>3. (\A a, b \in holding : a[1] # b[1] => a[2] \cap b[2] = {})
        <=> (\A h, i \in Holder : h # i => held[h] \cap held[i] = {})
  BY <1>0
<1>4. PagesPartitioned <=>
        /\ free \cup UNION {a[2] : a \in holding} = Page
        /\ \A a \in holding : a[2] \cap free = {}
        /\ \A a, b \in holding : a[1] # b[1] => a[2] \cap b[2] = {}
        /\ DistinctSpaces
  BY DEF PagesPartitioned, DistinctSpaces, holding
<1> QED BY <1>1, <1>2, <1>3, <1>4 DEF Partition

\* PagesPartitioned after a step.
LEMMA PartitionNext ==
  ASSUME Partition(free', held'), DistinctSpaces'
  PROVE  PagesPartitioned'
<1>1. (PagesPartitioned <=> Partition(free, held) /\ DistinctSpaces)'
  BY PartitionIs, PTL
<1> QED BY <1>1 DEF Partition

\* What each holder holds.
LEMMA HeldIs ==
  ASSUME NEW p \in Proc
  PROVE  /\ held[<<"kstack", p>>] = {kstack[p]} \ {0}
         /\ held[<<"mem", p>>] = {mem[p]} \ {0}
         /\ held[<<"as", p>>] = Pages(as[p])
         /\ held[<<"wk", p>>] = Pages(wk[p])
BY DEF held, Held, Holder

\* The holders.
LEMMA HolderIs ==
  /\ \A h \in Holder : \E p \in Proc :
       h \in {<<"kstack", p>>, <<"mem", p>>, <<"as", p>>, <<"wk", p>>}
  /\ \A p \in Proc :
       {<<"kstack", p>>, <<"mem", p>>, <<"as", p>>, <<"wk", p>>} \subseteq Holder
BY DEF Holder

\* kalloc: a page goes from the free list to a holder.
LEMMA Take ==
  ASSUME NEW fr, NEW f, NEW f2, Partition(fr, f), NEW h \in Holder, NEW g \in fr,
         Takes(f, f2, h, g)
  PROVE  Partition(fr \ {g}, f2)
<1>0. \A i \in Holder : f2[i] = IF i = h THEN f[i] \cup {g} ELSE f[i]
  BY DEF Takes
<1>1. g \in Page
  BY DEF Partition
<1>2. (fr \ {g}) \cup UNION {f2[i] : i \in Holder} = Page
  <2>1. \A q : q \in UNION {f2[i] : i \in Holder} <=>
               q \in UNION {f[i] : i \in Holder} \/ q = g
    BY <1>0
  <2> HIDE DEF Partition
  <2>2. fr \cup UNION {f[i] : i \in Holder} = Page
    BY DEF Partition
  <2> QED BY <1>1, <2>1, <2>2
<1>3. \A i \in Holder : f2[i] \cap (fr \ {g}) = {}
  BY <1>0 DEF Partition
<1>4. ASSUME NEW i \in Holder, NEW j \in Holder, i # j
      PROVE  f2[i] \cap f2[j] = {}
  <2>1. f[i] \cap f[j] = {} /\ g \notin f[i] /\ g \notin f[j]
    BY <1>4 DEF Partition
  <2>2. f2[i] \subseteq f[i] \cup {g} /\ f2[j] \subseteq f[j] \cup {g}
    BY <1>0
  <2>3. i = h => f2[j] = f[j]
    BY <1>0, <1>4
  <2>4. i # h => f2[i] = f[i]
    BY <1>0
  <2> QED BY <2>1, <2>2, <2>3, <2>4
<1> QED BY <1>2, <1>3, <1>4 DEF Partition

\* kfree: holders give pages to the free list.
LEMMA Give ==
  ASSUME NEW fr, NEW f, NEW fr2, NEW f2, Partition(fr, f), Gives(fr, f, fr2, f2)
  PROVE  Partition(fr2, f2)
<1>0. /\ \A i \in Holder : f2[i] \subseteq f[i]
      /\ \A g : g \in fr2 <=> g \in fr \/ \E i \in Holder : g \in f[i] \ f2[i]
  BY DEF Gives
<1>1. fr2 \cup UNION {f2[i] : i \in Holder} = Page
  <2>1. \A q : q \in fr2 \cup UNION {f2[i] : i \in Holder} <=>
               q \in fr \cup UNION {f[i] : i \in Holder}
    BY <1>0
  <2> QED BY <2>1 DEF Partition
<1>2. \A i \in Holder : f2[i] \cap fr2 = {}
  BY <1>0 DEF Partition
<1>3. \A i, j \in Holder : i # j => f2[i] \cap f2[j] = {}
  BY <1>0 DEF Partition
<1> QED BY <1>1, <1>2, <1>3 DEF Partition

\* One holder hands all its pages to another.
LEMMA Move ==
  ASSUME NEW fr, NEW f, NEW f2, Partition(fr, f),
         NEW h \in Holder, NEW i \in Holder, h # i, Moves(f, f2, h, i)
  PROVE  Partition(fr, f2)
<1>0. \A j \in Holder : f2[j] = IF j = h THEN {}
                                ELSE IF j = i THEN f[i] \cup f[h] ELSE f[j]
  BY DEF Moves
<1>1. \A q : q \in UNION {f2[j] : j \in Holder} <=> q \in UNION {f[j] : j \in Holder}
  BY <1>0
<1>2. fr \cup UNION {f2[j] : j \in Holder} = Page
  BY <1>1 DEF Partition
<1>3. \A j \in Holder : f2[j] \cap fr = {}
  BY <1>0 DEF Partition
<1>4. \A j, k \in Holder : j # k => f2[j] \cap f2[k] = {}
  BY <1>0 DEF Partition
<1> QED BY <1>2, <1>3, <1>4 DEF Partition

-----------------------------------------------------------------------------
(***************************************************************************)
(* What a step leaves alone.                                               *)
(***************************************************************************)
USE DEF local

\* The process q and its call are as they were.
Same(q) ==
  /\ state'[q] = state[q] /\ kstack'[q] = kstack[q]
  /\ as'[q] = as[q] /\ sz'[q] = sz[q] /\ op'[q] = op[q] /\ pc'[q] = pc[q]
  /\ wk'[q] = wk[q] /\ mem'[q] = mem[q]
  /\ at'[q] = at[q] /\ from'[q] = from[q] /\ to'[q] = to[q]

LEMMA SameKept ==
  ASSUME NEW q \in Proc, ProcInv(q), Same(q)
  PROVE  ProcInv(q)'
<1>1. CallOf(q)' /\ SlotOf(q)'
  BY DEF ProcInv, CallOf, SlotOf, Same
<1>2. SizeOf(q)'
  BY DEF ProcInv, SizeOf, Same
<1>3. LoopOf(q)'
  BY DEF ProcInv, LoopOf, InLoop, space, Same
<1> QED BY <1>1, <1>2, <1>3 DEF ProcInv

\* A step changes p only, or p and c.
LEMMA OthersKept ==
  ASSUME IInv, NEW p \in Proc, NEW c \in Proc,
         TypeOK', ForkInv', PagesPartitioned', ProcInv(p)', ProcInv(c)',
         \A q \in Proc : q # p /\ q # c => Same(q)
  PROVE  IInv'
<1>1. ASSUME NEW q \in Proc PROVE ProcInv(q)'
  <2>1. CASE q = p \/ q = c
    BY <2>1
  <2>2. CASE q # p /\ q # c
    BY <2>2, SameKept DEF IInv
  <2> QED BY <2>1, <2>2
<1> QED BY <1>1 DEF IInv

\* No fork begins, gets its stack or loses its child.
LEMMA ForksKept ==
  ASSUME IInv,
         \A q \in Proc : op'[q] = "fork" =>
           /\ op[q] = "fork" /\ child'[q] = child[q]
           /\ state'[child[q]] = state[child[q]]
           /\ kstack'[child[q]] = kstack[child[q]]
           /\ pc'[q] = "kstack" <=> pc[q] = "kstack"
  PROVE  ForkInv'
<1>1. \A p \in Proc : op[p] = "fork" =>
        /\ child[p] \in Proc /\ state[child[p]] = "embryo"
        /\ kstack[child[p]] = 0 <=> pc[p] = "kstack"
  BY DEF IInv, ForkInv
<1>2. \A p, q \in Proc :
        op[p] = "fork" /\ op[q] = "fork" /\ child[p] = child[q] => p = q
  BY DEF IInv, ForkInv
<1>3. \A p \in Proc : op'[p] = "fork" =>
        /\ child'[p] \in Proc /\ state'[child'[p]] = "embryo"
        /\ kstack'[child'[p]] = 0 <=> pc'[p] = "kstack"
  BY <1>1
<1>4. \A p, q \in Proc :
        op'[p] = "fork" /\ op'[q] = "fork" /\ child'[p] = child'[q] => p = q
  BY <1>2
<1> QED BY <1>3, <1>4 DEF ForkInv

\* No page moves.
LEMMA PagesKept ==
  ASSUME IInv, UNCHANGED <<free, kstack, mem, as, wk>>
  PROVE  PagesPartitioned'
<1>1. held' = held
  BY DEF held, Held, Pages
<1>2. Partition(free, held) /\ DistinctSpaces
  BY PartitionIs DEF IInv
<1>3. DistinctSpaces'
  BY <1>2 DEF DistinctSpaces, Distinct
<1> QED BY <1>1, <1>2, <1>3, PartitionNext

\* A loop starts at a, with the pages below a mapped.
LEMMA LoopStarts ==
  ASSUME TypeOK, NEW p \in Proc, NEW a \in Nat, NEW e \in Nat, a <= e,
         e < KERNBASE, Loop(p, a, e), NEW s,
         \A v \in Vpn : (s.pte[v] # 0) <=> (v * PGSIZE < a)
  PROVE  /\ pc'[p] = "page" /\ from'[p] = a /\ to'[p] = e
         /\ \E k \in 0 .. NVpn : /\ at'[p] = k * PGSIZE
                                 /\ Np(from'[p]) <= k /\ k <= Np(to'[p])
         /\ \A v \in Vpn : (s.pte[v] # 0) <=> (v * PGSIZE < at'[p])
         /\ \A q \in Proc : q # p => /\ pc'[q] = pc[q] /\ from'[q] = from[q]
                                     /\ to'[q] = to[q] /\ at'[q] = at[q]
         /\ pc' = [pc EXCEPT ![p] = "page"] /\ at' \in [Proc -> Nat]
         /\ from' \in [Proc -> Nat] /\ to' \in [Proc -> 0 .. KERNBASE - 1]
<1>1. /\ pc'[p] = "page" /\ from'[p] = a /\ to'[p] = e /\ at'[p] = PGROUNDUP(a)
      /\ \A q \in Proc : q # p => /\ pc'[q] = pc[q] /\ from'[q] = from[q]
                                  /\ to'[q] = to[q] /\ at'[q] = at[q]
  BY DEF Loop, TypeOK
<1>2. /\ Np(a) \in Nat /\ PGROUNDUP(a) = Np(a) * PGSIZE /\ PGROUNDUP(a) \in Nat
      /\ Np(e) \in Nat /\ Np(a) <= Np(e) /\ Np(e) <= NVpn /\ NVpn \in Nat
  BY RoundUp, RoundUpBounds, MemoryAssumption
<1>3. Np(a) \in 0 .. NVpn
  BY <1>2
<1>4. \A v \in Vpn : (v * PGSIZE < a) <=> (v * PGSIZE < PGROUNDUP(a))
  BY RoundUp DEF Vpn
<1>5. /\ pc' = [pc EXCEPT ![p] = "page"] /\ at' \in [Proc -> Nat]
      /\ from' \in [Proc -> Nat] /\ to' \in [Proc -> 0 .. KERNBASE - 1]
  BY <1>2, RoundUpBounds DEF Loop, TypeOK
<1> QED BY <1>1, <1>2, <1>3, <1>4, <1>5

-----------------------------------------------------------------------------
(***************************************************************************)
(* Steps that move no page.                                                *)
(***************************************************************************)

\* Sizes computed by growproc are naturals.
LEMMA UintNat ==
  ASSUME NEW n \in Int
  PROVE  Uint(n) \in Nat
<1> DEFINE m == 2 ^ Width
<1>1. m \in Nat /\ KERNBASE < m
  BY MemoryAssumption DEF KERNBASE
<1>2. KERNBASE \in Nat
  BY RoundUpBounds
<1> HIDE DEF m
<1>3. n % m \in Nat
  BY <1>1, <1>2
<1> QED BY <1>3 DEF Uint, m

\* At the end of a loop the pages below to[p] are mapped.
LEMMA LoopEnds ==
  ASSUME IInv, NEW p \in Proc, InLoop(p), at[p] >= to[p]
  PROVE  \A v \in Vpn : (space(p).pte[v] # 0) <=> (v * PGSIZE < to[p])
<1>1. PICK k \in 0 .. NVpn : at[p] = k * PGSIZE /\ k <= Np(to[p])
  BY DEF IInv, ProcInv, LoopOf
<1>2. to[p] \in Nat /\ k \in Nat /\ at[p] \in Nat
  BY RoundUpBounds, MemoryAssumption DEF IInv, TypeOK
<1>3. ~(k * PGSIZE < to[p])
  BY <1>1, <1>2
<1>4. /\ Np(to[p]) \in Nat
      /\ \A v \in Nat : (v * PGSIZE < to[p]) <=> v < Np(to[p])
  BY <1>2, RoundUp
<1>5. k = Np(to[p])
  <2>1. ~(k < Np(to[p]))
    BY <1>2, <1>3, <1>4
  <2> QED BY <1>1, <1>2, <1>4, <2>1
<1>6. ASSUME NEW v \in Nat PROVE (v * PGSIZE < at[p]) <=> v < k
  <2>1. k \in Int /\ v \in Int
    BY <1>2
  <2>2. (v * PGSIZE < k * PGSIZE) <=> v < k
    BY <2>1, Multiples
  <2> QED BY <1>1, <2>2
<1>7. \A v \in Vpn : (v * PGSIZE < at[p]) <=> (v * PGSIZE < to[p])
  BY <1>4, <1>5, <1>6 DEF Vpn
<1> QED BY <1>7 DEF IInv, ProcInv, LoopOf

\* The call of p goes on, with the same pages.
LEMMA CallGoesOn ==
  ASSUME IInv, NEW p \in Proc, TypeOK',
         UNCHANGED <<free, state, kstack, as, sz, wk, mem, child>>,
         \A q \in Proc : q # p => /\ op'[q] = op[q] /\ pc'[q] = pc[q]
                                  /\ at'[q] = at[q] /\ from'[q] = from[q]
                                  /\ to'[q] = to[q],
         op'[p] = "fork" => op[p] = "fork" /\ pc[p] # "kstack",
         pc'[p] # "kstack", CallOf(p)', SizeOf(p)', LoopOf(p)'
  PROVE  IInv'
<1>1. ForkInv'
  BY ForksKept
<1>2. PagesPartitioned'
  BY PagesKept
<1>3. \A q \in Proc : q # p => Same(q)
  BY DEF Same
<1>4. ProcInv(p)'
  BY DEF IInv, ProcInv, SlotOf
<1> QED BY <1>1, <1>2, <1>3, <1>4, OthersKept

\* sbrk starts to grow the process.
LEMMA SbrkGrowInv ==
  ASSUME IInv, NEW p \in Proc, SbrkGrow(p)
  PROVE  IInv'
<1>1. PICK n \in Grow : LET new == Uint(sz[p] + n) IN
        new >= sz[p] /\ ~ too_big(new) /\ Loop(p, sz[p], new)
  BY DEF SbrkGrow
<1> DEFINE new == Uint(sz[p] + n)
<1>2. /\ MayCall(p) /\ op' = [op EXCEPT ![p] = "sbrk"] /\ calls' = calls + 1
      /\ UNCHANGED <<free, state, parent, kstack, as, sz, wk, mem, rest, child>>
  BY DEF SbrkGrow
<1>3. sz[p] \in Nat /\ new \in Nat /\ sz[p] <= new /\ new < KERNBASE
  <2>1. sz[p] \in Nat /\ n \in Int /\ KERNBASE \in Nat
    BY MemoryAssumption, RoundUpBounds DEF IInv, TypeOK
  <2>2. new \in Nat
    BY <2>1, UintNat
  <2> QED BY <1>1, <2>1, <2>2 DEF too_big
<1> HIDE DEF new
<1>4. Loop(p, sz[p], new)
  BY <1>1 DEF new
<1>5. state[p] = "live" /\ pc[p] = "user" /\ op[p] = "none" /\ as[p].pte[0] # 0
  BY <1>2 DEF MayCall, IInv, ProcInv, CallOf
<1>6. \A v \in Vpn : (as[p].pte[v] # 0) <=> (v * PGSIZE < sz[p])
  BY <1>5 DEF IInv, ProcInv, SizeOf
<1>7. /\ pc'[p] = "page" /\ from'[p] = sz[p] /\ to'[p] = new
      /\ \E k \in 0 .. NVpn : /\ at'[p] = k * PGSIZE
                              /\ Np(from'[p]) <= k /\ k <= Np(to'[p])
      /\ \A v \in Vpn : (as[p].pte[v] # 0) <=> (v * PGSIZE < at'[p])
      /\ \A q \in Proc : q # p => /\ pc'[q] = pc[q] /\ from'[q] = from[q]
                                  /\ to'[q] = to[q] /\ at'[q] = at[q]
      /\ pc' = [pc EXCEPT ![p] = "page"] /\ at' \in [Proc -> Nat]
      /\ from' \in [Proc -> Nat] /\ to' \in [Proc -> 0 .. KERNBASE - 1]
  BY <1>3, <1>4, <1>6, LoopStarts DEF IInv
<1>8. op'[p] = "sbrk" /\ \A q \in Proc : q # p => op'[q] = op[q]
  BY <1>2 DEF IInv, TypeOK
<1>9. TypeOK'
  <2>1. /\ op' \in [Proc -> {"none", "sbrk", "fork", "exec"}] /\ calls' \in Nat
        /\ pc' \in [Proc -> {"user", "kstack", "kvm", "segment", "page", "map",
                             "commit"}]
    BY <1>2, <1>7 DEF IInv, TypeOK
  <2> QED BY <1>2, <1>7, <2>1 DEF IInv, TypeOK
<1>10. CallOf(p)'
  BY <1>2, <1>5, <1>7, <1>8 DEF IInv, ProcInv, CallOf
<1>11. SizeOf(p)'
  BY <1>8 DEF SizeOf
<1>12. LoopOf(p)'
  BY <1>2, <1>7, <1>8 DEF LoopOf, InLoop, space
<1> QED BY <1>2, <1>7, <1>8, <1>9, <1>10, <1>11, <1>12, CallGoesOn

\* exec begins.
LEMMA ExecInv ==
  ASSUME IInv, NEW p \in Proc, Exec(p)
  PROVE  IInv'
<1>1. PICK im \in Images : rest' = [rest EXCEPT ![p] = im]
  BY DEF Exec
<1>2. /\ MayCall(p) /\ op' = [op EXCEPT ![p] = "exec"]
      /\ pc' = [pc EXCEPT ![p] = "kvm"] /\ calls' = calls + 1
      /\ UNCHANGED <<free, state, parent, kstack, as, sz, wk, mem, at, from, to,
                     child>>
  BY DEF Exec
<1>3. im \in Seq(Nat)
  <2>1. im \in Seq(Nat \ {0})
    BY MemoryAssumption
  <2> QED BY <2>1
<1>4. state[p] = "live" /\ pc[p] = "user" /\ op[p] = "none"
  BY <1>2 DEF MayCall, IInv, ProcInv, CallOf
<1>5. /\ op'[p] = "exec" /\ pc'[p] = "kvm"
      /\ \A q \in Proc : q # p => op'[q] = op[q] /\ pc'[q] = pc[q]
  BY <1>2 DEF IInv, TypeOK
<1>6. TypeOK'
  <2>1. /\ op' \in [Proc -> {"none", "sbrk", "fork", "exec"}] /\ calls' \in Nat
        /\ pc' \in [Proc -> {"user", "kstack", "kvm", "segment", "page", "map",
                             "commit"}]
        /\ rest' \in [Proc -> Seq(Nat)]
    BY <1>1, <1>2, <1>3 DEF IInv, TypeOK
  <2> QED BY <1>2, <2>1 DEF IInv, TypeOK
<1>7. CallOf(p)'
  BY <1>2, <1>4, <1>5 DEF IInv, ProcInv, CallOf
<1>8. SizeOf(p)'
  BY <1>2, <1>4 DEF IInv, ProcInv, SizeOf
<1>9. LoopOf(p)'
  BY <1>2, <1>4, <1>5 DEF IInv, ProcInv, LoopOf, InLoop
<1> QED BY <1>2, <1>5, <1>6, <1>7, <1>8, <1>9, CallGoesOn

\* The loop of p's call starts, in the address space that it builds.
LEMMA BuildLoop ==
  ASSUME IInv, NEW p \in Proc, op[p] \in {"fork", "exec"},
         pc[p] \in {"kvm", "segment"},
         NEW a \in Nat, NEW e \in Nat, a <= e, e < KERNBASE, Loop(p, a, e),
         \A v \in Vpn : (wk[p].pte[v] # 0) <=> (v * PGSIZE < a),
         op[p] = "fork" => e = sz[p], rest' \in [Proc -> Seq(Nat)],
         UNCHANGED <<free, state, parent, kstack, as, sz, op, wk, mem, child, calls>>
  PROVE  IInv'
<1>1. /\ pc'[p] = "page" /\ from'[p] = a /\ to'[p] = e
      /\ \E k \in 0 .. NVpn : /\ at'[p] = k * PGSIZE
                              /\ Np(from'[p]) <= k /\ k <= Np(to'[p])
      /\ \A v \in Vpn : (wk[p].pte[v] # 0) <=> (v * PGSIZE < at'[p])
      /\ \A q \in Proc : q # p => /\ pc'[q] = pc[q] /\ from'[q] = from[q]
                                  /\ to'[q] = to[q] /\ at'[q] = at[q]
      /\ pc' = [pc EXCEPT ![p] = "page"] /\ at' \in [Proc -> Nat]
      /\ from' \in [Proc -> Nat] /\ to' \in [Proc -> 0 .. KERNBASE - 1]
  BY LoopStarts DEF IInv
<1>2. TypeOK'
  BY <1>1 DEF IInv, TypeOK
<1>3. CallOf(p)' /\ SizeOf(p)'
  BY <1>1 DEF IInv, ProcInv, CallOf, SizeOf
<1>4. LoopOf(p)'
  BY <1>1 DEF IInv, ProcInv, LoopOf, InLoop, space
<1> QED BY <1>1, <1>2, <1>3, <1>4, CallGoesOn

\* setupkvm is over.
LEMMA SetupkvmDoneInv ==
  ASSUME IInv, NEW p \in Proc, SetupkvmDone(p)
  PROVE  IInv'
<1>1. /\ pc[p] = "kvm" /\ UNCHANGED <<free, state, parent, kstack, as, sz, op, wk,
                                      mem, rest, child, calls>>
  BY DEF SetupkvmDone
<1>2. op[p] \in {"fork", "exec"} /\ to[p] = 0 /\ \A v \in Vpn : wk[p].pte[v] = 0
  BY <1>1 DEF IInv, ProcInv, CallOf, LoopOf
<1>3. \A v \in Vpn : ~(v * PGSIZE < 0)
  BY PageOf DEF Vpn
<1>4. CASE op[p] = "fork" /\ Loop(p, 0, sz[p])
  <2>1. sz[p] \in Nat /\ 0 <= sz[p] /\ sz[p] < KERNBASE /\ rest' \in [Proc -> Seq(Nat)]
    BY <1>1, RoundUpBounds DEF IInv, TypeOK
  <2> QED BY <1>1, <1>2, <1>3, <1>4, <2>1, BuildLoop
<1>5. CASE /\ op[p] = "exec" /\ pc' = [pc EXCEPT ![p] = "segment"]
           /\ UNCHANGED <<at, from, to>>
  <2>1. /\ pc'[p] = "segment" /\ \A q \in Proc : q # p => pc'[q] = pc[q]
    BY <1>5 DEF IInv, TypeOK
  <2>2. TypeOK'
    BY <1>1, <1>5 DEF IInv, TypeOK
  <2>3. CallOf(p)' /\ SizeOf(p)'
    BY <1>1, <1>5, <2>1 DEF IInv, ProcInv, CallOf, SizeOf
  <2>4. LoopOf(p)'
    BY <1>1, <1>2, <1>3, <1>5, <2>1 DEF LoopOf, InLoop
  <2> QED BY <1>1, <1>5, <2>1, <2>2, <2>3, <2>4, CallGoesOn
<1> QED BY <1>4, <1>5 DEF SetupkvmDone

\* The next segment of the program starts its loop, or is passed.
LEMMA ExecSegmentInv ==
  ASSUME IInv, NEW p \in Proc, ExecSegment(p), ~Fail(p)
  PROVE  IInv'
<1>1. pc[p] = "segment" /\ rest[p] # << >>
  BY DEF ExecSegment
<1>2. /\ op[p] = "exec" /\ to[p] \in Nat /\ Head(rest[p]) \in Nat
      /\ [rest EXCEPT ![p] = Tail(@)] \in [Proc -> Seq(Nat)]
      /\ \A v \in Vpn : (wk[p].pte[v] # 0) <=> (v * PGSIZE < to[p])
  <2>1. rest[p] \in Seq(Nat)
    BY DEF IInv, TypeOK
  <2>2. Head(rest[p]) \in Nat /\ Tail(rest[p]) \in Seq(Nat)
    BY <1>1, <2>1
  <2>3. op[p] = "exec" /\ \A v \in Vpn : (wk[p].pte[v] # 0) <=> (v * PGSIZE < to[p])
    BY <1>1 DEF IInv, ProcInv, CallOf, LoopOf
  <2> QED BY <2>2, <2>3, RoundUpBounds DEF IInv, TypeOK
<1>3. CASE /\ ~ too_big(Head(rest[p])) /\ Head(rest[p]) >= to[p]
           /\ Loop(p, to[p], Head(rest[p]))
           /\ rest' = [rest EXCEPT ![p] = Tail(@)]
           /\ UNCHANGED <<free, state, parent, kstack, as, sz, op, wk, mem, child,
                          calls>>
  <2>1. to[p] <= Head(rest[p]) /\ Head(rest[p]) < KERNBASE
    BY <1>2, <1>3, RoundUpBounds DEF too_big
  <2> QED BY <1>1, <1>2, <1>3, <2>1, BuildLoop
<1>4. CASE /\ rest' = [rest EXCEPT ![p] = Tail(@)]
           /\ UNCHANGED <<free, state, parent, kstack, as, sz, op, pc, wk, mem, at>>
           /\ UNCHANGED <<from, to, child, calls>>
  <2>1. TypeOK'
    BY <1>2, <1>4 DEF IInv, TypeOK
  <2>2. CallOf(p)' /\ SizeOf(p)' /\ LoopOf(p)'
    BY <1>4 DEF IInv, ProcInv, CallOf, SizeOf, LoopOf, InLoop, space
  <2> QED BY <1>1, <1>2, <1>4, <2>1, <2>2, CallGoesOn
<1> QED BY <1>3, <1>4 DEF ExecSegment

\* The two pages of the stack.
LEMMA ExecStackInv ==
  ASSUME IInv, NEW p \in Proc, ExecStack(p), ~Fail(p)
  PROVE  IInv'
<1> DEFINE a == PGROUNDUP(to[p])
           e == a + 2 * PGSIZE
<1>1. /\ pc[p] = "segment" /\ ~ too_big(e) /\ Loop(p, a, e)
      /\ rest' = [rest EXCEPT ![p] = <<0>>]
      /\ UNCHANGED <<free, state, parent, kstack, as, sz, op, wk, mem, child, calls>>
  BY DEF ExecStack
<1>2. to[p] \in Nat /\ KERNBASE \in Nat
  BY RoundUpBounds DEF IInv, TypeOK
<1>3. a \in Nat /\ \A v \in Vpn : (v * PGSIZE < to[p]) <=> (v * PGSIZE < a)
  BY <1>2, RoundUp DEF Vpn
<1>4. e \in Nat /\ a <= e /\ e < KERNBASE
  <2> HIDE DEF a
  <2> QED BY <1>1, <1>2, <1>3, PageSize DEF too_big
<1> HIDE DEF a, e
<1>5. op[p] = "exec" /\ \A v \in Vpn : (wk[p].pte[v] # 0) <=> (v * PGSIZE < a)
  BY <1>1, <1>3 DEF IInv, ProcInv, CallOf, LoopOf
<1>6. rest' \in [Proc -> Seq(Nat)]
  BY <1>1 DEF IInv, TypeOK
<1> QED BY <1>1, <1>3, <1>4, <1>5, <1>6, BuildLoop

-----------------------------------------------------------------------------
(***************************************************************************)
(* Steps that take a page.                                                 *)
(***************************************************************************)

\* What IInv says of the pages.
LEMMA IInvPages ==
  ASSUME IInv
  PROVE  /\ Partition(free, held) /\ DistinctSpaces /\ free \subseteq Page
         /\ \A p \in Proc : /\ as[p] \in Space /\ wk[p] \in Space
                            /\ Distinct(as[p]) /\ Distinct(wk[p])
BY PartitionIs DEF IInv, TypeOK, DistinctSpaces

\* A page of the free list is in no address space.
LEMMA FreeIsFresh ==
  ASSUME IInv, NEW g \in free, NEW p \in Proc
  PROVE  g \notin Pages(as[p]) /\ g \notin Pages(wk[p]) /\ g \in Page /\ g # 0
<1>1. g \in Page /\ g # 0
  BY PageNotNull DEF IInv, TypeOK
<1>2. /\ held[<<"as", p>>] \cap free = {}
      /\ held[<<"wk", p>>] \cap free = {}
  BY IInvPages, HolderIs DEF Partition
<1> QED BY <1>1, <1>2, HeldIs

\* The holders other than the address spaces and the stack and page of p.
LEMMA HeldNext ==
  ASSUME NEW p \in Proc, NEW h \in Holder,
         h # <<"kstack", p>>, h # <<"mem", p>>, h # <<"as", p>>, h # <<"wk", p>>,
         \A q \in Proc : q # p => /\ kstack'[q] = kstack[q] /\ mem'[q] = mem[q]
                                  /\ as'[q] = as[q] /\ wk'[q] = wk[q]
  PROVE  held'[h] = held[h]
<1>1. PICK q \in Proc :
        h \in {<<"kstack", q>>, <<"mem", q>>, <<"as", q>>, <<"wk", q>>}
  BY HolderIs
<1>2. q # p
  BY <1>1
<1>3. /\ held'[<<"kstack", q>>] = {kstack'[q]} \ {0}
      /\ held'[<<"mem", q>>] = {mem'[q]} \ {0}
      /\ held'[<<"as", q>>] = Pages(as'[q])
      /\ held'[<<"wk", q>>] = Pages(wk'[q])
  BY DEF held, Held, Holder, Pages
<1> QED BY <1>1, <1>2, <1>3, HeldIs

\* What p holds after a step.
LEMMA HeldIsNext ==
  ASSUME NEW p \in Proc
  PROVE  /\ held'[<<"kstack", p>>] = {kstack'[p]} \ {0}
         /\ held'[<<"mem", p>>] = {mem'[p]} \ {0}
         /\ held'[<<"as", p>>] = Pages(as'[p])
         /\ held'[<<"wk", p>>] = Pages(wk'[p])
BY DEF held, Held, Holder, Pages

\* The names of the holders differ.
LEMMA HoldersDiffer ==
  \A a, b, c, d : (<<a, b>> = <<c, d>>) <=> (a = c /\ b = d)
OBVIOUS

\* Only the holder <<K, p>> changes.
LEMMA OneHolder ==
  ASSUME NEW p \in Proc, NEW K \in {"kstack", "mem", "as", "wk"},
         K # "kstack" => kstack'[p] = kstack[p], K # "mem" => mem'[p] = mem[p],
         K # "as" => as'[p] = as[p], K # "wk" => wk'[p] = wk[p],
         \A q \in Proc : q # p => /\ kstack'[q] = kstack[q] /\ mem'[q] = mem[q]
                                  /\ as'[q] = as[q] /\ wk'[q] = wk[q]
  PROVE  \A i \in Holder : i # <<K, p>> => held'[i] = held[i]
<1> SUFFICES ASSUME NEW i \in Holder, i # <<K, p>> PROVE held'[i] = held[i]
  OBVIOUS
<1>1. CASE i = <<"kstack", p>>
  BY <1>1, HeldIs, HeldIsNext
<1>2. CASE i = <<"mem", p>>
  BY <1>2, HeldIs, HeldIsNext
<1>3. CASE i = <<"as", p>>
  BY <1>3, HeldIs, HeldIsNext
<1>4. CASE i = <<"wk", p>>
  BY <1>4, HeldIs, HeldIsNext
<1> QED BY <1>1, <1>2, <1>3, <1>4, HeldNext

\* kalloc for the holder h.
LEMMA TakePages ==
  ASSUME IInv, NEW h \in Holder, NEW g \in free, free' = free \ {g},
         DistinctSpaces', held'[h] = held[h] \cup {g},
         \A i \in Holder : i # h => held'[i] = held[i]
  PROVE  PagesPartitioned'
<1>1. Takes(held, held', h, g)
  BY DEF Takes
<1>2. Partition(free, held)
  BY IInvPages
<1>3. Partition(free \ {g}, held')
  BY <1>1, <1>2, Take
<1> QED BY <1>3, PartitionNext

\* The address spaces of the others stay.
LEMMA DistinctNext ==
  ASSUME IInv, NEW p \in Proc,
         \A q \in Proc : q # p => as'[q] = as[q] /\ wk'[q] = wk[q],
         Distinct(as'[p]), Distinct(wk'[p])
  PROVE  DistinctSpaces'
<1>1. \A q \in Proc : Distinct(as'[q]) /\ Distinct(wk'[q])
  BY IInvPages
<1> QED BY <1>1 DEF DistinctSpaces, Distinct

\* fork gets its kernel stack.
LEMMA ForkStackInv ==
  ASSUME IInv, NEW p \in Proc, ForkStack(p), free # {}
  PROVE  IInv'
<1> DEFINE g == Min(free)
<1>1. /\ pc[p] = "kstack" /\ kstack' = [kstack EXCEPT ![child[p]] = g]
      /\ free' = free \ {g} /\ pc' = [pc EXCEPT ![p] = "kvm"]
      /\ UNCHANGED <<state, parent, as, sz, op, local, calls>>
  BY DEF ForkStack
<1>2. g \in free /\ g \in Page /\ g # 0
  BY MinFree, FreeIsFresh DEF IInv, TypeOK
<1> HIDE DEF g
<1>3. op[p] = "fork" /\ state[p] = "live"
  BY <1>1 DEF IInv, ProcInv, CallOf
<1>4. PICK c \in Proc : /\ c = child[p] /\ c # p /\ state[c] = "embryo"
                        /\ kstack[c] = 0
  BY <1>1, <1>3 DEF IInv, ForkInv
<1>5. /\ kstack'[c] = g /\ \A q \in Proc : q # c => kstack'[q] = kstack[q]
      /\ pc'[p] = "kvm" /\ \A q \in Proc : q # p => pc'[q] = pc[q]
  BY <1>1, <1>4 DEF IInv, TypeOK
<1>6. TypeOK'
  <2>1. /\ kstack' \in [Proc -> Page \cup {0}] /\ free' \subseteq Page
        /\ pc' \in [Proc -> {"user", "kstack", "kvm", "segment", "page", "map",
                             "commit"}]
    BY <1>1, <1>2, <1>4 DEF IInv, TypeOK
  <2> QED BY <1>1, <2>1 DEF IInv, TypeOK
<1>7. ForkInv'
  <2>1. \A q \in Proc : op[q] = "fork" /\ q # p =>
          /\ child[q] \in Proc /\ child[q] # c /\ state[child[q]] = "embryo"
          /\ kstack[child[q]] = 0 <=> pc[q] = "kstack"
    BY <1>3, <1>4 DEF IInv, ForkInv
  <2>2. \A q \in Proc : op[q] = "fork" /\ q # p =>
          /\ child[q] \in Proc /\ state[child[q]] = "embryo"
          /\ kstack'[child[q]] = 0 <=> pc'[q] = "kstack"
    BY <1>5, <2>1
  <2>3. /\ child[p] \in Proc /\ state[child[p]] = "embryo"
        /\ kstack'[child[p]] = 0 <=> pc'[p] = "kstack"
    BY <1>2, <1>4, <1>5
  <2> QED BY <1>1, <2>2, <2>3 DEF IInv, ForkInv
<1>8. PagesPartitioned'
  <2>1. \A i \in Holder : i # <<"kstack", c>> => held'[i] = held[i]
    BY <1>1, <1>5, OneHolder
  <2>2. held'[<<"kstack", c>>] = held[<<"kstack", c>>] \cup {g}
    <3>1. held[<<"kstack", c>>] = {0} \ {0}
      BY <1>4, HeldIs
    <3>2. held'[<<"kstack", c>>] = {g} \ {0}
      BY <1>5, HeldIsNext
    <3> QED BY <1>2, <3>1, <3>2
  <2>3. DistinctSpaces'
    BY <1>1, IInvPages DEF DistinctSpaces, Distinct
  <2> QED BY <1>1, <1>2, <2>1, <2>2, <2>3, TakePages, HolderIs
<1>9. ProcInv(p)'
  <2>0. ProcInv(p) /\ kstack'[p] = kstack[p]
    BY <1>4, <1>5 DEF IInv
  <2>1. CallOf(p)'
    BY <1>1, <1>3, <1>5, <2>0 DEF ProcInv, CallOf
  <2>3. SlotOf(p)'
    BY <1>1, <2>0 DEF ProcInv, SlotOf
  <2>4. SizeOf(p)'
    BY <1>1, <2>0 DEF ProcInv, SizeOf
  <2>2. LoopOf(p)'
    BY <1>1, <1>3, <1>5 DEF IInv, ProcInv, LoopOf, InLoop
  <2> QED BY <2>1, <2>2, <2>3, <2>4 DEF ProcInv
<1>10. ProcInv(c)'
  <2>0. ProcInv(c) /\ pc'[c] = pc[c] /\ state'[c] = "embryo"
    BY <1>1, <1>4, <1>5 DEF IInv
  <2>1. CallOf(c)'
    BY <1>1, <2>0 DEF ProcInv, CallOf
  <2>2. SlotOf(c)'
    BY <1>1, <1>4, <2>0 DEF ProcInv, SlotOf
  <2>3. SizeOf(c)'
    BY <2>0 DEF SizeOf
  <2>4. LoopOf(c)'
    BY <1>1, <2>0 DEF ProcInv, LoopOf, InLoop, space
  <2> QED BY <2>1, <2>2, <2>3, <2>4 DEF ProcInv
<1>11. \A q \in Proc : q # p /\ q # c => Same(q)
  BY <1>1, <1>5 DEF Same
<1> QED BY <1>6, <1>7, <1>8, <1>9, <1>10, <1>11, OthersKept

\* setupkvm gets a page, for the directory or a table of the kernel.
LEMMA SetupkvmInv ==
  ASSUME IInv, NEW p \in Proc, Setupkvm(p), free # {}
  PROVE  IInv'
<1>0. PICK g \in free : g = Min(free)
  BY MinFree DEF IInv, TypeOK
<1>1. /\ pc[p] = "kvm" /\ free' = free \ {g}
      /\ wk[p].dir = 0 \/ Len(wk[p].ktab) < KTables
      /\ wk' = [wk EXCEPT ![p] =
                  IF wk[p].dir = 0 THEN [wk[p] EXCEPT !.dir = g]
                  ELSE [wk[p] EXCEPT !.ktab = Append(wk[p].ktab, g)]]
      /\ UNCHANGED <<state, parent, kstack, as, sz, op, pc>>
      /\ UNCHANGED <<mem, at, from, to, rest, child, calls>>
  <2>1. wk' = [wk EXCEPT ![p] =
             IF @.dir = 0 THEN [@ EXCEPT !.dir = Min(free)]
             ELSE [@ EXCEPT !.ktab = Append(wk[p].ktab, Min(free))]]
    BY DEF Setupkvm
  <2>2. wk' = [wk EXCEPT ![p] =
                 IF wk[p].dir = 0 THEN [wk[p] EXCEPT !.dir = g]
                 ELSE [wk[p] EXCEPT !.ktab = Append(wk[p].ktab, g)]]
    BY <1>0, <2>1
  <2> QED BY <1>0, <2>2 DEF Setupkvm
<1>2. /\ g \notin Pages(wk[p]) /\ g \in Page /\ g # 0 /\ wk[p] \in Space
      /\ Distinct(wk[p]) /\ Distinct(as[p]) /\ Len(wk[p].ktab) <= KTables
      /\ wk[p].ktab \in Seq(Page) /\ KTables \in Nat
  BY FreeIsFresh, IInvPages, MemoryAssumption DEF IInv, TypeOK, Space
<1>3. PICK s2 \in Space :
        /\ wk' = [wk EXCEPT ![p] = s2] /\ s2.pte = wk[p].pte
        /\ Len(s2.ktab) <= KTables
        /\ Distinct(s2) /\ Pages(s2) = Pages(wk[p]) \cup {g}
  <2>1. CASE wk[p].dir = 0
    <3> DEFINE s == [wk[p] EXCEPT !.dir = g]
    <3>1. /\ s \in Space /\ s.ktab = wk[p].ktab /\ s.pte = wk[p].pte
          /\ \A x \in Entry : PageAt(s, x) = IF x = <<"dir", 0>> THEN g
                                             ELSE PageAt(wk[p], x)
      BY <1>2, SetDir
    <3>2. wk' = [wk EXCEPT ![p] = s]
      BY <1>1, <2>1
    <3> HIDE DEF s
    <3>3. <<"dir", 0>> \in Entry /\ PageAt(wk[p], <<"dir", 0>>) = 0
      BY <2>1, EntriesDiffer, PageAtIs
    <3>4. Pages(s) = Pages(wk[p]) \cup {g} /\ Distinct(s)
      <4> DEFINE w == wk[p]
      <4>1. /\ w \in Space /\ PageAt(w, <<"dir", 0>>) = 0 /\ Distinct(w)
            /\ g \notin Pages(w) /\ g \in Page
            /\ \A x \in Entry : PageAt(s, x) = IF x = <<"dir", 0>> THEN g
                                               ELSE PageAt(w, x)
        BY <1>2, <3>1, <3>3
      <4> HIDE DEF w
      <4>2. Pages(s) = Pages(w) \cup {g} /\ Distinct(s)
        BY <3>3, <4>1, PutPage
      <4> QED BY <4>2 DEF w
    <3> QED BY <1>2, <3>1, <3>2, <3>4
  <2>2. CASE wk[p].dir # 0
    <3> DEFINE s == [wk[p] EXCEPT !.ktab = Append(wk[p].ktab, g)]
               n == Len(wk[p].ktab) + 1
    <3>1. /\ s \in Space /\ Len(s.ktab) = n /\ s.pte = wk[p].pte
          /\ \A x \in Entry : PageAt(s, x) = IF x = <<"ktab", n>> THEN g
                                             ELSE PageAt(wk[p], x)
      BY <1>2, AddKtab
    <3>2. wk' = [wk EXCEPT ![p] = s]
      BY <1>1, <2>2
    <3>3. Len(wk[p].ktab) \in Nat /\ DOMAIN wk[p].ktab = 1 .. Len(wk[p].ktab)
      BY <1>2
    <3>4. n \in 1 .. KTables /\ n \notin DOMAIN wk[p].ktab
      BY <1>1, <1>2, <2>2, <3>3
    <3> HIDE DEF s, n
    <3>5. <<"ktab", n>> \in Entry /\ PageAt(wk[p], <<"ktab", n>>) = 0
      BY <3>4, EntriesDiffer, PageAtIs
    <3>6. Pages(s) = Pages(wk[p]) \cup {g} /\ Distinct(s)
      <4> DEFINE w == wk[p]
                 x0 == <<"ktab", n>>
      <4>1. /\ w \in Space /\ x0 \in Entry /\ PageAt(w, x0) = 0 /\ Distinct(w)
            /\ g \notin Pages(w) /\ g \in Page
            /\ \A x \in Entry : PageAt(s, x) = IF x = x0 THEN g ELSE PageAt(w, x)
        BY <1>2, <3>1, <3>5
      <4> HIDE DEF w, x0
      <4>2. Pages(s) = Pages(w) \cup {g} /\ Distinct(s)
        BY <3>1, <4>1, PutPage
      <4> QED BY <4>2 DEF w
    <3>7. Len(s.ktab) <= KTables
      BY <1>2, <3>1, <3>4
    <3> QED BY <3>1, <3>2, <3>6, <3>7
  <2> QED BY <2>1, <2>2
<1>4. wk'[p] = s2 /\ \A q \in Proc : q # p => wk'[q] = wk[q]
  BY <1>3 DEF IInv, TypeOK
<1>5. TypeOK'
  <2>1. free' \subseteq Page /\ wk' \in [Proc -> Space]
    <3>1. free \subseteq Page /\ wk \in [Proc -> Space]
      BY DEF IInv, TypeOK
    <3> QED BY <1>1, <1>3, <3>1
  <2> QED BY <1>1, <1>3, <1>4, <2>1 DEF IInv, TypeOK
<1>6. ForkInv'
  BY <1>1, ForksKept
<1>7. PagesPartitioned'
  <2>1. \A i \in Holder : i # <<"wk", p>> => held'[i] = held[i]
    BY <1>1, <1>4, OneHolder
  <2>2. held'[<<"wk", p>>] = held[<<"wk", p>>] \cup {g}
    BY <1>3, <1>4, HeldIs, HeldIsNext
  <2>3. DistinctSpaces'
    BY <1>1, <1>2, <1>3, <1>4, DistinctNext
  <2> QED BY <1>1, <2>1, <2>2, <2>3, TakePages, HolderIs
<1>8. ProcInv(p)'
  <2>1. op[p] \in {"fork", "exec"}
    BY <1>1 DEF IInv, ProcInv, CallOf
  <2>2. CallOf(p)' /\ SlotOf(p)' /\ SizeOf(p)'
    BY <1>1, <2>1 DEF IInv, ProcInv, CallOf, SlotOf, SizeOf
  <2>3. LoopOf(p)'
    BY <1>1, <1>3, <1>4 DEF IInv, ProcInv, LoopOf, InLoop
  <2> QED BY <2>2, <2>3 DEF ProcInv
<1>9. \A q \in Proc : q # p => Same(q)
  BY <1>1, <1>4 DEF Same
<1> QED BY <1>5, <1>6, <1>7, <1>8, <1>9, OthersKept

\* The page or the table that the loop is at.
LEMMA LoopAt ==
  ASSUME IInv, NEW p \in Proc, pc[p] = "map"
  PROVE  \E v \in Vpn :
           /\ at[p] = v * PGSIZE /\ at[p] \div PGSIZE = v /\ v \div PerTable \in Table
           /\ Np(from[p]) <= v /\ v < Np(to[p]) /\ space(p).pte[v] = 0
<1>1. PICK k \in 0 .. NVpn : at[p] = k * PGSIZE /\ Np(from[p]) <= k
  BY DEF IInv, ProcInv, LoopOf, InLoop
<1>2. to[p] \in Nat /\ to[p] < KERNBASE /\ k \in Nat /\ at[p] < to[p] /\ NVpn \in Nat
  BY RoundUpBounds, MemoryAssumption DEF IInv, TypeOK, ProcInv, LoopOf
<1>3. k < Np(to[p]) /\ Np(to[p]) <= NVpn /\ Np(to[p]) \in Nat
  BY <1>1, <1>2, RoundUp, RoundUpBounds
<1>4. k \in Vpn
  BY <1>2, <1>3 DEF Vpn
<1>5. ~(k * PGSIZE < at[p])
  BY <1>1, <1>2, PageOf
<1>6. space(p).pte[k] = 0
  BY <1>4, <1>5 DEF IInv, ProcInv, LoopOf, InLoop
<1> QED BY <1>1, <1>2, <1>3, <1>4, <1>6, PageOf, TableOf

\* The space that a call works on is replaced by s.
LEMMA SpaceSet ==
  ASSUME IInv, NEW p \in Proc, NEW s \in Space, SetSpace(p, s),
         Len(s.ktab) <= KTables, Distinct(s)
  PROVE  /\ as' \in [Proc -> Space] /\ wk' \in [Proc -> Space]
         /\ \A q \in Proc : Len(as'[q].ktab) <= KTables /\ Len(wk'[q].ktab) <= KTables
         /\ \A q \in Proc : q # p => as'[q] = as[q] /\ wk'[q] = wk[q]
         /\ op[p] = "sbrk" => as'[p] = s /\ wk' = wk /\ space(p) = as[p]
         /\ op[p] # "sbrk" => wk'[p] = s /\ as' = as /\ space(p) = wk[p]
         /\ DistinctSpaces'
<1>1. /\ as \in [Proc -> Space] /\ wk \in [Proc -> Space]
      /\ \A q \in Proc : Len(as[q].ktab) <= KTables /\ Len(wk[q].ktab) <= KTables
  BY DEF IInv, TypeOK
<1>2. CASE op[p] = "sbrk"
  <2>1. as' = [as EXCEPT ![p] = s] /\ wk' = wk
    BY <1>2 DEF SetSpace
  <2>2. as'[p] = s /\ \A q \in Proc : q # p => as'[q] = as[q]
    BY <1>1, <2>1
  <2>3. DistinctSpaces'
    BY <2>1, <2>2, DistinctNext, IInvPages
  <2> QED BY <1>1, <1>2, <2>1, <2>2, <2>3 DEF space
<1>3. CASE op[p] # "sbrk"
  <2>1. wk' = [wk EXCEPT ![p] = s] /\ as' = as
    BY <1>3 DEF SetSpace
  <2>2. wk'[p] = s /\ \A q \in Proc : q # p => wk'[q] = wk[q]
    BY <1>1, <2>1
  <2>3. DistinctSpaces'
    BY <2>1, <2>2, DistinctNext, IInvPages
  <2> QED BY <1>1, <1>3, <2>1, <2>2, <2>3 DEF space
<1> QED BY <1>2, <1>3

\* The loop gets a page.
LEMMA LoopPageInv ==
  ASSUME IInv, NEW p \in Proc, LoopPage(p), free # {}
  PROVE  IInv'
<1>0. PICK g \in free : g = Min(free)
  BY MinFree DEF IInv, TypeOK
<1>1. /\ pc[p] = "page" /\ at[p] < to[p] /\ mem' = [mem EXCEPT ![p] = g]
      /\ free' = free \ {g} /\ pc' = [pc EXCEPT ![p] = "map"]
      /\ UNCHANGED <<state, parent, kstack, as, sz, op, wk, at, from, to>>
      /\ UNCHANGED <<rest, child, calls>>
  BY <1>0 DEF LoopPage
<1>2. g \in Page /\ g # 0
  BY FreeIsFresh
<1>3. mem[p] = 0 /\ ProcInv(p)
  BY <1>1 DEF IInv, ProcInv, CallOf
<1>4. /\ mem'[p] = g /\ pc'[p] = "map"
      /\ \A q \in Proc : q # p => mem'[q] = mem[q] /\ pc'[q] = pc[q]
  BY <1>1 DEF IInv, TypeOK
<1>5. TypeOK'
  <2>1. /\ mem' \in [Proc -> Page \cup {0}] /\ free' \subseteq Page
        /\ pc' \in [Proc -> {"user", "kstack", "kvm", "segment", "page", "map",
                             "commit"}]
    BY <1>1, <1>2 DEF IInv, TypeOK
  <2> QED BY <1>1, <2>1 DEF IInv, TypeOK
<1>6. ForkInv'
  BY <1>1, <1>4, ForksKept
<1>7. PagesPartitioned'
  <2>1. \A i \in Holder : i # <<"mem", p>> => held'[i] = held[i]
    BY <1>1, <1>4, OneHolder
  <2>2. held'[<<"mem", p>>] = held[<<"mem", p>>] \cup {g}
    <3>1. held[<<"mem", p>>] = {0} \ {0}
      BY <1>3, HeldIs
    <3>2. held'[<<"mem", p>>] = {g} \ {0}
      BY <1>4, HeldIsNext
    <3> QED BY <1>2, <3>1, <3>2
  <2>3. DistinctSpaces'
    BY <1>1, IInvPages DEF DistinctSpaces, Distinct
  <2> QED BY <1>1, <2>1, <2>2, <2>3, TakePages, HolderIs
<1>8. ProcInv(p)'
  <2>1. CallOf(p)'
    BY <1>1, <1>2, <1>3, <1>4 DEF ProcInv, CallOf
  <2>2. SlotOf(p)' /\ SizeOf(p)'
    BY <1>1, <1>3 DEF ProcInv, SlotOf, SizeOf
  <2>3. LoopOf(p)'
    BY <1>1, <1>3, <1>4 DEF ProcInv, LoopOf, InLoop, space
  <2> QED BY <2>1, <2>2, <2>3 DEF ProcInv
<1>9. \A q \in Proc : q # p => Same(q)
  BY <1>1, <1>4 DEF Same
<1> QED BY <1>5, <1>6, <1>7, <1>8, <1>9, OthersKept

\* walkpgdir gets a page table.
LEMMA LoopTableInv ==
  ASSUME IInv, NEW p \in Proc, LoopTable(p), free # {}
  PROVE  IInv'
<1>0. PICK g \in free : g = Min(free)
  BY MinFree DEF IInv, TypeOK
<1>a. pc[p] = "map"
  BY DEF LoopTable
<1>b. PICK v \in Vpn : at[p] \div PGSIZE = v /\ v \div PerTable \in Table
  BY <1>a, LoopAt
<1>c. PICK t \in Table : t = v \div PerTable
  BY <1>b
<1>d. PICK w \in Space : /\ w = space(p) /\ Distinct(w) /\ g \notin Pages(w)
                         /\ Len(w.ktab) <= KTables
  BY FreeIsFresh, IInvPages DEF space, IInv, TypeOK
<1>1. /\ w.tab[t] = 0 /\ free' = free \ {g} /\ SetSpace(p, [w EXCEPT !.tab[t] = g])
      /\ UNCHANGED <<state, parent, kstack, sz, op, pc, mem, at, from, to>>
      /\ UNCHANGED <<rest, child, calls>>
  BY <1>0, <1>b, <1>c, <1>d DEF LoopTable
<1>2. g \in Page
  BY FreeIsFresh
<1>3. PICK s \in Space :
        /\ SetSpace(p, s) /\ s.ktab = w.ktab /\ s.pte = w.pte
        /\ Pages(s) = Pages(w) \cup {g} /\ Distinct(s)
  <2> DEFINE s == [w EXCEPT !.tab[t] = g]
  <2>1. /\ s \in Space /\ s.ktab = w.ktab /\ s.pte = w.pte
        /\ \A x \in Entry : PageAt(s, x) = IF x = <<"tab", t>> THEN g ELSE PageAt(w, x)
    BY <1>2, SetTab
  <2>2. SetSpace(p, s)
    BY <1>1
  <2> HIDE DEF s
  <2>3. <<"tab", t>> \in Entry /\ PageAt(w, <<"tab", t>>) = 0
    BY <1>1, EntriesDiffer, PageAtIs
  <2>4. Pages(s) = Pages(w) \cup {g} /\ Distinct(s)
    BY <1>2, <1>d, <2>1, <2>3, PutPage
  <2> QED BY <2>1, <2>2, <2>4
<1>4. /\ as' \in [Proc -> Space] /\ wk' \in [Proc -> Space]
      /\ \A q \in Proc : Len(as'[q].ktab) <= KTables /\ Len(wk'[q].ktab) <= KTables
      /\ \A q \in Proc : q # p => as'[q] = as[q] /\ wk'[q] = wk[q]
      /\ op[p] = "sbrk" => as'[p] = s /\ wk' = wk /\ w = as[p]
      /\ op[p] # "sbrk" => wk'[p] = s /\ as' = as /\ w = wk[p]
      /\ DistinctSpaces'
  BY <1>3, <1>d, SpaceSet
<1>5. TypeOK'
  <2>1. free' \subseteq Page
    BY <1>1 DEF IInv, TypeOK
  <2> QED BY <1>1, <1>4, <2>1 DEF IInv, TypeOK
<1>6. ForkInv'
  BY <1>1, ForksKept
<1>7. PagesPartitioned'
  <2>1. CASE op[p] = "sbrk"
    <3>1. \A i \in Holder : i # <<"as", p>> => held'[i] = held[i]
      BY <1>1, <1>4, <2>1, OneHolder
    <3>2. held'[<<"as", p>>] = held[<<"as", p>>] \cup {g}
      BY <1>3, <1>4, <2>1, HeldIs, HeldIsNext
    <3> QED BY <1>1, <1>4, <3>1, <3>2, TakePages, HolderIs
  <2>2. CASE op[p] # "sbrk"
    <3>1. \A i \in Holder : i # <<"wk", p>> => held'[i] = held[i]
      BY <1>1, <1>4, <2>2, OneHolder
    <3>2. held'[<<"wk", p>>] = held[<<"wk", p>>] \cup {g}
      BY <1>3, <1>4, <2>2, HeldIs, HeldIsNext
    <3> QED BY <1>1, <1>4, <3>1, <3>2, TakePages, HolderIs
  <2> QED BY <2>1, <2>2
<1>8. ProcInv(p)'
  <2>0. ProcInv(p) /\ op[p] # "none" /\ state[p] = "live" /\ InLoop(p)
    BY <1>a DEF IInv, ProcInv, CallOf, InLoop
  <2>1. CallOf(p)'
    BY <1>1, <1>4, <2>0 DEF ProcInv, CallOf
  <2>2. SlotOf(p)' /\ SizeOf(p)'
    BY <1>1, <1>4, <2>0 DEF ProcInv, SlotOf, SizeOf
  <2>3. \A u \in Vpn : (s.pte[u] # 0) <=> (u * PGSIZE < at[p])
    BY <1>3, <1>d, <2>0 DEF ProcInv, LoopOf
  <2>4. space(p)' = s
    BY <1>1, <1>4 DEF space
  <2>5. LoopOf(p)'
    BY <1>1, <1>a, <2>0, <2>3, <2>4 DEF ProcInv, LoopOf, InLoop
  <2> QED BY <2>1, <2>2, <2>5 DEF ProcInv
<1>9. \A q \in Proc : q # p => Same(q)
  BY <1>1, <1>4 DEF Same
<1> QED BY <1>5, <1>6, <1>7, <1>8, <1>9, OthersKept

-----------------------------------------------------------------------------
(***************************************************************************)
(* Steps that move pages from one holder to another.                       *)
(***************************************************************************)

\* The pages of the holder h go to the holder i.
LEMMA MovePages ==
  ASSUME IInv, NEW h \in Holder, NEW i \in Holder, h # i, free' = free,
         DistinctSpaces', held'[h] = {}, held'[i] = held[i] \cup held[h],
         \A j \in Holder : j # h /\ j # i => held'[j] = held[j]
  PROVE  PagesPartitioned'
<1>1. Moves(held, held', h, i)
  BY DEF Moves
<1>2. Partition(free, held)
  BY IInvPages
<1>3. Partition(free, held')
  BY <1>1, <1>2, Move
<1> QED BY <1>3, PartitionNext

\* Only the address spaces and the page in hand of p change.
LEMMA TwoHolders ==
  ASSUME NEW p \in Proc, NEW K \in {"as", "wk"}, kstack' = kstack,
         K # "as" => as'[p] = as[p], K # "wk" => wk'[p] = wk[p],
         \A q \in Proc : q # p => /\ mem'[q] = mem[q] /\ as'[q] = as[q]
                                  /\ wk'[q] = wk[q]
  PROVE  \A i \in Holder : i # <<"mem", p>> /\ i # <<K, p>> => held'[i] = held[i]
<1> SUFFICES ASSUME NEW i \in Holder, i # <<"mem", p>>, i # <<K, p>>
             PROVE  held'[i] = held[i]
  OBVIOUS
<1>1. CASE i = <<"kstack", p>>
  BY <1>1, HeldIs, HeldIsNext
<1>2. CASE i = <<"as", p>>
  BY <1>2, HeldIs, HeldIsNext
<1>3. CASE i = <<"wk", p>>
  BY <1>3, HeldIs, HeldIsNext
<1> QED BY <1>1, <1>2, <1>3, HeldNext

\* The page in hand is in no address space.
LEMMA MemIsFresh ==
  ASSUME IInv, NEW p \in Proc, mem[p] # 0
  PROVE  /\ mem[p] \in Page /\ mem[p] \notin Pages(as[p])
         /\ mem[p] \notin Pages(wk[p]) /\ held[<<"mem", p>>] = {mem[p]}
<1>1. mem[p] \in Page
  BY DEF IInv, TypeOK
<1>2. held[<<"mem", p>>] = {mem[p]}
  BY HeldIs
<1>3. /\ held[<<"mem", p>>] \cap held[<<"as", p>>] = {}
      /\ held[<<"mem", p>>] \cap held[<<"wk", p>>] = {}
  BY IInvPages, HolderIs, HoldersDiffer DEF Partition
<1>4. held[<<"as", p>>] = Pages(as[p]) /\ held[<<"wk", p>>] = Pages(wk[p])
  BY HeldIs
<1> QED BY <1>1, <1>2, <1>3, <1>4

\* mappages enters the page.
LEMMA LoopMapInv ==
  ASSUME IInv, NEW p \in Proc, LoopMap(p)
  PROVE  IInv'
<1>a. pc[p] = "map"
  BY DEF LoopMap
<1>b. PICK v \in Vpn : /\ at[p] = v * PGSIZE /\ at[p] \div PGSIZE = v
                       /\ Np(from[p]) <= v /\ v < Np(to[p]) /\ space(p).pte[v] = 0
  BY <1>a, LoopAt
<1>c. PICK g \in Page : g = mem[p] /\ g # 0 /\ held[<<"mem", p>>] = {g}
  BY <1>a, MemIsFresh DEF IInv, ProcInv, CallOf
<1>d. PICK w \in Space : /\ w = space(p) /\ Distinct(w) /\ g \notin Pages(w)
                         /\ Len(w.ktab) <= KTables
  BY <1>c, MemIsFresh, IInvPages DEF space, IInv, TypeOK
<1>1. /\ SetSpace(p, [w EXCEPT !.pte[v] = g]) /\ mem' = [mem EXCEPT ![p] = 0]
      /\ at' = [at EXCEPT ![p] = @ + PGSIZE] /\ pc' = [pc EXCEPT ![p] = "page"]
      /\ UNCHANGED <<free, state, parent, kstack, sz, op, from, to, rest, child,
                     calls>>
  BY <1>b, <1>c, <1>d DEF LoopMap
<1>3. PICK s \in Space :
        /\ SetSpace(p, s) /\ s.ktab = w.ktab
        /\ \A u \in Vpn : s.pte[u] = IF u = v THEN g ELSE w.pte[u]
        /\ Pages(s) = Pages(w) \cup {g} /\ Distinct(s)
  <2> DEFINE s == [w EXCEPT !.pte[v] = g]
  <2>1. /\ s \in Space /\ s.ktab = w.ktab
        /\ \A u \in Vpn : s.pte[u] = IF u = v THEN g ELSE w.pte[u]
        /\ \A x \in Entry : PageAt(s, x) = IF x = <<"pte", v>> THEN g ELSE PageAt(w, x)
    BY SetPte
  <2>2. SetSpace(p, s)
    BY <1>1
  <2> HIDE DEF s
  <2>3. <<"pte", v>> \in Entry /\ PageAt(w, <<"pte", v>>) = 0
    BY <1>b, <1>d, EntriesDiffer, PageAtIs
  <2>4. Pages(s) = Pages(w) \cup {g} /\ Distinct(s)
    BY <1>d, <2>1, <2>3, PutPage
  <2> QED BY <2>1, <2>2, <2>4
<1>4. /\ as' \in [Proc -> Space] /\ wk' \in [Proc -> Space]
      /\ \A q \in Proc : Len(as'[q].ktab) <= KTables /\ Len(wk'[q].ktab) <= KTables
      /\ \A q \in Proc : q # p => as'[q] = as[q] /\ wk'[q] = wk[q]
      /\ op[p] = "sbrk" => as'[p] = s /\ wk' = wk /\ w = as[p]
      /\ op[p] # "sbrk" => wk'[p] = s /\ as' = as /\ w = wk[p]
      /\ DistinctSpaces'
  BY <1>3, <1>d, SpaceSet
<1>5. /\ mem'[p] = 0 /\ pc'[p] = "page" /\ at'[p] = (v + 1) * PGSIZE
      /\ \A q \in Proc : q # p => mem'[q] = mem[q] /\ pc'[q] = pc[q] /\ at'[q] = at[q]
      /\ at' \in [Proc -> Nat]
  <2>1. (v + 1) * PGSIZE = at[p] + PGSIZE /\ (v + 1) * PGSIZE \in Nat
    BY <1>b, Multiples, PageOf DEF Vpn
  <2> QED BY <1>1, <2>1 DEF IInv, TypeOK
<1>6. TypeOK'
  <2>1. /\ mem' \in [Proc -> Page \cup {0}]
        /\ pc' \in [Proc -> {"user", "kstack", "kvm", "segment", "page", "map",
                             "commit"}]
    BY <1>1 DEF IInv, TypeOK
  <2> QED BY <1>1, <1>4, <1>5, <2>1 DEF IInv, TypeOK
<1>7. ForkInv'
  BY <1>1, <1>5, <1>a, ForksKept
<1>8. PagesPartitioned'
  <2>0. held'[<<"mem", p>>] = {}
    BY <1>5, HeldIsNext
  <2>1. CASE op[p] = "sbrk"
    <3>1. \A i \in Holder : i # <<"mem", p>> /\ i # <<"as", p>> => held'[i] = held[i]
      BY <1>1, <1>4, <1>5, <2>1, TwoHolders
    <3>2. held'[<<"as", p>>] = held[<<"as", p>>] \cup held[<<"mem", p>>]
      BY <1>3, <1>4, <1>c, <2>1, HeldIs, HeldIsNext
    <3>3. <<"mem", p>> # <<"as", p>>
      BY HoldersDiffer
    <3> QED BY <1>1, <1>4, <2>0, <3>1, <3>2, <3>3, MovePages, HolderIs
  <2>2. CASE op[p] # "sbrk"
    <3>1. \A i \in Holder : i # <<"mem", p>> /\ i # <<"wk", p>> => held'[i] = held[i]
      BY <1>1, <1>4, <1>5, <2>2, TwoHolders
    <3>2. held'[<<"wk", p>>] = held[<<"wk", p>>] \cup held[<<"mem", p>>]
      BY <1>3, <1>4, <1>c, <2>2, HeldIs, HeldIsNext
    <3>3. <<"mem", p>> # <<"wk", p>>
      BY HoldersDiffer
    <3> QED BY <1>1, <1>4, <2>0, <3>1, <3>2, <3>3, MovePages, HolderIs
  <2> QED BY <2>1, <2>2
<1>9. ProcInv(p)'
  <2>0. ProcInv(p) /\ op[p] # "none" /\ state[p] = "live" /\ InLoop(p)
    BY <1>a DEF IInv, ProcInv, CallOf, InLoop
  <2>1. CallOf(p)'
    BY <1>1, <1>4, <1>5, <1>a, <2>0 DEF ProcInv, CallOf
  <2>2. SlotOf(p)' /\ SizeOf(p)'
    BY <1>1, <1>4, <2>0 DEF ProcInv, SlotOf, SizeOf
  <2>3. ASSUME NEW u \in Vpn PROVE (s.pte[u] # 0) <=> (u * PGSIZE < at'[p])
    <3>1. (w.pte[u] # 0) <=> (u * PGSIZE < v * PGSIZE)
      BY <1>b, <1>d, <2>0 DEF ProcInv, LoopOf
    <3>2. /\ (u * PGSIZE < v * PGSIZE) <=> u < v
          /\ (u * PGSIZE < (v + 1) * PGSIZE) <=> u < v + 1
      BY Multiples DEF Vpn
    <3>3. u < v + 1 <=> (u < v \/ u = v)
      BY DEF Vpn
    <3> QED BY <1>3, <1>5, <1>c, <3>1, <3>2, <3>3
  <2>4. space(p)' = s
    BY <1>1, <1>4 DEF space
  <2>5. \E k \in 0 .. NVpn : /\ at'[p] = k * PGSIZE
                             /\ Np(from[p]) <= k /\ k <= Np(to[p])
    <3>1. v + 1 \in 0 .. NVpn
      BY MemoryAssumption DEF Vpn
    <3>2. Np(from[p]) <= v + 1 /\ v + 1 <= Np(to[p])
      <4>1. Np(from[p]) \in Nat /\ Np(to[p]) \in Nat /\ v \in Nat
        BY RoundUp, RoundUpBounds DEF IInv, TypeOK, Vpn
      <4> QED BY <1>b, <4>1
    <3> QED BY <1>5, <3>1, <3>2
  <2>6. LoopOf(p)'
    BY <1>1, <1>5, <1>a, <2>0, <2>3, <2>4, <2>5 DEF ProcInv, LoopOf, InLoop
  <2> QED BY <2>1, <2>2, <2>6 DEF ProcInv
<1>10. \A q \in Proc : q # p => Same(q)
  BY <1>1, <1>4, <1>5 DEF Same
<1> QED BY <1>6, <1>7, <1>8, <1>9, <1>10, OthersKept

\* TypeOK of the calls, and a call that goes on as it was.
CallTypes ==
  /\ op \in [Proc -> {"none", "sbrk", "fork", "exec"}]
  /\ pc \in [Proc -> {"user", "kstack", "kvm", "segment", "page", "map", "commit"}]
  /\ wk \in [Proc -> Space] /\ \A q \in Proc : Len(wk[q].ktab) <= KTables
  /\ mem \in [Proc -> Page \cup {0}] /\ at \in [Proc -> Nat]
  /\ from \in [Proc -> Nat] /\ to \in [Proc -> 0 .. KERNBASE - 1]
  /\ rest \in [Proc -> Seq(Nat)] /\ child \in [Proc -> Proc \cup {0}]

CallKept(q) ==
  /\ op'[q] = op[q] /\ pc'[q] = pc[q] /\ wk'[q] = wk[q] /\ mem'[q] = mem[q]
  /\ at'[q] = at[q] /\ from'[q] = from[q] /\ to'[q] = to[q]
  /\ child'[q] = child[q]

\* A call returns.
LEMMA BackIs ==
  ASSUME TypeOK, NEW p \in Proc, Back(p)
  PROVE  /\ op'[p] = "none" /\ pc'[p] = "user" /\ wk'[p] = NoSpace /\ mem'[p] = 0
         /\ \A q \in Proc : q # p => CallKept(q)
         /\ CallTypes' /\ CallOf(p)' /\ LoopOf(p)'
<1>0. NoSpace \in Space /\ Len(NoSpace.ktab) <= KTables /\ 0 \in 0 .. KERNBASE - 1
  BY NoSpaceIs, MemoryAssumption, RoundUpBounds, PageSize
<1>1. /\ op' = [op EXCEPT ![p] = "none"] /\ pc' = [pc EXCEPT ![p] = "user"]
      /\ wk' = [wk EXCEPT ![p] = NoSpace] /\ mem' = [mem EXCEPT ![p] = 0]
      /\ at' = [at EXCEPT ![p] = 0] /\ from' = [from EXCEPT ![p] = 0]
      /\ to' = [to EXCEPT ![p] = 0] /\ rest' = [rest EXCEPT ![p] = << >>]
      /\ child' = [child EXCEPT ![p] = 0]
  BY DEF Back
<1> HIDE DEF NoSpace
<1>2. /\ op'[p] = "none" /\ pc'[p] = "user" /\ wk'[p] = NoSpace /\ mem'[p] = 0
      /\ to'[p] = 0
      /\ \A q \in Proc : q # p =>
           /\ op'[q] = op[q] /\ pc'[q] = pc[q] /\ wk'[q] = wk[q] /\ mem'[q] = mem[q]
           /\ at'[q] = at[q] /\ from'[q] = from[q] /\ to'[q] = to[q]
           /\ child'[q] = child[q]
  BY <1>1 DEF TypeOK
<1>3. /\ op' \in [Proc -> {"none", "sbrk", "fork", "exec"}]
      /\ pc' \in [Proc -> {"user", "kstack", "kvm", "segment", "page", "map",
                           "commit"}]
      /\ wk' \in [Proc -> Space] /\ mem' \in [Proc -> Page \cup {0}]
      /\ at' \in [Proc -> Nat] /\ from' \in [Proc -> Nat]
      /\ to' \in [Proc -> 0 .. KERNBASE - 1] /\ rest' \in [Proc -> Seq(Nat)]
      /\ child' \in [Proc -> Proc \cup {0}]
  BY <1>0, <1>1 DEF TypeOK
<1>4. \A q \in Proc : Len(wk'[q].ktab) <= KTables
  BY <1>0, <1>2 DEF TypeOK
<1>5. CallOf(p)'
  BY <1>2 DEF CallOf, NoSpace
<1>6. LoopOf(p)'
  <2>1. \A v \in Vpn : wk'[p].pte[v] = 0
    BY <1>2, NoSpaceIs
  <2> QED BY <1>2, <2>1 DEF LoopOf, InLoop
<1> QED BY <1>2, <1>3, <1>4, <1>5, <1>6 DEF CallTypes, CallKept

\* sbrk has grown the process.
LEMMA LoopDoneSbrk ==
  ASSUME IInv, NEW p \in Proc, LoopDone(p), op[p] = "sbrk"
  PROVE  IInv'
<1>1. /\ pc[p] = "page" /\ at[p] >= to[p] /\ sz' = [sz EXCEPT ![p] = to[p]] /\ Back(p)
      /\ UNCHANGED <<state, parent, as, free, kstack, calls>>
  BY DEF LoopDone
<1>2. /\ op'[p] = "none" /\ pc'[p] = "user" /\ wk'[p] = NoSpace /\ mem'[p] = 0
      /\ \A q \in Proc : q # p => CallKept(q)
  BY <1>1, BackIs DEF IInv
<1>3. CallTypes' /\ CallOf(p)' /\ LoopOf(p)'
  BY <1>1, BackIs DEF IInv
<1>4. /\ sz' \in [Proc -> 0 .. KERNBASE - 1] /\ sz'[p] = to[p]
      /\ \A q \in Proc : q # p => sz'[q] = sz[q]
  BY <1>1 DEF IInv, TypeOK
<1>5. TypeOK'
  BY <1>1, <1>3, <1>4 DEF IInv, TypeOK, CallTypes
<1>6. ForkInv'
  BY <1>1, <1>2, ForksKept DEF CallKept
<1>7. ProcInv(p) /\ wk[p] = NoSpace /\ mem[p] = 0 /\ InLoop(p)
  BY <1>1 DEF IInv, ProcInv, CallOf, InLoop
<1>8. PagesPartitioned'
  <2>1. wk' = wk /\ mem' = mem
    <3>1. wk \in [Proc -> Space] /\ mem \in [Proc -> Page \cup {0}]
      BY DEF IInv, TypeOK
    <3>2. \A q \in Proc : wk'[q] = wk[q] /\ mem'[q] = mem[q]
      BY <1>2, <1>7 DEF CallKept
    <3> QED BY <1>3, <3>1, <3>2 DEF CallTypes
  <2> QED BY <1>1, <2>1, PagesKept
<1>9. \A v \in Vpn : (as[p].pte[v] # 0) <=> (v * PGSIZE < to[p])
  BY <1>1, <1>7, LoopEnds DEF space
<1>10. SlotOf(p)' /\ SizeOf(p)'
  BY <1>1, <1>4, <1>7, <1>9 DEF ProcInv, SlotOf, SizeOf
<1>11. \A q \in Proc : q # p => Same(q)
  BY <1>1, <1>2, <1>4 DEF Same, CallKept
<1>12. ProcInv(p)'
  BY <1>3, <1>10 DEF ProcInv
<1> QED BY <1>5, <1>6, <1>8, <1>11, <1>12, OthersKept

\* fork has its child, which gets the space that copyuvm made.
LEMMA LoopDoneFork ==
  ASSUME IInv, NEW p \in Proc, LoopDone(p), op[p] = "fork"
  PROVE  IInv'
<1>1. /\ pc[p] = "page" /\ at[p] >= to[p]
      /\ as' = [as EXCEPT ![child[p]] = wk[p]]
      /\ sz' = [sz EXCEPT ![child[p]] = sz[p]]
      /\ state' = [state EXCEPT ![child[p]] = "live"]
      /\ parent' = [parent EXCEPT ![child[p]] = p] /\ Back(p)
      /\ UNCHANGED <<free, kstack, calls>>
  BY DEF LoopDone
<1>2. /\ op'[p] = "none" /\ pc'[p] = "user" /\ wk'[p] = NoSpace /\ mem'[p] = 0
      /\ \A q \in Proc : q # p => CallKept(q)
  BY <1>1, BackIs DEF IInv
<1>3. CallTypes' /\ CallOf(p)' /\ LoopOf(p)'
  BY <1>1, BackIs DEF IInv
<1>4. ProcInv(p) /\ state[p] = "live" /\ mem[p] = 0 /\ InLoop(p) /\ to[p] = sz[p]
  BY <1>1 DEF IInv, ProcInv, CallOf, LoopOf, InLoop
<1>5. PICK c \in Proc : /\ c = child[p] /\ c # p /\ state[c] = "embryo"
                        /\ kstack[c] # 0
  BY <1>1, <1>4 DEF IInv, ForkInv
<1>6. ProcInv(c) /\ as[c] = NoSpace /\ op[c] = "none"
  BY <1>5 DEF IInv, ProcInv, SlotOf, CallOf
<1>7. /\ as'[c] = wk[p] /\ sz'[c] = sz[p] /\ state'[c] = "live"
      /\ \A q \in Proc : q # c => as'[q] = as[q] /\ sz'[q] = sz[q] /\ state'[q] = state[q]
  BY <1>1, <1>5 DEF IInv, TypeOK
<1>8. TypeOK'
  <2>1. /\ as' \in [Proc -> Space] /\ sz' \in [Proc -> 0 .. KERNBASE - 1]
        /\ state' \in [Proc -> {"unused", "embryo", "live", "zombie"}]
        /\ parent' \in [Proc -> Proc \cup {0}]
    BY <1>1, <1>5 DEF IInv, TypeOK
  <2>2. \A q \in Proc : Len(as'[q].ktab) <= KTables
    BY <1>7 DEF IInv, TypeOK
  <2> QED BY <1>1, <1>3, <2>1, <2>2 DEF IInv, TypeOK, CallTypes
<1>9. ForkInv'
  <2>1. \A q \in Proc : op'[q] = "fork" => q # p /\ op[q] = "fork"
    BY <1>2 DEF CallKept
  <2>2. \A q \in Proc : op'[q] = "fork" => child[q] \in Proc /\ child[q] # c
    BY <1>5, <2>1 DEF IInv, ForkInv
  <2> QED BY <1>1, <1>2, <1>7, <2>1, <2>2, ForksKept DEF CallKept
<1>10. PagesPartitioned'
  <2>1. /\ held'[<<"wk", p>>] = {}
        /\ held'[<<"as", c>>] = held[<<"as", c>>] \cup held[<<"wk", p>>]
    <3>1. held'[<<"wk", p>>] = Pages(NoSpace) /\ held'[<<"as", c>>] = Pages(wk[p])
      BY <1>2, <1>7, HeldIsNext DEF CallKept
    <3>2. held[<<"as", c>>] = Pages(NoSpace) /\ held[<<"wk", p>>] = Pages(wk[p])
      BY <1>6, HeldIs
    <3> QED BY <3>1, <3>2, NoSpaceIs
  <2>2. mem' = mem
    <3>1. mem \in [Proc -> Page \cup {0}]
      BY DEF IInv, TypeOK
    <3>2. \A q \in Proc : mem'[q] = mem[q]
      BY <1>2, <1>4 DEF CallKept
    <3> QED BY <1>3, <3>1, <3>2 DEF CallTypes
  <2>3. ASSUME NEW j \in Holder, j # <<"wk", p>>, j # <<"as", c>>
        PROVE  held'[j] = held[j]
    <3>1. PICK q \in Proc :
            j \in {<<"kstack", q>>, <<"mem", q>>, <<"as", q>>, <<"wk", q>>}
      BY HolderIs
    <3>2. CASE j = <<"kstack", q>>
      BY <1>1, <3>2, HeldIs, HeldIsNext
    <3>3. CASE j = <<"mem", q>>
      BY <2>2, <3>3, HeldIs, HeldIsNext
    <3>4. CASE j = <<"as", q>>
      <4>1. q # c
        BY <2>3, <3>4
      <4>2. held[j] = Pages(as[q]) /\ held'[j] = Pages(as'[q])
        BY <3>4, HeldIs, HeldIsNext
      <4> QED BY <1>7, <4>1, <4>2
    <3>5. CASE j = <<"wk", q>>
      <4>1. q # p
        BY <2>3, <3>5
      <4>2. wk'[q] = wk[q]
        BY <1>2, <4>1 DEF CallKept
      <4>3. held'[<<"wk", q>>] = Pages(wk'[q]) /\ held[<<"wk", q>>] = Pages(wk[q])
        BY HeldIs, HeldIsNext
      <4> QED BY <3>5, <4>2, <4>3
    <3> QED BY <3>1, <3>2, <3>3, <3>4, <3>5
  <2>4. DistinctSpaces'
    <3>1. \A q \in Proc : Distinct(as'[q]) /\ Distinct(wk'[q])
      BY <1>2, <1>7, IInvPages, NoSpaceIs DEF CallKept
    <3> QED BY <3>1 DEF DistinctSpaces, Distinct
  <2>5. <<"wk", p>> # <<"as", c>> /\ <<"wk", p>> \in Holder /\ <<"as", c>> \in Holder
    BY HoldersDiffer, HolderIs
  <2> QED BY <1>1, <2>1, <2>3, <2>4, <2>5, MovePages
<1>11. ProcInv(p)'
  <2>1. as'[p] = as[p] /\ sz'[p] = sz[p] /\ state'[p] = state[p] /\ kstack'[p] = kstack[p]
    BY <1>1, <1>5, <1>7
  <2>2. SlotOf(p)' /\ SizeOf(p)'
    BY <1>4, <2>1 DEF ProcInv, SlotOf, SizeOf
  <2> QED BY <1>3, <2>2 DEF ProcInv
<1>12. ProcInv(c)'
  <2>1. /\ op'[c] = op[c] /\ pc'[c] = pc[c] /\ wk'[c] = wk[c] /\ mem'[c] = mem[c]
        /\ at'[c] = at[c] /\ from'[c] = from[c] /\ to'[c] = to[c]
    BY <1>2, <1>5 DEF CallKept
  <2>2. CallOf(c)'
    BY <1>6, <2>1 DEF ProcInv, CallOf
  <2>3. SlotOf(c)'
    BY <1>1, <1>5, <1>7 DEF SlotOf
  <2>4. \A v \in Vpn : (wk[p].pte[v] # 0) <=> (v * PGSIZE < sz[p])
    BY <1>1, <1>4, LoopEnds DEF space
  <2>5. SizeOf(c)'
    BY <1>7, <2>4 DEF SizeOf
  <2>6. LoopOf(c)'
    <3>1. pc[c] = "user"
      BY <1>6 DEF ProcInv, CallOf
    <3> QED BY <1>6, <2>1, <3>1 DEF ProcInv, LoopOf, InLoop
  <2> QED BY <2>2, <2>3, <2>5, <2>6 DEF ProcInv
<1>13. \A q \in Proc : q # p /\ q # c => Same(q)
  BY <1>1, <1>2, <1>7 DEF Same, CallKept
<1> QED BY <1>8, <1>9, <1>10, <1>11, <1>12, <1>13, OthersKept

\* exec has its segment or its stack.
LEMMA LoopDoneExec ==
  ASSUME IInv, NEW p \in Proc, LoopDone(p), op[p] = "exec"
  PROVE  IInv'
<1>1. /\ pc[p] = "page" /\ at[p] >= to[p]
      /\ UNCHANGED <<state, parent, as, sz, op, local, free, kstack, calls>>
  BY DEF LoopDone
<1>2. PICK n \in {"commit", "segment"} : pc' = [pc EXCEPT ![p] = n]
  BY DEF LoopDone
<1>3. pc'[p] = n /\ \A q \in Proc : q # p => pc'[q] = pc[q]
  BY <1>2 DEF IInv, TypeOK
<1>4. TypeOK'
  <2>1. pc' \in [Proc -> {"user", "kstack", "kvm", "segment", "page", "map", "commit"}]
    BY <1>2 DEF IInv, TypeOK
  <2> QED BY <1>1, <2>1 DEF IInv, TypeOK
<1>5. ProcInv(p) /\ InLoop(p) /\ n # "user" /\ n # "map" /\ n # "kstack" /\ n # "kvm"
      /\ n # "page"
  BY <1>1 DEF IInv, InLoop
<1>6. CallOf(p)'
  BY <1>1, <1>3, <1>5 DEF ProcInv, CallOf
<1>7. SizeOf(p)'
  BY <1>1, <1>5 DEF ProcInv, SizeOf
<1>8. LoopOf(p)'
  <2>1. \A v \in Vpn : (wk[p].pte[v] # 0) <=> (v * PGSIZE < to[p])
    BY <1>1, <1>5, LoopEnds DEF space
  <2> QED BY <1>1, <1>3, <1>5, <2>1 DEF LoopOf, InLoop
<1> QED BY <1>1, <1>3, <1>4, <1>5, <1>6, <1>7, <1>8, CallGoesOn

\* fork takes a slot.
LEMMA ForkStarts ==
  ASSUME IInv, NEW p \in Proc, Fork(p)
  PROVE  IInv'
<1>1. PICK c \in Proc : c = Min({q \in Proc : state[q] = "unused"}) /\ state[c] = "unused"
  BY MinUnused DEF Fork
<1>2. /\ MayCall(p) /\ child' = [child EXCEPT ![p] = c]
      /\ state' = [state EXCEPT ![c] = "embryo"]
      /\ op' = [op EXCEPT ![p] = "fork"] /\ pc' = [pc EXCEPT ![p] = "kstack"]
      /\ calls' = calls + 1
      /\ UNCHANGED <<free, parent, kstack, as, sz, wk, mem, at, from, to, rest>>
  BY <1>1 DEF Fork
<1>3. state[p] = "live" /\ pc[p] = "user" /\ op[p] = "none" /\ c # p
  BY <1>1, <1>2 DEF MayCall, IInv, ProcInv, CallOf
<1>4. /\ child'[p] = c /\ op'[p] = "fork" /\ pc'[p] = "kstack" /\ state'[c] = "embryo"
      /\ \A q \in Proc : q # p => child'[q] = child[q] /\ op'[q] = op[q] /\ pc'[q] = pc[q]
      /\ \A q \in Proc : q # c => state'[q] = state[q]
  BY <1>2 DEF IInv, TypeOK
<1>5. ProcInv(p) /\ ProcInv(c) /\ kstack[c] = 0 /\ op[c] = "none"
  BY <1>1 DEF IInv, ProcInv, SlotOf, CallOf
<1>6. TypeOK'
  <2>1. /\ op' \in [Proc -> {"none", "sbrk", "fork", "exec"}] /\ calls' \in Nat
        /\ pc' \in [Proc -> {"user", "kstack", "kvm", "segment", "page", "map",
                             "commit"}]
        /\ child' \in [Proc -> Proc \cup {0}]
        /\ state' \in [Proc -> {"unused", "embryo", "live", "zombie"}]
    BY <1>2 DEF IInv, TypeOK
  <2> QED BY <1>2, <2>1 DEF IInv, TypeOK
<1>7. ForkInv'
  <2>1. \A q \in Proc : q # p /\ op[q] = "fork" =>
          /\ child[q] \in Proc /\ child[q] # c /\ state[child[q]] = "embryo"
          /\ kstack[child[q]] = 0 <=> pc[q] = "kstack"
    BY <1>1 DEF IInv, ForkInv
  <2>2. \A q \in Proc : op'[q] = "fork" =>
          /\ child'[q] \in Proc /\ state'[child'[q]] = "embryo"
          /\ kstack'[child'[q]] = 0 <=> pc'[q] = "kstack"
    BY <1>2, <1>4, <1>5, <2>1
  <2>3. \A q, r \in Proc :
          op'[q] = "fork" /\ op'[r] = "fork" /\ child'[q] = child'[r] => q = r
    BY <1>4, <2>1 DEF IInv, ForkInv
  <2> QED BY <2>2, <2>3 DEF ForkInv
<1>8. PagesPartitioned'
  BY <1>2, PagesKept
<1>9. ProcInv(p)'
  <2>1. state'[p] = state[p]
    BY <1>3, <1>4
  <2>2. CallOf(p)'
    BY <1>2, <1>3, <1>4, <1>5, <2>1 DEF ProcInv, CallOf
  <2>3. SlotOf(p)' /\ SizeOf(p)'
    BY <1>2, <1>3, <1>5, <2>1 DEF ProcInv, SlotOf, SizeOf
  <2>4. LoopOf(p)'
    BY <1>2, <1>3, <1>4, <1>5 DEF ProcInv, LoopOf, InLoop
  <2> QED BY <2>2, <2>3, <2>4 DEF ProcInv
<1>10. ProcInv(c)'
  <2>0. op'[c] = op[c] /\ pc'[c] = pc[c]
    BY <1>3, <1>4
  <2>1. CallOf(c)'
    BY <1>2, <1>4, <1>5, <2>0 DEF ProcInv, CallOf
  <2>2. SlotOf(c)' /\ SizeOf(c)'
    BY <1>1, <1>2, <1>4, <1>5 DEF ProcInv, SlotOf, SizeOf
  <2>3. LoopOf(c)'
    <3>1. pc[c] = "user"
      BY <1>5 DEF ProcInv, CallOf
    <3> QED BY <1>2, <1>5, <2>0, <3>1 DEF ProcInv, LoopOf, InLoop
  <2> QED BY <2>1, <2>2, <2>3 DEF ProcInv
<1>11. \A q \in Proc : q # p /\ q # c => Same(q)
  BY <1>2, <1>4 DEF Same
<1> QED BY <1>6, <1>7, <1>8, <1>9, <1>10, <1>11, OthersKept

\* A process exits.
LEMMA ExitInv ==
  ASSUME IInv, NEW p \in Proc, Exit(p)
  PROVE  IInv'
<1>1. /\ state[p] = "live" /\ pc[p] = "user" /\ p # 1
      /\ state' = [state EXCEPT ![p] = "zombie"]
      /\ parent' = [q \in Proc |-> IF parent[q] = p THEN 1 ELSE parent[q]]
      /\ UNCHANGED <<free, kstack, as, sz, op, pc, local, calls>>
  BY DEF Exit
<1>2. state'[p] = "zombie" /\ \A q \in Proc : q # p => state'[q] = state[q]
  BY <1>1 DEF IInv, TypeOK
<1>3. TypeOK'
  <2>1. 1 \in Proc
    BY MemoryAssumption DEF Proc
  <2>2. /\ state' \in [Proc -> {"unused", "embryo", "live", "zombie"}]
        /\ parent' \in [Proc -> Proc \cup {0}]
    BY <1>1, <2>1 DEF IInv, TypeOK
  <2> QED BY <1>1, <2>2 DEF IInv, TypeOK
<1>4. ForkInv'
  <2>1. \A q \in Proc : op[q] = "fork" => child[q] \in Proc /\ child[q] # p
    BY <1>1 DEF IInv, ForkInv
  <2> QED BY <1>1, <1>2, <2>1, ForksKept
<1>5. PagesPartitioned'
  BY <1>1, PagesKept
<1>6. ProcInv(p) /\ op[p] = "none"
  BY <1>1 DEF IInv, ProcInv, CallOf
<1>7. ProcInv(p)'
  <2>1. CallOf(p)'
    BY <1>1, <1>6 DEF ProcInv, CallOf
  <2>2. SlotOf(p)' /\ SizeOf(p)'
    BY <1>1, <1>2, <1>6 DEF ProcInv, SlotOf, SizeOf
  <2>3. LoopOf(p)'
    BY <1>1, <1>6 DEF ProcInv, LoopOf, InLoop, space
  <2> QED BY <2>1, <2>2, <2>3 DEF ProcInv
<1>8. \A q \in Proc : q # p => Same(q)
  BY <1>1, <1>2 DEF Same
<1> QED BY <1>3, <1>4, <1>5, <1>7, <1>8, OthersKept

-----------------------------------------------------------------------------
(***************************************************************************)
(* Steps that give pages back.                                             *)
(***************************************************************************)

\* Three holders give all their pages.
LEMMA GiveThree ==
  ASSUME IInv, DistinctSpaces', NEW h \in Holder, NEW i \in Holder, NEW j \in Holder,
         held'[h] = {}, held'[i] = {}, held'[j] = {},
         \A k \in Holder : k # h /\ k # i /\ k # j => held'[k] = held[k],
         free' = free \cup (held[h] \cup held[i] \cup held[j])
  PROVE  PagesPartitioned'
<1> DEFINE A == held[h]
           B == held[i]
           C == held[j]
<1>1. \A k \in Holder : held'[k] \subseteq held[k]
  OBVIOUS
<1>2. \A k \in Holder : \A g : g \in held[k] \ held'[k] => g \in A \cup B \cup C
  OBVIOUS
<1>3. /\ \A g \in A : g \in held[h] \ held'[h]
      /\ \A g \in B : g \in held[i] \ held'[i]
      /\ \A g \in C : g \in held[j] \ held'[j]
  OBVIOUS
<1>4. \A g : g \in free' <=> g \in free \/ \E k \in Holder : g \in held[k] \ held'[k]
  BY <1>2, <1>3
<1>5. Gives(free, held, free', held')
  BY <1>1, <1>4 DEF Gives
<1>6. Partition(free, held)
  BY IInvPages
<1>7. Partition(free', held')
  BY <1>5, <1>6, Give
<1> QED BY <1>7, PartitionNext

\* The holder h gives all its pages, the set A, and the holder i the pages B.
LEMMA GiveTwo ==
  ASSUME IInv, DistinctSpaces', NEW h \in Holder, NEW i \in Holder, h # i,
         NEW A, NEW B, held[h] = A, held'[h] = {},
         B \subseteq held[i], held'[i] = held[i] \ B,
         \A k \in Holder : k # h /\ k # i => held'[k] = held[k],
         free' = free \cup A \cup B
  PROVE  PagesPartitioned'
<1>1. \A k \in Holder : held'[k] \subseteq held[k]
  OBVIOUS
<1>2. \A k \in Holder : \A g : g \in held[k] \ held'[k] => g \in A \cup B
  OBVIOUS
<1>3. /\ \A g \in A : g \in held[h] \ held'[h]
      /\ \A g \in B : g \in held[i] \ held'[i]
  OBVIOUS
<1>4. \A g : g \in free' <=> g \in free \/ \E k \in Holder : g \in held[k] \ held'[k]
  BY <1>2, <1>3
<1>5. Gives(free, held, free', held')
  BY <1>1, <1>4 DEF Gives
<1>6. Partition(free, held)
  BY IInvPages
<1>7. Partition(free', held')
  BY <1>5, <1>6, Give
<1> QED BY <1>7, PartitionNext

\* One holder gives the pages A.
LEMMA GiveSome ==
  ASSUME IInv, DistinctSpaces', NEW h \in Holder, NEW A, A \subseteq held[h],
         held'[h] = held[h] \ A, \A k \in Holder : k # h => held'[k] = held[k],
         free' = free \cup A
  PROVE  PagesPartitioned'
<1>1. \A k \in Holder : held'[k] \subseteq held[k]
  OBVIOUS
<1>2. \A g : g \in free' <=> g \in free \/ \E k \in Holder : g \in held[k] \ held'[k]
  OBVIOUS
<1>3. Gives(free, held, free', held')
  BY <1>1, <1>2 DEF Gives
<1>4. Partition(free, held)
  BY IInvPages
<1>5. Partition(free', held')
  BY <1>3, <1>4, Give
<1> QED BY <1>5, PartitionNext

\* sbrk gives pages back.
LEMMA SbrkShrinkInv ==
  ASSUME IInv, NEW p \in Proc, SbrkShrink(p)
  PROVE  IInv'
<1>0. PICK n \in Grow : LET new == Uint(sz[p] + n) IN
       /\ n < 0 /\ new < sz[p]
       /\ kfree(freed(as[p], sz[p], new))
       /\ as' = [as EXCEPT ![p] = shrunk(@, sz[p], new)]
       /\ sz' = IF new = 0 THEN sz ELSE [sz EXCEPT ![p] = new]
  BY DEF SbrkShrink
<1>a. sz[p] \in Nat /\ sz[p] < KERNBASE /\ n \in Int /\ KERNBASE \in Nat
  BY MemoryAssumption, RoundUpBounds DEF IInv, TypeOK
<1>b. PICK new \in Nat : new = Uint(sz[p] + n)
  BY <1>a, UintNat
<1>c. PICK old \in Nat : old = sz[p]
  BY <1>a
<1>d. PICK w \in Space : w = as[p] /\ Distinct(w) /\ Len(w.ktab) <= KTables
  BY IInvPages DEF IInv, TypeOK
<1>1. /\ new < old /\ free' = free \cup freed(w, old, new)
      /\ as' = [as EXCEPT ![p] = shrunk(w, old, new)]
      /\ sz' = IF new = 0 THEN sz ELSE [sz EXCEPT ![p] = new]
      /\ MayCall(p) /\ calls' = calls + 1
      /\ UNCHANGED <<state, parent, kstack, op, pc, local>>
  <2>1. as' = [as EXCEPT ![p] = shrunk(as[p], sz[p], Uint(sz[p] + n))]
    BY <1>0
  <2> QED BY <1>0, <1>b, <1>c, <1>d, <2>1 DEF SbrkShrink, kfree
<1>2. PICK s \in Space :
        /\ s = shrunk(w, old, new) /\ s.ktab = w.ktab /\ Distinct(s)
        /\ \A v \in Vpn : s.pte[v] = IF Np(new) <= v /\ v < Np(old) THEN 0 ELSE w.pte[v]
        /\ Pages(s) = Pages(w) \ freed(w, old, new)
        /\ freed(w, old, new) \subseteq Pages(w)
  BY <1>d, Shrunk
<1>3. as'[p] = s /\ \A q \in Proc : q # p => as'[q] = as[q] /\ sz'[q] = sz[q]
  BY <1>1, <1>2 DEF IInv, TypeOK
<1>4. /\ state[p] = "live" /\ pc[p] = "user" /\ op[p] = "none" /\ w.pte[0] # 0
      /\ ProcInv(p)
  BY <1>1, <1>d DEF MayCall, IInv, ProcInv, CallOf
<1>5. TypeOK'
  <2>1. sz' \in [Proc -> 0 .. KERNBASE - 1]
    <3>1. new \in 0 .. KERNBASE - 1 /\ sz \in [Proc -> 0 .. KERNBASE - 1]
      BY <1>1, <1>a, <1>c DEF IInv, TypeOK
    <3> QED BY <1>1, <3>1
  <2>2. as' \in [Proc -> Space] /\ calls' \in Nat
    <3>1. as \in [Proc -> Space] /\ calls \in Nat
      BY DEF IInv, TypeOK
    <3>2. as' = [as EXCEPT ![p] = s]
      BY <1>1, <1>2
    <3>3. as' \in [Proc -> Space]
      BY <3>1, <3>2
    <3>4. calls' = calls + 1
      BY <1>1
    <3> QED BY <3>1, <3>3, <3>4
  <2>3. \A q \in Proc : Len(as'[q].ktab) <= KTables
    BY <1>2, <1>3, <1>d DEF IInv, TypeOK
  <2>4. free' \subseteq Page
    <3>1. Pages(w) \subseteq Page
      BY PageAtType DEF Pages
    <3> QED BY <1>1, <1>2, <3>1 DEF IInv, TypeOK
  <2> QED BY <1>1, <2>1, <2>2, <2>3, <2>4 DEF IInv, TypeOK
<1>6. ForkInv'
  BY <1>1, ForksKept
<1>7. PagesPartitioned'
  <2>1. \A k \in Holder : k # <<"as", p>> => held'[k] = held[k]
    BY <1>1, <1>3, OneHolder
  <2>2. /\ held[<<"as", p>>] = Pages(w)
        /\ held'[<<"as", p>>] = held[<<"as", p>>] \ freed(w, old, new)
    BY <1>2, <1>3, <1>d, HeldIs, HeldIsNext
  <2>3. DistinctSpaces'
    <3>1. \A q \in Proc : q # p => as'[q] = as[q] /\ wk'[q] = wk[q]
      BY <1>1, <1>3
    <3>2. Distinct(wk'[p]) /\ Distinct(as'[p])
      <4>1. wk' = wk /\ Distinct(wk[p])
        BY <1>1, IInvPages
      <4> QED BY <1>2, <1>3, <4>1
    <3> QED BY <3>1, <3>2, DistinctNext
  <2>4. PICK A : A = freed(w, old, new)
    OBVIOUS
  <2>5. A \subseteq held[<<"as", p>>] /\ free' = free \cup A /\ <<"as", p>> \in Holder
    BY <1>1, <1>2, <2>2, <2>4, HolderIs
  <2>6. held'[<<"as", p>>] = held[<<"as", p>>] \ A
    BY <2>2, <2>4
  <2> QED BY <2>1, <2>3, <2>5, <2>6, GiveSome
<1>8. ProcInv(p)'
  <2>1. CallOf(p)' /\ SlotOf(p)'
    BY <1>1, <1>4 DEF ProcInv, CallOf, SlotOf
  <2>2. /\ Np(new) \in Nat /\ Np(old) \in Nat /\ Np(new) <= Np(old)
        /\ \A v \in Nat : (v * PGSIZE < new) <=> v < Np(new)
        /\ \A v \in Nat : (v * PGSIZE < old) <=> v < Np(old)
    BY <1>1, RoundUp, RoundUpBounds
  <2>3. \A v \in Vpn : (w.pte[v] # 0) <=> (v * PGSIZE < old)
    BY <1>4, <1>c, <1>d DEF ProcInv, SizeOf
  <2>4. \A v \in Vpn : v \in Nat
    BY DEF Vpn
  <2>5. \A v \in Vpn : (s.pte[v] # 0) <=> v < Np(new)
    BY <1>2, <2>2, <2>3, <2>4
  <2>6. SizeOf(p)'
    <3>1. CASE new = 0
      <4>1. 0 \in Vpn /\ ~(0 * PGSIZE < new)
        BY <3>1, MemoryAssumption, PageSize DEF Vpn
      <4>2. s.pte[0] = 0
        BY <2>2, <2>4, <2>5, <4>1
      <4> QED BY <1>3, <4>2 DEF SizeOf
    <3>2. CASE new # 0
      <4>1. sz'[p] = new
        BY <1>1, <3>2 DEF IInv, TypeOK
      <4>2. \A v \in Vpn : (s.pte[v] # 0) <=> (v * PGSIZE < new)
        BY <2>2, <2>4, <2>5
      <4> QED BY <1>3, <4>1, <4>2 DEF SizeOf
    <3> QED BY <3>1, <3>2
  <2>7. LoopOf(p)'
    BY <1>1, <1>4 DEF ProcInv, LoopOf, InLoop
  <2> QED BY <2>1, <2>6, <2>7 DEF ProcInv
<1>9. \A q \in Proc : q # p => Same(q)
  BY <1>1, <1>3 DEF Same
<1> QED BY <1>5, <1>6, <1>7, <1>8, <1>9, OthersKept

\* The pages of an address space are pages.
LEMMA PagesType ==
  ASSUME NEW s \in Space
  PROVE  Pages(s) \subseteq Page
BY PageAtType DEF Pages

\* The page in hand is given back when a call returns.
LEMMA MemGiven ==
  ASSUME IInv, NEW p \in Proc, mem'[p] = 0
  PROVE  /\ held[<<"mem", p>>] = unmapped(p) /\ held'[<<"mem", p>>] = {}
         /\ unmapped(p) \subseteq Page
<1>1. held'[<<"mem", p>>] = {0} \ {0}
  BY HeldIsNext
<1>2. mem[p] \in Page \cup {0}
  BY DEF IInv, TypeOK
<1> QED BY <1>1, <1>2, HeldIs DEF unmapped

\* allocuvm takes back what it added.
LEMMA FailSbrk ==
  ASSUME IInv, NEW p \in Proc, Fail(p), op[p] = "sbrk"
  PROVE  IInv'
<1>a. to[p] \in Nat /\ from[p] \in Nat /\ ProcInv(p)
  BY RoundUpBounds DEF IInv, TypeOK
<1>b. PICK old \in Nat, new \in Nat : old = to[p] /\ new = from[p]
  BY <1>a
<1>c. PICK w \in Space : w = as[p] /\ Distinct(w) /\ Len(w.ktab) <= KTables
  BY IInvPages DEF IInv, TypeOK
<1>1. /\ free' = free \cup (unmapped(p) \cup freed(w, old, new) \cup {})
      /\ as' = [as EXCEPT ![p] = shrunk(w, old, new)] /\ Back(p)
      /\ UNCHANGED <<kstack, state, parent, sz, calls>>
  <2>1. as' = [as EXCEPT ![p] = shrunk(as[p], to[p], from[p])]
    BY DEF Fail
  <2> QED BY <1>b, <1>c, <2>1 DEF Fail, kfree
<1>2. PICK s \in Space :
        /\ s = shrunk(w, old, new) /\ s.ktab = w.ktab /\ Distinct(s)
        /\ \A v \in Vpn : s.pte[v] = IF Np(new) <= v /\ v < Np(old) THEN 0 ELSE w.pte[v]
        /\ Pages(s) = Pages(w) \ freed(w, old, new)
        /\ freed(w, old, new) \subseteq Pages(w)
  BY <1>c, Shrunk
<1>3. as' = [as EXCEPT ![p] = s] /\ as \in [Proc -> Space]
  BY <1>1, <1>2 DEF IInv, TypeOK
<1>4. as'[p] = s /\ as' \in [Proc -> Space] /\ \A q \in Proc : q # p => as'[q] = as[q]
  BY <1>3
<1>5. /\ op'[p] = "none" /\ pc'[p] = "user" /\ wk'[p] = NoSpace /\ mem'[p] = 0
      /\ \A q \in Proc : q # p => CallKept(q)
      /\ CallTypes' /\ CallOf(p)' /\ LoopOf(p)'
  BY <1>1, BackIs DEF IInv
<1>6. TypeOK'
  <2>1. free' \subseteq Page
    BY <1>1, <1>2, <1>5, PagesType, MemGiven DEF IInv, TypeOK
  <2>2. \A q \in Proc : Len(as'[q].ktab) <= KTables
    BY <1>2, <1>4, <1>c DEF IInv, TypeOK
  <2> QED BY <1>1, <1>4, <1>5, <2>1, <2>2 DEF IInv, TypeOK, CallTypes
<1>7. ForkInv'
  BY <1>1, <1>5, ForksKept DEF CallKept
<1>8. PagesPartitioned'
  <2>1. \A k \in Holder : k # <<"mem", p>> /\ k # <<"as", p>> => held'[k] = held[k]
    <3>1. wk'[p] = wk[p]
      BY <1>5, <1>a DEF ProcInv, CallOf
    <3> QED BY <1>1, <1>4, <1>5, <3>1, TwoHolders DEF CallKept
  <2>2. PICK A, B : A = unmapped(p) /\ B = freed(w, old, new)
    OBVIOUS
  <2>3. held[<<"mem", p>>] = A /\ held'[<<"mem", p>>] = {}
    BY <1>5, <2>2, MemGiven
  <2>4. /\ B \subseteq held[<<"as", p>>]
        /\ held'[<<"as", p>>] = held[<<"as", p>>] \ B
    BY <1>2, <1>4, <1>c, <2>2, HeldIs, HeldIsNext
  <2>5. DistinctSpaces'
    <3>1. \A q \in Proc : q # p => wk'[q] = wk[q]
      BY <1>5 DEF CallKept
    <3> QED BY <1>2, <1>4, <1>5, <3>1, NoSpaceIs, DistinctNext
  <2>6. /\ <<"as", p>> \in Holder /\ <<"mem", p>> \in Holder
        /\ <<"mem", p>> # <<"as", p>>
    BY HolderIs, HoldersDiffer
  <2>7. free' = free \cup A \cup B
    BY <1>1, <2>2
  <2> QED BY <2>1, <2>3, <2>4, <2>5, <2>6, <2>7, GiveTwo
<1>9. ProcInv(p)'
  <2>1. SlotOf(p)'
    BY <1>1, <1>a DEF ProcInv, SlotOf, CallOf
  <2>2. InLoop(p) /\ new = sz[p]
    BY <1>a, <1>b DEF IInv, TypeOK, ProcInv, CallOf, LoopOf, InLoop
  <2>3. PICK k \in 0 .. NVpn : /\ at[p] = k * PGSIZE
                               /\ Np(new) <= k /\ k <= Np(old)
    BY <1>a, <1>b, <2>2 DEF ProcInv, LoopOf
  <2>4. \A v \in Vpn : (w.pte[v] # 0) <=> (v * PGSIZE < k * PGSIZE)
    BY <1>a, <1>c, <2>2, <2>3 DEF ProcInv, LoopOf, space
  <2>5. /\ Np(new) \in Nat /\ Np(old) \in Nat /\ k \in Nat
        /\ \A v \in Nat : (v * PGSIZE < new) <=> v < Np(new)
    <3>1. k \in Nat
      BY MemoryAssumption
    <3> QED BY <3>1, RoundUp
  <2>6. ASSUME NEW v \in Vpn
        PROVE  v \in Nat /\ ((v * PGSIZE < k * PGSIZE) <=> v < k)
    <3>1. v \in Nat /\ v \in Int /\ k \in Int
      BY <2>5 DEF Vpn
    <3> QED BY <3>1, Multiples
  <2>7. \A v \in Vpn : (s.pte[v] # 0) <=> v < Np(new)
    BY <1>2, <2>3, <2>4, <2>5, <2>6
  <2>8. \A v \in Vpn : (s.pte[v] # 0) <=> (v * PGSIZE < sz[p])
    BY <2>2, <2>5, <2>6, <2>7
  <2>9. SizeOf(p)'
    BY <1>1, <1>4, <2>8 DEF SizeOf
  <2> QED BY <1>5, <2>1, <2>9 DEF ProcInv
<1>10. \A q \in Proc : q # p => Same(q)
  BY <1>1, <1>4, <1>5 DEF Same, CallKept
<1> QED BY <1>6, <1>7, <1>8, <1>9, <1>10, OthersKept

\* exec frees the space that it was building.
LEMMA FailExec ==
  ASSUME IInv, NEW p \in Proc, Fail(p), op[p] = "exec"
  PROVE  IInv'
<1>1. /\ free' = free \cup (unmapped(p) \cup Pages(wk[p]) \cup {}) /\ Back(p)
      /\ UNCHANGED <<as, kstack, state, parent, sz, calls>>
  BY DEF Fail, kfree, freevm
<1>2. ProcInv(p) /\ wk[p] \in Space
  BY IInvPages DEF IInv
<1>5. /\ op'[p] = "none" /\ pc'[p] = "user" /\ wk'[p] = NoSpace /\ mem'[p] = 0
      /\ \A q \in Proc : q # p => CallKept(q)
      /\ CallTypes' /\ CallOf(p)' /\ LoopOf(p)'
  BY <1>1, BackIs DEF IInv
<1>6. TypeOK'
  <2>1. free' \subseteq Page
    BY <1>1, <1>2, <1>5, PagesType, MemGiven DEF IInv, TypeOK
  <2> QED BY <1>1, <1>5, <2>1 DEF IInv, TypeOK, CallTypes
<1>7. ForkInv'
  BY <1>1, <1>5, ForksKept DEF CallKept
<1>8. PagesPartitioned'
  <2>1. \A k \in Holder : k # <<"mem", p>> /\ k # <<"wk", p>> => held'[k] = held[k]
    BY <1>1, <1>5, TwoHolders DEF CallKept
  <2>2. PICK A, B : A = unmapped(p) /\ B = Pages(wk[p])
    OBVIOUS
  <2>3. held[<<"mem", p>>] = A /\ held'[<<"mem", p>>] = {}
    BY <1>5, <2>2, MemGiven
  <2>4. /\ B \subseteq held[<<"wk", p>>]
        /\ held'[<<"wk", p>>] = held[<<"wk", p>>] \ B
    <3>1. held[<<"wk", p>>] = B
      BY <2>2, HeldIs
    <3>2. held'[<<"wk", p>>] = {}
      BY <1>5, HeldIsNext, NoSpaceIs
    <3> QED BY <3>1, <3>2
  <2>5. DistinctSpaces'
    <3>1. \A q \in Proc : q # p => wk'[q] = wk[q]
      BY <1>5 DEF CallKept
    <3> QED BY <1>1, <1>5, <3>1, IInvPages, NoSpaceIs, DistinctNext
  <2>6. /\ <<"mem", p>> \in Holder /\ <<"wk", p>> \in Holder
        /\ <<"mem", p>> # <<"wk", p>>
    BY HolderIs, HoldersDiffer
  <2>7. free' = free \cup A \cup B
    BY <1>1, <2>2
  <2> QED BY <2>1, <2>3, <2>4, <2>5, <2>6, <2>7, GiveTwo
<1>9. ProcInv(p)'
  <2>1. SlotOf(p)' /\ SizeOf(p)'
    BY <1>1, <1>2 DEF ProcInv, SlotOf, SizeOf
  <2> QED BY <1>5, <2>1 DEF ProcInv
<1>10. \A q \in Proc : q # p => Same(q)
  BY <1>1, <1>5 DEF Same, CallKept
<1> QED BY <1>6, <1>7, <1>8, <1>9, <1>10, OthersKept

\* fork frees the space, and the kernel stack and the slot of the child.
LEMMA FailFork ==
  ASSUME IInv, NEW p \in Proc, Fail(p), op[p] = "fork"
  PROVE  IInv'
<1>0. ProcInv(p) /\ state[p] = "live" /\ wk[p] \in Space
  BY IInvPages DEF IInv, ProcInv, CallOf
<1>1. PICK c \in Proc : c = child[p] /\ c # p /\ state[c] = "embryo"
  BY <1>0 DEF IInv, ForkInv
<1>2. /\ free' = free \cup (unmapped(p) \cup Pages(wk[p]) \cup ({kstack[c]} \ {0}))
      /\ kstack' = [kstack EXCEPT ![c] = 0]
      /\ state' = [state EXCEPT ![c] = "unused"] /\ Back(p)
      /\ UNCHANGED <<as, parent, sz, calls>>
  BY <1>1 DEF Fail, kfree, freevm
<1>3. /\ kstack'[c] = 0 /\ state'[c] = "unused"
      /\ \A q \in Proc : q # c => kstack'[q] = kstack[q] /\ state'[q] = state[q]
  BY <1>2 DEF IInv, TypeOK
<1>4. ProcInv(c) /\ as[c] = NoSpace /\ op[c] = "none" /\ kstack[c] \in Page \cup {0}
  BY <1>1 DEF IInv, ProcInv, SlotOf, CallOf, TypeOK
<1>5. /\ op'[p] = "none" /\ pc'[p] = "user" /\ wk'[p] = NoSpace /\ mem'[p] = 0
      /\ \A q \in Proc : q # p => CallKept(q)
      /\ CallTypes' /\ CallOf(p)' /\ LoopOf(p)'
  BY <1>2, BackIs DEF IInv
<1>6. TypeOK'
  <2>1. free' \subseteq Page
    BY <1>0, <1>2, <1>4, <1>5, PagesType, MemGiven DEF IInv, TypeOK
  <2>2. /\ kstack' \in [Proc -> Page \cup {0}]
        /\ state' \in [Proc -> {"unused", "embryo", "live", "zombie"}]
    BY <1>2 DEF IInv, TypeOK
  <2> QED BY <1>2, <1>5, <2>1, <2>2 DEF IInv, TypeOK, CallTypes
<1>7. ForkInv'
  <2>1. \A q \in Proc : op'[q] = "fork" => q # p /\ CallKept(q)
    BY <1>5
  <2>2. \A q \in Proc : op'[q] = "fork" => child[q] \in Proc /\ child[q] # c
    BY <1>1, <2>1 DEF IInv, ForkInv, CallKept
  <2> QED BY <1>3, <2>1, <2>2, ForksKept DEF CallKept
<1>8. PagesPartitioned'
  <2>2. held[<<"mem", p>>] = unmapped(p) /\ held'[<<"mem", p>>] = {}
    BY <1>5, MemGiven
  <2>3. held[<<"wk", p>>] = Pages(wk[p]) /\ held'[<<"wk", p>>] = {}
    <3>1. held[<<"wk", p>>] = Pages(wk[p])
      BY HeldIs
    <3>2. held'[<<"wk", p>>] = {}
      BY <1>5, HeldIsNext, NoSpaceIs
    <3> QED BY <3>1, <3>2
  <2>4. held[<<"kstack", c>>] = {kstack[c]} \ {0} /\ held'[<<"kstack", c>>] = {}
    <3>1. held'[<<"kstack", c>>] = {0} \ {0}
      BY <1>3, HeldIsNext
    <3> QED BY <3>1, HeldIs
  <2>5. ASSUME NEW k \in Holder, k # <<"mem", p>>, k # <<"wk", p>>, k # <<"kstack", c>>
        PROVE  held'[k] = held[k]
    <3>1. PICK q \in Proc :
            k \in {<<"kstack", q>>, <<"mem", q>>, <<"as", q>>, <<"wk", q>>}
      BY HolderIs
    <3>2. /\ held'[<<"kstack", q>>] = {kstack'[q]} \ {0}
          /\ held'[<<"mem", q>>] = {mem'[q]} \ {0}
          /\ held'[<<"as", q>>] = Pages(as'[q])
          /\ held'[<<"wk", q>>] = Pages(wk'[q])
      BY HeldIsNext
    <3>3. /\ held[<<"kstack", q>>] = {kstack[q]} \ {0}
          /\ held[<<"mem", q>>] = {mem[q]} \ {0}
          /\ held[<<"as", q>>] = Pages(as[q])
          /\ held[<<"wk", q>>] = Pages(wk[q])
      BY HeldIs
    <3>4. CASE k = <<"kstack", q>>
      <4>1. kstack'[q] = kstack[q]
        BY <1>3, <2>5, <3>4
      <4> QED BY <3>2, <3>3, <3>4, <4>1
    <3>5. CASE k = <<"mem", q>>
      <4>1. mem'[q] = mem[q]
        BY <1>5, <2>5, <3>5 DEF CallKept
      <4> QED BY <3>2, <3>3, <3>5, <4>1
    <3>6. CASE k = <<"as", q>>
      BY <1>2, <3>2, <3>3, <3>6
    <3>7. CASE k = <<"wk", q>>
      <4>1. wk'[q] = wk[q]
        BY <1>5, <2>5, <3>7 DEF CallKept
      <4> QED BY <3>2, <3>3, <3>7, <4>1
    <3> QED BY <3>1, <3>4, <3>5, <3>6, <3>7
  <2>6. DistinctSpaces'
    <3>1. \A q \in Proc : q # p => wk'[q] = wk[q]
      BY <1>5 DEF CallKept
    <3> QED BY <1>2, <1>5, <3>1, IInvPages, NoSpaceIs, DistinctNext
  <2>7. PICK h \in Holder, i \in Holder, j \in Holder :
          h = <<"mem", p>> /\ i = <<"wk", p>> /\ j = <<"kstack", c>>
    BY HolderIs
  <2>8. /\ free' = free \cup (held[h] \cup held[i] \cup held[j])
        /\ held'[h] = {} /\ held'[i] = {} /\ held'[j] = {}
    BY <1>2, <2>2, <2>3, <2>4, <2>7
  <2>9. \A k \in Holder : k # h /\ k # i /\ k # j => held'[k] = held[k]
    BY <2>5, <2>7
  <2> QED BY <2>6, <2>8, <2>9, GiveThree
<1>9. ProcInv(p)'
  <2>1. kstack'[p] = kstack[p] /\ state'[p] = state[p]
    BY <1>1, <1>3
  <2>2. SlotOf(p)' /\ SizeOf(p)'
    BY <1>0, <1>2, <2>1 DEF ProcInv, SlotOf, SizeOf
  <2> QED BY <1>5, <2>2 DEF ProcInv
<1>10. ProcInv(c)'
  <2>1. CallKept(c)
    BY <1>1, <1>5
  <2>2. CallOf(c)'
    BY <1>4, <2>1 DEF ProcInv, CallOf, CallKept
  <2>3. SlotOf(c)'
    BY <1>2, <1>3, <1>4 DEF SlotOf, NoSpace
  <2>4. SizeOf(c)'
    BY <1>3 DEF SizeOf
  <2>5. LoopOf(c)'
    <3>1. pc[c] = "user"
      BY <1>4 DEF ProcInv, CallOf
    <3> QED BY <1>4, <2>1, <3>1 DEF ProcInv, LoopOf, InLoop, CallKept
  <2> QED BY <2>2, <2>3, <2>4, <2>5 DEF ProcInv
<1>11. \A q \in Proc : q # p /\ q # c => Same(q)
  BY <1>2, <1>3, <1>5 DEF Same, CallKept
<1> QED BY <1>6, <1>7, <1>8, <1>9, <1>10, <1>11, OthersKept

\* A call that fails.
LEMMA FailInv ==
  ASSUME IInv, NEW p \in Proc, Fail(p), pc[p] # "user"
  PROVE  IInv'
<1>1. op[p] \in {"sbrk", "fork", "exec"}
  BY DEF IInv, TypeOK, ProcInv, CallOf
<1> QED BY <1>1, FailSbrk, FailFork, FailExec

\* wait frees a child.
LEMMA WaitInv ==
  ASSUME IInv, NEW p \in Proc, Wait(p)
  PROVE  IInv'
<1>1. PICK c \in Proc :
        /\ state[c] = "zombie" /\ kfree(wait_frees(c))
        /\ kstack' = [kstack EXCEPT ![c] = 0] /\ as' = [as EXCEPT ![c] = NoSpace]
        /\ sz' = [sz EXCEPT ![c] = 0] /\ state' = [state EXCEPT ![c] = "unused"]
        /\ parent' = [parent EXCEPT ![c] = 0]
  BY DEF Wait
<1>2. UNCHANGED <<op, pc, local, calls>>
  BY DEF Wait
<1>3. NoSpace \in Space /\ Len(NoSpace.ktab) <= KTables /\ 0 \in 0 .. KERNBASE - 1
  BY NoSpaceIs, MemoryAssumption, RoundUpBounds, PageSize
<1>4. /\ ProcInv(c) /\ op[c] = "none" /\ kstack[c] \in Page /\ kstack[c] # 0
      /\ as[c] \in Space
  <2>1. ProcInv(c) /\ op[c] = "none" /\ kstack[c] # 0
    BY <1>1 DEF IInv, ProcInv, CallOf, SlotOf
  <2> QED BY <2>1, IInvPages DEF IInv, TypeOK
<1>5. /\ kstack'[c] = 0 /\ as'[c] = NoSpace /\ state'[c] = "unused"
      /\ \A q \in Proc : q # c => /\ kstack'[q] = kstack[q] /\ as'[q] = as[q]
                                  /\ sz'[q] = sz[q] /\ state'[q] = state[q]
  BY <1>1 DEF IInv, TypeOK
<1>6. TypeOK'
  <2>1. free' \subseteq Page
    BY <1>1, <1>4, PagesType DEF IInv, TypeOK, kfree, wait_frees, freevm
  <2>2. /\ kstack' \in [Proc -> Page \cup {0}]
        /\ state' \in [Proc -> {"unused", "embryo", "live", "zombie"}]
        /\ parent' \in [Proc -> Proc \cup {0}]
    BY <1>1 DEF IInv, TypeOK
  <2>3. as' \in [Proc -> Space] /\ sz' \in [Proc -> 0 .. KERNBASE - 1]
    <3>1. as \in [Proc -> Space] /\ sz \in [Proc -> 0 .. KERNBASE - 1]
      BY DEF IInv, TypeOK
    <3> HIDE DEF NoSpace
    <3> QED BY <1>1, <1>3, <3>1
  <2>4. \A q \in Proc : Len(as'[q].ktab) <= KTables
    BY <1>3, <1>5 DEF IInv, TypeOK
  <2> QED BY <1>2, <2>1, <2>2, <2>3, <2>4 DEF IInv, TypeOK
<1>7. ForkInv'
  <2>1. \A q \in Proc : op[q] = "fork" => child[q] \in Proc /\ child[q] # c
    BY <1>1 DEF IInv, ForkInv
  <2> QED BY <1>2, <1>5, <2>1, ForksKept
<1>8. PagesPartitioned'
  <2>1. PICK A, B : A = {kstack[c]} /\ B = Pages(as[c])
    OBVIOUS
  <2>2. held[<<"kstack", c>>] = A /\ held'[<<"kstack", c>>] = {}
    <3>1. held'[<<"kstack", c>>] = {0} \ {0}
      BY <1>5, HeldIsNext
    <3>2. held[<<"kstack", c>>] = {kstack[c]} \ {0}
      BY HeldIs
    <3> QED BY <1>4, <2>1, <3>1, <3>2
  <2>3. /\ B \subseteq held[<<"as", c>>]
        /\ held'[<<"as", c>>] = held[<<"as", c>>] \ B
    <3>1. held[<<"as", c>>] = B
      BY <2>1, HeldIs
    <3>2. held'[<<"as", c>>] = {}
      BY <1>5, HeldIsNext, NoSpaceIs
    <3> QED BY <3>1, <3>2
  <2>4. ASSUME NEW k \in Holder, k # <<"kstack", c>>, k # <<"as", c>>
        PROVE  held'[k] = held[k]
    <3>1. PICK q \in Proc :
            k \in {<<"kstack", q>>, <<"mem", q>>, <<"as", q>>, <<"wk", q>>}
      BY HolderIs
    <3>2. CASE q = c
      BY <1>2, <2>4, <3>1, <3>2, HeldIs, HeldIsNext
    <3>3. CASE q # c
      <4>1. kstack'[q] = kstack[q] /\ mem'[q] = mem[q] /\ as'[q] = as[q] /\ wk'[q] = wk[q]
        BY <1>2, <1>5, <3>3
      <4>2. /\ held'[<<"kstack", q>>] = {kstack'[q]} \ {0}
            /\ held'[<<"mem", q>>] = {mem'[q]} \ {0}
            /\ held'[<<"as", q>>] = Pages(as'[q])
            /\ held'[<<"wk", q>>] = Pages(wk'[q])
        BY HeldIsNext
      <4>3. /\ held[<<"kstack", q>>] = {kstack[q]} \ {0}
            /\ held[<<"mem", q>>] = {mem[q]} \ {0}
            /\ held[<<"as", q>>] = Pages(as[q])
            /\ held[<<"wk", q>>] = Pages(wk[q])
        BY HeldIs
      <4> QED BY <3>1, <4>1, <4>2, <4>3
    <3> QED BY <3>2, <3>3
  <2>5. DistinctSpaces'
    BY <1>2, <1>5, IInvPages, NoSpaceIs, DistinctNext
  <2>6. /\ <<"kstack", c>> \in Holder /\ <<"as", c>> \in Holder
        /\ <<"kstack", c>> # <<"as", c>>
    BY HolderIs, HoldersDiffer
  <2>7. free' = free \cup A \cup B
    BY <1>1, <2>1 DEF kfree, wait_frees, freevm
  <2> QED BY <2>2, <2>3, <2>4, <2>5, <2>6, <2>7, GiveTwo
<1>9. ProcInv(c)'
  <2>1. CallOf(c)'
    BY <1>2, <1>4 DEF ProcInv, CallOf
  <2>2. SlotOf(c)' /\ SizeOf(c)'
    BY <1>5 DEF SlotOf, SizeOf, NoSpace
  <2>3. LoopOf(c)'
    <3>1. pc[c] = "user"
      BY <1>4 DEF ProcInv, CallOf
    <3> QED BY <1>2, <1>4, <3>1 DEF ProcInv, LoopOf, InLoop
  <2> QED BY <2>1, <2>2, <2>3 DEF ProcInv
<1>10. \A q \in Proc : q # c => Same(q)
  BY <1>2, <1>5 DEF Same
<1> QED BY <1>6, <1>7, <1>8, <1>9, <1>10, OthersKept

\* The pages of the holder h go to the free list, and those of i to h.
LEMMA Replace ==
  ASSUME IInv, DistinctSpaces', NEW h \in Holder, NEW i \in Holder, h # i,
         held'[h] = held[i], held'[i] = {}, free' = free \cup held[h],
         \A j \in Holder : j # h /\ j # i => held'[j] = held[j]
  PROVE  PagesPartitioned'
<1>1. /\ free \cup UNION {held[j] : j \in Holder} = Page
      /\ \A j \in Holder : held[j] \cap free = {}
      /\ \A j, k \in Holder : j # k => held[j] \cap held[k] = {}
  BY IInvPages DEF Partition
<1>2. free' \cup UNION {held'[j] : j \in Holder} = Page
  <2>1. \A q : q \in free' \cup UNION {held'[j] : j \in Holder} <=>
               q \in free \cup UNION {held[j] : j \in Holder}
    OBVIOUS
  <2> QED BY <1>1, <2>1
<1>3. \A j \in Holder : held'[j] \cap free' = {}
  BY <1>1
<1>4. \A j, k \in Holder : j # k => held'[j] \cap held'[k] = {}
  BY <1>1
<1>5. Partition(free', held')
  BY <1>2, <1>3, <1>4 DEF Partition
<1> QED BY <1>5, PartitionNext

\* exec replaces the address space.
LEMMA ExecCommitInv ==
  ASSUME IInv, NEW p \in Proc, ExecCommit(p)
  PROVE  IInv'
<1>1. /\ pc[p] = "commit" /\ as' = [as EXCEPT ![p] = wk[p]]
      /\ sz' = [sz EXCEPT ![p] = to[p]] /\ free' = free \cup Pages(as[p]) /\ Back(p)
      /\ UNCHANGED <<state, parent, kstack, calls>>
  BY DEF ExecCommit, kfree, exec_frees, freevm
<1>2. /\ ProcInv(p) /\ state[p] = "live" /\ mem[p] = 0 /\ as[p] \in Space
      /\ wk[p] \in Space
  BY <1>1, IInvPages DEF IInv, ProcInv, CallOf
<1>3. /\ as'[p] = wk[p] /\ sz'[p] = to[p]
      /\ \A q \in Proc : q # p => as'[q] = as[q] /\ sz'[q] = sz[q]
  BY <1>1 DEF IInv, TypeOK
<1>4. /\ op'[p] = "none" /\ pc'[p] = "user" /\ wk'[p] = NoSpace /\ mem'[p] = 0
      /\ \A q \in Proc : q # p => CallKept(q)
      /\ CallTypes' /\ CallOf(p)' /\ LoopOf(p)'
  BY <1>1, BackIs DEF IInv
<1>5. TypeOK'
  <2>1. free' \subseteq Page
    BY <1>1, <1>2, PagesType DEF IInv, TypeOK
  <2>2. as' \in [Proc -> Space] /\ sz' \in [Proc -> 0 .. KERNBASE - 1]
    BY <1>1 DEF IInv, TypeOK
  <2>3. \A q \in Proc : Len(as'[q].ktab) <= KTables
    BY <1>3 DEF IInv, TypeOK
  <2> QED BY <1>1, <1>4, <2>1, <2>2, <2>3 DEF IInv, TypeOK, CallTypes
<1>6. ForkInv'
  BY <1>1, <1>4, ForksKept DEF CallKept
<1>7. PagesPartitioned'
  <2>1. PICK h \in Holder, i \in Holder : h = <<"as", p>> /\ i = <<"wk", p>> /\ h # i
    BY HolderIs, HoldersDiffer
  <2>2. held'[h] = held[i] /\ free' = free \cup held[h]
    BY <1>1, <1>3, <2>1, HeldIs, HeldIsNext
  <2>3. held'[i] = {}
    BY <1>4, <2>1, HeldIsNext, NoSpaceIs
  <2>4. ASSUME NEW j \in Holder, j # h, j # i PROVE held'[j] = held[j]
    <3>1. CASE j = <<"kstack", p>>
      BY <1>1, <3>1, HeldIs, HeldIsNext
    <3>2. CASE j = <<"mem", p>>
      BY <1>2, <1>4, <3>2, HeldIs, HeldIsNext
    <3>3. CASE j # <<"kstack", p>> /\ j # <<"mem", p>>
      BY <1>1, <1>3, <1>4, <2>1, <2>4, <3>3, HeldNext DEF CallKept
    <3> QED BY <3>1, <3>2, <3>3
  <2>5. DistinctSpaces'
    <3>1. \A q \in Proc : q # p => wk'[q] = wk[q]
      BY <1>4 DEF CallKept
    <3> QED BY <1>3, <1>4, <3>1, IInvPages, NoSpaceIs, DistinctNext
  <2> QED BY <2>1, <2>2, <2>3, <2>4, <2>5, Replace
<1>8. ProcInv(p)'
  <2>1. SlotOf(p)'
    BY <1>1, <1>2 DEF ProcInv, SlotOf
  <2>2. \A v \in Vpn : (wk[p].pte[v] # 0) <=> (v * PGSIZE < to[p])
    BY <1>1, <1>2 DEF ProcInv, LoopOf
  <2>3. SizeOf(p)'
    BY <1>3, <2>2 DEF SizeOf
  <2> QED BY <1>4, <2>1, <2>3 DEF ProcInv
<1>9. \A q \in Proc : q # p => Same(q)
  BY <1>1, <1>3, <1>4 DEF Same, CallKept
<1> QED BY <1>5, <1>6, <1>7, <1>8, <1>9, OthersKept

-----------------------------------------------------------------------------
(***************************************************************************)
(* The invariant.                                                          *)
(***************************************************************************)

\* userinit: the address space of the first process.
LEMMA InitSpace ==
  ASSUME NEW s, s = [dir |-> 2, ktab |-> [k \in 1 .. KTables |-> 2 + k],
             tab |-> [t \in Table |-> IF t = 0 THEN KTables + 3 ELSE 0],
             pte |-> [v \in Vpn |-> IF v = 0 THEN KTables + 4 ELSE 0]]
  PROVE  /\ s \in Space /\ Len(s.ktab) = KTables /\ Distinct(s)
         /\ Pages(s) = 2 .. KTables + 4
         /\ \A v \in Vpn : (s.pte[v] # 0) <=> v = 0
<1>0. /\ KTables \in Nat /\ NPage \in Nat /\ NPage >= KTables + 4
      /\ 0 \in Vpn /\ Vpn \subseteq Nat
  BY MemoryAssumption DEF Vpn
<1>1. 0 \in Table
  <2>1. 0 \div PerTable = 0
    <3> DEFINE n == PerTable
    <3>1. n \in Nat /\ n > 0
      BY MemoryAssumption
    <3> HIDE DEF n
    <3>2. 0 \div n = 0
      BY <3>1, SMT
    <3> QED BY <3>2 DEF n
  <2> QED BY <1>0, <2>1, TableOf
<1>2. /\ s.dir = 2 /\ s.ktab = [k \in 1 .. KTables |-> 2 + k]
      /\ \A t \in Table : s.tab[t] = IF t = 0 THEN KTables + 3 ELSE 0
      /\ \A v \in Vpn : s.pte[v] = IF v = 0 THEN KTables + 4 ELSE 0
  OBVIOUS
<1>3. 2 .. KTables + 4 \subseteq Page
  BY <1>0 DEF Page
<1>4. s.ktab \in Seq(Page) /\ Len(s.ktab) = KTables
  <2>1. \A k \in 1 .. KTables : 2 + k \in Page
    BY <1>0 DEF Page
  <2>2. s.ktab \in [1 .. KTables -> Page]
    BY <1>2, <2>1
  <2>3. s.ktab \in Seq(Page)
    BY <1>0, <2>2, SeqDef
  <2>4. DOMAIN s.ktab = 1 .. KTables
    BY <1>2
  <2>5. DOMAIN s.ktab = 1 .. Len(s.ktab) /\ Len(s.ktab) \in Nat
    BY <2>3, LenProperties
  <2>6. Len(s.ktab) = KTables
    BY <1>0, <2>4, <2>5
  <2> QED BY <2>3, <2>6
<1>5. s \in Space
  <2>1. 2 \in Page /\ KTables + 3 \in Page /\ KTables + 4 \in Page
    BY <1>0, <1>3
  <2> QED BY <1>4, <2>1 DEF Space
<1>6. /\ PageAt(s, <<"dir", 0>>) = 2
      /\ \A k \in 1 .. KTables : PageAt(s, <<"ktab", k>>) = 2 + k
      /\ \A t \in Table : PageAt(s, <<"tab", t>>) = IF t = 0 THEN KTables + 3 ELSE 0
      /\ \A v \in Vpn : PageAt(s, <<"pte", v>>) = IF v = 0 THEN KTables + 4 ELSE 0
  <2>1. PageAt(s, <<"dir", 0>>) = 2
    BY <1>2, PageAtIs
  <2>2. ASSUME NEW k \in 1 .. KTables PROVE PageAt(s, <<"ktab", k>>) = 2 + k
    <3>1. k \in DOMAIN s.ktab /\ s.ktab[k] = 2 + k
      BY <1>2
    <3> QED BY <3>1, PageAtIs
  <2>3. \A t \in Table : PageAt(s, <<"tab", t>>) = IF t = 0 THEN KTables + 3 ELSE 0
    <3>1. \A t : PageAt(s, <<"tab", t>>) = s.tab[t]
      BY PageAtIs
    <3> QED BY <1>2, <3>1
  <2>4. \A v \in Vpn : PageAt(s, <<"pte", v>>) = IF v = 0 THEN KTables + 4 ELSE 0
    <3>1. \A v : PageAt(s, <<"pte", v>>) = s.pte[v]
      BY PageAtIs
    <3> QED BY <1>2, <3>1
  <2> QED BY <2>1, <2>2, <2>3, <2>4
<1>7. ASSUME NEW x \in Entry, NEW g, g = PageAt(s, x), g # 0
      PROVE  \/ x = <<"dir", 0>> /\ g = 2
             \/ \E k \in 1 .. KTables : x = <<"ktab", k>> /\ g = 2 + k
             \/ x = <<"tab", 0>> /\ g = KTables + 3
             \/ x = <<"pte", 0>> /\ g = KTables + 4
  <2>1. CASE x = <<"dir", 0>>
    BY <1>6, <1>7, <2>1
  <2>2. ASSUME NEW k \in 1 .. KTables, x = <<"ktab", k>> PROVE g = 2 + k
    BY <1>6, <1>7, <2>2
  <2>3. ASSUME NEW t \in Table, x = <<"tab", t>> PROVE t = 0 /\ g = KTables + 3
    BY <1>6, <1>7, <2>3
  <2>4. ASSUME NEW v \in Vpn, x = <<"pte", v>> PROVE v = 0 /\ g = KTables + 4
    BY <1>6, <1>7, <2>4
  <2> QED BY <2>1, <2>2, <2>3, <2>4, EntryIs
<1>8. Distinct(s)
  <2>1. ASSUME NEW x \in Entry, NEW y \in Entry, PageAt(s, x) # 0,
               PageAt(s, y) = PageAt(s, x)
        PROVE  y = x
    <3>1. PICK g : g = PageAt(s, x) /\ g = PageAt(s, y) /\ g # 0
      BY <2>1
    <3>2. \/ x = <<"dir", 0>> /\ g = 2
          \/ \E k \in 1 .. KTables : x = <<"ktab", k>> /\ g = 2 + k
          \/ x = <<"tab", 0>> /\ g = KTables + 3
          \/ x = <<"pte", 0>> /\ g = KTables + 4
      BY <1>7, <3>1
    <3>3. \/ y = <<"dir", 0>> /\ g = 2
          \/ \E k \in 1 .. KTables : y = <<"ktab", k>> /\ g = 2 + k
          \/ y = <<"tab", 0>> /\ g = KTables + 3
          \/ y = <<"pte", 0>> /\ g = KTables + 4
      BY <1>7, <3>1
    <3>4. \A k, l \in 1 .. KTables : /\ 2 + k = 2 + l => k = l
                                     /\ 2 + k # 2 /\ 2 + k # KTables + 3
                                     /\ 2 + k # KTables + 4
      BY <1>0
    <3>5. 2 # KTables + 3 /\ 2 # KTables + 4 /\ KTables + 3 # KTables + 4
      BY <1>0
    <3> QED BY <3>2, <3>3, <3>4, <3>5
  <2> QED BY <2>1 DEF Distinct
<1>9. Pages(s) = 2 .. KTables + 4
  <2>1. ASSUME NEW g \in Pages(s) PROVE g \in 2 .. KTables + 4
    <3>1. PICK x \in Entry : g = PageAt(s, x) /\ g # 0
      BY DEF Pages
    <3>2. \/ g = 2 \/ g = KTables + 3 \/ g = KTables + 4
          \/ \E k \in 1 .. KTables : g = 2 + k
      BY <1>7, <3>1
    <3> QED BY <1>0, <3>2
  <2>2. ASSUME NEW g, g # 0, NEW x \in Entry, PageAt(s, x) = g PROVE g \in Pages(s)
    BY <2>2 DEF Pages
  <2>3. ASSUME NEW g \in 2 .. KTables + 4 PROVE g \in Pages(s)
    <3>1. g # 0 /\ (g = 2 \/ g - 2 \in 1 .. KTables \/ g = KTables + 3 \/ g = KTables + 4)
      BY <1>0
    <3>2. CASE g = 2
      BY <1>6, <2>2, <3>1, <3>2, EntriesDiffer
    <3>3. CASE g - 2 \in 1 .. KTables
      <4>1. PICK k \in 1 .. KTables : k = g - 2 /\ g = 2 + k
        BY <1>0, <3>3
      <4> QED BY <1>6, <2>2, <3>1, <4>1, EntriesDiffer
    <3>4. CASE g = KTables + 3
      <4>1. PageAt(s, <<"tab", 0>>) = g /\ <<"tab", 0>> \in Entry
        BY <1>1, <1>6, <3>4, EntriesDiffer
      <4> QED BY <2>2, <3>1, <4>1
    <3>5. CASE g = KTables + 4
      <4>1. PageAt(s, <<"pte", 0>>) = g /\ <<"pte", 0>> \in Entry
        BY <1>0, <1>6, <3>5, EntriesDiffer
      <4> QED BY <2>2, <3>1, <4>1
    <3> QED BY <3>1, <3>2, <3>3, <3>4, <3>5
  <2> QED BY <2>1, <2>3
<1>10. \A v \in Vpn : (s.pte[v] # 0) <=> v = 0
  BY <1>0, <1>2
<1> QED BY <1>4, <1>5, <1>8, <1>9, <1>10

LEMMA InitInv ==
  ASSUME Init
  PROVE  IInv
<1> DEFINE s1 == [dir |-> 2, ktab |-> [k \in 1 .. KTables |-> 2 + k],
                  tab |-> [t \in Table |-> IF t = 0 THEN KTables + 3 ELSE 0],
                  pte |-> [v \in Vpn |-> IF v = 0 THEN KTables + 4 ELSE 0]]
<1>0. /\ KTables \in Nat /\ NPage \in Nat /\ NPage >= KTables + 4 /\ 1 \in Proc
      /\ 0 \notin Proc /\ 1 \in Page
  BY MemoryAssumption DEF Proc, Page
<1>1. /\ s1 \in Space /\ Len(s1.ktab) = KTables /\ Distinct(s1)
      /\ Pages(s1) = 2 .. KTables + 4 /\ \A v \in Vpn : (s1.pte[v] # 0) <=> v = 0
  BY InitSpace
<1>2. as = [q \in Proc |-> IF q # 1 THEN NoSpace ELSE s1]
  BY DEF Init
<1> HIDE DEF s1, NoSpace
<1>3. /\ as[1] = s1 /\ \A q \in Proc : q # 1 => as[q] = NoSpace
      /\ \A q \in Proc : /\ state[q] = IF q = 1 THEN "live" ELSE "unused"
                         /\ kstack[q] = IF q = 1 THEN 1 ELSE 0
                         /\ sz[q] = IF q = 1 THEN PGSIZE ELSE 0
                         /\ op[q] = "none" /\ pc[q] = "user" /\ wk[q] = NoSpace
                         /\ mem[q] = 0 /\ to[q] = 0
  BY <1>0, <1>2 DEF Init
<1>4. TypeOK
  <2>1. /\ NoSpace \in Space /\ 0 \in 0 .. KERNBASE - 1 /\ PGSIZE \in 0 .. KERNBASE - 1
        /\ Len(NoSpace.ktab) = 0
    BY NoSpaceIs, RoundUpBounds, PageSize
  <2>2. as \in [Proc -> Space] /\ wk \in [Proc -> Space]
    BY <1>1, <1>2, <2>1 DEF Init
  <2>3. \A q \in Proc : Len(as[q].ktab) <= KTables /\ Len(wk[q].ktab) <= KTables
    <3>1. ASSUME NEW q \in Proc PROVE Len(wk[q].ktab) <= KTables
      BY <1>0, <1>3, <2>1
    <3>2. ASSUME NEW q \in Proc PROVE Len(as[q].ktab) <= KTables
      <4>1. CASE q = 1
        <5>1. as[q] = s1
          BY <1>3, <4>1
        <5>2. Len(as[q].ktab) = KTables
          BY <1>1, <5>1
        <5> QED BY <1>0, <5>2
      <4>2. CASE q # 1
        <5>1. as[q] = NoSpace
          BY <1>3, <4>2
        <5>2. Len(as[q].ktab) = 0
          BY <2>1, <5>1
        <5> QED BY <1>0, <5>2
      <4> QED BY <4>1, <4>2
    <3> QED BY <3>1, <3>2
  <2>4. /\ sz \in [Proc -> 0 .. KERNBASE - 1] /\ to \in [Proc -> 0 .. KERNBASE - 1]
    BY <2>1 DEF Init
  <2>5. /\ state \in [Proc -> {"unused", "embryo", "live", "zombie"}]
        /\ parent \in [Proc -> Proc \cup {0}]
        /\ kstack \in [Proc -> Page \cup {0}] /\ mem \in [Proc -> Page \cup {0}]
    BY <1>0 DEF Init
  <2>6. /\ op \in [Proc -> {"none", "sbrk", "fork", "exec"}]
        /\ pc \in [Proc -> {"user", "kstack", "kvm", "segment", "page", "map",
                            "commit"}]
        /\ at \in [Proc -> Nat] /\ from \in [Proc -> Nat]
        /\ rest \in [Proc -> Seq(Nat)] /\ child \in [Proc -> Proc \cup {0}]
        /\ calls \in Nat /\ free \subseteq Page
    BY DEF Init
  <2> QED BY <2>2, <2>3, <2>4, <2>5, <2>6 DEF TypeOK
<1>5. ForkInv
  BY <1>3 DEF ForkInv
<1>6. PagesPartitioned
  <2>1. /\ held[<<"kstack", 1>>] = {1} /\ held[<<"as", 1>>] = 2 .. KTables + 4
        /\ <<"kstack", 1>> \in Holder /\ <<"as", 1>> \in Holder
    <3>1. held[<<"kstack", 1>>] = {kstack[1]} \ {0} /\ kstack[1] = 1
      BY <1>0, <1>3, HeldIs
    <3>2. held[<<"as", 1>>] = Pages(as[1])
      BY <1>0, HeldIs
    <3>3. held[<<"as", 1>>] = 2 .. KTables + 4
      BY <1>1, <1>3, <3>2
    <3> QED BY <1>0, <3>1, <3>3, HolderIs
  <2>2. ASSUME NEW h \in Holder, h # <<"kstack", 1>>, h # <<"as", 1>>
        PROVE  held[h] = {}
    <3>1. PICK q \in Proc :
            h \in {<<"kstack", q>>, <<"mem", q>>, <<"as", q>>, <<"wk", q>>}
      BY HolderIs
    <3>0. /\ held[<<"kstack", q>>] = {kstack[q]} \ {0}
          /\ held[<<"mem", q>>] = {mem[q]} \ {0}
          /\ held[<<"as", q>>] = Pages(as[q])
          /\ held[<<"wk", q>>] = Pages(wk[q])
      BY HeldIs
    <3>2. held[<<"mem", q>>] = {} /\ held[<<"wk", q>>] = {}
      BY <1>3, <3>0, NoSpaceIs
    <3>3. q # 1 => held[<<"kstack", q>>] = {} /\ held[<<"as", q>>] = {}
      BY <1>3, <3>0, NoSpaceIs
    <3> QED BY <2>2, <3>1, <3>2, <3>3
  <2>3. free = {g \in Page : g > KTables + 4}
    BY DEF Init
  <2>4. \A g : g \in UNION {held[h] : h \in Holder} <=> g = 1 \/ g \in 2 .. KTables + 4
    <3>1. ASSUME NEW g, NEW h \in Holder, g \in held[h]
          PROVE  g = 1 \/ g \in 2 .. KTables + 4
      BY <2>1, <2>2, <3>1
    <3>2. /\ 1 \in held[<<"kstack", 1>>]
          /\ \A g \in 2 .. KTables + 4 : g \in held[<<"as", 1>>]
      BY <2>1
    <3> QED BY <2>1, <3>1, <3>2
  <2>5. \A g : g \in Page <=> g \in free \/ g = 1 \/ g \in 2 .. KTables + 4
    BY <1>0, <2>3 DEF Page
  <2>6. free \cup UNION {held[h] : h \in Holder} = Page
    BY <2>4, <2>5
  <2>7. {1} \cap free = {} /\ (2 .. KTables + 4) \cap free = {}
    BY <1>0, <2>3 DEF Page
  <2>8. \A h \in Holder : held[h] \cap free = {}
    BY <2>1, <2>2, <2>7
  <2>9. {1} \cap (2 .. KTables + 4) = {} /\ (2 .. KTables + 4) \cap {1} = {}
    BY <1>0
  <2>10. \A h, i \in Holder : h # i => held[h] \cap held[i] = {}
    BY <2>1, <2>2, <2>9
  <2>11. DistinctSpaces
    BY <1>1, <1>3, NoSpaceIs DEF DistinctSpaces
  <2>12. Partition(free, held)
    BY <2>6, <2>8, <2>10 DEF Partition
  <2> QED BY <2>11, <2>12, PartitionIs
<1>7. ASSUME NEW q \in Proc PROVE ProcInv(q)
  <2>1. CallOf(q)
    BY <1>3 DEF CallOf
  <2>2. SlotOf(q)
    BY <1>0, <1>3 DEF SlotOf
  <2>3. SizeOf(q)
    <3>1. CASE q = 1
      <4>1. ASSUME NEW v \in Vpn PROVE v = 0 <=> v * PGSIZE < PGSIZE
        <5>1. PICK k \in Int : k = 1
          OBVIOUS
        <5>2. v \in Nat /\ v \in Int /\ k * PGSIZE = PGSIZE
          BY <5>1, PageSize DEF Vpn
        <5>3. (v * PGSIZE < k * PGSIZE) <=> v < k
          BY <5>2, Multiples
        <5> QED BY <5>1, <5>2, <5>3
      <4> QED BY <1>1, <1>3, <3>1, <4>1 DEF SizeOf
    <3>2. CASE q # 1
      BY <1>3, <3>2 DEF SizeOf
    <3> QED BY <3>1, <3>2
  <2>4. LoopOf(q)
    BY <1>3, NoSpaceIs DEF LoopOf, InLoop
  <2> QED BY <2>1, <2>2, <2>3, <2>4 DEF ProcInv
<1> QED BY <1>4, <1>5, <1>6, <1>7 DEF IInv

\* A step that changes nothing.
LEMMA Stutter ==
  ASSUME IInv, UNCHANGED vars
  PROVE  IInv'
<1>1. TypeOK'
  BY DEF IInv, TypeOK, vars
<1>2. ForkInv'
  BY ForksKept DEF vars
<1>3. PagesPartitioned'
  BY PagesKept DEF vars
<1>4. \A q \in Proc : Same(q)
  BY DEF Same, vars
<1>5. \A q \in Proc : ProcInv(q)'
  BY <1>4, SameKept DEF IInv
<1> QED BY <1>1, <1>2, <1>3, <1>5 DEF IInv

\* Every step keeps the invariant.
LEMMA NextInv ==
  ASSUME IInv, [Next]_vars
  PROVE  IInv'
<1>1. CASE UNCHANGED vars
  BY <1>1, Stutter
<1>2. CASE Next
  <2>1. PICK p \in Proc : Step(p)
    BY <1>2 DEF Next
  <2>2. CASE Fail(p) /\ pc[p] # "user"
    BY <2>2, FailInv
  <2>3. CASE SbrkGrow(p)
    BY <2>3, SbrkGrowInv
  <2>4. CASE SbrkShrink(p)
    BY <2>4, SbrkShrinkInv
  <2>5. CASE Fork(p)
    BY <2>5, ForkStarts
  <2>6. CASE ForkStack(p)
    <3>1. free # {} \/ (Fail(p) /\ pc[p] # "user")
      BY <2>6 DEF ForkStack
    <3> QED BY <2>2, <2>6, <3>1, ForkStackInv
  <2>7. CASE Exec(p)
    BY <2>7, ExecInv
  <2>8. CASE Setupkvm(p)
    <3>1. free # {} \/ (Fail(p) /\ pc[p] # "user")
      BY <2>8 DEF Setupkvm
    <3> QED BY <2>2, <2>8, <3>1, SetupkvmInv
  <2>9. CASE SetupkvmDone(p)
    BY <2>9, SetupkvmDoneInv
  <2>10. CASE ExecSegment(p)
    <3>1. pc[p] # "user"
      BY <2>10 DEF ExecSegment
    <3> QED BY <2>2, <2>10, <3>1, ExecSegmentInv
  <2>11. CASE ExecBad(p)
    BY <2>2, <2>11 DEF ExecBad
  <2>12. CASE ExecStack(p)
    <3>1. pc[p] # "user"
      BY <2>12 DEF ExecStack
    <3> QED BY <2>2, <2>12, <3>1, ExecStackInv
  <2>13. CASE ExecCommit(p)
    BY <2>13, ExecCommitInv
  <2>14. CASE LoopPage(p)
    <3>1. free # {} \/ (Fail(p) /\ pc[p] # "user")
      BY <2>14 DEF LoopPage
    <3> QED BY <2>2, <2>14, <3>1, LoopPageInv
  <2>15. CASE LoopTable(p)
    <3>1. free # {} \/ (Fail(p) /\ pc[p] # "user")
      BY <2>15 DEF LoopTable
    <3> QED BY <2>2, <2>15, <3>1, LoopTableInv
  <2>16. CASE LoopMap(p)
    BY <2>16, LoopMapInv
  <2>17. CASE LoopDone(p)
    <3>1. op[p] = "sbrk" \/ op[p] = "fork" \/ op[p] = "exec"
      BY <2>17 DEF LoopDone
    <3> QED BY <2>17, <3>1, LoopDoneSbrk, LoopDoneFork, LoopDoneExec
  <2>18. CASE Exit(p)
    BY <2>18, ExitInv
  <2>19. CASE Wait(p)
    BY <2>19, WaitInv
  <2> QED BY <2>1, <2>3, <2>4, <2>5, <2>6, <2>7, <2>8, <2>9, <2>10, <2>11, <2>12,
             <2>13, <2>14, <2>15, <2>16, <2>17, <2>18, <2>19 DEF Step
<1> QED BY <1>1, <1>2

\* IInv is an invariant: for any number of processes and pages, and wherever a
\* kalloc fails.
THEOREM MemoryInvariant == Spec => []IInv
BY InitInv, NextInv, PTL DEF Spec

\* Every page is free or has exactly one use: kalloc never gives a page twice,
\* and growproc, exec, fork, copyuvm and wait give back every page they took
\* when they fail or end.
THEOREM PagesStayPartitioned == Spec => []PagesPartitioned
<1>1. IInv => PagesPartitioned
  BY DEF IInv
<1> QED BY <1>1, MemoryInvariant, PTL

\* The pages below the size of a process are mapped and no others: copyuvm's
\* panics are not reached.
THEOREM SizesAreMapped == Spec => []SizeMapped
<1>1. IInv => SizeMapped
  BY DEF IInv, ProcInv, SizeOf, SizeMapped
<1> QED BY <1>1, MemoryInvariant, PTL

-----------------------------------------------------------------------------
(***************************************************************************)
(* A process keeps its data.                                               *)
(***************************************************************************)

\* v is a page of the live process p, below its size before and after the step.
Kept(p, v) ==
  /\ state[p] = "live" /\ pc[p] # "commit"
  /\ v * PGSIZE < sz[p] /\ v * PGSIZE < sz'[p] /\ as'[p].pte[0] # 0

\* deallocuvm of sbrk.
LEMMA ShrinkKeeps ==
  ASSUME IInv, NEW q \in Proc, SbrkShrink(q), NEW p \in Proc, NEW v \in Vpn, Kept(p, v)
  PROVE  as'[p].pte[v] = as[p].pte[v]
<1>0. PICK n \in Grow : LET new == Uint(sz[q] + n) IN
       /\ new < sz[q]
       /\ as' = [as EXCEPT ![q] = shrunk(@, sz[q], new)]
       /\ sz' = IF new = 0 THEN sz ELSE [sz EXCEPT ![q] = new]
  BY DEF SbrkShrink
<1>1. sz[q] \in Nat /\ n \in Int
  BY MemoryAssumption, RoundUpBounds DEF IInv, TypeOK
<1>2. PICK new \in Nat, old \in Nat : new = Uint(sz[q] + n) /\ old = sz[q]
  BY <1>1, UintNat
<1>3. PICK w \in Space : w = as[q] /\ Distinct(w)
  BY IInvPages
<1>4. /\ as' = [as EXCEPT ![q] = shrunk(w, old, new)] /\ new < old
      /\ sz' = IF new = 0 THEN sz ELSE [sz EXCEPT ![q] = new]
  <2>1. as' = [as EXCEPT ![q] = shrunk(as[q], sz[q], Uint(sz[q] + n))]
    BY <1>0
  <2> QED BY <1>0, <1>2, <1>3, <2>1
<1>5. CASE p # q
  BY <1>4, <1>5 DEF IInv, TypeOK
<1>6. CASE p = q
  <2>1. PICK s \in Space :
          /\ s = shrunk(w, old, new)
          /\ \A u \in Vpn : s.pte[u] = IF Np(new) <= u /\ u < Np(old) THEN 0
                                       ELSE w.pte[u]
    BY <1>3, Shrunk
  <2>2. as'[p] = s
    BY <1>4, <1>6, <2>1 DEF IInv, TypeOK
  <2>3. /\ Np(new) \in Nat /\ Np(old) \in Nat
        /\ \A u \in Nat : (u * PGSIZE < new) <=> u < Np(new)
        /\ \A u \in Nat : (u * PGSIZE < old) <=> u < Np(old)
    BY RoundUp
  <2>4. v \in Nat /\ 0 \in Vpn /\ 0 * PGSIZE = 0
    BY MemoryAssumption, PageSize DEF Vpn
  <2>5. CASE new = 0
    <3>1. ~(0 < Np(new)) /\ 0 < Np(old)
      BY <1>4, <2>3, <2>4, <2>5
    <3>2. s.pte[0] = 0
      BY <2>1, <2>3, <2>4, <3>1
    <3> QED BY <2>2, <3>2 DEF Kept
  <2>6. CASE new # 0
    <3>1. sz'[p] = new
      BY <1>4, <1>6, <2>6 DEF IInv, TypeOK
    <3>2. v < Np(new)
      BY <2>3, <2>4, <3>1 DEF Kept
    <3>3. s.pte[v] = w.pte[v]
      BY <2>1, <2>3, <2>4, <3>2
    <3> QED BY <1>3, <1>6, <2>2, <3>3
  <2> QED BY <2>5, <2>6
<1> QED BY <1>5, <1>6

\* A call that fails.
LEMMA FailKeeps ==
  ASSUME IInv, NEW q \in Proc, Fail(q), NEW p \in Proc, NEW v \in Vpn, Kept(p, v)
  PROVE  as'[p].pte[v] = as[p].pte[v]
<1>1. CASE op[q] # "sbrk"
  BY <1>1 DEF Fail
<1>2. CASE op[q] = "sbrk"
  <2>1. to[q] \in Nat /\ from[q] \in Nat /\ from[q] = sz[q]
    BY <1>2, RoundUpBounds DEF IInv, TypeOK, ProcInv, LoopOf
  <2>2. PICK old \in Nat, new \in Nat : old = to[q] /\ new = from[q]
    BY <2>1
  <2>3. PICK w \in Space : w = as[q] /\ Distinct(w)
    BY IInvPages
  <2>4. as' = [as EXCEPT ![q] = shrunk(w, old, new)]
    <3>1. as' = [as EXCEPT ![q] = shrunk(as[q], to[q], from[q])]
      BY <1>2 DEF Fail
    <3> QED BY <2>2, <2>3, <3>1
  <2>5. CASE p # q
    BY <2>4, <2>5 DEF IInv, TypeOK
  <2>6. CASE p = q
    <3>1. PICK s \in Space :
            /\ s = shrunk(w, old, new)
            /\ \A u \in Vpn : s.pte[u] = IF Np(new) <= u /\ u < Np(old) THEN 0
                                         ELSE w.pte[u]
      BY <2>3, Shrunk
    <3>2. as'[p] = s
      BY <2>4, <2>6, <3>1 DEF IInv, TypeOK
    <3>3. v \in Nat
      BY DEF Vpn
    <3>4. v < Np(new) /\ Np(new) \in Nat
      BY <2>1, <2>2, <2>6, <3>3, RoundUp DEF Kept
    <3>5. s.pte[v] = w.pte[v]
      BY <3>1, <3>3, <3>4
    <3> QED BY <2>3, <2>6, <3>2, <3>5
  <2> QED BY <2>5, <2>6
<1> QED BY <1>1, <1>2

\* The loop of allocuvm: it maps pages above the size.
LEMMA LoopKeeps ==
  ASSUME IInv, NEW q \in Proc, LoopTable(q) \/ LoopMap(q), ~Fail(q),
         NEW p \in Proc, NEW v \in Vpn, Kept(p, v)
  PROVE  as'[p].pte[v] = as[p].pte[v]
<1>a. pc[q] = "map"
  BY DEF LoopTable, LoopMap
<1>0. PICK w \in Space : w = space(q)
  BY IInvPages DEF space
<1>1. PICK u \in Vpn : at[q] \div PGSIZE = u /\ Np(from[q]) <= u
  BY <1>a, LoopAt
<1>2. PICK s : SetSpace(q, s) /\ (\/ s = [w EXCEPT !.pte[u] = mem[q]]
                                  \/ \E t, g : s = [w EXCEPT !.tab[t] = g])
  BY <1>0, <1>1 DEF LoopTable, LoopMap
<1>3. CASE op[q] # "sbrk"
  BY <1>2, <1>3 DEF SetSpace
<1>4. CASE op[q] = "sbrk"
  <2>1. as' = [as EXCEPT ![q] = s] /\ w = as[q]
    BY <1>0, <1>2, <1>4 DEF SetSpace, space
  <2>2. CASE p # q
    BY <2>1, <2>2 DEF IInv, TypeOK
  <2>3. CASE p = q
    <3>1. as'[p] = s
      BY <2>1, <2>3 DEF IInv, TypeOK
    <3>2. from[q] = sz[q] /\ from[q] \in Nat
      BY <1>4 DEF IInv, TypeOK, ProcInv, LoopOf
    <3>3. v \in Nat /\ u \in Nat
      BY DEF Vpn
    <3>4. v < Np(from[q]) /\ Np(from[q]) \in Nat
      BY <2>3, <3>2, <3>3, RoundUp DEF Kept
    <3>5. v # u
      BY <1>1, <3>3, <3>4
    <3>6. s.pte[v] = w.pte[v]
      BY <1>2, <3>5 DEF Space
    <3> QED BY <2>1, <2>3, <3>1, <3>6
  <2> QED BY <2>2, <2>3
<1> QED BY <1>3, <1>4

\* No step takes a page of a live process, or puts another in its place.
LEMMA StepKeeps ==
  ASSUME IInv, Next, NEW p \in Proc, NEW v \in Vpn, Kept(p, v)
  PROVE  as'[p].pte[v] = as[p].pte[v]
<1>1. PICK q \in Proc : Step(q)
  BY DEF Next
<1>2. CASE Fail(q)
  BY <1>2, FailKeeps
<1>3. CASE SbrkShrink(q)
  BY <1>3, ShrinkKeeps
<1>4. CASE (LoopTable(q) \/ LoopMap(q)) /\ ~Fail(q)
  BY <1>4, LoopKeeps
<1>5. CASE ExecCommit(q)
  <2>1. q # p /\ as' = [as EXCEPT ![q] = wk[q]]
    BY <1>5 DEF ExecCommit, Kept
  <2> QED BY <2>1 DEF IInv, TypeOK
<1>6. CASE LoopDone(q)
  <2>1. CASE op[q] = "fork"
    <3>1. as' = [as EXCEPT ![child[q]] = wk[q]]
      BY <1>6, <2>1 DEF LoopDone
    <3>2. child[q] # p
      BY <2>1 DEF IInv, ForkInv, Kept
    <3> QED BY <3>1, <3>2 DEF IInv, TypeOK
  <2>2. CASE op[q] # "fork"
    BY <1>6, <2>2 DEF LoopDone
  <2> QED BY <2>1, <2>2
<1>7. CASE Wait(q)
  <2>1. PICK c \in Proc : state[c] = "zombie" /\ as' = [as EXCEPT ![c] = NoSpace]
    BY <1>7 DEF Wait
  <2>2. c # p
    BY <2>1 DEF Kept
  <2> QED BY <2>1, <2>2 DEF IInv, TypeOK
<1>8. CASE UNCHANGED as
  BY <1>8
<1>9. SbrkGrow(q) \/ Fork(q) \/ Exec(q) \/ SetupkvmDone(q) \/ Exit(q) => UNCHANGED as
  BY DEF SbrkGrow, Fork, Exec, SetupkvmDone, Exit
<1>10. ForkStack(q) \/ Setupkvm(q) \/ LoopPage(q) => UNCHANGED as \/ Fail(q)
  BY DEF ForkStack, Setupkvm, LoopPage
<1>11. ExecSegment(q) \/ ExecStack(q) \/ ExecBad(q) => UNCHANGED as \/ Fail(q)
  BY DEF ExecSegment, ExecStack, ExecBad
<1> QED BY <1>1, <1>2, <1>3, <1>4, <1>5, <1>6, <1>7, <1>8, <1>9, <1>10, <1>11
        DEF Step

\* A page of a live process below its size before and after a step stays the
\* same page: deallocuvm takes none of them, in sbrk and in an allocuvm that
\* fails, and no other process takes one.
THEOREM DataIsKept == Spec => DataStays
<1>1. ASSUME IInv, [Next]_vars
      PROVE  [\A p \in Proc : \A v \in Vpn :
                /\ state[p] = "live" /\ pc[p] # "commit"
                /\ v * PGSIZE < sz[p] /\ v * PGSIZE < sz'[p] /\ as'[p].pte[0] # 0
                => as'[p].pte[v] = as[p].pte[v]]_vars
  BY <1>1, StepKeeps DEF Kept
<1> QED BY <1>1, MemoryInvariant, PTL DEF Spec, DataStays

=============================================================================
