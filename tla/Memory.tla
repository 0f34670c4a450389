------------------------------- MODULE Memory -------------------------------
(***************************************************************************)
(* Physical pages and address spaces (srcs/kalloc.c, srcs/vm.c), and the   *)
(* calls that make, grow, copy, replace and free them: sbrk, exec, fork,   *)
(* exit and wait (srcs/exec.c, srcs/proc.c).                               *)
(*                                                                         *)
(* kalloc may fail, and several processes allocate at once: every kalloc   *)
(* is a step.  What a call gives back when it fails is given back in the   *)
(* step that fails.  Pages are alike, and their contents are not modelled. *)
(***************************************************************************)
EXTENDS Integers, Sequences, FiniteSetsExt

CONSTANTS NPROC,          \* slots for processes; 1 is init
          NPage,          \* pages of memory
          PGSIZE,         \* bytes of a page
          NVpn,           \* user pages of an address space; KERNBASE is above
          PerTable,       \* entries of a page table
          KTables,        \* page tables that the mappings of setupkvm take
          Width,          \* addresses and sizes are 0 .. 2^Width - 1
          Grow,           \* bound: the arguments that sbrk is called with
          Images,         \* bound: programs, as the ends of their segments
          MaxCalls        \* bound: calls of all processes

ASSUME MemoryAssumption ==
  /\ NPROC \in Nat \ {0} /\ NPage \in Nat /\ PGSIZE \in Nat \ {0}
  /\ NVpn \in Nat \ {0, 1} /\ PerTable \in Nat \ {0} /\ KTables \in Nat
  /\ NVpn % PerTable = 0
  /\ Width \in Nat /\ 2 ^ Width \in Nat /\ NVpn * PGSIZE < 2 ^ Width
  /\ NPage >= KTables + 4
  /\ Grow \subseteq Int /\ MaxCalls \in Nat
  /\ \A im \in Images : im \in Seq(Nat \ {0}) /\ im # << >>

Proc  == 1 .. NPROC
Page  == 1 .. NPage
Vpn   == 0 .. NVpn - 1
Table == 0 .. (NVpn \div PerTable) - 1
KERNBASE == NVpn * PGSIZE
Uint(n)  == n % (2 ^ Width)

PGROUNDUP(a) == ((a + PGSIZE - 1) \div PGSIZE) * PGSIZE

VARIABLES
  free,            \* the pages of the free list
  state, parent, kstack,
  as, sz,          \* each process: pgdir, and the size
  \* each process, in a call: the call, the point in it, the address space that
  \* it builds, the page it has just got, the address it is at, where it
  \* started, where it ends, and what is left of the program or the new slot
  op, pc, wk, mem, at, from, to, rest, child,
  calls

local == <<wk, mem, at, from, to, rest, child>>
vars == <<free, state, parent, kstack, as, sz, op, pc, local, calls>>

\* An address space: the page directory, the page tables of the kernel and of
\* the user part, and the user pages.
NoSpace == [dir |-> 0, ktab |-> << >>, tab |-> [t \in Table |-> 0],
            pte |-> [v \in Vpn |-> 0]]

\* The entries of an address space, the page in an entry, and all its pages.
Entry == ({"dir"} \X {0}) \cup ({"ktab"} \X (1 .. KTables))
           \cup ({"tab"} \X Table) \cup ({"pte"} \X Vpn)

PageAt(s, x) ==
  CASE x[1] = "dir"  -> s.dir
    [] x[1] = "ktab" -> IF x[2] \in DOMAIN s.ktab THEN s.ktab[x[2]] ELSE 0
    [] x[1] = "tab"  -> s.tab[x[2]]
    [] OTHER         -> s.pte[x[2]]

Pages(s) == {PageAt(s, x) : x \in Entry} \ {0}

\* userinit has made the first process, of one page.
Init ==
  /\ free = {g \in Page : g > KTables + 4}
  /\ state = [q \in Proc |-> IF q = 1 THEN "live" ELSE "unused"]
  /\ parent = [q \in Proc |-> 0]
  /\ kstack = [q \in Proc |-> IF q = 1 THEN 1 ELSE 0]
  /\ as = [q \in Proc |->
       IF q # 1 THEN NoSpace
       ELSE [dir |-> 2, ktab |-> [k \in 1 .. KTables |-> 2 + k],
             tab |-> [t \in Table |-> IF t = 0 THEN KTables + 3 ELSE 0],
             pte |-> [v \in Vpn |-> IF v = 0 THEN KTables + 4 ELSE 0]]]
  /\ sz = [q \in Proc |-> IF q = 1 THEN PGSIZE ELSE 0]
  /\ op = [q \in Proc |-> "none"] /\ pc = [q \in Proc |-> "user"]
  /\ wk = [q \in Proc |-> NoSpace] /\ mem = [q \in Proc |-> 0]
  /\ at = [q \in Proc |-> 0] /\ from = [q \in Proc |-> 0]
  /\ to = [q \in Proc |-> 0] /\ rest = [q \in Proc |-> << >>]
  /\ child = [q \in Proc |-> 0]
  /\ calls = 0

-----------------------------------------------------------------------------
(* Address spaces *)

\* The pages S go to the free list.
kfree(S) == free' = free \cup S

\* The space that the call of p works on.
space(p) == IF op[p] = "sbrk" THEN as[p] ELSE wk[p]
SetSpace(p, s) ==
  IF op[p] = "sbrk" THEN as' = [as EXCEPT ![p] = s] /\ UNCHANGED wk
                    ELSE wk' = [wk EXCEPT ![p] = s] /\ UNCHANGED as

\* Slip: a page that is kept in part goes too.
doomed_part(oldsz, newsz) ==
  {v \in Vpn : (v + 1) * PGSIZE > newsz /\ v * PGSIZE < oldsz}

\* The pages that deallocuvm(s, oldsz, newsz) visits, and s without them.
doomed(oldsz, newsz) ==
  {v \in Vpn : v * PGSIZE >= PGROUNDUP(newsz) /\ v * PGSIZE < oldsz}
freed(s, oldsz, newsz) == {s.pte[v] : v \in doomed(oldsz, newsz)} \ {0}
shrunk(s, oldsz, newsz) ==
  [s EXCEPT !.pte = [v \in Vpn |-> IF v \in doomed(oldsz, newsz) THEN 0 ELSE @[v]]]

\* What freevm frees.
freevm(s) == Pages(s)

\* p is back in user mode.
Back(p) ==
  /\ op' = [op EXCEPT ![p] = "none"] /\ pc' = [pc EXCEPT ![p] = "user"]
  /\ wk' = [wk EXCEPT ![p] = NoSpace] /\ mem' = [mem EXCEPT ![p] = 0]
  /\ at' = [at EXCEPT ![p] = 0] /\ from' = [from EXCEPT ![p] = 0]
  /\ to' = [to EXCEPT ![p] = 0] /\ rest' = [rest EXCEPT ![p] = << >>]
  /\ child' = [child EXCEPT ![p] = 0]

\* Slip: the page that could not be mapped is forgotten.
unmapped_lost(p) == {}

\* The page that kalloc gave and mappages could not map.
unmapped(p) == {mem[p]} \ {0}

\* The call of p finds no page and fails: allocuvm takes back what it added,
\* exec and fork free the space they were building, fork its kernel stack.
Fail(p) ==
  /\ kfree(unmapped(p)
             \cup (IF op[p] = "sbrk" THEN freed(as[p], to[p], from[p])
                   ELSE freevm(wk[p]))
             \cup (IF op[p] = "fork" THEN {kstack[child[p]]} \ {0} ELSE {}))
  /\ as' = IF op[p] = "sbrk" THEN [as EXCEPT ![p] = shrunk(@, to[p], from[p])]
           ELSE as
  /\ kstack' = IF op[p] = "fork" THEN [kstack EXCEPT ![child[p]] = 0] ELSE kstack
  /\ state' = IF op[p] = "fork" THEN [state EXCEPT ![child[p]] = "unused"]
              ELSE state
  /\ Back(p)
  /\ UNCHANGED <<parent, sz, calls>>

-----------------------------------------------------------------------------
(* The calls.  A process whose page 0 is gone only faults; init does not call sbrk. *)

MayCall(p) ==
  state[p] = "live" /\ pc[p] = "user" /\ calls < MaxCalls /\ as[p].pte[0] # 0

\* allocuvm refuses a size in the kernel's part.
too_big(e) == e >= KERNBASE

\* The loop of allocuvm or copyuvm runs from address a to e.
Loop(p, a, e) ==
  /\ pc' = [pc EXCEPT ![p] = "page"]
  /\ from' = [from EXCEPT ![p] = a]
  /\ at' = [at EXCEPT ![p] = PGROUNDUP(a)]
  /\ to' = [to EXCEPT ![p] = e]

\* sbrk of n bytes more; a sum that wraps or reaches the kernel changes nothing.
SbrkGrow(p) ==
  /\ MayCall(p) /\ p # 1
  /\ \E n \in Grow :
       LET new == Uint(sz[p] + n) IN
       /\ n > 0 /\ new >= sz[p] /\ ~ too_big(new)
       /\ Loop(p, sz[p], new)
  /\ op' = [op EXCEPT ![p] = "sbrk"]
  /\ calls' = calls + 1
  /\ UNCHANGED <<free, state, parent, kstack, as, sz, wk, mem, rest, child>>

\* The size that growproc stores after deallocuvm returned new: none when it
\* returned 0, which growproc takes for a failure.
SbrkShrink(p) ==
  /\ MayCall(p) /\ p # 1
  /\ \E n \in Grow :
       LET new == Uint(sz[p] + n) IN
       /\ n < 0 /\ new < sz[p]
       /\ kfree(freed(as[p], sz[p], new))
       /\ as' = [as EXCEPT ![p] = shrunk(@, sz[p], new)]
       /\ sz' = IF new = 0 THEN sz ELSE [sz EXCEPT ![p] = new]
  /\ calls' = calls + 1
  /\ UNCHANGED <<state, parent, kstack, op, pc, local>>

\* allocproc takes a slot, and its kernel stack.
Fork(p) ==
  /\ MayCall(p)
  /\ \E c \in Proc : state[c] = "unused"
  /\ LET c == Min({q \in Proc : state[q] = "unused"}) IN
     /\ child' = [child EXCEPT ![p] = c]
     /\ state' = [state EXCEPT ![c] = "embryo"]
  /\ op' = [op EXCEPT ![p] = "fork"] /\ pc' = [pc EXCEPT ![p] = "kstack"]
  /\ calls' = calls + 1
  /\ UNCHANGED <<free, parent, kstack, as, sz, wk, mem, at, from, to, rest>>

ForkStack(p) ==
  /\ pc[p] = "kstack"
  /\ \/ /\ free # {}
        /\ kstack' = [kstack EXCEPT ![child[p]] = Min(free)]
        /\ free' = free \ {Min(free)}
        /\ pc' = [pc EXCEPT ![p] = "kvm"]
        /\ UNCHANGED <<state, parent, as, sz, op, local, calls>>
     \/ free = {} /\ Fail(p)

Exec(p) ==
  /\ MayCall(p)
  /\ \E im \in Images : rest' = [rest EXCEPT ![p] = im]
  /\ op' = [op EXCEPT ![p] = "exec"] /\ pc' = [pc EXCEPT ![p] = "kvm"]
  /\ calls' = calls + 1
  /\ UNCHANGED <<free, state, parent, kstack, as, sz, wk, mem, at, from, to, child>>

\* setupkvm: the directory, then the tables of the kernel's mappings.
Setupkvm(p) ==
  /\ pc[p] = "kvm"
  /\ wk[p].dir = 0 \/ Len(wk[p].ktab) < KTables
  /\ \/ /\ free # {}
        /\ free' = free \ {Min(free)}
        /\ wk' = [wk EXCEPT ![p] =
             IF @.dir = 0 THEN [@ EXCEPT !.dir = Min(free)]
             ELSE [@ EXCEPT !.ktab = Append(wk[p].ktab, Min(free))]]
        /\ UNCHANGED <<state, parent, kstack, as, sz, op, pc>>
        /\ UNCHANGED <<mem, at, from, to, rest, child, calls>>
     \/ free = {} /\ Fail(p)

\* setupkvm returns: copyuvm's loop, or exec's over the segments.
SetupkvmDone(p) ==
  /\ pc[p] = "kvm" /\ wk[p].dir # 0 /\ Len(wk[p].ktab) = KTables
  /\ \/ op[p] = "fork" /\ Loop(p, 0, sz[p])
     \/ /\ op[p] = "exec"
        /\ pc' = [pc EXCEPT ![p] = "segment"]
        /\ UNCHANGED <<at, from, to>>
  /\ UNCHANGED <<free, state, parent, kstack, as, sz, op, wk, mem, rest, child>>
  /\ UNCHANGED calls

\* The next segment of the program; the address space ends at to[p] so far.
\* One that ends below is in it already.
ExecSegment(p) ==
  /\ pc[p] = "segment" /\ rest[p] # << >>
  /\ LET e == Head(rest[p]) IN
     \/ /\ ~ too_big(e) /\ e >= to[p]
        /\ Loop(p, to[p], e)
        /\ rest' = [rest EXCEPT ![p] = Tail(@)]
        /\ UNCHANGED <<free, state, parent, kstack, as, sz, op, wk, mem, child, calls>>
     \/ /\ e < to[p]
        /\ rest' = [rest EXCEPT ![p] = Tail(@)]
        /\ UNCHANGED <<free, state, parent, kstack, as, sz, op, pc, wk, mem, at>>
        /\ UNCHANGED <<from, to, child, calls>>
     \/ too_big(e) /\ Fail(p)

\* The image cannot be read, or the arguments do not fit.
ExecBad(p) == pc[p] \in {"segment", "commit"} /\ op[p] = "exec" /\ Fail(p)

\* Two pages more, for the stack and below it.
ExecStack(p) ==
  LET e == PGROUNDUP(to[p]) + 2 * PGSIZE IN
  /\ pc[p] = "segment" /\ rest[p] = << >>
  /\ \/ /\ ~ too_big(e)
        /\ Loop(p, PGROUNDUP(to[p]), e)
        /\ rest' = [rest EXCEPT ![p] = <<0>>]
        /\ UNCHANGED <<free, state, parent, kstack, as, sz, op, wk, mem, child, calls>>
     \/ too_big(e) /\ Fail(p)

\* freevm(oldpgdir) of exec.
exec_frees(p) == freevm(as[p])

ExecCommit(p) ==
  /\ pc[p] = "commit"
  /\ as' = [as EXCEPT ![p] = wk[p]]
  /\ sz' = [sz EXCEPT ![p] = to[p]]
  /\ kfree(exec_frees(p))
  /\ Back(p)
  /\ UNCHANGED <<state, parent, kstack, calls>>

\* kalloc of one page of the loop ...
LoopPage(p) ==
  /\ pc[p] = "page" /\ at[p] < to[p]
  /\ \/ /\ free # {}
        /\ mem' = [mem EXCEPT ![p] = Min(free)]
        /\ free' = free \ {Min(free)}
        /\ pc' = [pc EXCEPT ![p] = "map"]
        /\ UNCHANGED <<state, parent, kstack, as, sz, op, wk, at, from, to>>
        /\ UNCHANGED <<rest, child, calls>>
     \/ free = {} /\ Fail(p)

\* ... walkpgdir's kalloc of the page table, where there is none yet ...
LoopTable(p) ==
  LET t == (at[p] \div PGSIZE) \div PerTable IN
  /\ pc[p] = "map" /\ space(p).tab[t] = 0
  /\ \/ /\ free # {}
        /\ SetSpace(p, [space(p) EXCEPT !.tab[t] = Min(free)])
        /\ free' = free \ {Min(free)}
        /\ UNCHANGED <<state, parent, kstack, sz, op, pc, mem, at, from, to>>
        /\ UNCHANGED <<rest, child, calls>>
     \/ free = {} /\ Fail(p)

\* ... and the entry.
LoopMap(p) ==
  LET v == at[p] \div PGSIZE IN
  /\ pc[p] = "map" /\ space(p).tab[v \div PerTable] # 0
  /\ SetSpace(p, [space(p) EXCEPT !.pte[v] = mem[p]])
  /\ mem' = [mem EXCEPT ![p] = 0]
  /\ at' = [at EXCEPT ![p] = @ + PGSIZE]
  /\ pc' = [pc EXCEPT ![p] = "page"]
  /\ UNCHANGED <<free, state, parent, kstack, sz, op, from, to, rest, child, calls>>

\* The loop ends: growproc stores the size, fork has its child, exec goes on.
LoopDone(p) ==
  /\ pc[p] = "page" /\ at[p] >= to[p]
  /\ \/ /\ op[p] = "sbrk"
        /\ sz' = [sz EXCEPT ![p] = to[p]]
        /\ Back(p)
        /\ UNCHANGED <<state, parent, as>>
     \/ /\ op[p] = "fork"
        /\ as' = [as EXCEPT ![child[p]] = wk[p]]
        /\ sz' = [sz EXCEPT ![child[p]] = sz[p]]
        /\ state' = [state EXCEPT ![child[p]] = "live"]
        /\ parent' = [parent EXCEPT ![child[p]] = p]
        /\ Back(p)
     \/ /\ op[p] = "exec"
        /\ pc' = [pc EXCEPT ![p] = IF rest[p] = <<0>> THEN "commit" ELSE "segment"]
        /\ UNCHANGED <<state, parent, as, sz, op, local>>
  /\ UNCHANGED <<free, kstack, calls>>

\* exit, or a fault; init does neither.
Exit(p) ==
  /\ state[p] = "live" /\ pc[p] = "user" /\ p # 1
  /\ state' = [state EXCEPT ![p] = "zombie"]
  /\ parent' = [q \in Proc |-> IF parent[q] = p THEN 1 ELSE parent[q]]
  /\ UNCHANGED <<free, kstack, as, sz, op, pc, local, calls>>

\* What wait frees of a child.
wait_frees(c) == {kstack[c]} \cup freevm(as[c])

Wait(p) ==
  /\ state[p] = "live" /\ pc[p] = "user"
  /\ \E c \in Proc :
       /\ state[c] = "zombie" /\ parent[c] = p
       /\ kfree(wait_frees(c))
       /\ kstack' = [kstack EXCEPT ![c] = 0]
       /\ as' = [as EXCEPT ![c] = NoSpace]
       /\ sz' = [sz EXCEPT ![c] = 0]
       /\ state' = [state EXCEPT ![c] = "unused"]
       /\ parent' = [parent EXCEPT ![c] = 0]
  /\ UNCHANGED <<op, pc, local, calls>>

-----------------------------------------------------------------------------
Step(p) ==
  \/ SbrkGrow(p) \/ SbrkShrink(p) \/ Fork(p) \/ ForkStack(p) \/ Exec(p)
  \/ Setupkvm(p) \/ SetupkvmDone(p)
  \/ ExecSegment(p) \/ ExecBad(p) \/ ExecStack(p) \/ ExecCommit(p)
  \/ LoopPage(p) \/ LoopTable(p) \/ LoopMap(p) \/ LoopDone(p)
  \/ Exit(p) \/ Wait(p)

Next == \E p \in Proc : Step(p)

Spec == Init /\ [][Next]_vars

-----------------------------------------------------------------------------
(* Properties *)

\* Type correctness; sizes and the ends of loops are below the kernel's part.
Space == [dir : Page \cup {0}, ktab : Seq(Page), tab : [Table -> Page \cup {0}],
          pte : [Vpn -> Page \cup {0}]]

TypeOK ==
  /\ free \subseteq Page
  /\ state \in [Proc -> {"unused", "embryo", "live", "zombie"}]
  /\ parent \in [Proc -> Proc \cup {0}]
  /\ kstack \in [Proc -> Page \cup {0}] /\ mem \in [Proc -> Page \cup {0}]
  /\ as \in [Proc -> Space] /\ wk \in [Proc -> Space]
  /\ \A p \in Proc : Len(as[p].ktab) <= KTables /\ Len(wk[p].ktab) <= KTables
  /\ sz \in [Proc -> 0 .. KERNBASE - 1] /\ to \in [Proc -> 0 .. KERNBASE - 1]
  /\ op \in [Proc -> {"none", "sbrk", "fork", "exec"}]
  /\ pc \in [Proc -> {"user", "kstack", "kvm", "segment", "page", "map", "commit"}]
  /\ at \in [Proc -> Nat] /\ from \in [Proc -> Nat]
  /\ rest \in [Proc -> Seq(Nat)] /\ child \in [Proc -> Proc \cup {0}]
  /\ calls \in Nat

\* Who holds pages beside the free list: the kernel stack of a process, the
\* page in the hands of its call, its address space and the one it builds.
Holder == {"kstack", "mem", "as", "wk"} \X Proc

Held(h) ==
  CASE h[1] = "kstack" -> {kstack[h[2]]} \ {0}
    [] h[1] = "mem"    -> {mem[h[2]]} \ {0}
    [] h[1] = "as"     -> Pages(as[h[2]])
    [] OTHER           -> Pages(wk[h[2]])

\* No page is in two entries of the address space.
Distinct(s) ==
  \A x \in Entry : PageAt(s, x) # 0 =>
    \A y \in Entry : PageAt(s, y) = PageAt(s, x) => y = x

\* Every page is free or has exactly one use, at every step: no page is shared
\* by accident, freed while in use or freed twice, and whichever kalloc fails,
\* the calls that fail give back all they had taken.
PagesPartitioned ==
  LET holding == {<<h, Held(h)>> : h \in Holder} IN
  /\ free \cup UNION {a[2] : a \in holding} = Page
  /\ \A a \in holding : a[2] \cap free = {}
  /\ \A a, b \in holding : a[1] # b[1] => a[2] \cap b[2] = {}
  /\ \A p \in Proc : Distinct(as[p]) /\ Distinct(wk[p])

\* The user pages of a process are the ones below its size, also after calls
\* that failed half way and sizes that are not multiples of the page: fork's
\* copyuvm finds them all (its panics are not reached), and no access below
\* the size faults.  A process that gave all of its memory back keeps its size
\* (growproc takes the 0 for a failure); it runs no more.  No size reaches the
\* kernel's part (TypeOK).
SizeMapped ==
  /\ TypeOK
  /\ \A p \in Proc :
       state[p] \in {"live", "zombie"} /\ op[p] # "sbrk" /\ as[p].pte[0] # 0 =>
         \A v \in Vpn : (as[p].pte[v] # 0) <=> (v * PGSIZE < sz[p])

\* A process keeps its data: whatever page is below its size before and after
\* a step stays the same page, when sbrk gives back a part of a page, when a
\* call fails and takes back what it had added, and whatever the others do.
\* Only exec replaces it, when nothing can fail any more.
DataStays ==
  [][\A p \in Proc : \A v \in Vpn :
       /\ state[p] = "live" /\ pc[p] # "commit"
       /\ v * PGSIZE < sz[p] /\ v * PGSIZE < sz'[p] /\ as'[p].pte[0] # 0
       => as'[p].pte[v] = as[p].pte[v]]_vars
=============================================================================
