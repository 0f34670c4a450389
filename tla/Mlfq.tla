-------------------------------- MODULE Mlfq --------------------------------
(***************************************************************************)
(* The process table of the kernel and its multi-level feedback queue:     *)
(* srcs/proc.c, the timer and device paths of srcs/trap.c and the process  *)
(* system calls of srcs/sysproc.c, on NCPU processors.                     *)
(*                                                                         *)
(* Granularity.  What a processor does inside one critical section of      *)
(* ptable.lock is one action, except for the loops of wakeup1,             *)
(* check_aging and exit, which take one step per process they change and   *)
(* keep the lock (ptlock) from the first step to the last.  What happens   *)
(* outside the lock (ticks++, the kernel stack and the address space of a  *)
(* new child, the killed tests of trap) is a step of its own, so that      *)
(* another processor can run in between.                                   *)
(***************************************************************************)
EXTENDS Integers, SequencesExt

CONSTANTS NPROC,         \* slots of ptable.proc
          NCPU,          \* processors started by main
          time_quantum,  \* [Level -> ticks], {10, 20, 40, 80} in proc.c
          AgingTicks,    \* the 250 of check_aging
          IoChan,        \* channels other than a struct proc
          TicksChan,     \* &ticks, the channel of sys_sleep
          SetInfoArgs,   \* argument records of set_proc_info
          KillPids,      \* arguments of kill
          MaxPid,        \* bound: nextpid never passes it
          MaxTicks,      \* bound: ticks never passes it
          MaxCount       \* bound: no timer interrupt once a counter is here

Null    == 0             \* the null pointer, for struct proc * and chan
NoCpu   == -1            \* ptable.lock is free
Proc    == 1 .. NPROC    \* a struct proc, by its place in the table
CPU     == 0 .. NCPU - 1
Level   == 0 .. 3
InitProc == 1            \* initproc: userinit takes the first slot

\* The ranges of the parameters, and the two restrictions on the programs that
\* run: set_proc_info is called with a level of the documented range 0..3, and
\* nobody kills pid 1 (init exiting is a panic).
ASSUME ConstantsAssumption ==
  /\ NPROC \in Nat \ {0}
  /\ NCPU \in Nat \ {0}
  /\ time_quantum \in [Level -> Nat \ {0}]
  /\ AgingTicks \in Nat \ {0}
  /\ TicksChan \in IoChan
  /\ IoChan \cap Int = {}
  /\ SetInfoArgs \subseteq [q_level : Level, cpu_burst : Nat, cpu_wait : Nat,
                            io_wait_time : Nat, end_time : Int]
  /\ KillPids \subseteq Nat \ {1}
  /\ MaxPid \in Nat \ {0} /\ MaxTicks \in Nat /\ MaxCount \in Nat

VARIABLES
  \* fields of struct proc, indexed by slot (proc.h)
  state, pid, parent, chan, killed, kstack, type,
  q_level, cpu_burst, cpu_wait, io_wait_time, end_time, total_cpu_time,
  queue_entry_time,
  queue,    \* ptable.queues: each doubly linked list as a sequence of slots
  nextpid,
  ticks,
  ptlock,   \* the processor inside a critical section of several steps
  cproc,    \* cpus[c].proc
  cpc,      \* where processor c is: "run", or a point of trap() or exit()
  wchan,    \* the argument of the wakeup1 that processor c executes
  pc,       \* where the process in the slot is
  np,       \* fork's local variable: the child being made
  shell     \* init.c's local variable pid: the child that init waits for

identity == <<pid, parent, type, kstack, nextpid>>
counters == <<cpu_burst, cpu_wait, io_wait_time, total_cpu_time>>
placing  == <<q_level, queue_entry_time, queue>>
vars == <<state, chan, killed, end_time, ticks, ptlock, cproc, cpc, wchan, pc,
          np, shell, identity, counters, placing>>

States == {"UNUSED", "EMBRYO", "SLEEPING", "RUNNABLE", "RUNNING", "ZOMBIE"}
Types  == {"IDLE", "INIT", "SHELL"}

\* "wake" points hold ptable.lock inside wakeup1; "age" is check_aging.
CpuPoints == {"run", "tickwakeup", "tickwake", "acct", "age", "post",
              "intrwake", "exitwake", "reparent", "initwake", "zombie"}
WakePoints == {"tickwake", "intrwake", "exitwake", "initwake"}

\* "user": in user space.  "tail": in trap, back from yield, before the last
\* killed test.  "io": anywhere in a system call that may sleep.  "wait": in
\* wait.  "fkstack", "fcopy", "ffinish": in fork.  "exit": in exit before it
\* takes ptable.lock.
ProcPoints == {"user", "tail", "io", "wait", "fkstack", "fcopy", "ffinish",
               "exit"}

-----------------------------------------------------------------------------
(***************************************************************************)
(* The queues.                                                             *)
(***************************************************************************)

\* Slip: the entry time is the only key, the I/O wait is not looked at.
p_is_higher_entry(io, curr) == ticks > queue_entry_time[curr]

\* The test p_is_higher of add_to_queue: does a process with this
\* io_wait_time, entering now, go in front of curr?
p_is_higher(io, curr) ==
  \/ io > io_wait_time[curr]
  \/ io = io_wait_time[curr] /\ ticks > queue_entry_time[curr]

\* Where add_to_queue's loop stops: the first process that p precedes, or the
\* end of the list.
InsertPos(q, io) ==
  IF \E i \in DOMAIN q : p_is_higher(io, q[i])
  THEN CHOOSE i \in DOMAIN q : /\ p_is_higher(io, q[i])
                               /\ \A j \in 1 .. i - 1 : ~p_is_higher(io, q[j])
  ELSE Len(q) + 1

\* add_to_queue(p, lv) applied to the lists qs; io is p's io_wait_time.
add_to_queue(qs, p, lv, io) ==
  [qs EXCEPT ![lv] = InsertAt(@, InsertPos(@, io), p)]

\* add_to_queue as the step takes it, with the fields it writes.
Enqueue(qs, p, lv, io) ==
  /\ queue' = add_to_queue(qs, p, lv, io)
  /\ q_level' = [q_level EXCEPT ![p] = lv]
  /\ queue_entry_time' = [queue_entry_time EXCEPT ![p] = ticks]

\* remove_from_queue(p): unlink p from the list of its level, if it is linked.
remove_from_queue(p) ==
  [queue EXCEPT ![q_level[p]] =
     IF \E i \in DOMAIN @ : @[i] = p
     THEN RemoveAt(@, CHOOSE i \in DOMAIN @ : @[i] = p)
     ELSE @]

\* Slip: the search starts at list 1 and tries list 0 last.
get_next_proc_from_one ==
  IF \E lv \in 1 .. 3 : queue[lv] # << >>
  THEN LET lv == CHOOSE l \in 1 .. 3 : /\ queue[l] # << >>
                                       /\ \A m \in 1 .. l - 1 :
                                            queue[m] = << >>
       IN  Head(queue[lv])
  ELSE IF queue[0] # << >> THEN Head(queue[0]) ELSE Null

\* get_next_proc: the head of the first list that is not empty.
get_next_proc ==
  IF \E lv \in Level : queue[lv] # << >>
  THEN LET lv == CHOOSE l \in Level : /\ queue[l] # << >>
                                      /\ \A m \in 0 .. l - 1 : queue[m] = << >>
       IN  Head(queue[lv])
  ELSE Null

-----------------------------------------------------------------------------
(***************************************************************************)
(* The initial state is the one main leaves for the schedulers: pinit has  *)
(* emptied the queues and userinit has made init RUNNABLE at level 3.      *)
(***************************************************************************)
Init ==
  /\ state = [p \in Proc |-> IF p = InitProc THEN "RUNNABLE" ELSE "UNUSED"]
  /\ pid = [p \in Proc |-> IF p = InitProc THEN 1 ELSE 0]
  /\ parent = [p \in Proc |-> Null]
  /\ chan = [p \in Proc |-> Null]
  /\ killed = [p \in Proc |-> FALSE]
  /\ kstack = [p \in Proc |-> p = InitProc]
  /\ type = [p \in Proc |-> IF p = InitProc THEN "INIT" ELSE "IDLE"]
  /\ q_level = [p \in Proc |-> IF p = InitProc THEN 3 ELSE 0]
  /\ cpu_burst = [p \in Proc |-> 0]
  /\ cpu_wait = [p \in Proc |-> 0]
  /\ io_wait_time = [p \in Proc |-> 0]
  /\ end_time = [p \in Proc |-> IF p = InitProc THEN -1 ELSE 0]
  /\ total_cpu_time = [p \in Proc |-> 0]
  /\ queue_entry_time = [p \in Proc |-> 0]
  /\ queue = [lv \in Level |-> IF lv = 3 THEN <<InitProc>> ELSE << >>]
  /\ nextpid = 2
  /\ ticks = 0
  /\ ptlock = NoCpu
  /\ cproc = [c \in CPU |-> Null]
  /\ cpc = [c \in CPU |-> "run"]
  /\ wchan = [c \in CPU |-> Null]
  /\ pc = [p \in Proc |-> IF p = InitProc THEN "io" ELSE "user"]
  /\ np = [p \in Proc |-> Null]
  /\ shell = Null

-----------------------------------------------------------------------------
(***************************************************************************)
(* Vocabulary of the steps.                                                *)
(***************************************************************************)

\* Processor c executes process p, which is at the point l of its code.
At(c, p, l) == cproc[c] = p /\ p # Null /\ cpc[c] = "run" /\ pc[p] = l

\* acquire(&ptable.lock) of a critical section that is one step.
LockFree == ptlock = NoCpu

\* Interrupts are enabled on c: no lock is held and c is not in a handler.
Interruptible(c) ==
  /\ cpc[c] = "run"
  /\ ptlock # c
  /\ cproc[c] # Null => pc[cproc[c]] # "tail"

\* The killed test at the end of a system call, in trap.
SyscallReturn(p) ==
  pc' = [pc EXCEPT ![p] = IF killed[p] THEN "exit" ELSE "user"]

\* Slip: wakeup1 compares the channel only.
SleepersOn_any_state(ch) == {p \in Proc : chan[p] = ch}

\* The processes wakeup1(ch) has still to wake.
SleepersOn(ch) == {p \in Proc : state[p] = "SLEEPING" /\ chan[p] = ch}

\* The lowest slot of a set: the one a loop over ptable.proc meets first.
First(S) == CHOOSE p \in S : \A q \in S : p <= q

-----------------------------------------------------------------------------
(***************************************************************************)
(* scheduler, sched and the ways off a processor.                          *)
(***************************************************************************)

\* One round of scheduler() that finds a process.  The process releases
\* ptable.lock at once (yield, sleep, forkret), unless it sleeps in wait,
\* which goes on with its scan under the lock.  A round that finds nothing
\* changes nothing.
Scheduler(c) ==
  /\ cproc[c] = Null /\ cpc[c] = "run" /\ LockFree
  /\ LET p == get_next_proc IN
     /\ p # Null /\ state[p] = "RUNNABLE" /\ kstack[p]
     /\ cproc' = [cproc EXCEPT ![c] = p]
     /\ state' = [state EXCEPT ![p] = "RUNNING"]
     /\ queue' = remove_from_queue(p)
     /\ chan' = [chan EXCEPT ![p] = Null]
     /\ ptlock' = IF pc[p] = "wait" THEN c ELSE NoCpu
  /\ UNCHANGED <<identity, counters, killed, end_time, q_level,
                 queue_entry_time, ticks, cpc, wchan, pc, np, shell>>

\* sleep(ch, lk) of a system call, or of exit closing its files: the caller
\* holds lk, so nothing it waits for can happen before it is SLEEPING.
Sleep(c, ch) ==
  \E p \in Proc :
    /\ At(c, p, "io") \/ At(c, p, "exit")
    /\ LockFree
    /\ chan' = [chan EXCEPT ![p] = ch]
    /\ state' = [state EXCEPT ![p] = "SLEEPING"]
    /\ cproc' = [cproc EXCEPT ![c] = Null]
    /\ UNCHANGED <<identity, counters, placing, killed, end_time, ticks,
                   ptlock, cpc, wchan, pc, np, shell>>

-----------------------------------------------------------------------------
(***************************************************************************)
(* wakeup1, for all its callers.                                           *)
(***************************************************************************)

\* wakeup1 makes the next sleeper RUNNABLE and queues it at its level.
WakeOne(c) ==
  /\ cpc[c] \in WakePoints
  /\ SleepersOn(wchan[c]) # {}
  /\ LET p == First(SleepersOn(wchan[c])) IN
     /\ state' = [state EXCEPT ![p] = "RUNNABLE"]
     /\ Enqueue(queue, p, q_level[p], io_wait_time[p])
  /\ UNCHANGED <<identity, counters, chan, killed, end_time, ticks, ptlock,
                 cproc, cpc, wchan, pc, np, shell>>

\* wakeup1 has passed the whole table.  The wakeup of the clock goes on to the
\* accounting; a device handler ends with trap's killed test; exit goes on
\* with the lock held.
WakeDone(c) ==
  /\ cpc[c] \in WakePoints
  /\ SleepersOn(wchan[c]) = {}
  /\ cpc' = [cpc EXCEPT ![c] =
               CASE @ = "tickwake" -> "acct"
                 [] @ = "intrwake" -> "run"
                 [] @ = "exitwake" -> "reparent"
                 [] OTHER -> "zombie"]
  /\ ptlock' = IF cpc[c] \in {"tickwake", "intrwake"} THEN NoCpu ELSE c
  /\ LET p == cproc[c] IN
     pc' = IF cpc[c] = "intrwake" /\ p # Null
           THEN [pc EXCEPT ![p] = IF @ = "user" /\ killed[p] THEN "exit" ELSE @]
           ELSE pc
  /\ wchan' = [wchan EXCEPT ![c] = Null]
  /\ UNCHANGED <<identity, counters, placing, state, chan, killed, end_time,
                 ticks, cproc, np, shell>>

-----------------------------------------------------------------------------
(***************************************************************************)
(* trap: the timer interrupt.                                              *)
(***************************************************************************)

Live(p) == state[p] \in {"RUNNABLE", "RUNNING", "SLEEPING"}

\* The bound on the counters, of the processes update_all_proc_timers charges.
CountersBelow(n) ==
  \A p \in Proc : Live(p) => /\ cpu_burst[p] < n /\ cpu_wait[p] < n
                             /\ io_wait_time[p] < n /\ total_cpu_time[p] < n

\* A timer interrupt arrives.  Processor 0 increments ticks; the others go
\* straight to the accounting.
TimerIntr(c) ==
  /\ Interruptible(c)
  /\ CountersBelow(MaxCount)
  /\ c = 0 => ticks < MaxTicks
  /\ ticks' = IF c = 0 THEN ticks + 1 ELSE ticks
  /\ cpc' = [cpc EXCEPT ![c] = IF c = 0 THEN "tickwakeup" ELSE "acct"]
  /\ UNCHANGED <<identity, counters, placing, state, chan, killed, end_time,
                 ptlock, cproc, wchan, pc, np, shell>>

\* wakeup(&ticks) takes ptable.lock.
TickWakeup(c) ==
  /\ cpc[c] = "tickwakeup" /\ LockFree
  /\ cpc' = [cpc EXCEPT ![c] = "tickwake"]
  /\ wchan' = [wchan EXCEPT ![c] = TicksChan]
  /\ ptlock' = c
  /\ UNCHANGED <<identity, counters, placing, state, chan, killed, end_time,
                 ticks, cproc, pc, np, shell>>

\* update_all_proc_timers: the counter f of every process in state st.
update_timers(f, st) ==
  [p \in Proc |-> IF pid[p] # 0 /\ state[p] = st THEN f[p] + 1 ELSE f[p]]

\* demote_process leaves init and the shell alone.
Exempt(p) == type[p] \in {"INIT", "SHELL"}

\* check_time_quantum and demote_process: p has used up its quantum.
quantum_used(p, burst) ==
  burst[p] >= time_quantum[q_level[p]] /\ ~Exempt(p)

\* The critical section of the timer interrupt up to check_aging.
TimerAcct(c) ==
  /\ cpc[c] = "acct"
  /\ cproc[c] # Null /\ state[cproc[c]] = "RUNNING"
  /\ LockFree
  /\ LET p     == cproc[c]
         burst == update_timers(cpu_burst, "RUNNING")
         wait  == update_timers(cpu_wait, "RUNNABLE")
         io    == update_timers(io_wait_time, "SLEEPING")
         total == update_timers(total_cpu_time, "RUNNING")
         over  == end_time[p] > 0 /\ total[p] >= end_time[p]
         used  == ~over /\ ~killed[p] /\ quantum_used(p, burst)
         down  == used /\ q_level[p] # 3
     IN
     /\ total_cpu_time' = total
     /\ killed' = IF over THEN [killed EXCEPT ![p] = TRUE] ELSE killed
     /\ cpu_burst' = IF used THEN [burst EXCEPT ![p] = 0] ELSE burst
     /\ q_level' = IF down THEN [q_level EXCEPT ![p] = @ + 1] ELSE q_level
     /\ cpu_wait' = IF down THEN [wait EXCEPT ![p] = 0] ELSE wait
     /\ io_wait_time' = IF down THEN [io EXCEPT ![p] = 0] ELSE io
  /\ ptlock' = c
  /\ cpc' = [cpc EXCEPT ![c] = "age"]
  /\ UNCHANGED <<identity, state, chan, end_time, queue, queue_entry_time,
                 ticks, cproc, wchan, pc, np, shell>>

\* No process on this processor: the accounting is skipped.
TimerIdle(c) ==
  /\ cpc[c] = "acct"
  /\ ~(cproc[c] # Null /\ state[cproc[c]] = "RUNNING")
  /\ cpc' = [cpc EXCEPT ![c] = "run"]
  /\ UNCHANGED <<identity, counters, placing, state, chan, killed, end_time,
                 ticks, ptlock, cproc, wchan, pc, np, shell>>

\* Slips: the loop over the lists starts one list early or late.
AgedLevels_from_zero == 0 .. 3
AgedLevels_late == 2 .. 3

\* The lists that check_aging visits, and their entries that it has still to
\* promote.
AgedLevels == 1 .. 3
AgedAt(lv) == {i \in DOMAIN queue[lv] : /\ cpu_wait[queue[lv][i]] >= AgingTicks
                                        /\ ~Exempt(queue[lv][i])}
Aged == {lv \in AgedLevels : AgedAt(lv) # {}}

\* check_aging, one promote_process: lists in the order 1, 2, 3, each from its
\* head.  A promoted process has waited 0 ticks, so no pass meets it twice.
AgeOne(c) ==
  /\ cpc[c] = "age"
  /\ Aged # {}
  /\ LET lv == First(Aged)
         p  == queue[lv][First(AgedAt(lv))]
     IN  /\ Enqueue(remove_from_queue(p), p, lv - 1, io_wait_time[p])
         /\ cpu_wait' = [cpu_wait EXCEPT ![p] = 0]
         /\ cpu_burst' = [cpu_burst EXCEPT ![p] = 0]
  /\ UNCHANGED <<identity, io_wait_time, total_cpu_time, state, chan, killed,
                 end_time, ticks, ptlock, cproc, cpc, wchan, pc, np, shell>>

\* check_aging is over: release(&ptable.lock).
AgeDone(c) ==
  /\ cpc[c] = "age"
  /\ Aged = {}
  /\ ptlock' = NoCpu
  /\ cpc' = [cpc EXCEPT ![c] = "post"]
  /\ UNCHANGED <<identity, counters, placing, state, chan, killed, end_time,
                 ticks, cproc, wchan, pc, np, shell>>

\* After the switch of trap: a killed process in user space exits ...
TimerExit(c) ==
  /\ cpc[c] = "post"
  /\ killed[cproc[c]] /\ pc[cproc[c]] = "user"
  /\ cpc' = [cpc EXCEPT ![c] = "run"]
  /\ pc' = [pc EXCEPT ![cproc[c]] = "exit"]
  /\ UNCHANGED <<identity, counters, placing, state, chan, killed, end_time,
                 ticks, ptlock, cproc, wchan, np, shell>>

\* ... any other yields: yield queues it at its level and calls sched.
TimerYield(c) ==
  /\ cpc[c] = "post"
  /\ ~(killed[cproc[c]] /\ pc[cproc[c]] = "user")
  /\ LockFree
  /\ LET p == cproc[c] IN
     /\ state' = [state EXCEPT ![p] = "RUNNABLE"]
     /\ Enqueue(queue, p, q_level[p], io_wait_time[p])
     /\ pc' = [pc EXCEPT ![p] = IF @ = "user" THEN "tail" ELSE @]
  /\ cproc' = [cproc EXCEPT ![c] = Null]
  /\ cpc' = [cpc EXCEPT ![c] = "run"]
  /\ UNCHANGED <<identity, counters, chan, killed, end_time, ticks, ptlock,
                 wchan, np, shell>>

\* The last killed test of trap, when the process runs again.
TrapTail(c) ==
  \E p \in Proc :
    /\ At(c, p, "tail")
    /\ SyscallReturn(p)
    /\ UNCHANGED <<identity, counters, placing, state, chan, killed, end_time,
                   ticks, ptlock, cproc, cpc, wchan, np, shell>>

-----------------------------------------------------------------------------
(***************************************************************************)
(* trap: device interrupts and faults.                                     *)
(***************************************************************************)

\* ideintr, kbdintr or uartintr calls wakeup(ch).  The wakeups that system
\* calls make (pipes, the log, sleep locks) are the same step, taken with the
\* caller in "io".  One that finds no sleeper changes nothing and is left out.
DeviceIntr(c, ch) ==
  /\ Interruptible(c) /\ LockFree
  /\ \E p \in Proc : state[p] = "SLEEPING" /\ chan[p] = ch
  /\ cpc' = [cpc EXCEPT ![c] = "intrwake"]
  /\ wchan' = [wchan EXCEPT ![c] = ch]
  /\ ptlock' = c
  /\ UNCHANGED <<identity, counters, placing, state, chan, killed, end_time,
                 ticks, cproc, pc, np, shell>>

\* A fault in user space: killed is set and trap calls exit.
Fault(c) ==
  \E p \in Proc \ {InitProc} :
    /\ At(c, p, "user")
    /\ killed' = [killed EXCEPT ![p] = TRUE]
    /\ pc' = [pc EXCEPT ![p] = "exit"]
    /\ UNCHANGED <<identity, counters, placing, state, chan, end_time, ticks,
                   ptlock, cproc, cpc, wchan, np, shell>>

-----------------------------------------------------------------------------
(***************************************************************************)
(* System calls.  Each starts with trap's killed test; a killed process    *)
(* goes to exit instead (SysExit).                                         *)
(***************************************************************************)
Syscall(c, p) == At(c, p, "user") /\ ~killed[p]

\* Which calls a program makes.  init runs init.c: it forks a shell and waits
\* until that shell is reaped; it never exits, since a failed fork there ends
\* in the panic of exit.  The shell reads, forks, waits and exits.  Any other
\* process may make any call.
UserProgram(p) == p \notin {InitProc, shell}
MayFork(p) == p = InitProc => shell = Null
MayWait(p) == p = InitProc => shell # Null

\* A system call that may sleep on a channel of IoChan: read, write, open,
\* exec, sleep and the like.
SysIo(c) ==
  \E p \in Proc :
    /\ Syscall(c, p)
    /\ pc' = [pc EXCEPT ![p] = "io"]
    /\ UNCHANGED <<identity, counters, placing, state, chan, killed, end_time,
                   ticks, ptlock, cproc, cpc, wchan, np, shell>>

IoReturn(c) ==
  \E p \in Proc :
    /\ At(c, p, "io")
    /\ SyscallReturn(p)
    /\ UNCHANGED <<identity, counters, placing, state, chan, killed, end_time,
                   ticks, ptlock, cproc, cpc, wchan, np, shell>>

\* sys_set_proc_info overwrites the scheduling fields of its caller.
SetProcInfo(c, a) ==
  \E p \in Proc :
    /\ Syscall(c, p) /\ UserProgram(p) /\ LockFree
    /\ q_level' = [q_level EXCEPT ![p] = a.q_level]
    /\ cpu_burst' = [cpu_burst EXCEPT ![p] = a.cpu_burst]
    /\ cpu_wait' = [cpu_wait EXCEPT ![p] = a.cpu_wait]
    /\ io_wait_time' = [io_wait_time EXCEPT ![p] = a.io_wait_time]
    /\ end_time' = [end_time EXCEPT ![p] = a.end_time]
    /\ UNCHANGED <<identity, total_cpu_time, queue_entry_time, queue, state,
                   chan, killed, ticks, ptlock, cproc, cpc, wchan, pc, np,
                   shell>>

\* Slip: kill makes any process of the table RUNNABLE.
kill_wakes_all(p) == state[p] # "UNUSED"

\* kill wakes its victim if it sleeps.
kill_wakes(p) == state[p] = "SLEEPING"

\* kill(k): the first slot that holds this pid is marked, and woken if it
\* sleeps, whatever it sleeps on.  A pid that no slot holds changes nothing.
Kill(c, k) ==
  \E caller \in Proc :
    /\ Syscall(c, caller) /\ UserProgram(caller) /\ LockFree
    /\ {p \in Proc : pid[p] = k} # {}
    /\ LET p == First({q \in Proc : pid[q] = k}) IN
       /\ killed' = [killed EXCEPT ![p] = TRUE]
       /\ IF kill_wakes(p)
          THEN /\ state' = [state EXCEPT ![p] = "RUNNABLE"]
               /\ Enqueue(queue, p, q_level[p], io_wait_time[p])
          ELSE UNCHANGED <<state, placing>>
       /\ pc' = [pc EXCEPT ![caller] = IF p = caller THEN "exit" ELSE @]
    /\ UNCHANGED <<identity, counters, chan, end_time, ticks, ptlock, cproc,
                   cpc, wchan, np, shell>>

-----------------------------------------------------------------------------
(***************************************************************************)
(* fork.                                                                   *)
(***************************************************************************)
Unused == {p \in Proc : state[p] = "UNUSED"}

\* allocproc's critical section: the first UNUSED slot becomes an EMBRYO.  It
\* does not touch parent, killed, type or chan.  With no slot, fork returns -1.
ForkAlloc(c) ==
  \E p \in Proc :
    /\ Syscall(c, p) /\ MayFork(p) /\ LockFree
    /\ Unused # {} /\ nextpid <= MaxPid
    /\ LET n == First(Unused) IN
       /\ state' = [state EXCEPT ![n] = "EMBRYO"]
       /\ pid' = [pid EXCEPT ![n] = nextpid]
       /\ nextpid' = nextpid + 1
       /\ q_level' = [q_level EXCEPT ![n] = 0]
       /\ cpu_burst' = [cpu_burst EXCEPT ![n] = 0]
       /\ cpu_wait' = [cpu_wait EXCEPT ![n] = 0]
       /\ io_wait_time' = [io_wait_time EXCEPT ![n] = 0]
       /\ end_time' = [end_time EXCEPT ![n] = -1]
       /\ total_cpu_time' = [total_cpu_time EXCEPT ![n] = 0]
       /\ queue_entry_time' = [queue_entry_time EXCEPT ![n] = 0]
       /\ np' = [np EXCEPT ![p] = n]
    /\ pc' = [pc EXCEPT ![p] = "fkstack"]
    /\ UNCHANGED <<parent, type, kstack, queue, chan, killed, ticks, ptlock,
                   cproc, cpc, wchan, shell>>

\* The error returns of allocproc and fork: the slot goes back to UNUSED
\* without the lock, and keeps its pid.
ForkUndo(p) ==
  /\ p # InitProc
  /\ kstack' = [kstack EXCEPT ![np[p]] = FALSE]
  /\ state' = [state EXCEPT ![np[p]] = "UNUSED"]
  /\ np' = [np EXCEPT ![p] = Null]
  /\ SyscallReturn(p)
  /\ UNCHANGED parent

\* allocproc's kalloc, outside the lock.
ForkKstack(c) ==
  \E p \in Proc :
    /\ At(c, p, "fkstack")
    /\ \/ /\ kstack' = [kstack EXCEPT ![np[p]] = TRUE]
          /\ pc' = [pc EXCEPT ![p] = "fcopy"]
          /\ UNCHANGED <<state, parent, np>>
       \/ ForkUndo(p)
    /\ UNCHANGED <<pid, type, nextpid, counters, placing, chan, killed,
                   end_time, ticks, ptlock, cproc, cpc, wchan, shell>>

\* copyuvm, which may run out of memory, and the assignment of np->parent.
ForkCopy(c) ==
  \E p \in Proc :
    /\ At(c, p, "fcopy")
    /\ \/ /\ parent' = [parent EXCEPT ![np[p]] = p]
          /\ pc' = [pc EXCEPT ![p] = "ffinish"]
          /\ UNCHANGED <<state, kstack, np>>
       \/ ForkUndo(p)
    /\ UNCHANGED <<pid, type, nextpid, counters, placing, chan, killed,
                   end_time, ticks, ptlock, cproc, cpc, wchan, shell>>

\* fork's critical section: the child of pid 1 is the shell, at level 3; any
\* other child starts at level 0 with the type its slot has.
ForkFinish(c) ==
  \E p \in Proc :
    /\ At(c, p, "ffinish") /\ LockFree
    /\ LET n == np[p] IN
       /\ state' = [state EXCEPT ![n] = "RUNNABLE"]
       /\ type' = IF pid[p] = 1 THEN [type EXCEPT ![n] = "SHELL"] ELSE type
       /\ cpu_burst' = [cpu_burst EXCEPT ![n] = 0]
       /\ cpu_wait' = [cpu_wait EXCEPT ![n] = 0]
       /\ io_wait_time' = [io_wait_time EXCEPT ![n] = 0]
       /\ end_time' = [end_time EXCEPT ![n] = -1]
       /\ total_cpu_time' = [total_cpu_time EXCEPT ![n] = 0]
       /\ Enqueue(queue, n, IF pid[p] = 1 THEN 3 ELSE 0, 0)
       /\ pc' = [pc EXCEPT ![p] = IF killed[p] THEN "exit" ELSE "user",
                           ![n] = "user"]
    /\ np' = [np EXCEPT ![p] = Null]
    /\ shell' = IF p = InitProc THEN np[p] ELSE shell
    /\ UNCHANGED <<pid, parent, kstack, nextpid, chan, killed, ticks, ptlock,
                   cproc, cpc, wchan>>

-----------------------------------------------------------------------------
(***************************************************************************)
(* exit and wait.                                                          *)
(***************************************************************************)

\* exit(), called by the program or by trap for a killed process.
SysExit(c) ==
  \E p \in Proc \ {InitProc} :
    /\ At(c, p, "user")
    /\ pc' = [pc EXCEPT ![p] = "exit"]
    /\ UNCHANGED <<identity, counters, placing, state, chan, killed, end_time,
                   ticks, ptlock, cproc, cpc, wchan, np, shell>>

\* Slip: exit wakes its own channel, not its parent's.
exit_wakes_self(p) == p

\* The channel of exit's first wakeup1.
exit_wakes(p) == parent[p]

\* exit takes ptable.lock, unlinks itself and calls wakeup1(parent).
ExitBegin(c) ==
  \E p \in Proc \ {InitProc} :
    /\ At(c, p, "exit") /\ LockFree
    /\ queue' = remove_from_queue(p)
    /\ ptlock' = c
    /\ cpc' = [cpc EXCEPT ![c] = "exitwake"]
    /\ wchan' = [wchan EXCEPT ![c] = exit_wakes(p)]
    /\ UNCHANGED <<identity, counters, q_level, queue_entry_time, state, chan,
                   killed, end_time, ticks, cproc, pc, np, shell>>

\* Slip: only the children that have exited are handed to init.
Children_zombies(p) == {q \in Proc : parent[q] = p /\ state[q] = "ZOMBIE"}

Children(p) == {q \in Proc : parent[q] = p}

\* exit hands its children to init, and calls wakeup1(initproc) if one of
\* them is a ZOMBIE already.
Reparent(c) ==
  /\ cpc[c] = "reparent"
  /\ LET kids == Children(cproc[c]) IN
     /\ parent' = [q \in Proc |-> IF q \in kids THEN InitProc ELSE parent[q]]
     /\ IF \E q \in kids : state[q] = "ZOMBIE"
        THEN /\ cpc' = [cpc EXCEPT ![c] = "initwake"]
             /\ wchan' = [wchan EXCEPT ![c] = InitProc]
        ELSE /\ cpc' = [cpc EXCEPT ![c] = "zombie"]
             /\ UNCHANGED wchan
  /\ UNCHANGED <<pid, type, kstack, nextpid, counters, placing, state, chan,
                 killed, end_time, ticks, ptlock, cproc, pc, np, shell>>

\* exit becomes a ZOMBIE and calls sched, for good.
ExitFinish(c) ==
  /\ cpc[c] = "zombie"
  /\ state' = [state EXCEPT ![cproc[c]] = "ZOMBIE"]
  /\ cproc' = [cproc EXCEPT ![c] = Null]
  /\ cpc' = [cpc EXCEPT ![c] = "run"]
  /\ ptlock' = NoCpu
  /\ UNCHANGED <<identity, counters, placing, chan, killed, end_time, ticks,
                 wchan, pc, np, shell>>

\* Slip: wait does not look at killed.
wait_gives_up_childless(p) == Children(p) = {}

\* wait returns -1: no children, or killed.
wait_gives_up(p) == Children(p) = {} \/ killed[p]

\* One pass of wait's loop: reap the first ZOMBIE child, or give up, or sleep
\* on the caller's own slot.  ptable.lock is held from the scan to the sleep.
Wait(c) ==
  \E p \in Proc :
    /\ \/ Syscall(c, p) /\ MayWait(p) /\ LockFree
       \/ At(c, p, "wait") /\ ptlock = c
    /\ LET zombies == {q \in Children(p) : state[q] = "ZOMBIE"} IN
       \/ /\ zombies # {}
          /\ LET z == First(zombies) IN
             /\ kstack' = [kstack EXCEPT ![z] = FALSE]
             /\ pid' = [pid EXCEPT ![z] = 0]
             /\ parent' = [parent EXCEPT ![z] = Null]
             /\ killed' = [killed EXCEPT ![z] = FALSE]
             /\ state' = [state EXCEPT ![z] = "UNUSED"]
             /\ shell' = IF p = InitProc /\ z = shell THEN Null ELSE shell
          /\ SyscallReturn(p)
          /\ UNCHANGED <<chan, cproc>>
       \/ /\ zombies = {} /\ wait_gives_up(p)
          /\ SyscallReturn(p)
          /\ shell' = IF p = InitProc THEN Null ELSE shell
          /\ UNCHANGED <<kstack, pid, parent, killed, state, chan, cproc>>
       \/ /\ zombies = {} /\ ~wait_gives_up(p)
          /\ chan' = [chan EXCEPT ![p] = p]
          /\ state' = [state EXCEPT ![p] = "SLEEPING"]
          /\ cproc' = [cproc EXCEPT ![c] = Null]
          /\ pc' = [pc EXCEPT ![p] = "wait"]
          /\ UNCHANGED <<kstack, pid, parent, killed, shell>>
    /\ ptlock' = NoCpu
    /\ UNCHANGED <<type, nextpid, counters, placing, end_time, ticks, cpc,
                   wchan, np>>

-----------------------------------------------------------------------------
Next ==
  \E c \in CPU :
    \/ Scheduler(c)
    \/ \E ch \in IoChan : Sleep(c, ch) \/ DeviceIntr(c, ch)
    \/ WakeOne(c) \/ WakeDone(c)
    \/ TimerIntr(c) \/ TickWakeup(c) \/ TimerAcct(c) \/ TimerIdle(c)
    \/ AgeOne(c) \/ AgeDone(c) \/ TimerExit(c) \/ TimerYield(c) \/ TrapTail(c)
    \/ Fault(c)
    \/ SysIo(c) \/ IoReturn(c)
    \/ \E a \in SetInfoArgs : SetProcInfo(c, a)
    \/ \E k \in KillPids : Kill(c, k)
    \/ ForkAlloc(c) \/ ForkKstack(c) \/ ForkCopy(c) \/ ForkFinish(c)
    \/ SysExit(c) \/ ExitBegin(c) \/ Reparent(c) \/ ExitFinish(c)
    \/ Wait(c)

Spec == Init /\ [][Next]_vars

-----------------------------------------------------------------------------
(***************************************************************************)
(* Properties.                                                             *)
(***************************************************************************)

\* Type correctness of struct proc, the queues and the processors.
TypeOK ==
  /\ state \in [Proc -> States]
  /\ pid \in [Proc -> Nat] /\ nextpid \in Nat
  /\ parent \in [Proc -> Proc \cup {Null}]
  /\ chan \in [Proc -> Proc \cup IoChan \cup {Null}]
  /\ killed \in [Proc -> BOOLEAN] /\ kstack \in [Proc -> BOOLEAN]
  /\ type \in [Proc -> Types]
  /\ q_level \in [Proc -> Level]
  /\ cpu_burst \in [Proc -> Nat] /\ cpu_wait \in [Proc -> Nat]
  /\ io_wait_time \in [Proc -> Nat] /\ total_cpu_time \in [Proc -> Nat]
  /\ end_time \in [Proc -> Int] /\ queue_entry_time \in [Proc -> Nat]
  /\ queue \in [Level -> Seq(Proc)]
  /\ ticks \in Nat
  /\ ptlock \in CPU \cup {NoCpu}
  /\ cproc \in [CPU -> Proc \cup {Null}] /\ cpc \in [CPU -> CpuPoints]
  /\ wchan \in [CPU -> Proc \cup IoChan \cup {Null}]
  /\ pc \in [Proc -> ProcPoints] /\ np \in [Proc -> Proc \cup {Null}]
  /\ shell \in Proc \cup {Null}

\* The comment on get_next_proc promises that everything in the queues is
\* RUNNABLE.  The converse matters as much: a process that becomes RUNNABLE
\* on any path (fork, yield, wakeup1, kill, promote_process) is linked exactly
\* once, in the list of its own q_level, or it would never run again.
QueuesExact ==
  \A lv \in Level :
    /\ IsInjective(queue[lv])
    /\ ToSet(queue[lv]) = {p \in Proc : state[p] = "RUNNABLE" /\ q_level[p] = lv}

\* README.md on the queues: each list is ordered by falling io_wait_time, the
\* I/O-bound processes first, although add_to_queue looks at the list only when
\* a process enters it while counters change, clock ticks arrive and processes
\* leave from anywhere.
QueueSorted ==
  \A lv \in Level : \A i, j \in DOMAIN queue[lv] :
    i < j => io_wait_time[queue[lv][i]] >= io_wait_time[queue[lv][j]]

\* README.md on the queues, of equal io_wait_time: rising queue_entry_time, the
\* process that entered first in front.
EqualsAreFifo ==
  \A lv \in Level : \A i, j \in DOMAIN queue[lv] :
    LET p == queue[lv][i]
        q == queue[lv][j]
    IN  i < j /\ io_wait_time[p] = io_wait_time[q]
          => queue_entry_time[p] <= queue_entry_time[q]

\* The order that p_is_higher really keeps, falling queue_entry_time among
\* equals: QueueSorted made inductive.
ListOrder ==
  \A lv \in Level : \A i, j \in DOMAIN queue[lv] : i < j =>
    LET p == queue[lv][i]
        q == queue[lv][j]
    IN  \/ io_wait_time[p] > io_wait_time[q]
        \/ /\ io_wait_time[p] = io_wait_time[q]
           /\ queue_entry_time[p] >= queue_entry_time[q]

\* scheduler() never gives one process to two processors, and a process is
\* RUNNING exactly while some processor executes it, on a kernel stack that
\* wait has not freed.
RunningOnOneCpu ==
  /\ \A c \in CPU : cproc[c] # Null =>
       /\ state[cproc[c]] = "RUNNING"
       /\ kstack[cproc[c]]
       /\ \A d \in CPU : cproc[d] = cproc[c] => d = c
  /\ \A p \in Proc : state[p] = "RUNNING" => \E c \in CPU : cproc[c] = p

\* The three facts that make QueuesExact and RunningOnOneCpu inductive.
ExitPoints == {"exitwake", "reparent", "initwake", "zombie"}
ForkPoints == {"fkstack", "fcopy", "ffinish"}

\* A processor inside the timer handler or exit still has its process.
CpuInv ==
  \A c \in CPU :
    /\ cpc[c] \in {"age", "post"} => cproc[c] # Null
    /\ cpc[c] \in ExitPoints => cproc[c] # Null /\ pc[cproc[c]] = "exit"

\* The child that fork works on is an EMBRYO, of this fork only.
ForkInv ==
  /\ \A p \in Proc : pc[p] \in ForkPoints =>
       /\ Live(p)
       /\ np[p] # Null
       /\ state[np[p]] = "EMBRYO"
       /\ pc[p] # "fkstack" => kstack[np[p]]
  /\ \A p, q \in Proc :
       pc[p] \in ForkPoints /\ pc[q] \in ForkPoints /\ np[p] = np[q] => p = q

\* A live process has a kernel stack.
StackInv == \A p \in Proc : Live(p) => kstack[p]

\* exit and wait: a parent never sleeps in wait over a child that is already
\* a ZOMBIE, neither a child of its own nor one that exit has handed to init.
NoLostChild ==
  LockFree => ~ \E p, q \in Proc : /\ state[p] = "SLEEPING" /\ chan[p] = p
                                   /\ parent[q] = p /\ state[q] = "ZOMBIE"

\* exit leaves no orphan: the parent of every process is a process that can
\* still call wait.
ParentAlive ==
  \A p \in Proc \ {InitProc} :
    Live(p) \/ state[p] = "ZOMBIE" => parent[p] # Null /\ Live(parent[p])

\* kill against wait: because wait tests killed and goes to sleep under one
\* hold of ptable.lock, no killed process sleeps in wait.
KillReachesWait ==
  \A p \in Proc : state[p] = "SLEEPING" /\ pc[p] = "wait" => ~killed[p]

\* check_aging: outside the critical sections of ptable.lock no process of the
\* lists 1..3 has waited AgingTicks, unless set_proc_info said so.
AgingPrompt ==
  LockFree => \A p \in Proc : /\ state[p] = "RUNNABLE"
                              /\ q_level[p] > 0
                              /\ ~Exempt(p)
                              => cpu_wait[p] < AgingTicks

\* README.md on demotion: a process that has used up the quantum of its level
\* moves to the next lower queue, so it is not queued at that level again.
QuantumDemotes ==
  LockFree => \A p \in Proc : /\ state[p] = "RUNNABLE"
                              /\ ~killed[p]
                              /\ ~Exempt(p)
                              => cpu_burst[p] < time_quantum[q_level[p]]

\* README.md on special processes: init and the shell are always in queue 3.
ShellStaysAtBottom ==
  \A p \in Proc : Live(p) /\ Exempt(p) => q_level[p] = 3

\* The detailed scheduler implements the abstract one: seen through the states
\* of the processes alone, every choice of scheduler() is a RUNNABLE process
\* of the best level at which any process is RUNNABLE, and levels change by
\* one at a time, up only while RUNNABLE and down only while RUNNING, unless
\* the process itself asks set_proc_info for one of the levels it may ask for.
Abstract == INSTANCE PrioritySched WITH
  Job     <- Proc,
  Server  <- CPU,
  None    <- Null,
  ready   <- {p \in Proc : state[p] = "RUNNABLE"},
  blocked <- {p \in Proc : state[p] = "SLEEPING"},
  running <- cproc,
  level   <- q_level,
  Settable <- {a.q_level : a \in SetInfoArgs}

ServesBestLevel == Abstract!PSpec
=============================================================================
