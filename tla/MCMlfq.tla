------------------------------- MODULE MCMlfq -------------------------------
(* Values for the constants of Mlfq that a .cfg cannot write. *)
EXTENDS Mlfq

\* Short quanta with the shape of {10, 20, 40, 80}: no level is shorter than
\* the one above it.
MCQuantum == 0 :> 1 @@ 1 :> 2 @@ 2 :> 2 @@ 3 :> 2

MCNoArgs == {}

\* set_proc_info(0, 0, 0, 0, -1): a process goes back to the top level, with
\* nothing charged to it.
MCSetInfo == {[q_level |-> 0, cpu_burst |-> 0, cpu_wait |-> 0,
               io_wait_time |-> 0, end_time |-> -1]}

-----------------------------------------------------------------------------
\* The view leaves out what no step and no property can read: the scheduling
\* fields of a slot without a live process (allocproc sets them all again),
\* the entry time of a process that is in no list, the channel of one that
\* does not sleep, the place in the code of one that has not started or has
\* ended, and killed of a ZOMBIE, which wait clears.
OfLive(f, none) == [p \in Proc |-> IF Live(p) THEN f[p] ELSE none]
OfState(f, st, none) == [p \in Proc |-> IF state[p] = st THEN f[p] ELSE none]

MCView ==
  <<state, pid, parent, kstack, type, nextpid, queue, ticks, ptlock,
    cproc, cpc, wchan, np, shell,
    [p \in Proc |-> killed[p] /\ state[p] # "ZOMBIE"],
    OfLive(pc, "none"), OfLive(q_level, 0), OfLive(cpu_burst, 0),
    OfLive(cpu_wait, 0), OfLive(io_wait_time, 0), OfLive(end_time, 0),
    OfLive(total_cpu_time, 0), OfState(queue_entry_time, "RUNNABLE", 0),
    OfState(chan, "SLEEPING", Null)>>
=============================================================================
