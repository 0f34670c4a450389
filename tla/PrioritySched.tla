---------------------------- MODULE PrioritySched ----------------------------
(***************************************************************************)
(* What the multi-level feedback queue promises, without queues, table,    *)
(* counters or locks: jobs compete for servers, and a server that looks    *)
(* for work takes a job of the best level at which any job is ready.       *)
(***************************************************************************)
EXTENDS Integers

CONSTANTS Job, Server, None,
          Settable  \* the levels a running job may ask for

Level == 0 .. 3            \* 0 is served first
EntryLevels == {0, 3}      \* where a new job may start

VARIABLES ready,    \* jobs that want a server
          blocked,  \* jobs that wait for an event
          running,  \* [Server -> Job or None]
          level     \* [Job -> Level]

pvars == <<ready, blocked, running, level>>

PInit ==
  /\ ready \in SUBSET Job
  /\ blocked = {}
  /\ running = [s \in Server |-> None]
  /\ level \in [Job -> Level]

Busy == {running[s] : s \in Server} \ {None}
Absent == Job \ (ready \cup blocked \cup Busy)

\* A free server takes a ready job, and no ready job is at a better level.
Dispatch(s) ==
  /\ running[s] = None
  /\ \E j \in ready :
       /\ \A k \in ready : level[j] <= level[k]
       /\ ready' = ready \ {j}
       /\ running' = [running EXCEPT ![s] = j]
  /\ UNCHANGED <<blocked, level>>

\* The job of server s gives it up and stays ready, at its level.
Yield(s) ==
  /\ running[s] # None
  /\ ready' = ready \cup {running[s]}
  /\ running' = [running EXCEPT ![s] = None]
  /\ UNCHANGED <<blocked, level>>

\* The job of server s waits for an event.
Block(s) ==
  /\ running[s] # None
  /\ blocked' = blocked \cup {running[s]}
  /\ running' = [running EXCEPT ![s] = None]
  /\ UNCHANGED <<ready, level>>

\* The job of server s ends.
Finish(s) ==
  /\ running[s] # None
  /\ running' = [running EXCEPT ![s] = None]
  /\ UNCHANGED <<ready, blocked, level>>

\* A blocked job becomes ready, at the level it had.
Wake(j) ==
  /\ j \in blocked
  /\ ready' = ready \cup {j}
  /\ blocked' = blocked \ {j}
  /\ UNCHANGED <<running, level>>

\* A new job arrives; before it does, its level means nothing.
Arrive(j) ==
  /\ j \in Absent
  /\ ready' = ready \cup {j}
  /\ \E l \in EntryLevels : level' = [level EXCEPT ![j] = l]
  /\ UNCHANGED <<blocked, running>>

Prepare(j) ==
  /\ j \in Absent
  /\ \E l \in Level : level' = [level EXCEPT ![j] = l]
  /\ UNCHANGED <<ready, blocked, running>>

\* A running job is demoted by one level, or asks for a level itself.
Demote(s) ==
  /\ running[s] # None /\ level[running[s]] < 3
  /\ level' = [level EXCEPT ![running[s]] = @ + 1]
  /\ UNCHANGED <<ready, blocked, running>>

SetLevel(s) ==
  /\ running[s] # None
  /\ \E l \in Settable : level' = [level EXCEPT ![running[s]] = l]
  /\ UNCHANGED <<ready, blocked, running>>

\* A job that waits for a server is promoted by one level.
Promote(j) ==
  /\ j \in ready /\ level[j] > 0
  /\ level' = [level EXCEPT ![j] = @ - 1]
  /\ UNCHANGED <<ready, blocked, running>>

PNext ==
  \/ \E s \in Server : \/ Dispatch(s) \/ Yield(s) \/ Block(s) \/ Finish(s)
                       \/ Demote(s) \/ SetLevel(s)
  \/ \E j \in Job : Wake(j) \/ Arrive(j) \/ Prepare(j) \/ Promote(j)

PSpec == PInit /\ [][PNext]_pvars
=============================================================================
