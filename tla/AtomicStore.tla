----------------------------- MODULE AtomicStore -----------------------------
(***************************************************************************)
(* What the logging layer promises to the file system: a crash leaves the  *)
(* blocks as they were at some moment when no operation was in progress.   *)
(***************************************************************************)
CONSTANTS Block, Val, Client

VARIABLES stable,    \* the blocks that a crash leaves
          volatile,  \* the blocks that operations read and write
          open       \* clients inside an operation

avars == <<stable, volatile, open>>

AInit ==
  /\ stable \in [Block -> Val]
  /\ volatile = stable
  /\ open = {}

Begin(c) ==
  /\ c \notin open
  /\ open' = open \cup {c}
  /\ UNCHANGED <<stable, volatile>>

Write(c, b, v) ==
  /\ c \in open
  /\ volatile' = [volatile EXCEPT ![b] = v]
  /\ UNCHANGED <<stable, open>>

End(c) ==
  /\ c \in open
  /\ open' = open \ {c}
  /\ UNCHANGED <<stable, volatile>>

\* Everything written so far becomes stable at once, and no operation is half
\* way through.
Commit ==
  /\ open = {}
  /\ stable' = volatile
  /\ UNCHANGED <<volatile, open>>

Crash ==
  /\ volatile' = stable
  /\ open' = {}
  /\ UNCHANGED stable

ANext ==
  \/ \E c \in Client : \/ Begin(c) \/ End(c)
                       \/ \E b \in Block, v \in Val : Write(c, b, v)
  \/ Commit
  \/ Crash

ASpec == AInit /\ [][ANext]_avars
=============================================================================
