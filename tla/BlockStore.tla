----------------------------- MODULE BlockStore -----------------------------
(***************************************************************************)
(* What the buffer cache promises: every block has one contents, and a     *)
(* user that has been given the block, which no other user has then, sees  *)
(* and changes that contents.                                              *)
(***************************************************************************)
CONSTANTS User, Block, Val, None

VARIABLES content,  \* [Block -> Val or None]; None: lost in a failed read
          owned     \* set of <<user, block>>

svars == <<content, owned>>

SInit == content \in [Block -> Val] /\ owned = {}

Acquire(p, k) ==
  /\ \A q \in User : <<q, k>> \notin owned
  /\ owned' = owned \cup {<<p, k>>}
  /\ UNCHANGED content

\* A user is given a block that could not be read.
AcquireLost(p, k) ==
  /\ \A q \in User : <<q, k>> \notin owned
  /\ owned' = owned \cup {<<p, k>>}
  /\ content' = [content EXCEPT ![k] = None]

Update(p, k, v) ==
  /\ <<p, k>> \in owned /\ content[k] # None
  /\ content' = [content EXCEPT ![k] = v]
  /\ UNCHANGED owned

Release(p, k) ==
  /\ <<p, k>> \in owned
  /\ owned' = owned \ {<<p, k>>}
  /\ UNCHANGED content

SNext ==
  \E p \in User, k \in Block :
    \/ Acquire(p, k) \/ AcquireLost(p, k) \/ Release(p, k)
    \/ \E v \in Val : Update(p, k, v)

SSpec == SInit /\ [][SNext]_svars
=============================================================================
