----------------------------- MODULE MCBufCache -----------------------------
(* Symmetry for the model checking of BufCache: the users, the blocks and the *)
(* contents (Init allows each of them) are interchangeable.                  *)
EXTENDS BufCache

MCSymmetry == Permutations(User) \cup Permutations(Block)
                \cup Permutations(Val)
=============================================================================
