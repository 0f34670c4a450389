-------------------------------- MODULE MCLog --------------------------------
(* Symmetry for the model checking of Log: blocks, operations and values are *)
(* interchangeable, except the value that Init chooses for the log blocks.   *)
EXTENDS Log, TLC

MCSymmetry == Permutations(Op) \cup Permutations(Block)
=============================================================================
