------------------------------- MODULE MCPipe -------------------------------
(* Symmetry for the model checking of Pipe: the processes of one end are     *)
(* interchangeable, and so are the bytes (Init allows each of them).         *)
EXTENDS Pipe, TLC

MCSymmetry == Permutations(Writer) \cup Permutations(Reader)
                \cup Permutations(Byte)
=============================================================================
