------------------------------ MODULE MCInodes ------------------------------
(* Instances of Inodes for TLC. *)
EXTENDS Inodes, TLC

CONSTANTS p1, p2, a, b

Rel(s) == [abs |-> FALSE, elems |-> s]
Abs(s) == [abs |-> TRUE, elems |-> s]

\* Two names in the root, one a level down, one down and up, and the odd ones.
MCPaths == {Rel(<<a>>), Rel(<<b>>), Abs(<<a, b>>), Rel(<<a, "..">>), Abs(<< >>),
            Rel(<<".">>)}

\* mkfs puts one file into the root.
MCImage == <<b>>

\* One name, for calls that race on it.
OnePath == {Rel(<<a>>)}

MCSymmetry == Permutations({p1, p2})
=============================================================================
