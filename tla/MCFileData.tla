----------------------------- MODULE MCFileData -----------------------------
(* Instances of FileData for TLC. *)
EXTENDS FileData, TLC

CONSTANTS p1, p2, f1, f2, f3, i1, i2

\* Two open files of one inode, and one of another.
MCino(f) == IF f = f3 THEN i2 ELSE i1

MCOffsets == {-1, 1}

MCSymmetry == Permutations({p1, p2}) \cup Permutations({f1, f2})
=============================================================================
