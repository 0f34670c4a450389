------------------------------ MODULE ByteFile ------------------------------
(***************************************************************************)
(* What a program may rely on of open files: a file is a sequence of       *)
(* bytes, every open file has an offset, a read takes the bytes at the     *)
(* offset and a chunk of a write replaces them or adds to the end, and     *)
(* each of these moves the offset in the same step.  There are no holes.   *)
(***************************************************************************)
EXTENDS Integers, Sequences

CONSTANTS Inode, File, Process, Byte, MaxLen, MaxOff
CONSTANT ino(_)                 \* the inode of an open file

VARIABLES content, off, got     \* got: what each process read last

vars == <<content, off, got>>

Init ==
  /\ content = [i \in Inode |-> << >>]
  /\ off = [f \in File |-> 0]
  /\ got = [p \in Process |-> << >>]

Longer(a, b) == IF a > b THEN a ELSE b

\* c with the bytes bs from offset o on.
Overlay(c, o, bs) ==
  [k \in 1 .. Longer(Len(c), o + Len(bs)) |->
     IF k \in o + 1 .. o + Len(bs) THEN bs[k - o] ELSE c[k]]

Write(f) ==
  /\ off[f] <= Len(content[ino(f)])
  /\ \E n \in 1 .. MaxLen - off[f] :
       /\ off' = [off EXCEPT ![f] = @ + n]
       /\ \E bs \in [1 .. n -> Byte] :
            content' = [content EXCEPT ![ino(f)] = Overlay(@, off[f], bs)]
  /\ UNCHANGED got

Read(p, f) ==
  /\ off[f] <= Len(content[ino(f)])
  /\ \E n \in 1 .. Len(content[ino(f)]) - off[f] :
       /\ got' = [got EXCEPT ![p] =
                    SubSeq(content[ino(f)], off[f] + 1, off[f] + n)]
       /\ off' = [off EXCEPT ![f] = @ + n]
  /\ UNCHANGED content

Seek(f) ==
  /\ \E o \in 0 .. MaxOff : off' = [off EXCEPT ![f] = o]
  /\ UNCHANGED <<content, got>>

\* The file is removed; the inode and its open files are those of a new one.
Remove(i) ==
  /\ content' = [content EXCEPT ![i] = << >>]
  /\ off' = [f \in File |-> IF ino(f) = i THEN 0 ELSE off[f]]
  /\ UNCHANGED got

Next ==
  \/ \E f \in File : Write(f) \/ Seek(f) \/ \E p \in Process : Read(p, f)
  \/ \E i \in Inode : Remove(i)

Spec == Init /\ [][Next]_vars
=============================================================================
