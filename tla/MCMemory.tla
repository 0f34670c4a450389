------------------------------ MODULE MCMemory ------------------------------
(* Instances of Memory for TLC. *)
EXTENDS Memory

\* Sizes that are not multiples of the page, and one that takes back the
\* memory of the smallest program.
MCGrow == {3, -1, -6}

\* Programs: one segment; two that share a page; one that leaves no room for
\* the stack; one that reaches the kernel, after a segment that is in another.
MCImages == {<<1>>, <<3, 4>>, <<9>>, <<2, 1, 13>>}
=============================================================================
