----------------------------- MODULE ShellLine ------------------------------
(***************************************************************************)
(* The shell with its parser: what a line means, and what its programs get.*)
(***************************************************************************)
EXTENDS Shell, ShellParser

CONSTANT ParseLines   \* bound: the lines whose parse is compared

ASSUME LineAssumption ==
  /\ MAXARGS \in Nat \ {0} /\ Lines \cup ParseLines \subseteq Seq(Token)
  /\ Lines \subseteq ParseLines /\ \A s \in Lines : tree(s) = parsecmd(s)

RECURSIVE Wired(_, _, _)
\* What a tree means: Wire of module Shell.
Wired(cmd, in, out) == Programs(Wired, cmd, in, out)

\* The parser, which reads tokens from the left, builds the tree that the
\* grammar says: pipes inside "&" inside ";", parentheses, redirections; and
\* it refuses the same lines.
ParsesAsGrammar ==
  line = None => \A s \in ParseLines : parsecmd(s) = Grammar(s)
=============================================================================
