------------------------------ MODULE MCShell -------------------------------
(* Instances of ShellLine for TLC. *)
EXTENDS ShellLine

UpTo(n) == UNION {[1 .. k -> Token] : k \in 0 .. n}

\* All lines of up to three tokens, and longer ones with pipes in pipes, lists
\* in pipes, redirections of blocks, and processes in the background.
MCLines ==
  UpTo(3) \cup
  { <<"a", "|", "a", "|", "a">>,
    <<"a", "|", "a", "|", "a", "|", "a">>,
    <<"a", "|", "a", "&", ";", "a">>,
    <<"(", "a", ";", "a", ")", "|", "a">>,
    <<"(", "a", "|", "a", ")", ">", "a", "<", "a">>,
    <<"a", "<", "a", ">", "a", "+", "a">> }

MCParseLines == UpTo(5) \cup MCLines

RECURSIVE Trees(_)
\* A tree and the trees in it.
Trees(c) ==
  {c} \cup
  CASE c.type \in {"REDIR", "BACK"} -> Trees(c.cmd)
    [] c.type \in {"LIST", "PIPE"}  -> Trees(c.left) \cup Trees(c.right)
    [] OTHER                        -> {}

MCCommand == UNION {Trees(parsecmd(s)) : s \in MCLines}
=============================================================================
