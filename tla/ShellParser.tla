---------------------------- MODULE ShellParser -----------------------------
(***************************************************************************)
(* The parser of the shell (srcs/sh.c), over tokens: "a" stands for a      *)
(* word, which is known by its place in the line, and "+" for ">>".        *)
(*                                                                         *)
(* The parser consumes tokens from the left; the grammar below cuts a line *)
(* at its separators.  ParsesAsGrammar (module Shell) compares the two.    *)
(***************************************************************************)
EXTENDS Integers, SequencesExt

CONSTANT MAXARGS     \* size of argv, with the null at its end

Token == {"a", "|", "&", ";", "(", ")", "<", ">", "+"}

execcmd(argv)           == [type |-> "EXEC", argv |-> argv]
redircmd(cmd, file, fd) == [type |-> "REDIR", cmd |-> cmd, file |-> file, fd |-> fd]
pipecmd(l, r)           == [type |-> "PIPE", left |-> l, right |-> r]
listcmd(l, r)           == [type |-> "LIST", left |-> l, right |-> r]
backcmd(cmd)            == [type |-> "BACK", cmd |-> cmd]
Panic                   == [type |-> "PANIC"]

-----------------------------------------------------------------------------
(* The parser: what a function returns is [cmd, at], at the next token. *)

RECURSIVE parseline(_, _), parsepipe(_, _), parseexec(_, _)
RECURSIVE parseredirs(_, _, _), parseargs(_, _, _, _), parseback(_, _)

Parsed(cmd, i) == [cmd |-> cmd, at |-> i]
panics(r) == r.cmd = Panic
peek(s, i, toks) == i <= Len(s) /\ s[i] \in toks

\* A command inside its redirections <<place of the word, fd>>, the first one
\* innermost.
redirected(cmd, rs) == FoldLeft(LAMBDA c, r : redircmd(c, r[1], r[2]), cmd, rs)

redir_fd(tok) == IF tok = "<" THEN 0 ELSE 1

\* The redirections from i on, after those of rs.
parseredirs(s, i, rs) ==
  IF ~peek(s, i, {"<", ">", "+"}) THEN [rs |-> rs, at |-> i, ok |-> TRUE]
  ELSE IF ~peek(s, i + 1, {"a"}) THEN [rs |-> rs, at |-> i, ok |-> FALSE]
  ELSE parseredirs(s, i + 2, Append(rs, <<i + 1, redir_fd(s[i])>>))

\* The loop of parseexec.
parseargs(s, i, argv, rs) ==
  LET r == parseredirs(s, i, rs) IN
  IF ~r.ok THEN Parsed(Panic, i)
  ELSE IF peek(s, r.at, {"|", ")", "&", ";"}) \/ r.at > Len(s)
       THEN Parsed(redirected(execcmd(argv), r.rs), r.at)
  ELSE IF s[r.at] # "a" \/ Len(argv) + 1 >= MAXARGS THEN Parsed(Panic, r.at)
  ELSE parseargs(s, r.at + 1, Append(argv, r.at), r.rs)

parseblock(s, i) ==
  LET b == parseline(s, i + 1)
      r == parseredirs(s, b.at + 1, << >>)
  IN  IF panics(b) \/ ~peek(s, b.at, {")"}) THEN Parsed(Panic, i)
      ELSE IF ~r.ok THEN Parsed(Panic, i)
      ELSE Parsed(redirected(b.cmd, r.rs), r.at)

parseexec(s, i) ==
  IF peek(s, i, {"("}) THEN parseblock(s, i) ELSE parseargs(s, i, << >>, << >>)

\* Slip: a pipeline is grouped from the left.
RECURSIVE pipeline_left(_, _, _)
pipeline_left(s, l, i) ==
  IF ~peek(s, i, {"|"}) THEN Parsed(l, i)
  ELSE LET r == parseexec(s, i + 1) IN
       IF panics(r) THEN r ELSE pipeline_left(s, pipecmd(l, r.cmd), r.at)
parsepipe_left(s, i) ==
  LET l == parseexec(s, i) IN
  IF panics(l) THEN l ELSE pipeline_left(s, l.cmd, l.at)

parsepipe(s, i) ==
  LET l == parseexec(s, i)
      r == parsepipe(s, l.at + 1)
  IN  IF panics(l) \/ ~peek(s, l.at, {"|"}) THEN l
      ELSE IF panics(r) THEN r ELSE Parsed(pipecmd(l.cmd, r.cmd), r.at)

\* The loop of parseline.
parseback(s, r) ==
  IF ~panics(r) /\ peek(s, r.at, {"&"})
  THEN parseback(s, Parsed(backcmd(r.cmd), r.at + 1)) ELSE r

parseline(s, i) ==
  LET l == parseback(s, parsepipe(s, i))
      r == parseline(s, l.at + 1)
  IN  IF panics(l) \/ ~peek(s, l.at, {";"}) THEN l
      ELSE IF panics(r) THEN r ELSE Parsed(listcmd(l.cmd, r.cmd), r.at)

parsecmd(s) ==
  LET r == parseline(s, 1) IN
  IF panics(r) \/ r.at # Len(s) + 1 THEN Panic ELSE r.cmd

-----------------------------------------------------------------------------
(* The grammar, for the part i .. j of a line *)

RECURSIVE Line(_, _, _), Back(_, _, _), Pipeline(_, _, _)

Depth(s, i, k) ==
  Cardinality({m \in i .. k : s[m] = "("}) - Cardinality({m \in i .. k : s[m] = ")"})
\* The places of separators tok outside parentheses.
Cuts(s, i, j, tok) == {k \in i .. j : s[k] = tok /\ Depth(s, i, k) = 0}
Both(op(_, _), l, r) == IF l = Panic \/ r = Panic THEN Panic ELSE op(l, r)

IsRedir(s, k) == s[k] \in {"<", ">", "+"}
IsFile(s, i, k) == k > i /\ IsRedir(s, k - 1)
Redirs(s, i, j) == {k \in i .. j : IsRedir(s, k)}
InOrder(S) == SetToSortSeq(S, <)
\* Redirections and words only, and every redirection has a word.
Plain(s, i, j) ==
  \A k \in i .. j : /\ s[k] = "a" \/ IsRedir(s, k)
                    /\ IsRedir(s, k) => k < j /\ s[k + 1] = "a"
WithRedirs(s, cmd, i, j) ==
  redirected(cmd, [n \in 1 .. Cardinality(Redirs(s, i, j)) |->
                     LET k == InOrder(Redirs(s, i, j))[n]
                     IN  <<k + 1, redir_fd(s[k])>>])

Simple(s, i, j) ==
  LET args == {k \in i .. j : s[k] = "a" /\ ~IsFile(s, i, k)} IN
  IF Plain(s, i, j) /\ Cardinality(args) < MAXARGS
  THEN WithRedirs(s, execcmd(InOrder(args)), i, j) ELSE Panic

Block(s, i, j) ==
  LET ends == {k \in i .. j : Depth(s, i, k) = 0}
      k == Min(ends)
      inner == Line(s, i + 1, k - 1)
  IN  IF ends = {} THEN Panic
      ELSE IF inner = Panic \/ ~Plain(s, k + 1, j)
              \/ \E m \in k + 1 .. j : s[m] = "a" /\ ~IsFile(s, k + 1, m)
           THEN Panic ELSE WithRedirs(s, inner, k + 1, j)

Pipeline(s, i, j) ==
  LET cuts == Cuts(s, i, j, "|")
      part(m, n) == IF m <= n /\ s[m] = "(" THEN Block(s, m, n) ELSE Simple(s, m, n)
  IN  IF cuts = {} THEN part(i, j)
      ELSE Both(pipecmd, part(i, Min(cuts) - 1), Pipeline(s, Min(cuts) + 1, j))

Back(s, i, j) ==
  IF i <= j /\ s[j] = "&"
  THEN LET c == Back(s, i, j - 1) IN IF c = Panic THEN Panic ELSE backcmd(c)
  ELSE Pipeline(s, i, j)

Line(s, i, j) ==
  LET cuts == Cuts(s, i, j, ";") IN
  IF cuts = {} THEN Back(s, i, j)
  ELSE Both(listcmd, Back(s, i, Min(cuts) - 1), Line(s, Min(cuts) + 1, j))

Grammar(s) == Line(s, 1, Len(s))
=============================================================================
