------------------------------- MODULE Shell --------------------------------
(***************************************************************************)
(* The shell (srcs/sh.c), the table of open files and the descriptors      *)
(* (srcs/file.c, srcs/sysfile.c): a command line is parsed and run by a    *)
(* tree of processes that fork, open, close, dup, pipe, wait and exec.     *)
(*                                                                         *)
(* A system call is one step, but for pipe, which takes its two files one  *)
(* by one.  fork, exit and wait are those of module Mlfq without their     *)
(* inner steps.  A program that has been started reads its input to the    *)
(* end and exits.  The parser is module ShellParser; module ShellLine puts *)
(* the two together.                                                       *)
(***************************************************************************)
EXTENDS Integers, Sequences, FiniteSetsExt

CONSTANTS NPROC,        \* slots for processes, the shell in slot 1
          NFILE,        \* the table of open files
          NOFILE,       \* descriptors of a process
          Lines,        \* bound: the lines that are typed
          tree(_),      \* what parsecmd makes of a line
          Command,      \* these trees, and the trees in them
          Wire(_, _, _),  \* what a tree means, given its input and output
          None

ASSUME ShellAssumption ==
  /\ NPROC \in Nat \ {0} /\ NFILE \in Nat \ {0}
  /\ NOFILE \in Nat /\ NOFILE >= 3
  /\ None \notin Nat \cup Lines

\* The struct that the type of a command says.
IsCommand(c) ==
  \/ c.type = "PANIC"
  \/ c.type = "EXEC" /\ c.argv \in Seq(Nat)
  \/ c.type = "REDIR" /\ c.cmd \in Command /\ c.file \in Nat /\ c.fd \in {0, 1}
  \/ c.type \in {"LIST", "PIPE"} /\ c.left \in Command /\ c.right \in Command
  \/ c.type = "BACK" /\ c.cmd \in Command

ASSUME TreeAssumption ==
  (\A s \in Lines : tree(s) \in Command) /\ (\A c \in Command : IsCommand(c))

Proc == 1 .. NPROC
File == 1 .. NFILE
Fd   == 0 .. NOFILE - 1
sh   == 1
init == 0

VARIABLES
  line,                  \* the line that was typed, or None
  state, parent, ofile,  \* the processes
  todo,                  \* each process: the calls it has still to make
  p,                     \* each process: runcmd's p[2]
  rf,                    \* each process: pipe's first file, or None
  running,               \* each process: the argv of exec, or None
  back,                  \* history: processes of a command in the background
  ref, what,             \* the file table: references, and what a file is
  failed                 \* history: a fork has failed

procs == <<state, parent, ofile, todo, p, rf, running, back>>
files == <<ref, what>>
vars == <<line, procs, files, failed>>

\* What a file is: the console, a named file, or an end of a pipe.
Console   == [type |-> "INODE", of |-> None, end |-> "rw"]
Named(k)  == [type |-> "INODE", of |-> [file |-> k], end |-> "rw"]
End(c, e) == [type |-> "PIPE", of |-> c, end |-> e]
FD_NONE   == [type |-> "NONE", of |-> None, end |-> "no"]

\* init has the console as 0, 1 and 2, in one file, and so has the shell.
Init ==
  /\ line = None
  /\ state = [q \in Proc |-> IF q = sh THEN "run" ELSE "unused"]
  /\ parent = [q \in Proc |-> init]
  /\ ofile = [q \in Proc |-> [d \in Fd |-> IF q = sh /\ d < 3 THEN 1 ELSE 0]]
  /\ todo = [q \in Proc |-> << >>]
  /\ p = [q \in Proc |-> <<0, 0>>] /\ rf = [q \in Proc |-> None]
  /\ running = [q \in Proc |-> None] /\ back = {}
  /\ ref = [f \in File |-> IF f = 1 THEN 6 ELSE 0]
  /\ what = [f \in File |-> IF f = 1 THEN Console ELSE FD_NONE]
  /\ failed = FALSE

-----------------------------------------------------------------------------
(* What a line means *)

\* The programs of cmd with their input and output, where W says this of the
\* commands in it.
Programs(W(_, _, _), cmd, in, out) ==
  CASE cmd.type = "PANIC" -> {}
    [] cmd.type = "EXEC"  -> {[argv |-> cmd.argv, in |-> in, out |-> out]}
    [] cmd.type = "REDIR" ->
         IF cmd.fd = 0 THEN W(cmd.cmd, Named(cmd.file), out)
         ELSE W(cmd.cmd, in, Named(cmd.file))
    [] cmd.type = "LIST"  -> W(cmd.left, in, out) \cup W(cmd.right, in, out)
    [] cmd.type = "PIPE"  -> W(cmd.left, in, End(cmd, "w"))
                               \cup W(cmd.right, End(cmd, "r"), out)
    [] cmd.type = "BACK"  -> W(cmd.cmd, in, out)

\* The files that can be the input or the output of a program.
OfType(t) == {c \in Command : c.type = t}
Source ==
  {Console} \cup {Named(c.file) : c \in OfType("REDIR")}
    \cup {End(c, e) : c \in OfType("PIPE"), e \in {"r", "w"}}

ASSUME WireAssumption ==
  \A c \in Command : \A in, out \in Source :
    Wire(c, in, out) = Programs(Wire, c, in, out)

-----------------------------------------------------------------------------
(* file.c, on a table r of reference counts *)

Unused(r) == {f \in File : r[f] = 0}

\* filedup
filedup(r, f) == [r EXCEPT ![f] = @ + 1]

\* Slip: the reference of an end of a pipe stays.
fileclose_leaky(r, f) ==
  IF what[f].type = "PIPE" THEN r ELSE [r EXCEPT ![f] = @ - 1]

fileclose(r, f) == [r EXCEPT ![f] = @ - 1]

\* Files without a reference are none.
cleared(w, r) == [f \in File |-> IF r[f] = 0 THEN FD_NONE ELSE w[f]]

\* The first free descriptor of q, or None.
fdalloc(fds) ==
  LET free == {d \in Fd : fds[d] = 0} IN
  IF free = {} THEN None ELSE Min(free)

-----------------------------------------------------------------------------
(* runcmd as the calls it makes *)

\* runcmd's p[0] and p[1], among descriptors.
P0 == -1
P1 == -2

call(op, x) == [op |-> op, x |-> x]
wait == call("wait", 0)
exit == call("exit", 0)
Run(cmd) == <<call("run", cmd)>>

\* Slip: the reader keeps the end it does not use.
right_end_kept(cmd) ==
  <<call("close", 0), call("dup", P0), call("close", P0)>> \o Run(cmd.right)

right_end(cmd) ==
  <<call("close", 0), call("dup", P0), call("close", P0), call("close", P1)>>
    \o Run(cmd.right)

left_end(cmd) ==
  <<call("close", 1), call("dup", P1), call("close", P0), call("close", P1)>>
    \o Run(cmd.left)

\* Slip: the parent waits for one of the two.
pipe_waits_once == <<wait>>

pipe_waits == <<wait, wait>>

runcmd(cmd) ==
  CASE cmd.type = "PANIC" -> <<exit>>
    [] cmd.type = "EXEC"  -> IF cmd.argv = << >> THEN <<exit>>
                             ELSE <<call("exec", cmd.argv), exit>>
    [] cmd.type = "REDIR" -> <<call("close", cmd.fd), call("open", cmd.file)>>
                               \o Run(cmd.cmd)
    [] cmd.type = "LIST"  -> <<call("fork", Run(cmd.left)), wait>>
                               \o Run(cmd.right)
    [] cmd.type = "PIPE"  -> <<call("pipe", cmd), call("fork", left_end(cmd)),
                               call("fork", right_end(cmd)),
                               call("close", P0), call("close", P1)>>
                               \o pipe_waits \o <<exit>>
    [] cmd.type = "BACK"  -> <<call("fork_back", Run(cmd.cmd)), exit>>

\* Process q is at a call of one of the kinds S.
At(q, S) == state[q] = "run" /\ todo[q] # << >> /\ Head(todo[q]).op \in S
X(q) == Head(todo[q]).x
Done(q) == todo' = [todo EXCEPT ![q] = Tail(@)]

\* getcmd; the shell will fork a child that runs what parsecmd makes of it.
Type(s) ==
  /\ line = None
  /\ line' = s
  /\ todo' = [todo EXCEPT ![sh] = <<call("fork", Run(tree(s))), wait>>]
  /\ UNCHANGED <<state, parent, ofile, p, rf, running, back, files, failed>>

Runcmd(q) ==
  /\ At(q, {"run"})
  /\ todo' = [todo EXCEPT ![q] = runcmd(X(q)) \o Tail(@)]
  /\ UNCHANGED <<line, state, parent, ofile, p, rf, running, back, files, failed>>

\* A call of runcmd fails: panic, or a message, and exit.
Fails(q) == todo' = [todo EXCEPT ![q] = <<exit>>]

-----------------------------------------------------------------------------
(* System calls *)

\* The descriptor that a call names.
fd(q, x) == IF x < 0 THEN p[q][-x] ELSE x

Close(q) ==
  /\ At(q, {"close"})
  /\ LET d == fd(q, X(q))
         f == ofile[q][d]
     IN  IF f = 0 THEN UNCHANGED <<ofile, files>>
         ELSE /\ ofile' = [ofile EXCEPT ![q][d] = 0]
              /\ ref' = fileclose(ref, f)
              /\ what' = cleared(what, ref')
  /\ Done(q)
  /\ UNCHANGED <<line, state, parent, p, rf, running, back, failed>>

Dup(q) ==
  /\ At(q, {"dup"})
  /\ LET f == ofile[q][fd(q, X(q))]
         d == fdalloc(ofile[q])
     IN  IF f = 0 \/ d = None THEN UNCHANGED <<ofile, ref>>
         ELSE /\ ofile' = [ofile EXCEPT ![q][d] = f]
              /\ ref' = filedup(ref, f)
  /\ Done(q)
  /\ UNCHANGED <<line, state, parent, p, rf, running, back, what, failed>>

\* open of a file that is there, or is made, or not.
Open(q) ==
  /\ At(q, {"open"})
  /\ LET f == Min(Unused(ref))
         d == fdalloc(ofile[q])
     IN  \/ /\ Unused(ref) # {} /\ d # None
            /\ ref' = [ref EXCEPT ![f] = 1]
            /\ what' = [what EXCEPT ![f] = Named(X(q))]
            /\ ofile' = [ofile EXCEPT ![q][d] = f]
            /\ Done(q)
         \/ Fails(q) /\ UNCHANGED <<ofile, files>>
  /\ UNCHANGED <<line, state, parent, p, rf, running, back, failed>>

\* pipealloc's first filealloc ...
PipeFirst(q) ==
  /\ At(q, {"pipe"}) /\ rf[q] = None
  /\ \/ /\ Unused(ref) # {}
        /\ rf' = [rf EXCEPT ![q] = Min(Unused(ref))]
        /\ ref' = [ref EXCEPT ![Min(Unused(ref))] = 1]
        /\ UNCHANGED todo
     \/ /\ Unused(ref) = {}
        /\ Fails(q)
        /\ UNCHANGED <<rf, ref>>
  /\ UNCHANGED <<line, state, parent, ofile, p, running, back, what, failed>>

\* What pipealloc and sys_pipe give back when they fail.
\* Slip: nothing.
pipe_undone_not(r, f) == r

pipe_undone(r, f) == fileclose(r, f)

\* ... and the second, kalloc, the two descriptors, or the way back.
PipeSecond(q) ==
  /\ At(q, {"pipe"}) /\ rf[q] # None
  /\ LET g  == Min(Unused(ref))
         d0 == fdalloc(ofile[q])
         o  == [ofile[q] EXCEPT ![d0] = rf[q]]
         d1 == fdalloc(o)
     IN  \/ /\ Unused(ref) # {} /\ d0 # None /\ d1 # None
            /\ ref' = [ref EXCEPT ![g] = 1]
            /\ what' = [what EXCEPT ![rf[q]] = End(X(q), "r"), ![g] = End(X(q), "w")]
            /\ ofile' = [ofile EXCEPT ![q] = [o EXCEPT ![d1] = g]]
            /\ p' = [p EXCEPT ![q] = <<d0, d1>>]
            /\ Done(q)
         \/ /\ ref' = pipe_undone(ref, rf[q])
            /\ Fails(q)
            /\ UNCHANGED <<what, ofile, p>>
  /\ rf' = [rf EXCEPT ![q] = None]
  /\ UNCHANGED <<line, state, parent, running, back, failed>>

\* The table after fork has duplicated the descriptors o.
dup_all(r, o) ==
  [f \in File |-> r[f] + Cardinality({d \in Fd : o[d] = f})]

Free == {q \in Proc : state[q] = "unused"}

Fork(q) ==
  /\ At(q, {"fork", "fork_back"})
  /\ LET c == Min(Free) IN
     \/ /\ Free # {}
        /\ state' = [state EXCEPT ![c] = "run"]
        /\ parent' = [parent EXCEPT ![c] = q]
        /\ ofile' = [ofile EXCEPT ![c] = ofile[q]]
        /\ ref' = dup_all(ref, ofile[q])
        /\ p' = [p EXCEPT ![c] = p[q]]
        /\ todo' = [todo EXCEPT ![q] = Tail(@), ![c] = X(q)]
        /\ back' = IF q \in back \/ Head(todo[q]).op = "fork_back"
                   THEN back \cup {c} ELSE back
        /\ UNCHANGED failed
     \/ /\ Free = {} /\ q # sh
        /\ Fails(q) /\ failed' = TRUE
        /\ UNCHANGED <<state, parent, ofile, ref, p, back>>
  /\ UNCHANGED <<line, rf, running, what>>

\* exec, which may fail, and the program it starts.
Exec(q) ==
  /\ At(q, {"exec"})
  /\ \/ /\ running' = [running EXCEPT ![q] = X(q)]
        /\ todo' = [todo EXCEPT ![q] = <<call("read", 0), exit>>]
     \/ Fails(q) /\ UNCHANGED running
  /\ UNCHANGED <<line, state, parent, ofile, p, rf, back, files, failed>>

\* The pipe that f reads from has no write end any more.
AtEnd(f) ==
  what[f].type = "PIPE" =>
    ~ \E g \in File : what[g].end = "w" /\ what[g].of = what[f].of

\* The program has read its standard input to the end.
ReadToEnd(q) ==
  /\ At(q, {"read"})
  /\ ofile[q][0] # 0 => AtEnd(ofile[q][0])
  /\ Done(q)
  /\ UNCHANGED <<line, state, parent, ofile, p, rf, running, back, files, failed>>

\* The table after exit has closed the descriptors o.
close_all(r, o) ==
  [f \in File |-> r[f] - Cardinality({d \in Fd : o[d] = f})]

Exit(q) ==
  /\ At(q, {"exit"})
  /\ ref' = close_all(ref, ofile[q])
  /\ what' = cleared(what, ref')
  /\ ofile' = [ofile EXCEPT ![q] = [d \in Fd |-> 0]]
  /\ state' = [state EXCEPT ![q] = "zombie"]
  /\ parent' = [c \in Proc |-> IF parent[c] = q /\ state[c] # "unused"
                               THEN init ELSE parent[c]]
  /\ todo' = [todo EXCEPT ![q] = << >>]
  /\ running' = [running EXCEPT ![q] = None]
  /\ UNCHANGED <<line, p, rf, back, failed>>

Children(q) == {c \in Proc : parent[c] = q /\ state[c] # "unused"}

\* The slot of a zombie is free again.
Reap(c) ==
  /\ state' = [state EXCEPT ![c] = "unused"]
  /\ parent' = [parent EXCEPT ![c] = init]
  /\ p' = [p EXCEPT ![c] = <<0, 0>>]
  /\ back' = back \ {c}

Wait(q) ==
  /\ At(q, {"wait"})
  /\ \/ \E c \in Children(q) : state[c] = "zombie" /\ Reap(c)
     \/ Children(q) = {} /\ UNCHANGED <<state, parent, p, back>>
  /\ Done(q)
  /\ UNCHANGED <<line, ofile, rf, running, files, failed>>

\* init waits for the processes that were left to it.
InitWait ==
  /\ \E c \in Children(init) : state[c] = "zombie" /\ Reap(c)
  /\ UNCHANGED <<line, ofile, todo, rf, running, files, failed>>

-----------------------------------------------------------------------------
Step(q) ==
  \/ Runcmd(q) \/ Close(q) \/ Dup(q) \/ Open(q)
  \/ PipeFirst(q) \/ PipeSecond(q) \/ Fork(q) \/ Exec(q) \/ ReadToEnd(q)
  \/ Exit(q) \/ Wait(q)

\* The line has been run and nothing of it is left.
Quiet ==
  /\ line # None /\ todo[sh] = << >>
  /\ \A q \in Proc \ {sh} : state[q] = "unused"

Next ==
  \/ \E s \in Lines : Type(s)
  \/ \E q \in Proc : Step(q)
  \/ InitWait
  \/ Quiet /\ UNCHANGED vars

\* The scheduler lets every process run, and init waits.
Fairness == (\A q \in Proc : WF_vars(Step(q))) /\ WF_vars(InitWait)

Spec == Init /\ [][Next]_vars /\ Fairness

-----------------------------------------------------------------------------
(* Properties *)

TypeOK ==
  /\ line \in Lines \cup {None}
  /\ state \in [Proc -> {"unused", "run", "zombie"}]
  /\ parent \in [Proc -> Proc \cup {init}]
  /\ ofile \in [Proc -> [Fd -> File \cup {0}]]
  /\ ref \in [File -> Nat]
  /\ p \in [Proc -> Fd \X Fd] /\ rf \in [Proc -> File \cup {None}]
  /\ running \in [Proc -> Seq(Nat) \cup {None}] /\ back \subseteq Proc
  /\ failed \in BOOLEAN

\* The references of an open file are the descriptors that have it, those of
\* init, and pipe's half way: nothing that fork, dup, close, exit or a pipe
\* that fails does loses a file of the table or closes one in use.
FileRefs ==
  /\ TypeOK
  /\ \A f \in File :
       ref[f] = Cardinality({l \in Proc \X Fd : ofile[l[1]][l[2]] = f})
                  + Cardinality({q \in Proc : rf[q] = f})
                  + (IF f = 1 THEN 3 ELSE 0)

\* Every program starts, and runs, with the input and the output that the line
\* gives it, the console as 2, and nothing else open: an end of a pipe left
\* open would keep its reader from ever seeing the end.
Wiring ==
  \A q \in Proc : running[q] # None =>
    /\ [argv |-> running[q], in |-> what[ofile[q][0]], out |-> what[ofile[q][1]]]
         \in Wire(tree(line), Console, Console)
    /\ what[ofile[q][2]] = Console
    /\ \A d \in Fd \ {0, 1, 2} : ofile[q][d] = 0

\* When the shell asks for the next line, what is still running belongs to a
\* command in the background: runcmd waits as often as it has forked.  (Unless
\* a fork failed: fork1 then exits and leaves the left side of a pipe behind.)
PromptMeansDone ==
  line # None /\ todo[sh] = << >> /\ ~failed =>
    \A q \in Proc \ {sh} : state[q] = "run" => q \in back

\* A line comes to an end: every program sees the end of its input, every
\* process is waited for, and the shell prompts again.
LineEnds == (line # None) ~> Quiet
=============================================================================
