------------------------------- MODULE Inodes -------------------------------
(***************************************************************************)
(* Inodes, their cache, and directories (srcs/fs.c), under the system      *)
(* calls that use names (srcs/sysfile.c).                                  *)
(*                                                                         *)
(* What a process does between two waits for a sleep lock is one step.     *)
(* iput is several: it looks at ref, frees the inode and drops the         *)
(* reference under different locks.  A call is one transaction of the log; *)
(* the contents of files is not modelled here.                             *)
(***************************************************************************)
EXTENDS Integers, Sequences, FiniteSetsExt

CONSTANTS Process,
          NInum,       \* inodes on the disk; ROOTINO is 1
          NINODE,      \* entries of the inode cache
          Name,        \* names other than "." and ".."
          Image,       \* names of the files that mkfs puts into the root, in order
          Path,        \* the paths that programs use: [abs, elems]
          Ops,         \* the calls that programs make
          MaxOpen,     \* descriptors of a process
          MaxCalls,    \* bound: calls of all processes
          None

ASSUME InodesAssumption ==
  /\ NInum \in Nat \ {0} /\ NINODE \in Nat \ {0}
  /\ MaxOpen \in Nat /\ MaxCalls \in Nat
  /\ IsFiniteSet(Name) /\ Name \cap {".", ".."} = {}
  /\ Path \subseteq [abs : BOOLEAN, elems : Seq(Name \cup {".", ".."})]
  /\ Ops \subseteq {"open", "creat", "mkdir", "mknod", "link", "unlink",
                    "chdir", "close"}
  /\ Image \in Seq(Name) /\ Len(Image) < NInum
  /\ \A j, k \in 1 .. Len(Image) : Image[j] = Image[k] => j = k
  /\ IsFiniteSet(Process) /\ None \notin Process /\ None \notin 1 .. NINODE

Inum == 1 .. NInum
Slot == 1 .. NINODE
Fd == 1 .. MaxOpen
ROOTINO == 1
Types == {"free", "dir", "file", "dev"}

VARIABLES
  \* struct dinode, and what directories hold
  dtype, dnlink, dent, dotdot,
  \* icache, and the sleep locks of its entries
  icache, lock,
  \* each process: the call, the rest of the path, the inode of namex, the
  \* other one of the call, those it has still to iput, the point in iput
  pc, req, path, w, ip, puts, iph,
  cwd, files,
  \* history: calls made, inodes entered in a directory that has no name, and
  \* whether a process has come to look ".." up in one
  calls, stray, astray

disk  == <<dtype, dnlink, dent, dotdot>>
local == <<req, path, w, ip, puts, iph>>
history == <<calls, stray>>
vars == <<disk, icache, lock, pc, local, cwd, files, history, astray>>

NoEntries == [n \in Name |-> 0]

\* mkfs has made the root and the files of the image; every process has the
\* root as its directory.
Init ==
  /\ dtype = [i \in Inum |-> IF i = ROOTINO THEN "dir"
                             ELSE IF i - 1 \in DOMAIN Image THEN "file" ELSE "free"]
  /\ dnlink = [i \in Inum |-> IF dtype[i] = "free" THEN 0 ELSE 1]
  /\ dent = [i \in Inum |-> [n \in Name |->
       IF i = ROOTINO /\ \E k \in DOMAIN Image : Image[k] = n
       THEN 1 + (CHOOSE k \in DOMAIN Image : Image[k] = n) ELSE 0]]
  /\ dotdot = [i \in Inum |-> IF i = ROOTINO THEN ROOTINO ELSE 0]
  /\ icache = [s \in Slot |->
       [inum |-> IF s = 1 THEN ROOTINO ELSE 0,
        ref |-> IF s = 1 THEN Cardinality(Process) ELSE 0,
        valid |-> FALSE, type |-> "free", nlink |-> 0]]
  /\ lock = [s \in Slot |-> None]
  /\ pc = [p \in Process |-> "user"] /\ req = [p \in Process |-> None]
  /\ path = [p \in Process |-> << >>]
  /\ w = [p \in Process |-> None] /\ ip = [p \in Process |-> None]
  /\ puts = [p \in Process |-> << >>] /\ iph = [p \in Process |-> "no"]
  /\ cwd = [p \in Process |-> 1]
  /\ files = [p \in Process |-> [k \in Fd |-> None]]
  /\ calls = 0 /\ stray = {} /\ astray = FALSE

\* The names of i; the root needs none.
Entries(i) == {d \in Inum \X Name : dent[d[1]][d[2]] = i}
Named(i) == Cardinality(Entries(i)) + (IF i = ROOTINO THEN 1 ELSE 0)

\* Inode i is entered in the directory d.
Strays(d, i) == stray' = IF Named(d) = 0 THEN stray \cup {i} ELSE stray

-----------------------------------------------------------------------------
(* The inode cache. *)

\* The entries of the cache for inode i.
InUse(c, i) == {s \in Slot : c[s].ref > 0 /\ c[s].inum = i}

\* Slip: a recycled entry keeps what it knew of another inode.
recycled_valid(e, i) == [e EXCEPT !.inum = i, !.ref = 1]

recycled(e, i) == [e EXCEPT !.inum = i, !.ref = 1, !.valid = FALSE]

\* The entry that iget(i) returns, and the cache after it.
iget_slot(c, i) ==
  IF InUse(c, i) # {} THEN CHOOSE s \in InUse(c, i) : TRUE
  ELSE Min({s \in Slot : c[s].ref = 0})

iget(c, i) ==
  LET s == iget_slot(c, i) IN
  IF InUse(c, i) # {} THEN [c EXCEPT ![s].ref = @ + 1]
  ELSE [c EXCEPT ![s] = recycled(@, i)]

\* iget(i) finds an entry ("iget: no inodes" stops the machine).
room(c, i) == InUse(c, i) # {} \/ \E s \in Slot : c[s].ref = 0

idup(c, s) == [c EXCEPT ![s].ref = @ + 1]

\* The entry s after ilock has read it.
ilocked(s) ==
  IF icache[s].valid THEN icache[s]
  ELSE [icache[s] EXCEPT !.valid = TRUE,
          !.type = dtype[icache[s].inum], !.nlink = dnlink[icache[s].inum]]

Free(s) == lock[s] = None

\* ilock(s) goes on ("ilock: no type" stops the machine).
Ilock(s) ==
  /\ Free(s)
  /\ ~icache[s].valid => dtype[icache[s].inum] # "free"

iunlock(s) == lock' = [lock EXCEPT ![s] = None]

\* The inode e is copied to the disk.
iupdate(e) ==
  /\ dtype' = [dtype EXCEPT ![e.inum] = e.type]
  /\ dnlink' = [dnlink EXCEPT ![e.inum] = e.nlink]

\* Slip: iput frees an inode that others use.
may_free_shared(s) == icache[s].valid /\ icache[s].nlink = 0

\* iput's test, with the lock.
may_free(s) == icache[s].valid /\ icache[s].nlink = 0 /\ icache[s].ref = 1

\* iput(puts[p][1]): the tests with the lock of the inode ...
IputTest(p) ==
  /\ puts[p] # << >> /\ iph[p] = "no"
  /\ LET s == Head(puts[p]) IN
     /\ Free(s)
     /\ \/ /\ may_free(s)
           /\ lock' = [lock EXCEPT ![s] = p]
           /\ iph' = [iph EXCEPT ![p] = "free"]
        \/ /\ ~may_free(s)
           /\ iph' = [iph EXCEPT ![p] = "drop"]
           /\ UNCHANGED lock
  /\ UNCHANGED <<disk, icache, pc, req, path, w, ip, puts>>
  /\ UNCHANGED <<cwd, files, history>>

\* ... itrunc, type = 0 and iupdate ...
IputFree(p) ==
  /\ iph[p] = "free"
  /\ LET s == Head(puts[p]) IN
     /\ icache' = [icache EXCEPT ![s].type = "free"]
     /\ iupdate(icache'[s])
     /\ dent' = [dent EXCEPT ![icache[s].inum] = NoEntries]
     /\ dotdot' = [dotdot EXCEPT ![icache[s].inum] = 0]
  /\ iph' = [iph EXCEPT ![p] = "invalid"]
  /\ UNCHANGED <<lock, pc, req, path, w, ip, puts, cwd, files, history>>

\* ... valid = 0 and the lock ...
IputInvalid(p) ==
  /\ iph[p] = "invalid"
  /\ icache' = [icache EXCEPT ![Head(puts[p])].valid = FALSE]
  /\ iunlock(Head(puts[p]))
  /\ iph' = [iph EXCEPT ![p] = "drop"]
  /\ UNCHANGED <<disk, pc, req, path, w, ip, puts, cwd, files, history>>

\* ... and the reference.
IputDrop(p) ==
  /\ iph[p] = "drop"
  /\ icache' = [icache EXCEPT ![Head(puts[p])].ref = @ - 1]
  /\ puts' = [puts EXCEPT ![p] = Tail(@)]
  /\ iph' = [iph EXCEPT ![p] = "no"]
  /\ UNCHANGED <<disk, lock, pc, req, path, w, ip, cwd, files, history>>

-----------------------------------------------------------------------------
(* Path names. *)

\* A call enters namex with the path pt and the cache c.
Start(p, pt, c) ==
  /\ pt.abs => room(c, ROOTINO)
  /\ icache' = IF pt.abs THEN iget(c, ROOTINO) ELSE idup(c, cwd[p])
  /\ w' = [w EXCEPT ![p] = IF pt.abs THEN iget_slot(c, ROOTINO) ELSE cwd[p]]
  /\ path' = [path EXCEPT ![p] = pt.elems]
  /\ pc' = [pc EXCEPT ![p] = "walk"]

\* begin_op and the first namex of a call.
Call(p) ==
  /\ pc[p] = "user" /\ calls < MaxCalls
  /\ \E op \in Ops \ {"close"}, pt \in Path :
       \E new \in IF op = "link" THEN Path ELSE {pt} :
         /\ req' = [req EXCEPT ![p] = [op |-> op, new |-> new]]
         /\ Start(p, pt, icache)
  /\ calls' = calls + 1
  /\ UNCHANGED <<disk, lock, ip, puts, iph, cwd, files, stray>>

\* fileclose of the last reference of a file.
Close(p) ==
  /\ pc[p] = "user" /\ calls < MaxCalls /\ "close" \in Ops
  /\ \E k \in Fd :
       /\ files[p][k] # None
       /\ puts' = [puts EXCEPT ![p] = <<files[p][k]>>]
       /\ files' = [files EXCEPT ![p][k] = None]
  /\ pc' = [pc EXCEPT ![p] = "end"]
  /\ calls' = calls + 1
  /\ UNCHANGED <<disk, icache, lock, req, path, w, ip, iph, cwd, stray>>

\* dirlookup of n in the directory i: an inode number, or 0.
dirlookup(i, n) ==
  CASE n = "."  -> i
    [] n = ".." -> dotdot[i]
    [] OTHER    -> dent[i][n]

\* dirlink writes the entry n of the directory d.
dirlink(d, n, i) == dent' = [dent EXCEPT ![d][n] = i]

\* The namex in progress is nameiparent, and the point where it fails.
wants_parent(p) ==
  req[p].op \in {"creat", "mkdir", "mknod", "unlink"} \/ ip[p] # None

failed(p) == IF ip[p] # None THEN "bad" ELSE "end"

\* Process p gives w[p] up and goes to point q.
PutW(p, q) ==
  /\ puts' = [puts EXCEPT ![p] = <<w[p]>>]
  /\ w' = [w EXCEPT ![p] = None]
  /\ pc' = [pc EXCEPT ![p] = q]

\* One turn of namex: it goes on to the next inode, returns, or fails.
WalkNext(p) ==
  /\ pc[p] = "walk" /\ puts[p] = << >>
  /\ path[p] # << >> /\ ~(wants_parent(p) /\ Len(path[p]) = 1)
  /\ LET s == w[p]
         e == ilocked(s)
         i == dirlookup(e.inum, Head(path[p]))
         c == [icache EXCEPT ![s] = e]
     IN  /\ Ilock(s) /\ e.type = "dir" /\ i # 0 /\ room(c, i)
         /\ icache' = iget(c, i)
         /\ w' = [w EXCEPT ![p] = iget_slot(c, i)]
         /\ puts' = [puts EXCEPT ![p] = <<s>>]
  /\ path' = [path EXCEPT ![p] = Tail(@)]
  /\ UNCHANGED <<disk, lock, pc, req, ip, iph, cwd, files, history>>

WalkEnd(p) ==
  /\ pc[p] = "walk" /\ puts[p] = << >>
  /\ \/ path[p] = << >> /\ ~wants_parent(p) /\ UNCHANGED icache
     \/ /\ Len(path[p]) = 1 /\ wants_parent(p) /\ Ilock(w[p])
        /\ ilocked(w[p]).type = "dir"
        /\ icache' = [icache EXCEPT ![w[p]] = ilocked(w[p])]
  /\ pc' = [pc EXCEPT ![p] = "at"]
  /\ UNCHANGED <<disk, lock, local, cwd, files, history>>

WalkFails(p) ==
  /\ pc[p] = "walk" /\ puts[p] = << >>
  /\ \/ path[p] = << >> /\ wants_parent(p) /\ UNCHANGED icache
     \/ /\ path[p] # << >> /\ Ilock(w[p])
        /\ \/ ilocked(w[p]).type # "dir"
           \/ /\ ~(wants_parent(p) /\ Len(path[p]) = 1)
              /\ dirlookup(icache[w[p]].inum, Head(path[p])) = 0
        /\ icache' = [icache EXCEPT ![w[p]] = ilocked(w[p])]
  /\ PutW(p, failed(p))
  /\ UNCHANGED <<disk, lock, req, path, ip, iph, cwd, files, history>>

\* end_op and the return.
Return(p) ==
  /\ pc[p] = "end" /\ puts[p] = << >>
  /\ pc' = [pc EXCEPT ![p] = "user"] /\ req' = [req EXCEPT ![p] = None]
  /\ path' = [path EXCEPT ![p] = << >>]
  /\ UNCHANGED <<disk, icache, lock, w, ip, puts, iph, cwd, files, history>>

-----------------------------------------------------------------------------
(* sys_open and sys_chdir *)

At(p, S) == pc[p] = "at" /\ puts[p] = << >> /\ req[p].op \in S

\* filealloc and fdalloc find a place.
may_open(p) == \E k \in Fd : files[p][k] = None

\* fdalloc gives the inode s the first descriptor that is free.
fdalloc(p, s) ==
  \E k \in Fd :
    /\ files[p][k] = None /\ \A j \in 1 .. k - 1 : files[p][j] # None
    /\ files' = [files EXCEPT ![p][k] = s]

\* open without O_CREATE; a directory can be opened for reading only.
Open(p) ==
  /\ At(p, {"open"}) /\ Ilock(w[p])
  /\ icache' = [icache EXCEPT ![w[p]] = ilocked(w[p])]
  /\ \/ /\ fdalloc(p, w[p])
        /\ w' = [w EXCEPT ![p] = None]
        /\ pc' = [pc EXCEPT ![p] = "end"]
        /\ UNCHANGED puts
     \/ /\ ilocked(w[p]).type = "dir" \/ ~may_open(p)
        /\ PutW(p, "end")
        /\ UNCHANGED files
  /\ UNCHANGED <<disk, lock, req, path, ip, iph, cwd, history>>

\* The inode that chdir gives up.
\* Slip: the one it has just found.
left_new(p) == w[p]

left(p) == cwd[p]

Chdir(p) ==
  /\ At(p, {"chdir"}) /\ Ilock(w[p])
  /\ icache' = [icache EXCEPT ![w[p]] = ilocked(w[p])]
  /\ \/ /\ ilocked(w[p]).type # "dir"
        /\ PutW(p, "end")
        /\ UNCHANGED cwd
     \/ /\ ilocked(w[p]).type = "dir"
        /\ puts' = [puts EXCEPT ![p] = <<left(p)>>]
        /\ cwd' = [cwd EXCEPT ![p] = w[p]]
        /\ w' = [w EXCEPT ![p] = None]
        /\ pc' = [pc EXCEPT ![p] = "end"]
  /\ UNCHANGED <<disk, lock, req, path, ip, iph, files, history>>

-----------------------------------------------------------------------------
(* create: open with O_CREATE, mkdir, mknod *)

ParentOps == {"creat", "mkdir", "mknod"}
new_type(p) == CASE req[p].op = "creat" -> "file"
                 [] req[p].op = "mkdir" -> "dir"
                 [] req[p].op = "mknod" -> "dev"

\* The name is there already; or ialloc takes the first free inode.
CreateExists(p) ==
  /\ At(p, ParentOps) /\ Ilock(w[p])
  /\ LET c == [icache EXCEPT ![w[p]] = ilocked(w[p])]
         i == dirlookup(icache[w[p]].inum, Head(path[p]))
     IN  /\ i # 0 /\ room(c, i)
         /\ icache' = iget(c, i)
         /\ ip' = [ip EXCEPT ![p] = iget_slot(c, i)]
  /\ PutW(p, "exists")
  /\ UNCHANGED <<disk, lock, req, path, iph, cwd, files, history>>

CreateAlloc(p) ==
  /\ At(p, ParentOps) /\ Ilock(w[p])
  /\ LET c == [icache EXCEPT ![w[p]] = ilocked(w[p])]
         i == Min({j \in Inum : dtype[j] = "free"})
     IN  /\ dirlookup(icache[w[p]].inum, Head(path[p])) = 0
         /\ (\E j \in Inum : dtype[j] = "free") /\ room(c, i)
         /\ dtype' = [dtype EXCEPT ![i] = new_type(p)]
         /\ dnlink' = [dnlink EXCEPT ![i] = 0]
         /\ icache' = iget(c, i)
         /\ ip' = [ip EXCEPT ![p] = iget_slot(c, i)]
  /\ lock' = [lock EXCEPT ![w[p]] = p]
  /\ pc' = [pc EXCEPT ![p] = "init"]
  /\ UNCHANGED <<dent, dotdot, req, path, w, puts, iph, cwd, files, history>>

\* ilock of the new inode, its link count, the entries, iunlock(dp).
CreateInit(p) ==
  /\ pc[p] = "init" /\ Ilock(ip[p])
  /\ LET e == ilocked(ip[p])
         d == icache[w[p]]
         k == d.nlink + (IF req[p].op = "mkdir" THEN 1 ELSE 0)
     IN  /\ icache' = [icache EXCEPT ![ip[p]] = [e EXCEPT !.nlink = 1],
                                     ![w[p]].nlink = k]
         /\ dnlink' = [dnlink EXCEPT ![e.inum] = 1, ![d.inum] = k]
         /\ dirlink(d.inum, Head(path[p]), e.inum)
         /\ dotdot' = IF req[p].op = "mkdir"
                      THEN [dotdot EXCEPT ![e.inum] = d.inum] ELSE dotdot
         /\ Strays(d.inum, e.inum)
  /\ lock' = [lock EXCEPT ![w[p]] = None, ![ip[p]] = p]
  /\ PutW(p, "created")
  /\ UNCHANGED <<dtype, req, path, ip, iph, cwd, files, calls>>

\* Process p gives ip[p] up, with its lock, and the call ends.
PutIp(p) ==
  /\ iunlock(ip[p])
  /\ puts' = [puts EXCEPT ![p] = <<ip[p]>>]
  /\ ip' = [ip EXCEPT ![p] = None]
  /\ pc' = [pc EXCEPT ![p] = "end"]

\* The inode that was there: a file is good for open, all else fails.
CreateOld(p) ==
  /\ pc[p] = "exists" /\ puts[p] = << >> /\ Ilock(ip[p])
  /\ icache' = [icache EXCEPT ![ip[p]] = ilocked(ip[p])]
  /\ \/ /\ req[p].op = "creat" /\ ilocked(ip[p]).type = "file"
        /\ lock' = [lock EXCEPT ![ip[p]] = p]
        /\ pc' = [pc EXCEPT ![p] = "created"]
        /\ UNCHANGED <<ip, puts>>
     \/ /\ ~(req[p].op = "creat" /\ ilocked(ip[p]).type = "file")
        /\ PutIp(p)
  /\ UNCHANGED <<disk, req, path, w, iph, cwd, files, history>>

\* What the three calls do with the inode that create returned.
Created(p) ==
  /\ pc[p] = "created" /\ puts[p] = << >>
  /\ \/ /\ req[p].op = "creat" /\ fdalloc(p, ip[p])
        /\ iunlock(ip[p])
        /\ ip' = [ip EXCEPT ![p] = None]
        /\ pc' = [pc EXCEPT ![p] = "end"]
        /\ UNCHANGED puts
     \/ /\ ~(req[p].op = "creat" /\ may_open(p))
        /\ PutIp(p)
        /\ UNCHANGED files
  /\ UNCHANGED <<disk, icache, req, path, w, iph, cwd, history>>

-----------------------------------------------------------------------------
(* sys_unlink *)

isdirempty(i) == dent[i] = NoEntries

UnlinkLookup(p) ==
  /\ At(p, {"unlink"}) /\ Ilock(w[p])
  /\ LET c == [icache EXCEPT ![w[p]] = ilocked(w[p])]
         n == Head(path[p])
         i == dirlookup(icache[w[p]].inum, n)
     IN  \/ /\ n \notin {".", ".."} /\ i # 0 /\ room(c, i)
            /\ icache' = iget(c, i)
            /\ ip' = [ip EXCEPT ![p] = iget_slot(c, i)]
            /\ lock' = [lock EXCEPT ![w[p]] = p]
            /\ pc' = [pc EXCEPT ![p] = "unlink"]
            /\ UNCHANGED <<puts, w>>
         \/ /\ n \in {".", ".."} \/ i = 0
            /\ icache' = c
            /\ PutW(p, "end")
            /\ UNCHANGED <<ip, lock>>
  /\ UNCHANGED <<disk, req, path, iph, cwd, files, history>>

\* Links of the directory that go with an inode of type t.
dotdot_links(t) == IF t = "dir" THEN 1 ELSE 0

\* With both locks: the entry is cleared and the directory let go, or ...
UnlinkEntry(p) ==
  /\ pc[p] = "unlink" /\ Ilock(ip[p])
  /\ LET e == ilocked(ip[p])
         d == icache[w[p]]
         k == d.nlink - dotdot_links(e.type)
     IN  /\ e.nlink >= 1 /\ (e.type = "dir" => isdirempty(e.inum))
         /\ icache' = [icache EXCEPT ![ip[p]] = e, ![w[p]].nlink = k]
         /\ dnlink' = [dnlink EXCEPT ![d.inum] = k]
         /\ dent' = [dent EXCEPT ![d.inum][Head(path[p])] = 0]
  /\ lock' = [lock EXCEPT ![w[p]] = None, ![ip[p]] = p]
  /\ PutW(p, "drop")
  /\ UNCHANGED <<dtype, dotdot, req, path, ip, iph, cwd, files, history>>

UnlinkDrop(p) ==
  /\ pc[p] = "drop" /\ puts[p] = << >>
  /\ icache' = [icache EXCEPT ![ip[p]].nlink = @ - 1]
  /\ iupdate(icache'[ip[p]])
  /\ PutIp(p)
  /\ UNCHANGED <<dent, dotdot, req, path, w, iph, cwd, files, history>>

\* ... it is a directory with entries: iunlockput(ip), dp still locked, ...
UnlinkRefused(p) ==
  /\ pc[p] = "unlink" /\ Ilock(ip[p])
  /\ ilocked(ip[p]).nlink >= 1
  /\ ilocked(ip[p]).type = "dir" /\ ~isdirempty(icache[ip[p]].inum)
  /\ icache' = [icache EXCEPT ![ip[p]] = ilocked(ip[p])]
  /\ puts' = [puts EXCEPT ![p] = <<ip[p]>>]
  /\ ip' = [ip EXCEPT ![p] = None]
  /\ pc' = [pc EXCEPT ![p] = "refused"]
  /\ UNCHANGED <<disk, lock, req, path, w, iph, cwd, files, history>>

\* ... and iunlockput(dp), here and where link fails.
Refused(p) ==
  /\ pc[p] = "refused" /\ puts[p] = << >>
  /\ iunlock(w[p])
  /\ PutW(p, failed(p))
  /\ UNCHANGED <<disk, icache, req, path, ip, iph, cwd, files, history>>

-----------------------------------------------------------------------------
(* sys_link *)

LinkInc(p) ==
  /\ At(p, {"link"}) /\ ip[p] = None /\ Ilock(w[p])
  /\ LET e == ilocked(w[p])
         i == [e EXCEPT !.nlink = @ + 1]
         pt == req[p].new
         c == [icache EXCEPT ![w[p]] = i]
     IN  /\ e.type # "dir"
         /\ iupdate(i)
         /\ ip' = [ip EXCEPT ![p] = w[p]]
         /\ Start(p, pt, c)
  /\ UNCHANGED <<dent, dotdot, lock, req, puts, iph, cwd, files, history>>

LinkDir(p) ==
  /\ At(p, {"link"}) /\ ip[p] = None /\ Ilock(w[p])
  /\ ilocked(w[p]).type = "dir"
  /\ icache' = [icache EXCEPT ![w[p]] = ilocked(w[p])]
  /\ PutW(p, "end")
  /\ UNCHANGED <<disk, lock, req, path, ip, iph, cwd, files, history>>

\* dirlink in the parent of the new name: iput of the inode that has it ...
LinkExists(p) ==
  /\ At(p, {"link"}) /\ ip[p] # None /\ Ilock(w[p])
  /\ LET c == [icache EXCEPT ![w[p]] = ilocked(w[p])]
         i == dirlookup(icache[w[p]].inum, Head(path[p]))
     IN  /\ i # 0 /\ room(c, i)
         /\ icache' = iget(c, i)
         /\ puts' = [puts EXCEPT ![p] = <<iget_slot(c, i)>>]
  /\ lock' = [lock EXCEPT ![w[p]] = p]
  /\ pc' = [pc EXCEPT ![p] = "refused"]
  /\ UNCHANGED <<disk, req, path, w, ip, iph, cwd, files, history>>

\* ... or the entry, and the end of the call.
LinkEntry(p) ==
  /\ At(p, {"link"}) /\ ip[p] # None /\ Ilock(w[p])
  /\ dirlookup(icache[w[p]].inum, Head(path[p])) = 0
  /\ icache' = [icache EXCEPT ![w[p]] = ilocked(w[p])]
  /\ dirlink(icache[w[p]].inum, Head(path[p]), icache[ip[p]].inum)
  /\ puts' = [puts EXCEPT ![p] = <<w[p], ip[p]>>]
  /\ w' = [w EXCEPT ![p] = None] /\ ip' = [ip EXCEPT ![p] = None]
  /\ pc' = [pc EXCEPT ![p] = "end"]
  /\ Strays(icache[w[p]].inum, icache[ip[p]].inum)
  /\ UNCHANGED <<dtype, dnlink, dotdot, lock, req, path, iph>>
  /\ UNCHANGED <<cwd, files, calls>>

\* The links that are left when link has failed.
\* Slip: the one it has added stays.
unlinked_not(e) == e

unlinked(e) == [e EXCEPT !.nlink = @ - 1]

LinkBad(p) ==
  /\ pc[p] = "bad" /\ puts[p] = << >> /\ Ilock(ip[p])
  /\ icache' = [icache EXCEPT ![ip[p]] = unlinked(ilocked(ip[p]))]
  /\ iupdate(icache'[ip[p]])
  /\ PutIp(p)
  /\ UNCHANGED <<dent, dotdot, req, path, w, iph, cwd, files, history>>

-----------------------------------------------------------------------------
Step(p) ==
  \/ IputTest(p) \/ IputFree(p) \/ IputInvalid(p) \/ IputDrop(p)
  \/ Call(p) \/ Close(p) \/ Return(p)
  \/ WalkNext(p) \/ WalkEnd(p) \/ WalkFails(p)
  \/ Open(p) \/ Chdir(p)
  \/ CreateExists(p) \/ CreateAlloc(p) \/ CreateInit(p)
  \/ CreateOld(p) \/ Created(p)
  \/ UnlinkLookup(p) \/ UnlinkEntry(p) \/ UnlinkDrop(p)
  \/ UnlinkRefused(p) \/ Refused(p)
  \/ LinkInc(p) \/ LinkDir(p) \/ LinkExists(p) \/ LinkEntry(p) \/ LinkBad(p)

\* No process is about to look ".." up in a directory that has no name.
DotDotNamed ==
  \A p \in Process :
    pc[p] \in {"walk", "at"} /\ path[p] # << >> =>
      (Head(path[p]) = ".." => Named(icache[w[p]].inum) > 0)

Next ==
  /\ \E p \in Process : Step(p)
  /\ astray' = (astray \/ ~DotDotNamed)

Spec == Init /\ [][Next]_vars

-----------------------------------------------------------------------------
(* Properties *)

Points == {"user", "walk", "at", "init", "exists", "created", "unlink", "drop",
           "refused", "bad", "end"}
Entry == [inum : Inum \cup {0}, ref : Nat, valid : BOOLEAN, type : Types, nlink : Int]

TypeOK ==
  /\ dtype \in [Inum -> Types] /\ dnlink \in [Inum -> Int]
  /\ dent \in [Inum -> [Name -> Inum \cup {0}]]
  /\ dotdot \in [Inum -> Inum \cup {0}]
  /\ icache \in [Slot -> Entry]
  /\ lock \in [Slot -> Process \cup {None}]
  /\ pc \in [Process -> Points]
  /\ req \in [Process -> [op : Ops, new : Path] \cup {None}]
  /\ path \in [Process -> Seq(Name \cup {".", ".."})]
  /\ w \in [Process -> Slot \cup {None}] /\ ip \in [Process -> Slot \cup {None}]
  /\ puts \in [Process -> Seq(Slot)]
  /\ iph \in [Process -> {"no", "free", "invalid", "drop"}]
  /\ cwd \in [Process -> Slot] /\ files \in [Process -> [Fd -> Slot \cup {None}]]
  /\ calls \in Nat /\ stray \subseteq Inum

\* Where a process keeps pointers to entries of the cache: its directory, the
\* two inodes of the call, the inodes to put (counted from the last), and files.
Place == ({"cwd", "w", "ip"} \X {0}) \cup ({"put"} \X {1, 2}) \cup ({"fd"} \X Fd)
pointer(p, l) ==
  CASE l[1] = "cwd" -> cwd[p]
    [] l[1] = "w"   -> w[p]
    [] l[1] = "ip"  -> ip[p]
    [] l[1] = "put" -> IF l[2] <= Len(puts[p]) THEN puts[p][Len(puts[p]) + 1 - l[2]]
                       ELSE None
    [] l[1] = "fd"  -> files[p][l[2]]
Refs(s) == {x \in Process \X Place : pointer(x[1], x[2]) = s}

\* The reference count of an inode is the number of pointers that processes,
\* calls in progress and open files have to it, on every error path of namex,
\* create, link and unlink: a count too low recycles an inode in use, one too
\* high keeps its entry, and its blocks, for ever.
RefsExact ==
  /\ TypeOK
  /\ \A p \in Process : Len(puts[p]) <= 2
  /\ \A s \in Slot : icache[s].ref = Cardinality(Refs(s))

\* iget never makes a second entry of the cache for an inode (two copies, and
\* two locks, of one inode), and "i-node cache is write-through": whenever
\* nobody holds its lock, a valid entry agrees with the inode on the disk.
CacheExact ==
  \A s \in Slot : icache[s].ref > 0 =>
    LET e == icache[s] IN
    /\ InUse(icache, e.inum) = {s}
    /\ e.valid /\ lock[s] = None
         => e.type = dtype[e.inum] /\ e.nlink = dnlink[e.inum]

\* The inodes that process p has pointers to, other than the ones it gives up.
Wanted(p) == ({w[p], ip[p], cwd[p]} \cup {files[p][k] : k \in Fd}) \ {None}

\* ilock finds an inode that is not allocated (panic "ilock: no type") only
\* after a process has followed the ".." of a directory that was removed: iput
\* frees no inode that a process has a pointer to, and ialloc gives none away
\* that iput has not finished with.  The exception is real.  unlink takes the
\* ".." of a removed directory off the links of its parent and leaves the entry
\* there, so a process whose directory it is can look up a parent that was
\* removed in its turn and freed.
NoTypePanic ==
  ~astray => \A p \in Process : \A s \in Wanted(p) :
               lock[s] = None => ilocked(s).type # "free"

\* Every directory entry, at every moment, names an inode that is allocated
\* and whose link count on the disk covers its entries: iput cannot free an
\* inode that still has a name, whatever link, unlink and create are doing.
\* Between transactions the link count of every inode that has a name is the
\* number of its names and of the ".." entries of the named directories in it:
\* nothing that fails half way leaves a link too many, which would keep the
\* inode for ever after its last name is gone.  Exempt are the inodes that
\* sys_link or create entered in a directory that had been removed meanwhile:
\* dirlink does not look at the link count of the directory.
LinksExact ==
  /\ \A i \in Inum :
       Entries(i) # {} => dtype[i] # "free" /\ dnlink[i] >= Named(i)
  /\ (\A p \in Process : pc[p] = "user") =>
       \A i \in Inum :
         Named(i) > 0 /\ i \notin stray =>
           dnlink[i] = Named(i)
             + Cardinality({d \in Inum \ {i} : dotdot[d] = i /\ Named(d) > 0})

\* Process p waits for the lock of the entry s.
WaitsFor(p, s) ==
  /\ lock[s] # None
  /\ \/ puts[p] # << >> /\ iph[p] = "no" /\ s = Head(puts[p])
     \/ /\ puts[p] = << >>
        /\ \/ pc[p] = "walk" /\ path[p] # << >> /\ s = w[p]
           \/ pc[p] = "at" /\ s = w[p]
           \/ pc[p] \in {"init", "exists", "unlink", "bad"} /\ s = ip[p]

\* No processes wait for each other's inode locks in a circle.
NoLockCycle ==
  ~ \E P \in (SUBSET Process) \ {{}} :
      \A p \in P : \E s \in Slot : WaitsFor(p, s) /\ lock[s] \in P
=============================================================================
