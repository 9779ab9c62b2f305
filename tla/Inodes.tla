------------------------------- MODULE Inodes -------------------------------
(***************************************************************************)
(* The inode cache and the directories (fs.c), the file table (file.c) and *)
(* the system calls that name files (sysfile.c).  The calls of different   *)
(* processes interleave at every sleep-lock: what a call does while it     *)
(* holds one inode is one step, and so is every use of icache.lock or      *)
(* ftable.lock outside of that.                                            *)
(*                                                                         *)
(* The cache is write-through (iupdate) and has one entry per inode, so an *)
(* inode and its cached copy are one here; ip->valid says whether the copy *)
(* has been read.  Transactions are those of module Log.                   *)
(***************************************************************************)
EXTENDS Integers, Sequences, FiniteSets, FiniteSetsExt

CONSTANTS
  Procs,
  NINODES,     (* inodes on the disk; number 1 is the root directory       *)
  Names,       (* names of directory entries, other than . and ..          *)
  NFILE,       (* entries of ftable.file                                   *)
  None,        (* no process                                               *)
  Calls,       (* the system calls programs make, with their paths         *)
  MaxLinks     (* bound: no link() begins when a link count exceeds it     *)

ASSUME InodesAssumption == NINODES \in Nat \ {0} /\ NFILE \in Nat \ {0} /\ MaxLinks \in Nat
ASSUME CallsAssumption ==
  \A c \in Calls : /\ c.call \in {"open", "create", "mkdir", "unlink", "link"}
                   /\ c.path \in Seq(Names) \ {<< >>}
                   /\ c.new \in Seq(Names)

VARIABLES
  type, nlink, ents,  (* of an inode: its type, links and entries          *)
  ref, valid, holder, (* of its cache entry: ip->ref, ip->valid, ip->lock  *)
  fref, fip,          (* of an open file: f->ref, and f->ip if FD_INODE    *)
  ofile,              (* the descriptor of a process, 0 if it has none     *)
  proc,               (* where each process is in its system call          *)
  panicked            (* why the kernel has panicked, or "no"              *)

inodeVars == <<type, nlink, ents>>
fileVars == <<fref, fip, ofile>>
vars == <<type, nlink, ents, ref, valid, holder, fref, fip, ofile, proc, panicked>>

Inums == 1 .. NINODES
ROOTINO == 1
Files == 1 .. NFILE

(* A process: its call, what namex() has left, the pointers to inodes that *)
(* its variables hold, and the inodes it is about to iput().               *)
Idle == [pc |-> "user", call |-> "none", rest |-> << >>, new |-> << >>,
         ip |-> 0, dp |-> 0, puts |-> << >>, dropping |-> FALSE]

(* A directory without entries, and what itrunc() leaves of one. *)
NoEntries == [n \in Names |-> 0]

(* The file system as mkfs makes it. *)
Init ==
  /\ type = [i \in Inums |-> IF i = ROOTINO THEN "DIR" ELSE "FREE"]
  /\ nlink = [i \in Inums |-> IF i = ROOTINO THEN 1 ELSE 0]
  /\ ents = [i \in Inums |-> NoEntries]
  /\ ref = [i \in Inums |-> 0]
  /\ valid = [i \in Inums |-> FALSE]
  /\ holder = [i \in Inums |-> None]
  /\ fref = [f \in Files |-> 0]
  /\ fip = [f \in Files |-> 0]
  /\ ofile = [p \in Procs |-> 0]
  /\ proc = [p \in Procs |-> Idle]
  /\ panicked = "no"

-----------------------------------------------------------------------------
(* iget(i): find the cache entry or make one. *)
iget(i) ==
  /\ ref' = [ref EXCEPT ![i] = @ + 1]
  /\ valid' = [valid EXCEPT ![i] = @ /\ ref[i] > 0]

(* dirlookup(): the inode that a directory has under a name, 0 if none. *)
dirlookup(d, name) == ents[d][name]

(* ialloc(): the first free inode. *)
Free == {i \in Inums : type[i] = "FREE"}
ialloc == Min(Free)

(* Process p goes on as s, with pointers and iput()s as given. *)
Goes(p, s) == proc' = [proc EXCEPT ![p] = s]

(* p is at pc, and done with the iput()s before it. *)
At(p, pc) == proc[p].pc = pc /\ proc[p].puts = << >>

Returns(puts) == [Idle EXCEPT !.puts = puts]

(* ilock(i) can be taken, and has read the inode. *)
ilock(i) ==
  /\ holder[i] = None
  /\ panicked' = IF ~valid[i] /\ type[i] = "FREE" THEN "ilock: no type" ELSE "no"

-----------------------------------------------------------------------------
(* A path is looked up from the root, by namei() or nameiparent(). *)
begin(p, c) ==
  /\ At(p, "user")
  /\ c.call = "link" => \A i \in Inums : nlink[i] <= MaxLinks
  /\ iget(ROOTINO)
  /\ Goes(p, [Idle EXCEPT !.pc = "namex", !.call = c.call, !.rest = c.path,
                          !.new = c.new, !.dp = ROOTINO])
  /\ UNCHANGED <<inodeVars, holder, fileVars, panicked>>

ByParent(call) == call \in {"create", "mkdir", "unlink", "link_new"}

Fails_NoPut(me, puts) ==
  IF me.call = "link_new" THEN [me EXCEPT !.pc = "link_bad", !.dp = 0]
                          ELSE Returns(<< >>)
(* namex() fails: sys_link() has to undo its nlink++, the others return. *)
Fails(me, puts) ==
  IF me.call = "link_new" THEN [me EXCEPT !.pc = "link_bad", !.dp = 0, !.puts = puts]
                          ELSE Returns(puts)

(* One turn of the loop of namex(): look at the directory, then go on. *)
namex(p) ==
  LET me == proc[p]
      i == me.dp
      next == dirlookup(i, Head(me.rest))
      last == Len(me.rest) = 1
  IN  /\ At(p, "namex")
      /\ ilock(i)
      /\ \/ /\ type[i] # "DIR" \/ (next = 0 /\ ~(last /\ ByParent(me.call)))
            /\ valid' = [valid EXCEPT ![i] = TRUE]
            /\ Goes(p, Fails(me, <<i>>))
            /\ UNCHANGED ref
         \/ /\ type[i] = "DIR" /\ last /\ ByParent(me.call)
            /\ valid' = [valid EXCEPT ![i] = TRUE]
            /\ Goes(p, [me EXCEPT !.pc = me.call])
            /\ UNCHANGED ref
         \/ /\ type[i] = "DIR" /\ next # 0 /\ ~(last /\ ByParent(me.call))
            /\ ref' = [ref EXCEPT ![next] = @ + 1]
            /\ valid' = [valid EXCEPT ![i] = TRUE, ![next] = @ /\ ref[next] > 0]
            /\ Goes(p, IF last
                         THEN [me EXCEPT !.pc = me.call, !.ip = next, !.dp = 0,
                                         !.puts = <<i>>]
                         ELSE [me EXCEPT !.rest = Tail(@), !.dp = next,
                                         !.puts = <<i>>])
      /\ UNCHANGED <<inodeVars, holder, fileVars>>

(* Whether iput() finds the last reference to an inode without links. *)
LastRef_Links(i) == valid[i] /\ ref[i] = 1
LastRef(i) == valid[i] /\ nlink[i] = 0 /\ ref[i] = 1

(* iput() while it holds ip->lock: truncate and free what nobody needs. *)
iput(p) ==
  LET me == proc[p]
      i == Head(me.puts)
  IN  /\ me.puts # << >> /\ ~me.dropping
      /\ holder[i] = None
      /\ IF LastRef(i)
           THEN /\ type' = [type EXCEPT ![i] = "FREE"]
                /\ ents' = [ents EXCEPT ![i] = NoEntries]
                /\ valid' = [valid EXCEPT ![i] = FALSE]
           ELSE UNCHANGED <<type, ents, valid>>
      /\ Goes(p, [me EXCEPT !.dropping = TRUE])
      /\ UNCHANGED <<nlink, ref, holder, fileVars, panicked>>

(* The end of iput(), under icache.lock. *)
iput_ref(p) ==
  LET me == proc[p]
  IN  /\ me.dropping
      /\ ref' = [ref EXCEPT ![Head(me.puts)] = @ - 1]
      /\ Goes(p, [me EXCEPT !.dropping = FALSE, !.puts = Tail(@)])
      /\ UNCHANGED <<inodeVars, valid, holder, fileVars, panicked>>

-----------------------------------------------------------------------------
(* sys_open() of an existing file: ilock() what namei() has found. *)
open(p) ==
  LET me == proc[p]
  IN  /\ At(p, "open")
      /\ ilock(me.ip)
      /\ valid' = [valid EXCEPT ![me.ip] = TRUE]
      /\ holder' = [holder EXCEPT ![me.ip] = p]
      /\ Goes(p, [me EXCEPT !.pc = "locked"])
      /\ UNCHANGED <<inodeVars, ref, fileVars>>

(* create() with its directory locked: the name is there, or is made. *)
create(p) ==
  LET me == proc[p]
      name == me.rest[1]
      old == dirlookup(me.dp, name)
      i == ialloc
  IN  /\ At(p, "create") \/ At(p, "mkdir")
      /\ \/ /\ old # 0
            /\ ilock(me.dp)
            /\ iget(old)
            /\ Goes(p, [me EXCEPT !.pc = "exists", !.ip = old, !.dp = 0,
                                  !.puts = <<me.dp>>])
            /\ UNCHANGED <<inodeVars, holder>>
         \/ /\ old = 0 /\ Free # {}
            /\ ilock(me.dp)
            /\ type' = [type EXCEPT ![i] = IF me.pc = "mkdir" THEN "DIR" ELSE "FILE"]
            /\ nlink' = [nlink EXCEPT ![i] = 1,
                                      ![me.dp] = IF me.pc = "mkdir" THEN @ + 1 ELSE @]
            /\ ents' = [ents EXCEPT ![me.dp][name] = i]
            /\ ref' = [ref EXCEPT ![i] = @ + 1]
            /\ valid' = [valid EXCEPT ![i] = TRUE]
            /\ holder' = [holder EXCEPT ![i] = p]
            /\ Goes(p, [me EXCEPT !.pc = "locked", !.ip = i, !.dp = 0,
                                  !.puts = <<me.dp>>])
         \/ /\ old = 0 /\ Free = {}
            /\ holder[me.dp] = None
            /\ panicked' = "ialloc: no inodes"
            /\ UNCHANGED <<inodeVars, ref, valid, holder, proc>>
      /\ UNCHANGED fileVars

(* The rest of create() when the name is there already. *)
create_old(p) ==
  LET me == proc[p]
  IN  /\ At(p, "exists")
      /\ ilock(me.ip)
      /\ valid' = [valid EXCEPT ![me.ip] = TRUE]
      /\ IF me.call = "create" /\ type[me.ip] = "FILE"
           THEN /\ holder' = [holder EXCEPT ![me.ip] = p]
                /\ Goes(p, [me EXCEPT !.pc = "locked"])
           ELSE Goes(p, Returns(<<me.ip>>)) /\ UNCHANGED holder
      /\ UNCHANGED <<inodeVars, ref, fileVars>>

(* sys_mkdir() after create(); sys_open() when it gets no file structure. *)
iunlockput(p) ==
  LET me == proc[p]
  IN  /\ At(p, "locked")
      /\ me.call = "mkdir" \/ ofile[p] # 0 \/ \A f \in Files : fref[f] > 0
      /\ holder' = [holder EXCEPT ![me.ip] = None]
      /\ Goes(p, Returns(<<me.ip>>))
      /\ UNCHANGED <<inodeVars, ref, valid, fileVars, panicked>>

(* sys_open(): filealloc() and fdalloc(), and iunlock(). *)
filealloc(p) ==
  LET me == proc[p]
      f == Min({g \in Files : fref[g] = 0})
  IN  /\ At(p, "locked")
      /\ me.call # "mkdir" /\ ofile[p] = 0 /\ \E g \in Files : fref[g] = 0
      /\ fref' = [fref EXCEPT ![f] = 1]
      /\ ofile' = [ofile EXCEPT ![p] = f]
      /\ holder' = [holder EXCEPT ![me.ip] = None]
      /\ Goes(p, [me EXCEPT !.pc = "fd_inode"])
      /\ UNCHANGED <<inodeVars, ref, valid, fip, panicked>>

(* The end of sys_open(), after end_op(): the file structure is filled in. *)
open_end(p) ==
  /\ At(p, "fd_inode")
  /\ fip' = [fip EXCEPT ![ofile[p]] = proc[p].ip]
  /\ Goes(p, Idle)
  /\ UNCHANGED <<inodeVars, ref, valid, holder, fref, ofile, panicked>>

(* sys_close(), or exit(): the last reference to a file gives up its inode. *)
fileclose(p) ==
  LET f == ofile[p]
  IN  /\ At(p, "user")
      /\ f # 0
      /\ ofile' = [ofile EXCEPT ![p] = 0]
      /\ fref' = [fref EXCEPT ![f] = @ - 1]
      /\ IF fref[f] > 1
           THEN UNCHANGED <<fip, proc>>
           ELSE /\ fip' = [fip EXCEPT ![f] = 0]
                /\ Goes(p, Returns(<<fip[f]>>))
      /\ UNCHANGED <<inodeVars, ref, valid, holder, panicked>>

(* fork(): the child q shares the open file. *)
filedup(p, q) ==
  LET f == ofile[p]
  IN  /\ At(p, "user") /\ At(q, "user")
      /\ p # q /\ f # 0 /\ ofile[q] = 0
      /\ fref' = [fref EXCEPT ![f] = @ + 1]
      /\ ofile' = [ofile EXCEPT ![q] = f]
      /\ UNCHANGED <<inodeVars, ref, valid, holder, fip, proc, panicked>>

(* fileread(), filewrite(), filestat(): ilock(f->ip) ... iunlock(f->ip). *)
fileread(p) ==
  LET i == fip[ofile[p]]
  IN  /\ At(p, "user")
      /\ ofile[p] # 0
      /\ ilock(i)
      /\ valid' = [valid EXCEPT ![i] = TRUE]
      /\ UNCHANGED <<inodeVars, ref, holder, fileVars, proc>>

-----------------------------------------------------------------------------
(* sys_unlink() locks the directory and finds the entry ... *)
unlink(p) ==
  LET me == proc[p]
      old == dirlookup(me.dp, me.rest[1])
  IN  /\ At(p, "unlink")
      /\ ilock(me.dp)
      /\ IF old = 0
           THEN /\ Goes(p, Returns(<<me.dp>>))
                /\ UNCHANGED <<ref, valid, holder>>
           ELSE /\ iget(old)
                /\ holder' = [holder EXCEPT ![me.dp] = p]
                /\ Goes(p, [me EXCEPT !.pc = "unlink_ip", !.ip = old])
      /\ UNCHANGED <<inodeVars, fileVars>>

(* isdirempty(), of what is a directory. *)
Removable(i) == type[i] = "DIR" => ents[i] = NoEntries

(* ... locks the inode too, and erases the entry ... *)
unlink_ip(p) ==
  LET me == proc[p]
      i == me.ip
  IN  /\ At(p, "unlink_ip")
      /\ holder[i] = None
      /\ panicked' = CASE ~valid[i] /\ type[i] = "FREE" -> "ilock: no type"
                       [] (valid[i] \/ type[i] # "FREE") /\ nlink[i] < 1 -> "unlink: nlink < 1"
                       [] OTHER -> "no"
      /\ valid' = [valid EXCEPT ![i] = TRUE]
      /\ IF Removable(i)
           THEN /\ ents' = [ents EXCEPT ![me.dp][me.rest[1]] = 0]
                /\ nlink' = [nlink EXCEPT ![me.dp] =
                               IF type[i] = "DIR" THEN @ - 1 ELSE @]
                /\ holder' = [holder EXCEPT ![me.dp] = None, ![i] = p]
                /\ Goes(p, [me EXCEPT !.pc = "unlink_last", !.dp = 0,
                                      !.puts = <<me.dp>>])
           ELSE /\ Goes(p, [me EXCEPT !.pc = "unlink_bad", !.ip = 0, !.puts = <<i>>])
                /\ UNCHANGED <<ents, nlink, holder>>
      /\ UNCHANGED <<type, ref, fileVars>>

(* ... or finds a directory that is not empty. *)
unlink_bad(p) ==
  LET me == proc[p]
  IN  /\ At(p, "unlink_bad")
      /\ holder' = [holder EXCEPT ![me.dp] = None]
      /\ Goes(p, Returns(<<me.dp>>))
      /\ UNCHANGED <<inodeVars, ref, valid, fileVars, panicked>>

(* ... and takes the link away when the directory is released. *)
unlink_last(p) ==
  LET me == proc[p]
  IN  /\ At(p, "unlink_last")
      /\ nlink' = [nlink EXCEPT ![me.ip] = @ - 1]
      /\ holder' = [holder EXCEPT ![me.ip] = None]
      /\ Goes(p, Returns(<<me.ip>>))
      /\ UNCHANGED <<type, ents, ref, valid, fileVars, panicked>>

(* ip->nlink++ of sys_link(). *)
Counted_Not(i) == nlink
Counted(i) == [nlink EXCEPT ![i] = @ + 1]

(* sys_link(): count the new link before it is made. *)
link(p) ==
  LET me == proc[p]
      i == me.ip
  IN  /\ At(p, "link")
      /\ ilock(i)
      /\ IF type[i] = "DIR"
           THEN /\ valid' = [valid EXCEPT ![i] = TRUE]
                /\ Goes(p, Returns(<<i>>))
                /\ UNCHANGED <<nlink, ref>>
           ELSE /\ nlink' = Counted(i)
                /\ ref' = [ref EXCEPT ![ROOTINO] = @ + 1]
                /\ valid' = [valid EXCEPT ![i] = TRUE, ![ROOTINO] = @ /\ ref[ROOTINO] > 0]
                /\ Goes(p, [me EXCEPT !.pc = "namex", !.call = "link_new",
                                      !.rest = me.new, !.dp = ROOTINO])
      /\ UNCHANGED <<type, ents, holder, fileVars>>

(* dirlink() of the new name: made, or there already. *)
link_new(p) ==
  LET me == proc[p]
      old == dirlookup(me.dp, me.rest[1])
  IN  /\ At(p, "link_new")
      /\ ilock(me.dp)
      /\ IF old # 0
           THEN /\ iget(old)
                /\ holder' = [holder EXCEPT ![me.dp] = p]
                /\ Goes(p, [me EXCEPT !.pc = "link_exists", !.puts = <<old>>])
                /\ UNCHANGED ents
           ELSE /\ ents' = [ents EXCEPT ![me.dp][me.rest[1]] = me.ip]
                /\ Goes(p, Returns(<<me.dp, me.ip>>))
                /\ UNCHANGED <<ref, valid, holder>>
      /\ UNCHANGED <<type, nlink, fileVars>>

link_exists(p) ==
  LET me == proc[p]
  IN  /\ At(p, "link_exists")
      /\ holder' = [holder EXCEPT ![me.dp] = None]
      /\ Goes(p, [me EXCEPT !.pc = "link_bad", !.dp = 0, !.puts = <<me.dp>>])
      /\ UNCHANGED <<inodeVars, ref, valid, fileVars, panicked>>

(* The new link could not be made: take back its count. *)
link_bad(p) ==
  LET me == proc[p]
  IN  /\ At(p, "link_bad")
      /\ ilock(me.ip)
      /\ nlink' = [nlink EXCEPT ![me.ip] = @ - 1]
      /\ valid' = [valid EXCEPT ![me.ip] = TRUE]
      /\ Goes(p, Returns(<<me.ip>>))
      /\ UNCHANGED <<type, ents, ref, holder, fileVars>>

-----------------------------------------------------------------------------
Steps(p) ==
  \/ namex(p) \/ iput(p) \/ iput_ref(p)
  \/ open(p) \/ create(p) \/ create_old(p) \/ iunlockput(p)
  \/ filealloc(p) \/ open_end(p)
  \/ unlink(p) \/ unlink_ip(p) \/ unlink_bad(p) \/ unlink_last(p)
  \/ link(p) \/ link_new(p) \/ link_exists(p) \/ link_bad(p)

Next ==
  /\ panicked = "no"
  /\ \E p \in Procs :
       \/ \E c \in Calls : begin(p, c)
       \/ fileclose(p) \/ fileread(p) \/ \E q \in Procs : filedup(p, q)
       \/ Steps(p)

Spec == Init /\ [][Next]_vars

-----------------------------------------------------------------------------
(* The pointers to inode i in files and in the variables of system calls. *)
Pointers(i) ==
  Cardinality({f \in Files : fip[f] = i})
  + Cardinality({p \in Procs : proc[p].ip = i})
  + Cardinality({p \in Procs : proc[p].dp = i})
  + Cardinality({<<p, k>> \in Procs \X (1 .. 2) :
                   k \in DOMAIN proc[p].puts /\ proc[p].puts[k] = i})

(* "ip->ref tracks the number of in-memory pointers to the entry" (fs.c). *)
RefExact == \A i \in Inums : ref[i] = Pointers(i)

(* The entries that name inode i, and the links whose entry is on the way. *)
Entries(i) == {<<d, n>> \in Inums \X Names : ents[d][n] = i}

InFlight(i) ==
  {p \in Procs : /\ proc[p].ip = i
                 /\ proc[p].call = "link_new" \/ proc[p].pc = "unlink_last"}

(***************************************************************************)
(* nlink of a file covers the directory entries that name it, and those    *)
(* that a link() or unlink() in progress has still to make or has erased.  *)
(***************************************************************************)
LinksCover ==
  \A i \in Inums :
    type[i] = "FILE" => nlink[i] >= Cardinality(Entries(i)) + Cardinality(InFlight(i))

(***************************************************************************)
(* iput() never frees what is in use: a directory entry or an open file    *)
(* always leads to an allocated inode, and no panic of the calls (ilock:   *)
(* no type, unlink: nlink < 1) is reached.                                 *)
(***************************************************************************)
UsedIsAllocated ==
  /\ panicked \in {"no", "ialloc: no inodes"}
  /\ \A i \in Inums : type[i] = "FREE" => Entries(i) = {} /\ \A f \in Files : fip[f] # i

(* The inode whose lock the next step of p takes, 0 if none. *)
WaitsFor(p) ==
  LET me == proc[p]
  IN  CASE me.puts # << >> /\ ~me.dropping -> Head(me.puts)
        [] me.puts = << >> /\ me.pc \in {"namex", "create", "mkdir", "unlink", "link_new"} -> me.dp
        [] me.puts = << >> /\ me.pc \in {"open", "exists", "unlink_ip", "link", "link_bad"} -> me.ip
        [] OTHER -> 0

(* p waits for an inode that q has locked. *)
Blocked(p, q) == WaitsFor(p) # 0 /\ holder[WaitsFor(p)] = q

(***************************************************************************)
(* link(), unlink() and create() at the same time do not deadlock on inode *)
(* locks: no two processes wait for each other, and none for itself.       *)
(***************************************************************************)
NoLockCycle == \A p, q \in Procs : ~(Blocked(p, q) /\ Blocked(q, p))

=============================================================================
