----------------------------- MODULE FileBlocks -----------------------------
(***************************************************************************)
(* The contents of files: the block allocator, the block lists of inodes,  *)
(* readi() and writei() (fs.c), and the reads and writes of file.c that    *)
(* cut a long write into transactions.  A step is what a process does to   *)
(* one block; different files are written at the same time and share the   *)
(* bitmap.                                                                 *)
(*                                                                         *)
(* The unit of data is a word, which also holds an address.  Names, links  *)
(* and the races of iput() are in module Inodes: here iput() is one step   *)
(* up to its itrunc().  The transactions are those of module Log, which    *)
(* makes what the calls write durable when none is active.                 *)
(***************************************************************************)
EXTENDS Integers, FiniteSets, FiniteSetsExt

CONSTANTS
  Procs,
  Inums,       (* inodes on the disk                                       *)
  Files,       (* entries of ftable.file                                   *)
  NBLOCKS,     (* data blocks, numbered from 1                             *)
  BSIZE, NDIRECT, NINDIRECT, MAXOPBLOCKS,
  Word,        (* what programs write; bzero() writes 0                    *)
  Reads, Lens, (* lengths of reads and of writes                           *)
  None         (* nobody, or nothing                                       *)

ASSUME FileBlocksAssumption ==
  /\ NBLOCKS \in Nat \ {0} /\ BSIZE \in Nat \ {0}
  /\ NDIRECT \in Nat /\ NINDIRECT \in 1 .. BSIZE
  /\ MAXOPBLOCKS \in Nat /\ MAXOPBLOCKS >= 6
  /\ Word \subseteq Nat \ {0} /\ Reads \union Lens \subseteq Nat \ {0}

VARIABLES
  used,        (* the blocks whose bit is set in the bitmap                *)
  data,        (* what is in each block                                    *)
  dip, linked, (* the inodes on the disk, and whether nlink is positive    *)
  ip, holder,  (* the cached inodes, None without references, and ip->lock *)
  file,        (* open files: f->ip and f->off                             *)
  proc,        (* where each process is                                    *)
  panicked     (* why the kernel has panicked, or "no"                     *)

vars == <<used, data, dip, linked, ip, holder, file, proc, panicked>>

Blocks == 1 .. NBLOCKS
DirectoryBlock == -2   (* the blocks a call writes besides those of files  *)
InodeBlock == -1
BitmapBlock == 0       (* one, as long as the disk has at most BPB blocks  *)
MAXFILE == NDIRECT + NINDIRECT
Zeros == [w \in 0 .. BSIZE - 1 |-> 0]
NoInode == [type |-> 0, size |-> 0, addrs |-> [k \in 0 .. NDIRECT |-> 0]]

(* A process: the file or inode it works on, the words of its write() that *)
(* are left, those of this writei() and how many of them are done, and the *)
(* blocks its transaction has given to log_write().                        *)
Idle == [pc |-> "user", f |-> None, i |-> None, v |-> 0, left |-> 0,
         n |-> 0, tot |-> 0, wrote |-> {}]

(* A file system without files. *)
Init ==
  /\ used = {}
  /\ data = [b \in Blocks |-> Zeros]
  /\ dip = [i \in Inums |-> NoInode]
  /\ linked = [i \in Inums |-> FALSE]
  /\ ip = [i \in Inums |-> None]
  /\ holder = [i \in Inums |-> None]
  /\ file = [f \in Files |-> None]
  /\ proc = [p \in Procs |-> Idle]
  /\ panicked = "no"

Opens(i) == {f \in Files : file[f] # None /\ file[f].ip = i}
Inside(f) == {p \in Procs : proc[p].f = f}

(***************************************************************************)
(* The blocks of an inode                                                  *)
(***************************************************************************)

(* The lowest block that is free when the bitmap is u, or 0. *)
balloc(u) == IF Blocks \subseteq u THEN 0 ELSE Min(Blocks \ u)

(* The address that inode d has for its kth block, 0 if it has none. *)
Addr(d, k) ==
  IF k < NDIRECT THEN d.addrs[k]
  ELSE IF d.addrs[NDIRECT] = 0 THEN 0
  ELSE data[d.addrs[NDIRECT]][k - NDIRECT]

(***************************************************************************)
(* bmap(): the block of addresses it goes through (0 for a direct block),  *)
(* the block itself, and which of the two are new.  A new block is zeroed. *)
(***************************************************************************)
bmap_NoMark(d, k) ==
  LET table == IF k < NDIRECT THEN 0
               ELSE IF d.addrs[NDIRECT] # 0 THEN d.addrs[NDIRECT] ELSE balloc(used)
      addr == IF Addr(d, k) # 0 THEN Addr(d, k) ELSE balloc(used)
  IN  [table |-> table, addr |-> addr, new |-> {table, addr} \ (used \union {0}),
       panic |-> IF k >= MAXFILE THEN "bmap: out of range"
                 ELSE IF addr = 0 \/ (k >= NDIRECT /\ table = 0) THEN "balloc: out of blocks"
                 ELSE "no"]

bmap(d, k) ==
  LET table == IF k < NDIRECT THEN 0
               ELSE IF d.addrs[NDIRECT] # 0 THEN d.addrs[NDIRECT] ELSE balloc(used)
      addr == IF Addr(d, k) # 0 THEN Addr(d, k) ELSE balloc(used \union {table})
  IN  [table |-> table, addr |-> addr, new |-> {table, addr} \ (used \union {0}),
       panic |-> IF k >= MAXFILE THEN "bmap: out of range"
                 ELSE IF addr = 0 \/ (k >= NDIRECT /\ table = 0) THEN "balloc: out of blocks"
                 ELSE "no"]

(* The inode with a new block, and its new block of addresses, hung in. *)
WithBlock(d, k, m) ==
  [d EXCEPT !.addrs[IF k < NDIRECT THEN k ELSE NDIRECT] =
              IF k < NDIRECT THEN m.addr ELSE m.table]

(* iupdate(): the disk gets d for inode i. *)
iupdate(i, d) == [dip EXCEPT ![i] = d]

(***************************************************************************)
(* System calls                                                            *)
(***************************************************************************)

(* open() or creation: ialloc() gives a cleared inode, ilock() reads it. *)
sys_open(p, f, i) ==
  /\ proc[p].pc = "user" /\ file[f] = None /\ holder[i] = None
  /\ \/ linked[i] /\ UNCHANGED <<dip, linked>>
     \/ /\ ~linked[i] /\ dip[i].type = 0
        /\ dip' = [dip EXCEPT ![i] = [NoInode EXCEPT !.type = 1]]
        /\ linked' = [linked EXCEPT ![i] = TRUE]
  /\ ip' = [ip EXCEPT ![i] = IF @ = None THEN dip'[i] ELSE @]
  /\ file' = [file EXCEPT ![f] = [ip |-> i, off |-> 0]]
  /\ UNCHANGED <<used, data, holder, proc, panicked>>

(* fileread() and readi(): a block that bmap() did not find would be       *)
(* allocated outside of a transaction.                                     *)
fileread(p, f, n) ==
  LET i == file[f].ip
      off == file[f].off
      m == Min({n, ip[i].size - off})
      touched == {(off + w) \div BSIZE : w \in 0 .. m - 1}
  IN  /\ proc[p].pc = "user" /\ file[f] # None /\ holder[i] = None
      /\ off <= ip[i].size
      /\ file' = [file EXCEPT ![f].off = off + m]
      /\ panicked' = IF \E k \in touched : Addr(ip[i], k) = 0
                       THEN "log_write outside of trans" ELSE "no"
      /\ UNCHANGED <<used, data, dip, linked, ip, holder, proc>>

(* The most that filewrite() puts into one transaction. *)
MaxWrite_Whole == MAXFILE * BSIZE

MaxWrite == ((MAXOPBLOCKS - 1 - 1 - 2) \div 2) * BSIZE

(***************************************************************************)
(* One turn of filewrite() with `left` words to write: begin_op(), ilock() *)
(* and the tests of writei(), which may give up.                           *)
(***************************************************************************)
Turn(p, f, left, v) ==
  LET i == file[f].ip
      off == file[f].off
      n == Min({left, MaxWrite})
  IN  /\ holder[i] = None
      /\ IF off > ip[i].size \/ off + n > MAXFILE * BSIZE
           THEN proc' = [proc EXCEPT ![p] = Idle] /\ UNCHANGED holder
           ELSE /\ proc' = [proc EXCEPT ![p] = [Idle EXCEPT
                     !.pc = "writei", !.f = f, !.i = i, !.v = v, !.left = left, !.n = n]]
                /\ holder' = [holder EXCEPT ![i] = p]
      /\ UNCHANGED <<used, data, dip, linked, ip, file, panicked>>

sys_write(p, f, n, v) == proc[p].pc = "user" /\ file[f] # None /\ Turn(p, f, n, v)

filewrite(p) ==
  proc[p].pc = "filewrite" /\ Turn(p, proc[p].f, proc[p].left, proc[p].v)

(***************************************************************************)
(* One turn of the loop of writei(): bmap() with its bzero()s, the copy    *)
(* and log_write().  Two balloc()s of one bmap() are one step, since they  *)
(* only take blocks that nobody else has.                                  *)
(***************************************************************************)
writei(p) ==
  LET i == proc[p].i
      off == file[proc[p].f].off + proc[p].tot
      k == off \div BSIZE
      at == off % BSIZE
      m == Min({proc[p].n - proc[p].tot, BSIZE - at})
      b == bmap(ip[i], k)
      hung == k >= NDIRECT /\ b.addr \in b.new
      zeroed == [c \in Blocks |-> IF c \in b.new THEN Zeros ELSE data[c]]
      listed == IF hung THEN [zeroed EXCEPT ![b.table][k - NDIRECT] = b.addr] ELSE zeroed
  IN  /\ proc[p].pc = "writei" /\ proc[p].tot < proc[p].n
      /\ panicked' = b.panic
      /\ IF b.panic # "no"
           THEN UNCHANGED <<used, data, ip, proc>>
           ELSE /\ used' = used \union b.new
                /\ data' = [listed EXCEPT ![b.addr] =
                     [w \in DOMAIN Zeros |-> IF w \in at .. at + m - 1 THEN proc[p].v ELSE @[w]]]
                /\ ip' = [ip EXCEPT ![i] = WithBlock(@, k, b)]
                /\ proc' = [proc EXCEPT
                     ![p].tot = @ + m,
                     ![p].wrote = @ \union {b.addr} \union b.new
                                    \union (IF b.new # {} THEN {BitmapBlock} ELSE {})
                                    \union (IF hung THEN {b.table} ELSE {})]
      /\ UNCHANGED <<dip, linked, holder, file>>

(* The end of writei(), with its iupdate(), and iunlock(). *)
writei_end_NoUpdate(p) ==
  LET i == proc[p].i
      off == file[proc[p].f].off + proc[p].n
  IN  /\ proc[p].pc = "writei" /\ proc[p].tot = proc[p].n
      /\ ip' = [ip EXCEPT ![i].size = Max({@, off})]
      /\ file' = [file EXCEPT ![proc[p].f].off = off]
      /\ holder' = [holder EXCEPT ![i] = None]
      /\ proc' = [proc EXCEPT ![p].pc = "end_op"]
      /\ UNCHANGED <<used, data, dip, linked, panicked>>

writei_end(p) ==
  LET i == proc[p].i
      off == file[proc[p].f].off + proc[p].n
      grows == off > ip[i].size
  IN  /\ proc[p].pc = "writei" /\ proc[p].tot = proc[p].n
      /\ ip' = [ip EXCEPT ![i].size = Max({@, off})]
      /\ dip' = IF grows THEN iupdate(i, ip'[i]) ELSE dip
      /\ file' = [file EXCEPT ![proc[p].f].off = off]
      /\ holder' = [holder EXCEPT ![i] = None]
      /\ proc' = [proc EXCEPT ![p].pc = "end_op",
                              ![p].wrote = IF grows THEN @ \union {InodeBlock} ELSE @]
      /\ UNCHANGED <<used, data, linked, panicked>>

(* end_op(), and the next turn of filewrite() if words are left. *)
end_op(p) ==
  LET left == proc[p].left - proc[p].n
  IN  /\ proc[p].pc = "end_op"
      /\ proc' = [proc EXCEPT ![p] =
           IF left = 0 THEN Idle
           ELSE [Idle EXCEPT !.pc = "filewrite", !.f = proc[p].f, !.v = proc[p].v,
                             !.left = left]]
      /\ UNCHANGED <<used, data, dip, linked, ip, holder, file, panicked>>

(***************************************************************************)
(* iput() by p of inode i when `others` references remain: p goes on to    *)
(* itrunc() if it drops the last reference to an inode without links.      *)
(***************************************************************************)
iput(p, i, links, others, wrote) ==
  IF others # {}
    THEN UNCHANGED <<ip, holder, proc>>
  ELSE IF links
    THEN ip' = [ip EXCEPT ![i] = None] /\ UNCHANGED <<holder, proc>>
  ELSE /\ ip' = [ip EXCEPT ![i] = IF @ = None THEN dip[i] ELSE @]
       /\ holder' = [holder EXCEPT ![i] = p]
       /\ proc' = [proc EXCEPT ![p] = [Idle EXCEPT !.pc = "itrunc", !.i = i, !.wrote = wrote]]

(* The last close() of an open file. *)
sys_close(p, f) ==
  LET i == file[f].ip
  IN  /\ proc[p].pc = "user" /\ file[f] # None
      /\ Inside(f) = {} /\ holder[i] = None
      /\ file' = [file EXCEPT ![f] = None]
      /\ iput(p, i, linked[i], Opens(i) \ {f}, {})
      /\ UNCHANGED <<used, data, dip, linked, panicked>>

(* unlink(): the directory entry goes, iupdate() writes the inode. *)
sys_unlink(p, i) ==
  /\ proc[p].pc = "user" /\ linked[i] /\ holder[i] = None
  /\ linked' = [linked EXCEPT ![i] = FALSE]
  /\ dip' = iupdate(i, IF ip[i] = None THEN dip[i] ELSE ip[i])
  /\ iput(p, i, FALSE, Opens(i), {DirectoryBlock, InodeBlock})
  /\ UNCHANGED <<used, data, file, panicked>>

(* What itrunc() still has to free of inode d, in its order, from kth on. *)
Listed(d, k) == {j \in k .. MAXFILE - 1 : Addr(d, j) # 0}

bfree(b) ==
  IF b \in used
    THEN used' = used \ {b} /\ UNCHANGED panicked
    ELSE panicked' = "freeing free block" /\ UNCHANGED used

(* One bfree() of the two loops of itrunc(). *)
itrunc(p) ==
  LET i == proc[p].i
      k == Min(Listed(ip[i], proc[p].tot))
  IN  /\ proc[p].pc = "itrunc" /\ Listed(ip[i], proc[p].tot) # {}
      /\ bfree(Addr(ip[i], k))
      /\ ip' = IF k < NDIRECT THEN [ip EXCEPT ![i].addrs[k] = 0] ELSE ip
      /\ proc' = [proc EXCEPT ![p].tot = k + 1, ![p].wrote = @ \union {BitmapBlock}]
      /\ UNCHANGED <<data, dip, linked, holder, file>>

(* The block of addresses, the iupdate()s of itrunc() and iput(), and the  *)
(* end of iput().                                                          *)
itrunc_end(p) ==
  LET i == proc[p].i
      table == ip[i].addrs[NDIRECT]
  IN  /\ proc[p].pc = "itrunc" /\ Listed(ip[i], proc[p].tot) = {}
      /\ IF table = 0 THEN UNCHANGED <<used, panicked>> ELSE bfree(table)
      /\ dip' = iupdate(i, NoInode)
      /\ ip' = [ip EXCEPT ![i] = None]
      /\ holder' = [holder EXCEPT ![i] = None]
      /\ proc' = [proc EXCEPT ![p].pc = "end_op",
                    ![p].wrote = @ \union {InodeBlock} \union (IF table = 0 THEN {} ELSE {BitmapBlock})]
      /\ UNCHANGED <<data, linked, file>>

(***************************************************************************)
(* A crash and the next boot.  Module Log shows that the disk is then as   *)
(* it was at some moment without active calls, so it is enough to crash    *)
(* there.                                                                  *)
(***************************************************************************)
Quiescent == \A p \in Procs : proc[p].pc \in {"user", "filewrite"}

Crash ==
  /\ Quiescent
  /\ ip' = [i \in Inums |-> None]
  /\ holder' = [i \in Inums |-> None]
  /\ file' = [f \in Files |-> None]
  /\ proc' = [p \in Procs |-> Idle]
  /\ UNCHANGED <<used, data, dip, linked, panicked>>

Step(p) ==
  \/ \E f \in Files, i \in Inums : sys_open(p, f, i)
  \/ \E f \in Files, n \in Reads : fileread(p, f, n)
  \/ \E f \in Files, n \in Lens, v \in Word : sys_write(p, f, n, v)
  \/ filewrite(p)
  \/ writei(p)
  \/ writei_end(p)
  \/ end_op(p)
  \/ \E f \in Files : sys_close(p, f)
  \/ \E i \in Inums : sys_unlink(p, i)
  \/ itrunc(p)
  \/ itrunc_end(p)

Next == panicked = "no" /\ (Crash \/ \E p \in Procs : Step(p))

Spec == Init /\ [][Next]_vars

(***************************************************************************)
(* Properties                                                              *)
(***************************************************************************)

(* The places of the disk that refer to a data block. *)
References ==
  {<<i, k>> \in Inums \X (0 .. MAXFILE - 1) : Addr(dip[i], k) # 0}
    \union {<<i, MAXFILE>> : i \in {j \in Inums : dip[j].addrs[NDIRECT] # 0}}

Referenced(r) == IF r[2] = MAXFILE THEN dip[r[1]].addrs[NDIRECT] ELSE Addr(dip[r[1]], r[2])

(***************************************************************************)
(* Whatever calls were interleaved: when none is active the bitmap on the  *)
(* disk, which is what a crash leaves, marks exactly the blocks that       *)
(* inodes refer to, no block is referred to twice, a file has its blocks   *)
(* up to its size and no other, and bfree() and log_write() never panic.   *)
(***************************************************************************)
BlocksExact ==
  /\ panicked \in {"no", "balloc: out of blocks"}
  /\ Quiescent /\ panicked = "no" =>
       /\ used = {Referenced(r) : r \in References}
       /\ Cardinality(used) = Cardinality(References)
       /\ \A i \in Inums, k \in 0 .. MAXFILE - 1 :
            Addr(dip[i], k) # 0 <=> k * BSIZE < dip[i].size

(* What a program would read in file i, from its first word on. *)
Content(i) ==
  LET d == IF ip[i] = None THEN dip[i] ELSE ip[i]
      word(b, w) == IF b = 0 THEN 0 ELSE data[b][w]
  IN  [w \in 0 .. d.size - 1 |-> word(Addr(d, w \div BSIZE), w % BSIZE)]

(* p is in writei() of inode i. *)
Writes(p, i) == proc[p].pc = "writei" /\ proc[p].i = i

(***************************************************************************)
(* A step changes a file only inside the range that the process holding    *)
(* its lock is writing, and only to what that process writes; words are    *)
(* added at the end and all of them written; a crash changes nothing that  *)
(* a finished call has written.  A file that loses its last link and       *)
(* reference is gone.                                                      *)
(***************************************************************************)
WritesOwnWords ==
  [][\A i \in Inums :
       \/ \E p \in Procs : proc[p].pc = "itrunc" /\ proc[p].i = i
       \/ Content(i)' = Content(i)
       \/ \E p \in Procs :
            /\ Writes(p, i) /\ holder[i] = p
            /\ DOMAIN Content(i) \subseteq DOMAIN Content(i)'
            /\ \A w \in DOMAIN Content(i)' :
                 \/ w \in DOMAIN Content(i) /\ Content(i)'[w] = Content(i)[w]
                 \/ /\ w \in file[proc[p].f].off .. file[proc[p].f].off + proc[p].n - 1
                    /\ Content(i)'[w] = proc[p].v]_vars

(***************************************************************************)
(* filewrite() cuts writes so that a transaction stays below MAXOPBLOCKS   *)
(* blocks, data blocks that are not aligned, the block of addresses, the   *)
(* bitmap and the inode included; this is what module Log asks of its      *)
(* operations.                                                             *)
(***************************************************************************)
FitsLog == \A p \in Procs : Cardinality(proc[p].wrote) < MAXOPBLOCKS

=============================================================================
