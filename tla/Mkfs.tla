-------------------------------- MODULE Mkfs --------------------------------
(***************************************************************************)
(* mkfs.c: the first image of the file system.  The unit of data is a      *)
(* directory entry; blocks are numbered as on the disk.  Numbers on the    *)
(* image are what the kernel reads: the conversions to Intel byte order    *)
(* and back are left out.  The files fit the inodes and the disk.          *)
(***************************************************************************)
EXTENDS Integers, Sequences, FiniteSets

CONSTANTS
  FSSIZE, NMETA,              (* blocks, and those before the data blocks  *)
  BSIZE, NDIRECT, NINDIRECT,
  Disks                       (* the lists of file lengths mkfs may get    *)

ASSUME MkfsAssumption ==
  /\ NMETA \in Nat /\ FSSIZE \in Nat /\ NMETA < FSSIZE
  /\ BSIZE \in Nat \ {0} /\ NDIRECT \in Nat /\ NINDIRECT \in 1 .. BSIZE

VARIABLES
  dinode,                 (* the inodes on the image                       *)
  block,                  (* the contents of blocks                        *)
  bitmap,                 (* the blocks marked in use                      *)
  freeinode, freeblock,
  args, unread,           (* files to come, and what is left of this one   *)
  append,                 (* the iappend() that is going on                *)
  stage                   (* how far main() is                             *)

imagevars ==
  <<dinode, block, bitmap, freeinode, freeblock, args, unread, append, stage>>

ROOTINO == 1
MAXFILE == NDIRECT + NINDIRECT
Zeroes == [w \in 0 .. BSIZE - 1 |-> 0]
Nothing == [inum |-> 0, n |-> 0, what |-> "none"]

(* Words: an entry for inode i, and the data of file i. *)
Entry(i) == [entry |-> i]
Datum(i) == [file |-> i]

ImageInit ==
  /\ dinode = << >>
  /\ block = [b \in 0 .. FSSIZE - 1 |-> Zeroes]
  /\ bitmap = {}
  /\ freeinode = ROOTINO
  /\ freeblock = NMETA
  /\ args \in Disks
  /\ unread = 0
  /\ append = Nothing
  /\ stage = "root"

-----------------------------------------------------------------------------
(* ialloc(): the next inode, with one link. *)
ialloc(type) ==
  /\ dinode' = Append(dinode, [type |-> type, nlink |-> 1, size |-> 0,
                               addrs |-> [k \in 0 .. NDIRECT |-> 0]])
  /\ freeinode' = freeinode + 1

Appends(inum, what, n) == [inum |-> inum, what |-> what, n |-> n]

(* rootino, and its first entry; then the second. *)
mkfs_root ==
  /\ stage = "root" /\ append = Nothing
  /\ ialloc("T_DIR")
  /\ append' = Appends(ROOTINO, Entry(ROOTINO), 1)
  /\ stage' = "dotdot"
  /\ UNCHANGED <<block, bitmap, freeblock, args, unread>>

mkfs_dotdot ==
  /\ stage = "dotdot" /\ append = Nothing
  /\ append' = Appends(ROOTINO, Entry(ROOTINO), 1)
  /\ stage' = "files"
  /\ UNCHANGED <<dinode, block, bitmap, freeinode, freeblock, args, unread>>

(* The loop of main(): an inode and an entry for the next file. *)
mkfs_file ==
  /\ stage = "files" /\ append = Nothing
  /\ unread = 0 /\ args # << >>
  /\ ialloc("T_FILE")
  /\ append' = Appends(ROOTINO, Entry(freeinode), 1)
  /\ unread' = Head(args)
  /\ args' = Tail(args)
  /\ UNCHANGED <<block, bitmap, freeblock, stage>>

(* read() gives up to a block of the file, which is appended. *)
mkfs_copy(cc) ==
  /\ stage = "files" /\ append = Nothing
  /\ cc <= unread
  /\ append' = Appends(freeinode - 1, Datum(freeinode - 1), cc)
  /\ unread' = unread - cc
  /\ UNCHANGED <<dinode, block, bitmap, freeinode, freeblock, args, stage>>

(***************************************************************************)
(* A turn of the loop of iappend(): the block of addresses and the block   *)
(* are allocated if they are not there, and written.  assert() stops mkfs. *)
(***************************************************************************)
Turn(fbn) ==
  LET d == dinode[append.inum]
      direct == fbn < NDIRECT
      slot == IF direct THEN fbn ELSE NDIRECT
      top == IF d.addrs[slot] = 0 THEN freeblock ELSE d.addrs[slot]
      free1 == IF d.addrs[slot] = 0 THEN freeblock + 1 ELSE freeblock
      old == block[top][fbn - NDIRECT]
  IN  IF direct THEN [slot |-> slot, top |-> top, x |-> top, free |-> free1]
      ELSE [slot |-> slot, top |-> top, x |-> IF old = 0 THEN free1 ELSE old,
            free |-> IF old = 0 THEN free1 + 1 ELSE free1]

(* How much of what is appended goes into a block from `at' on. *)
Room_All(at) == append.n
Room(at) == IF append.n < BSIZE - at THEN append.n ELSE BSIZE - at

iappend ==
  LET d == dinode[append.inum]
      fbn == d.size \div BSIZE
      t == Turn(fbn)
      at == d.size % BSIZE
      n1 == Room(at)
  IN  /\ append.n > 0 /\ fbn < MAXFILE
      /\ block' = [b \in DOMAIN block |->
           IF b = t.x THEN [w \in DOMAIN Zeroes |->
             IF w \in at .. at + n1 - 1 THEN append.what ELSE block[b][w]]
           ELSE IF b = t.top THEN [block[b] EXCEPT ![fbn - NDIRECT] = t.x]
           ELSE block[b]]
      /\ dinode' = [dinode EXCEPT ![append.inum].addrs[t.slot] = t.top,
                                  ![append.inum].size = @ + n1]
      /\ freeblock' = t.free
      /\ append' = IF append.n = n1 THEN Nothing ELSE [append EXCEPT !.n = @ - n1]
      /\ UNCHANGED <<bitmap, freeinode, args, unread, stage>>

iappend_assert ==
  /\ append.n > 0 /\ dinode[append.inum].size \div BSIZE >= MAXFILE
  /\ stage' = "assert"
  /\ append' = Nothing
  /\ UNCHANGED <<dinode, block, bitmap, freeinode, freeblock, args, unread>>

(* The end of main(): the size of the root, and the bitmap. *)
balloc(used) == 0 .. used - 1

mkfs_end ==
  /\ stage = "files" /\ append = Nothing
  /\ unread = 0 /\ args = << >>
  /\ dinode' = [dinode EXCEPT ![ROOTINO].size = (@ \div BSIZE + 1) * BSIZE]
  /\ bitmap' = balloc(freeblock)
  /\ stage' = "done"
  /\ UNCHANGED <<block, freeinode, freeblock, args, unread, append>>

ImageNext ==
  \/ mkfs_root \/ mkfs_dotdot \/ mkfs_file
  \/ \E cc \in 1 .. BSIZE : mkfs_copy(cc)
  \/ iappend \/ iappend_assert \/ mkfs_end

-----------------------------------------------------------------------------
(* The kth block of an inode as bmap() of the kernel finds it, or 0. *)
BlockOf(d, k) ==
  IF k < NDIRECT THEN d.addrs[k]
  ELSE IF d.addrs[NDIRECT] = 0 THEN 0 ELSE block[d.addrs[NDIRECT]][k - NDIRECT]

WordOf(d, w) == block[BlockOf(d, w \div BSIZE)][w % BSIZE]
HasBlock(d, k) == BlockOf(d, k) # 0

(* The places of the image that name a data block, and the blocks. *)
Names ==
  {<<i, k>> \in (1 .. freeinode - 1) \X (0 .. MAXFILE) :
     IF k = MAXFILE THEN dinode[i].addrs[NDIRECT] # 0 ELSE HasBlock(dinode[i], k)}
Named(r) ==
  IF r[2] = MAXFILE THEN dinode[r[1]].addrs[NDIRECT] ELSE BlockOf(dinode[r[1]], r[2])

(***************************************************************************)
(* The finished image is one the kernel's file system starts from: the     *)
(* bitmap marks the blocks before the data and exactly the data blocks     *)
(* that inodes name, each named once; every file has its contents and the  *)
(* blocks up to its size; the root lists each file once, and has an empty  *)
(* place after the last.  The root's size is a block more than its entries *)
(* fill exactly when they end at the end of a block: it is then without    *)
(* the last block of its size.                                             *)
(***************************************************************************)
ImageExact ==
  stage = "done" =>
    LET root == dinode[ROOTINO]
        entries == freeinode
    IN  /\ bitmap = (0 .. NMETA - 1) \union {Named(r) : r \in Names}
        /\ Cardinality(Names) = freeblock - NMETA
        /\ \A i \in 2 .. freeinode - 1 :
             /\ \A k \in 0 .. MAXFILE - 1 : HasBlock(dinode[i], k) <=> k * BSIZE < dinode[i].size
             /\ \A w \in 0 .. dinode[i].size - 1 : WordOf(dinode[i], w) = Datum(i)
        /\ \A w \in 0 .. entries - 1 : WordOf(root, w) = Entry(IF w < 2 THEN ROOTINO ELSE w)
        /\ root.size > entries
        /\ \A k \in 0 .. MAXFILE - 1 :
             HasBlock(root, k) <=> (k + (IF entries % BSIZE = 0 THEN 1 ELSE 0)) * BSIZE < root.size

=============================================================================
