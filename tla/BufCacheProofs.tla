--------------------------- MODULE BufCacheProofs ---------------------------
(***************************************************************************)
(* Proofs about BufCache, for every set of processes, of blocks and of     *)
(* buffers and for every cap on the blocks the log keeps dirty: bread()    *)
(* returns what was last stored, nobody waits for a lock that is free or   *)
(* for an idle disk, and with enough buffers bget() always finds one.      *)
(***************************************************************************)
EXTENDS BufCache, TLAPS, FiniteSetTheorems

(* Where a process is when it holds the lock of its buffer. *)
Holding == {"have", "iderw", "io"}

(* A process that waits for the disk, or is about to ask it. *)
Requesting == {"iderw", "io"}

TypeOK ==
  /\ blockno \in [Bufs -> Blocks \union {None}]
  /\ valid \in [Bufs -> BOOLEAN]
  /\ dirty \in [Bufs -> BOOLEAN]
  /\ refcnt \in [Bufs -> Nat]
  /\ data \in [Bufs -> Data]
  /\ holder \in [Bufs -> Procs \union {None}]
  /\ lru \in [1 .. Cardinality(Bufs) -> Bufs]
  /\ idequeue \in Seq(Bufs)
  /\ working \in BOOLEAN
  /\ irq \in BOOLEAN
  /\ disk \in [Blocks -> Data]
  /\ pc \in [Procs -> {"user", "lock", "sleep", "brelse"} \union Holding]
  /\ cur \in [Procs -> Bufs \union {None}]
  /\ latest \in [Blocks -> Data]
  /\ panicked \in BOOLEAN

(* Every buffer stays on the list. *)
Listed == \A b \in Bufs : \E i \in DOMAIN lru : lru[i] = b

(* A process has a buffer between bget() and the end of brelse() ... *)
Using == \A p \in Procs : cur[p] = None <=> pc[p] = "user"

(* ... and the reference count of a buffer counts its processes. *)
Users(b) == {p \in Procs : cur[p] = b}
Counted == \A b \in Bufs : refcnt[b] = Cardinality(Users(b))

(* A buffer in use, or with contents, stands for a block ... *)
Named ==
  /\ \A p \in Procs : cur[p] # None => blockno[cur[p]] # None
  /\ \A b \in Bufs : valid[b] => blockno[b] # None
  /\ \A b \in Bufs : dirty[b] => valid[b]

(* ... and no other buffer stands for the same one. *)
OneCopy ==
  \A b, c \in Bufs : blockno[b] # None /\ blockno[b] = blockno[c] => b = c

(* The lock of a buffer is held by the process that works on it. *)
Locks ==
  \A p \in Procs : \A b \in Bufs :
    holder[b] = p <=> cur[p] = b /\ pc[p] \in Holding

(* What a process is told before it goes on: contents, or a request. *)
Ready ==
  \A p \in Procs :
    /\ pc[p] = "have" => valid[cur[p]]
    /\ pc[p] \in Requesting /\ valid[cur[p]] => dirty[cur[p]]

(* A valid buffer holds its block as it was last stored ... *)
Fresh == \A b \in Bufs : valid[b] => data[b] = latest[blockno[b]]

(* ... and so does the disk, unless a dirty buffer does. *)
Kept ==
  \A k \in Blocks :
    disk[k] = latest[k] \/ \E b \in Bufs : blockno[b] = k /\ dirty[b]

(* The queue holds the buffers of the processes that wait, each one once. *)
Queue ==
  /\ \A i, j \in DOMAIN idequeue : idequeue[i] = idequeue[j] => i = j
  /\ \A b \in Bufs : b \in Queued <=> \E p \in Procs : cur[p] = b /\ pc[p] = "io"

(* The disk works or interrupts exactly while there is a request ... *)
Busy ==
  /\ idequeue # << >> <=> working \/ irq
  /\ ~(working /\ irq)

(* ... and when it interrupts, what was to be written is on the disk. *)
Written ==
  irq /\ dirty[Head(idequeue)]
    => disk[blockno[Head(idequeue)]] = data[Head(idequeue)]

(* A process sleeps on a lock only while another one holds it. *)
Sleeping == \A p \in Procs : pc[p] = "sleep" => holder[cur[p]] \notin {None, p}

(* What the log keeps dirty: what no process is writing back. *)
LogDirty ==
  {b \in Bufs : dirty[b] /\ \A p \in Procs : cur[p] = b => pc[p] \notin Requesting}
Capped == Cardinality(LogDirty) <= MaxLogged

(* The inductive invariant. *)
IInv ==
  /\ TypeOK /\ Listed /\ Using /\ Counted /\ Named /\ OneCopy /\ Locks /\ Ready
  /\ Fresh /\ Kept /\ Queue /\ Busy /\ Written /\ Sleeping /\ Capped
  /\ BuffersSuffice

-----------------------------------------------------------------------------
(* What the provers keep needing: a process that has a buffer, and which. *)
LEMMA UserOf ==
  ASSUME IInv, NEW p \in Procs, pc[p] # "user"
  PROVE  /\ cur[p] \in Bufs
         /\ cur[p] # None
         /\ blockno[cur[p]] \in Blocks
         /\ refcnt[cur[p]] # 0
<1>1. cur[p] \in Bufs /\ cur[p] # None
  BY NoneAssumption, Zenon DEF IInv, TypeOK, Using
<1>2. blockno[cur[p]] \in Blocks
  BY <1>1, Zenon DEF IInv, TypeOK, Named
<1>3. IsFiniteSet(Users(cur[p])) /\ Users(cur[p]) # {}
  BY FS_Subset, FiniteAssumption, Zenon DEF Users
<1>4. Cardinality(Users(cur[p])) # 0
  BY <1>3, FS_EmptySet, Zenon
<1> QED  BY <1>1, <1>2, <1>4, Zenon DEF IInv, Counted

(* A holder is the only one. *)
LEMMA HolderOf ==
  ASSUME IInv, NEW p \in Procs, pc[p] \in Holding
  PROVE  /\ holder[cur[p]] = p
         /\ \A q \in Procs : q # p /\ cur[q] = cur[p] => pc[q] \notin Holding
<1>1. cur[p] \in Bufs
  BY UserOf, Zenon DEF Holding
<1>2. holder[cur[p]] = p
  BY <1>1, Zenon DEF IInv, Locks
<1> QED  BY <1>1, <1>2, Zenon DEF IInv, Locks

(* Who has no buffer with a reference count of 0. *)
LEMMA Unused ==
  ASSUME IInv, NEW b \in Bufs, refcnt[b] = 0
  PROVE  \A p \in Procs : cur[p] # b
<1> SUFFICES ASSUME NEW p \in Procs, cur[p] = b  PROVE FALSE
  OBVIOUS
<1>1. pc[p] # "user"
  BY NoneAssumption, Zenon DEF IInv, Using
<1> QED  BY <1>1, UserOf, Zenon

(* A step that adds nothing to what the log keeps dirty. *)
LEMMA FewerDirty ==
  ASSUME IInv, LogDirty' \subseteq LogDirty
  PROVE  Capped'
<1>1. IsFiniteSet(LogDirty)
  BY FS_Subset, FiniteAssumption, Zenon DEF LogDirty
<1>2. Cardinality(LogDirty') <= Cardinality(LogDirty)
  BY <1>1, FS_Subset, Zenon
<1>3. Cardinality(LogDirty) \in Nat /\ Cardinality(LogDirty') \in Nat
  BY <1>1, FS_Subset, FS_CardinalityType, Zenon
<1> QED  BY <1>2, <1>3, LoggedAssumption DEF IInv, Capped

-----------------------------------------------------------------------------
(* acquiresleep() takes a free lock, or waits for its holder. *)
LEMMA AcquireOK ==
  ASSUME IInv, NEW p \in Procs, acquiresleep(p)
  PROVE  IInv'
<1> DEFINE b == cur[p]
<1>b. b \in Bufs /\ b # None /\ pc[p] = "lock"
  BY UserOf, Zenon DEF acquiresleep
<1>u. UNCHANGED <<blockno, valid, dirty, refcnt, lru, data, idequeue, working,
                  irq, disk, cur, latest, panicked>>
  BY Zenon DEF acquiresleep, cacheVars, ideVars
<1>1. TypeOK'
  BY <1>b, <1>u, Zenon DEF IInv, TypeOK, Holding, acquiresleep
<1>2. Listed' /\ Counted' /\ Named' /\ OneCopy' /\ Fresh' /\ Kept' /\ Busy'
      /\ Written' /\ BuffersSuffice'
  BY <1>u DEF IInv, Listed, Counted, Users, Named, OneCopy, Fresh, Kept, Busy,
    Written, BuffersSuffice
<1>3. Using'
  BY <1>b, <1>u, Zenon DEF IInv, TypeOK, Using, acquiresleep
<1>8. Queue'
  <2>1. \A q \in Procs : pc'[q] = "io" <=> pc[q] = "io"
    BY <1>b, Zenon DEF IInv, TypeOK, acquiresleep
  <2> QED  BY <2>1, <1>u DEF IInv, Queue, Queued
<1>4. Locks'
  BY <1>b, <1>u, NoneAssumption DEF IInv, TypeOK, Locks, Holding, acquiresleep
<1>5. Ready'
  BY <1>b, <1>u DEF IInv, TypeOK, Ready, Requesting, acquiresleep
<1>6. Sleeping'
  <2>1. CASE holder[b] = None
    <3>1. \A q \in Procs : pc'[q] = "sleep" => q # p /\ pc[q] = "sleep"
      BY <1>b, <2>1, Zenon DEF IInv, TypeOK, acquiresleep
    <3>2. \A c \in Bufs : c # b => holder'[c] = holder[c]
      BY <2>1, Zenon DEF IInv, TypeOK, acquiresleep
    <3>3. \A q \in Procs : pc[q] = "sleep" => cur[q] \in Bufs /\ cur[q] # b
      BY <2>1, UserOf, Zenon DEF IInv, Sleeping
    <3> QED  BY <3>1, <3>2, <3>3, <1>u, Zenon DEF IInv, Sleeping
  <2>2. CASE holder[b] # None
    <3>1. UNCHANGED holder /\ \A q \in Procs : q # p => pc'[q] = pc[q]
      BY <2>2, Zenon DEF IInv, TypeOK, acquiresleep
    <3>2. holder[b] # p
      BY <1>b, Zenon DEF IInv, Locks, Holding
    <3> QED  BY <3>1, <3>2, <2>2, <1>u, Zenon DEF IInv, Sleeping
  <2> QED  BY <2>1, <2>2, Zenon
<1>7. Capped'
  <2>1. \A c \in Bufs : dirty[c] => \A q \in Procs :
          cur[q] = c /\ pc[q] \in Requesting => pc'[q] \in Requesting
    BY <1>b, Zenon DEF IInv, TypeOK, Requesting, acquiresleep
  <2> QED  BY <2>1, <1>u, FewerDirty, Zenon DEF LogDirty
<1> QED  BY <1>1, <1>2, <1>3, <1>4, <1>5, <1>6, <1>7, <1>8, Zenon DEF IInv

(* releasesleep() frees the lock and sends its sleepers to try again. *)
LEMMA ReleaseOK ==
  ASSUME IInv, NEW p \in Procs, releasesleep(p)
  PROVE  IInv'
<1> DEFINE b == cur[p]
<1>b. b \in Bufs /\ b # None /\ pc[p] = "have" /\ holder[b] = p
  BY UserOf, HolderOf, Zenon DEF releasesleep, Holding
<1>u. UNCHANGED <<blockno, valid, dirty, refcnt, lru, data, idequeue, working,
                  irq, disk, cur, latest, panicked>>
  BY Zenon DEF releasesleep, cacheVars, ideVars
<1>h. holder' = [holder EXCEPT ![b] = None]
  BY Zenon DEF releasesleep
<1>p. pc' = [q \in Procs |-> IF q = p THEN "brelse"
               ELSE IF pc[q] = "sleep" /\ cur[q] = b THEN "lock" ELSE pc[q]]
  BY <1>b, Zenon DEF IInv, TypeOK, releasesleep, wakeup
<1>1. TypeOK'
  BY <1>b, <1>u, <1>h, <1>p, Zenon DEF IInv, TypeOK
<1>2. Listed' /\ Counted' /\ Named' /\ OneCopy' /\ Fresh' /\ Kept' /\ Busy'
      /\ Written' /\ BuffersSuffice'
  BY <1>u DEF IInv, Listed, Counted, Users, Named, OneCopy, Fresh, Kept, Busy,
    Written, BuffersSuffice
<1>3. Using'
  BY <1>b, <1>u, <1>p, Zenon DEF IInv, Using
<1>4. Locks'
  BY <1>b, <1>u, <1>h, <1>p, NoneAssumption DEF IInv, TypeOK, Locks, Holding
<1>5. Ready'
  BY <1>b, <1>u, <1>p, Zenon DEF IInv, Ready, Requesting
<1>6. Sleeping'
  <2> SUFFICES ASSUME NEW q \in Procs, pc'[q] = "sleep"
               PROVE  holder'[cur[q]] \notin {None, q}
    BY <1>u, Zenon DEF Sleeping
  <2>1. pc[q] = "sleep" /\ cur[q] # b /\ cur[q] \in Bufs
    BY <1>p, UserOf, Zenon
  <2> QED  BY <2>1, <1>h, Zenon DEF IInv, TypeOK, Sleeping
<1>7. Capped'
  <2>1. \A q \in Procs : pc[q] \in Requesting => pc'[q] \in Requesting
    BY <1>b, <1>p, Zenon DEF Requesting
  <2> QED  BY <2>1, <1>u, FewerDirty, Zenon DEF LogDirty
<1>8. Queue'
  <2>1. \A q \in Procs : pc'[q] = "io" <=> pc[q] = "io"
    BY <1>b, <1>p, Zenon
  <2> QED  BY <2>1, <1>u DEF IInv, Queue, Queued
<1> QED  BY <1>1, <1>2, <1>3, <1>4, <1>5, <1>6, <1>7, <1>8, Zenon DEF IInv

(* iderw() puts a buffer that needs the disk at the end of the queue. *)
LEMMA IderwOK ==
  ASSUME IInv, NEW p \in Procs, iderw(p)
  PROVE  IInv'
<1> DEFINE b == cur[p]
           n == Len(idequeue)
<1>b. b \in Bufs /\ b # None /\ pc[p] = "iderw" /\ holder[b] = p
  BY UserOf, HolderOf, Zenon DEF iderw, Holding
<1>u. UNCHANGED <<blockno, valid, dirty, refcnt, lru, data, holder, irq, disk,
                  cur, latest>>
  BY Zenon DEF iderw, cacheVars
<1>p. pc' = [pc EXCEPT ![p] = "io"]
  BY Zenon DEF iderw
<1>q. /\ idequeue \in Seq(Bufs) /\ n \in Nat
      /\ idequeue' \in Seq(Bufs) /\ Len(idequeue') = n + 1
      /\ idequeue'[n + 1] = b
      /\ \A i \in 1 .. n : idequeue'[i] = idequeue[i]
  BY <1>b DEF IInv, TypeOK, iderw
<1>d. DOMAIN idequeue = 1 .. n /\ DOMAIN idequeue' = 1 .. n + 1
  BY <1>q
<1>n. panicked' = FALSE
  BY <1>b, Zenon DEF IInv, TypeOK, Ready, Requesting, iderw
<1>1. TypeOK'
  BY <1>b, <1>u, <1>p, <1>q, <1>n DEF IInv, TypeOK, Holding, iderw
<1>2. Listed' /\ Counted' /\ Named' /\ OneCopy' /\ Fresh' /\ Kept' /\ BuffersSuffice'
  BY <1>u, <1>n DEF IInv, Listed, Counted, Users, Named, OneCopy, Fresh, Kept,
    BuffersSuffice
<1>3. Using'
  BY <1>b, <1>u, <1>p, Zenon DEF IInv, TypeOK, Using
<1>4. Locks'
  BY <1>b, <1>u, <1>p DEF IInv, TypeOK, Locks, Holding
<1>5. Ready'
  BY <1>b, <1>u, <1>p, Zenon DEF IInv, TypeOK, Ready, Requesting
<1>6. Sleeping'
  BY <1>b, <1>u, <1>p, Zenon DEF IInv, TypeOK, Sleeping
<1>7. Capped'
  <2>1. \A q \in Procs : pc[q] \in Requesting => pc'[q] \in Requesting
    BY <1>b, <1>p, Zenon DEF IInv, TypeOK, Requesting
  <2> QED  BY <2>1, <1>u, FewerDirty, Zenon DEF LogDirty
<1>8. Queue'
  <2>1. \A q \in Procs : q # p => (pc'[q] = "io" <=> pc[q] = "io")
    BY <1>b, <1>p, Zenon DEF IInv, TypeOK
  <2>2. pc'[p] = "io" /\ pc[p] # "io"
    BY <1>b, <1>p, Zenon DEF IInv, TypeOK
  <2>3. b \notin Queued
    BY <1>b, HolderOf, <2>2 DEF IInv, Queue, Holding
  <2>4. Queued' = Queued \union {b}
    BY <1>q, <1>d DEF Queued
  <2>5. \A i, j \in 1 .. n + 1 : idequeue'[i] = idequeue'[j] => i = j
    <3>1. \A i, j \in 1 .. n : idequeue[i] = idequeue[j] => i = j
      BY <1>d, Zenon DEF IInv, Queue
    <3>2. \A i \in 1 .. n : idequeue[i] # b
      BY <2>3, <1>d, Zenon DEF Queued
    <3> QED  BY <3>1, <3>2, <1>q
  <2>6. \A c \in Bufs : c \in Queued' <=> \E q \in Procs : cur[q] = c /\ pc'[q] = "io"
    BY <2>1, <2>2, <2>4 DEF IInv, Queue
  <2> QED  BY <2>5, <2>6, <1>d, <1>u, Zenon DEF Queue
<1>9. Busy' /\ Written'
  <2>1. idequeue = << >> <=> n = 0
    BY <1>q
  <2>2. idequeue' # << >>
    BY <1>q
  <2>3. irq => idequeue # << >> /\ idequeue'[1] = idequeue[1]
    BY <2>1, <1>q DEF IInv, Busy
  <2>4. Busy'
    <3>1. working' <=> working \/ idequeue = << >>
      BY Zenon DEF iderw
    <3> QED  BY <3>1, <2>2, <2>3, <1>u, Zenon DEF IInv, Busy
  <2>5. irq => Head(idequeue') = Head(idequeue)
    BY <2>2, <2>3, <1>q
  <2> QED  BY <2>4, <2>5, <1>u, Zenon DEF IInv, Written
<1> QED  BY <1>1, <1>2, <1>3, <1>4, <1>5, <1>6, <1>7, <1>8, <1>9, Zenon DEF IInv

(* The disk finishes the request at the head of the queue. *)
LEMMA DiskOK ==
  ASSUME IInv, disk_done
  PROVE  IInv'
<1> DEFINE b == Head(idequeue)
<1>u. UNCHANGED <<blockno, valid, dirty, refcnt, lru, data, holder, idequeue,
                  pc, cur, latest, panicked>>
  BY Zenon DEF disk_done, cacheVars
<1>q. idequeue # << >> /\ b \in Bufs /\ b \in Queued
  <2>1. idequeue # << >>
    BY Zenon DEF IInv, Busy, disk_done
  <2> QED  BY <2>1 DEF IInv, TypeOK, Queued
<1>b. blockno[b] \in Blocks
  <2>1. PICK p \in Procs : cur[p] = b /\ pc[p] = "io"
    BY <1>q, Zenon DEF IInv, Queue
  <2> QED  BY <2>1, UserOf, Zenon
<1>d. disk' = IF dirty[b] THEN [disk EXCEPT ![blockno[b]] = data[b]] ELSE disk
  BY Zenon DEF disk_done
<1>1. TypeOK'
  <2>1. disk' \in [Blocks -> Data]
    BY <1>d, <1>b, <1>q, Zenon DEF IInv, TypeOK
  <2> QED  BY <2>1, <1>u, Zenon DEF IInv, TypeOK, disk_done
<1>2. Listed' /\ Counted' /\ Named' /\ OneCopy' /\ Fresh' /\ BuffersSuffice' /\ Using'
      /\ Locks' /\ Ready' /\ Sleeping' /\ Queue'
  BY <1>u DEF IInv, Listed, Counted, Users, Named, OneCopy, Fresh, BuffersSuffice,
    Using, Locks, Ready, Sleeping, Queue, Queued
<1>3. Capped'
  BY <1>u, FewerDirty, Zenon DEF LogDirty
<1>4. Kept'
  <2>1. dirty[b] => data[b] = latest[blockno[b]]
    BY <1>q, Zenon DEF IInv, Named, Fresh
  <2> QED  BY <2>1, <1>d, <1>u, Zenon DEF IInv, TypeOK, Kept
<1>5. Busy'
  BY <1>q, <1>u, Zenon DEF Busy, disk_done
<1>6. Written'
  BY <1>b, <1>d, <1>u, Zenon DEF IInv, TypeOK, Written
<1> QED  BY <1>1, <1>2, <1>3, <1>4, <1>5, <1>6, Zenon DEF IInv

(* ideintr() hands the finished buffer to its process. *)
LEMMA IdeintrOK ==
  ASSUME IInv, NEW p \in Procs, ideintr(p)
  PROVE  IInv'
<1> DEFINE b == cur[p]
           n == Len(idequeue)
<1>b. b \in Bufs /\ b # None /\ blockno[b] \in Blocks /\ pc[p] = "io" /\ holder[b] = p
  BY UserOf, HolderOf, Zenon DEF ideintr, Holding
<1>u. UNCHANGED <<blockno, refcnt, holder, lru, disk, cur, latest, panicked>>
  BY Zenon DEF ideintr
<1>p. pc' = [pc EXCEPT ![p] = "have"]
  BY Zenon DEF ideintr
<1>h. b = Head(idequeue) /\ irq /\ idequeue # << >>
  BY Zenon DEF IInv, Busy, ideintr
<1>v. /\ valid' = [valid EXCEPT ![b] = TRUE]
      /\ dirty' = [dirty EXCEPT ![b] = FALSE]
      /\ data' = [data EXCEPT ![b] = IF dirty[b] THEN data[b] ELSE disk[blockno[b]]]
  BY <1>h, Zenon DEF ideintr
<1>q. /\ n \in Nat \ {0} /\ idequeue[1] = b
      /\ idequeue' \in Seq(Bufs) /\ Len(idequeue') = n - 1
      /\ \A i \in 1 .. n - 1 : idequeue'[i] = idequeue[i + 1]
      /\ DOMAIN idequeue = 1 .. n /\ DOMAIN idequeue' = 1 .. n - 1
  BY <1>h DEF IInv, TypeOK, ideintr
<1>1. TypeOK'
  <2>1. data' \in [Bufs -> Data]
    BY <1>v, <1>b, Zenon DEF IInv, TypeOK
  <2>2. working' \in BOOLEAN /\ irq' \in BOOLEAN
    BY Zenon DEF ideintr, idestart_next
  <2>3. pc' \in [Procs -> {"user", "lock", "sleep", "brelse"} \union Holding]
    BY <1>p, Zenon DEF IInv, TypeOK, Holding
  <2>4. valid' \in [Bufs -> BOOLEAN] /\ dirty' \in [Bufs -> BOOLEAN]
    BY <1>v, Zenon DEF IInv, TypeOK
  <2> QED  BY <2>1, <2>2, <2>3, <2>4, <1>u, <1>q DEF IInv, TypeOK
<1>2. Listed' /\ Counted' /\ OneCopy' /\ BuffersSuffice'
  BY <1>u, Zenon DEF IInv, Listed, Counted, Users, OneCopy, BuffersSuffice
<1>3. Using' /\ Locks'
  BY <1>b, <1>u, <1>p DEF IInv, TypeOK, Using, Locks, Holding
<1>4. Named'
  BY <1>b, <1>u, <1>v, NoneAssumption DEF IInv, TypeOK, Named
<1>5. Ready'
  <2> SUFFICES ASSUME NEW q \in Procs
               PROVE  /\ pc'[q] = "have" => valid'[cur[q]]
                      /\ pc'[q] \in Requesting /\ valid'[cur[q]] => dirty'[cur[q]]
    BY <1>u, Zenon DEF Ready
  <2>1. CASE q = p
    BY <2>1, <1>b, <1>p, <1>v DEF IInv, TypeOK, Requesting
  <2>2. CASE q # p
    <3>1. pc'[q] = pc[q]
      BY <2>2, <1>p, Zenon DEF IInv, TypeOK
    <3>2. pc[q] \in Holding => cur[q] # b /\ cur[q] \in Bufs
      BY <2>2, <1>b, HolderOf, UserOf DEF Holding
    <3> QED  BY <3>1, <3>2, <1>v DEF IInv, TypeOK, Ready, Requesting, Holding
  <2> QED  BY <2>1, <2>2, Zenon
<1>6. Fresh'
  <2>1. data'[b] = latest[blockno[b]]
    <3>1. CASE dirty[b]
      BY <3>1, <1>v, <1>b DEF IInv, TypeOK, Named, Fresh
    <3>2. CASE ~dirty[b]
      <4>1. disk[blockno[b]] = latest[blockno[b]]
        BY <3>2, <1>b, NoneAssumption DEF IInv, Kept, OneCopy
      <4> QED  BY <3>2, <4>1, <1>v, <1>b DEF IInv, TypeOK
    <3> QED  BY <3>1, <3>2
  <2>2. \A c \in Bufs : c # b => data'[c] = data[c] /\ valid'[c] = valid[c]
    BY <1>v, Zenon DEF IInv, TypeOK
  <2> QED  BY <2>1, <2>2, <1>u, Zenon DEF IInv, Fresh
<1>7. Kept'
  <2>1. dirty[b] => disk[blockno[b]] = latest[blockno[b]]
    BY <1>h, <1>b DEF IInv, Written, Named, Fresh
  <2>2. \A c \in Bufs : c # b => dirty'[c] = dirty[c]
    BY <1>v, Zenon DEF IInv, TypeOK
  <2> QED  BY <2>1, <2>2, <1>u DEF IInv, Kept
<1>8. Sleeping'
  BY <1>b, <1>u, <1>p, Zenon DEF IInv, TypeOK, Sleeping
<1>9. Capped'
  <2>1. \A q \in Procs : q # p /\ pc[q] \in Requesting => pc'[q] \in Requesting
    BY <1>p DEF IInv, TypeOK
  <2>2. dirty'[b] = FALSE /\ \A c \in Bufs : c # b => dirty'[c] = dirty[c]
    BY <1>v, <1>b, Zenon DEF IInv, TypeOK
  <2> QED  BY <2>1, <2>2, <1>u, FewerDirty DEF LogDirty
<1>10. Queue'
  <2>1. \A i, j \in 1 .. n : idequeue[i] = idequeue[j] => i = j
    BY <1>q, Zenon DEF IInv, Queue
  <2>2. \A i, j \in 1 .. n - 1 : idequeue'[i] = idequeue'[j] => i = j
    BY <2>1, <1>q
  <2>3. Queued' = Queued \ {b}
    <3>1. ASSUME NEW c \in Queued'  PROVE c \in Queued /\ c # b
      <4>1. PICK i \in 1 .. n - 1 : c = idequeue'[i]
        BY <3>1, <1>q, Zenon DEF Queued
      <4>2. i + 1 \in 1 .. n /\ i + 1 # 1 /\ 1 \in 1 .. n /\ c = idequeue[i + 1]
        BY <4>1, <1>q
      <4> QED  BY <4>2, <2>1, <1>q, Zenon DEF Queued
    <3>2. ASSUME NEW c \in Queued, c # b  PROVE c \in Queued'
      <4>1. PICK i \in 1 .. n : c = idequeue[i]
        BY <3>2, <1>q, Zenon DEF Queued
      <4>2. i - 1 \in 1 .. n - 1 /\ c = idequeue'[i - 1]
        BY <4>1, <3>2, <1>q
      <4> QED  BY <4>2, <1>q, Zenon DEF Queued
    <3> QED  BY <3>1, <3>2, Zenon
  <2>4. \A q \in Procs : q # p => pc'[q] = pc[q]
    BY <1>p, Zenon DEF IInv, TypeOK
  <2>5. pc'[p] # "io"
    BY <1>p, Zenon DEF IInv, TypeOK
  <2>6. \A q \in Procs : q # p /\ pc[q] = "io" => cur[q] # b
    BY <1>b, HolderOf, Zenon DEF Holding
  <2>7. \A c \in Bufs : c \in Queued' <=> \E q \in Procs : cur[q] = c /\ pc'[q] = "io"
    BY <2>3, <2>4, <2>5, <2>6 DEF IInv, Queue
  <2> QED  BY <2>2, <2>7, <1>q, <1>u DEF Queue
<1>11. Busy' /\ Written'
  BY Zenon DEF Busy, Written, ideintr, idestart_next
<1> QED  BY <1>1, <1>2, <1>3, <1>4, <1>5, <1>6, <1>7, <1>8, <1>9, <1>10, <1>11 DEF IInv

(* The holder of a buffer stores d in it, for log_write() or for bwrite(). *)
LEMMA StoreOK ==
  ASSUME IInv, NEW p \in Procs, NEW d \in Data, log_write(p, d) \/ bwrite(p, d)
  PROVE  IInv'
<1> DEFINE b == cur[p]
<1>b. b \in Bufs /\ b # None /\ blockno[b] \in Blocks /\ pc[p] = "have"
      /\ holder[b] = p /\ valid[b]
  <2>1. pc[p] = "have"
    BY Zenon DEF log_write, bwrite
  <2> QED  BY <2>1, UserOf, HolderOf, Zenon DEF IInv, Ready, Holding
<1>u. UNCHANGED <<blockno, valid, refcnt, lru, holder, idequeue, working, irq,
                  disk, cur, panicked>>
  BY Zenon DEF log_write, bwrite, ideVars
<1>v. /\ dirty' = [dirty EXCEPT ![b] = TRUE]
      /\ data' = [data EXCEPT ![b] = d]
      /\ latest' = [latest EXCEPT ![blockno[b]] = d]
  BY Zenon DEF log_write, bwrite
<1>p. \/ pc' = pc
      \/ pc' = [pc EXCEPT ![p] = "iderw"]
  BY Zenon DEF log_write, bwrite
<1>q. b \notin Queued
  BY <1>b, HolderOf DEF IInv, Queue, Holding
<1>1. TypeOK'
  <2>1. pc' \in [Procs -> {"user", "lock", "sleep", "brelse"} \union Holding]
    BY <1>p, Zenon DEF IInv, TypeOK, Holding
  <2>2. data' \in [Bufs -> Data] /\ latest' \in [Blocks -> Data]
    BY <1>v, Zenon DEF IInv, TypeOK
  <2>3. dirty' \in [Bufs -> BOOLEAN]
    BY <1>v, Zenon DEF IInv, TypeOK
  <2> QED  BY <2>1, <2>2, <2>3, <1>u DEF IInv, TypeOK
<1>2. Listed' /\ Counted' /\ OneCopy' /\ Busy' /\ BuffersSuffice'
  BY <1>u, Zenon DEF IInv, Listed, Counted, Users, OneCopy, Busy, BuffersSuffice
<1>3. Using' /\ Locks'
  BY <1>b, <1>u, <1>p DEF IInv, TypeOK, Using, Locks, Holding
<1>4. Named'
  BY <1>b, <1>u, <1>v, Zenon DEF IInv, TypeOK, Named
<1>5. Ready'
  <2>1. \A q \in Procs : q # p => pc'[q] = pc[q]
    BY <1>p, Zenon DEF IInv, TypeOK
  <2>2. \A c \in Bufs : dirty[c] => dirty'[c]
    BY <1>v, Zenon DEF IInv, TypeOK
  <2>3. dirty'[b]
    BY <1>b, <1>v DEF IInv, TypeOK
  <2>4. \A q \in Procs : pc[q] \in Requesting => cur[q] \in Bufs
    BY UserOf, Zenon DEF Requesting
  <2> QED  BY <2>1, <2>2, <2>3, <2>4, <1>b, <1>u, Zenon DEF IInv, Ready
<1>6. Fresh'
  <2>1. \A c \in Bufs : c # b /\ valid[c] => blockno[c] \in Blocks /\ blockno[c] # blockno[b]
    BY <1>b DEF IInv, TypeOK, Named, OneCopy
  <2>2. \A c \in Bufs : c # b => data'[c] = data[c]
    BY <1>v, Zenon DEF IInv, TypeOK
  <2>3. data'[b] = d /\ latest'[blockno[b]] = d
    BY <1>b, <1>v DEF IInv, TypeOK
  <2>4. \A k \in Blocks : k # blockno[b] => latest'[k] = latest[k]
    BY <1>v, Zenon DEF IInv, TypeOK
  <2> QED  BY <2>1, <2>2, <2>3, <2>4, <1>u DEF IInv, Fresh
<1>7. Kept'
  <2>1. \A c \in Bufs : dirty[c] => dirty'[c]
    BY <1>v, Zenon DEF IInv, TypeOK
  <2>2. dirty'[b]
    BY <1>b, <1>v, Zenon DEF IInv, TypeOK
  <2>3. \A k \in Blocks : k # blockno[b] => latest'[k] = latest[k]
    BY <1>v, Zenon DEF IInv, TypeOK
  <2> QED  BY <2>1, <2>2, <2>3, <1>b, <1>u DEF IInv, Kept
<1>8. Sleeping'
  BY <1>b, <1>u, <1>p DEF IInv, TypeOK, Sleeping
<1>9. Capped'
  <2>1. CASE log_write(p, d)
    <3> DEFINE D == {c \in Bufs : dirty[c]} \union {b}
    <3>1. IsFiniteSet(D) /\ Cardinality(D) <= MaxLogged
      BY <2>1, <1>b, FS_Subset, FiniteAssumption DEF log_write
    <3>2. LogDirty' \subseteq D
      BY <1>b, <1>v, Zenon DEF IInv, TypeOK, LogDirty
    <3> HIDE DEF D
    <3>3. Cardinality(LogDirty') <= Cardinality(D) /\ Cardinality(D) \in Nat
          /\ Cardinality(LogDirty') \in Nat
      BY <3>1, <3>2, FS_Subset, FS_CardinalityType, Zenon
    <3> QED  BY <3>1, <3>3, LoggedAssumption DEF Capped
  <2>2. CASE bwrite(p, d)
    <3>1. pc'[p] = "iderw" /\ \A q \in Procs : q # p => pc'[q] = pc[q]
      BY <2>2 DEF IInv, TypeOK, bwrite
    <3>2. \A c \in Bufs : c # b => dirty'[c] = dirty[c]
      BY <1>v, Zenon DEF IInv, TypeOK
    <3>3. b \notin LogDirty'
      BY <3>1, <1>u, Zenon DEF LogDirty, Requesting
    <3> QED  BY <3>1, <3>2, <3>3, <1>b, <1>u, FewerDirty DEF LogDirty, Requesting
  <2> QED  BY <2>1, <2>2, Zenon
<1>10. Queue'
  <2>1. \A q \in Procs : pc'[q] = "io" <=> pc[q] = "io"
    BY <1>b, <1>p DEF IInv, TypeOK
  <2> QED  BY <2>1, <1>u DEF IInv, Queue, Queued
<1>11. Written'
  <2> SUFFICES ASSUME irq, dirty'[Head(idequeue)]
               PROVE  disk[blockno[Head(idequeue)]] = data'[Head(idequeue)]
    BY <1>u, Zenon DEF Written
  <2> DEFINE h == Head(idequeue)
  <2>1. h \in Bufs /\ h \in Queued
    BY DEF IInv, TypeOK, Busy, Queued
  <2>2. h # b
    BY <2>1, <1>q, Zenon
  <2>3. dirty'[h] = dirty[h] /\ data'[h] = data[h]
    BY <2>1, <2>2, <1>v, Zenon DEF IInv, TypeOK
  <2> QED  BY <2>3, Zenon DEF IInv, Written
<1> QED  BY <1>1, <1>2, <1>3, <1>4, <1>5, <1>6, <1>7, <1>8, <1>9, <1>10, <1>11, Zenon DEF IInv

(* Taking a buffer, and giving it up, change the count of that buffer alone. *)
LEMMA TakeCounts ==
  ASSUME IInv, NEW p \in Procs, NEW b \in Bufs, cur[p] = None,
         cur' = [cur EXCEPT ![p] = b]
  PROVE  /\ Cardinality(Users(b)') = Cardinality(Users(b)) + 1
         /\ \A c \in Bufs : c # b => Users(c)' = Users(c)
<1>1. p \notin Users(b) /\ Users(b)' = Users(b) \union {p}
  BY NoneAssumption DEF IInv, TypeOK, Users
<1>2. IsFiniteSet(Users(b))
  BY FS_Subset, FiniteAssumption, Zenon DEF Users
<1>3. Cardinality(Users(b) \union {p}) = Cardinality(Users(b)) + 1
  BY <1>1, <1>2, FS_AddElement, Zenon
<1>4. \A c \in Bufs : c # b => Users(c)' = Users(c)
  BY NoneAssumption DEF IInv, TypeOK, Users
<1> QED  BY <1>1, <1>3, <1>4, Zenon

LEMMA DropCounts ==
  ASSUME IInv, NEW p \in Procs, cur[p] \in Bufs,
         cur' = [cur EXCEPT ![p] = None]
  PROVE  /\ Cardinality(Users(cur[p])) \in Nat
         /\ Cardinality({q \in Procs : cur'[q] = cur[p]})
              = Cardinality(Users(cur[p])) - 1
         /\ \A c \in Bufs : c # cur[p] => Users(c)' = Users(c)
<1> DEFINE b == cur[p]
<1>1. p \in Users(b) /\ {q \in Procs : cur'[q] = b} = Users(b) \ {p}
  BY NoneAssumption, Zenon DEF IInv, TypeOK, Users
<1>2. IsFiniteSet(Users(b))
  BY FS_Subset, FiniteAssumption, Zenon DEF Users
<1>3. Cardinality(Users(b) \ {p}) = Cardinality(Users(b)) - 1
  BY <1>1, <1>2, FS_RemoveElement, Zenon
<1>4. \A c \in Bufs : c # b => Users(c)' = Users(c)
  BY NoneAssumption DEF IInv, TypeOK, Users
<1> QED  BY <1>1, <1>2, <1>3, <1>4, FS_CardinalityType, Zenon

(* Moving a buffer to the front of the list keeps every buffer on it. *)
LEMMA FrontKeeps ==
  ASSUME IInv, NEW b \in Bufs
  PROVE  /\ MoveToFront(b) \in [1 .. Cardinality(Bufs) -> Bufs]
         /\ \A c \in Bufs : \E i \in 1 .. Cardinality(Bufs) : MoveToFront(b)[i] = c
<1> DEFINE n == Cardinality(Bufs)
           at == CHOOSE i \in DOMAIN lru : lru[i] = b
           s == MoveToFront(b)
<1>1. n \in Nat /\ DOMAIN lru = 1 .. n /\ lru \in [1 .. n -> Bufs]
  BY FS_CardinalityType, FiniteAssumption DEF IInv, TypeOK
<1>2. at \in 1 .. n /\ lru[at] = b
  BY <1>1, Zenon DEF IInv, Listed
<1>3. s = [i \in 1 .. n |-> IF i = 1 THEN b ELSE IF i <= at THEN lru[i - 1] ELSE lru[i]]
  BY <1>1 DEF MoveToFront
<1> HIDE DEF at, s, n
<1>4. s \in [1 .. n -> Bufs]
  BY <1>1, <1>2, <1>3
<1>5. ASSUME NEW c \in Bufs  PROVE \E i \in 1 .. n : s[i] = c
  <2>1. PICK i \in 1 .. n : lru[i] = c
    BY <1>1, Zenon DEF IInv, Listed
  <2>2. CASE c = b
    BY <2>2, <1>1, <1>2, <1>3
  <2>3. CASE i < at
    <3>1. i + 1 \in 1 .. n /\ s[i + 1] = c
      BY <2>1, <2>3, <1>1, <1>2, <1>3
    <3> QED  BY <3>1, Zenon
  <2>4. CASE i > at
    <3>1. s[i] = c
      BY <2>1, <2>4, <1>1, <1>2, <1>3
    <3> QED  BY <3>1, Zenon
  <2>5. i = at => c = b
    BY <2>1, <1>2, Zenon
  <2> QED  BY <2>2, <2>3, <2>4, <2>5, <1>1, <1>2
<1> QED  BY <1>4, <1>5, Zenon DEF s, n

(* brelse() gives the buffer up. *)
LEMMA BrelseOK ==
  ASSUME IInv, NEW p \in Procs, brelse(p)
  PROVE  IInv'
<1> DEFINE b == cur[p]
<1>b. b \in Bufs /\ b # None /\ pc[p] = "brelse" /\ refcnt[b] # 0
  BY UserOf, Zenon DEF brelse
<1>u. UNCHANGED <<blockno, valid, dirty, data, holder, idequeue, working, irq,
                  disk, latest, panicked>>
  BY Zenon DEF brelse, ideVars
<1>p. pc' = [pc EXCEPT ![p] = "user"] /\ cur' = [cur EXCEPT ![p] = None]
  BY Zenon DEF brelse
<1>r. refcnt' = [refcnt EXCEPT ![b] = refcnt[b] - 1]
  BY Zenon DEF brelse, Dropped
<1>c. /\ pc'[p] = "user" /\ cur'[p] = None
      /\ \A q \in Procs : q # p => pc'[q] = pc[q] /\ cur'[q] = cur[q]
  BY <1>p DEF IInv, TypeOK
<1>1. TypeOK' /\ Listed'
  <2>1. refcnt' \in [Bufs -> Nat]
    BY <1>b, <1>r DEF IInv, TypeOK
  <2>2. lru' = MoveToFront(b) \/ lru' = lru
    BY Zenon DEF brelse
  <2>3. lru' \in [1 .. Cardinality(Bufs) -> Bufs]
    BY <2>2, <1>b, FrontKeeps DEF IInv, TypeOK
  <2>4. \A c \in Bufs : \E i \in 1 .. Cardinality(Bufs) : lru'[i] = c
    <3>1. \A c \in Bufs : \E i \in 1 .. Cardinality(Bufs) : lru[i] = c
      BY Zenon DEF IInv, TypeOK, Listed
    <3>2. CASE lru' = lru
      BY <3>1, <3>2, Zenon
    <3>3. CASE lru' = MoveToFront(b)
      BY <3>3, <1>b, FrontKeeps
    <3> QED  BY <3>2, <3>3, <2>2, Zenon
  <2>5. pc' \in [Procs -> {"user", "lock", "sleep", "brelse"} \union Holding]
        /\ cur' \in [Procs -> Bufs \union {None}]
    BY <1>p DEF IInv, TypeOK
  <2>6. TypeOK'
    BY <2>1, <2>3, <2>5, <1>u DEF IInv, TypeOK
  <2> QED  BY <2>3, <2>4, <2>6 DEF Listed
<1>2. OneCopy' /\ Fresh' /\ Kept' /\ Busy' /\ Written' /\ BuffersSuffice'
  BY <1>u DEF IInv, OneCopy, Fresh, Kept, Busy, Written, BuffersSuffice
<1>3. Using'
  BY <1>c, Zenon DEF IInv, Using
<1>4. Counted'
  <2> DEFINE U == {q \in Procs : cur'[q] = b}
  <2>1. Cardinality(U) = refcnt[b] - 1
    BY <1>b, <1>p, DropCounts, Zenon DEF IInv, Counted
  <2>2. \A c \in Bufs : c # b => Users(c)' = Users(c)
    BY <1>b, <1>p, DropCounts, Zenon
  <2>3. refcnt'[b] = Cardinality(U) /\ \A c \in Bufs : c # b => refcnt'[c] = refcnt[c]
    BY <2>1, <1>b, <1>r DEF IInv, TypeOK
  <2>4. \A c \in Bufs : c # b => refcnt'[c] = Cardinality(Users(c)')
    BY <2>2, <2>3 DEF IInv, Counted
  <2> QED  BY <2>3, <2>4 DEF Counted, Users
<1>5. Named'
  BY <1>c, <1>u, Zenon DEF IInv, Named
<1>6. Locks'
  BY <1>b, <1>c, <1>u, NoneAssumption DEF IInv, Locks, Holding
<1>7. Ready' /\ Sleeping'
  BY <1>c, <1>u DEF IInv, Ready, Sleeping, Requesting
<1>8. Capped'
  <2>1. \A q \in Procs : pc[q] \in Requesting => pc'[q] = pc[q] /\ cur'[q] = cur[q]
    BY <1>b, <1>c DEF Requesting
  <2> QED  BY <2>1, <1>u, FewerDirty DEF LogDirty
<1>9. Queue'
  <2>1. \A q \in Procs : \A c \in Bufs :
          cur'[q] = c /\ pc'[q] = "io" <=> cur[q] = c /\ pc[q] = "io"
    BY <1>b, <1>c, Zenon
  <2> QED  BY <2>1, <1>u DEF IInv, Queue, Queued
<1> QED  BY <1>1, <1>2, <1>3, <1>4, <1>5, <1>6, <1>7, <1>8, <1>9 DEF IInv

(* bget() finds the block in a buffer. *)
LEMMA CachedOK ==
  ASSUME IInv, NEW p \in Procs, NEW k \in Blocks, NEW b \in Bufs,
         pc[p] = "user", blockno[b] = k,
         refcnt' = [refcnt EXCEPT ![b] = refcnt[b] + 1],
         cur' = [cur EXCEPT ![p] = b],
         pc' = [pc EXCEPT ![p] = "lock"],
         UNCHANGED <<blockno, valid, dirty, data, holder, lru, idequeue, working,
                     irq, disk, latest, panicked>>
  PROVE  IInv'
<1>b. cur[p] = None /\ b # None /\ blockno[b] # None
  BY NoneAssumption, Zenon DEF IInv, Using
<1>c. /\ pc'[p] = "lock" /\ cur'[p] = b
      /\ \A q \in Procs : q # p => pc'[q] = pc[q] /\ cur'[q] = cur[q]
  BY Zenon DEF IInv, TypeOK
<1>1. TypeOK'
  BY DEF IInv, TypeOK
<1>2. Listed' /\ OneCopy' /\ Fresh' /\ Kept' /\ Busy' /\ Written' /\ BuffersSuffice'
  BY DEF IInv, Listed, OneCopy, Fresh, Kept, Busy, Written, BuffersSuffice
<1>3. Using'
  BY <1>b, <1>c DEF IInv, Using
<1>4. Counted'
  <2>1. Cardinality(Users(b)') = refcnt[b] + 1
    BY <1>b, TakeCounts, Zenon DEF IInv, Counted
  <2>2. \A c \in Bufs : c # b => Users(c)' = Users(c)
    BY <1>b, TakeCounts, Zenon
  <2>3. refcnt'[b] = refcnt[b] + 1 /\ \A c \in Bufs : c # b => refcnt'[c] = refcnt[c]
    BY Zenon DEF IInv, TypeOK
  <2>4. \A c \in Bufs : refcnt'[c] = Cardinality(Users(c)')
    BY <2>1, <2>2, <2>3, Zenon DEF IInv, Counted
  <2> QED  BY <2>4, Zenon DEF Counted
<1>5. Named'
  BY <1>b, <1>c DEF IInv, Named
<1>6. Locks'
  BY <1>b, <1>c, NoneAssumption DEF IInv, Locks, Holding
<1>7. Ready' /\ Sleeping'
  BY <1>c DEF IInv, Ready, Sleeping, Requesting
<1>8. Capped'
  <2>1. \A q \in Procs : pc[q] \in Requesting => pc'[q] = pc[q] /\ cur'[q] = cur[q]
    BY <1>c, Zenon DEF Requesting
  <2> QED  BY <2>1, FewerDirty, Zenon DEF LogDirty
<1>9. Queue'
  <2>1. \A q \in Procs : \A c \in Bufs :
          cur'[q] = c /\ pc'[q] = "io" <=> cur[q] = c /\ pc[q] = "io"
    BY <1>c, Zenon
  <2> QED  BY <2>1 DEF IInv, Queue, Queued
<1> QED  BY <1>1, <1>2, <1>3, <1>4, <1>5, <1>6, <1>7, <1>8, <1>9 DEF IInv

(* bget() recycles a buffer that nobody uses and that is not dirty. *)
LEMMA RecycleOK ==
  ASSUME IInv, NEW p \in Procs, NEW k \in Blocks, NEW b \in Bufs,
         pc[p] = "user", \A c \in Bufs : blockno[c] # k, Recyclable(b),
         blockno' = [blockno EXCEPT ![b] = k],
         valid' = [valid EXCEPT ![b] = FALSE],
         dirty' = [dirty EXCEPT ![b] = FALSE],
         refcnt' = [refcnt EXCEPT ![b] = 1],
         cur' = [cur EXCEPT ![p] = b],
         pc' = [pc EXCEPT ![p] = "lock"],
         UNCHANGED <<data, holder, lru, idequeue, working, irq, disk, latest, panicked>>
  PROVE  IInv'
<1>b. cur[p] = None /\ b # None /\ k # None /\ refcnt[b] = 0 /\ ~dirty[b]
  BY NoneAssumption, Zenon DEF IInv, Using, Recyclable
<1>n. \A q \in Procs : cur[q] # b
  BY <1>b, Unused
<1>c. /\ pc'[p] = "lock" /\ cur'[p] = b
      /\ \A q \in Procs : q # p => pc'[q] = pc[q] /\ cur'[q] = cur[q]
  BY Zenon DEF IInv, TypeOK
<1>v. /\ blockno'[b] = k /\ valid'[b] = FALSE /\ dirty'[b] = FALSE
      /\ \A c \in Bufs : c # b => /\ blockno'[c] = blockno[c]
                                  /\ valid'[c] = valid[c]
                                  /\ dirty'[c] = dirty[c]
  BY DEF IInv, TypeOK
<1>u. \A q \in Procs : pc[q] # "user" => cur[q] \in Bufs /\ cur[q] # b
  BY <1>n, UserOf
<1>1. TypeOK'
  BY Zenon DEF IInv, TypeOK
<1>2. Listed' /\ Busy' /\ BuffersSuffice'
  BY Zenon DEF IInv, Listed, Busy, BuffersSuffice
<1>3. Using'
  BY <1>b, <1>c DEF IInv, Using
<1>4. Counted'
  <2>1. Cardinality(Users(b)') = 1
    <3>1. Cardinality(Users(b)) = 0
      BY <1>b, Zenon DEF IInv, Counted
    <3>2. Cardinality(Users(b)') = Cardinality(Users(b)) + 1
      BY <1>b, TakeCounts, Zenon
    <3> QED  BY <3>1, <3>2
  <2>2. \A c \in Bufs : c # b => Users(c)' = Users(c)
    BY <1>b, TakeCounts, Zenon
  <2>3. refcnt'[b] = 1 /\ \A c \in Bufs : c # b => refcnt'[c] = refcnt[c]
    BY DEF IInv, TypeOK
  <2>4. \A c \in Bufs : refcnt'[c] = Cardinality(Users(c)')
    BY <2>1, <2>2, <2>3 DEF IInv, Counted
  <2> QED  BY <2>4, Zenon DEF Counted
<1>5. Named'
  <2>1. \A q \in Procs : cur'[q] # None => blockno'[cur'[q]] # None
    BY <1>b, <1>c, <1>v, <1>n, <1>u DEF IInv, Using, Named
  <2> QED  BY <2>1, <1>v DEF IInv, Named
<1>6. OneCopy'
  BY <1>v DEF IInv, OneCopy
<1>7. Locks'
  BY <1>b, <1>c, <1>n, NoneAssumption DEF IInv, Locks, Holding
<1>8. Ready'
  BY <1>c, <1>v, <1>u DEF IInv, Ready, Requesting
<1>9. Sleeping'
  BY <1>c, Zenon DEF IInv, Sleeping
<1>10. Fresh' /\ Kept'
  BY <1>b, <1>v DEF IInv, Fresh, Kept
<1>11. Capped'
  <2>1. \A q \in Procs : pc[q] \in Requesting => pc'[q] = pc[q] /\ cur'[q] = cur[q]
    BY <1>c, Zenon DEF Requesting
  <2> QED  BY <2>1, <1>v, FewerDirty DEF LogDirty
<1>12. Queue'
  <2>1. \A q \in Procs : \A c \in Bufs :
          cur'[q] = c /\ pc'[q] = "io" <=> cur[q] = c /\ pc[q] = "io"
    BY <1>c, Zenon
  <2> QED  BY <2>1 DEF IInv, Queue, Queued
<1>13. Written'
  <2> SUFFICES ASSUME irq, dirty'[Head(idequeue)]
               PROVE  disk[blockno'[Head(idequeue)]] = data[Head(idequeue)]
    BY Zenon DEF Written
  <2>1. Head(idequeue) \in Bufs
    BY DEF IInv, TypeOK, Busy
  <2> QED  BY <2>1, <1>v DEF IInv, Written
<1> QED  BY <1>1, <1>2, <1>3, <1>4, <1>5, <1>6, <1>7, <1>8, <1>9, <1>10, <1>11,
            <1>12, <1>13, Zenon DEF IInv

(***************************************************************************)
(* When bget() finds no buffer, each one is kept dirty by the log or used  *)
(* by another process: there are too few of them.                          *)
(***************************************************************************)
LEMMA TooFew ==
  ASSUME IInv, NEW p \in Procs, pc[p] = "user", \A b \in Bufs : ~Recyclable(b)
  PROVE  Cardinality(Bufs) < MaxLogged + Cardinality(Procs)
<1> DEFINE Others == Procs \ {p}
           Used == {cur[q] : q \in Others}
           f == [q \in Others |-> cur[q]]
<1>1. IsFiniteSet(Others) /\ Cardinality(Others) = Cardinality(Procs) - 1
  BY FS_RemoveElement, FiniteAssumption
<1>2. f \in Surjection(Others, Used)
  BY Zenon DEF Surjection
<1>3. IsFiniteSet(Used) /\ Cardinality(Used) <= Cardinality(Others)
  BY <1>1, <1>2, FS_Surjection, Zenon
<1>4. IsFiniteSet(LogDirty)
  BY FS_Subset, FiniteAssumption DEF LogDirty
<1>5. Bufs \subseteq LogDirty \union Used
  <2> SUFFICES ASSUME NEW b \in Bufs, b \notin Used  PROVE b \in LogDirty
    OBVIOUS
  <2>1. cur[p] # b
    BY NoneAssumption DEF IInv, Using
  <2>2. Users(b) = {}
    BY <2>1 DEF Users
  <2>3. refcnt[b] = 0
    BY <2>2, FS_EmptySet DEF IInv, Counted
  <2>4. dirty[b]
    BY <2>3 DEF Recyclable
  <2> QED  BY <2>2, <2>4, Zenon DEF Users, LogDirty
<1> HIDE DEF Others, Used, f
<1>6. /\ IsFiniteSet(LogDirty \union Used)
      /\ Cardinality(LogDirty \union Used)
           = Cardinality(LogDirty) + Cardinality(Used) - Cardinality(LogDirty \cap Used)
  BY <1>3, <1>4, FS_Union
<1>7. Cardinality(Bufs) <= Cardinality(LogDirty \union Used)
  BY <1>5, <1>6, FS_Subset
<1>8. IsFiniteSet(LogDirty \cap Used)
  BY <1>3, FS_Subset, Zenon
<1>9. /\ Cardinality(LogDirty) \in Nat /\ Cardinality(Used) \in Nat
      /\ Cardinality(LogDirty \cap Used) \in Nat /\ Cardinality(Bufs) \in Nat
      /\ Cardinality(Procs) \in Nat
  BY <1>3, <1>4, <1>8, FS_CardinalityType, FiniteAssumption
<1>10. Cardinality(LogDirty) <= MaxLogged
  BY DEF IInv, Capped
<1> QED  BY <1>1, <1>3, <1>6, <1>7, <1>9, <1>10, LoggedAssumption

(* bget(), in each of its three endings. *)
LEMMA BgetOK ==
  ASSUME IInv, NEW p \in Procs, NEW k \in Blocks, bget(p, k)
  PROVE  IInv'
<1> DEFINE cached == {b \in Bufs : blockno[b] = k}
           free == {i \in DOMAIN lru : Recyclable(lru[i])}
<1>u. pc[p] = "user" /\ UNCHANGED <<data, holder, lru, idequeue, working, irq,
                                     disk, latest>>
  BY DEF bget, ideVars
<1>1. CASE \E b \in cached :
             /\ refcnt' = [refcnt EXCEPT ![b] = @ + 1]
             /\ cur' = [cur EXCEPT ![p] = b]
             /\ pc' = [pc EXCEPT ![p] = "lock"]
             /\ UNCHANGED <<blockno, valid, dirty, panicked>>
  BY <1>1, <1>u, CachedOK, Zenon
<1>2. CASE /\ cached = {}
           /\ \E i \in free :
                LET b == lru[i]
                IN  /\ \A j \in free : j <= i
                    /\ blockno' = [blockno EXCEPT ![b] = k]
                    /\ valid' = [valid EXCEPT ![b] = FALSE]
                    /\ dirty' = [dirty EXCEPT ![b] = FALSE]
                    /\ refcnt' = [refcnt EXCEPT ![b] = 1]
                    /\ cur' = [cur EXCEPT ![p] = b]
                    /\ pc' = [pc EXCEPT ![p] = "lock"]
           /\ UNCHANGED panicked
  <2>1. PICK i \in free :
          /\ blockno' = [blockno EXCEPT ![lru[i]] = k]
          /\ valid' = [valid EXCEPT ![lru[i]] = FALSE]
          /\ dirty' = [dirty EXCEPT ![lru[i]] = FALSE]
          /\ refcnt' = [refcnt EXCEPT ![lru[i]] = 1]
          /\ cur' = [cur EXCEPT ![p] = lru[i]]
          /\ pc' = [pc EXCEPT ![p] = "lock"]
    BY <1>2, Zenon
  <2> DEFINE b == lru[i]
  <2>2. b \in Bufs /\ Recyclable(b)
    BY Zenon DEF IInv, TypeOK
  <2>3. \A c \in Bufs : blockno[c] # k
    BY <1>2
  <2> HIDE DEF b
  <2>4. /\ blockno' = [blockno EXCEPT ![b] = k]
        /\ valid' = [valid EXCEPT ![b] = FALSE]
        /\ dirty' = [dirty EXCEPT ![b] = FALSE]
        /\ refcnt' = [refcnt EXCEPT ![b] = 1]
        /\ cur' = [cur EXCEPT ![p] = b]
        /\ pc' = [pc EXCEPT ![p] = "lock"]
    BY <2>1 DEF b
  <2> QED  BY <1>2, <1>u, <2>2, <2>3, <2>4, RecycleOK, Zenon
<1>3. CASE /\ cached = {} /\ free = {}
           /\ panicked' = TRUE
           /\ UNCHANGED <<blockno, valid, dirty, refcnt, cur, pc>>
  <2>1. \A b \in Bufs : ~Recyclable(b)
    BY <1>3 DEF IInv, Listed
  <2>2. Cardinality(Bufs) < MaxLogged + Cardinality(Procs)
    BY <2>1, <1>u, TooFew
  <2>3. Cardinality(Bufs) \in Nat /\ MaxLogged + Cardinality(Procs) \in Nat
    BY FS_CardinalityType, FiniteAssumption, LoggedAssumption
  <2>4. BuffersSuffice'
    BY <2>2, <2>3 DEF BuffersSuffice
  <2>5. TypeOK'
    BY <1>3, <1>u DEF IInv, TypeOK
  <2>6. Listed' /\ Using' /\ Counted' /\ Named' /\ OneCopy'
    BY <1>3, <1>u DEF IInv, Listed, Using, Counted, Users, Named, OneCopy
  <2>8. Locks' /\ Ready'
    BY <1>3, <1>u DEF IInv, Locks, Ready
  <2>9. Fresh' /\ Kept'
    BY <1>3, <1>u DEF IInv, Fresh, Kept
  <2>10. Sleeping'
    BY <1>3, <1>u DEF IInv, Sleeping
  <2>11. Queue' /\ Busy' /\ Written'
    BY <1>3, <1>u DEF IInv, Queue, Queued, Busy, Written
  <2>7. Capped'
    BY <1>3, <1>u, FewerDirty DEF LogDirty
  <2> QED  BY <2>4, <2>5, <2>6, <2>7, <2>8, <2>9, <2>10, <2>11 DEF IInv
<1> QED  BY <1>1, <1>2, <1>3, Zenon DEF bget

(* binit() establishes the invariant. *)
LEMMA InitOK ==
  ASSUME binit
  PROVE  IInv
<1>1. TypeOK
  <2>1. idequeue \in Seq(Bufs)
    BY DEF binit
  <2>2. /\ valid \in [Bufs -> BOOLEAN] /\ dirty \in [Bufs -> BOOLEAN]
        /\ working \in BOOLEAN /\ irq \in BOOLEAN /\ panicked \in BOOLEAN
    BY Zenon DEF binit
  <2> QED  BY <2>1, <2>2 DEF binit, TypeOK, Holding
<1>2. Listed /\ Using /\ Named /\ OneCopy /\ Ready /\ Fresh /\ Kept /\ Sleeping
  BY Zenon DEF binit, Listed, Using, Named, OneCopy, Ready, Requesting, Fresh, Kept, Sleeping
<1>3. Counted
  <2>1. \A b \in Bufs : Users(b) = {}
    BY NoneAssumption, Zenon DEF binit, Users
  <2> QED  BY <2>1, FS_EmptySet, Zenon DEF binit, Counted
<1>4. Locks
  BY NoneAssumption DEF binit, Locks, Holding
<1>5. Queue
  BY DEF binit, Queue, Queued
<1>6. Busy /\ Written /\ BuffersSuffice
  BY Zenon DEF binit, Busy, Written, BuffersSuffice
<1>7. Capped
  <2>1. LogDirty = {}
    BY Zenon DEF binit, LogDirty
  <2> QED  BY <2>1, FS_EmptySet, LoggedAssumption DEF Capped
<1> QED  BY <1>1, <1>2, <1>3, <1>4, <1>5, <1>6, <1>7 DEF IInv

(* Every step keeps the invariant. *)
LEMMA StepOK ==
  ASSUME IInv, [Next]_vars
  PROVE  IInv'
<1>1. ASSUME NEW p \in Procs, bread(p)  PROVE IInv'
  BY <1>1, BgetOK, AcquireOK, Zenon DEF bread
<1>2. ASSUME NEW p \in Procs, Writes(p)  PROVE IInv'
  BY <1>2, StoreOK DEF Writes
<1>3. ASSUME NEW p \in Procs, Release(p)  PROVE IInv'
  BY <1>3, ReleaseOK, BrelseOK DEF Release
<1>4. CASE Driver
  BY <1>4, DiskOK, IdeintrOK DEF Driver
<1>5. CASE UNCHANGED vars
  <2>1. TypeOK'
    BY <1>5 DEF IInv, TypeOK, vars
  <2>2. Listed' /\ Using' /\ Counted' /\ Named' /\ OneCopy' /\ BuffersSuffice'
    BY <1>5 DEF IInv, Listed, Using, Counted, Users, Named, OneCopy, BuffersSuffice, vars
  <2>4. Locks' /\ Ready'
    BY <1>5 DEF IInv, Locks, Ready, vars
  <2>6. Fresh' /\ Kept' /\ Sleeping'
    BY <1>5 DEF IInv, Fresh, Kept, Sleeping, vars
  <2>5. Queue' /\ Busy' /\ Written'
    BY <1>5 DEF IInv, Queue, Queued, Busy, Written, vars
  <2>3. Capped'
    BY <1>5, FewerDirty DEF LogDirty, vars
  <2> QED  BY <2>1, <2>2, <2>3, <2>4, <2>5, <2>6, Zenon DEF IInv
<1> QED  BY <1>1, <1>2, <1>3, <1>4, <1>5, IderwOK, Zenon DEF Next

-----------------------------------------------------------------------------
(***************************************************************************)
(* The cache, its locks and the driver keep the inductive invariant.       *)
(***************************************************************************)
THEOREM Invariance == Spec => []IInv
<1>1. binit => IInv
  BY InitOK, Zenon
<1>2. IInv /\ [Next]_vars => IInv'
  BY StepOK
<1> QED  BY <1>1, <1>2, PTL DEF Spec

(***************************************************************************)
(* bread() returns the block as it was last stored, however buffers are    *)
(* recycled and requests queued: a valid buffer is fresh, only one buffer  *)
(* stands for a block, and a block that no buffer holds dirty is up to     *)
(* date on the disk.                                                       *)
(***************************************************************************)
THEOREM ReadsLatestHolds == Spec => []ReadsLatest
<1>1. IInv => ReadsLatest
  BY UserOf DEF IInv, ReadsLatest, Ready, Fresh
<1> QED  BY <1>1, Invariance, PTL

(***************************************************************************)
(* bget() never panics when there are as many buffers as the log may keep  *)
(* dirty and processes together, whatever their number.                    *)
(***************************************************************************)
THEOREM BuffersSufficeHolds == Spec => []BuffersSuffice
<1>1. IInv => BuffersSuffice
  BY DEF IInv
<1> QED  BY <1>1, Invariance, PTL

(***************************************************************************)
(* Nobody sleeps on a free lock, and who waits for the disk is in its      *)
(* queue while the disk works or its interrupt is due.                     *)
(***************************************************************************)
THEOREM SleepersServedHolds == Spec => []SleepersServed
<1>1. ASSUME IInv  PROVE SleepersServed
  <2>1. \A p \in Procs : pc[p] = "io" => cur[p] \in Queued /\ holder[cur[p]] = p
    BY <1>1, UserOf, HolderOf, Zenon DEF IInv, Queue, Holding
  <2>2. idequeue # << >> => working # irq
    BY <1>1 DEF IInv, TypeOK, Busy
  <2> QED  BY <1>1, <2>1, <2>2 DEF IInv, Sleeping, SleepersServed
<1> QED  BY <1>1, Invariance, PTL
=============================================================================
