------------------------------ MODULE BufCache ------------------------------
(***************************************************************************)
(* The buffer cache (bio.c) with its sleep-locks (sleeplock.c), on top of  *)
(* the disk driver (ide.c) and a disk that works while processes run and   *)
(* interrupts when it is done.  A critical section under bcache.lock, a    *)
(* sleep-lock's lk or idelock is one step.  A process uses one buffer at a *)
(* time: bread(), any number of changes, each with log_write() or          *)
(* bwrite(), brelse().                                                     *)
(***************************************************************************)
EXTENDS Integers, Sequences, FiniteSets

CONSTANTS
  Procs,
  Blocks,     (* block numbers                                             *)
  Bufs,       (* the buffers of bcache.buf                                 *)
  Data,       (* possible contents of a block                              *)
  None,       (* no block, no buffer, no process                           *)
  MaxLogged   (* blocks the log lets its callers keep dirty                *)

ASSUME NoneAssumption == None \notin Blocks \union Bufs \union Procs
ASSUME LoggedAssumption == MaxLogged \in Nat
ASSUME FiniteAssumption == IsFiniteSet(Procs) /\ IsFiniteSet(Bufs)

VARIABLES
  blockno, valid, dirty, refcnt, data,  (* fields of struct buf            *)
  holder,    (* who holds b->lock: lk->locked and lk->pid                  *)
  lru,       (* bcache.head's list, the most recently used buffer first    *)
  idequeue,  (* the driver's queue; its head is the active request         *)
  working,   (* the disk has a command it has not finished                 *)
  irq,       (* the disk's interrupt is pending                            *)
  disk,      (* contents of the blocks                                     *)
  pc, cur,   (* where a process is, and the buffer it uses                 *)
  latest,    (* history: what was last stored in each block                *)
  panicked

cacheVars == <<blockno, valid, dirty, refcnt, lru>>
ideVars == <<idequeue, working, irq, disk>>
vars == <<blockno, valid, dirty, refcnt, data, holder, lru, idequeue, working,
          irq, disk, pc, cur, latest, panicked>>

(* binit(): dev 0, block 0 in every buffer, which no bread() asks for. *)
binit ==
  /\ blockno = [b \in Bufs |-> None]
  /\ valid = [b \in Bufs |-> FALSE]
  /\ dirty = [b \in Bufs |-> FALSE]
  /\ refcnt = [b \in Bufs |-> 0]
  /\ data \in [Bufs -> Data]
  /\ holder = [b \in Bufs |-> None]
  /\ lru \in [1 .. Cardinality(Bufs) -> Bufs]
  /\ \A b \in Bufs : \E i \in DOMAIN lru : lru[i] = b
  /\ idequeue = << >>
  /\ working = FALSE
  /\ irq = FALSE
  /\ disk \in [Blocks -> Data]
  /\ pc = [p \in Procs |-> "user"]
  /\ cur = [p \in Procs |-> None]
  /\ latest = disk
  /\ panicked = FALSE

-----------------------------------------------------------------------------
(* The buffer that bget() recycles: the least recently used that is free. *)
Recyclable_Dirty(b) == refcnt[b] = 0
Recyclable(b) == refcnt[b] = 0 /\ ~dirty[b]

(* bget(k) under bcache.lock; acquiresleep() comes next. *)
bget(p, k) ==
  LET cached == {b \in Bufs : blockno[b] = k}
      free == {i \in DOMAIN lru : Recyclable(lru[i])}
  IN  /\ pc[p] = "user"
      /\ \/ \E b \in cached :
              /\ refcnt' = [refcnt EXCEPT ![b] = @ + 1]
              /\ cur' = [cur EXCEPT ![p] = b]
              /\ pc' = [pc EXCEPT ![p] = "lock"]
              /\ UNCHANGED <<blockno, valid, dirty, panicked>>
         \/ /\ cached = {}
            /\ \E i \in free :
                 LET b == lru[i]
                 IN  /\ \A j \in free : j <= i
                     /\ blockno' = [blockno EXCEPT ![b] = k]
                     /\ valid' = [valid EXCEPT ![b] = FALSE]
                     /\ dirty' = [dirty EXCEPT ![b] = FALSE]
                     /\ refcnt' = [refcnt EXCEPT ![b] = 1]
                     /\ cur' = [cur EXCEPT ![p] = b]
                     /\ pc' = [pc EXCEPT ![p] = "lock"]
            /\ UNCHANGED panicked
         \/ /\ cached = {} /\ free = {}
            /\ panicked' = TRUE
            /\ UNCHANGED <<blockno, valid, dirty, refcnt, cur, pc>>
      /\ UNCHANGED <<data, holder, lru, ideVars, latest>>

(* The loop of acquiresleep(), under lk: take the lock or sleep on it. *)
acquiresleep(p) ==
  LET b == cur[p]
  IN  /\ pc[p] = "lock"
      /\ IF holder[b] = None
           THEN /\ holder' = [holder EXCEPT ![b] = p]
                /\ pc' = [pc EXCEPT ![p] = IF valid[b] THEN "have" ELSE "iderw"]
           ELSE /\ pc' = [pc EXCEPT ![p] = "sleep"]
                /\ UNCHANGED holder
      /\ UNCHANGED <<cacheVars, data, ideVars, cur, latest, panicked>>

(* iderw() up to its first sleep(): append, and start an idle disk. *)
iderw(p) ==
  LET b == cur[p]
  IN  /\ pc[p] = "iderw"
      /\ panicked' = (valid[b] /\ ~dirty[b])
      /\ idequeue' = Append(idequeue, b)
      /\ working' = (working \/ idequeue = << >>)
      /\ pc' = [pc EXCEPT ![p] = "io"]
      /\ UNCHANGED <<cacheVars, data, holder, irq, disk, cur, latest>>

(* The disk carries out the command that idestart() gave it, and interrupts. *)
disk_done ==
  LET b == Head(idequeue)
  IN  /\ working
      /\ disk' = IF dirty[b] THEN [disk EXCEPT ![blockno[b]] = data[b]] ELSE disk
      /\ working' = FALSE
      /\ irq' = TRUE
      /\ UNCHANGED <<cacheVars, data, holder, idequeue, pc, cur, latest, panicked>>

(* What ideintr() starts after a request: the next in the queue. *)
idestart_next(rest) == rest # << >>

(* ideintr(): the head of the queue is done; its process stops waiting. *)
ideintr(p) ==
  LET b == Head(idequeue)
  IN  /\ irq
      /\ cur[p] = b /\ pc[p] = "io"
      /\ data' = [data EXCEPT ![b] = IF dirty[b] THEN @ ELSE disk[blockno[b]]]
      /\ valid' = [valid EXCEPT ![b] = TRUE]
      /\ dirty' = [dirty EXCEPT ![b] = FALSE]
      /\ pc' = [pc EXCEPT ![p] = "have"]
      /\ idequeue' = Tail(idequeue)
      /\ working' = idestart_next(Tail(idequeue))
      /\ irq' = FALSE
      /\ UNCHANGED <<blockno, refcnt, holder, lru, disk, cur, latest, panicked>>

(* The holder changes the block and calls log_write(), which sets B_DIRTY. *)
log_write(p, d) ==
  LET b == cur[p]
  IN  /\ pc[p] = "have"
      /\ Cardinality({c \in Bufs : dirty[c]} \union {b}) <= MaxLogged
      /\ data' = [data EXCEPT ![b] = d]
      /\ latest' = [latest EXCEPT ![blockno[b]] = d]
      /\ dirty' = [dirty EXCEPT ![b] = TRUE]
      /\ UNCHANGED <<blockno, valid, refcnt, lru, holder, ideVars, pc, cur, panicked>>

(* The holder calls bwrite(), with the block changed or as it was. *)
bwrite(p, d) ==
  LET b == cur[p]
  IN  /\ pc[p] = "have"
      /\ data' = [data EXCEPT ![b] = d]
      /\ latest' = [latest EXCEPT ![blockno[b]] = d]
      /\ dirty' = [dirty EXCEPT ![b] = TRUE]
      /\ pc' = [pc EXCEPT ![p] = "iderw"]
      /\ UNCHANGED <<blockno, valid, refcnt, lru, holder, ideVars, cur, panicked>>

(* wakeup(lk): whoever sleeps on the lock of b runs its loop again. *)
wakeup_None(f, b) == f
wakeup(f, b) == [q \in Procs |-> IF f[q] = "sleep" /\ cur[q] = b THEN "lock" ELSE f[q]]

(* brelse(): releasesleep() ... *)
releasesleep(p) ==
  LET b == cur[p]
  IN  /\ pc[p] = "have"
      /\ holder' = [holder EXCEPT ![b] = None]
      /\ pc' = wakeup([pc EXCEPT ![p] = "brelse"], b)
      /\ UNCHANGED <<cacheVars, data, ideVars, cur, latest, panicked>>

(* The reference count that brelse() leaves. *)
Dropped_Not(n) == n
Dropped(n) == n - 1

(* The list with buffer b moved to its front. *)
MoveToFront(b) ==
  LET at == CHOOSE i \in DOMAIN lru : lru[i] = b
  IN  [i \in DOMAIN lru |-> IF i = 1 THEN b ELSE IF i <= at THEN lru[i - 1] ELSE lru[i]]

(* ... and, under bcache.lock, refcnt and the list. *)
brelse(p) ==
  LET b == cur[p]
  IN  /\ pc[p] = "brelse"
      /\ refcnt' = [refcnt EXCEPT ![b] = Dropped(@)]
      /\ lru' = IF refcnt'[b] = 0 THEN MoveToFront(b) ELSE lru
      /\ pc' = [pc EXCEPT ![p] = "user"]
      /\ cur' = [cur EXCEPT ![p] = None]
      /\ UNCHANGED <<blockno, valid, dirty, data, holder, ideVars, latest, panicked>>

-----------------------------------------------------------------------------
bread(p) ==
  \/ \E k \in Blocks : bget(p, k)
  \/ acquiresleep(p)

Writes(p) == \E d \in Data : log_write(p, d) \/ bwrite(p, d)

Release(p) == releasesleep(p) \/ brelse(p)

Driver == disk_done \/ \E p \in Procs : ideintr(p)

Next ==
  /\ ~panicked
  /\ \/ \E p \in Procs : bread(p) \/ iderw(p) \/ Writes(p) \/ Release(p)
     \/ Driver

Spec == binit /\ [][Next]_vars

-----------------------------------------------------------------------------
(***************************************************************************)
(* bread() hands out the block as it was last stored, although buffers are *)
(* recycled, the disk is slow and several processes want the same block;   *)
(* and what the log keeps dirty is never lost.                             *)
(***************************************************************************)
ReadsLatest ==
  \A p \in Procs : pc[p] = "have" => data[cur[p]] = latest[blockno[cur[p]]]

(***************************************************************************)
(* bget() never panics with "no buffers" when there is one buffer more for *)
(* every process than the log may keep dirty.                              *)
(***************************************************************************)
BuffersSuffice ==
  Cardinality(Bufs) >= MaxLogged + Cardinality(Procs) => ~panicked

(* The buffers in the driver's queue. *)
Queued == {idequeue[i] : i \in DOMAIN idequeue}

(***************************************************************************)
(* acquiresleep(), iderw() and ideintr() leave nobody waiting in vain: a   *)
(* process sleeps on a buffer's lock only while another one holds it; who  *)
(* waits for the disk has its buffer in the queue and holds its lock; and  *)
(* while the queue is not empty the disk works or its interrupt is due.    *)
(***************************************************************************)
SleepersServed ==
  /\ \A p \in Procs :
       /\ pc[p] = "sleep" => holder[cur[p]] \notin {None, p}
       /\ pc[p] = "io" => cur[p] \in Queued /\ holder[cur[p]] = p
  /\ idequeue # << >> => working # irq

=============================================================================
