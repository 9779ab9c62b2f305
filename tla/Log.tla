-------------------------------- MODULE Log --------------------------------
(***************************************************************************)
(* The redo log of log.c, with the part of the buffer cache (bio.c) it     *)
(* leans on: which blocks are cached, and which are pinned by B_DIRTY.     *)
(*                                                                         *)
(* A process makes a file-system call: begin_op(), some number of          *)
(* bread/modify/log_write/brelse, end_op().  The last end_op() commits.    *)
(* Every disk write is one step, so that a crash can fall between any two  *)
(* of them; a critical section under log.lock is one step.                 *)
(***************************************************************************)
EXTENDS Integers, Sequences, FiniteSets

CONSTANTS
  Procs,        (* processes that make file-system calls                   *)
  Blocks,       (* block numbers outside the log                           *)
  Data,         (* possible contents of a block                            *)
  Zero,         (* contents mkfs leaves in every block                     *)
  NoBuf,        (* "no buffer of the cache holds this block"               *)
  NoBlock,      (* "not inside log_write"                                  *)
  MAXOPBLOCKS,  (* blocks begin_op() reserves for an operation             *)
  LOGSIZE,      (* entries of logheader.block[]                            *)
  OpBlocks      (* distinct blocks an operation really writes, at most     *)

ASSUME DataAssumption == Zero \in Data /\ NoBuf \notin Data
ASSUME BlockAssumption == NoBlock \notin Blocks
ASSUME ProcsAssumption == IsFiniteSet(Procs)
ASSUME BoundAssumption ==
  /\ MAXOPBLOCKS \in Nat \ {0}
  /\ LOGSIZE \in Nat
  /\ MAXOPBLOCKS <= LOGSIZE
  /\ OpBlocks \in Nat

VARIABLES
  \* on disk
  disk,         (* contents of the home locations                          *)
  logblk,       (* contents of the log's data blocks                       *)
  head,         (* the header block: the block numbers of a committed log  *)
  \* struct log
  lh,           (* log.lh: block numbers logged since the last commit      *)
  outstanding,  (* log.outstanding                                         *)
  committing,   (* log.committing                                          *)
  tail,         (* the loop index of write_log() and install_trans()       *)
  \* buffer cache
  buf,          (* contents of a cached block, or NoBuf                    *)
  dirty,        (* cached blocks with B_DIRTY                              *)
  \* processes
  pc,           (* where each process is                                   *)
  cur,          (* the buffer a process holds locked inside log_write      *)
  wrote,        (* blocks written so far by a process's operation          *)
  boot,         (* how far initlog() has come                              *)
  panicked      (* panic() froze the machine                               *)

onDisk == <<disk, logblk, head>>
logVars == <<lh, outstanding, committing, tail>>
cacheVars == <<buf, dirty>>
procVars == <<pc, cur, wrote>>
vars == <<disk, logblk, head, lh, outstanding, committing, tail, buf, dirty,
          pc, cur, wrote, boot, panicked>>

(* sb.nlog, as mkfs lays it out: the header and LOGSIZE - 1 data blocks. *)
size == LOGSIZE

Init ==
  /\ disk = [b \in Blocks |-> Zero]
  /\ logblk = [i \in 1 .. LOGSIZE |-> Zero]
  /\ head = << >>
  /\ lh = << >>
  /\ outstanding = 0
  /\ committing = FALSE
  /\ tail = 0
  /\ buf = [b \in Blocks |-> NoBuf]
  /\ dirty = {}
  /\ pc = [p \in Procs |-> "user"]
  /\ cur = [p \in Procs |-> NoBlock]
  /\ wrote = [p \in Procs |-> {}]
  /\ boot = "read_head"
  /\ panicked = FALSE

-----------------------------------------------------------------------------
(* What bread() finds in block b. *)
View == [b \in Blocks |-> IF buf[b] = NoBuf THEN disk[b] ELSE buf[b]]

(* wakeup(&log): whoever sleeps in begin_op() runs its loop again. *)
wakeup(f) == [p \in Procs |-> IF f[p] = "sleep" THEN "begin" ELSE f[p]]

(* How begin_op() ends, or sleeps on &log. *)
Enter(p) ==
  /\ pc' = [pc EXCEPT ![p] = "op"]
  /\ outstanding' = outstanding + 1

Wait(p) ==
  /\ pc' = [pc EXCEPT ![p] = "sleep"]
  /\ UNCHANGED outstanding

begin_op_OneOff(p) ==
  /\ boot = "up"
  /\ pc[p] \in {"user", "begin"}
  /\ IF committing \/ Len(lh) + outstanding * MAXOPBLOCKS > LOGSIZE
       THEN Wait(p) ELSE Enter(p)
  /\ UNCHANGED <<onDisk, lh, committing, tail, cacheVars, cur, wrote,
                 boot, panicked>>

(* One turn of the loop of begin_op(), under log.lock. *)
begin_op(p) ==
  /\ boot = "up"
  /\ pc[p] \in {"user", "begin"}
  /\ IF committing \/ Len(lh) + (outstanding + 1) * MAXOPBLOCKS > LOGSIZE
       THEN Wait(p) ELSE Enter(p)
  /\ UNCHANGED <<onDisk, lh, committing, tail, cacheVars, cur, wrote,
                 boot, panicked>>

(***************************************************************************)
(* bp = bread(b); modify bp->data; and the tests at the top of log_write,  *)
(* which read log.lh.n and log.outstanding without log.lock.  The buffer   *)
(* stays locked until log_append.                                          *)
(***************************************************************************)
log_write(p, b, d) ==
  /\ pc[p] = "op"
  /\ \A q \in Procs : cur[q] # b
  /\ Cardinality(wrote[p] \union {b}) <= OpBlocks
  /\ buf' = [buf EXCEPT ![b] = d]
  /\ wrote' = [wrote EXCEPT ![p] = @ \union {b}]
  /\ pc' = [pc EXCEPT ![p] = "log_write"]
  /\ cur' = [cur EXCEPT ![p] = b]
  /\ panicked' = \/ Len(lh) >= LOGSIZE
                 \/ Len(lh) >= size - 1
                 \/ outstanding < 1
  /\ UNCHANGED <<onDisk, logVars, dirty, boot>>

(* Whether a header has block b: the search of log_write for absorption. *)
Has(h, b) == \E i \in 1 .. Len(h) : h[i] = b

(* The rest of log_write, under log.lock, and brelse(bp). *)
log_append(p) ==
  /\ pc[p] = "log_write"
  /\ lh' = IF Has(lh, cur[p]) THEN lh ELSE Append(lh, cur[p])
  /\ dirty' = dirty \union {cur[p]}
  /\ pc' = [pc EXCEPT ![p] = "op"]
  /\ cur' = [cur EXCEPT ![p] = NoBlock]
  /\ UNCHANGED <<onDisk, outstanding, committing, tail, buf, wrote,
                 boot, panicked>>

(* end_op() up to the release of log.lock; the last one goes on to commit(). *)
end_op(p) ==
  /\ pc[p] = "op"
  /\ outstanding' = outstanding - 1
  /\ panicked' = committing
  /\ committing' = (outstanding' = 0)
  /\ pc' = IF outstanding' # 0
             THEN wakeup([pc EXCEPT ![p] = "user"])
             ELSE [pc EXCEPT ![p] = IF lh = << >> THEN "committed"
                                                  ELSE "write_log"]
  /\ wrote' = [wrote EXCEPT ![p] = {}]
  /\ tail' = 0
  /\ UNCHANGED <<onDisk, lh, cacheVars, cur, boot>>

(* One turn of the loop of write_log(). *)
write_log(p) ==
  /\ pc[p] = "write_log"
  /\ tail < Len(lh)
  /\ logblk' = [logblk EXCEPT ![tail + 1] = View[lh[tail + 1]]]
  /\ buf' = [buf EXCEPT ![lh[tail + 1]] = View[lh[tail + 1]]]
  /\ tail' = tail + 1
  /\ UNCHANGED <<disk, head, lh, outstanding, committing, dirty, procVars,
                 boot, panicked>>

write_head_BeforeLog(p) ==
  /\ pc[p] = "write_log"
  /\ tail + 1 >= Len(lh)
  /\ head' = lh
  /\ tail' = 0
  /\ pc' = [pc EXCEPT ![p] = "install"]
  /\ UNCHANGED <<disk, logblk, lh, outstanding, committing, cacheVars, cur,
                 wrote, boot, panicked>>

(* The write_head() that commits. *)
write_head(p) ==
  /\ pc[p] = "write_log"
  /\ tail = Len(lh)
  /\ head' = lh
  /\ tail' = 0
  /\ pc' = [pc EXCEPT ![p] = "install"]
  /\ UNCHANGED <<disk, logblk, lh, outstanding, committing, cacheVars, cur,
                 wrote, boot, panicked>>

(* One turn of the loop of install_trans(). *)
install_trans ==
  /\ tail < Len(lh)
  /\ LET b == lh[tail + 1]
     IN  /\ buf' = [buf EXCEPT ![b] = logblk[tail + 1]]
         /\ disk' = [disk EXCEPT ![b] = logblk[tail + 1]]
         /\ dirty' = dirty \ {b}
  /\ tail' = tail + 1
  /\ UNCHANGED <<logblk, head, lh, outstanding, committing, procVars, boot,
                 panicked>>

(* log.lh.n = 0; write_head(), once install_trans() is through. *)
clear_head ==
  /\ tail = Len(lh)
  /\ lh' = << >>
  /\ head' = << >>
  /\ tail' = 0
  /\ UNCHANGED <<disk, logblk, outstanding, committing, cacheVars, cur, wrote,
                 panicked>>

commit_install(p) == pc[p] = "install" /\ install_trans

commit_clear(p) ==
  /\ pc[p] = "install"
  /\ clear_head
  /\ pc' = [pc EXCEPT ![p] = "committed"]
  /\ UNCHANGED boot

end_commit_NoWakeup(p) ==
  /\ pc[p] = "committed"
  /\ committing' = FALSE
  /\ pc' = [pc EXCEPT ![p] = "user"]
  /\ UNCHANGED <<onDisk, lh, outstanding, tail, cacheVars, cur, wrote, boot,
                 panicked>>

(* The end of end_op(), after commit(), under log.lock. *)
end_commit(p) ==
  /\ pc[p] = "committed"
  /\ committing' = FALSE
  /\ pc' = wakeup([pc EXCEPT ![p] = "user"])
  /\ UNCHANGED <<onDisk, lh, outstanding, tail, cacheVars, cur, wrote, boot,
                 panicked>>

(* bread() of a block that is not cached, by anybody. *)
bread(b) ==
  /\ boot = "up"
  /\ buf[b] = NoBuf
  /\ buf' = [buf EXCEPT ![b] = disk[b]]
  /\ UNCHANGED <<onDisk, logVars, dirty, procVars, boot, panicked>>

(* bget() recycles a buffer that nobody refers to and that is not B_DIRTY. *)
recycle(b) ==
  /\ buf[b] # NoBuf
  /\ \A p \in Procs : cur[p] # b
  /\ b \notin dirty
  /\ buf' = [buf EXCEPT ![b] = NoBuf]
  /\ UNCHANGED <<onDisk, logVars, dirty, procVars, boot, panicked>>

-----------------------------------------------------------------------------
(* recover_from_log(), run by the first process before any system call. *)
read_head ==
  /\ boot = "read_head"
  /\ lh' = head
  /\ tail' = 0
  /\ boot' = "install"
  /\ UNCHANGED <<onDisk, outstanding, committing, cacheVars, procVars, panicked>>

recover_install == boot = "install" /\ install_trans

recover_clear ==
  /\ boot = "install"
  /\ clear_head
  /\ boot' = "up"
  /\ UNCHANGED pc

recover_from_log == read_head \/ recover_install \/ recover_clear

(* Power failure or reset, after a panic too: only the disk is left. *)
Crash ==
  /\ lh' = << >>
  /\ outstanding' = 0
  /\ committing' = FALSE
  /\ tail' = 0
  /\ buf' = [b \in Blocks |-> NoBuf]
  /\ dirty' = {}
  /\ pc' = [p \in Procs |-> "user"]
  /\ cur' = [p \in Procs |-> NoBlock]
  /\ wrote' = [p \in Procs |-> {}]
  /\ boot' = "read_head"
  /\ panicked' = FALSE
  /\ UNCHANGED onDisk

-----------------------------------------------------------------------------
commit(p) ==
  \/ write_log(p) \/ write_head(p) \/ commit_install(p) \/ commit_clear(p)
  \/ end_commit(p)

Operation(p) ==
  \/ begin_op(p)
  \/ \E b \in Blocks, d \in Data : log_write(p, b, d)
  \/ log_append(p)
  \/ end_op(p)
  \/ commit(p)

Running ==
  \/ \E p \in Procs : Operation(p)
  \/ \E b \in Blocks : bread(b) \/ recycle(b)
  \/ recover_from_log

Next == (~panicked /\ Running) \/ Crash

Spec == Init /\ [][Next]_vars

(***************************************************************************)
(* A process that the scheduler keeps running goes on with what it is in   *)
(* the middle of.  A system call writes finitely often and then calls      *)
(* end_op(): strong fairness, since each log_write disables end_op().      *)
(***************************************************************************)
Fairness ==
  /\ WF_vars(~panicked /\ recover_from_log)
  /\ \A p \in Procs :
       /\ WF_vars(~panicked /\ (log_append(p) \/ commit(p)))
       /\ SF_vars(~panicked /\ end_op(p))

FairSpec == Spec /\ Fairness

-----------------------------------------------------------------------------
PcValues == {"user", "begin", "sleep", "op", "log_write", "write_log",
             "install", "committed"}

(* The type of every variable. *)
TypeOK ==
  /\ disk \in [Blocks -> Data]
  /\ logblk \in [1 .. LOGSIZE -> Data]
  /\ head \in Seq(Blocks)
  /\ lh \in Seq(Blocks)
  /\ outstanding \in Nat
  /\ committing \in BOOLEAN
  /\ tail \in Nat
  /\ buf \in [Blocks -> Data \union {NoBuf}]
  /\ dirty \in SUBSET Blocks
  /\ pc \in [Procs -> PcValues]
  /\ cur \in [Procs -> Blocks \union {NoBlock}]
  /\ wrote \in [Procs -> SUBSET Blocks]
  /\ boot \in {"read_head", "install", "up"}
  /\ panicked \in BOOLEAN

(***************************************************************************)
(* The reservation of begin_op() is enough: however calls interleave and   *)
(* although log_write tests log.lh.n without the lock, none of the three   *)
(* panics of log.c is reached and log.lh.block[] and the on-disk log never *)
(* overflow.                                                               *)
(***************************************************************************)
NeverTooBig ==
  /\ ~panicked
  /\ Len(lh) <= LOGSIZE
  /\ Len(lh) <= size - 1

(* What recover_from_log() would leave in the home locations after a crash. *)
Recovered ==
  [b \in Blocks |-> IF Has(head, b)
                      THEN logblk[CHOOSE i \in 1 .. Len(head) : head[i] = b]
                      ELSE disk[b]]

(* What the running system reads; nothing is read before recovery is over. *)
Current == IF boot = "up" THEN View ELSE Recovered

InOp == {p \in Procs : pc[p] \in {"op", "log_write"}}

(***************************************************************************)
(* No lost wakeup: a process sleeps in begin_op() only while some process  *)
(* is still due to call wakeup(&log).                                      *)
(***************************************************************************)
SleeperHasWaker ==
  (\E p \in Procs : pc[p] = "sleep") => outstanding > 0 \/ committing

(***************************************************************************)
(* While a commit writes the log, installs it or erases it, no system call *)
(* is active (the header comment of log.c).                                *)
(***************************************************************************)
CommitExcludesOps ==
  committing => /\ InOp = {}
                /\ \E p \in Procs : pc[p] \in {"write_log", "install", "committed"}

Store == INSTANCE AtomicStore WITH
           stable <- Recovered, current <- Current, active <- InOp

(***************************************************************************)
(* The log implements the atomic store: the writes of a group of calls     *)
(* survive a crash all or not at all, whichever disk write the crash falls *)
(* after, recovery included.                                               *)
(***************************************************************************)
Atomic == Store!Spec

(* begin_op() does not leave a process asleep for ever. *)
SleepersWake == \A p \in Procs : pc[p] = "sleep" ~> pc[p] # "sleep"

=============================================================================
