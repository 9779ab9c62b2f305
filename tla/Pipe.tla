-------------------------------- MODULE Pipe --------------------------------
(***************************************************************************)
(* A pipe (pipe.c) and the processes that hold its two ends.  A critical   *)
(* section under p->lock is one step.  sleep() takes ptable.lock before it *)
(* gives up p->lock, so no wakeup falls in between; but kill() takes only  *)
(* ptable.lock, so it can fall between the test of proc->killed and the    *)
(* sleep: a process that has decided to sleep is in a state of its own, in *)
(* which it still holds p->lock.                                           *)
(***************************************************************************)
EXTENDS Integers, Sequences, FiniteSets

CONSTANTS
  Readers,   (* processes with the read end open   *)
  Writers,   (* processes with the write end open  *)
  Byte,      (* values of a byte                   *)
  PIPESIZE,  (* slots of pipe.data                 *)
  UINT,      (* nread and nwrite count modulo this *)
  Messages,  (* arguments of write()               *)
  Counts,    (* n of read()                        *)
  Kill       (* whether kill() is ever called      *)

ASSUME PipeAssumption ==
  /\ PIPESIZE \in Nat \ {0}
  /\ UINT \in Nat \ {0}
  /\ UINT % PIPESIZE = 0
  /\ PIPESIZE < UINT
  /\ Messages \subseteq Seq(Byte)
  /\ Counts \subseteq Nat
  /\ Readers \cap Writers = {}

VARIABLES
  data, nread, nwrite, readopen, writeopen,  (* struct pipe               *)
  freed,    (* pipeclose() has called kfree(p)                            *)
  fd,       (* the processes whose descriptor is still open               *)
  pc,       (* where each process is                                      *)
  left,     (* bytes its write() has still to put                         *)
  addr,     (* bytes its last read() returned                             *)
  want,     (* n of its read()                                            *)
  killed    (* proc->killed                                               *)

pipeVars == <<data, nread, nwrite, readopen, writeopen, freed, fd>>
vars == <<data, nread, nwrite, readopen, writeopen, freed, fd, pc, left, addr,
          want, killed>>

Procs == Readers \union Writers

(* The state after pipealloc() and the fork()s that share the ends out. *)
pipealloc ==
  /\ data \in [0 .. PIPESIZE - 1 -> Byte]
  /\ nread = 0
  /\ nwrite = 0
  /\ readopen = TRUE
  /\ writeopen = TRUE
  /\ freed = FALSE
  /\ fd = Procs
  /\ pc = [p \in Procs |-> "user"]
  /\ left = [p \in Procs |-> << >>]
  /\ addr = [p \in Procs |-> << >>]
  /\ want = [p \in Procs |-> 0]
  /\ killed = [p \in Procs |-> FALSE]

-----------------------------------------------------------------------------
Lesser(a, b) == IF a < b THEN a ELSE b

(* nwrite - nread in unsigned arithmetic: the bytes in the pipe. *)
Stored == (nwrite - nread) % UINT

(* Where the byte counted c is kept. *)
Slot(c) == (c % UINT) % PIPESIZE

(* A counter moved on by k. *)
Advance(c, k) == (c + k) % UINT

(* Nobody is inside a critical section of the pipe. *)
Unlocked == \A p \in Procs : pc[p] \notin {"write_sleep", "read_sleep"}

(* wakeup(&p->nread) and wakeup(&p->nwrite), on the states f. *)
WakeReaders_Never(f) == f
WakeReaders(f) == [p \in Procs |-> IF f[p] = "read_asleep" THEN "reading" ELSE f[p]]

WakeWriters(f) == [p \in Procs |-> IF f[p] = "write_asleep" THEN "writing" ELSE f[p]]

(* pipewrite() puts the first k bytes of m, and then is through or full. *)
PutFirst(p, m, k) ==
  /\ data' = [s \in 0 .. PIPESIZE - 1 |->
                LET hits == {i \in 1 .. k : Slot(nwrite + i - 1) = s}
                IN  IF hits = {} THEN data[s]
                    ELSE m[CHOOSE i \in hits : \A j \in hits : j <= i]]
  /\ nwrite' = Advance(nwrite, k)
  /\ \/ /\ k = Len(m)
        /\ left' = [left EXCEPT ![p] = << >>]
        /\ pc' = WakeReaders([pc EXCEPT ![p] = "user"])
     \/ /\ k < Len(m)
        /\ ~readopen \/ killed[p]
        /\ left' = [left EXCEPT ![p] = << >>]
        /\ pc' = [pc EXCEPT ![p] = "user"]
     \/ /\ k < Len(m)
        /\ readopen /\ ~killed[p]
        /\ left' = [left EXCEPT ![p] = SubSeq(m, k + 1, Len(m))]
        /\ pc' = WakeReaders([pc EXCEPT ![p] = "write_sleep"])
  /\ UNCHANGED <<nread, readopen, writeopen, freed, fd, addr, want, killed>>

(* The loop of pipewrite() over the bytes m, to where it stops. *)
PutBytes_Overrun(p, m) == PutFirst(p, m, Len(m))
PutBytes(p, m) == PutFirst(p, m, Lesser(Len(m), PIPESIZE - Stored))

(* write(fd, m): a killed process does not get past trap(). *)
pipewrite(p, m) ==
  /\ p \in Writers \cap fd
  /\ pc[p] = "user" /\ ~killed[p]
  /\ Unlocked
  /\ PutBytes(p, m)

(* pipewrite() after sleep() returns with p->lock. *)
pipewrite_on(p) ==
  /\ pc[p] = "writing"
  /\ Unlocked
  /\ PutBytes(p, left[p])

(* The loop of piperead() that copies n bytes, if there are as many. *)
Taken(n) == [i \in 1 .. Lesser(n, Stored) |-> data[Slot(nread + i - 1)]]

(* piperead() of n bytes: sleep if the pipe is empty, else copy and wake. *)
GetBytes(p, n) ==
  /\ \/ /\ Stored = 0 /\ writeopen
        /\ pc' = [pc EXCEPT ![p] = IF killed[p] THEN "user" ELSE "read_sleep"]
        /\ UNCHANGED <<nread, addr>>
     \/ /\ Stored # 0 \/ ~writeopen
        /\ addr' = [addr EXCEPT ![p] = Taken(n)]
        /\ nread' = Advance(nread, Len(Taken(n)))
        /\ pc' = WakeWriters([pc EXCEPT ![p] = "user"])
  /\ want' = [want EXCEPT ![p] = n]
  /\ UNCHANGED <<data, nwrite, readopen, writeopen, freed, fd, left, killed>>

piperead(p, n) ==
  /\ p \in Readers \cap fd
  /\ pc[p] = "user" /\ ~killed[p]
  /\ Unlocked
  /\ GetBytes(p, n)

piperead_on(p) ==
  /\ pc[p] = "reading"
  /\ Unlocked
  /\ GetBytes(p, want[p])

(* sleep(chan, &p->lock): SLEEPING, and p->lock released, under ptable.lock. *)
sleep(p) ==
  /\ pc[p] \in {"write_sleep", "read_sleep"}
  /\ pc' = [pc EXCEPT ![p] = IF @ = "write_sleep" THEN "write_asleep" ELSE "read_asleep"]
  /\ UNCHANGED <<pipeVars, left, addr, want, killed>>

(* kill(): needs ptable.lock only. *)
kill(p) ==
  /\ Kill
  /\ ~killed[p]
  /\ killed' = [killed EXCEPT ![p] = TRUE]
  /\ pc' = [pc EXCEPT ![p] = IF @ = "write_asleep" THEN "writing"
                             ELSE IF @ = "read_asleep" THEN "reading" ELSE @]
  /\ UNCHANGED <<pipeVars, left, addr, want>>

(* The two ends of the pipe after the descriptors in open are left. *)
Ends(open) ==
  /\ writeopen' = (open \cap Writers # {})
  /\ readopen' = (open \cap Readers # {})

Close(p) ==
  /\ p \in fd
  /\ pc[p] = "user"
  /\ Unlocked
  /\ fd' = fd \ {p}
  /\ UNCHANGED <<data, nread, nwrite, left, addr, want, killed>>

pipeclose_FreesEarly(p) ==
  /\ Close(p)
  /\ Ends(fd')
  /\ pc' = IF writeopen' # writeopen THEN WakeReaders(pc)
           ELSE IF readopen' # readopen THEN WakeWriters(pc) ELSE pc
  /\ freed' = (~readopen' \/ ~writeopen')

pipeclose_WakesOwnSide(p) ==
  /\ Close(p)
  /\ Ends(fd')
  /\ pc' = IF writeopen' # writeopen THEN WakeWriters(pc)
           ELSE IF readopen' # readopen THEN WakeReaders(pc) ELSE pc
  /\ freed' = (~readopen' /\ ~writeopen')

(* close() or exit(): the last descriptor of an end calls pipeclose(). *)
pipeclose(p) ==
  /\ Close(p)
  /\ Ends(fd')
  /\ pc' = IF writeopen' # writeopen THEN WakeReaders(pc)
           ELSE IF readopen' # readopen THEN WakeWriters(pc) ELSE pc
  /\ freed' = (~readopen' /\ ~writeopen')

-----------------------------------------------------------------------------
InKernel(p) == pipewrite_on(p) \/ piperead_on(p) \/ sleep(p)

Next ==
  \E p \in Procs :
    \/ InKernel(p) \/ kill(p) \/ pipeclose(p)
    \/ \E m \in Messages : pipewrite(p, m)
    \/ \E n \in Counts : piperead(p, n)

Spec == pipealloc /\ [][Next]_vars

(***************************************************************************)
(* A process in the kernel gets on when it can take p->lock, which others  *)
(* may take and release meanwhile; a killed one closes its descriptors in  *)
(* exit().  Nobody has to read or write.                                   *)
(***************************************************************************)
Fairness ==
  \A p \in Procs : /\ SF_vars(InKernel(p))
                   /\ WF_vars(killed[p] /\ pipeclose(p))

FairSpec == Spec /\ Fairness

-----------------------------------------------------------------------------
(***************************************************************************)
(* As long as no writer is killed: a reader sleeps only on an empty pipe   *)
(* that somebody can still write to.  A writer sleeps only on a full pipe  *)
(* that somebody can still read, whoever is killed.                        *)
(***************************************************************************)
SleepersAwaited ==
  \A p \in Procs :
    /\ pc[p] = "read_asleep" =>
         (Stored = 0 /\ writeopen) \/ \E w \in Writers : killed[w]
    /\ pc[p] = "write_asleep" => Stored = PIPESIZE /\ readopen

(* pipeclose() frees the pipe only when nobody is inside it any more. *)
FreedUnused == freed => \A p \in Procs : pc[p] = "user" /\ p \notin fd

(* The bytes in the pipe, oldest first. *)
Contents == [i \in 1 .. Stored |-> data[Slot(nread + i - 1)]]

Stream == INSTANCE ByteStream WITH Capacity <- PIPESIZE, queue <- Contents

(***************************************************************************)
(* The ring of pipe.c, with its wrapping counters and its readers and      *)
(* writers interleaving at every sleep, is a FIFO of bytes.                *)
(***************************************************************************)
Fifo == Stream!Spec

(***************************************************************************)
(* Closing an end gets everybody out of the kernel who waits for the other *)
(* side: read() sees end of file, write() fails.                           *)
(***************************************************************************)
CloseReleases ==
  \A p \in Procs :
    (p \in Readers /\ ~writeopen) \/ (p \in Writers /\ ~readopen) ~> pc[p] = "user"

=============================================================================
