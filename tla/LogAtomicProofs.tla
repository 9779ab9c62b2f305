-------------------------- MODULE LogAtomicProofs --------------------------
(***************************************************************************)
(* The theorem log.c exists for: Log implements AtomicStore, for any       *)
(* number of processes and blocks, any block contents and any sizes that   *)
(* satisfy Reserve, with a crash between any two disk writes, those of the *)
(* recovery included.                                                      *)
(*                                                                         *)
(* The argument.  Outside a commit the header block on disk is empty, so a *)
(* crash falls back to the home locations, and a buffer differs from its   *)
(* home location only if its block is in the log, where B_DIRTY keeps it   *)
(* cached (Clean, Pinned).  When write_head() writes the header, the log   *)
(* blocks hold what the buffers hold (Copied): that one disk write makes   *)
(* everything stable.  From then on, installing a block writes what the    *)
(* header already promises, so it changes neither what a crash leaves nor  *)
(* what is read, as often as it is repeated; and the header is erased only *)
(* when every block is home.                                               *)
(***************************************************************************)
EXTENDS LogProofs

(* No block is listed twice in a header. *)
Distinct(h) == \A i, j \in 1 .. Len(h) : h[i] = h[j] => i = j

Logging == \E p \in Procs : pc[p] = "write_log"

Installing == boot = "install" \/ \E p \in Procs : pc[p] = "install"

(* What the header block says, and how far the loops have come. *)
Headers ==
  /\ Distinct(lh) /\ Distinct(head)
  /\ boot = "install" => head = lh
  /\ boot = "up" => head = IF Installing THEN lh ELSE << >>
  /\ Logging \/ Installing => tail <= Len(lh)

(* Buffers held locked are those of log_write, and they are cached. *)
Held ==
  \A p \in Procs : /\ cur[p] # NoBlock <=> pc[p] = "log_write"
                   /\ cur[p] # NoBlock => buf[cur[p]] # NoBuf

(* A buffer differs from the disk only if the log has, or will get, it. *)
Clean ==
  \A b \in Blocks : (buf[b] # NoBuf /\ buf[b] # disk[b]) =>
     /\ boot = "up"
     /\ Has(lh, b) \/ \E p \in Procs : cur[p] = b

(* Blocks of the log that are still to be installed stay in the cache. *)
Pinned ==
  boot = "up" => \A i \in 1 .. Len(lh) :
    (Installing => i > tail) => lh[i] \in dirty /\ buf[lh[i]] # NoBuf

(* What write_log() and install_trans() have copied, and are to copy. *)
Copied ==
  /\ Logging => \A i \in 1 .. tail : logblk[i] = buf[lh[i]]
  /\ Installing => \A i \in 1 .. tail :
       disk[lh[i]] = logblk[i] /\ buf[lh[i]] \in {NoBuf, logblk[i]}
  /\ (Installing /\ boot = "up") => \A i \in tail + 1 .. Len(lh) : buf[lh[i]] = logblk[i]

(* The inductive invariant of the refinement. *)
AInv == Headers /\ Held /\ Clean /\ Pinned /\ Copied

-----------------------------------------------------------------------------
(* A header of distinct blocks is searched without ambiguity. *)
LEMMA Search ==
  ASSUME NEW h \in Seq(Blocks), Distinct(h), NEW i \in 1 .. Len(h)
  PROVE  Has(h, h[i]) /\ (CHOOSE k \in 1 .. Len(h) : h[k] = h[i]) = i
<1>1. \E k \in 1 .. Len(h) : h[k] = h[i]
  OBVIOUS
<1>2. \A k \in 1 .. Len(h) : h[k] = h[i] => k = i
  BY DEF Distinct
<1> QED  BY <1>1, <1>2 DEF Has

(* What a header, log blocks and home locations amount to after recovery. *)
RecoveredFrom(h, lb, home) ==
  [b \in Blocks |-> IF Has(h, b)
                      THEN lb[CHOOSE i \in 1 .. Len(h) : h[i] = b]
                      ELSE home[b]]

(* What a crash leaves: log blocks where the header says so. *)
LEMMA RecoveredIs ==
  ASSUME NEW h \in Seq(Blocks), Distinct(h), NEW lb, NEW home
  PROVE  /\ \A i \in 1 .. Len(h) : RecoveredFrom(h, lb, home)[h[i]] = lb[i]
         /\ \A b \in Blocks : ~Has(h, b) => RecoveredFrom(h, lb, home)[b] = home[b]
         /\ RecoveredFrom(h, lb, home) = [b \in Blocks |-> RecoveredFrom(h, lb, home)[b]]
<1>1. ASSUME NEW i \in 1 .. Len(h)
      PROVE  RecoveredFrom(h, lb, home)[h[i]] = lb[i]
  <2>1. h[i] \in Blocks
    BY ElementOfSeq
  <2>2. Has(h, h[i]) /\ (CHOOSE k \in 1 .. Len(h) : h[k] = h[i]) = i
    BY Search
  <2> QED  BY <2>1, <2>2, Zenon DEF RecoveredFrom
<1>2. \A b \in Blocks : ~Has(h, b) => RecoveredFrom(h, lb, home)[b] = home[b]
  BY DEF RecoveredFrom
<1>3. RecoveredFrom(h, lb, home) = [b \in Blocks |-> RecoveredFrom(h, lb, home)[b]]
  BY DEF RecoveredFrom
<1> QED  BY <1>1, <1>2, <1>3

(* While a process commits, nothing else of the log is in progress. *)
LEMMA Alone ==
  ASSUME IInv, Held, Reserve, NEW p \in Committers
  PROVE  /\ p \in Procs /\ boot = "up"
         /\ \A q \in Procs : q # p => pc[q] \notin {"write_log", "install", "committed"}
         /\ \A q \in Procs : cur[q] = NoBlock /\ pc[q] \notin {"op", "log_write"}
         /\ InOp = {}
         /\ Logging <=> pc[p] = "write_log"
         /\ Installing <=> pc[p] = "install"
<1>1. p \in Procs /\ pc[p] # "user"
  BY DEF Committers
<1>2. boot = "up"
  BY <1>1 DEF IInv, Phases
<1>3. \A q \in Procs : q # p => pc[q] \notin {"write_log", "install", "committed"}
  BY DEF Committers, IInv, Phases
<1>4. InOp = {}
  BY NoOpsInCommit
<1>5. \A q \in Procs : cur[q] = NoBlock /\ pc[q] \notin {"op", "log_write"}
  BY <1>4 DEF InOp, Held
<1> QED  BY <1>1, <1>2, <1>3, <1>4, <1>5 DEF Logging, Installing

(* Recovery runs before any process does anything. *)
LEMMA Booting ==
  ASSUME IInv, Held, boot # "up"
  PROVE  /\ \A q \in Procs : pc[q] = "user" /\ cur[q] = NoBlock
         /\ InOp = {} /\ ~Logging
         /\ Installing <=> boot = "install"
<1>1. \A q \in Procs : pc[q] = "user"
  BY DEF IInv, Phases
<1> QED  BY <1>1 DEF Held, InOp, Logging, Installing

(* While an operation runs, no commit and no recovery does. *)
LEMMA Operating ==
  ASSUME IInv, Reserve, NEW p \in InOp
  PROVE  /\ p \in Procs /\ boot = "up" /\ ~committing /\ outstanding >= 1
         /\ \A q \in Procs : pc[q] \notin {"write_log", "install", "committed"}
         /\ ~Logging /\ ~Installing
<1>1. p \in Procs
  BY DEF InOp
<1>2. boot = "up" /\ ~committing /\ outstanding >= 1
  BY InsideOp
<1>3. \A q \in Procs : pc[q] \notin {"write_log", "install", "committed"}
  BY <1>2 DEF IInv, Phases, Committers
<1> QED  BY <1>1, <1>2, <1>3 DEF Logging, Installing

(* write_log() runs while the system is up, and not beside install_trans(). *)
LEMMA OneLoop ==
  ASSUME IInv, Logging
  PROVE  ~Installing /\ boot = "up"
<1>1. PICK p \in Procs : pc[p] = "write_log"
  BY DEF Logging
<1>2. boot = "up"
  BY <1>1 DEF IInv, Phases
<1>3. \A q \in Procs : pc[q] # "install"
  BY <1>1 DEF IInv, Phases, Committers
<1> QED  BY <1>2, <1>3 DEF Installing

(* A step of the abstract store, or a stutter. *)
StoreStep == [Store!Next]_(Store!vars)

(***************************************************************************)
(* Steps that move no data: everything the invariant speaks of is as it    *)
(* was, and so is what is stable and what is read.                         *)
(***************************************************************************)
LEMMA NoDataMoves ==
  ASSUME AInv, UNCHANGED <<disk, logblk, head, lh, tail, buf, dirty, cur, boot>>,
         Logging' = Logging, Installing' = Installing,
         \A q \in Procs : pc'[q] = "log_write" <=> pc[q] = "log_write"
  PROVE  AInv' /\ UNCHANGED <<Recovered, Current>>
<1> USE DEF AInv
<1>1. Headers'
  BY DEF Headers, Distinct
<1>2. Held'
  BY DEF Held
<1>3. Clean'
  BY DEF Clean, Has
<1>4. Pinned'
  BY DEF Pinned
<1>5. Copied'
  BY DEF Copied
<1>6. UNCHANGED <<Recovered, Current>>
  BY DEF Recovered, Current, View, Has
<1> QED  BY <1>1, <1>2, <1>3, <1>4, <1>5, <1>6

(* A step that changes none of the abstract variables is a stutter. *)
LEMMA Stutter ==
  ASSUME UNCHANGED <<Recovered, Current, InOp>>
  PROVE  StoreStep
BY DEF StoreStep, Store!vars

-----------------------------------------------------------------------------
(* begin_op() starts an abstract operation, or sleeps. *)
LEMMA BeginAtomic ==
  ASSUME IInv, AInv, NEW p \in Procs, begin_op(p)
  PROVE  AInv' /\ StoreStep
<1>1. pc \in [Procs -> PcValues] /\ pc[p] \in {"user", "begin"}
  BY DEF IInv, TypeOK, begin_op
<1>2. /\ UNCHANGED <<disk, logblk, head, lh, tail, buf, dirty, cur, boot>>
      /\ pc' = [pc EXCEPT ![p] = "op"] \/ pc' = [pc EXCEPT ![p] = "sleep"]
  BY DEF begin_op, Enter, Wait, onDisk, cacheVars
<1>3. \A q \in Procs : \A x \in {"write_log", "install", "log_write"} : pc'[q] = x <=> pc[q] = x
  BY <1>1, <1>2
<1>4. Logging' = Logging /\ Installing' = Installing
  BY <1>2, <1>3 DEF Logging, Installing
<1>5. AInv' /\ UNCHANGED <<Recovered, Current>>
  BY <1>2, <1>3, <1>4, NoDataMoves
<1>6. CASE pc' = [pc EXCEPT ![p] = "op"]
  <2>1. InOp' = InOp \union {p}
    BY <1>1, <1>6 DEF InOp
  <2> QED  BY <1>5, <2>1 DEF StoreStep, Store!Next, Store!Begin
<1>7. CASE pc' = [pc EXCEPT ![p] = "sleep"]
  <2>1. InOp' = InOp
    BY <1>1, <1>7 DEF InOp
  <2> QED  BY <1>5, <2>1, Stutter
<1> QED  BY <1>2, <1>5, <1>6, <1>7

(* The end of end_op() after a commit. *)
LEMMA EndCommitAtomic ==
  ASSUME IInv, AInv, NEW p \in Procs, end_commit(p)
  PROVE  AInv' /\ StoreStep
<1>1. pc \in [Procs -> PcValues] /\ pc[p] = "committed"
  BY DEF IInv, TypeOK, end_commit
<1>2. /\ UNCHANGED <<disk, logblk, head, lh, tail, buf, dirty, cur, boot>>
      /\ pc' = wakeup([pc EXCEPT ![p] = "user"])
  BY DEF end_commit, onDisk, cacheVars
<1>3. \A q \in Procs : \A x \in {"write_log", "install", "log_write", "op"} : pc'[q] = x <=> pc[q] = x
  BY <1>1, <1>2 DEF wakeup
<1>4. Logging' = Logging /\ Installing' = Installing /\ InOp' = InOp
  BY <1>2, <1>3, Zenon DEF Logging, Installing, InOp
<1> QED  BY <1>2, <1>3, <1>4, NoDataMoves, Stutter, Zenon

(* log_write() updates a block for the running system. *)
LEMMA WriteAtomic ==
  ASSUME IInv, AInv, Reserve, NEW p \in Procs, NEW b \in Blocks, NEW d \in Data,
         log_write(p, b, d)
  PROVE  AInv' /\ StoreStep
<1> USE DEF AInv
<1>1. /\ TypeOK
      /\ UNCHANGED <<disk, logblk, head, lh, tail, dirty, boot>>
      /\ buf' = [buf EXCEPT ![b] = d]
      /\ pc' = [pc EXCEPT ![p] = "log_write"]
      /\ cur' = [cur EXCEPT ![p] = b]
      /\ pc[p] = "op"
      /\ \A q \in Procs : cur[q] # b
  BY DEF log_write, IInv, onDisk, logVars
<1>2. p \in InOp
  BY <1>1 DEF InOp
<1>3. boot = "up" /\ ~Logging /\ ~Installing
  BY <1>2, Operating
<1>4. /\ pc'[p] = "log_write" /\ \A q \in Procs : q # p => pc'[q] = pc[q]
      /\ cur'[p] = b /\ \A q \in Procs : q # p => cur'[q] = cur[q]
      /\ buf'[b] = d /\ \A x \in Blocks : x # b => buf'[x] = buf[x]
      /\ d # NoBuf /\ b # NoBlock /\ cur[p] = NoBlock
  BY <1>1, DataAssumption, BlockAssumption DEF TypeOK, Held
<1>5. ~Logging' /\ ~Installing' /\ InOp' = InOp
  BY <1>1, <1>3, <1>4 DEF Logging, Installing, InOp
<1>6. Headers'
  BY <1>1, <1>3, <1>5 DEF Headers, Distinct
<1>7. Held'
  <2> SUFFICES ASSUME NEW q \in Procs
               PROVE  /\ cur'[q] # NoBlock <=> pc'[q] = "log_write"
                      /\ cur'[q] # NoBlock => buf'[cur'[q]] # NoBuf
    BY DEF Held
  <2>1. CASE q = p
    BY <1>4, <2>1
  <2>2. CASE q # p
    BY <1>1, <1>4, <2>2 DEF Held, TypeOK
  <2> QED  BY <2>1, <2>2
<1>8. Clean'
  <2> SUFFICES ASSUME NEW x \in Blocks, buf'[x] # NoBuf, buf'[x] # disk[x]
               PROVE  Has(lh, x) \/ \E q \in Procs : cur'[q] = x
    BY <1>1, <1>3 DEF Clean, Has
  <2>1. CASE x = b
    BY <1>4, <2>1
  <2>2. CASE x # b
    <3>1. Has(lh, x) \/ \E q \in Procs : cur[q] = x
      BY <1>4, <2>2 DEF Clean
    <3> QED  BY <1>1, <1>4, <3>1, BlockAssumption
  <2> QED  BY <2>1, <2>2
<1>9. Pinned'
  <2> SUFFICES ASSUME NEW i \in 1 .. Len(lh)
               PROVE  lh[i] \in dirty /\ buf'[lh[i]] # NoBuf
    BY <1>1 DEF Pinned
  <2>1. lh[i] \in dirty /\ buf[lh[i]] # NoBuf
    BY <1>3 DEF Pinned
  <2>2. lh[i] \in Blocks
    BY <1>1 DEF TypeOK
  <2> QED  BY <1>4, <2>1, <2>2
<1>10. Copied'
  BY <1>5 DEF Copied
<1>11. Recovered' = Recovered
  BY <1>1 DEF Recovered, Has
<1>12. Current' = [Current EXCEPT ![b] = d]
  <2>1. Current = View /\ Current' = View'
    BY <1>1, <1>3 DEF Current
  <2>2. View' = [View EXCEPT ![b] = d]
    <3>1. \A x \in Blocks : View'[x] = IF x = b THEN d ELSE View[x]
      BY <1>1, <1>4 DEF View
    <3>2. View' = [x \in Blocks |-> View'[x]] /\ View = [x \in Blocks |-> View[x]]
      BY DEF View
    <3> QED  BY <3>1, <3>2
  <2> QED  BY <2>1, <2>2
<1>13. Store!Update(p, b, d)
  BY <1>2, <1>5, <1>11, <1>12 DEF Store!Update
<1>14. StoreStep
  BY <1>13 DEF StoreStep, Store!Next
<1> QED  BY <1>6, <1>7, <1>8, <1>9, <1>10, <1>14

(* The rest of log_write: the block that was in hand is now in the log. *)
LEMMA AppendAtomic ==
  ASSUME IInv, AInv, Reserve, NEW p \in Procs, log_append(p)
  PROVE  AInv' /\ StoreStep
<1> USE DEF AInv
<1> DEFINE b == cur[p]
<1>1. /\ TypeOK
      /\ UNCHANGED <<disk, logblk, head, tail, buf, boot>>
      /\ lh' = IF Has(lh, b) THEN lh ELSE Append(lh, b)
      /\ dirty' = dirty \union {b}
      /\ pc' = [pc EXCEPT ![p] = "op"]
      /\ cur' = [cur EXCEPT ![p] = NoBlock]
      /\ pc[p] = "log_write"
  BY DEF log_append, IInv, onDisk
<1>2. p \in InOp
  BY <1>1 DEF InOp
<1>3. boot = "up" /\ ~Logging /\ ~Installing
  BY <1>2, Operating
<1>4. /\ pc'[p] = "op" /\ \A q \in Procs : q # p => pc'[q] = pc[q]
      /\ cur'[p] = NoBlock /\ \A q \in Procs : q # p => cur'[q] = cur[q]
      /\ b \in Blocks /\ buf[b] # NoBuf
  BY <1>1 DEF TypeOK, Held
<1> HIDE DEF b
<1>5. ~Logging' /\ ~Installing' /\ InOp' = InOp
  BY <1>1, <1>3, <1>4 DEF Logging, Installing, InOp
<1>6. /\ lh' \in Seq(Blocks) /\ Len(lh') \in Nat /\ Len(lh) \in Nat
      /\ Distinct(lh')
      /\ \A i \in 1 .. Len(lh') : lh'[i] = b \/ (i \in 1 .. Len(lh) /\ lh'[i] = lh[i])
      /\ Has(lh', b) /\ \A x \in Blocks : Has(lh, x) => Has(lh', x)
  <2>0. lh \in Seq(Blocks) /\ Len(lh) \in Nat /\ Distinct(lh)
    BY <1>1, LenProperties DEF TypeOK, Headers
  <2>1. CASE Has(lh, b)
    BY <1>1, <2>0, <2>1
  <2>2. CASE ~Has(lh, b)
    <3>1. lh' = Append(lh, b)
      BY <1>1, <2>2
    <3>2. /\ lh' \in Seq(Blocks) /\ Len(lh') = Len(lh) + 1
          /\ \A i \in 1 .. Len(lh) : lh'[i] = lh[i]
          /\ lh'[Len(lh) + 1] = b
      BY <1>4, <2>0, <3>1, AppendProperties
    <3>3. \A i \in 1 .. Len(lh) : lh[i] # b
      BY <2>2 DEF Has
    <3>4. Distinct(lh')
      BY <2>0, <3>2, <3>3 DEF Distinct
    <3>5. Has(lh', b) /\ \A x \in Blocks : Has(lh, x) => Has(lh', x)
      BY <2>0, <3>2 DEF Has
    <3> QED  BY <2>0, <3>2, <3>4, <3>5
  <2> QED  BY <2>1, <2>2
<1>7. Headers'
  BY <1>1, <1>3, <1>5, <1>6 DEF Headers, Distinct
<1>8. Held'
  BY <1>1, <1>4 DEF Held
<1>9. Clean'
  <2> SUFFICES ASSUME NEW x \in Blocks, buf[x] # NoBuf, buf[x] # disk[x]
               PROVE  Has(lh', x) \/ \E q \in Procs : cur'[q] = x
    BY <1>1, <1>3 DEF Clean
  <2>1. Has(lh, x) \/ \E q \in Procs : cur[q] = x
    BY DEF Clean
  <2>2. CASE x = b
    BY <1>6, <2>2
  <2>3. CASE x # b
    BY <1>4, <1>6, <2>1, <2>3 DEF b
  <2> QED  BY <2>2, <2>3
<1>10. Pinned'
  <2> SUFFICES ASSUME NEW i \in 1 .. Len(lh')
               PROVE  lh'[i] \in dirty' /\ buf[lh'[i]] # NoBuf
    BY <1>1 DEF Pinned
  <2>1. CASE lh'[i] = b
    BY <1>1, <1>4, <2>1
  <2>2. CASE i \in 1 .. Len(lh) /\ lh'[i] = lh[i]
    BY <1>1, <1>3, <2>2 DEF Pinned
  <2> QED  BY <1>6, <2>1, <2>2
<1>11. Copied'
  BY <1>5 DEF Copied
<1>12. UNCHANGED <<Recovered, Current>>
  BY <1>1 DEF Recovered, Current, View, Has
<1> QED  BY <1>5, <1>7, <1>8, <1>9, <1>10, <1>11, <1>12, Stutter

(* end_op() ends the abstract operation; the last one begins a commit. *)
LEMMA EndAtomic ==
  ASSUME IInv, AInv, Reserve, NEW p \in Procs, end_op(p)
  PROVE  AInv' /\ StoreStep
<1> USE DEF AInv
<1>1. /\ TypeOK /\ pc[p] = "op"
      /\ UNCHANGED <<disk, logblk, head, lh, buf, dirty, cur, boot>>
      /\ tail' = 0
  BY DEF end_op, IInv, onDisk, cacheVars
<1>2. p \in InOp
  BY <1>1 DEF InOp
<1>3. boot = "up" /\ ~Logging /\ ~Installing
  BY <1>2, Operating
<1>4. /\ pc'[p] \notin {"op", "log_write", "install"}
      /\ \A q \in Procs : q # p => \A x \in {"op", "log_write", "install"} : pc'[q] = x <=> pc[q] = x
  BY <1>1 DEF end_op, wakeup, TypeOK
<1>5. ~Installing' /\ InOp' = InOp \ {p}
  BY <1>1, <1>3, <1>4 DEF Installing, InOp
<1>6. Headers'
  BY <1>1, <1>3, <1>5, LenProperties DEF Headers, Distinct, TypeOK
<1>7. Held'
  BY <1>1, <1>4 DEF Held
<1>8. Clean'
  BY <1>1 DEF Clean, Has
<1>9. Pinned'
  BY <1>1, <1>3 DEF Pinned
<1>10. Copied'
  BY <1>1, <1>5 DEF Copied
<1>11. UNCHANGED <<Recovered, Current>>
  BY <1>1 DEF Recovered, Current, View, Has
<1>12. Store!End(p)
  BY <1>2, <1>5, <1>11 DEF Store!End
<1>13. StoreStep
  BY <1>12 DEF StoreStep, Store!Next
<1> QED  BY <1>6, <1>7, <1>8, <1>9, <1>10, <1>13

(* One block is copied into the log; it was in the cache anyway. *)
LEMMA WriteLogAtomic ==
  ASSUME IInv, AInv, Reserve, NEW p \in Procs, write_log(p)
  PROVE  AInv' /\ StoreStep
<1> USE DEF AInv
<1> DEFINE b == lh[tail + 1]
<1>1. /\ TypeOK /\ pc[p] = "write_log" /\ tail < Len(lh)
      /\ logblk' = [logblk EXCEPT ![tail + 1] = View[b]]
      /\ buf' = [buf EXCEPT ![b] = View[b]]
      /\ tail' = tail + 1
      /\ UNCHANGED <<disk, head, lh, dirty, pc, cur, boot>>
  BY DEF write_log, IInv, procVars
<1>2. p \in Committers
  BY <1>1 DEF Committers
<1>3. boot = "up" /\ Logging /\ ~Installing
  BY <1>1, <1>2, Alone
<1>4. tail \in Nat /\ Len(lh) \in Nat /\ tail + 1 \in 1 .. Len(lh) /\ tail + 1 \in 1 .. LOGSIZE
  BY <1>1, LenProperties, LogFits, BoundAssumption DEF TypeOK
<1>5. b \in Blocks /\ buf[b] # NoBuf /\ View[b] = buf[b]
  BY <1>1, <1>3, <1>4 DEF Pinned, View, TypeOK
<1> HIDE DEF b
<1>6. UNCHANGED buf
  BY <1>1, <1>5 DEF TypeOK
<1>7. logblk'[tail + 1] = buf[b] /\ \A i \in 1 .. tail : logblk'[i] = logblk[i]
  BY <1>1, <1>4, <1>5, LogFits, BoundAssumption DEF TypeOK
<1>8. UNCHANGED <<Logging, Installing, InOp>>
  BY <1>1 DEF Logging, Installing, InOp
<1>9. Headers'
  BY <1>1, <1>3, <1>4, <1>8 DEF Headers, Distinct
<1>10. Held' /\ Clean' /\ Pinned'
  BY <1>1, <1>3, <1>6, <1>8 DEF Held, Clean, Pinned, Has
<1>11. Copied'
  <2>1. ASSUME NEW i \in 1 .. tail + 1
        PROVE  logblk'[i] = buf[lh[i]]
    <3>1. CASE i = tail + 1
      BY <1>7, <3>1 DEF b
    <3>2. CASE i # tail + 1
      BY <1>3, <1>4, <1>7, <3>2 DEF Copied
    <3> QED  BY <3>1, <3>2
  <2> QED  BY <1>1, <1>3, <1>6, <1>8, <2>1 DEF Copied
<1>12. head = << >>
  BY <1>3 DEF Headers
<1>13. UNCHANGED <<Recovered, Current>>
  <2>1. Recovered = [x \in Blocks |-> disk[x]] /\ Recovered' = [x \in Blocks |-> disk[x]]
    BY <1>1, <1>12 DEF Recovered, Has
  <2> QED  BY <1>1, <1>3, <1>6, <2>1 DEF Current, View
<1> QED  BY <1>8, <1>9, <1>10, <1>11, <1>13, Stutter

(***************************************************************************)
(* The commit point: the header is one disk write, and with it a crash     *)
(* leaves what the system reads.                                           *)
(***************************************************************************)
LEMMA WriteHeadAtomic ==
  ASSUME IInv, AInv, Reserve, NEW p \in Procs, write_head(p)
  PROVE  AInv' /\ StoreStep
<1> USE DEF AInv
<1>1. /\ TypeOK /\ pc[p] = "write_log" /\ tail = Len(lh)
      /\ head' = lh /\ tail' = 0
      /\ pc' = [pc EXCEPT ![p] = "install"]
      /\ UNCHANGED <<disk, logblk, lh, buf, dirty, cur, boot>>
  BY DEF write_head, IInv, cacheVars
<1>2. p \in Committers
  BY <1>1 DEF Committers
<1>3. /\ boot = "up" /\ Logging /\ ~Installing /\ InOp = {}
      /\ \A q \in Procs : q # p => pc[q] \notin {"write_log", "install", "committed"}
      /\ \A q \in Procs : cur[q] = NoBlock /\ pc[q] \notin {"op", "log_write"}
  BY <1>1, <1>2, Alone
<1>4. pc'[p] = "install" /\ \A q \in Procs : q # p => pc'[q] = pc[q]
  BY <1>1 DEF TypeOK
<1>5. ~Logging' /\ Installing' /\ InOp' = {}
  BY <1>3, <1>4 DEF Logging, Installing, InOp
<1>6. Len(lh) \in Nat
  BY <1>1, LenProperties DEF TypeOK
<1>7. Headers'
  BY <1>1, <1>3, <1>5, <1>6 DEF Headers, Distinct
<1>8. Held' /\ Clean'
  BY <1>1, <1>3, <1>4 DEF Held, Clean, Has
<1>9. Pinned'
  BY <1>1, <1>3, <1>5 DEF Pinned
<1>10. Copied'
  BY <1>1, <1>3, <1>5, <1>6 DEF Copied
<1>11. Recovered' = Current
  <2>1. /\ \A i \in 1 .. Len(lh) : Recovered'[lh[i]] = logblk[i]
        /\ \A b \in Blocks : ~Has(lh, b) => Recovered'[b] = disk[b]
        /\ Recovered' = [b \in Blocks |-> Recovered'[b]]
    <3>1. lh \in Seq(Blocks) /\ Distinct(lh)
      BY <1>1 DEF TypeOK, Headers
    <3>2. Recovered' = RecoveredFrom(lh, logblk, disk)
      BY <1>1 DEF Recovered, RecoveredFrom
    <3> QED  BY <3>1, <3>2, RecoveredIs
  <2>2. Current = [b \in Blocks |-> View[b]]
    BY <1>3 DEF Current, View
  <2>3. ASSUME NEW b \in Blocks
        PROVE  Recovered'[b] = View[b]
    <3>1. CASE Has(lh, b)
      <4>1. PICK i \in 1 .. Len(lh) : lh[i] = b
        BY <3>1 DEF Has
      <4>2. logblk[i] = buf[b] /\ buf[b] # NoBuf
        BY <1>1, <1>3, <4>1 DEF Copied, Pinned
      <4> QED  BY <2>1, <4>1, <4>2 DEF View
    <3>2. CASE ~Has(lh, b)
      <4>1. buf[b] = NoBuf \/ buf[b] = disk[b]
        BY <1>3, <3>2, BlockAssumption DEF Clean
      <4> QED  BY <2>1, <3>2, <4>1 DEF View
    <3> QED  BY <3>1, <3>2
  <2> QED  BY <2>1, <2>2, <2>3
<1>12. Current' = Current
  BY <1>1, <1>3 DEF Current, View
<1>13. Store!Commit
  BY <1>3, <1>5, <1>11, <1>12 DEF Store!Commit
<1>14. StoreStep
  BY <1>13 DEF StoreStep, Store!Next
<1> QED  BY <1>7, <1>8, <1>9, <1>10, <1>14

-----------------------------------------------------------------------------
(***************************************************************************)
(* install_trans() writes home what the header on disk already promises:   *)
(* neither a crash nor a read can tell, in a commit or in recovery.        *)
(***************************************************************************)
LEMMA InstallAtomic ==
  ASSUME IInv, AInv, Reserve, Installing, install_trans
  PROVE  AInv' /\ StoreStep
<1> USE DEF AInv
<1> DEFINE b == lh[tail + 1]
           d == logblk[tail + 1]
<1>1. /\ TypeOK /\ tail < Len(lh)
      /\ buf' = [buf EXCEPT ![b] = d]
      /\ disk' = [disk EXCEPT ![b] = d]
      /\ dirty' = dirty \ {b}
      /\ tail' = tail + 1
      /\ UNCHANGED <<logblk, head, lh, pc, cur, boot>>
  BY DEF install_trans, IInv, procVars
<1>2. /\ boot \in {"install", "up"} /\ ~Logging /\ head = lh
      /\ \A q \in Procs : cur[q] = NoBlock
  <2>1. CASE boot # "up"
    BY <1>1, <2>1, Booting DEF Headers, TypeOK
  <2>2. CASE boot = "up"
    <3>1. PICK p \in Procs : pc[p] = "install"
      BY <2>2 DEF Installing
    <3>2. p \in Committers
      BY <3>1 DEF Committers
    <3> QED  BY <2>2, <3>1, <3>2, Alone DEF Headers
  <2> QED  BY <2>1, <2>2
<1>3. /\ tail \in Nat /\ Len(lh) \in Nat /\ tail + 1 \in 1 .. Len(lh)
      /\ tail + 1 \in 1 .. LOGSIZE /\ lh \in Seq(Blocks) /\ Distinct(lh)
  BY <1>1, LenProperties, LogFits, BoundAssumption DEF TypeOK, Headers
<1>4. b \in Blocks /\ d \in Data /\ d # NoBuf
  <2>1. b \in Blocks
    BY <1>3, ElementOfSeq
  <2>2. d \in Data
    BY <1>1, <1>3, SMTT(30) DEF TypeOK
  <2> QED  BY <2>1, <2>2, DataAssumption
<1>5. /\ \A i \in 1 .. Len(lh) : lh[i] \in Blocks
      /\ \A i \in 1 .. Len(lh) : i # tail + 1 => lh[i] # b
  BY <1>3, ElementOfSeq DEF Distinct
<1> HIDE DEF b, d
<1>6. /\ buf'[b] = d /\ \A x \in Blocks : x # b => buf'[x] = buf[x]
      /\ disk'[b] = d /\ \A x \in Blocks : x # b => disk'[x] = disk[x]
  BY <1>1, <1>4 DEF TypeOK
<1>7. UNCHANGED <<Logging, Installing, InOp>>
  BY <1>1 DEF Logging, Installing, InOp
<1>8. Headers'
  BY <1>1, <1>3, <1>7 DEF Headers, Distinct
<1>9. Held'
  BY <1>1, <1>2 DEF Held
<1>10. Clean'
  <2> SUFFICES ASSUME NEW x \in Blocks, buf'[x] # NoBuf, buf'[x] # disk'[x]
               PROVE  boot = "up" /\ Has(lh, x)
    BY <1>1 DEF Clean, Has
  <2>1. x # b /\ buf[x] # NoBuf /\ buf[x] # disk[x]
    BY <1>6
  <2> QED  BY <1>2, <2>1, BlockAssumption, SMTT(30) DEF Clean
<1>11. Pinned'
  <2> SUFFICES ASSUME boot = "up", NEW i \in 1 .. Len(lh), i > tail + 1
               PROVE  lh[i] \in dirty' /\ buf'[lh[i]] # NoBuf
    BY <1>1, <1>7 DEF Pinned
  <2>1. lh[i] \in Blocks /\ lh[i] # b
    BY <1>3, <1>5
  <2>2. lh[i] \in dirty /\ buf[lh[i]] # NoBuf
    BY <1>3 DEF Pinned
  <2> QED  BY <1>1, <1>6, <2>1, <2>2
<1>12. Copied'
  <2>1. ASSUME NEW i \in 1 .. tail + 1
        PROVE  disk'[lh[i]] = logblk[i] /\ buf'[lh[i]] \in {NoBuf, logblk[i]}
    <3>1. CASE i = tail + 1
      BY <1>6, <3>1 DEF b, d
    <3>2. CASE i # tail + 1
      <4>1. i \in 1 .. tail /\ i \in 1 .. Len(lh)
        BY <1>3, <3>2
      <4>2. disk[lh[i]] = logblk[i] /\ buf[lh[i]] \in {NoBuf, logblk[i]}
        BY <4>1 DEF Copied
      <4> QED  BY <1>5, <1>6, <3>2, <4>1, <4>2
    <3> QED  BY <3>1, <3>2
  <2>2. ASSUME boot = "up", NEW i \in tail + 2 .. Len(lh)
        PROVE  buf'[lh[i]] = logblk[i]
    <3>1. i \in tail + 1 .. Len(lh) /\ i \in 1 .. Len(lh) /\ i # tail + 1
      BY <1>3
    <3>2. buf[lh[i]] = logblk[i]
      BY <2>2, <3>1 DEF Copied
    <3> QED  BY <1>5, <1>6, <3>1, <3>2
  <2>3. tail' + 1 = tail + 2
    BY <1>1, <1>3
  <2> QED  BY <1>1, <1>2, <1>7, <2>1, <2>2, <2>3, SMTT(30) DEF Copied
<1>13. Has(head, b)
  BY <1>2, <1>3 DEF Has, b
<1>14. Recovered' = Recovered
  BY <1>1, <1>6, <1>13 DEF Recovered, Has
<1>15. Current' = Current
  <2>1. CASE boot = "up"
    <3>1. buf[b] = d
      BY <1>3, <2>1 DEF Copied, b, d
    <3>2. View' = View
      BY <1>4, <1>6, <3>1 DEF View
    <3> QED  BY <1>1, <2>1, <3>2 DEF Current
  <2>2. CASE boot # "up"
    BY <1>1, <1>14, <2>2 DEF Current
  <2> QED  BY <2>1, <2>2
<1> QED  BY <1>7, <1>8, <1>9, <1>10, <1>11, <1>12, <1>14, <1>15, Stutter, SMTT(30)

(* With every block home, the header may go. *)
LEMMA HomeIsRecovered ==
  ASSUME TypeOK, AInv, Installing, tail = Len(lh), head = lh,
         \A q \in Procs : cur[q] = NoBlock
  PROVE  /\ Recovered = [x \in Blocks |-> disk[x]]
         /\ \A x \in Blocks : buf[x] = NoBuf \/ buf[x] = disk[x]
<1> USE DEF AInv
<1>1. lh \in Seq(Blocks) /\ Distinct(lh)
  BY DEF TypeOK, Headers
<1>2. Recovered = RecoveredFrom(lh, logblk, disk)
  BY DEF Recovered, RecoveredFrom
<1>3. /\ \A i \in 1 .. Len(lh) : Recovered[lh[i]] = logblk[i]
      /\ \A x \in Blocks : ~Has(lh, x) => Recovered[x] = disk[x]
      /\ Recovered = [x \in Blocks |-> Recovered[x]]
  BY <1>1, <1>2, RecoveredIs
<1>4. ASSUME NEW x \in Blocks
      PROVE  Recovered[x] = disk[x] /\ (buf[x] = NoBuf \/ buf[x] = disk[x])
  <2>1. CASE Has(lh, x)
    <3>1. PICK i \in 1 .. Len(lh) : lh[i] = x
      BY <2>1 DEF Has
    <3>2. disk[x] = logblk[i] /\ buf[x] \in {NoBuf, logblk[i]}
      BY <3>1 DEF Copied
    <3> QED  BY <1>3, <3>1, <3>2
  <2>2. CASE ~Has(lh, x)
    BY <1>3, <2>2, BlockAssumption DEF Clean
  <2> QED  BY <2>1, <2>2
<1> QED  BY <1>3, <1>4

(* Erasing the header, after a commit and at the end of recovery. *)
LEMMA ClearAtomic ==
  ASSUME IInv, AInv, Reserve, Installing, clear_head, boot' = "up",
         \/ boot = "install" /\ UNCHANGED pc
         \/ \E p \in Procs : pc[p] = "install" /\ pc' = [pc EXCEPT ![p] = "committed"]
  PROVE  AInv' /\ StoreStep
<1> USE DEF AInv
<1>1. /\ TypeOK /\ tail = Len(lh)
      /\ lh' = << >> /\ head' = << >> /\ tail' = 0
      /\ UNCHANGED <<disk, logblk, buf, dirty, cur>>
  BY DEF clear_head, IInv, cacheVars
<1>2. /\ head = lh /\ InOp = {} /\ InOp' = {} /\ ~Logging' /\ ~Installing'
      /\ \A q \in Procs : cur[q] = NoBlock /\ pc'[q] # "log_write"
  <2>1. CASE boot = "install" /\ UNCHANGED pc
    <3>1. \A q \in Procs : pc'[q] = "user" /\ cur[q] = NoBlock
      BY <2>1, Booting
    <3> QED  BY <2>1, <3>1, Booting DEF Headers, InOp, Logging, Installing
  <2>2. CASE \E p \in Procs : pc[p] = "install" /\ pc' = [pc EXCEPT ![p] = "committed"]
    <3>1. PICK p \in Procs : pc[p] = "install" /\ pc' = [pc EXCEPT ![p] = "committed"]
      BY <2>2, Zenon
    <3>2. p \in Committers
      BY <3>1 DEF Committers
    <3>3. /\ boot = "up" /\ InOp = {}
          /\ \A q \in Procs : q # p => pc[q] \notin {"write_log", "install", "committed"}
          /\ \A q \in Procs : cur[q] = NoBlock /\ pc[q] \notin {"op", "log_write"}
      BY <3>2, Alone
    <3>4. pc'[p] = "committed" /\ \A q \in Procs : q # p => pc'[q] = pc[q]
      BY <1>1, <3>1 DEF TypeOK
    <3> QED  BY <3>3, <3>4 DEF Headers, InOp, Logging, Installing
  <2> QED  BY <2>1, <2>2
<1>3. /\ Recovered = [x \in Blocks |-> disk[x]]
      /\ \A x \in Blocks : buf[x] = NoBuf \/ buf[x] = disk[x]
  BY <1>1, <1>2, HomeIsRecovered
<1>4. Len(<< >>) = 0 /\ \A x \in Blocks : ~Has(<< >>, x)
  BY DEF Has
<1>5. Headers'
  BY <1>1, <1>2, <1>4 DEF Headers, Distinct
<1>6. Held'
  BY <1>1, <1>2, SMTT(30) DEF Held
<1>7. Clean' /\ Pinned' /\ Copied'
  BY <1>1, <1>2, <1>3, <1>4 DEF Clean, Pinned, Copied
<1>8. Recovered' = Recovered
  <2>1. Recovered' = [x \in Blocks |-> disk[x]]
    BY <1>1, <1>4, SMTT(30) DEF Recovered
  <2> QED  BY <1>3, <2>1
<1>9. View = Recovered /\ View' = View
  BY <1>1, <1>3 DEF View
<1>10. Current' = Current
  BY <1>8, <1>9 DEF Current
<1> QED  BY <1>2, <1>5, <1>6, <1>7, <1>8, <1>10, Stutter, SMTT(30)

-----------------------------------------------------------------------------
(* bread() caches what is on disk. *)
LEMMA BreadAtomic ==
  ASSUME IInv, AInv, NEW b \in Blocks, bread(b)
  PROVE  AInv' /\ StoreStep
<1> USE DEF AInv
<1>1. /\ TypeOK /\ boot = "up" /\ buf[b] = NoBuf
      /\ buf' = [buf EXCEPT ![b] = disk[b]]
      /\ UNCHANGED <<disk, logblk, head, lh, tail, dirty, pc, cur, boot>>
  BY DEF bread, IInv, onDisk, logVars, procVars
<1>2. /\ buf'[b] = disk[b] /\ disk[b] # NoBuf
      /\ \A x \in Blocks : x # b => buf'[x] = buf[x]
  BY <1>1, DataAssumption DEF TypeOK
<1>3. UNCHANGED <<Logging, Installing, InOp>>
  BY <1>1 DEF Logging, Installing, InOp
<1>4. \A i \in 1 .. Len(lh) : lh[i] \in Blocks
  BY <1>1 DEF TypeOK
<1>5. Headers'
  BY <1>1, <1>3 DEF Headers, Distinct
<1>6. Held'
  BY <1>1, <1>2, SMTT(30) DEF Held, TypeOK
<1>7. Clean'
  BY <1>1, <1>2 DEF Clean, Has
<1>8. Pinned'
  BY <1>1, <1>2, <1>3, <1>4, SMTT(30) DEF Pinned
<1>9. Copied'
  <2>0. tail \in Nat /\ Len(lh) \in Nat /\ (Logging \/ Installing => tail <= Len(lh))
    BY <1>1, LenProperties DEF TypeOK, Headers
  <2>1. ASSUME Logging, NEW i \in 1 .. tail
        PROVE  logblk[i] = buf'[lh[i]]
    <3>1. i \in 1 .. Len(lh) /\ ~Installing
      BY <2>0, <2>1, OneLoop
    <3>2. buf[lh[i]] # NoBuf /\ logblk[i] = buf[lh[i]]
      BY <1>1, <2>1, <3>1 DEF Pinned, Copied
    <3> QED  BY <1>1, <1>2, <1>4, <3>1, <3>2
  <2>2. ASSUME Installing, NEW i \in 1 .. tail
        PROVE  disk[lh[i]] = logblk[i] /\ buf'[lh[i]] \in {NoBuf, logblk[i]}
    <3>1. i \in 1 .. Len(lh)
      BY <2>0, <2>2
    <3>2. disk[lh[i]] = logblk[i] /\ buf[lh[i]] \in {NoBuf, logblk[i]}
      BY <2>2, SMTT(30) DEF Copied
    <3> QED  BY <1>2, <1>4, <3>1, <3>2
  <2>3. ASSUME Installing, NEW i \in tail + 1 .. Len(lh)
        PROVE  buf'[lh[i]] = logblk[i]
    <3>1. i \in 1 .. Len(lh) /\ i > tail
      BY <2>0, SMTT(30)
    <3>2. buf[lh[i]] # NoBuf /\ buf[lh[i]] = logblk[i]
      BY <1>1, <2>3, <3>1 DEF Pinned, Copied
    <3> QED  BY <1>1, <1>2, <1>4, <3>1, <3>2
  <2> QED  BY <1>1, <1>3, <2>1, <2>2, <2>3, SMTT(30) DEF Copied
<1>10. Recovered' = Recovered
  BY <1>1 DEF Recovered, Has
<1>11. Current' = Current
  <2>1. View' = View
    BY <1>1, <1>2, SMTT(30) DEF View
  <2> QED  BY <1>1, <2>1 DEF Current
<1> QED  BY <1>3, <1>5, <1>6, <1>7, <1>8, <1>9, <1>10, <1>11, Stutter, SMTT(30)

(* Only a buffer that agrees with the disk is recycled. *)
LEMMA RecycleAtomic ==
  ASSUME IInv, AInv, NEW b \in Blocks, recycle(b)
  PROVE  AInv' /\ StoreStep
<1> USE DEF AInv
<1>1. /\ TypeOK /\ buf[b] # NoBuf /\ b \notin dirty
      /\ \A q \in Procs : cur[q] # b
      /\ buf' = [buf EXCEPT ![b] = NoBuf]
      /\ UNCHANGED <<disk, logblk, head, lh, tail, dirty, pc, cur, boot>>
  BY DEF recycle, IInv, onDisk, logVars, procVars
<1>2. buf'[b] = NoBuf /\ \A x \in Blocks : x # b => buf'[x] = buf[x]
  BY <1>1 DEF TypeOK
<1>3. UNCHANGED <<Logging, Installing, InOp>>
  BY <1>1 DEF Logging, Installing, InOp
<1>4. /\ \A i \in 1 .. Len(lh) : lh[i] \in Blocks
      /\ tail \in Nat /\ Len(lh) \in Nat /\ (Logging \/ Installing => tail <= Len(lh))
  BY <1>1, LenProperties, SMTT(30) DEF TypeOK, Headers
<1>5. boot = "up" => \A i \in 1 .. Len(lh) : (Installing => i > tail) => lh[i] # b
  BY <1>1 DEF Pinned
<1>6. buf[b] = disk[b]
  <2> SUFFICES ASSUME buf[b] # disk[b]  PROVE FALSE
    OBVIOUS
  <2>1. boot = "up" /\ Has(lh, b)
    BY <1>1 DEF Clean
  <2>2. PICK i \in 1 .. Len(lh) : lh[i] = b
    BY <2>1, SMTT(30) DEF Has
  <2>3. Installing /\ i \in 1 .. tail
    BY <1>4, <1>5, <2>1, <2>2
  <2> QED  BY <1>1, <2>2, <2>3 DEF Copied
<1>7. Headers'
  BY <1>1, <1>3 DEF Headers, Distinct
<1>8. Held'
  BY <1>1, <1>2 DEF Held, TypeOK
<1>9. Clean'
  BY <1>1, <1>2, SMTT(30) DEF Clean, Has
<1>10. Pinned'
  BY <1>1, <1>2, <1>3, <1>4, <1>5, SMTT(30) DEF Pinned
<1>11. Copied'
  <2>1. ASSUME Logging, NEW i \in 1 .. tail
        PROVE  logblk[i] = buf'[lh[i]]
    <3>1. i \in 1 .. Len(lh) /\ ~Installing /\ boot = "up"
      BY <1>4, <2>1, OneLoop, SMTT(30)
    <3>2. lh[i] # b /\ logblk[i] = buf[lh[i]]
      BY <1>5, <2>1, <3>1 DEF Copied
    <3> QED  BY <1>2, <1>4, <3>1, <3>2
  <2>2. ASSUME Installing, NEW i \in 1 .. tail
        PROVE  disk[lh[i]] = logblk[i] /\ buf'[lh[i]] \in {NoBuf, logblk[i]}
    <3>1. i \in 1 .. Len(lh)
      BY <1>4, <2>2
    <3>2. disk[lh[i]] = logblk[i] /\ buf[lh[i]] \in {NoBuf, logblk[i]}
      BY <2>2 DEF Copied
    <3> QED  BY <1>2, <1>4, <3>1, <3>2
  <2>3. ASSUME Installing, boot = "up", NEW i \in tail + 1 .. Len(lh)
        PROVE  buf'[lh[i]] = logblk[i]
    <3>1. i \in 1 .. Len(lh) /\ i > tail
      BY <1>4
    <3>2. lh[i] # b /\ buf[lh[i]] = logblk[i]
      BY <1>5, <2>3, <3>1, SMTT(30) DEF Copied
    <3> QED  BY <1>2, <1>4, <3>1, <3>2
  <2> QED  BY <1>1, <1>3, <2>1, <2>2, <2>3, SMTT(30) DEF Copied
<1>12. Recovered' = Recovered
  BY <1>1 DEF Recovered, Has
<1>13. Current' = Current
  <2>1. View' = View
    BY <1>1, <1>2, <1>6 DEF View
  <2> QED  BY <1>1, <1>12, <2>1 DEF Current
<1> QED  BY <1>3, <1>7, <1>8, <1>9, <1>10, <1>11, <1>12, <1>13, Stutter

(* initlog() reads the header back. *)
LEMMA ReadHeadAtomic ==
  ASSUME IInv, AInv, read_head
  PROVE  AInv' /\ StoreStep
<1> USE DEF AInv
<1>1. /\ TypeOK /\ boot = "read_head" /\ boot' = "install"
      /\ lh' = head /\ tail' = 0
      /\ UNCHANGED <<disk, logblk, head, buf, dirty, pc, cur>>
  BY SMTT(30) DEF read_head, IInv, onDisk, cacheVars, procVars
<1>2. /\ \A q \in Procs : pc[q] = "user" /\ cur[q] = NoBlock
      /\ InOp = {}
  BY <1>1, Booting
<1>3. InOp' = InOp /\ ~Logging'
  BY <1>1, <1>2 DEF InOp, Logging
<1>4. Headers'
  BY <1>1, LenProperties, SMTT(30) DEF Headers, Distinct, TypeOK
<1>5. Held' /\ Clean' /\ Pinned' /\ Copied'
  BY <1>1, <1>2, <1>3, SMTT(30) DEF Held, Clean, Pinned, Copied
<1>6. UNCHANGED <<Recovered, Current>>
  BY <1>1 DEF Recovered, Current, Has
<1> QED  BY <1>3, <1>4, <1>5, <1>6, Stutter

(* A crash leaves what is stable, whatever was in progress. *)
LEMMA CrashAtomic ==
  ASSUME IInv, AInv, Crash
  PROVE  AInv' /\ StoreStep
<1> USE DEF AInv
<1>1. /\ TypeOK /\ boot' = "read_head" /\ lh' = << >> /\ tail' = 0
      /\ buf' = [b \in Blocks |-> NoBuf]
      /\ pc' = [p \in Procs |-> "user"]
      /\ cur' = [p \in Procs |-> NoBlock]
      /\ UNCHANGED <<disk, logblk, head>>
  BY DEF Crash, IInv, onDisk
<1>2. InOp' = {} /\ ~Logging' /\ ~Installing'
  BY <1>1 DEF InOp, Logging, Installing
<1>3. Headers'
  BY <1>1, <1>2, SMTT(30) DEF Headers, Distinct
<1>4. Held' /\ Clean' /\ Pinned' /\ Copied'
  BY <1>1, <1>2, SMTT(30) DEF Held, Clean, Pinned, Copied
<1>5. Recovered' = Recovered /\ Current' = Recovered'
  BY <1>1 DEF Recovered, Current, Has
<1>6. Store!Crash
  BY <1>2, <1>5 DEF Store!Crash
<1>7. StoreStep
  BY <1>6 DEF StoreStep, Store!Next
<1> QED  BY <1>3, <1>4, <1>7

-----------------------------------------------------------------------------
(* Every step keeps the invariant and is a step of the store, or a stutter. *)
LEMMA StepAtomic ==
  ASSUME IInv, AInv, Reserve, [Next]_vars
  PROVE  AInv' /\ StoreStep
<1>1. ASSUME NEW p \in Procs, Operation(p)
      PROVE  AInv' /\ StoreStep
  <2>1. CASE commit_install(p)
    <3>1. Installing /\ install_trans
      BY <2>1 DEF commit_install, Installing
    <3> QED  BY <3>1, InstallAtomic
  <2>2. CASE commit_clear(p)
    <3>1. /\ pc[p] = "install" /\ Installing /\ clear_head
          /\ pc' = [pc EXCEPT ![p] = "committed"] /\ UNCHANGED boot
      BY <2>2 DEF commit_clear, Installing
    <3>2. p \in Committers
      BY <3>1 DEF Committers
    <3>3. boot = "up"
      BY <3>2, Alone DEF AInv
    <3> QED  BY <3>1, <3>3, ClearAtomic, Zenon
  <2>3. CASE \E b \in Blocks, d \in Data : log_write(p, b, d)
    BY <2>3, WriteAtomic
  <2> QED
    BY <1>1, <2>1, <2>2, <2>3, BeginAtomic, AppendAtomic, EndAtomic, WriteLogAtomic,
       WriteHeadAtomic, EndCommitAtomic DEF Operation, commit
<1>2. CASE recover_from_log
  <2>1. CASE read_head
    BY <2>1, ReadHeadAtomic
  <2>2. CASE recover_install
    <3>1. Installing /\ install_trans
      BY <2>2 DEF recover_install, Installing
    <3> QED  BY <3>1, InstallAtomic
  <2>3. CASE recover_clear
    <3>1. /\ boot = "install" /\ Installing /\ clear_head
          /\ boot' = "up" /\ UNCHANGED pc
      BY <2>3 DEF recover_clear, Installing
    <3> QED  BY <3>1, ClearAtomic
  <2> QED  BY <1>2, <2>1, <2>2, <2>3 DEF recover_from_log
<1>3. CASE UNCHANGED vars
  <2>1. UNCHANGED <<disk, logblk, head, lh, tail, buf, dirty, cur, boot, pc>>
    BY <1>3 DEF vars
  <2>2. UNCHANGED <<Logging, Installing, InOp>>
    BY <2>1 DEF Logging, Installing, InOp
  <2> QED  BY <2>1, <2>2, NoDataMoves, Stutter
<1> QED
  BY <1>1, <1>2, <1>3, BreadAtomic, RecycleAtomic, CrashAtomic, SMTT(30) DEF Next, Running

(* The initial states correspond. *)
LEMMA InitAtomic ==
  ASSUME Init
  PROVE  AInv /\ Store!Init
<1>1. /\ Len(<< >>) = 0
      /\ lh = << >> /\ head = << >> /\ boot = "read_head"
      /\ disk = [b \in Blocks |-> Zero] /\ buf = [b \in Blocks |-> NoBuf]
      /\ pc = [p \in Procs |-> "user"] /\ cur = [p \in Procs |-> NoBlock]
  BY DEF Init
<1>2. ~Logging /\ ~Installing /\ InOp = {}
  BY <1>1 DEF Logging, Installing, InOp
<1>3. AInv
  BY <1>1, <1>2 DEF AInv, Headers, Distinct, Held, Clean, Pinned, Copied
<1>4. Recovered = disk /\ Current = Recovered
  BY <1>1 DEF Recovered, Current, Has
<1> QED  BY <1>1, <1>2, <1>3, <1>4 DEF Store!Init

(***************************************************************************)
(* The contents of disk, log and cache stay related as the refinement      *)
(* needs, through commits, crashes and recoveries.                         *)
(***************************************************************************)
THEOREM ContentsInvariance ==
  ASSUME Reserve
  PROVE  Spec => []AInv
<1>1. Init => AInv
  BY InitAtomic
<1>2. IInv /\ AInv /\ [Next]_vars => AInv'
  BY StepAtomic
<1> QED  BY <1>1, <1>2, Invariance, PTL DEF Spec

(***************************************************************************)
(* Crash atomicity: log.c implements the atomic store.  The writes of a    *)
(* group of calls become stable in one step, the write of the header, and  *)
(* whichever disk write a crash falls after, in a commit or in recovery,   *)
(* the disk recovers to the contents before or after that step.            *)
(***************************************************************************)
THEOREM CrashAtomicity ==
  ASSUME Reserve
  PROVE  Spec => Atomic
<1>1. Init => Store!Init
  BY InitAtomic
<1>2. IInv /\ AInv /\ [Next]_vars => [Store!Next]_(Store!vars)
  BY StepAtomic DEF StoreStep
<1> QED
  BY <1>1, <1>2, Invariance, ContentsInvariance, PTL DEF Spec, Atomic, Store!Spec

=============================================================================
