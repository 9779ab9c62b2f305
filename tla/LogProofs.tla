----------------------------- MODULE LogProofs -----------------------------
(***************************************************************************)
(* Theorems about Log for any number of processes and blocks and any sizes *)
(* of the log: the types, the absence of panics and overflow (NeverTooBig),*)
(* the absence of lost wakeups (SleeperHasWaker) and the separation of     *)
(* commits and operations (CommitExcludesOps).                             *)
(*                                                                         *)
(* The argument.  begin_op() gives an operation MAXOPBLOCKS tokens; each   *)
(* block that the operation brings into the log takes one away.  Blocks in *)
(* the log and tokens never exceed LOGSIZE together, and one less while    *)
(* there is at most one operation.  An operation that writes fewer than    *)
(* MAXOPBLOCKS blocks always keeps a token, so log_write finds room.       *)
(***************************************************************************)
EXTENDS Log, TLAPS, FiniteSetTheorems, SequenceTheorems

(* Operations write less than they reserve, which is less than the log. *)
Reserve == OpBlocks < MAXOPBLOCKS /\ MAXOPBLOCKS < LOGSIZE

Logged == {lh[i] : i \in 1 .. Len(lh)}

(* The blocks of p's operation that are in the log. *)
Used(p) == wrote[p] \cap Logged

Tokens ==
  {t \in InOp \X (1 .. MAXOPBLOCKS) : t[2] > Cardinality(Used(t[1]))}

Committers == {p \in Procs : pc[p] \in {"write_log", "install", "committed"}}

(* log.outstanding counts the operations. *)
Counting == outstanding = Cardinality(InOp)

(* An operation keeps to OpBlocks blocks, the one in hand included. *)
Frugal ==
  \A p \in Procs : /\ IsFiniteSet(wrote[p])
                   /\ Cardinality(wrote[p]) <= OpBlocks
                   /\ p \notin InOp => wrote[p] = {}
                   /\ pc[p] = "log_write" => cur[p] \in wrote[p]

(* There is room in the log for what was promised. *)
Room ==
  /\ Len(lh) + Cardinality(Tokens) <= LOGSIZE - (IF outstanding <= 1 THEN 1 ELSE 0)
  /\ Len(head) <= LOGSIZE - 1
  /\ ~panicked

(* Who commits, and when the log is empty. *)
Phases ==
  /\ committing => outstanding = 0
  /\ committing <=> Committers # {}
  /\ \A p, q \in Committers : p = q
  /\ \A p \in Procs : pc[p] = "committed" => lh = << >>
  /\ (boot = "up" /\ outstanding = 0 /\ ~committing) => lh = << >>
  /\ boot # "up" => \A p \in Procs : pc[p] = "user"

(* The inductive invariant. *)
IInv ==
  /\ TypeOK
  /\ Counting
  /\ Frugal
  /\ Room
  /\ Phases
  /\ SleeperHasWaker

-----------------------------------------------------------------------------
(* A subset has no more elements, and one less if it misses one. *)
LEMMA FewerElements ==
  ASSUME NEW S, IsFiniteSet(S), NEW T, T \subseteq S
  PROVE  /\ IsFiniteSet(T)
         /\ Cardinality(S) \in Nat
         /\ Cardinality(T) \in Nat
         /\ Cardinality(T) <= Cardinality(S)
         /\ \A x \in S : x \notin T => Cardinality(T) + 1 <= Cardinality(S)
<1>1. /\ IsFiniteSet(T)
      /\ Cardinality(S) \in Nat
      /\ Cardinality(T) \in Nat
      /\ Cardinality(T) <= Cardinality(S)
  BY FS_Subset, FS_CardinalityType
<1>2. ASSUME NEW x \in S, x \notin T
      PROVE  Cardinality(T) + 1 <= Cardinality(S)
  <2>1. IsFiniteSet(S \ {x}) /\ Cardinality(S \ {x}) = Cardinality(S) - 1
    BY FS_RemoveElement
  <2>2. Cardinality(T) <= Cardinality(S \ {x})
    BY <1>2, <2>1, FS_Subset
  <2> QED  BY <1>1, <2>1, <2>2
<1> QED  BY <1>1, <1>2

(* What the tokens are worth in a state of the invariant. *)
LEMMA TokenFacts ==
  ASSUME TypeOK, Counting, Frugal, Reserve
  PROVE  /\ IsFiniteSet(InOp)
         /\ IsFiniteSet(Tokens) /\ Cardinality(Tokens) \in Nat
         /\ \A p \in Procs : /\ IsFiniteSet(Used(p))
                             /\ Cardinality(Used(p)) \in Nat
                             /\ Cardinality(Used(p)) <= OpBlocks
         /\ \A p \in InOp : <<p, MAXOPBLOCKS>> \in Tokens
         /\ outstanding <= Cardinality(Tokens)
         /\ outstanding = 0 => InOp = {} /\ Tokens = {}
<1>1. IsFiniteSet(InOp)
  BY ProcsAssumption, FS_Subset DEF InOp
<1>2. IsFiniteSet(1 .. MAXOPBLOCKS)
  BY BoundAssumption, FS_Interval
<1>3. IsFiniteSet(InOp \X (1 .. MAXOPBLOCKS))
  BY Zenon, <1>1, <1>2, FS_Product
<1>4. IsFiniteSet(Tokens) /\ Cardinality(Tokens) \in Nat
  <2>1. Tokens \subseteq InOp \X (1 .. MAXOPBLOCKS)
    BY DEF Tokens
  <2> QED  BY <1>3, <2>1, FewerElements
<1>5. ASSUME NEW p \in Procs
      PROVE  /\ IsFiniteSet(Used(p))
             /\ Cardinality(Used(p)) \in Nat
             /\ Cardinality(Used(p)) <= OpBlocks
  <2>1. /\ IsFiniteSet(wrote[p])
        /\ Cardinality(wrote[p]) <= OpBlocks
    BY DEF Frugal
  <2>2. Used(p) \subseteq wrote[p]
    BY DEF Used
  <2>3. /\ IsFiniteSet(Used(p))
        /\ Cardinality(Used(p)) \in Nat
        /\ Cardinality(wrote[p]) \in Nat
        /\ Cardinality(Used(p)) <= Cardinality(wrote[p])
    BY <2>1, <2>2, FewerElements
  <2> QED  BY <2>1, <2>3, BoundAssumption
<1>6. ASSUME NEW p \in InOp
      PROVE  <<p, MAXOPBLOCKS>> \in Tokens
  <2>1. p \in Procs
    BY DEF InOp
  <2>2. Cardinality(Used(p)) < MAXOPBLOCKS
    BY <1>5, <2>1, BoundAssumption DEF Reserve
  <2>3. <<p, MAXOPBLOCKS>> \in InOp \X (1 .. MAXOPBLOCKS)
    BY BoundAssumption
  <2> QED  BY <2>2, <2>3 DEF Tokens
<1>7. outstanding <= Cardinality(Tokens)
  <2>1. /\ IsFiniteSet({MAXOPBLOCKS})
        /\ Cardinality({MAXOPBLOCKS}) = 1
    BY FS_Singleton
  <2>2. Cardinality(InOp \X {MAXOPBLOCKS}) = Cardinality(InOp) * 1
    BY <1>1, <2>1, FS_Product
  <2>3. InOp \X {MAXOPBLOCKS} \subseteq Tokens
    BY <1>6
  <2>4. Cardinality(InOp \X {MAXOPBLOCKS}) <= Cardinality(Tokens)
    BY <1>4, <2>3, FewerElements
  <2> QED  BY <1>1, <2>2, <2>4, FS_CardinalityType DEF Counting
<1>8. outstanding = 0 => InOp = {} /\ Tokens = {}
  <2>1. outstanding = 0 => InOp = {}
    BY Zenon, <1>1, FS_EmptySet DEF Counting
  <2> QED  BY <2>1 DEF Tokens
<1> QED  BY <1>1, <1>4, <1>5, <1>6, <1>7, <1>8

-----------------------------------------------------------------------------
(* The initial state. *)
LEMMA InitOK ==
  ASSUME Init, Reserve
  PROVE  IInv
<1>1. InOp = {} /\ Committers = {} /\ Tokens = {}
  BY DEF Init, InOp, Committers, Tokens
<1>2. Cardinality({}) = 0 /\ IsFiniteSet({})
  BY FS_EmptySet
<1>3. TypeOK
  <2>1. << >> \in Seq(Blocks)
    OBVIOUS
  <2> QED  BY Zenon, <2>1, DataAssumption DEF Init, TypeOK, PcValues
<1>4. Counting
  BY <1>1, <1>2 DEF Init, Counting
<1>5. Frugal
  BY <1>1, <1>2, BoundAssumption DEF Init, Frugal
<1>6. Room
  BY <1>1, <1>2, BoundAssumption DEF Init, Room, Reserve
<1>7. Phases
  BY <1>1 DEF Init, Phases
<1>8. SleeperHasWaker
  BY DEF Init, SleeperHasWaker
<1> QED  BY <1>3, <1>4, <1>5, <1>6, <1>7, <1>8 DEF IInv

(* The log and its header fit into the blocks of the on-disk log. *)
LEMMA LogFits ==
  ASSUME IInv, Reserve
  PROVE  /\ Len(lh) \in Nat /\ Len(lh) <= LOGSIZE - 1
         /\ Len(lh) + outstanding <= LOGSIZE
         /\ outstanding = 1 => Len(lh) + 2 <= LOGSIZE
<1>1. Len(lh) \in Nat /\ outstanding \in Nat
  BY LenProperties DEF IInv, TypeOK
<1>2. Cardinality(Tokens) \in Nat /\ outstanding <= Cardinality(Tokens)
  BY TokenFacts DEF IInv
<1>3. Len(lh) + Cardinality(Tokens) <= LOGSIZE - (IF outstanding <= 1 THEN 1 ELSE 0)
  BY DEF IInv, Room
<1> QED  BY <1>1, <1>2, <1>3, BoundAssumption

(* A process inside an operation is counted, so no commit is running. *)
LEMMA InsideOp ==
  ASSUME IInv, Reserve, NEW p \in InOp
  PROVE  outstanding >= 1 /\ ~committing /\ boot = "up"
<1>1. outstanding \in Nat /\ outstanding # 0
  BY TokenFacts DEF IInv, TypeOK
<1>2. p \in Procs /\ pc[p] # "user"
  BY DEF InOp
<1> QED  BY <1>1, <1>2 DEF IInv, Phases

(* Every step keeps the types. *)
LEMMA TypeStep ==
  ASSUME IInv, Reserve, [Next]_vars
  PROVE  TypeOK'
<1> USE DEF PcValues
<1>0. TypeOK
  BY DEF IInv
<1>1. ASSUME NEW p \in Procs, begin_op(p)
      PROVE  TypeOK'
  BY <1>0, <1>1 DEF TypeOK, begin_op, Enter, Wait, onDisk, cacheVars
<1>2. ASSUME NEW p \in Procs, NEW b \in Blocks, NEW d \in Data, log_write(p, b, d)
      PROVE  TypeOK'
  BY <1>0, <1>2 DEF TypeOK, log_write, onDisk, logVars
<1>3. ASSUME NEW p \in Procs, log_append(p)
      PROVE  TypeOK'
  <2>1. p \in InOp /\ cur[p] \in Blocks
    BY <1>0, <1>3 DEF log_append, InOp, IInv, Frugal, TypeOK
  <2>2. lh' \in Seq(Blocks)
    BY <1>0, <1>3, <2>1, AppendProperties DEF TypeOK, log_append
  <2> QED  BY <1>0, <1>3, <2>1, <2>2 DEF TypeOK, log_append, onDisk
<1>4. ASSUME NEW p \in Procs, end_op(p)
      PROVE  TypeOK'
  <2>1. outstanding - 1 \in Nat
    BY <1>0, <1>4, InsideOp DEF end_op, InOp, TypeOK
  <2> QED  BY <1>0, <1>4, <2>1 DEF TypeOK, end_op, wakeup, onDisk, cacheVars
<1>5. ASSUME NEW p \in Procs, write_log(p)
      PROVE  TypeOK'
  <2>1. lh[tail + 1] \in Blocks
    BY <1>0, <1>5, ElementOfSeq, LenProperties DEF TypeOK, write_log
  <2>2. View[lh[tail + 1]] \in Data
    BY <1>0, <2>1 DEF TypeOK, View
  <2>3. logblk' \in [1 .. LOGSIZE -> Data]
    BY Zenon, <1>0, <1>5, <2>2 DEF TypeOK, write_log
  <2>4. buf' \in [Blocks -> Data \union {NoBuf}]
    BY <1>0, <1>5, <2>2 DEF TypeOK, write_log
  <2>5. tail' \in Nat
    BY <1>0, <1>5 DEF TypeOK, write_log
  <2> QED  BY <1>0, <1>5, <2>3, <2>4, <2>5 DEF TypeOK, write_log, procVars
<1>6. ASSUME NEW p \in Procs, write_head(p)
      PROVE  TypeOK'
  BY <1>0, <1>6 DEF TypeOK, write_head, cacheVars
<1>7. ASSUME install_trans
      PROVE  TypeOK'
  <2>1. lh[tail + 1] \in Blocks
    BY <1>0, <1>7, ElementOfSeq, LenProperties DEF TypeOK, install_trans
  <2>2. tail + 1 \in 1 .. LOGSIZE
    BY <1>0, <1>7, LogFits, BoundAssumption DEF TypeOK, install_trans
  <2>3. logblk[tail + 1] \in Data
    BY <1>0, <2>2 DEF TypeOK
  <2> QED  BY <1>0, <1>7, <2>1, <2>3 DEF TypeOK, install_trans, procVars
<1>8. ASSUME NEW p \in Procs, commit_clear(p)
      PROVE  TypeOK'
  BY <1>0, <1>8 DEF TypeOK, commit_clear, clear_head, cacheVars
<1>9. ASSUME NEW p \in Procs, end_commit(p)
      PROVE  TypeOK'
  BY Zenon, <1>0, <1>9 DEF TypeOK, end_commit, wakeup, onDisk, cacheVars
<1>10. ASSUME NEW b \in Blocks, bread(b) \/ recycle(b)
       PROVE  TypeOK'
  BY <1>0, <1>10 DEF TypeOK, bread, recycle, onDisk, logVars, procVars
<1>11. ASSUME read_head
       PROVE  TypeOK'
  BY <1>0, <1>11 DEF TypeOK, read_head, onDisk, cacheVars, procVars
<1>12. ASSUME recover_clear
       PROVE  TypeOK'
  BY <1>0, <1>12 DEF TypeOK, recover_clear, clear_head, cacheVars
<1>13. ASSUME Crash
       PROVE  TypeOK'
  <2>1. << >> \in Seq(Blocks)
    OBVIOUS
  <2> QED  BY Zenon, <1>0, <1>13, <2>1 DEF TypeOK, Crash, onDisk
<1>14. ASSUME UNCHANGED vars
       PROVE  TypeOK'
  BY <1>0, <1>14 DEF TypeOK, vars
<1> QED
  BY <1>1, <1>2, <1>3, <1>4, <1>5, <1>6, <1>7, <1>8, <1>9, <1>10, <1>11, <1>12,
     <1>13, <1>14
  DEF Next, Running, Operation, commit, commit_install, recover_from_log,
      recover_install

-----------------------------------------------------------------------------
(* The steps that neither begin, end nor write for an operation. *)
Quiet ==
  \/ \E p \in Procs : commit(p)
  \/ \E b \in Blocks : bread(b) \/ recycle(b)
  \/ recover_from_log
  \/ UNCHANGED vars

(* Every step is one of six kinds. *)
LEMMA Steps ==
  ASSUME [Next]_vars
  PROVE  \/ \E p \in Procs : begin_op(p)
         \/ \E p \in Procs, b \in Blocks, d \in Data : log_write(p, b, d)
         \/ \E p \in Procs : log_append(p)
         \/ \E p \in Procs : end_op(p)
         \/ Quiet
         \/ Crash
BY DEF Next, Running, Operation, Quiet

(* A commit or a recovery runs only while there are no operations. *)
LEMMA NoOpsInCommit ==
  ASSUME IInv, Reserve, Committers # {} \/ boot # "up"
  PROVE  outstanding = 0 /\ InOp = {}
<1>1. CASE Committers # {}
  BY <1>1, TokenFacts DEF IInv, Phases
<1>2. CASE boot # "up"
  <2>1. InOp = {}
    BY <1>2 DEF InOp, IInv, Phases
  <2> QED  BY <2>1, FS_EmptySet DEF IInv, Counting
<1> QED  BY <1>1, <1>2

(* Quiet steps leave the operations alone, and shorten the log at most. *)
LEMMA QuietSteps ==
  ASSUME IInv, Reserve, Quiet
  PROVE  /\ InOp' = InOp
         /\ UNCHANGED <<outstanding, wrote, cur, panicked>>
         /\ \A p \in Procs : pc'[p] = "log_write" => pc[p] = "log_write"
         /\ outstanding = 0 => Len(lh') <= LOGSIZE - 1 /\ Len(lh') \in Nat
         /\ outstanding # 0 => lh' = lh
         /\ Len(head') <= LOGSIZE - 1
<1> DEFINE Goal == /\ InOp' = InOp
                   /\ UNCHANGED <<outstanding, wrote, cur, panicked>>
                   /\ \A p \in Procs : pc'[p] = "log_write" => pc[p] = "log_write"
                   /\ outstanding = 0 => Len(lh') <= LOGSIZE - 1 /\ Len(lh') \in Nat
                   /\ outstanding # 0 => lh' = lh
                   /\ Len(head') <= LOGSIZE - 1
<1>0. /\ TypeOK
      /\ Len(lh) \in Nat /\ Len(lh) <= LOGSIZE - 1
      /\ Len(head) \in Nat /\ Len(head) <= LOGSIZE - 1
      /\ LOGSIZE \in Nat /\ LOGSIZE > 1
      /\ Len(<< >>) = 0
  BY LogFits, LenProperties, BoundAssumption DEF IInv, TypeOK, Room, Reserve
<1>1. ASSUME NEW p \in Procs, write_log(p) \/ write_head(p) \/ commit_install(p)
      PROVE  Goal
  BY <1>0, <1>1
  DEF write_log, write_head, commit_install, install_trans, InOp, procVars,
      cacheVars, TypeOK, PcValues
<1>2. ASSUME NEW p \in Procs, commit_clear(p)
      PROVE  Goal
  <2>1. outstanding = 0
    BY <1>2, NoOpsInCommit DEF commit_clear, Committers
  <2>2. InOp' = InOp /\ \A q \in Procs : pc'[q] = "log_write" => pc[q] = "log_write"
    BY <1>0, <1>2 DEF commit_clear, InOp, TypeOK, PcValues
  <2> QED  BY <1>0, <1>2, <2>1, <2>2 DEF commit_clear, clear_head
<1>3. ASSUME NEW p \in Procs, end_commit(p)
      PROVE  Goal
  BY <1>0, <1>3 DEF end_commit, wakeup, InOp, TypeOK, PcValues, onDisk
<1>4. ASSUME NEW b \in Blocks, bread(b) \/ recycle(b)
      PROVE  Goal
  BY <1>0, <1>4 DEF bread, recycle, InOp, onDisk, logVars, procVars
<1>5. ASSUME read_head
      PROVE  Goal
  <2>1. outstanding = 0
    BY <1>5, NoOpsInCommit DEF read_head
  <2> QED  BY <1>0, <1>5, <2>1 DEF read_head, InOp, onDisk, procVars
<1>6. ASSUME recover_install
      PROVE  Goal
  BY <1>0, <1>6 DEF recover_install, install_trans, InOp, procVars
<1>7. ASSUME recover_clear
      PROVE  Goal
  <2>1. outstanding = 0
    BY <1>7, NoOpsInCommit DEF recover_clear
  <2> QED  BY <1>0, <1>7, <2>1 DEF recover_clear, clear_head, InOp
<1>8. ASSUME UNCHANGED vars
      PROVE  Goal
  BY <1>0, <1>8 DEF vars, InOp
<1> QED
  BY <1>1, <1>2, <1>3, <1>4, <1>5, <1>6, <1>7, <1>8
  DEF Quiet, commit, recover_from_log

(* How the operations change when one begins, writes or ends. *)
LEMMA OpSteps ==
  ASSUME IInv, Reserve, NEW p \in Procs
  PROVE  /\ begin_op(p) =>
              \/ InOp' = InOp /\ outstanding' = outstanding
              \/ /\ p \notin InOp /\ InOp' = InOp \union {p}
                 /\ outstanding' = outstanding + 1
         /\ \A b \in Blocks, d \in Data : log_write(p, b, d) => InOp' = InOp
         /\ log_append(p) => InOp' = InOp
         /\ end_op(p) => p \in InOp /\ InOp' = InOp \ {p}
<1>0. TypeOK
  BY DEF IInv
<1>1. ASSUME begin_op(p)
      PROVE  \/ InOp' = InOp /\ outstanding' = outstanding
             \/ /\ p \notin InOp /\ InOp' = InOp \union {p}
                /\ outstanding' = outstanding + 1
  <2>1. CASE Wait(p)
    BY <1>0, <1>1, <2>1 DEF begin_op, Wait, InOp, TypeOK, PcValues
  <2>2. CASE Enter(p)
    BY <1>0, <1>1, <2>2 DEF begin_op, Enter, InOp, TypeOK, PcValues
  <2> QED  BY <1>1, <2>1, <2>2 DEF begin_op
<1>2. ASSUME NEW b \in Blocks, NEW d \in Data, log_write(p, b, d)
      PROVE  InOp' = InOp
  BY <1>0, <1>2 DEF log_write, InOp, TypeOK, PcValues
<1>3. ASSUME log_append(p)
      PROVE  InOp' = InOp
  BY <1>0, <1>3 DEF log_append, InOp, TypeOK, PcValues
<1>4. ASSUME end_op(p)
      PROVE  p \in InOp /\ InOp' = InOp \ {p}
  BY <1>0, <1>4 DEF end_op, wakeup, InOp, TypeOK, PcValues
<1> QED  BY <1>1, <1>2, <1>3, <1>4

(* Every step keeps log.outstanding equal to the number of operations. *)
LEMMA CountStep ==
  ASSUME IInv, Reserve, [Next]_vars
  PROVE  Counting'
<1>0. /\ outstanding = Cardinality(InOp)
      /\ IsFiniteSet(InOp)
      /\ outstanding \in Nat
  BY TokenFacts DEF IInv, Counting, TypeOK
<1>1. ASSUME NEW p \in Procs, begin_op(p)
      PROVE  Counting'
  BY <1>0, <1>1, OpSteps, FS_AddElement DEF Counting
<1>2. ASSUME NEW p \in Procs, NEW b \in Blocks, NEW d \in Data, log_write(p, b, d)
      PROVE  Counting'
  BY Zenon, <1>0, <1>2, OpSteps DEF Counting, log_write, logVars
<1>3. ASSUME NEW p \in Procs, log_append(p)
      PROVE  Counting'
  BY Zenon, <1>0, <1>3, OpSteps DEF Counting, log_append
<1>4. ASSUME NEW p \in Procs, end_op(p)
      PROVE  Counting'
  BY Zenon, <1>0, <1>4, OpSteps, FS_RemoveElement DEF Counting, end_op
<1>5. CASE Quiet
  BY <1>0, <1>5, QuietSteps DEF Counting
<1>6. CASE Crash
  <2>1. InOp' = {} /\ outstanding' = 0
    BY <1>6 DEF Crash, InOp
  <2> QED  BY <2>1, FS_EmptySet DEF Counting
<1> QED  BY <1>1, <1>2, <1>3, <1>4, <1>5, <1>6, Steps

(* Every step keeps the operations within their allowance of blocks. *)
LEMMA FrugalStep ==
  ASSUME IInv, Reserve, [Next]_vars
  PROVE  Frugal'
<1>0. TypeOK /\ Frugal
  BY DEF IInv
<1>e. IsFiniteSet({}) /\ Cardinality({}) = 0 /\ OpBlocks \in Nat
  BY FS_EmptySet, BoundAssumption
<1>1. ASSUME NEW p \in Procs, begin_op(p)
      PROVE  Frugal'
  <2>1. InOp \subseteq InOp' /\ UNCHANGED <<wrote, cur>>
    BY <1>1, OpSteps DEF begin_op
  <2>2. \A q \in Procs : pc'[q] = "log_write" => pc[q] = "log_write"
    BY <1>0, <1>1 DEF begin_op, Enter, Wait, TypeOK, PcValues
  <2> QED  BY <1>0, <2>1, <2>2 DEF Frugal
<1>2. ASSUME NEW p \in Procs, NEW b \in Blocks, NEW d \in Data, log_write(p, b, d)
      PROVE  Frugal'
  <2>1. IsFiniteSet(wrote[p] \union {b}) /\ p \in InOp
    BY Zenon, <1>0, <1>2, FS_AddElement DEF Frugal, log_write, InOp
  <2>2. InOp' = InOp
    BY <1>2, OpSteps
  <2>3. ASSUME NEW q \in Procs, q # p
        PROVE  wrote'[q] = wrote[q] /\ pc'[q] = pc[q] /\ cur'[q] = cur[q]
    BY <1>0, <1>2, <2>3 DEF log_write, TypeOK
  <2>4. wrote'[p] = wrote[p] \union {b} /\ cur'[p] = b
    BY <1>0, <1>2 DEF log_write, TypeOK
  <2>5. Cardinality(wrote[p] \union {b}) <= OpBlocks
    BY <1>2 DEF log_write
  <2> QED  BY Zenon, <1>0, <2>1, <2>2, <2>3, <2>4, <2>5 DEF Frugal
<1>3. ASSUME NEW p \in Procs, log_append(p)
      PROVE  Frugal'
  <2>1. InOp' = InOp /\ wrote' = wrote
    BY Zenon, <1>3, OpSteps DEF log_append
  <2>2. ASSUME NEW q \in Procs, pc'[q] = "log_write"
        PROVE  pc[q] = "log_write" /\ cur'[q] = cur[q]
    BY <1>0, <1>3, <2>2 DEF log_append, TypeOK
  <2> QED  BY <1>0, <2>1, <2>2 DEF Frugal
<1>4. ASSUME NEW p \in Procs, end_op(p)
      PROVE  Frugal'
  <2>1. p \in InOp /\ InOp' = InOp \ {p} /\ cur' = cur
    BY Zenon, <1>4, OpSteps DEF end_op
  <2>2. \A q \in Procs : pc'[q] = "log_write" => pc[q] = "log_write" /\ q # p
    BY <1>0, <1>4 DEF end_op, wakeup, TypeOK, PcValues
  <2>3. \A q \in Procs : wrote'[q] = IF q = p THEN {} ELSE wrote[q]
    BY <1>0, <1>4 DEF end_op, TypeOK
  <2> QED  BY <1>0, <1>e, <2>1, <2>2, <2>3 DEF Frugal
<1>5. CASE Quiet
  BY <1>0, <1>5, QuietSteps DEF Frugal
<1>6. CASE Crash
  BY <1>6, <1>e DEF Crash, Frugal
<1> QED  BY <1>1, <1>2, <1>3, <1>4, <1>5, <1>6, Steps

-----------------------------------------------------------------------------
(* Fewer tokens are left when an operation has more blocks in the log. *)
LEMMA TokensShrink ==
  ASSUME IInv, Reserve,
         InOp' \subseteq InOp,
         \A q \in InOp' : /\ IsFiniteSet(Used(q)')
                          /\ Used(q) \subseteq Used(q)'
  PROVE  Tokens' \subseteq Tokens
<1>1. ASSUME NEW t \in Tokens'
      PROVE  t \in Tokens
  <2>1. /\ t \in InOp' \X (1 .. MAXOPBLOCKS)
        /\ t[2] > Cardinality(Used(t[1])')
    BY <1>1 DEF Tokens
  <2>2. t[1] \in InOp' /\ t[2] \in Nat
    BY <2>1
  <2>3. /\ Cardinality(Used(t[1])) <= Cardinality(Used(t[1])')
        /\ Cardinality(Used(t[1])) \in Nat
        /\ Cardinality(Used(t[1])') \in Nat
    BY <2>2, FewerElements
  <2>4. t \in InOp \X (1 .. MAXOPBLOCKS)
    BY <2>1
  <2>5. t[2] > Cardinality(Used(t[1]))
    BY <2>1, <2>2, <2>3
  <2> QED  BY <2>4, <2>5 DEF Tokens
<1> QED  BY <1>1

(* Every step leaves room for what was promised, and none panics. *)
LEMMA RoomStep ==
  ASSUME IInv, Reserve, [Next]_vars
  PROVE  Room'
<1>0. /\ TypeOK /\ Counting /\ Frugal /\ Room /\ Phases
      /\ Len(lh) \in Nat /\ outstanding \in Nat
      /\ MAXOPBLOCKS \in Nat /\ LOGSIZE \in Nat /\ MAXOPBLOCKS < LOGSIZE
  BY LenProperties, BoundAssumption DEF IInv, TypeOK, Reserve
<1>t. /\ IsFiniteSet(InOp) /\ IsFiniteSet(Tokens) /\ Cardinality(Tokens) \in Nat
      /\ \A p \in InOp : <<p, MAXOPBLOCKS>> \in Tokens
      /\ outstanding <= Cardinality(Tokens)
  BY <1>0, TokenFacts
<1>r. Len(lh) + Cardinality(Tokens) <= LOGSIZE - (IF outstanding <= 1 THEN 1 ELSE 0)
  BY <1>0 DEF Room
<1>f. \A q \in Procs : IsFiniteSet(Used(q)')
  <2>1. ASSUME NEW q \in Procs
        PROVE  IsFiniteSet(Used(q)')
    <3>1. IsFiniteSet(wrote'[q])
      BY FrugalStep DEF Frugal
    <3>2. Used(q)' \subseteq wrote'[q]
      BY DEF Used
    <3> QED  BY <3>1, <3>2, FewerElements
  <2> QED  BY <2>1
<1>1. ASSUME NEW p \in Procs, begin_op(p)
      PROVE  Room'
  <2>1. CASE InOp' = InOp /\ outstanding' = outstanding
    <3>1. Tokens' = Tokens
      BY <1>1, <2>1 DEF Tokens, Used, Logged, begin_op
    <3> QED  BY <1>0, <1>1, <2>1, <3>1 DEF Room, begin_op, onDisk
  <2>2. CASE p \notin InOp /\ InOp' = InOp \union {p} /\ outstanding' = outstanding + 1
    <3>1. Len(lh) + (outstanding + 1) * MAXOPBLOCKS <= LOGSIZE /\ ~committing /\ boot = "up"
      BY <1>0, <1>1, <2>2 DEF begin_op, Wait
    <3>2. Cardinality(InOp') = outstanding + 1 /\ IsFiniteSet(InOp')
      BY <1>0, <1>t, <2>2, FS_AddElement DEF Counting
    <3>3. /\ IsFiniteSet(1 .. MAXOPBLOCKS)
          /\ Cardinality(1 .. MAXOPBLOCKS) = MAXOPBLOCKS
      BY <1>0, FS_Interval
    <3>4. /\ IsFiniteSet(InOp' \X (1 .. MAXOPBLOCKS))
          /\ Cardinality(InOp' \X (1 .. MAXOPBLOCKS)) = (outstanding + 1) * MAXOPBLOCKS
      BY Zenon, <3>2, <3>3, FS_Product
    <3>5. Tokens' \subseteq InOp' \X (1 .. MAXOPBLOCKS)
      BY DEF Tokens
    <3>6. /\ Cardinality(Tokens') \in Nat
          /\ Cardinality(Tokens') <= (outstanding + 1) * MAXOPBLOCKS
      BY <3>4, <3>5, FewerElements
    <3>7. UNCHANGED <<lh, head, panicked>>
      BY <1>1 DEF begin_op, onDisk
    <3>8. CASE outstanding = 0
      <4>1. Len(lh) = 0
        BY <1>0, <3>1, <3>8 DEF Phases
      <4>2. (outstanding + 1) * MAXOPBLOCKS = MAXOPBLOCKS
        BY <1>0, <3>8
      <4> QED  BY <1>0, <2>2, <3>6, <3>7, <3>8, <4>1, <4>2 DEF Room
    <3>9. CASE outstanding # 0
      <4> DEFINE m == (outstanding + 1) * MAXOPBLOCKS
      <4>1. m \in Nat /\ Len(lh) + m <= LOGSIZE /\ Cardinality(Tokens') <= m
        BY <1>0, <3>1, <3>6
      <4> HIDE DEF m
      <4> QED  BY <1>0, <2>2, <3>6, <3>7, <3>9, <4>1 DEF Room
    <3> QED  BY <3>8, <3>9
  <2> QED  BY <1>1, <2>1, <2>2, OpSteps
<1>2. ASSUME NEW p \in Procs, NEW b \in Blocks, NEW d \in Data, log_write(p, b, d)
      PROVE  Room'
  <2>1. InOp' = InOp /\ UNCHANGED <<lh, head, outstanding>>
    BY Zenon, <1>2, OpSteps DEF log_write, logVars, onDisk
  <2>2. \A q \in Procs : Used(q) \subseteq Used(q)'
    BY <1>0, <1>2, <2>1 DEF Used, Logged, log_write, TypeOK
  <2>3. Tokens' \subseteq Tokens
    BY <1>f, <2>1, <2>2, TokensShrink DEF InOp
  <2>4. Cardinality(Tokens') \in Nat /\ Cardinality(Tokens') <= Cardinality(Tokens)
    BY <1>t, <2>3, FewerElements
  <2>5. ~panicked'
    <3>1. p \in InOp
      BY <1>2 DEF log_write, InOp
    <3>2. outstanding >= 1
      BY <3>1, InsideOp
    <3>3. Len(lh) <= LOGSIZE - 2
      BY <1>0, <3>2, LogFits
    <3> QED  BY <1>0, <1>2, <3>2, <3>3 DEF log_write, size
  <2> QED  BY <1>0, <1>t, <1>r, <2>1, <2>4, <2>5 DEF Room
<1>3. ASSUME NEW p \in Procs, log_append(p)
      PROVE  Room'
  <2>1. InOp' = InOp /\ UNCHANGED <<wrote, head, outstanding, panicked>>
    BY Zenon, <1>3, OpSteps DEF log_append, onDisk
  <2>2. p \in InOp /\ cur[p] \in wrote[p]
    BY <1>0, <1>3 DEF log_append, InOp, Frugal
  <2>3. CASE Has(lh, cur[p])
    <3>1. lh' = lh
      BY <1>3, <2>3 DEF log_append
    <3>2. Tokens' = Tokens
      BY <2>1, <3>1 DEF Tokens, Used, Logged
    <3> QED  BY <1>0, <2>1, <3>1, <3>2 DEF Room
  <2>4. CASE ~Has(lh, cur[p])
    <3>1. lh' = Append(lh, cur[p])
      BY <1>3, <2>4 DEF log_append
    <3>2. cur[p] \in Blocks
      BY <1>0, <2>2 DEF TypeOK
    <3>3. /\ Len(lh') = Len(lh) + 1
          /\ \A i \in 1 .. Len(lh) : lh'[i] = lh[i]
          /\ lh'[Len(lh) + 1] = cur[p]
      BY <1>0, <3>1, <3>2, AppendProperties DEF TypeOK
    <3>4. cur[p] \notin Logged /\ Logged' = Logged \union {cur[p]}
      <4>1. cur[p] \notin Logged
        BY <2>4 DEF Logged, Has
      <4>2. Logged' \subseteq Logged \union {cur[p]}
        BY <1>0, <3>3 DEF Logged
      <4>3. Logged \union {cur[p]} \subseteq Logged'
        BY <1>0, <3>3 DEF Logged
      <4> QED  BY <4>1, <4>2, <4>3
    <3>5. Used(p)' = Used(p) \union {cur[p]} /\ cur[p] \notin Used(p)
      BY <2>1, <2>2, <3>4 DEF Used
    <3>6. /\ IsFiniteSet(Used(p)) /\ Cardinality(Used(p)) \in Nat
          /\ Cardinality(Used(p)) < MAXOPBLOCKS
      BY <1>0, <2>2, TokenFacts, BoundAssumption DEF Reserve, InOp
    <3>7. Cardinality(Used(p)') = Cardinality(Used(p)) + 1
      BY Zenon, <3>5, <3>6, FS_AddElement
    <3> DEFINE x == <<p, Cardinality(Used(p)) + 1>>
    <3>8. x \in Tokens
      <4>1. x \in InOp \X (1 .. MAXOPBLOCKS)
        BY <1>0, <2>2, <3>6
      <4> QED  BY <3>6, <4>1 DEF Tokens
    <3>9. x \notin Tokens'
      BY <3>6, <3>7 DEF Tokens
    <3>10. \A q \in Procs : Used(q) \subseteq Used(q)'
      BY <2>1, <3>4 DEF Used
    <3>11. Tokens' \subseteq Tokens
      BY <1>f, <2>1, <3>10, TokensShrink DEF InOp
    <3>12. /\ Cardinality(Tokens') \in Nat
           /\ Cardinality(Tokens') + 1 <= Cardinality(Tokens)
      BY <1>t, <3>8, <3>9, <3>11, FewerElements
    <3> QED  BY <1>0, <1>t, <1>r, <2>1, <3>3, <3>12 DEF Room
  <2> QED  BY <2>3, <2>4
<1>4. ASSUME NEW p \in Procs, end_op(p)
      PROVE  Room'
  <2>1. p \in InOp /\ InOp' = InOp \ {p}
    BY <1>4, OpSteps
  <2>2. /\ UNCHANGED <<lh, head>> /\ outstanding' = outstanding - 1
        /\ panicked' = committing
        /\ \A q \in Procs : q # p => wrote'[q] = wrote[q]
    BY <1>0, <1>4 DEF end_op, onDisk, TypeOK
  <2>3. Tokens' \subseteq Tokens
    <3>1. \A q \in InOp' : Used(q) \subseteq Used(q)' /\ IsFiniteSet(Used(q)')
      BY <1>f, <2>1, <2>2 DEF Used, Logged, InOp
    <3> QED  BY <2>1, <3>1, TokensShrink
  <2>4. <<p, MAXOPBLOCKS>> \in Tokens /\ <<p, MAXOPBLOCKS>> \notin Tokens'
    BY <1>t, <2>1 DEF Tokens
  <2>5. /\ Cardinality(Tokens') \in Nat
        /\ Cardinality(Tokens') + 1 <= Cardinality(Tokens)
    BY <1>t, <2>3, <2>4, FewerElements
  <2>6. ~panicked'
    BY <2>1, <2>2, InsideOp
  <2> QED  BY <1>0, <1>t, <1>r, <2>2, <2>5, <2>6 DEF Room
<1>5. CASE Quiet
  <2>1. CASE outstanding = 0
    <3>1. Tokens' = {} /\ outstanding' = 0 /\ panicked' = panicked
      BY <1>0, <1>5, <2>1, QuietSteps, TokenFacts DEF Tokens
    <3>2. /\ Len(lh') <= LOGSIZE - 1 /\ Len(lh') \in Nat
          /\ Len(head') <= LOGSIZE - 1
      BY <1>5, <2>1, QuietSteps
    <3> QED  BY <1>0, <3>1, <3>2, FS_EmptySet DEF Room
  <2>2. CASE outstanding # 0
    <3>1. /\ UNCHANGED <<lh, wrote, outstanding, panicked>> /\ InOp' = InOp
          /\ Len(head') <= LOGSIZE - 1
      BY <1>5, <2>2, QuietSteps
    <3>2. Tokens' = Tokens
      BY <3>1 DEF Tokens, Used, Logged
    <3> QED  BY <1>0, <3>1, <3>2 DEF Room
  <2> QED  BY <2>1, <2>2
<1>6. CASE Crash
  <2>1. Tokens' = {}
    BY <1>6 DEF Crash, Tokens, InOp
  <2>2. Len(<< >>) = 0
    OBVIOUS
  <2> QED  BY <1>0, <1>6, <2>1, <2>2, FS_EmptySet DEF Crash, Room, onDisk
<1> QED  BY <1>1, <1>2, <1>3, <1>4, <1>5, <1>6, Steps

-----------------------------------------------------------------------------
(* Every step keeps commits apart from each other and from operations. *)
LEMMA PhasesStep ==
  ASSUME IInv, Reserve, [Next]_vars
  PROVE  Phases'
<1>0. TypeOK /\ Phases
  BY DEF IInv
<1> USE DEF PcValues
<1>1. ASSUME NEW p \in Procs, begin_op(p)
      PROVE  Phases'
  <2>1. Committers' = Committers
    BY <1>0, <1>1 DEF begin_op, Enter, Wait, Committers, TypeOK
  <2>2. UNCHANGED <<lh, committing, boot>> /\ boot = "up"
    BY <1>1 DEF begin_op
  <2>3. outstanding' = outstanding \/ (~committing /\ outstanding' = outstanding + 1)
    BY <1>1 DEF begin_op, Enter, Wait
  <2>4. \A q \in Procs : pc'[q] = "committed" => pc[q] = "committed"
    BY <1>0, <1>1 DEF begin_op, Enter, Wait, TypeOK
  <2> QED  BY <1>0, <2>1, <2>2, <2>3, <2>4 DEF Phases, TypeOK
<1>2. ASSUME NEW p \in Procs, NEW b \in Blocks, NEW d \in Data, log_write(p, b, d)
      PROVE  Phases'
  <2>1. p \in InOp /\ Committers' = Committers
    BY <1>0, <1>2 DEF log_write, Committers, InOp, TypeOK
  <2>2. UNCHANGED <<lh, committing, outstanding, boot>>
    BY <1>2 DEF log_write, logVars
  <2>3. \A q \in Procs : pc'[q] = "committed" => pc[q] = "committed"
    BY <1>0, <1>2 DEF log_write, TypeOK
  <2> QED  BY <1>0, <2>1, <2>2, <2>3, InsideOp DEF Phases
<1>3. ASSUME NEW p \in Procs, log_append(p)
      PROVE  Phases'
  <2>1. p \in InOp /\ Committers' = Committers
    BY <1>0, <1>3 DEF log_append, Committers, InOp, TypeOK
  <2>2. UNCHANGED <<committing, outstanding, boot>>
    BY <1>3 DEF log_append
  <2>3. outstanding >= 1 /\ ~committing /\ boot = "up" /\ Committers = {}
    BY <1>0, <2>1, InsideOp DEF Phases
  <2>4. \A q \in Procs : pc'[q] # "committed"
    BY <2>1, <2>3 DEF Committers
  <2> QED  BY <1>0, <2>1, <2>2, <2>3, <2>4 DEF Phases, TypeOK
<1>4. ASSUME NEW p \in Procs, end_op(p)
      PROVE  Phases'
  <2>1. outstanding >= 1 /\ ~committing /\ boot = "up" /\ Committers = {}
    BY <1>0, <1>4, InsideOp DEF Phases, end_op, InOp
  <2>2. /\ outstanding' = outstanding - 1 /\ committing' = (outstanding' = 0)
        /\ UNCHANGED <<lh, boot>>
    BY <1>4 DEF end_op
  <2>3. CASE outstanding' # 0
    <3>1. Committers' = {}
      BY <1>0, <1>4, <2>1, <2>3 DEF end_op, wakeup, Committers, TypeOK
    <3>2. \A q \in Procs : pc'[q] # "committed"
      BY <3>1 DEF Committers
    <3> QED  BY Zenon, <2>1, <2>2, <2>3, <3>1, <3>2 DEF Phases
  <2>4. CASE outstanding' = 0
    <3>1. Committers' = {p}
      BY <1>0, <1>4, <2>1, <2>4 DEF end_op, Committers, TypeOK
    <3>2. \A q \in Procs : pc'[q] = "committed" => lh = << >>
      BY <1>0, <1>4, <2>1, <2>4 DEF end_op, Committers, TypeOK
    <3> QED  BY Zenon, <2>1, <2>2, <2>4, <3>1, <3>2 DEF Phases
  <2> QED  BY <2>3, <2>4
<1>5. ASSUME NEW p \in Procs, write_log(p) \/ write_head(p) \/ commit_install(p)
      PROVE  Phases'
  <2>1. Committers' = Committers /\ boot = "up"
    BY <1>0, <1>5
    DEF write_log, write_head, commit_install, install_trans, Committers, procVars,
        TypeOK, Phases
  <2>2. \A q \in Procs : pc'[q] = "committed" => pc[q] = "committed"
    BY SMTT(30), <1>0, <1>5
    DEF write_log, write_head, commit_install, install_trans, procVars, TypeOK
  <2>3. UNCHANGED <<lh, committing, outstanding, boot>>
    BY <1>5 DEF write_log, write_head, commit_install, install_trans
  <2> QED  BY <1>0, <2>1, <2>2, <2>3 DEF Phases
<1>6. ASSUME NEW p \in Procs, commit_clear(p)
      PROVE  Phases'
  <2>1. p \in Committers /\ Committers' = Committers /\ boot = "up"
    BY <1>0, <1>6 DEF commit_clear, Committers, TypeOK, Phases
  <2>2. lh' = << >> /\ UNCHANGED <<committing, outstanding, boot>>
    BY <1>6 DEF commit_clear, clear_head
  <2> QED  BY <1>0, <2>1, <2>2 DEF Phases
<1>7. ASSUME NEW p \in Procs, end_commit(p)
      PROVE  Phases'
  <2>1. p \in Committers /\ boot = "up" /\ lh = << >>
    BY <1>0, <1>7 DEF end_commit, Committers, Phases
  <2>2. Committers = {p}
    BY <1>0, <2>1 DEF Phases
  <2>3. Committers' = {}
    BY <1>0, <1>7, <2>2 DEF end_commit, wakeup, Committers, TypeOK
  <2>4. committing' = FALSE /\ UNCHANGED <<lh, outstanding, boot>>
    BY <1>7 DEF end_commit
  <2> QED  BY <2>1, <2>3, <2>4 DEF Phases
<1>8. ASSUME NEW b \in Blocks, bread(b) \/ recycle(b)
      PROVE  Phases'
  BY <1>0, <1>8 DEF bread, recycle, Phases, Committers, logVars, procVars
<1>9. ASSUME read_head \/ recover_install \/ recover_clear
      PROVE  Phases'
  <2>1. boot # "up" /\ pc' = pc /\ UNCHANGED <<committing, outstanding>>
    BY <1>9
    DEF read_head, recover_install, recover_clear, install_trans, clear_head, procVars
  <2>2. boot' # "up" \/ lh' = << >>
    BY <1>9 DEF read_head, recover_install, recover_clear, install_trans, clear_head
  <2>3. Committers = {} /\ \A q \in Procs : pc[q] = "user"
    BY <1>0, <2>1 DEF Phases, Committers
  <2> QED  BY <1>0, <2>1, <2>2, <2>3 DEF Phases, Committers
<1>10. CASE Crash
  BY <1>10 DEF Crash, Phases, Committers
<1>11. CASE UNCHANGED vars
  BY <1>0, <1>11 DEF vars, Phases, Committers
<1> QED
  BY <1>1, <1>2, <1>3, <1>4, <1>5, <1>6, <1>7, <1>8, <1>9, <1>10, <1>11
  DEF Next, Running, Operation, commit, recover_from_log

(* Every step leaves a sleeper of begin_op() with somebody to wake it. *)
LEMMA SleeperStep ==
  ASSUME IInv, Reserve, [Next]_vars
  PROVE  SleeperHasWaker'
<1>0. /\ TypeOK /\ Phases /\ SleeperHasWaker
      /\ outstanding \in Nat
  BY DEF IInv, TypeOK
<1> DEFINE NoNewSleeper == \A q \in Procs : pc'[q] = "sleep" => pc[q] = "sleep"
<1>1. ASSUME NEW p \in Procs, begin_op(p)
      PROVE  SleeperHasWaker'
  <2>1. CASE Enter(p)
    BY <1>0, <2>1 DEF Enter, SleeperHasWaker
  <2>2. CASE Wait(p)
    <3>1. committing \/ Len(lh) + (outstanding + 1) * MAXOPBLOCKS > LOGSIZE
      BY <1>0, <1>1, <2>2 DEF begin_op, Wait, Enter, TypeOK
    <3>2. ASSUME outstanding = 0, ~committing
          PROVE  FALSE
      <4>1. Len(lh) = 0
        BY <1>0, <1>1, <3>2 DEF Phases, begin_op
      <4>2. (outstanding + 1) * MAXOPBLOCKS = MAXOPBLOCKS
        BY <3>2, BoundAssumption
      <4> QED  BY <3>1, <3>2, <4>1, <4>2, BoundAssumption
    <3>3. outstanding' = outstanding /\ committing' = committing
      BY <1>1, <2>2 DEF begin_op, Wait
    <3> QED  BY <1>0, <3>2, <3>3 DEF SleeperHasWaker
  <2> QED  BY <1>1, <2>1, <2>2 DEF begin_op
<1>2. ASSUME NEW p \in Procs, NEW b \in Blocks, NEW d \in Data, log_write(p, b, d)
      PROVE  SleeperHasWaker'
  <2>1. NoNewSleeper
    BY <1>0, <1>2 DEF log_write, TypeOK
  <2> QED  BY <1>0, <1>2, <2>1 DEF log_write, logVars, SleeperHasWaker
<1>3. ASSUME NEW p \in Procs, log_append(p)
      PROVE  SleeperHasWaker'
  <2>1. NoNewSleeper
    BY <1>0, <1>3 DEF log_append, TypeOK
  <2> QED  BY <1>0, <1>3, <2>1 DEF log_append, SleeperHasWaker
<1>4. ASSUME NEW p \in Procs, end_op(p)
      PROVE  SleeperHasWaker'
  <2>1. outstanding' \in Nat
    BY TypeStep DEF TypeOK
  <2>2. outstanding' # 0 \/ committing'
    BY Zenon, <1>4 DEF end_op
  <2> QED  BY <2>1, <2>2 DEF SleeperHasWaker
<1>5. ASSUME NEW p \in Procs, write_log(p) \/ write_head(p) \/ commit_install(p)
      PROVE  SleeperHasWaker'
  <2>1. NoNewSleeper
    BY <1>0, <1>5
    DEF write_log, write_head, commit_install, install_trans, procVars, TypeOK
  <2>2. UNCHANGED <<committing, outstanding>>
    BY Zenon, <1>5 DEF write_log, write_head, commit_install, install_trans
  <2> QED  BY <1>0, <2>1, <2>2 DEF SleeperHasWaker
<1>6. ASSUME NEW p \in Procs, commit_clear(p)
      PROVE  SleeperHasWaker'
  <2>1. NoNewSleeper
    BY <1>0, <1>6 DEF commit_clear, TypeOK
  <2> QED  BY <1>0, <1>6, <2>1 DEF commit_clear, clear_head, SleeperHasWaker
<1>7. ASSUME NEW p \in Procs, end_commit(p)
      PROVE  SleeperHasWaker'
  <2>1. \A q \in Procs : pc'[q] # "sleep"
    BY <1>0, <1>7 DEF end_commit, wakeup, TypeOK
  <2> QED  BY <2>1 DEF SleeperHasWaker
<1>8. ASSUME NEW b \in Blocks, bread(b) \/ recycle(b)
      PROVE  SleeperHasWaker'
  BY <1>0, <1>8 DEF bread, recycle, SleeperHasWaker, logVars, procVars
<1>9. ASSUME read_head \/ recover_install \/ recover_clear
      PROVE  SleeperHasWaker'
  <2>1. boot # "up" /\ pc' = pc
    BY <1>9
    DEF read_head, recover_install, recover_clear, install_trans, clear_head, procVars
  <2> QED  BY <1>0, <2>1 DEF Phases, SleeperHasWaker
<1>10. CASE Crash
  BY <1>10 DEF Crash, SleeperHasWaker
<1>11. CASE UNCHANGED vars
  BY <1>0, <1>11 DEF vars, SleeperHasWaker
<1> QED
  BY <1>1, <1>2, <1>3, <1>4, <1>5, <1>6, <1>7, <1>8, <1>9, <1>10, <1>11
  DEF Next, Running, Operation, commit, recover_from_log

-----------------------------------------------------------------------------
(***************************************************************************)
(* The inductive invariant of log.c: it holds after boot, and no step of   *)
(* begin_op, log_write, end_op, commit, recovery or a crash breaks it.     *)
(***************************************************************************)
THEOREM Invariance ==
  ASSUME Reserve
  PROVE  Spec => []IInv
<1>1. Init => IInv
  BY InitOK
<1>2. IInv /\ [Next]_vars => IInv'
  BY TypeStep, CountStep, FrugalStep, RoomStep, PhasesStep, SleeperStep DEF IInv
<1> QED  BY <1>1, <1>2, PTL DEF Spec

(* Type correctness of every variable of log.c, the cache and the disk. *)
THEOREM TypeCorrect ==
  ASSUME Reserve
  PROVE  Spec => []TypeOK
<1>1. IInv => TypeOK
  BY DEF IInv
<1> QED  BY <1>1, Invariance, PTL

(***************************************************************************)
(* begin_op()'s reservation suffices: however many processes make calls    *)
(* and whatever the sizes, no panic of log.c is reached and the log fits,  *)
(* as long as an operation writes fewer than MAXOPBLOCKS blocks.           *)
(***************************************************************************)
THEOREM ReservationSuffices ==
  ASSUME Reserve
  PROVE  Spec => []NeverTooBig
<1>1. IInv => NeverTooBig
  <2> SUFFICES ASSUME IInv
               PROVE  NeverTooBig
    OBVIOUS
  <2>1. Len(lh) \in Nat /\ Len(lh) <= LOGSIZE - 1
    BY LogFits
  <2>2. ~panicked
    BY DEF IInv, Room
  <2> QED  BY <2>1, <2>2, BoundAssumption DEF NeverTooBig, size
<1> QED  BY <1>1, Invariance, PTL

(***************************************************************************)
(* No wakeup of begin_op() is lost: a process sleeps on &log only while an *)
(* end_op() is still to come.                                              *)
(***************************************************************************)
THEOREM NoLostWakeup ==
  ASSUME Reserve
  PROVE  Spec => []SleeperHasWaker
<1>1. IInv => SleeperHasWaker
  BY DEF IInv
<1> QED  BY <1>1, Invariance, PTL

(***************************************************************************)
(* While log.committing is set some process is in commit() and none is     *)
(* between begin_op() and end_op().                                        *)
(***************************************************************************)
THEOREM CommitAlone ==
  ASSUME Reserve
  PROVE  Spec => []CommitExcludesOps
<1>1. IInv => CommitExcludesOps
  <2> SUFFICES ASSUME IInv, committing
               PROVE  CommitExcludesOps
    BY DEF CommitExcludesOps
  <2>1. Committers # {}
    BY DEF IInv, Phases
  <2>2. InOp = {}
    BY <2>1, NoOpsInCommit
  <2> QED  BY <2>1, <2>2 DEF CommitExcludesOps, Committers
<1> QED  BY <1>1, Invariance, PTL

=============================================================================
