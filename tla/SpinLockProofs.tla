--------------------------- MODULE SpinLockProofs ---------------------------
(***************************************************************************)
(* Theorems about SpinLock for any CPUs, threads and locks, and for any    *)
(* system calls and handlers that are right by themselves: mutual          *)
(* exclusion; no interrupt on a CPU that holds a lock, and no panic; the   *)
(* interrupt flag comes back with the thread; and, if the locks have an    *)
(* order, no group of CPUs that spin for each other.                       *)
(*                                                                         *)
(* The argument.  ncli counts the locks a CPU has, plus one between a      *)
(* pushcli() and its lock; and it is what the code left to do will give    *)
(* back.  So at the end of a handler, where iret sets FL_IF, ncli is 0 and *)
(* the CPU has no lock; sched() and the scheduler exchange contexts that   *)
(* both have to give back one lock, so the count survives the switch.      *)
(* Given the count (IInv), code that is legal when run alone stays legal   *)
(* for the locks its CPU has (LegalInv): others do not touch those, and    *)
(* handlers and switches begin and end with none, or with ptable.lock.     *)
(***************************************************************************)
EXTENDS SpinLock, TLAPS, FiniteSetTheorems, WellFoundedInduction

(* pushcli() without a lock, and an acquire() whose pushcli() is done. *)
Extra(c) == IF step[c] \in {"holding", "xchg", "popcli"} THEN 1 ELSE 0
Pending(c) == IF step[c] \in {"holding", "xchg", "own"} THEN 1 ELSE 0

(* What holds of each CPU. *)
CpuInv(c) ==
  /\ run[c] \in Threads \cup {c}
  /\ fl_if[c] => ncli[c] = 0
  /\ IsFiniteSet(held[c]) /\ ncli[c] = Cardinality(held[c]) + Extra(c)
  /\ ncli[c] = Net(todo[run[c]]) + Pending(c)
  /\ run[c] # c => todo[c] = <<Rel(ptable)>>
  /\ step[c] \in {"own", "unlock"} => todo[run[c]] # <<>> /\ Lk(c) \in held[c]
  /\ step[c] = "unlock" => lkcpu[Lk(c)] # c

(* lk->locked and lk->cpu tell the truth about who has the lock. *)
Owned ==
  /\ \A c \in Cpus : \A l \in held[c] : locked[l]
  /\ \A c \in Cpus, l \in Locks : lkcpu[l] = c => l \in held[c]

(* No context is on two CPUs; one that is on none has ptable.lock to give back. *)
Suspended ==
  /\ \A c, d \in Cpus : c # d => run[c] # run[d]
  /\ \A t \in Threads : Idle(t) => Net(todo[t]) = 1

(* Interrupted code was between operations, and had no lock. *)
Interrupted ==
  \A x \in Contexts : \A i \in 1 .. Len(below[x]) :
    below[x][i].step = "ready" /\ Net(below[x][i].todo) = 0

(* The inductive invariant. *)
IInv ==
  /\ TypeOK
  /\ \A c \in Cpus : CpuInv(c)
  /\ Owned
  /\ MutualExclusion
  /\ Suspended
  /\ Interrupted

-----------------------------------------------------------------------------
(* The places of an operation are finitely many. *)
LEMMA MarksFinite ==
  ASSUME NEW code \in Seq(Ops), NEW o
  PROVE  IsFiniteSet(Marks(code, o)) /\ Cardinality(Marks(code, o)) \in Nat
<1>1. IsFiniteSet(1 .. Len(code))
  BY FS_Interval
<1>2. Marks(code, o) \subseteq 1 .. Len(code)
  BY Zenon DEF Marks
<1> QED  BY <1>1, <1>2, FS_Subset, FS_CardinalityType, Zenon

LEMMA NetInt ==
  ASSUME NEW code \in Seq(Ops)
  PROVE  Net(code) \in Int
BY MarksFinite DEF Net

LEMMA NetEmpty == Net(<<>>) = 0
<1>1. Marks(<<>>, "release") = {} /\ Marks(<<>>, "acquire") = {}
  BY DEF Marks
<1>2. Cardinality({}) = 0
  BY FS_EmptySet, Zenon
<1>3. Net(<<>>) = Cardinality({}) - Cardinality({})
  BY <1>1, Zenon DEF Net
<1> QED  BY <1>2, <1>3

(* One operation done is one place less. *)
LEMMA MarksTail ==
  ASSUME NEW code \in Seq(Ops), code # <<>>, NEW o
  PROVE  Cardinality(Marks(code, o))
           = Cardinality(Marks(Tail(code), o)) + (IF Head(code).op = o THEN 1 ELSE 0)
<1> DEFINE M == Marks(code, o)
           later == M \ {1}
           T == Marks(Tail(code), o)
           f == [i \in T |-> i + 1]
<1>1. /\ Tail(code) \in Seq(Ops) /\ Len(Tail(code)) = Len(code) - 1
      /\ \A i \in 1 .. Len(Tail(code)) : Tail(code)[i] = code[i + 1]
      /\ Len(code) \in Nat /\ Len(code) >= 1 /\ Head(code) = code[1]
  OBVIOUS
<1>2. f \in Bijection(T, later)
  <2>1. ASSUME NEW i \in T  PROVE i + 1 \in later /\ i \in Nat
    BY <1>1 DEF Marks
  <2>2. ASSUME NEW j \in later  PROVE \E i \in T : i + 1 = j
    <3>1. j \in 2 .. Len(code) /\ code[j].op = o
      BY <1>1 DEF Marks
    <3>2. j - 1 \in T
      BY <1>1, <3>1 DEF Marks
    <3> QED  BY <3>1, <3>2
  <2> HIDE DEF T, later
  <2>3. f \in [T -> later]
    BY <2>1, Zenon
  <2>4. \A a, b \in T : f[a] = f[b] => a = b
    BY <2>1
  <2>5. \A j \in later : \E i \in T : f[i] = j
    BY <2>2, Zenon
  <2> QED  BY <2>3, <2>4, <2>5, Zenon DEF Bijection, Injection, Surjection, IsInjective
<1>3. IsFiniteSet(M) /\ IsFiniteSet(T) /\ Cardinality(M) \in Nat /\ Cardinality(T) \in Nat
  BY <1>1, MarksFinite, Zenon
<1>4. Cardinality(T) = Cardinality(later)
  <2> HIDE DEF T, later, f, M
  <2>1. ExistsBijection(T, later)
    BY <1>2, Zenon DEF ExistsBijection
  <2> QED  BY <1>3, <2>1, FS_Bijection, Zenon
<1>5. 1 \in M <=> Head(code).op = o
  BY <1>1 DEF Marks
<1>6. Cardinality(later) = IF 1 \in M THEN Cardinality(M) - 1 ELSE Cardinality(M)
  <2> HIDE DEF M
  <2> QED  BY <1>3, FS_RemoveElement, Zenon
<1> HIDE DEF T, M, later
<1> QED  BY <1>3, <1>4, <1>5, <1>6 DEF M, T

LEMMA NetTail ==
  ASSUME NEW code \in Seq(Ops), code # <<>>
  PROVE  Net(code) = Net(Tail(code)) + (IF Head(code).op = "release" THEN 1 ELSE 0)
                                     - (IF Head(code).op = "acquire" THEN 1 ELSE 0)
<1>1. Tail(code) \in Seq(Ops)
  OBVIOUS
<1> DEFINE n(s, o) == Cardinality(Marks(s, o))
<1>2. /\ n(code, "release") = n(Tail(code), "release")
                               + (IF Head(code).op = "release" THEN 1 ELSE 0)
      /\ n(code, "acquire") = n(Tail(code), "acquire")
                               + (IF Head(code).op = "acquire" THEN 1 ELSE 0)
  BY MarksTail, Zenon
<1>3. /\ n(Tail(code), "release") \in Nat /\ n(Tail(code), "acquire") \in Nat
      /\ Net(code) = n(code, "release") - n(code, "acquire")
      /\ Net(Tail(code)) = n(Tail(code), "release") - n(Tail(code), "acquire")
  BY <1>1, MarksFinite, Zenon DEF Net
<1> HIDE DEF n
<1> QED  BY <1>2, <1>3

(* The code that forkret() and the scheduler have left gives back one lock. *)
LEMMA NetRel == <<Rel(ptable)>> \in Seq(Ops) /\ Net(<<Rel(ptable)>>) = 1
<1>1. Rel(ptable) \in Ops /\ Rel(ptable).op = "release"
  BY SpinAssumption, Zenon DEF Rel, Ops
<1> DEFINE code == <<Rel(ptable)>>
<1>2. code \in Seq(Ops) /\ code # <<>> /\ Head(code) = Rel(ptable) /\ Tail(code) = <<>>
  BY <1>1
<1> HIDE DEF code
<1>3. Net(code) = 1
  <2>1. Net(code) = Net(<<>>) + (IF Rel(ptable).op = "release" THEN 1 ELSE 0)
                              - (IF Rel(ptable).op = "acquire" THEN 1 ELSE 0)
    BY <1>2, NetTail, Zenon
  <2> QED  BY <1>1, <2>1, NetEmpty
<1> QED  BY <1>2, <1>3, Zenon DEF code

-----------------------------------------------------------------------------
LEMMA InitOK == Init => IInv
<1> SUFFICES ASSUME Init PROVE IInv
  OBVIOUS
<1>0. Rel(ptable) \in Ops /\ forkret \in Seq(Ops) /\ Net(forkret) = 1 /\ Net(<<>>) = 0
  <2>1. Rel(ptable) \in Ops
    BY SpinAssumption, Zenon DEF Rel, Ops
  <2> QED  BY <2>1, NetRel, NetEmpty, Zenon DEF forkret
<1>1. TypeOK
  <2>1. todo \in [Contexts -> Seq(Ops)]
    BY <1>0 DEF Init
  <2>2. below \in [Contexts -> Seq(Frames)]
    <3>1. User("fork") \in Frames
      BY DEF User, Frames, Steps, Gates
    <3> QED  BY <3>1 DEF Init
  <2>3. ncli \in [Cpus -> Nat] /\ held \in [Cpus -> SUBSET Locks]
    BY Zenon DEF Init
  <2>4. run \in [Cpus -> Contexts] /\ step \in [Cpus -> Steps]
    BY Zenon DEF Init, Contexts, Steps
  <2>5. /\ locked \in [Locks -> BOOLEAN] /\ fl_if \in [Cpus -> BOOLEAN]
        /\ intena \in [Cpus -> BOOLEAN] /\ saved \in [Threads -> BOOLEAN]
        /\ panicked \in BOOLEAN
    BY Zenon DEF Init
  <2>6. lkcpu \in [Locks -> Cpus \cup {NoCpu}] /\ fresh \subseteq Threads
    BY Zenon DEF Init
  <2> QED  BY <2>1, <2>2, <2>3, <2>4, <2>5, <2>6, Zenon DEF TypeOK
<1>2. ASSUME NEW c \in Cpus  PROVE CpuInv(c)
  <2>1. c \in Contexts /\ c \notin Threads
    BY SpinAssumption, Zenon DEF Contexts
  <2>2. run[c] = c /\ ncli[c] = 0 /\ held[c] = {} /\ step[c] = "ready" /\ todo[c] = <<>>
    BY <2>1, Zenon DEF Init
  <2>3. IsFiniteSet(held[c]) /\ Cardinality(held[c]) = 0
    BY <2>2, FS_EmptySet, Zenon
  <2>4. Net(todo[run[c]]) = 0
    BY <1>0, <2>2, Zenon
  <2> QED  BY <2>2, <2>3, <2>4 DEF CpuInv, Extra, Pending
<1>3. Owned
  BY BalanceAssumption, Zenon DEF Init, Owned
<1>4. MutualExclusion
  BY Zenon DEF Init, MutualExclusion
<1>5. Suspended
  BY <1>0, Zenon DEF Init, Suspended, Contexts
<1>6. Interrupted
  <2> SUFFICES ASSUME NEW x \in Contexts, NEW i \in 1 .. Len(below[x])
               PROVE  below[x][i].step = "ready" /\ Net(below[x][i].todo) = 0
    BY Zenon DEF Interrupted
  <2>1. below[x] = <<User("fork")>>
    BY DEF Init
  <2>2. below[x][i] = User("fork")
    BY <2>1
  <2>3. below[x][i].step = "ready" /\ below[x][i].todo = <<>>
    BY <2>2 DEF User
  <2> QED  BY <1>0, <2>3, Zenon
<1> QED  BY <1>1, <1>2, <1>3, <1>4, <1>5, <1>6, Zenon DEF IInv

(* What CPU c does leaves the other CPUs' part of the invariant alone. *)
LEMMA Elsewhere ==
  ASSUME IInv, NEW c \in Cpus, NEW d \in Cpus, d # c,
         run'[d] = run[d], fl_if'[d] = fl_if[d], ncli'[d] = ncli[d],
         held'[d] = held[d], step'[d] = step[d],
         \A x \in Contexts : x # run[c] => todo'[x] = todo[x],
         \A l \in Locks : lkcpu'[l] = lkcpu[l] \/ lkcpu'[l] \in {c, NoCpu}
  PROVE  CpuInv(d)'
<1>1. CpuInv(d) /\ CpuInv(c) /\ run[c] # run[d]
  BY Zenon DEF IInv, Suspended
<1>2. d \notin Threads /\ d \in Contexts /\ run[d] \in Contexts
  BY <1>1, SpinAssumption, Zenon DEF CpuInv, Contexts
<1>3. todo'[run'[d]] = todo[run[d]] /\ todo'[d] = todo[d]
  BY <1>1, <1>2, Zenon DEF CpuInv
<1>4. Lk(d)' = Lk(d)
  BY <1>3, Zenon DEF Lk
<1>5. step[d] = "unlock" => lkcpu'[Lk(d)] # d
  <2>1. step[d] = "unlock" => Lk(d) \in Locks
    BY <1>1, Zenon DEF CpuInv, IInv, TypeOK
  <2> QED  BY <1>1, <2>1, BalanceAssumption, Zenon DEF CpuInv
<1> QED  BY <1>1, <1>3, <1>4, <1>5, Zenon DEF CpuInv, Extra, Pending

(* The types of what CPU c is at. *)
LEMMA Here ==
  ASSUME IInv, NEW c \in Cpus
  PROVE  /\ run[c] \in Contexts /\ c \in Contexts /\ c \notin Threads
         /\ todo[run[c]] \in Seq(Ops) /\ Net(todo[run[c]]) \in Int
         /\ ncli[c] \in Nat /\ IsFiniteSet(held[c]) /\ Cardinality(held[c]) \in Nat
         /\ todo[run[c]] # <<>> => Tail(todo[run[c]]) \in Seq(Ops) /\ Lk(c) \in Locks
<1>1. run[c] \in Contexts /\ c \in Contexts /\ c \notin Threads
  BY SpinAssumption, Zenon DEF IInv, TypeOK, Contexts
<1>2. todo[run[c]] \in Seq(Ops) /\ ncli[c] \in Nat
  BY <1>1, Zenon DEF IInv, TypeOK
<1>3. Net(todo[run[c]]) \in Int
  BY <1>2, NetInt, Zenon
<1>4. IsFiniteSet(held[c]) /\ Cardinality(held[c]) \in Nat
  BY FS_CardinalityType, Zenon DEF IInv, CpuInv
<1>5. ASSUME todo[run[c]] # <<>>
      PROVE  Tail(todo[run[c]]) \in Seq(Ops) /\ Lk(c) \in Locks
  <2>1. Tail(todo[run[c]]) \in Seq(Ops) /\ Head(todo[run[c]]) \in Ops
    BY <1>2, <1>5
  <2> QED  BY <2>1, Zenon DEF Lk, Ops
<1> QED  BY <1>1, <1>2, <1>3, <1>4, <1>5, Zenon

(* ncli, read off the step that CPU c is at. *)
LEMMA Counts ==
  ASSUME IInv, NEW c \in Cpus
  PROVE  LET n == Cardinality(held[c])
             m == Net(todo[run[c]])
         IN  /\ step[c] = "ready" => ncli[c] = n /\ ncli[c] = m
             /\ step[c] = "popcli" => n = ncli[c] - 1 /\ ncli[c] = m
             /\ ncli[c] = 0 => n = 0 /\ held[c] = {} /\ step[c] = "ready" /\ m = 0
<1> DEFINE n == Cardinality(held[c])
           m == Net(todo[run[c]])
<1>1. n \in Nat /\ m \in Int /\ ncli[c] \in Nat /\ IsFiniteSet(held[c])
  BY Here, Zenon
<1>2. ncli[c] = n + Extra(c) /\ ncli[c] = m + Pending(c)
  BY Zenon DEF IInv, CpuInv
<1>3. step[c] \in {"own", "unlock"} => held[c] # {}
  BY Zenon DEF IInv, CpuInv
<1>4. step[c] \in Steps
  BY Zenon DEF IInv, TypeOK
<1>5. n = 0 => held[c] = {}
  BY <1>1, FS_EmptySet, Zenon
<1> HIDE DEF n, m
<1>6. step[c] = "ready" => ncli[c] = n /\ ncli[c] = m
  <2>1. step[c] = "ready" => Extra(c) = 0 /\ Pending(c) = 0
    BY Zenon DEF Extra, Pending
  <2> QED  BY <1>1, <1>2, <2>1
<1>7. step[c] = "popcli" => n = ncli[c] - 1 /\ ncli[c] = m
  <2>1. step[c] = "popcli" => Extra(c) = 1 /\ Pending(c) = 0
    BY Zenon DEF Extra, Pending
  <2> QED  BY <1>1, <1>2, <2>1
<1>8. ASSUME ncli[c] = 0
      PROVE  n = 0 /\ held[c] = {} /\ step[c] = "ready" /\ m = 0
  <2>1. Extra(c) \in {0, 1}
    BY Zenon DEF Extra
  <2>2. n = 0 /\ Extra(c) = 0
    BY <1>1, <1>2, <1>8, <2>1
  <2>3. held[c] = {}
    BY <1>5, <2>2, Zenon
  <2>4. step[c] \notin {"holding", "xchg", "popcli"}
    BY <2>2 DEF Extra
  <2>5. step[c] = "ready"
    BY <1>3, <1>4, <2>3, <2>4, Zenon DEF Steps
  <2> QED  BY <1>6, <1>8, <2>2, <2>3, <2>5, Zenon
<1>9. /\ step[c] = "ready" => ncli[c] = n /\ ncli[c] = m
      /\ step[c] = "popcli" => n = ncli[c] - 1 /\ ncli[c] = m
      /\ ncli[c] = 0 => n = 0 /\ held[c] = {} /\ step[c] = "ready" /\ m = 0
  BY <1>6, <1>7, <1>8, Zenon
<1> QED  BY <1>9, Zenon DEF n, m

(* What doing the first operation does to the locks left to give back. *)
LEMMA HereNext ==
  ASSUME IInv, NEW c \in Cpus, todo[run[c]] # <<>>
  PROVE  LET code == todo[run[c]]
         IN  /\ Net(Tail(code)) \in Int
             /\ Head(code).op = "acquire" => Net(Tail(code)) = Net(code) + 1
             /\ Head(code).op = "release" => Net(Tail(code)) = Net(code) - 1
             /\ Head(code).op = "sched" => Net(Tail(code)) = Net(code)
<1> DEFINE code == todo[run[c]]
           o == Head(code).op
<1>1. code \in Seq(Ops) /\ Tail(code) \in Seq(Ops) /\ code # <<>>
  BY Here, Zenon
<1> HIDE DEF code
<1>2. Net(code) \in Int /\ Net(Tail(code)) \in Int
  BY <1>1, NetInt, Zenon
<1>3. Net(code) = Net(Tail(code)) + (IF o = "release" THEN 1 ELSE 0)
                                  - (IF o = "acquire" THEN 1 ELSE 0)
  BY <1>1, NetTail, Zenon
<1> HIDE DEF o
<1>4. /\ Net(Tail(code)) \in Int
      /\ o = "acquire" => Net(Tail(code)) = Net(code) + 1
      /\ o = "release" => Net(Tail(code)) = Net(code) - 1
      /\ o = "sched" => Net(Tail(code)) = Net(code)
  BY <1>2, <1>3
<1> QED  BY <1>4, Zenon DEF o, code

(* Steps that only move CPU c on inside an operation, or panic. *)
LEMMA Same ==
  ASSUME IInv, UNCHANGED <<locked, lkcpu, fl_if, ncli, intena, run, step, todo,
                           below, saved, fresh, held>>, panicked' \in BOOLEAN
  PROVE  IInv'
BY DEF IInv, TypeOK, CpuInv, Extra, Pending, Lk, Owned, MutualExclusion, Suspended, Idle,
       Interrupted

LEMMA AcquireOK ==
  ASSUME IInv, NEW c \in Cpus, acquire(c)
  PROVE  IInv'
<1>1. /\ step[c] = "ready" /\ todo[run[c]] # <<>>
      /\ fl_if' = [fl_if EXCEPT ![c] = FALSE]
      /\ intena' = [intena EXCEPT ![c] = IF ncli[c] = 0 THEN fl_if[c] ELSE @]
      /\ ncli' = [ncli EXCEPT ![c] = @ + 1]
      /\ step' = [step EXCEPT ![c] = "holding"]
      /\ UNCHANGED <<locked, lkcpu, run, todo, below, saved, fresh, held, panicked>>
  BY Zenon DEF acquire, Doing, pushcli, Goes
<1>2. TypeOK'
  <2>1. fl_if' \in [Cpus -> BOOLEAN] /\ ncli' \in [Cpus -> Nat] /\ step' \in [Cpus -> Steps]
    BY <1>1 DEF IInv, TypeOK, Steps
  <2>2. intena' \in [Cpus -> BOOLEAN]
    <3>1. (IF ncli[c] = 0 THEN fl_if[c] ELSE intena[c]) \in BOOLEAN
      BY Zenon DEF IInv, TypeOK
    <3> QED  BY <1>1, <3>1, Zenon DEF IInv, TypeOK
  <2> QED  BY <1>1, <2>1, <2>2, Zenon DEF IInv, TypeOK
<1>3. ASSUME NEW d \in Cpus  PROVE CpuInv(d)'
  <2>1. CASE d = c
    <3>1. /\ fl_if'[c] = FALSE /\ ncli'[c] = ncli[c] + 1 /\ step'[c] = "holding"
      BY <1>1, Zenon DEF IInv, TypeOK
    <3>2. CpuInv(c)
      BY Zenon DEF IInv
    <3> QED  BY <1>1, <2>1, <3>1, <3>2, Here DEF CpuInv, Extra, Pending
  <2>2. CASE d # c
    BY <1>1, <2>2, Elsewhere, Zenon DEF IInv, TypeOK
  <2> QED  BY <2>1, <2>2, Zenon
<1>4. Owned' /\ MutualExclusion' /\ Suspended' /\ Interrupted'
  BY <1>1, Zenon DEF IInv, Owned, MutualExclusion, Suspended, Idle, Interrupted
<1> QED  BY <1>2, <1>3, <1>4, Zenon DEF IInv

LEMMA AcquireTestOK ==
  ASSUME IInv, NEW c \in Cpus, acquire_test(c)
  PROVE  IInv'
<1>1. CASE panic
  BY <1>1, Same, Zenon DEF panic
<1>2. CASE ~panic
  <2>1. /\ step[c] = "holding" /\ step' = [step EXCEPT ![c] = "xchg"]
        /\ UNCHANGED <<locked, lkcpu, fl_if, ncli, intena, run, todo, below, saved,
                       fresh, held, panicked>>
    BY <1>2, Zenon DEF acquire_test, Doing, Goes
  <2>2. TypeOK'
    BY <2>1, Zenon DEF IInv, TypeOK, Steps
  <2>3. ASSUME NEW d \in Cpus  PROVE CpuInv(d)'
    <3>1. CASE d = c
      <4>1. step'[c] = "xchg" /\ CpuInv(c)
        BY <2>1, Zenon DEF IInv, TypeOK
      <4> QED  BY <2>1, <3>1, <4>1, Zenon DEF CpuInv, Extra, Pending
    <3>2. CASE d # c
      BY <2>1, <3>2, Elsewhere, Zenon DEF IInv, TypeOK
    <3> QED  BY <3>1, <3>2, Zenon
  <2>4. Owned' /\ MutualExclusion' /\ Suspended' /\ Interrupted'
    BY <2>1, Zenon DEF IInv, Owned, MutualExclusion, Suspended, Idle, Interrupted
  <2> QED  BY <2>2, <2>3, <2>4, Zenon DEF IInv
<1> QED  BY <1>1, <1>2, Zenon

(* The exchange finds the lock free, so nobody has it. *)
LEMMA XchgOK ==
  ASSUME IInv, NEW c \in Cpus, xchg(c)
  PROVE  IInv'
<1> DEFINE l == Lk(c)
<1>1. /\ step[c] = "xchg" /\ todo[run[c]] # <<>> /\ ~locked[l]
      /\ locked' = [locked EXCEPT ![l] = TRUE]
      /\ held' = [held EXCEPT ![c] = @ \cup {l}]
      /\ step' = [step EXCEPT ![c] = "own"]
      /\ UNCHANGED <<lkcpu, fl_if, ncli, intena, run, todo, below, saved, fresh,
                     panicked>>
  BY Zenon DEF xchg, Doing, Goes
<1>2. l \in Locks
  BY <1>1, Here, Zenon
<1>3. Lk(c)' = l
  BY <1>1, Zenon DEF Lk
<1> HIDE DEF l
<1>4. /\ held'[c] = held[c] \cup {l} /\ step'[c] = "own"
      /\ \A d \in Cpus : d # c => held'[d] = held[d]
      /\ locked'[l] /\ \A k \in Locks : locked[k] => locked'[k]
  BY <1>1, <1>2, Zenon DEF IInv, TypeOK
<1>5. \A d \in Cpus : l \notin held[d]
  BY <1>1, Zenon DEF IInv, Owned
<1>6. TypeOK'
  <2>1. locked' \in [Locks -> BOOLEAN]
    BY <1>1, <1>2, Zenon DEF IInv, TypeOK
  <2>2. held' \in [Cpus -> SUBSET Locks]
    BY <1>1, <1>2, Zenon DEF IInv, TypeOK
  <2>3. step' \in [Cpus -> Steps]
    BY <1>1, Zenon DEF IInv, TypeOK, Steps
  <2> QED  BY <1>1, <2>1, <2>2, <2>3, Zenon DEF IInv, TypeOK
<1>7. ASSUME NEW d \in Cpus  PROVE CpuInv(d)'
  <2>1. CASE d = c
    <3>1. CpuInv(c)
      BY Zenon DEF IInv
    <3>2. IsFiniteSet(held'[c]) /\ Cardinality(held'[c]) = Cardinality(held[c]) + 1
      <4>1. IsFiniteSet(held[c]) /\ l \notin held[c]
        BY <1>5, Here, Zenon
      <4>2. IsFiniteSet(held[c] \cup {l}) /\ Cardinality(held[c] \cup {l}) = Cardinality(held[c]) + 1
        BY <4>1, FS_AddElement, Zenon
      <4> QED  BY <1>4, <4>2, Zenon
    <3>3. l \in held'[c]
      BY <1>4, Zenon
    <3> QED  BY <1>1, <1>3, <1>4, <2>1, <3>1, <3>2, <3>3, Here DEF CpuInv, Extra, Pending
  <2>2. CASE d # c
    BY <1>1, <1>4, <2>2, Elsewhere, Zenon DEF IInv, TypeOK
  <2> QED  BY <2>1, <2>2, Zenon
<1>8. Owned'
  <2>1. \A d \in Cpus : held[d] \subseteq Locks
    BY Zenon DEF IInv, TypeOK
  <2>2. \A d \in Cpus : \A k \in held'[d] : locked'[k]
    BY <1>4, <2>1, Zenon DEF IInv, Owned
  <2>3. \A d \in Cpus, k \in Locks : lkcpu'[k] = d => k \in held'[d]
    BY <1>1, <1>4, Zenon DEF IInv, Owned
  <2> QED  BY <2>2, <2>3, Zenon DEF Owned
<1>9. MutualExclusion'
  BY <1>4, <1>5 DEF IInv, MutualExclusion
<1>10. Suspended' /\ Interrupted'
  BY <1>1, Zenon DEF IInv, Suspended, Idle, Interrupted
<1> QED  BY <1>6, <1>7, <1>8, <1>9, <1>10, Zenon DEF IInv

(* Code on a CPU goes on: whoever is on none stays as it is. *)
LEMMA StillSuspended ==
  ASSUME IInv, NEW c \in Cpus, UNCHANGED run,
         \A x \in Contexts : x # run[c] => todo'[x] = todo[x]
  PROVE  Suspended'
<1>1. \A t \in Threads : Idle(t) => t \in Contexts /\ t # run[c]
  BY Zenon DEF Idle, Contexts
<1> QED  BY <1>1, Zenon DEF IInv, Suspended, Idle

LEMMA AcquireOwnOK ==
  ASSUME IInv, NEW c \in Cpus, acquire_own(c)
  PROVE  IInv'
<1> DEFINE l == Lk(c)
           x == run[c]
<1>1. /\ step[c] = "own" /\ todo[x] # <<>> /\ Head(todo[x]).op = "acquire"
      /\ lkcpu' = [lkcpu EXCEPT ![l] = c]
      /\ todo' = [todo EXCEPT ![x] = Tail(@)]
      /\ step' = [step EXCEPT ![c] = "ready"]
      /\ UNCHANGED <<locked, fl_if, ncli, intena, run, below, saved, fresh, held,
                     panicked>>
  BY Zenon DEF acquire_own, Doing, Ends, Goes
<1>2. l \in Locks /\ x \in Contexts /\ todo[x] \in Seq(Ops) /\ Tail(todo[x]) \in Seq(Ops)
  BY <1>1, Here, Zenon
<1>3. Net(Tail(todo[x])) = Net(todo[x]) + 1
  BY <1>1, HereNext, Zenon
<1>4. l \in held[c]
  BY <1>1, Zenon DEF IInv, CpuInv
<1> HIDE DEF l, x
<1>5. /\ lkcpu'[l] = c /\ \A k \in Locks : k # l => lkcpu'[k] = lkcpu[k]
      /\ todo'[x] = Tail(todo[x]) /\ \A y \in Contexts : y # x => todo'[y] = todo[y]
      /\ step'[c] = "ready" /\ \A d \in Cpus : d # c => step'[d] = step[d]
  BY <1>1, <1>2, Zenon DEF IInv, TypeOK
<1>6. TypeOK'
  <2>1. lkcpu' \in [Locks -> Cpus \cup {NoCpu}]
    BY <1>1, <1>2, Zenon DEF IInv, TypeOK
  <2>2. todo' \in [Contexts -> Seq(Ops)]
    BY <1>1, <1>2, Zenon DEF IInv, TypeOK
  <2>3. step' \in [Cpus -> Steps]
    BY <1>1, Zenon DEF IInv, TypeOK, Steps
  <2> QED  BY <1>1, <2>1, <2>2, <2>3, Zenon DEF IInv, TypeOK
<1>7. ASSUME NEW d \in Cpus  PROVE CpuInv(d)'
  <2>1. CASE d = c
    <3>1. CpuInv(c) /\ run'[c] = x /\ x = run[c]
      BY <1>1, Zenon DEF IInv, x
    <3>2. run[c] # c => todo'[c] = <<Rel(ptable)>>
      BY <1>5, <3>1, Here, Zenon DEF CpuInv
    <3>3. ncli'[c] = Net(todo'[run'[c]])
      BY <1>1, <1>3, <1>5, <3>1, Here, Zenon DEF CpuInv, Pending
    <3> QED  BY <1>1, <1>5, <2>1, <3>1, <3>2, <3>3, Here DEF CpuInv, Extra, Pending
  <2>2. CASE d # c
    BY <1>1, <1>5, <2>2, Elsewhere DEF x
  <2> QED  BY <2>1, <2>2, Zenon
<1>8. Owned' /\ MutualExclusion'
  BY <1>1, <1>4, <1>5 DEF IInv, Owned, MutualExclusion
<1>9. Suspended' /\ Interrupted'
  BY <1>1, <1>5, StillSuspended, Zenon DEF IInv, Interrupted, x
<1> QED  BY <1>6, <1>7, <1>8, <1>9, Zenon DEF IInv

LEMMA ReleaseOK ==
  ASSUME IInv, NEW c \in Cpus, release(c)
  PROVE  IInv'
<1>1. CASE panic
  BY <1>1, Same, Zenon DEF panic
<1>2. CASE ~panic
  <2> DEFINE l == Lk(c)
  <2>1. /\ step[c] = "ready" /\ todo[run[c]] # <<>> /\ lkcpu[l] = c
        /\ lkcpu' = [lkcpu EXCEPT ![l] = NoCpu]
        /\ step' = [step EXCEPT ![c] = "unlock"]
        /\ UNCHANGED <<locked, fl_if, ncli, intena, run, todo, below, saved, fresh,
                       held, panicked>>
    BY <1>2, Zenon DEF release, Doing, Goes, holding
  <2>2. l \in Locks /\ Lk(c)' = l
    BY <2>1, Here, Zenon DEF Lk
  <2>3. l \in held[c]
    BY <2>1, <2>2, Zenon DEF IInv, Owned
  <2> HIDE DEF l
  <2>4. /\ lkcpu'[l] = NoCpu /\ \A k \in Locks : k # l => lkcpu'[k] = lkcpu[k]
        /\ step'[c] = "unlock" /\ \A d \in Cpus : d # c => step'[d] = step[d]
    BY <2>1, <2>2, Zenon DEF IInv, TypeOK
  <2>5. TypeOK'
    <3>1. lkcpu' \in [Locks -> Cpus \cup {NoCpu}]
      BY <2>1, <2>2, Zenon DEF IInv, TypeOK
    <3>2. step' \in [Cpus -> Steps]
      BY <2>1, Zenon DEF IInv, TypeOK, Steps
    <3> QED  BY <2>1, <3>1, <3>2, Zenon DEF IInv, TypeOK
  <2>6. ASSUME NEW d \in Cpus  PROVE CpuInv(d)'
    <3>1. CASE d = c
      <4>1. CpuInv(c) /\ NoCpu # c
        BY BalanceAssumption, Zenon DEF IInv
      <4> QED  BY <2>1, <2>2, <2>3, <2>4, <3>1, <4>1, Zenon DEF CpuInv, Extra, Pending
    <3>2. CASE d # c
      BY <2>1, <2>4, <3>2, Elsewhere
    <3> QED  BY <3>1, <3>2, Zenon
  <2>7. Owned' /\ MutualExclusion'
    BY <2>1, <2>2, <2>4, BalanceAssumption DEF IInv, Owned, MutualExclusion
  <2>8. Suspended' /\ Interrupted'
    BY <2>1, Zenon DEF IInv, Suspended, Idle, Interrupted
  <2> QED  BY <2>5, <2>6, <2>7, <2>8, Zenon DEF IInv
<1> QED  BY <1>1, <1>2, Zenon

(* The store frees a lock that this CPU has, and therefore no other. *)
LEMMA ReleaseStoreOK ==
  ASSUME IInv, NEW c \in Cpus, release_store(c)
  PROVE  IInv'
<1> DEFINE l == Lk(c)
<1>1. /\ step[c] = "unlock" /\ todo[run[c]] # <<>>
      /\ locked' = [locked EXCEPT ![l] = FALSE]
      /\ held' = [held EXCEPT ![c] = @ \ {l}]
      /\ step' = [step EXCEPT ![c] = "popcli"]
      /\ UNCHANGED <<lkcpu, fl_if, ncli, intena, run, todo, below, saved, fresh,
                     panicked>>
  BY Zenon DEF release_store, Doing, Goes
<1>2. l \in Locks /\ l \in held[c] /\ lkcpu[l] # c
  BY <1>1, Here, Zenon DEF IInv, CpuInv
<1> HIDE DEF l
<1>3. /\ held'[c] = held[c] \ {l} /\ step'[c] = "popcli"
      /\ \A d \in Cpus : d # c => held'[d] = held[d] /\ step'[d] = step[d]
      /\ \A k \in Locks : k # l => locked'[k] = locked[k]
  BY <1>1, <1>2, Zenon DEF IInv, TypeOK
<1>4. TypeOK'
  <2>1. locked' \in [Locks -> BOOLEAN]
    BY <1>1, <1>2, Zenon DEF IInv, TypeOK
  <2>2. held' \in [Cpus -> SUBSET Locks]
    BY <1>1, <1>2, Zenon DEF IInv, TypeOK
  <2>3. step' \in [Cpus -> Steps]
    BY <1>1, Zenon DEF IInv, TypeOK, Steps
  <2> QED  BY <1>1, <2>1, <2>2, <2>3, Zenon DEF IInv, TypeOK
<1>5. ASSUME NEW d \in Cpus  PROVE CpuInv(d)'
  <2>1. CASE d = c
    <3>1. CpuInv(c)
      BY Zenon DEF IInv
    <3>2. IsFiniteSet(held'[c]) /\ Cardinality(held'[c]) = Cardinality(held[c]) - 1
      <4>1. IsFiniteSet(held[c])
        BY Here, Zenon
      <4>2. IsFiniteSet(held[c] \ {l}) /\ Cardinality(held[c] \ {l}) = Cardinality(held[c]) - 1
        BY <1>2, <4>1, FS_RemoveElement, Zenon
      <4> QED  BY <1>3, <4>2, Zenon
    <3> QED  BY <1>1, <1>3, <2>1, <3>1, <3>2, Here DEF CpuInv, Extra, Pending
  <2>2. CASE d # c
    BY <1>1, <1>3, <2>2, Elsewhere, Zenon
  <2> QED  BY <2>1, <2>2, Zenon
<1>6. Owned'
  <2>1. \A d \in Cpus : held[d] \subseteq Locks
    BY Zenon DEF IInv, TypeOK
  <2>2. \A d \in Cpus : d # c => l \notin held[d]
    BY <1>2, Zenon DEF IInv, MutualExclusion
  <2>3. \A d \in Cpus : \A k \in held'[d] : locked'[k]
    BY <1>3, <2>1, <2>2 DEF IInv, Owned
  <2>4. \A d \in Cpus, k \in Locks : lkcpu'[k] = d => k \in held'[d]
    BY <1>1, <1>2, <1>3, Zenon DEF IInv, Owned
  <2> QED  BY <2>3, <2>4, Zenon DEF Owned
<1>7. MutualExclusion'
  BY <1>3, Zenon DEF IInv, MutualExclusion
<1>8. Suspended' /\ Interrupted'
  BY <1>1, Zenon DEF IInv, Suspended, Idle, Interrupted
<1> QED  BY <1>4, <1>5, <1>6, <1>7, <1>8, Zenon DEF IInv

LEMMA PopcliOK ==
  ASSUME IInv, NEW c \in Cpus, popcli(c)
  PROVE  IInv'
<1>1. CASE panic
  BY <1>1, Same, Zenon DEF panic
<1>2. CASE ~panic
  <2> DEFINE x == run[c]
  <2>1. /\ step[c] = "popcli" /\ todo[x] # <<>> /\ Head(todo[x]).op = "release"
        /\ ~fl_if[c] /\ ncli[c] >= 1
        /\ ncli' = [ncli EXCEPT ![c] = @ - 1]
        /\ fl_if' = [fl_if EXCEPT ![c] = ncli[c] = 1 /\ intena[c]]
        /\ todo' = [todo EXCEPT ![x] = Tail(@)]
        /\ step' = [step EXCEPT ![c] = "ready"]
        /\ UNCHANGED <<locked, lkcpu, intena, run, below, saved, fresh, held, panicked>>
    BY <1>2, Zenon DEF popcli, Doing, Ends, Goes
  <2>2. x \in Contexts /\ Tail(todo[x]) \in Seq(Ops) /\ ncli[c] \in Nat
    BY <2>1, Here, Zenon
  <2>3. Net(Tail(todo[x])) = Net(todo[x]) - 1
    BY <2>1, HereNext, Zenon
  <2> HIDE DEF x
  <2>4. /\ ncli'[c] = ncli[c] - 1 /\ (fl_if'[c] => ncli[c] = 1)
        /\ todo'[x] = Tail(todo[x]) /\ \A y \in Contexts : y # x => todo'[y] = todo[y]
        /\ step'[c] = "ready"
        /\ \A d \in Cpus : d # c =>
             step'[d] = step[d] /\ ncli'[d] = ncli[d] /\ fl_if'[d] = fl_if[d]
    BY <2>1, <2>2, Zenon DEF IInv, TypeOK
  <2>5. TypeOK'
    <3>1. ncli' \in [Cpus -> Nat]
      BY <2>1, <2>2 DEF IInv, TypeOK
    <3>2. fl_if' \in [Cpus -> BOOLEAN]
      BY <2>1, Zenon DEF IInv, TypeOK
    <3>3. todo' \in [Contexts -> Seq(Ops)]
      BY <2>1, <2>2, Zenon DEF IInv, TypeOK
    <3>4. step' \in [Cpus -> Steps]
      BY <2>1, Zenon DEF IInv, TypeOK, Steps
    <3> QED  BY <2>1, <3>1, <3>2, <3>3, <3>4, Zenon DEF IInv, TypeOK
  <2>6. ASSUME NEW d \in Cpus  PROVE CpuInv(d)'
    <3>1. CASE d = c
      <4>1. CpuInv(c) /\ run'[c] = x /\ x = run[c]
        BY <2>1, Zenon DEF IInv, x
      <4>2. run[c] # c => todo'[c] = <<Rel(ptable)>>
        BY <2>4, <4>1, Here, Zenon DEF CpuInv
      <4>3. Cardinality(held[c]) = ncli[c] - 1 /\ ncli[c] = Net(todo[x])
        BY <2>1, <4>1, Counts, Zenon
      <4>4. ncli'[c] = Net(todo'[run'[c]]) /\ ncli'[c] = Cardinality(held'[c])
        BY <2>1, <2>3, <2>4, <4>1, <4>3
      <4> QED  BY <2>1, <2>4, <3>1, <4>1, <4>2, <4>3, <4>4, Here DEF CpuInv, Extra, Pending
    <3>2. CASE d # c
      BY <2>1, <2>4, <3>2, Elsewhere, Zenon DEF x
    <3> QED  BY <3>1, <3>2, Zenon
  <2>7. Owned' /\ MutualExclusion'
    BY <2>1, Zenon DEF IInv, Owned, MutualExclusion
  <2>8. Suspended' /\ Interrupted'
    BY <2>1, <2>4, StillSuspended, Zenon DEF IInv, Interrupted, x
  <2> QED  BY <2>5, <2>6, <2>7, <2>8, Zenon DEF IInv
<1> QED  BY <1>1, <1>2, Zenon

-----------------------------------------------------------------------------
(* sched(): the thread and the scheduler both have one lock to give back. *)
LEMMA SchedOK ==
  ASSUME IInv, NEW c \in Cpus, sched(c)
  PROVE  IInv'
<1>1. CASE panic
  BY <1>1, Same, Zenon DEF panic
<1>2. CASE ~panic
  <2> DEFINE x == run[c]
  <2>1. /\ step[c] = "ready" /\ todo[x] # <<>> /\ Head(todo[x]).op = "sched"
        /\ x \in Threads /\ ncli[c] = 1
        /\ saved' = [saved EXCEPT ![x] = intena[c]]
        /\ run' = [run EXCEPT ![c] = c]
        /\ todo' = [todo EXCEPT ![x] = Tail(@)]
        /\ step' = [step EXCEPT ![c] = "ready"]
        /\ UNCHANGED <<locked, lkcpu, fl_if, ncli, intena, below, fresh, held, panicked>>
    BY <1>2, Zenon DEF sched, Doing, Ends, Goes
  <2>2. x \in Contexts /\ c \in Contexts /\ c \notin Threads /\ Tail(todo[x]) \in Seq(Ops)
    BY <2>1, Here, Zenon
  <2>3. Net(Tail(todo[x])) = 1
    <3>1. Net(Tail(todo[x])) = Net(todo[x])
      BY <2>1, HereNext, Zenon
    <3>2. ncli[c] = Net(todo[x])
      BY <2>1, Counts, Zenon
    <3> QED  BY <2>1, <3>1, <3>2, Zenon
  <2>4. x = run[c]
    OBVIOUS
  <2> HIDE DEF x
  <2>5. /\ run'[c] = c /\ \A d \in Cpus : d # c => run'[d] = run[d]
        /\ todo'[x] = Tail(todo[x]) /\ \A y \in Contexts : y # x => todo'[y] = todo[y]
        /\ step'[c] = "ready" /\ \A d \in Cpus : d # c => step'[d] = step[d]
    BY <2>1, <2>2, Zenon DEF IInv, TypeOK
  <2>6. TypeOK'
    <3>1. saved' \in [Threads -> BOOLEAN]
      BY <2>1, Zenon DEF IInv, TypeOK
    <3>2. run' \in [Cpus -> Contexts]
      BY <2>1, <2>2, Zenon DEF IInv, TypeOK
    <3>3. todo' \in [Contexts -> Seq(Ops)]
      BY <2>1, <2>2, Zenon DEF IInv, TypeOK
    <3>4. step' \in [Cpus -> Steps]
      BY <2>1, Zenon DEF IInv, TypeOK, Steps
    <3> QED  BY <2>1, <3>1, <3>2, <3>3, <3>4, Zenon DEF IInv, TypeOK
  <2>7. ASSUME NEW d \in Cpus  PROVE CpuInv(d)'
    <3>1. CASE d = c
      <4>1. CpuInv(c) /\ c # x
        BY <2>1, <2>2, Zenon DEF IInv
      <4>2. todo'[c] = <<Rel(ptable)>>
        BY <2>2, <2>4, <2>5, <4>1, Zenon DEF CpuInv
      <4>3. Net(todo'[c]) = 1
        BY <4>2, NetRel, Zenon
      <4> QED  BY <2>1, <2>5, <3>1, <4>1, <4>3, Here DEF CpuInv, Extra, Pending
    <3>2. CASE d # c
      BY <2>1, <2>4, <2>5, <3>2, Elsewhere, Zenon
    <3> QED  BY <3>1, <3>2, Zenon
  <2>8. Owned' /\ MutualExclusion' /\ Interrupted'
    BY <2>1, Zenon DEF IInv, Owned, MutualExclusion, Interrupted
  <2>9. Suspended'
    <3>1. ASSUME NEW d \in Cpus, d # c  PROVE run[d] # c
      <4>1. CpuInv(d)
        BY Zenon DEF IInv
      <4> QED  BY <2>2, <3>1, <4>1, Zenon DEF CpuInv
    <3>2. \A a, b \in Cpus : a # b => run'[a] # run'[b]
      BY <2>5, <3>1 DEF IInv, Suspended
    <3>3. ASSUME NEW t \in Threads, Idle(t)'  PROVE Net(todo'[t]) = 1
      <4>1. CASE t = x
        BY <2>3, <2>5, <4>1, Zenon
      <4>2. CASE t # x
        <5>1. Idle(t) /\ t \in Contexts
          BY <2>4, <2>5, <3>3, <4>2, Zenon DEF Idle, Contexts
        <5> QED  BY <2>5, <4>2, <5>1, Zenon DEF IInv, Suspended
      <4> QED  BY <4>1, <4>2, Zenon
    <3> QED  BY <3>2, <3>3, Zenon DEF Suspended
  <2> QED  BY <2>6, <2>7, <2>8, <2>9, Zenon DEF IInv
<1> QED  BY <1>1, <1>2, Zenon

LEMMA SwtchOK ==
  ASSUME IInv, NEW c \in Cpus, NEW t \in Threads, swtch(c, t)
  PROVE  IInv'
<1>1. /\ run[c] = c /\ step[c] = "ready" /\ todo[c] = <<Rel(ptable)>> /\ Idle(t)
      /\ run' = [run EXCEPT ![c] = t]
      /\ intena' = [intena EXCEPT ![c] = IF t \in fresh THEN @ ELSE saved[t]]
      /\ fresh' = fresh \ {t}
      /\ UNCHANGED <<locked, lkcpu, fl_if, ncli, step, todo, below, saved, held, panicked>>
  BY Zenon DEF swtch, Resumed
<1>2. /\ run'[c] = t /\ \A d \in Cpus : d # c => run'[d] = run[d]
      /\ t \in Contexts /\ c \notin Threads
  BY <1>1, Here, Zenon DEF IInv, TypeOK, Contexts
<1>3. TypeOK'
  <2>1. run' \in [Cpus -> Contexts] /\ fresh' \subseteq Threads
    BY <1>1, <1>2, Zenon DEF IInv, TypeOK
  <2>2. intena' \in [Cpus -> BOOLEAN]
    <3>1. (IF t \in fresh THEN intena[c] ELSE saved[t]) \in BOOLEAN
      BY Zenon DEF IInv, TypeOK
    <3> QED  BY <1>1, <3>1, Zenon DEF IInv, TypeOK
  <2> QED  BY <1>1, <2>1, <2>2, Zenon DEF IInv, TypeOK
<1>4. ASSUME NEW d \in Cpus  PROVE CpuInv(d)'
  <2>1. CASE d = c
    <3>1. CpuInv(c) /\ Net(todo[c]) = 1 /\ Net(todo[t]) = 1
      BY <1>1, NetRel, Zenon DEF IInv, Suspended
    <3> QED  BY <1>1, <1>2, <2>1, <3>1, Here DEF CpuInv, Extra, Pending
  <2>2. CASE d # c
    BY <1>1, <1>2, <2>2, Elsewhere, Zenon
  <2> QED  BY <2>1, <2>2, Zenon
<1>5. Owned' /\ MutualExclusion' /\ Interrupted'
  BY <1>1, Zenon DEF IInv, Owned, MutualExclusion, Interrupted
<1>6. Suspended'
  <2>1. \A a, b \in Cpus : a # b => run'[a] # run'[b]
    BY <1>1, <1>2 DEF IInv, Suspended, Idle
  <2>2. ASSUME NEW u \in Threads, Idle(u)'  PROVE Net(todo'[u]) = 1
    <3>1. Idle(u)
      BY <1>1, <1>2, <2>2, Zenon DEF Idle
    <3> QED  BY <1>1, <3>1, Zenon DEF IInv, Suspended
  <2> QED  BY <2>1, <2>2, Zenon DEF Suspended
<1> QED  BY <1>3, <1>4, <1>5, <1>6, Zenon DEF IInv

(***************************************************************************)
(* CPU c has given back everything and begins other code, which will give  *)
(* back what it takes: what a system call, an interrupt, the return from   *)
(* one and the scheduler's loop have in common.                            *)
(***************************************************************************)
LEMMA Fresh ==
  ASSUME IInv, NEW c \in Cpus, ncli[c] = 0, Net(todo'[run[c]]) = 0, step'[c] = "ready",
         \A d \in Cpus : d # c => step'[d] = step[d] /\ fl_if'[d] = fl_if[d],
         \A x \in Contexts : x # run[c] => todo'[x] = todo[x],
         UNCHANGED <<locked, lkcpu, ncli, run, held>>
  PROVE  (\A d \in Cpus : CpuInv(d)') /\ Owned' /\ MutualExclusion' /\ Suspended'
<1>1. ASSUME NEW d \in Cpus  PROVE CpuInv(d)'
  <2>1. CASE d = c
    <3>1. CpuInv(c)
      BY Zenon DEF IInv
    <3>2. Cardinality(held[c]) = 0
      BY Counts, Zenon
    <3>3. run[c] # c => todo'[c] = <<Rel(ptable)>>
      BY <3>1, Here, Zenon DEF CpuInv
    <3> QED  BY <2>1, <3>1, <3>2, <3>3, Here DEF CpuInv, Extra, Pending
  <2>2. CASE d # c
    BY <2>2, Elsewhere, Zenon
  <2> QED  BY <2>1, <2>2, Zenon
<1>2. Owned' /\ MutualExclusion'
  BY Zenon DEF IInv, Owned, MutualExclusion
<1>3. Suspended'
  BY StillSuspended, Zenon
<1> QED  BY <1>1, <1>2, <1>3, Zenon

(* At the end of its code, a CPU between operations has given back everything. *)
LEMMA Done ==
  ASSUME IInv, NEW c \in Cpus, step[c] = "ready", todo[run[c]] = <<>>
  PROVE  ncli[c] = 0
<1>1. CpuInv(c) /\ Net(todo[run[c]]) = 0
  BY NetEmpty, Zenon DEF IInv
<1> QED  BY <1>1, Here DEF CpuInv, Pending

LEMMA SchedulerOK ==
  ASSUME IInv, NEW c \in Cpus, scheduler(c)
  PROVE  IInv'
<1> DEFINE loop == <<Acq(ptable), Rel(ptable)>>
<1>1. /\ run[c] = c /\ step[c] = "ready" /\ todo[c] = <<>>
      /\ fl_if' = [fl_if EXCEPT ![c] = TRUE]
      /\ todo' = [todo EXCEPT ![c] = loop]
      /\ UNCHANGED <<locked, lkcpu, ncli, intena, run, step, below, saved, fresh, held,
                     panicked>>
  BY Zenon DEF scheduler
<1>2. loop \in Seq(Ops) /\ Net(loop) = 0
  <2>1. Acq(ptable) \in Ops /\ Rel(ptable) \in Ops /\ Acq(ptable).op = "acquire"
    BY SpinAssumption, Zenon DEF Acq, Rel, Ops
  <2>2. /\ loop \in Seq(Ops) /\ loop # <<>>
        /\ Head(loop) = Acq(ptable) /\ Tail(loop) = <<Rel(ptable)>>
    BY <2>1
  <2> HIDE DEF loop
  <2>3. Net(loop) = Net(<<Rel(ptable)>>) + (IF Acq(ptable).op = "release" THEN 1 ELSE 0)
                                         - (IF Acq(ptable).op = "acquire" THEN 1 ELSE 0)
    BY <2>2, NetTail, Zenon
  <2> QED  BY <2>1, <2>2, <2>3, NetRel
<1> HIDE DEF loop
<1>3. /\ todo'[c] = loop /\ \A x \in Contexts : x # c => todo'[x] = todo[x]
      /\ \A d \in Cpus : d # c => fl_if'[d] = fl_if[d]
  BY <1>1, Here, Zenon DEF IInv, TypeOK
<1>4. TypeOK'
  <2>1. fl_if' \in [Cpus -> BOOLEAN]
    BY <1>1, Zenon DEF IInv, TypeOK
  <2>2. todo' \in [Contexts -> Seq(Ops)]
    BY <1>1, <1>2, Zenon DEF IInv, TypeOK
  <2> QED  BY <1>1, <2>1, <2>2, Zenon DEF IInv, TypeOK
<1>5. (\A d \in Cpus : CpuInv(d)') /\ Owned' /\ MutualExclusion' /\ Suspended'
  <2>1. ncli[c] = 0
    BY <1>1, Done, Zenon
  <2> QED  BY <1>1, <1>2, <1>3, <2>1, Fresh, Zenon
<1>6. Interrupted'
  BY <1>1, Zenon DEF IInv, Interrupted
<1> QED  BY <1>4, <1>5, <1>6, Zenon DEF IInv

LEMMA SyscallOK ==
  ASSUME IInv, NEW c \in Cpus, NEW path \in Calls, syscall(c, path)
  PROVE  IInv'
<1> DEFINE x == run[c]
<1>1. /\ step[c] = "ready" /\ todo[x] = <<>>
      /\ todo' = [todo EXCEPT ![x] = path]
      /\ below' = [below EXCEPT ![x] = <<User("syscall")>>]
      /\ UNCHANGED <<locked, lkcpu, fl_if, ncli, intena, run, step, saved, fresh, held,
                     panicked>>
  BY Zenon DEF syscall
<1>2. x \in Contexts /\ x = run[c] /\ path \in Seq(Ops) /\ Net(path) = 0
  BY Here, SpinAssumption, BalanceAssumption, Zenon
<1>3. User("syscall") \in Frames /\ User("syscall").step = "ready" /\ User("syscall").todo = <<>>
  BY DEF User, Frames, Steps, Gates
<1> HIDE DEF x
<1>4. /\ todo'[x] = path /\ \A y \in Contexts : y # x => todo'[y] = todo[y]
      /\ below'[x] = <<User("syscall")>> /\ \A y \in Contexts : y # x => below'[y] = below[y]
  BY <1>1, <1>2, Zenon DEF IInv, TypeOK
<1>5. TypeOK'
  <2>1. todo' \in [Contexts -> Seq(Ops)]
    BY <1>1, <1>2, Zenon DEF IInv, TypeOK
  <2>2. below' \in [Contexts -> Seq(Frames)]
    <3> DEFINE bottom == <<User("syscall")>>
    <3>1. bottom \in Seq(Frames)
      BY <1>3
    <3>2. below' = [below EXCEPT ![x] = bottom]
      BY <1>1, Zenon
    <3> HIDE DEF bottom
    <3> QED  BY <3>1, <3>2, Zenon DEF IInv, TypeOK
  <2> QED  BY <1>1, <2>1, <2>2, Zenon DEF IInv, TypeOK
<1>6. (\A d \in Cpus : CpuInv(d)') /\ Owned' /\ MutualExclusion' /\ Suspended'
  <2>1. ncli[c] = 0
    BY <1>1, <1>2, Done, Zenon
  <2> QED  BY <1>1, <1>2, <1>4, <2>1, Fresh
<1>7. Interrupted'
  <2> SUFFICES ASSUME NEW y \in Contexts, NEW i \in 1 .. Len(below'[y])
               PROVE  below'[y][i].step = "ready" /\ Net(below'[y][i].todo) = 0
    BY Zenon DEF Interrupted
  <2>1. CASE y = x
    <3>1. below'[y][i] = User("syscall")
      BY <1>4, <2>1
    <3> QED  BY <1>3, <3>1, NetEmpty, Zenon
  <2>2. CASE y # x
    <3>1. below'[y] = below[y]
      BY <1>4, <2>2, Zenon
    <3>2. Interrupted
      BY Zenon DEF IInv
    <3> QED  BY <3>1, <3>2, Zenon DEF Interrupted
  <2> QED  BY <2>1, <2>2, Zenon
<1> QED  BY <1>5, <1>6, <1>7, Zenon DEF IInv

(* A frame on top of a stack. *)
LEMMA Pushed ==
  ASSUME NEW S, NEW stack \in Seq(S), NEW frame, NEW i \in 1 .. Len(<<frame>> \o stack)
  PROVE  /\ Len(stack) \in Nat /\ i \in 1 .. Len(stack) + 1
         /\ (<<frame>> \o stack)[i] = IF i = 1 THEN frame ELSE stack[i - 1]
OBVIOUS

(* With FL_IF set there is nothing to give back, and no operation half done. *)
LEMMA TrapOK ==
  ASSUME IInv, NEW c \in Cpus, NEW irq \in Irqs, trap(c, irq)
  PROVE  IInv'
<1> DEFINE x == run[c]
           code == IF irq = Timer /\ x \in Threads THEN irq \o yield ELSE irq
           frame == [todo |-> todo[x], step |-> step[c], gate |-> "interrupt"]
<1>1. /\ fl_if[c]
      /\ below' = [below EXCEPT ![x] = <<frame>> \o @]
      /\ todo' = [todo EXCEPT ![x] = code]
      /\ step' = [step EXCEPT ![c] = "ready"]
      /\ fl_if' = [fl_if EXCEPT ![c] = FALSE]
      /\ UNCHANGED <<locked, lkcpu, ncli, intena, run, saved, fresh, held, panicked>>
  BY Zenon DEF trap, Goes
<1>2. x \in Contexts /\ x = run[c] /\ below[x] \in Seq(Frames)
  BY Here, Zenon DEF IInv, TypeOK
<1>3. code \in Seq(Ops) /\ Net(code) = 0
  <2>1. irq \in Seq(Ops) /\ Net(irq) = 0 /\ Net(irq \o yield) = 0
    BY SpinAssumption, BalanceAssumption, Zenon
  <2>2. yield \in Seq(Ops)
    <3>1. Acq(ptable) \in Ops /\ Sched \in Ops /\ Rel(ptable) \in Ops
      BY SpinAssumption, Zenon DEF Acq, Rel, Sched, Ops
    <3> QED  BY <3>1 DEF yield
  <2>3. irq \o yield \in Seq(Ops)
    BY <2>1, <2>2
  <2> QED  BY <2>1, <2>3, Zenon
<1>4. ncli[c] = 0 /\ step[c] = "ready" /\ Net(todo[x]) = 0
  <2>1. CpuInv(c) /\ ncli[c] = 0
    BY <1>1, Zenon DEF IInv, CpuInv
  <2> QED  BY <2>1, Counts, Zenon
<1>5. frame \in Frames /\ frame.step = "ready" /\ Net(frame.todo) = 0
  BY <1>2, <1>4, Here, Zenon DEF Frames, Steps, Gates
<1> HIDE DEF x, code, frame
<1>6. /\ todo'[x] = code /\ \A y \in Contexts : y # x => todo'[y] = todo[y]
      /\ below'[x] = <<frame>> \o below[x] /\ \A y \in Contexts : y # x => below'[y] = below[y]
      /\ step'[c] = "ready"
      /\ \A d \in Cpus : d # c => step'[d] = step[d] /\ fl_if'[d] = fl_if[d]
  BY <1>1, <1>2, Zenon DEF IInv, TypeOK
<1>7. TypeOK'
  <2>1. todo' \in [Contexts -> Seq(Ops)]
    BY <1>1, <1>3, Zenon DEF IInv, TypeOK
  <2>2. below' \in [Contexts -> Seq(Frames)]
    <3>1. <<frame>> \o below[x] \in Seq(Frames)
      BY <1>2, <1>5
    <3> QED  BY <1>1, <3>1, Zenon DEF IInv, TypeOK
  <2>3. step' \in [Cpus -> Steps] /\ fl_if' \in [Cpus -> BOOLEAN]
    BY <1>1, Zenon DEF IInv, TypeOK, Steps
  <2> QED  BY <1>1, <2>1, <2>2, <2>3, Zenon DEF IInv, TypeOK
<1>8. (\A d \in Cpus : CpuInv(d)') /\ Owned' /\ MutualExclusion' /\ Suspended'
  <2>1. Net(todo'[run[c]]) = 0 /\ ncli[c] = 0
    BY <1>2, <1>3, <1>4, <1>6, Zenon
  <2>2. \A y \in Contexts : y # run[c] => todo'[y] = todo[y]
    BY <1>2, <1>6, Zenon
  <2>3. UNCHANGED <<locked, lkcpu, ncli, run, held>>
    BY <1>1, Zenon
  <2>4. /\ step'[c] = "ready"
        /\ \A d \in Cpus : d # c => step'[d] = step[d] /\ fl_if'[d] = fl_if[d]
    BY <1>6, Zenon
  <2> QED  BY <2>1, <2>2, <2>3, <2>4, Fresh, Zenon
<1>9. Interrupted'
  <2> SUFFICES ASSUME NEW y \in Contexts, NEW i \in 1 .. Len(below'[y])
               PROVE  below'[y][i].step = "ready" /\ Net(below'[y][i].todo) = 0
    BY Zenon DEF Interrupted
  <2>1. CASE y = x
    <3>0. i \in 1 .. Len(<<frame>> \o below[x]) /\ below'[y][i] = (<<frame>> \o below[x])[i]
      BY <1>6, <2>1, Zenon
    <3>1. /\ Len(below[x]) \in Nat /\ i \in 1 .. Len(below[x]) + 1
          /\ below'[y][i] = IF i = 1 THEN frame ELSE below[x][i - 1]
      BY <1>2, <3>0, Pushed
    <3>2. CASE i = 1
      BY <1>5, <3>1, <3>2, Zenon
    <3>3. CASE i # 1
      <4>1. i - 1 \in 1 .. Len(below[x]) /\ below'[y][i] = below[x][i - 1]
        BY <3>1, <3>3
      <4> QED  BY <1>2, <4>1 DEF IInv, Interrupted
    <3> QED  BY <3>2, <3>3, Zenon
  <2>2. CASE y # x
    <3>1. below'[y] = below[y]
      BY <1>6, <2>2, Zenon
    <3>2. Interrupted
      BY Zenon DEF IInv
    <3> QED  BY <3>1, <3>2, Zenon DEF Interrupted
  <2> QED  BY <2>1, <2>2, Zenon
<1> QED  BY <1>7, <1>8, <1>9, Zenon DEF IInv

(* iret sets FL_IF where the handler has given back everything. *)
LEMMA TrapretOK ==
  ASSUME IInv, NEW c \in Cpus, trapret(c)
  PROVE  IInv'
<1> DEFINE x == run[c]
           frame == Head(below[x])
<1>1. /\ step[c] = "ready" /\ todo[x] = <<>> /\ below[x] # <<>>
      /\ todo' = [todo EXCEPT ![x] = frame.todo]
      /\ step' = [step EXCEPT ![c] = frame.step]
      /\ below' = [below EXCEPT ![x] = Tail(@)]
      /\ fl_if' = [fl_if EXCEPT ![c] = TRUE]
      /\ UNCHANGED <<locked, lkcpu, ncli, intena, run, saved, fresh, held, panicked>>
  BY Zenon DEF trapret, Goes
<1>2. x \in Contexts /\ x = run[c] /\ below[x] \in Seq(Frames)
  BY Here, Zenon DEF IInv, TypeOK
<1>3. /\ frame \in Frames /\ Tail(below[x]) \in Seq(Frames)
      /\ Len(below[x]) \in Nat /\ Len(Tail(below[x])) = Len(below[x]) - 1
      /\ frame = below[x][1] /\ 1 \in 1 .. Len(below[x])
      /\ \A i \in 1 .. Len(Tail(below[x])) :
           i + 1 \in 1 .. Len(below[x]) /\ Tail(below[x])[i] = below[x][i + 1]
  <2> DEFINE stack == below[x]
  <2>1. stack \in Seq(Frames) /\ stack # <<>>
    BY <1>1, <1>2, Zenon
  <2> HIDE DEF stack
  <2>2. /\ Head(stack) \in Frames /\ Tail(stack) \in Seq(Frames) /\ Head(stack) = stack[1]
        /\ Len(stack) \in Nat /\ Len(stack) >= 1 /\ Len(Tail(stack)) = Len(stack) - 1
    BY <2>1
  <2>3. \A i \in 1 .. Len(Tail(stack)) : Tail(stack)[i] = stack[i + 1]
    BY <2>1
  <2>4. \A i \in 1 .. Len(Tail(stack)) : i + 1 \in 1 .. Len(stack)
    BY <2>2
  <2>5. 1 \in 1 .. Len(stack)
    BY <2>2
  <2> QED  BY <2>2, <2>3, <2>4, <2>5, Zenon DEF stack
<1>4. frame.step = "ready" /\ frame.todo \in Seq(Ops) /\ Net(frame.todo) = 0
  BY <1>2, <1>3 DEF IInv, Interrupted, Frames
<1>5. ncli[c] = 0
  BY <1>1, Done, Zenon
<1> HIDE DEF x, frame
<1>6. /\ todo'[x] = frame.todo /\ \A y \in Contexts : y # x => todo'[y] = todo[y]
      /\ below'[x] = Tail(below[x]) /\ \A y \in Contexts : y # x => below'[y] = below[y]
      /\ step'[c] = "ready"
      /\ \A d \in Cpus : d # c => step'[d] = step[d] /\ fl_if'[d] = fl_if[d]
  BY <1>1, <1>2, <1>4, Zenon DEF IInv, TypeOK
<1>7. TypeOK'
  <2>1. todo' \in [Contexts -> Seq(Ops)]
    BY <1>1, <1>4, Zenon DEF IInv, TypeOK
  <2>2. below' \in [Contexts -> Seq(Frames)]
    BY <1>1, <1>2, <1>3, Zenon DEF IInv, TypeOK
  <2>3. step' \in [Cpus -> Steps] /\ fl_if' \in [Cpus -> BOOLEAN]
    BY <1>1, <1>4, Zenon DEF IInv, TypeOK, Steps
  <2> QED  BY <1>1, <2>1, <2>2, <2>3, Zenon DEF IInv, TypeOK
<1>8. (\A d \in Cpus : CpuInv(d)') /\ Owned' /\ MutualExclusion' /\ Suspended'
  <2>1. Net(todo'[run[c]]) = 0 /\ ncli[c] = 0
    BY <1>2, <1>4, <1>5, <1>6, Zenon
  <2>2. \A y \in Contexts : y # run[c] => todo'[y] = todo[y]
    BY <1>2, <1>6, Zenon
  <2>3. UNCHANGED <<locked, lkcpu, ncli, run, held>>
    BY <1>1, Zenon
  <2>4. /\ step'[c] = "ready"
        /\ \A d \in Cpus : d # c => step'[d] = step[d] /\ fl_if'[d] = fl_if[d]
    BY <1>6, Zenon
  <2> QED  BY <2>1, <2>2, <2>3, <2>4, Fresh, Zenon
<1>9. Interrupted'
  <2> SUFFICES ASSUME NEW y \in Contexts, NEW i \in 1 .. Len(below'[y])
               PROVE  below'[y][i].step = "ready" /\ Net(below'[y][i].todo) = 0
    BY Zenon DEF Interrupted
  <2>1. CASE y = x
    <3>1. i \in 1 .. Len(Tail(below[x])) /\ below'[y][i] = Tail(below[x])[i]
      BY <1>6, <2>1, Zenon
    <3>2. i + 1 \in 1 .. Len(below[x]) /\ below'[y][i] = below[x][i + 1]
      BY <1>3, <3>1, Zenon
    <3>3. below[x][i + 1].step = "ready" /\ Net(below[x][i + 1].todo) = 0
      BY <1>2, <3>2, Zenon DEF IInv, Interrupted
    <3> QED  BY <3>2, <3>3, Zenon
  <2>2. CASE y # x
    <3>1. below'[y] = below[y]
      BY <1>6, <2>2, Zenon
    <3>2. Interrupted
      BY Zenon DEF IInv
    <3> QED  BY <3>1, <3>2, Zenon DEF Interrupted
  <2> QED  BY <2>1, <2>2, Zenon
<1> QED  BY <1>7, <1>8, <1>9, Zenon DEF IInv

-----------------------------------------------------------------------------
LEMMA StepOK ==
  ASSUME IInv, [Next]_vars
  PROVE  IInv'
<1>1. CASE UNCHANGED vars
  <2>1. panicked' \in BOOLEAN
    BY <1>1, Zenon DEF vars, IInv, TypeOK
  <2> QED  BY <1>1, <2>1, Same, Zenon DEF vars
<1>2. ASSUME NEW c \in Cpus, LockStep(c)
      PROVE  IInv'
  BY <1>2, AcquireOK, AcquireTestOK, XchgOK, AcquireOwnOK, ReleaseOK, ReleaseStoreOK, PopcliOK
     DEF LockStep
<1>3. ASSUME NEW c \in Cpus, Switches(c)
      PROVE  IInv'
  BY <1>3, SchedOK, SchedulerOK, SwtchOK, Zenon DEF Switches
<1>4. ASSUME NEW c \in Cpus, Traps(c)
      PROVE  IInv'
  BY <1>4, SyscallOK, TrapOK, TrapretOK, Zenon DEF Traps
<1> QED  BY <1>1, <1>2, <1>3, <1>4, Zenon DEF Next

(* The invariant holds in every state. *)
THEOREM Invariance == Spec => []IInv
<1>1. Init => IInv
  BY InitOK, Zenon
<1>2. IInv /\ [Next]_vars => IInv'
  BY StepOK, Zenon
<1> QED  BY <1>1, <1>2, PTL DEF Spec

(***************************************************************************)
(* acquire() and release(): no two CPUs have the same lock, whatever the   *)
(* interrupts and the context switches.                                    *)
(***************************************************************************)
THEOREM MutualExclusionHolds == Spec => []MutualExclusion
<1>1. IInv => MutualExclusion
  BY Zenon DEF IInv
<1> QED  BY <1>1, Invariance, PTL

(* pushcli() and popcli(): a CPU that has a lock takes no interrupt. *)
HoldersAreQuiet == \A c \in Cpus : held[c] # {} => ~fl_if[c]

(***************************************************************************)
(* The first half of LockedIsQuiet, for code of which only the balance is  *)
(* known: a CPU with a lock has FL_IF clear.                               *)
(***************************************************************************)
THEOREM HoldersAreQuietHolds == Spec => []HoldersAreQuiet
<1>1. ASSUME IInv  PROVE HoldersAreQuiet
  <2> SUFFICES ASSUME NEW c \in Cpus, fl_if[c]  PROVE held[c] = {}
    BY Zenon DEF HoldersAreQuiet
  <2>1. ncli[c] = 0
    BY <1>1, Zenon DEF IInv, CpuInv
  <2> QED  BY <1>1, <2>1, Counts, Zenon
<1> QED  BY <1>1, Invariance, PTL

-----------------------------------------------------------------------------
(* The locks that CPU c had before the operation it is in. *)
Start(c) ==
  IF step[c] = "own" THEN held[c] \ {Lk(c)}
  ELSE IF step[c] = "popcli" THEN held[c] \cup {Lk(c)} ELSE held[c]

(* What CPU c has left to do is legal, and lk->cpu says which locks it has. *)
CodeInv(c, order) ==
  /\ Legal(todo[run[c]], Start(c), order)
  /\ step[c] = "popcli" => Lk(c) \notin held[c]
  /\ \A l \in held[c] : lkcpu[l] = c \/ (step[c] \in {"own", "unlock"} /\ l = Lk(c))

(* So is what a suspended thread, and what interrupted code has left to do. *)
LegalInv(order) ==
  /\ \A c \in Cpus : CodeInv(c, order)
  /\ \A t \in Threads : Idle(t) => Legal(todo[t], {ptable}, order)
  /\ \A x \in Contexts : \A i \in 1 .. Len(below[x]) : Legal(below[x][i].todo, {}, order)
  /\ ~panicked

(* A rank that falls with every lock that is acquired, in all code. *)
Falls(rank) == {e \in Locks \X Locks : rank[e[2]] < rank[e[1]]}
Ordered == \E rank \in [Locks -> Nat] : \A code \in Codes : Legal(code, {}, Falls(rank))

-----------------------------------------------------------------------------
Gate(stack) == IF stack = <<>> THEN "none" ELSE Head(stack).gate

(* FL_IF as it is, or will be again after the last popcli(). *)
Flag(c) == IF ncli[c] = 0 THEN fl_if[c] ELSE intena[c]

(***************************************************************************)
(* The flag is that of the code's gate, on a CPU and in saved; and only    *)
(* the topmost frame of a stack can be an interrupt's.                     *)
(***************************************************************************)
FlagInv ==
  /\ \A c \in Cpus : run[c] \in Threads /\ Gate(below[run[c]]) # "fork" =>
                       (Flag(c) <=> Gate(below[run[c]]) # "interrupt")
  /\ \A t \in Threads : Idle(t) /\ Gate(below[t]) # "fork" =>
                          (saved[t] <=> Gate(below[t]) # "interrupt")
  /\ \A t \in fresh : Gate(below[t]) = "fork" /\ Idle(t)
  /\ \A x \in Threads : \A i \in 2 .. Len(below[x]) : below[x][i].gate # "interrupt"

-----------------------------------------------------------------------------
(* The locks after an operation. *)
After(H, o) ==
  IF o.op = "acquire" THEN H \cup {o.lk} ELSE IF o.op = "release" THEN H \ {o.lk} ELSE H

LEMMA HasFirst ==
  ASSUME NEW code, NEW H \in SUBSET Locks
  PROVE  Has(code, H, 1) = H
<1>1. 0 .. 1 - 1 = {0} /\ 0 + 1 .. 1 - 1 = {}
  OBVIOUS
<1> QED  BY <1>1, Zenon DEF Has

LEMMA AfterIs ==
  ASSUME NEW H \in SUBSET Locks, NEW o \in Ops
  PROVE  /\ After(H, o) \in SUBSET Locks
         /\ \A l \in Locks : l \in After(H, o) <=> (l \in H /\ o # Rel(l)) \/ o = Acq(l)
<1>1. /\ o.op \in {"acquire", "release", "sched"} /\ o.lk \in Locks
      /\ o = [op |-> o.op, lk |-> o.lk]
  BY Zenon DEF Ops
<1>2. \A l \in Locks : /\ o = Acq(l) <=> o.op = "acquire" /\ o.lk = l
                       /\ o = Rel(l) <=> o.op = "release" /\ o.lk = l
  BY <1>1 DEF Acq, Rel
<1> QED  BY <1>1, <1>2, Zenon DEF After

(* What code has later on is what its tail has, from the locks after the first step. *)
LEMMA HasTail ==
  ASSUME NEW code \in Seq(Ops), code # <<>>, NEW H \in SUBSET Locks,
         NEW i \in 1 .. Len(code)
  PROVE  Has(Tail(code), After(H, Head(code)), i) = Has(code, H, i + 1)
<1> DEFINE rest == Tail(code)
           K == After(H, Head(code))
<1>1. /\ Len(code) \in Nat /\ Head(code) = code[1] /\ Head(code) \in Ops
      /\ Len(rest) = Len(code) - 1
      /\ \A j \in 1 .. Len(code) - 1 : rest[j] = code[j + 1]
  OBVIOUS
<1>2. \A l \in Locks : l \in K <=> (l \in H /\ code[1] # Rel(l)) \/ code[1] = Acq(l)
  BY <1>1, AfterIs
<1> HIDE DEF rest, K
<1>3. ASSUME NEW l \in Locks, NEW j \in 0 .. i - 1
      PROVE  (\A m \in j + 1 .. i - 1 : rest[m] # Rel(l))
               <=> (\A m \in j + 2 .. i : code[m] # Rel(l))
  <2>1. ASSUME \A m \in j + 1 .. i - 1 : rest[m] # Rel(l), NEW m \in j + 2 .. i
        PROVE  code[m] # Rel(l)
    <3>1. m - 1 \in j + 1 .. i - 1 /\ m - 1 \in 1 .. Len(code) - 1 /\ m - 1 + 1 = m
      BY <1>1
    <3> QED  BY <1>1, <2>1, <3>1, Zenon
  <2>2. ASSUME \A m \in j + 2 .. i : code[m] # Rel(l), NEW m \in j + 1 .. i - 1
        PROVE  rest[m] # Rel(l)
    <3>1. m + 1 \in j + 2 .. i /\ m \in 1 .. Len(code) - 1
      BY <1>1
    <3> QED  BY <1>1, <2>2, <3>1, Zenon
  <2> QED  BY <2>1, <2>2, Zenon
<1>4. ASSUME NEW l \in Has(rest, K, i)  PROVE l \in Has(code, H, i + 1)
  <2>1. PICK j \in 0 .. i - 1 :
             /\ IF j = 0 THEN l \in K ELSE rest[j] = Acq(l)
             /\ \A m \in j + 1 .. i - 1 : rest[m] # Rel(l)
    BY <1>4, Zenon DEF Has
  <2>0. l \in Locks
    BY <1>4, Zenon DEF Has
  <2>2. \A m \in j + 2 .. i : code[m] # Rel(l)
    BY <1>3, <2>0, <2>1, Zenon
  <2>3. CASE j # 0
    <3>1. /\ j + 1 \in 0 .. (i + 1) - 1 /\ j + 1 # 0 /\ j \in 1 .. Len(code) - 1
          /\ (j + 1) + 1 = j + 2 /\ (i + 1) - 1 = i
      BY <1>1, <2>3
    <3>2. code[j + 1] = Acq(l)
      BY <1>1, <2>1, <2>3, <3>1, Zenon
    <3> QED  BY <2>0, <2>2, <3>1, <3>2, Zenon DEF Has
  <2>4. CASE j = 0
    <3>1. l \in K /\ \A m \in 2 .. i : code[m] # Rel(l)
      BY <2>1, <2>2, <2>4
    <3>2. CASE code[1] = Acq(l)
      <4>1. 1 \in 0 .. (i + 1) - 1 /\ 1 + 1 = 2 /\ (i + 1) - 1 = i
        OBVIOUS
      <4> QED  BY <2>0, <3>1, <3>2, <4>1 DEF Has
    <3>3. CASE l \in H /\ code[1] # Rel(l)
      <4>1. ASSUME NEW m \in 0 + 1 .. (i + 1) - 1  PROVE code[m] # Rel(l)
        BY <3>1, <3>3
      <4>2. 0 \in 0 .. (i + 1) - 1
        OBVIOUS
      <4> QED  BY <2>0, <3>3, <4>1, <4>2, Zenon DEF Has
    <3> QED  BY <1>2, <2>0, <3>1, <3>2, <3>3, Zenon
  <2> QED  BY <2>3, <2>4, Zenon
<1>5. ASSUME NEW l \in Has(code, H, i + 1)  PROVE l \in Has(rest, K, i)
  <2>1. PICK j \in 0 .. i :
             /\ IF j = 0 THEN l \in H ELSE code[j] = Acq(l)
             /\ \A m \in j + 1 .. i : code[m] # Rel(l)
    <3>1. (i + 1) - 1 = i
      OBVIOUS
    <3> QED  BY <1>5, <3>1, Zenon DEF Has
  <2>0. l \in Locks
    BY <1>5, Zenon DEF Has
  <2>2. CASE j \in {0, 1}
    <3>1. 0 \in 0 .. i - 1 /\ 1 \in 0 + 1 .. i /\ (j = 0 => 1 \in j + 1 .. i)
      OBVIOUS
    <3>2. l \in K
      BY <1>2, <2>0, <2>1, <2>2, <3>1, Zenon
    <3>3. \A m \in 0 + 2 .. i : code[m] # Rel(l)
      BY <2>1, <2>2
    <3>4. \A m \in 0 + 1 .. i - 1 : rest[m] # Rel(l)
      BY <1>3, <2>0, <3>1, <3>3, Zenon
    <3> QED  BY <2>0, <3>1, <3>2, <3>4, Zenon DEF Has
  <2>3. CASE j \notin {0, 1}
    <3>1. /\ j - 1 \in 0 .. i - 1 /\ j - 1 # 0 /\ j - 1 \in 1 .. Len(code) - 1
          /\ (j - 1) + 1 = j /\ (j - 1) + 2 = j + 1
      BY <1>1, <2>3
    <3>2. rest[j - 1] = Acq(l)
      BY <1>1, <2>1, <2>3, <3>1, Zenon
    <3>3. \A m \in (j - 1) + 1 .. i - 1 : rest[m] # Rel(l)
      BY <1>3, <2>0, <2>1, <3>1, Zenon
    <3> QED  BY <2>0, <3>1, <3>2, <3>3, Zenon DEF Has
  <2> QED  BY <2>2, <2>3, Zenon
<1> QED  BY <1>4, <1>5, Zenon DEF rest, K

LEMMA LegalFirst ==
  ASSUME NEW code \in Seq(Ops), code # <<>>, NEW H \in SUBSET Locks, NEW order,
         Legal(code, H, order)
  PROVE  LET l == Head(code).lk
         IN  /\ Head(code).op = "acquire" => l \notin H /\ H \X {l} \subseteq order
             /\ Head(code).op = "release" => l \in H
             /\ Head(code).op = "sched" => H = {ptable}
<1>1. 1 \in 1 .. Len(code) /\ Head(code) = code[1]
  OBVIOUS
<1> QED  BY <1>1, HasFirst DEF Legal

LEMMA LegalTail ==
  ASSUME NEW code \in Seq(Ops), code # <<>>, NEW H \in SUBSET Locks, NEW order,
         Legal(code, H, order)
  PROVE  Legal(Tail(code), After(H, Head(code)), order)
<1> DEFINE rest == Tail(code)
           K == After(H, Head(code))
<1>1. /\ Len(code) \in Nat /\ Len(code) >= 1 /\ Len(rest) = Len(code) - 1
      /\ \A j \in 1 .. Len(code) - 1 : rest[j] = code[j + 1]
  OBVIOUS
<1>2. \A i \in 1 .. Len(code) : Has(rest, K, i) = Has(code, H, i + 1)
  BY HasTail, Zenon
<1> HIDE DEF rest, K
<1>3. ASSUME NEW i \in 1 .. Len(rest)
      PROVE  LET has == Has(rest, K, i)
                 l == rest[i].lk
             IN  /\ rest[i].op = "acquire" => l \notin has /\ has \X {l} \subseteq order
                 /\ rest[i].op = "release" => l \in has
                 /\ rest[i].op = "sched" => has = {ptable}
  <2>1. /\ i \in 1 .. Len(code) - 1 /\ i \in 1 .. Len(code) /\ i + 1 \in 1 .. Len(code)
    BY <1>1
  <2>2. rest[i] = code[i + 1] /\ Has(rest, K, i) = Has(code, H, i + 1)
    BY <1>1, <1>2, <2>1, Zenon
  <2> QED  BY <2>1, <2>2, Zenon DEF Legal
<1>4. Has(rest, K, Len(rest) + 1) = {}
  <2>1. Len(rest) + 1 = Len(code) /\ Len(code) \in 1 .. Len(code)
    BY <1>1
  <2> QED  BY <1>2, <2>1, Zenon DEF Legal
<1>5. Legal(rest, K, order)
  BY <1>3, <1>4, Zenon DEF Legal
<1> QED  BY <1>5, Zenon DEF rest, K

LEMMA LegalCons ==
  ASSUME NEW code \in Seq(Ops), code # <<>>, NEW H \in SUBSET Locks, NEW order,
         Head(code).op = "acquire" => /\ Head(code).lk \notin H
                                      /\ H \X {Head(code).lk} \subseteq order,
         Head(code).op = "release" => Head(code).lk \in H,
         Head(code).op = "sched" => H = {ptable},
         Legal(Tail(code), After(H, Head(code)), order)
  PROVE  Legal(code, H, order)
<1> DEFINE rest == Tail(code)
           K == After(H, Head(code))
<1>1. /\ Len(code) \in Nat /\ Len(code) >= 1 /\ Len(rest) = Len(code) - 1
      /\ Head(code) = code[1]
      /\ \A j \in 1 .. Len(code) - 1 : rest[j] = code[j + 1]
  OBVIOUS
<1>2. \A i \in 1 .. Len(code) : Has(rest, K, i) = Has(code, H, i + 1)
  BY HasTail, Zenon
<1>0. Legal(rest, K, order)
  OBVIOUS
<1> HIDE DEF rest, K
<1>3. ASSUME NEW i \in 1 .. Len(code)
      PROVE  LET has == Has(code, H, i)
                 l == code[i].lk
             IN  /\ code[i].op = "acquire" => l \notin has /\ has \X {l} \subseteq order
                 /\ code[i].op = "release" => l \in has
                 /\ code[i].op = "sched" => has = {ptable}
  <2>1. CASE i = 1
    <3>1. Has(code, H, i) = H /\ code[i] = Head(code)
      BY <1>1, <2>1, HasFirst, Zenon
    <3> QED  BY <3>1, Zenon
  <2>2. CASE i # 1
    <3>1. /\ i - 1 \in 1 .. Len(code) - 1 /\ i - 1 \in 1 .. Len(code) /\ i - 1 \in 1 .. Len(rest)
          /\ (i - 1) + 1 = i
      BY <1>1, <2>2
    <3>2. rest[i - 1] = code[i] /\ Has(rest, K, i - 1) = Has(code, H, i)
      BY <1>1, <1>2, <3>1, Zenon
    <3> QED  BY <1>0, <3>1, <3>2, Zenon DEF Legal
  <2> QED  BY <2>1, <2>2, Zenon
<1>4. Has(code, H, Len(code) + 1) = {}
  <2>1. Len(rest) + 1 = Len(code) /\ Len(code) \in 1 .. Len(code)
    BY <1>1
  <2> QED  BY <1>0, <1>2, <2>1, Zenon DEF Legal
<1> QED  BY <1>3, <1>4, Zenon DEF Legal

LEMMA LegalEmpty ==
  ASSUME NEW H \in SUBSET Locks, NEW order
  PROVE  Legal(<<>>, H, order) <=> H = {}
<1>1. Has(<<>>, H, 1) = H
  BY HasFirst, Zenon
<1>2. Len(<<>>) = 0 /\ 1 .. 0 = {} /\ 0 + 1 = 1
  OBVIOUS
<1> QED  BY <1>1, <1>2, Zenon DEF Legal

(* ptable.lock to give back, and nothing else. *)
LEMMA LegalRel ==
  ASSUME NEW H \in SUBSET Locks, NEW order
  PROVE  Legal(<<Rel(ptable)>>, H, order) <=> H = {ptable}
<1> DEFINE code == <<Rel(ptable)>>
<1>1. Rel(ptable) \in Ops /\ Rel(ptable).op = "release" /\ Rel(ptable).lk = ptable
  BY SpinAssumption, Zenon DEF Rel, Ops
<1>2. /\ code \in Seq(Ops) /\ code # <<>> /\ Head(code) = Rel(ptable) /\ Tail(code) = <<>>
      /\ Len(code) = 1 /\ code[1] = Rel(ptable)
  BY <1>1
<1> HIDE DEF code
<1>3. After(H, Rel(ptable)) = H \ {ptable} /\ H \ {ptable} \in SUBSET Locks
  BY <1>1, Zenon DEF After
<1>4. Legal(code, H, order) => H = {ptable}
  <2> SUFFICES ASSUME Legal(code, H, order)  PROVE H = {ptable}
    OBVIOUS
  <2>1. ptable \in H
    BY <1>1, <1>2, LegalFirst, Zenon
  <2>2. Legal(<<>>, H \ {ptable}, order)
    BY <1>2, <1>3, LegalTail, Zenon
  <2>3. H \ {ptable} = {}
    BY <1>3, <2>2, LegalEmpty, Zenon
  <2> QED  BY <2>1, <2>3, Zenon
<1>5. H = {ptable} => Legal(code, H, order)
  <2> SUFFICES ASSUME H = {ptable}  PROVE Legal(code, H, order)
    OBVIOUS
  <2>1. Legal(<<>>, {}, order) /\ H \ {ptable} = {}
    BY LegalEmpty, Zenon
  <2>2. Legal(Tail(code), After(H, Head(code)), order)
    BY <1>2, <1>3, <2>1, Zenon
  <2> QED  BY <1>1, <1>2, <2>2, LegalCons, Zenon
<1> QED  BY <1>4, <1>5, Zenon DEF code

(* The scheduler's loop. *)
LEMMA LegalLoop ==
  ASSUME NEW order
  PROVE  Legal(<<Acq(ptable), Rel(ptable)>>, {}, order)
<1> DEFINE code == <<Acq(ptable), Rel(ptable)>>
<1>1. /\ Acq(ptable) \in Ops /\ Acq(ptable).op = "acquire" /\ Acq(ptable).lk = ptable
      /\ Rel(ptable) \in Ops
  BY SpinAssumption, Zenon DEF Acq, Rel, Ops
<1>2. /\ code \in Seq(Ops) /\ code # <<>> /\ Head(code) = Acq(ptable)
      /\ Tail(code) = <<Rel(ptable)>>
  BY <1>1
<1> HIDE DEF code
<1>3. After({}, Acq(ptable)) = {ptable}
  BY <1>1, Zenon DEF After
<1>4. Legal(<<Rel(ptable)>>, {ptable}, order)
  BY LegalRel, SpinAssumption, Zenon
<1>5. Legal(Tail(code), After({}, Head(code)), order)
  BY <1>2, <1>3, <1>4, Zenon
<1>6. Legal(code, {}, order)
  BY <1>1, <1>2, <1>5, LegalCons, Zenon
<1> QED  BY <1>6, Zenon DEF code

-----------------------------------------------------------------------------
LEMMA LegalInit ==
  ASSUME Init, NEW order
  PROVE  LegalInv(order)
<1>1. Legal(<<>>, {}, order) /\ Legal(<<Rel(ptable)>>, {ptable}, order)
  BY LegalEmpty, LegalRel, SpinAssumption, Zenon
<1>2. ASSUME NEW c \in Cpus  PROVE CodeInv(c, order)
  <2>1. c \in Contexts /\ c \notin Threads
    BY SpinAssumption, Zenon DEF Contexts
  <2>2. run[c] = c /\ held[c] = {} /\ step[c] = "ready" /\ todo[c] = <<>>
    BY <2>1, Zenon DEF Init
  <2> QED  BY <1>1, <2>2, Zenon DEF CodeInv, Start
<1>3. \A t \in Threads : todo[t] = <<Rel(ptable)>>
  BY Zenon DEF Init, Contexts, forkret
<1>4. ASSUME NEW x \in Contexts, NEW i \in 1 .. Len(below[x])
      PROVE  Legal(below[x][i].todo, {}, order)
  <2>1. below[x] = <<User("fork")>>
    BY <1>4 DEF Init
  <2>2. below[x][i].todo = <<>>
    BY <2>1 DEF User
  <2> QED  BY <1>1, <2>2, Zenon
<1> QED  BY <1>1, <1>2, <1>3, <1>4, Zenon DEF LegalInv, Init

(* What CPU c does leaves the code of the others alone. *)
LEMMA ElsewhereLegal ==
  ASSUME IInv, NEW order, LegalInv(order), NEW c \in Cpus, NEW d \in Cpus, d # c,
         run'[d] = run[d], held'[d] = held[d], step'[d] = step[d],
         \A x \in Contexts : x # run[c] => todo'[x] = todo[x],
         \A l \in Locks : lkcpu'[l] = lkcpu[l] \/ lkcpu[l] = c \/ l \in held[c]
  PROVE  CodeInv(d, order)'
<1>1. CodeInv(d, order) /\ run[c] # run[d] /\ run[d] \in Contexts
  BY Here, Zenon DEF LegalInv, IInv, Suspended
<1>2. todo'[run'[d]] = todo[run[d]]
  BY <1>1, Zenon
<1>3. Lk(d)' = Lk(d) /\ Start(d)' = Start(d)
  BY <1>2, Zenon DEF Lk, Start
<1>4. ASSUME NEW l \in held[d], lkcpu[l] = d  PROVE lkcpu'[l] = d
  <2>1. l \in Locks /\ l \notin held[c]
    BY Zenon DEF IInv, TypeOK, MutualExclusion
  <2> QED  BY <1>4, <2>1, Zenon
<1> QED  BY <1>1, <1>2, <1>3, <1>4 DEF CodeInv

(* Whoever is on no CPU, and what was interrupted, stays as it is. *)
LEMMA OthersLegal ==
  ASSUME NEW order, LegalInv(order), NEW c \in Cpus, UNCHANGED <<run, below>>,
         \A x \in Contexts : x # run[c] => todo'[x] = todo[x]
  PROVE  /\ \A t \in Threads : Idle(t)' => Legal(todo'[t], {ptable}, order)
         /\ \A x \in Contexts : \A i \in 1 .. Len(below'[x]) :
              Legal(below'[x][i].todo, {}, order)
<1>1. \A t \in Threads : Idle(t)' => Idle(t) /\ t \in Contexts /\ t # run[c]
  BY Zenon DEF Idle, Contexts
<1> QED  BY <1>1, Zenon DEF LegalInv

(* The operation that CPU c is at, and what it leaves to do. *)
LEMMA LegalHere ==
  ASSUME IInv, NEW order, LegalInv(order), NEW c \in Cpus, todo[run[c]] # <<>>
  PROVE  LET o == Head(todo[run[c]])
             H == Start(c)
         IN  /\ o.lk = Lk(c) /\ H \in SUBSET Locks
             /\ o.op = "acquire" => Lk(c) \notin H /\ H \X {Lk(c)} \subseteq order
             /\ o.op = "release" => Lk(c) \in H
             /\ o.op = "sched" => H = {ptable}
             /\ Legal(Tail(todo[run[c]]), After(H, o), order)
<1> DEFINE code == todo[run[c]]
           H == Start(c)
<1>1. code \in Seq(Ops) /\ code # <<>> /\ Lk(c) \in Locks
  BY Here, Zenon
<1>2. H \in SUBSET Locks
  BY <1>1, Zenon DEF Start, IInv, TypeOK
<1>3. Legal(code, H, order)
  BY Zenon DEF LegalInv, CodeInv
<1>4. Head(code).lk = Lk(c)
  BY Zenon DEF Lk
<1> HIDE DEF code, H
<1>5. Legal(Tail(code), After(H, Head(code)), order)
  BY <1>1, <1>2, <1>3, LegalTail, Zenon
<1>6. /\ Head(code).op = "acquire" => Lk(c) \notin H /\ H \X {Lk(c)} \subseteq order
      /\ Head(code).op = "release" => Lk(c) \in H
      /\ Head(code).op = "sched" => H = {ptable}
  BY <1>1, <1>2, <1>3, <1>4, LegalFirst
<1> QED  BY <1>2, <1>4, <1>5, <1>6 DEF code, H

(* A step of CPU c in its own code. *)
LEMMA LegalLockStep ==
  ASSUME IInv, NEW order, LegalInv(order), NEW c \in Cpus,
         UNCHANGED <<run, below, panicked>>,
         \A d \in Cpus : d # c => held'[d] = held[d] /\ step'[d] = step[d],
         \A x \in Contexts : x # run[c] => todo'[x] = todo[x],
         \A l \in Locks : lkcpu'[l] = lkcpu[l] \/ lkcpu[l] = c \/ l \in held[c],
         CodeInv(c, order)'
  PROVE  LegalInv(order)'
<1>1. ASSUME NEW d \in Cpus  PROVE CodeInv(d, order)'
  <2>1. CASE d = c
    BY <2>1, Zenon
  <2>2. CASE d # c
    BY <2>2, ElsewhereLegal, Zenon
  <2> QED  BY <2>1, <2>2, Zenon
<1>2. /\ \A t \in Threads : Idle(t)' => Legal(todo'[t], {ptable}, order)
      /\ \A x \in Contexts : \A i \in 1 .. Len(below'[x]) :
           Legal(below'[x][i].todo, {}, order)
  BY OthersLegal, Zenon
<1> QED  BY <1>1, <1>2, Zenon DEF LegalInv

LEMMA AcquireLegal ==
  ASSUME IInv, NEW order, LegalInv(order), NEW c \in Cpus, acquire(c)
  PROVE  LegalInv(order)'
<1>1. /\ step[c] = "ready" /\ step' = [step EXCEPT ![c] = "holding"]
      /\ UNCHANGED <<locked, lkcpu, run, todo, below, saved, fresh, held, panicked>>
  BY Zenon DEF acquire, Doing, Goes
<1>2. step'[c] = "holding" /\ \A d \in Cpus : d # c => step'[d] = step[d]
  BY <1>1, Zenon DEF IInv, TypeOK
<1>3. CodeInv(c, order)'
  <2>1. CodeInv(c, order)
    BY Zenon DEF LegalInv
  <2> QED  BY <1>1, <1>2, <2>1, Zenon DEF CodeInv, Start, Lk
<1> QED  BY <1>1, <1>2, <1>3, LegalLockStep, Zenon

(* The code has not the lock it acquires, so acquire() does not panic. *)
LEMMA AcquireTestLegal ==
  ASSUME IInv, NEW order, LegalInv(order), NEW c \in Cpus, acquire_test(c)
  PROVE  LegalInv(order)'
<1>1. step[c] = "holding" /\ todo[run[c]] # <<>> /\ Head(todo[run[c]]).op = "acquire"
  BY Zenon DEF acquire_test, Doing
<1>2. ~holding(c, Lk(c))
  <2>1. Start(c) = held[c] /\ Lk(c) \in Locks
    BY <1>1, Here, Zenon DEF Start
  <2>2. Lk(c) \notin held[c]
    BY <1>1, <2>1, LegalHere
  <2> QED  BY <2>1, <2>2, Zenon DEF holding, IInv, Owned
<1>3. /\ step' = [step EXCEPT ![c] = "xchg"]
      /\ UNCHANGED <<locked, lkcpu, run, todo, below, saved, fresh, held, panicked>>
  BY <1>2, Zenon DEF acquire_test, Goes
<1>4. step'[c] = "xchg" /\ \A d \in Cpus : d # c => step'[d] = step[d]
  BY <1>3, Zenon DEF IInv, TypeOK
<1>5. CodeInv(c, order)'
  <2>1. CodeInv(c, order)
    BY Zenon DEF LegalInv
  <2> QED  BY <1>1, <1>3, <1>4, <2>1, Zenon DEF CodeInv, Start, Lk
<1> QED  BY <1>3, <1>4, <1>5, LegalLockStep, Zenon

LEMMA XchgLegal ==
  ASSUME IInv, NEW order, LegalInv(order), NEW c \in Cpus, xchg(c)
  PROVE  LegalInv(order)'
<1> DEFINE l == Lk(c)
<1>1. /\ step[c] = "xchg" /\ todo[run[c]] # <<>> /\ ~locked[l]
      /\ held' = [held EXCEPT ![c] = @ \cup {l}]
      /\ step' = [step EXCEPT ![c] = "own"]
      /\ UNCHANGED <<lkcpu, run, todo, below, saved, fresh, panicked>>
  BY Zenon DEF xchg, Doing, Goes
<1>2. l \notin held[c] /\ Lk(c)' = l
  BY <1>1, Zenon DEF IInv, Owned, Lk
<1>3. CodeInv(c, order) /\ Start(c) = held[c]
  BY <1>1, Zenon DEF LegalInv, Start
<1> HIDE DEF l
<1>4. /\ held'[c] = held[c] \cup {l} /\ step'[c] = "own"
      /\ \A d \in Cpus : d # c => held'[d] = held[d] /\ step'[d] = step[d]
  BY <1>1 DEF IInv, TypeOK
<1>5. CodeInv(c, order)'
  <2>1. Start(c)' = held[c]
    BY <1>2, <1>4 DEF Start
  <2> QED  BY <1>1, <1>2, <1>3, <1>4, <2>1, Zenon DEF CodeInv
<1> QED  BY <1>1, <1>4, <1>5, LegalLockStep, Zenon

LEMMA AcquireOwnLegal ==
  ASSUME IInv, NEW order, LegalInv(order), NEW c \in Cpus, acquire_own(c)
  PROVE  LegalInv(order)'
<1> DEFINE l == Lk(c)
           x == run[c]
<1>1. /\ step[c] = "own" /\ todo[x] # <<>> /\ Head(todo[x]).op = "acquire"
      /\ lkcpu' = [lkcpu EXCEPT ![l] = c]
      /\ todo' = [todo EXCEPT ![x] = Tail(@)]
      /\ step' = [step EXCEPT ![c] = "ready"]
      /\ UNCHANGED <<run, below, held, panicked>>
  BY Zenon DEF acquire_own, Doing, Ends, Goes
<1>2. l \in Locks /\ x \in Contexts /\ x = run[c] /\ l \in held[c]
  BY <1>1, Here, Zenon DEF IInv, CpuInv
<1>3. Legal(Tail(todo[x]), held[c], order)
  <2>1. After(Start(c), Head(todo[x])) = held[c]
    BY <1>1, <1>2, Zenon DEF After, Start, Lk
  <2> QED  BY <1>1, <2>1, LegalHere
<1>4. \A k \in held[c] : lkcpu[k] = c \/ k = l
  BY Zenon DEF LegalInv, CodeInv
<1> HIDE DEF l, x
<1>5. /\ lkcpu'[l] = c /\ \A k \in Locks : k # l => lkcpu'[k] = lkcpu[k]
      /\ todo'[x] = Tail(todo[x]) /\ \A y \in Contexts : y # x => todo'[y] = todo[y]
      /\ step'[c] = "ready" /\ \A d \in Cpus : d # c => step'[d] = step[d]
  BY <1>1, <1>2, Zenon DEF IInv, TypeOK
<1>6. CodeInv(c, order)'
  <2>1. Start(c)' = held[c] /\ todo'[run'[c]] = Tail(todo[x])
    BY <1>1, <1>2, <1>5, Zenon DEF Start
  <2>2. \A k \in held[c] : lkcpu'[k] = c
    BY <1>2, <1>4, <1>5, Zenon DEF IInv, TypeOK
  <2> QED  BY <1>1, <1>3, <1>5, <2>1, <2>2, Zenon DEF CodeInv
<1> QED  BY <1>1, <1>2, <1>5, <1>6, LegalLockStep, Zenon

(* The code has the lock it releases, so release() does not panic. *)
LEMMA ReleaseLegal ==
  ASSUME IInv, NEW order, LegalInv(order), NEW c \in Cpus, release(c)
  PROVE  LegalInv(order)'
<1> DEFINE l == Lk(c)
<1>1. step[c] = "ready" /\ todo[run[c]] # <<>> /\ Head(todo[run[c]]).op = "release"
  BY Zenon DEF release, Doing
<1>2. Start(c) = held[c] /\ l \in Locks /\ CodeInv(c, order)
  BY <1>1, Here, Zenon DEF Start, LegalInv
<1>3. l \in held[c]
  BY <1>1, <1>2, LegalHere
<1>4. holding(c, l)
  BY <1>1, <1>2, <1>3, Zenon DEF holding, CodeInv, IInv, Owned
<1>5. /\ lkcpu' = [lkcpu EXCEPT ![l] = NoCpu]
      /\ step' = [step EXCEPT ![c] = "unlock"]
      /\ UNCHANGED <<run, todo, below, held, panicked>>
  BY <1>4, Zenon DEF release, Goes
<1>6. Lk(c)' = l
  BY <1>5, Zenon DEF Lk
<1> HIDE DEF l
<1>7. /\ \A k \in Locks : k # l => lkcpu'[k] = lkcpu[k]
      /\ step'[c] = "unlock" /\ \A d \in Cpus : d # c => step'[d] = step[d]
  BY <1>2, <1>5, Zenon DEF IInv, TypeOK
<1>8. CodeInv(c, order)'
  <2>1. Start(c)' = held[c]
    BY <1>5, <1>7, Zenon DEF Start
  <2>2. \A k \in held[c] : lkcpu'[k] = c \/ k = l
    BY <1>1, <1>2, <1>7, Zenon DEF IInv, TypeOK, CodeInv
  <2> QED  BY <1>2, <1>5, <1>6, <1>7, <2>1, <2>2 DEF CodeInv
<1>9. \A k \in Locks : lkcpu'[k] = lkcpu[k] \/ lkcpu[k] = c \/ k \in held[c]
  BY <1>3, <1>7, Zenon
<1> QED  BY <1>5, <1>7, <1>8, <1>9, LegalLockStep

LEMMA ReleaseStoreLegal ==
  ASSUME IInv, NEW order, LegalInv(order), NEW c \in Cpus, release_store(c)
  PROVE  LegalInv(order)'
<1> DEFINE l == Lk(c)
<1>1. /\ step[c] = "unlock" /\ todo[run[c]] # <<>>
      /\ held' = [held EXCEPT ![c] = @ \ {l}]
      /\ step' = [step EXCEPT ![c] = "popcli"]
      /\ UNCHANGED <<lkcpu, run, todo, below, panicked>>
  BY Zenon DEF release_store, Doing, Goes
<1>2. l \in held[c] /\ Lk(c)' = l
  BY <1>1, Zenon DEF IInv, CpuInv, Lk
<1>3. Legal(todo[run[c]], held[c], order) /\ \A k \in held[c] : lkcpu[k] = c \/ k = l
  BY <1>1, Zenon DEF LegalInv, CodeInv, Start
<1> HIDE DEF l
<1>4. /\ held'[c] = held[c] \ {l} /\ step'[c] = "popcli"
      /\ \A d \in Cpus : d # c => held'[d] = held[d] /\ step'[d] = step[d]
  BY <1>1 DEF IInv, TypeOK
<1>5. CodeInv(c, order)'
  <2>1. Start(c)' = held[c]
    BY <1>2, <1>4 DEF Start
  <2>2. Lk(c)' \notin held'[c] /\ \A k \in held'[c] : lkcpu'[k] = c
    BY <1>1, <1>2, <1>3, <1>4, Zenon
  <2> QED  BY <1>1, <1>3, <2>1, <2>2, Zenon DEF CodeInv
<1> QED  BY <1>1, <1>4, <1>5, LegalLockStep, Zenon

LEMMA PopcliLegal ==
  ASSUME IInv, NEW order, LegalInv(order), NEW c \in Cpus, popcli(c)
  PROVE  LegalInv(order)'
<1> DEFINE x == run[c]
<1>1. step[c] = "popcli" /\ todo[x] # <<>> /\ Head(todo[x]).op = "release"
  BY Zenon DEF popcli, Doing
<1>2. ~fl_if[c] /\ ncli[c] >= 1
  <2>1. ncli[c] \in Nat /\ ncli[c] # 0
    BY <1>1, Counts, Here, Zenon
  <2> QED  BY <2>1 DEF IInv, CpuInv
<1>3. /\ todo' = [todo EXCEPT ![x] = Tail(@)]
      /\ step' = [step EXCEPT ![c] = "ready"]
      /\ UNCHANGED <<lkcpu, run, below, held, panicked>>
  <2>1. ~(fl_if[c] \/ ncli[c] < 1)
    BY <1>2, Here
  <2> QED  BY <2>1, Zenon DEF popcli, Ends, Goes
<1>4. Legal(Tail(todo[x]), held[c], order)
  <2>1. Lk(c) \notin held[c]
    BY <1>1, Zenon DEF LegalInv, CodeInv
  <2>2. After(Start(c), Head(todo[x])) = held[c]
    BY <1>1, <2>1, Zenon DEF After, Start, Lk
  <2> QED  BY <1>1, <2>2, LegalHere
<1>5. x \in Contexts /\ x = run[c] /\ \A k \in held[c] : lkcpu[k] = c
  BY <1>1, Here, Zenon DEF LegalInv, CodeInv
<1> HIDE DEF x
<1>6. /\ todo'[x] = Tail(todo[x]) /\ \A y \in Contexts : y # x => todo'[y] = todo[y]
      /\ step'[c] = "ready" /\ \A d \in Cpus : d # c => step'[d] = step[d]
  BY <1>3, <1>5, Zenon DEF IInv, TypeOK
<1>7. CodeInv(c, order)'
  <2>1. Start(c)' = held[c] /\ todo'[run'[c]] = Tail(todo[x])
    BY <1>3, <1>5, <1>6, Zenon DEF Start
  <2> QED  BY <1>3, <1>4, <1>5, <1>6, <2>1, Zenon DEF CodeInv
<1> QED  BY <1>3, <1>5, <1>6, <1>7, LegalLockStep

-----------------------------------------------------------------------------
(* sched() finds ptable.lock and no other, and leaves it to the scheduler. *)
LEMMA SchedLegal ==
  ASSUME IInv, NEW order, LegalInv(order), NEW c \in Cpus, sched(c)
  PROVE  LegalInv(order)'
<1> DEFINE x == run[c]
<1>1. step[c] = "ready" /\ todo[x] # <<>> /\ Head(todo[x]).op = "sched" /\ x \in Threads
  BY Zenon DEF sched, Doing
<1>2. held[c] = {ptable} /\ Legal(Tail(todo[x]), {ptable}, order)
  <2>1. Start(c) = held[c]
    BY <1>1, Zenon DEF Start
  <2>2. held[c] = {ptable}
    BY <1>1, <2>1, LegalHere
  <2>3. After(Start(c), Head(todo[x])) = {ptable}
    BY <1>1, <2>1, <2>2, Zenon DEF After
  <2>4. Legal(Tail(todo[x]), After(Start(c), Head(todo[x])), order)
    BY <1>1, LegalHere
  <2> QED  BY <2>2, <2>3, <2>4, Zenon
<1>3. holding(c, ptable)
  BY <1>1, <1>2, Zenon DEF holding, LegalInv, CodeInv, IInv, Owned
<1>4. ncli[c] = 1 /\ ~fl_if[c]
  <2>1. ncli[c] = Cardinality(held[c])
    BY <1>1, Counts, Zenon
  <2>2. Cardinality({ptable}) = 1
    BY FS_Singleton, Zenon
  <2>3. ncli[c] = 1
    BY <1>2, <2>1, <2>2, Zenon
  <2> QED  BY <2>3 DEF IInv, CpuInv
<1>5. /\ run' = [run EXCEPT ![c] = c]
      /\ todo' = [todo EXCEPT ![x] = Tail(@)]
      /\ step' = [step EXCEPT ![c] = "ready"]
      /\ UNCHANGED <<lkcpu, below, held, panicked>>
  BY <1>3, <1>4, Zenon DEF sched, Ends, Goes
<1>6. x \in Contexts /\ c \in Contexts /\ c # x /\ x = run[c] /\ todo[c] = <<Rel(ptable)>>
  <2>1. c \notin Threads /\ CpuInv(c)
    BY Here, Zenon DEF IInv
  <2> QED  BY <1>1, <2>1, Here, Zenon DEF CpuInv
<1> HIDE DEF x
<1>7. /\ run'[c] = c /\ \A d \in Cpus : d # c => run'[d] = run[d]
      /\ todo'[x] = Tail(todo[x]) /\ \A y \in Contexts : y # x => todo'[y] = todo[y]
      /\ step'[c] = "ready" /\ \A d \in Cpus : d # c => step'[d] = step[d]
  BY <1>5, <1>6, Zenon DEF IInv, TypeOK
<1>8. ASSUME NEW d \in Cpus  PROVE CodeInv(d, order)'
  <2>1. CASE d = c
    <3>1. todo'[run'[c]] = <<Rel(ptable)>> /\ Start(c)' = {ptable}
      BY <1>2, <1>5, <1>6, <1>7, Zenon DEF Start
    <3>2. Legal(<<Rel(ptable)>>, {ptable}, order)
      BY LegalRel, SpinAssumption, Zenon
    <3>3. \A l \in held[c] : lkcpu[l] = c
      BY <1>1, Zenon DEF LegalInv, CodeInv
    <3> QED  BY <1>5, <1>7, <2>1, <3>1, <3>2, <3>3, Zenon DEF CodeInv
  <2>2. CASE d # c
    BY <1>5, <1>6, <1>7, <2>2, ElsewhereLegal
  <2> QED  BY <2>1, <2>2, Zenon
<1>9. ASSUME NEW t \in Threads, Idle(t)'  PROVE Legal(todo'[t], {ptable}, order)
  <2>1. CASE t = x
    BY <1>2, <1>7, <2>1, Zenon
  <2>2. CASE t # x
    <3>1. Idle(t) /\ t \in Contexts
      BY <1>6, <1>7, <1>9, <2>2, Zenon DEF Idle, Contexts
    <3> QED  BY <1>7, <2>2, <3>1, Zenon DEF LegalInv
  <2> QED  BY <2>1, <2>2, Zenon
<1> QED  BY <1>5, <1>8, <1>9, Zenon DEF LegalInv

(* The scheduler has ptable.lock, which is what the thread it goes to begins with. *)
LEMMA SwtchLegal ==
  ASSUME IInv, NEW order, LegalInv(order), NEW c \in Cpus, NEW t \in Threads, swtch(c, t)
  PROVE  LegalInv(order)'
<1>1. /\ run[c] = c /\ step[c] = "ready" /\ todo[c] = <<Rel(ptable)>> /\ Idle(t)
      /\ run' = [run EXCEPT ![c] = t]
      /\ UNCHANGED <<lkcpu, step, todo, below, held, panicked>>
  BY Zenon DEF swtch
<1>2. /\ run'[c] = t /\ \A d \in Cpus : d # c => run'[d] = run[d]
      /\ held[c] \in SUBSET Locks
  BY <1>1 DEF IInv, TypeOK
<1>3. held[c] = {ptable} /\ \A l \in held[c] : lkcpu[l] = c
  <2>1. CodeInv(c, order)
    BY Zenon DEF LegalInv
  <2>2. Legal(<<Rel(ptable)>>, held[c], order)
    BY <1>1, <2>1, Zenon DEF CodeInv, Start
  <2> QED  BY <1>1, <1>2, <2>1, <2>2, LegalRel, Zenon DEF CodeInv
<1>4. ASSUME NEW d \in Cpus  PROVE CodeInv(d, order)'
  <2>1. CASE d = c
    <3>1. todo'[run'[c]] = todo[t] /\ Start(c)' = {ptable}
      BY <1>1, <1>2, <1>3, Zenon DEF Start
    <3>2. Legal(todo[t], {ptable}, order)
      BY <1>1, Zenon DEF LegalInv
    <3> QED  BY <1>1, <1>3, <2>1, <3>1, <3>2, Zenon DEF CodeInv
  <2>2. CASE d # c
    BY <1>1, <1>2, <2>2, ElsewhereLegal
  <2> QED  BY <2>1, <2>2
<1>5. ASSUME NEW u \in Threads, Idle(u)'  PROVE Legal(todo'[u], {ptable}, order)
  <2>1. u # c
    BY Here
  <2>2. Idle(u)
    BY <1>1, <1>2, <1>5, <2>1, Zenon DEF Idle
  <2> QED  BY <1>1, <2>2, Zenon DEF LegalInv
<1> QED  BY <1>1, <1>4, <1>5, Zenon DEF LegalInv

(* CPU c has no lock and begins other code. *)
LEMMA LegalFresh ==
  ASSUME IInv, NEW order, LegalInv(order), NEW c \in Cpus, ncli[c] = 0,
         Legal(todo'[run[c]], {}, order), step'[c] = "ready",
         \A d \in Cpus : d # c => step'[d] = step[d],
         \A x \in Contexts : x # run[c] => todo'[x] = todo[x],
         \A x \in Contexts : \A i \in 1 .. Len(below'[x]) :
           Legal(below'[x][i].todo, {}, order),
         UNCHANGED <<lkcpu, run, held, panicked>>
  PROVE  LegalInv(order)'
<1>1. ASSUME NEW d \in Cpus  PROVE CodeInv(d, order)'
  <2>1. CASE d = c
    <3>1. held[c] = {}
      BY Counts, Zenon
    <3>2. Start(c)' = {}
      BY <3>1, Zenon DEF Start
    <3> QED  BY <2>1, <3>1, <3>2, Zenon DEF CodeInv
  <2>2. CASE d # c
    BY <2>2, ElsewhereLegal, Zenon
  <2> QED  BY <2>1, <2>2, Zenon
<1>2. ASSUME NEW t \in Threads, Idle(t)'  PROVE Legal(todo'[t], {ptable}, order)
  <2>1. Idle(t) /\ t \in Contexts /\ t # run[c]
    BY <1>2, Zenon DEF Idle, Contexts
  <2> QED  BY <2>1, Zenon DEF LegalInv
<1> QED  BY <1>1, <1>2, Zenon DEF LegalInv

LEMMA SchedulerLegal ==
  ASSUME IInv, NEW order, LegalInv(order), NEW c \in Cpus, scheduler(c)
  PROVE  LegalInv(order)'
<1> DEFINE loop == <<Acq(ptable), Rel(ptable)>>
<1>1. /\ run[c] = c /\ step[c] = "ready" /\ todo[c] = <<>>
      /\ todo' = [todo EXCEPT ![c] = loop]
      /\ UNCHANGED <<lkcpu, run, step, below, held, panicked>>
  BY Zenon DEF scheduler
<1>2. Legal(loop, {}, order)
  BY LegalLoop, Zenon
<1> HIDE DEF loop
<1>3. todo'[c] = loop /\ \A x \in Contexts : x # c => todo'[x] = todo[x]
  BY <1>1, Here, Zenon DEF IInv, TypeOK
<1>4. ncli[c] = 0
  BY <1>1, Done, Zenon
<1>5. \A x \in Contexts : \A i \in 1 .. Len(below'[x]) : Legal(below'[x][i].todo, {}, order)
  BY <1>1, Zenon DEF LegalInv
<1> QED  BY <1>1, <1>2, <1>3, <1>4, <1>5, LegalFresh

LEMMA SyscallLegal ==
  ASSUME IInv, NEW order, LegalInv(order), NEW c \in Cpus, NEW path \in Calls,
         Legal(path, {}, order), syscall(c, path)
  PROVE  LegalInv(order)'
<1> DEFINE x == run[c]
<1>1. /\ step[c] = "ready" /\ todo[x] = <<>>
      /\ todo' = [todo EXCEPT ![x] = path]
      /\ below' = [below EXCEPT ![x] = <<User("syscall")>>]
      /\ UNCHANGED <<lkcpu, run, step, held, panicked>>
  BY Zenon DEF syscall
<1>2. x \in Contexts /\ x = run[c]
  BY Here, Zenon
<1> HIDE DEF x
<1>3. /\ todo'[x] = path /\ \A y \in Contexts : y # x => todo'[y] = todo[y]
      /\ below'[x] = <<User("syscall")>> /\ \A y \in Contexts : y # x => below'[y] = below[y]
  BY <1>1, <1>2, Zenon DEF IInv, TypeOK
<1>4. ncli[c] = 0
  BY <1>1, <1>2, Done, Zenon
<1>5. ASSUME NEW y \in Contexts, NEW i \in 1 .. Len(below'[y])
      PROVE  Legal(below'[y][i].todo, {}, order)
  <2>1. CASE y = x
    <3>1. below'[y][i].todo = <<>>
      BY <1>3, <2>1 DEF User
    <3> QED  BY <3>1, LegalEmpty, Zenon
  <2>2. CASE y # x
    <3>1. below'[y] = below[y]
      BY <1>3, <2>2, Zenon
    <3> QED  BY <3>1, Zenon DEF LegalInv
  <2> QED  BY <2>1, <2>2, Zenon
<1> QED  BY <1>1, <1>2, <1>3, <1>4, <1>5, LegalFresh

LEMMA TrapLegal ==
  ASSUME IInv, NEW order, LegalInv(order), NEW c \in Cpus, NEW irq \in Irqs,
         Legal(irq, {}, order), Legal(irq \o yield, {}, order), trap(c, irq)
  PROVE  LegalInv(order)'
<1> DEFINE x == run[c]
           code == IF irq = Timer /\ x \in Threads THEN irq \o yield ELSE irq
           frame == [todo |-> todo[x], step |-> step[c], gate |-> "interrupt"]
<1>1. /\ fl_if[c]
      /\ below' = [below EXCEPT ![x] = <<frame>> \o @]
      /\ todo' = [todo EXCEPT ![x] = code]
      /\ step' = [step EXCEPT ![c] = "ready"]
      /\ UNCHANGED <<lkcpu, run, held, panicked>>
  BY Zenon DEF trap, Goes
<1>2. x \in Contexts /\ x = run[c] /\ below[x] \in Seq(Frames)
  BY Here, Zenon DEF IInv, TypeOK
<1>3. Legal(code, {}, order)
  OBVIOUS
<1>4. ncli[c] = 0 /\ step[c] = "ready" /\ held[c] = {}
  <2>1. CpuInv(c) /\ ncli[c] = 0
    BY <1>1, Zenon DEF IInv, CpuInv
  <2> QED  BY <2>1, Counts, Zenon
<1>5. Legal(frame.todo, {}, order)
  <2>1. CodeInv(c, order) /\ Start(c) = {}
    BY <1>4, Zenon DEF LegalInv, Start
  <2> QED  BY <2>1, Zenon DEF CodeInv
<1> HIDE DEF x, code, frame
<1>6. /\ todo'[x] = code /\ \A y \in Contexts : y # x => todo'[y] = todo[y]
      /\ below'[x] = <<frame>> \o below[x] /\ \A y \in Contexts : y # x => below'[y] = below[y]
      /\ step'[c] = "ready" /\ \A d \in Cpus : d # c => step'[d] = step[d]
  BY <1>1, <1>2, Zenon DEF IInv, TypeOK
<1>7. ASSUME NEW y \in Contexts, NEW i \in 1 .. Len(below'[y])
      PROVE  Legal(below'[y][i].todo, {}, order)
  <2>1. CASE y = x
    <3>0. i \in 1 .. Len(<<frame>> \o below[x]) /\ below'[y][i] = (<<frame>> \o below[x])[i]
      BY <1>6, <2>1, Zenon
    <3>1. /\ Len(below[x]) \in Nat /\ i \in 1 .. Len(below[x]) + 1
          /\ below'[y][i] = IF i = 1 THEN frame ELSE below[x][i - 1]
      BY <1>2, <3>0, Pushed
    <3>2. CASE i = 1
      BY <1>5, <3>1, <3>2, Zenon
    <3>3. CASE i # 1
      <4>1. i - 1 \in 1 .. Len(below[x]) /\ below'[y][i] = below[x][i - 1]
        BY <3>1, <3>3
      <4> QED  BY <1>2, <4>1, Zenon DEF LegalInv
    <3> QED  BY <3>2, <3>3, Zenon
  <2>2. CASE y # x
    <3>1. below'[y] = below[y]
      BY <1>6, <2>2, Zenon
    <3> QED  BY <3>1, Zenon DEF LegalInv
  <2> QED  BY <2>1, <2>2, Zenon
<1> QED  BY <1>1, <1>2, <1>3, <1>4, <1>6, <1>7, LegalFresh

LEMMA TrapretLegal ==
  ASSUME IInv, NEW order, LegalInv(order), NEW c \in Cpus, trapret(c)
  PROVE  LegalInv(order)'
<1> DEFINE x == run[c]
           frame == Head(below[x])
<1>1. /\ step[c] = "ready" /\ todo[x] = <<>> /\ below[x] # <<>>
      /\ todo' = [todo EXCEPT ![x] = frame.todo]
      /\ step' = [step EXCEPT ![c] = frame.step]
      /\ below' = [below EXCEPT ![x] = Tail(@)]
      /\ UNCHANGED <<lkcpu, run, held, panicked>>
  BY Zenon DEF trapret, Goes
<1>2. x \in Contexts /\ x = run[c] /\ below[x] \in Seq(Frames)
  BY Here, Zenon DEF IInv, TypeOK
<1>3. /\ frame = below[x][1] /\ 1 \in 1 .. Len(below[x])
      /\ \A i \in 1 .. Len(Tail(below[x])) :
           i + 1 \in 1 .. Len(below[x]) /\ Tail(below[x])[i] = below[x][i + 1]
  <2> DEFINE stack == below[x]
  <2>1. stack \in Seq(Frames) /\ stack # <<>>
    BY <1>1, <1>2, Zenon
  <2> HIDE DEF stack
  <2>2. /\ Head(stack) = stack[1] /\ Len(stack) \in Nat /\ Len(stack) >= 1
        /\ Len(Tail(stack)) = Len(stack) - 1
    BY <2>1
  <2>3. \A i \in 1 .. Len(Tail(stack)) : Tail(stack)[i] = stack[i + 1]
    BY <2>1
  <2>4. 1 \in 1 .. Len(stack) /\ \A i \in 1 .. Len(Tail(stack)) : i + 1 \in 1 .. Len(stack)
    BY <2>2
  <2> QED  BY <2>2, <2>3, <2>4, Zenon DEF stack
<1>4. frame.step = "ready" /\ Legal(frame.todo, {}, order)
  BY <1>2, <1>3 DEF IInv, Interrupted, LegalInv
<1>5. ncli[c] = 0
  BY <1>1, Done, Zenon
<1> HIDE DEF x, frame
<1>6. /\ todo'[x] = frame.todo /\ \A y \in Contexts : y # x => todo'[y] = todo[y]
      /\ below'[x] = Tail(below[x]) /\ \A y \in Contexts : y # x => below'[y] = below[y]
      /\ step'[c] = "ready" /\ \A d \in Cpus : d # c => step'[d] = step[d]
  BY <1>1, <1>2, <1>4, Zenon DEF IInv, TypeOK
<1>7. ASSUME NEW y \in Contexts, NEW i \in 1 .. Len(below'[y])
      PROVE  Legal(below'[y][i].todo, {}, order)
  <2>1. CASE y = x
    <3>1. i \in 1 .. Len(Tail(below[x])) /\ below'[y][i] = Tail(below[x])[i]
      BY <1>6, <2>1, Zenon
    <3>2. i + 1 \in 1 .. Len(below[x]) /\ below'[y][i] = below[x][i + 1]
      BY <1>3, <3>1, Zenon
    <3>3. Legal(below[x][i + 1].todo, {}, order)
      BY <1>2, <3>2, Zenon DEF LegalInv
    <3> QED  BY <3>2, <3>3, Zenon
  <2>2. CASE y # x
    <3>1. below'[y] = below[y]
      BY <1>6, <2>2, Zenon
    <3> QED  BY <3>1, Zenon DEF LegalInv
  <2> QED  BY <2>1, <2>2, Zenon
<1>8. Legal(todo'[run[c]], {}, order) /\ \A y \in Contexts : y # run[c] => todo'[y] = todo[y]
  BY <1>2, <1>4, <1>6, Zenon
<1> QED  BY <1>1, <1>5, <1>6, <1>7, <1>8, LegalFresh, Zenon

LEMMA LegalStep ==
  ASSUME IInv, NEW order, \A code \in Codes : Legal(code, {}, order), LegalInv(order),
         [Next]_vars
  PROVE  LegalInv(order)'
<1>1. CASE UNCHANGED vars
  BY <1>1, Zenon DEF vars, LegalInv, CodeInv, Start, Lk, Idle
<1>2. ASSUME NEW c \in Cpus, LockStep(c)
      PROVE  LegalInv(order)'
  BY <1>2, AcquireLegal, AcquireTestLegal, XchgLegal, AcquireOwnLegal, ReleaseLegal,
     ReleaseStoreLegal, PopcliLegal DEF LockStep
<1>3. ASSUME NEW c \in Cpus, Switches(c)
      PROVE  LegalInv(order)'
  BY <1>3, SchedLegal, SchedulerLegal, SwtchLegal, Zenon DEF Switches
<1>4. ASSUME NEW c \in Cpus, Traps(c)
      PROVE  LegalInv(order)'
  <2>1. \A path \in Calls : Legal(path, {}, order)
    BY Zenon DEF Codes
  <2>2. \A irq \in Irqs : Legal(irq, {}, order) /\ Legal(irq \o yield, {}, order)
    BY Zenon DEF Codes
  <2> QED  BY <1>4, <2>1, <2>2, SyscallLegal, TrapLegal, TrapretLegal DEF Traps
<1> QED  BY <1>1, <1>2, <1>3, <1>4 DEF Next

(***************************************************************************)
(* A CPU that has a lock takes no interrupt, and no panic of acquire(),    *)
(* release(), popcli() and sched() is reached: code that is right by       *)
(* itself stays right under all interleavings, interrupts and switches.    *)
(***************************************************************************)
THEOREM LockedIsQuietHolds == Spec => []LockedIsQuiet
<1> DEFINE any == Locks \X Locks
<1>1. Init => LegalInv(any)
  BY LegalInit, Zenon
<1>2. IInv /\ LegalInv(any) /\ [Next]_vars => LegalInv(any)'
  BY LegalAssumption, LegalStep, Zenon
<1>3. HoldersAreQuiet /\ LegalInv(any) => LockedIsQuiet
  BY Zenon DEF HoldersAreQuiet, LegalInv, LockedIsQuiet
<1> QED  BY <1>1, <1>2, <1>3, Invariance, HoldersAreQuietHolds, PTL DEF Spec

(* A CPU spins only for a lock of lower rank than those it has. *)
LEMMA SpinsFall ==
  ASSUME IInv, NEW rank \in [Locks -> Nat], LegalInv(Falls(rank)), NEW c \in Cpus,
         Doing(c, "xchg", "acquire")
  PROVE  Lk(c) \in Locks /\ \A l \in held[c] : rank[Lk(c)] < rank[l]
<1>1. step[c] = "xchg" /\ todo[run[c]] # <<>> /\ Head(todo[run[c]]).op = "acquire"
  BY Zenon DEF Doing
<1>2. Start(c) = held[c] /\ Lk(c) \in Locks
  BY <1>1, Here, Zenon DEF Start
<1>3. held[c] \X {Lk(c)} \subseteq Falls(rank)
  BY <1>1, <1>2, LegalHere, Zenon
<1>4. ASSUME NEW l \in held[c]  PROVE rank[Lk(c)] < rank[l]
  <2>1. <<l, Lk(c)>> \in Falls(rank)
    BY <1>3, Zenon
  <2> QED  BY <2>1, Zenon DEF Falls
<1> QED  BY <1>2, <1>4, Zenon

(* Of CPUs that spin, one spins for a lock of least rank. *)
LEMMA LeastSpinner ==
  ASSUME NEW S, S # {}, NEW f, \A c \in S : f[c] \in Nat
  PROVE  \E c \in S : \A d \in S : ~ (f[d] < f[c])
<1> DEFINE R == {f[c] : c \in S}
<1>1. R \in SUBSET Nat /\ R # {}
  OBVIOUS
<1>2. \A c \in S : f[c] \in R
  OBVIOUS
<1>3. \A n \in R : \E c \in S : n = f[c]
  OBVIOUS
<1> HIDE DEF R
<1>4. \E n \in R : \A m \in R : ~ (<<m, n>> \in OpToRel(<, Nat))
  BY <1>1, NatLessThanWellFounded, WFMin, Zenon
<1>5. PICK n \in R : \A m \in R : ~ (<<m, n>> \in OpToRel(<, Nat))
  BY <1>4, Zenon
<1>6. ASSUME NEW m \in R  PROVE ~ (m < n)
  <2>1. m \in Nat /\ n \in Nat
    BY <1>1, Zenon
  <2> QED  BY <1>5, <2>1, Zenon DEF OpToRel
<1>7. PICK c \in S : n = f[c]
  BY <1>3, Zenon
<1> QED  BY <1>2, <1>6, <1>7, Zenon

(***************************************************************************)
(* If the locks have an order that all code keeps to, no group of CPUs     *)
(* spins for locks that the group itself holds.  (The code of KernelLocks  *)
(* keeps to: cons, log and tickslock before ptable, ptable before kmem.)   *)
(***************************************************************************)
THEOREM NoSpinCycleHolds ==
  ASSUME Ordered
  PROVE  Spec => []NoSpinCycle
<1>1. PICK rank \in [Locks -> Nat] : \A code \in Codes : Legal(code, {}, Falls(rank))
  BY Zenon DEF Ordered
<1>2. Init => LegalInv(Falls(rank))
  BY LegalInit, Zenon
<1>3. IInv /\ LegalInv(Falls(rank)) /\ [Next]_vars => LegalInv(Falls(rank))'
  BY <1>1, LegalStep, Zenon
<1>4. ASSUME IInv, LegalInv(Falls(rank))  PROVE NoSpinCycle
  <2> SUFFICES ASSUME NEW S \in (SUBSET Cpus) \ {{}}, \A c \in S : \E d \in S : Spins(c, d)
               PROVE  FALSE
    BY Zenon DEF NoSpinCycle
  <2> DEFINE f == [c \in S |-> rank[Lk(c)]]
  <2>1. \A c \in S : c \in Cpus /\ Doing(c, "xchg", "acquire")
    BY Zenon DEF Spins
  <2>2. \A c \in S : Lk(c) \in Locks /\ \A l \in held[c] : rank[Lk(c)] < rank[l]
    BY <1>4, <2>1, SpinsFall, Zenon
  <2>3. \A c \in S : f[c] = rank[Lk(c)] /\ f[c] \in Nat
    BY <2>2, Zenon
  <2> HIDE DEF f
  <2>4. PICK c \in S : \A d \in S : ~ (f[d] < f[c])
    BY <2>3, LeastSpinner, Zenon
  <2>5. PICK d \in S : Lk(c) \in held[d]
    BY Zenon DEF Spins
  <2>6. f[d] < f[c]
    BY <2>2, <2>3, <2>5, Zenon
  <2> QED  BY <2>4, <2>6, Zenon
<1>5. IInv /\ LegalInv(Falls(rank)) => NoSpinCycle
  BY <1>4, Zenon
<1> QED  BY <1>2, <1>3, <1>5, Invariance, PTL DEF Spec

-----------------------------------------------------------------------------
LEMMA FlagInit == Init => FlagInv
<1> SUFFICES ASSUME Init  PROVE FlagInv
  OBVIOUS
<1>1. \A c \in Cpus : run[c] = c /\ c \notin Threads
  BY SpinAssumption, Zenon DEF Init
<1>2. ASSUME NEW t \in Threads
      PROVE  Gate(below[t]) = "fork" /\ Idle(t) /\ Len(below[t]) = 1
  <2>1. below[t] = <<User("fork")>>
    BY Zenon DEF Init, Contexts
  <2>2. Gate(below[t]) = "fork" /\ Len(below[t]) = 1
    BY <2>1 DEF Gate, User
  <2> QED  BY <1>1, <2>2, Zenon DEF Idle
<1>3. \A t \in Threads : 2 .. Len(below[t]) = {}
  <2>1. 2 .. 1 = {}
    OBVIOUS
  <2> QED  BY <1>2, <2>1, Zenon
<1> QED  BY <1>1, <1>2, <1>3, Zenon DEF FlagInv, Init

(* Steps that leave each CPU's flag as it is or will be again. *)
LEMMA FlagSame ==
  ASSUME FlagInv, UNCHANGED <<run, below, saved, fresh>>,
         \A c \in Cpus : run[c] \in Threads => Flag(c)' = Flag(c)
  PROVE  FlagInv'
<1>1. \A x : Gate(below'[x]) = Gate(below[x]) /\ Idle(x)' = Idle(x)
  BY Zenon DEF Gate, Idle
<1> QED  BY <1>1, Zenon DEF FlagInv

LEMMA AcquireFlag ==
  ASSUME IInv, FlagInv, NEW c \in Cpus, acquire(c)
  PROVE  FlagInv'
<1>1. /\ fl_if' = [fl_if EXCEPT ![c] = FALSE]
      /\ intena' = [intena EXCEPT ![c] = IF ncli[c] = 0 THEN fl_if[c] ELSE @]
      /\ ncli' = [ncli EXCEPT ![c] = @ + 1]
      /\ UNCHANGED <<run, below, saved, fresh>>
  BY Zenon DEF acquire, pushcli
<1>2. ASSUME NEW d \in Cpus  PROVE Flag(d)' = Flag(d)
  <2>1. CASE d = c
    <3>1. ncli'[c] = ncli[c] + 1 /\ ncli[c] \in Nat
      BY <1>1, Zenon DEF IInv, TypeOK
    <3>2. ncli'[c] # 0
      BY <3>1
    <3>3. intena'[c] = IF ncli[c] = 0 THEN fl_if[c] ELSE intena[c]
      BY <1>1, Zenon DEF IInv, TypeOK
    <3> QED  BY <2>1, <3>2, <3>3, Zenon DEF Flag
  <2>2. CASE d # c
    <3>1. ncli'[d] = ncli[d] /\ fl_if'[d] = fl_if[d] /\ intena'[d] = intena[d]
      BY <1>1, <2>2, Zenon DEF IInv, TypeOK
    <3> QED  BY <3>1, Zenon DEF Flag
  <2> QED  BY <2>1, <2>2
<1> QED  BY <1>1, <1>2, FlagSame, Zenon

(* The steps between pushcli() and popcli(), and those that panic. *)
LEMMA InsideFlag ==
  ASSUME FlagInv, UNCHANGED <<fl_if, ncli, intena, run, below, saved, fresh>>
  PROVE  FlagInv'
<1>1. \A c \in Cpus : Flag(c)' = Flag(c)
  BY Zenon DEF Flag
<1> QED  BY <1>1, FlagSame, Zenon

(* The last popcli() sets the flag that the first pushcli() found. *)
LEMMA PopcliFlag ==
  ASSUME IInv, FlagInv, NEW c \in Cpus, popcli(c)
  PROVE  FlagInv'
<1>1. CASE panic
  BY <1>1, InsideFlag, Zenon DEF panic
<1>2. CASE ~panic
  <2>1. /\ ncli[c] >= 1
        /\ ncli' = [ncli EXCEPT ![c] = @ - 1]
        /\ fl_if' = [fl_if EXCEPT ![c] = ncli[c] = 1 /\ intena[c]]
        /\ UNCHANGED <<intena, run, below, saved, fresh>>
    BY <1>2, Zenon DEF popcli
  <2>2. ASSUME NEW d \in Cpus  PROVE Flag(d)' = Flag(d)
    <3>1. CASE d = c
      <4>1. ncli'[c] = ncli[c] - 1 /\ ncli[c] \in Nat
        BY <2>1, Zenon DEF IInv, TypeOK
      <4>2. ncli[c] # 0 /\ (ncli'[c] = 0 <=> ncli[c] = 1)
        BY <2>1, <4>1
      <4>3. fl_if'[c] = (ncli[c] = 1 /\ intena[c]) /\ intena[c] \in BOOLEAN
        BY <2>1, Zenon DEF IInv, TypeOK
      <4>4. CASE ncli[c] = 1
        <5>1. fl_if'[c] = intena[c]
          BY <4>3, <4>4, Zenon
        <5> QED  BY <3>1, <4>2, <4>4, <5>1, Zenon DEF Flag
      <4>5. CASE ncli[c] # 1
        BY <2>1, <3>1, <4>2, <4>5, Zenon DEF Flag
      <4> QED  BY <4>4, <4>5, Zenon
    <3>2. CASE d # c
      <4>1. ncli'[d] = ncli[d] /\ fl_if'[d] = fl_if[d]
        BY <2>1, <3>2, ZenonT(30) DEF IInv, TypeOK
      <4> QED  BY <2>1, <4>1, Zenon DEF Flag
    <3> QED  BY <3>1, <3>2, Zenon
  <2> QED  BY <2>1, <2>2, FlagSame
<1> QED  BY <1>1, <1>2, Zenon

(* sched() keeps the thread's flag in saved. *)
LEMMA SchedFlag ==
  ASSUME IInv, FlagInv, NEW c \in Cpus, sched(c)
  PROVE  FlagInv'
<1>1. CASE panic
  BY <1>1, InsideFlag, Zenon DEF panic
<1>2. CASE ~panic
  <2> DEFINE x == run[c]
  <2>1. /\ x \in Threads /\ ncli[c] = 1
        /\ saved' = [saved EXCEPT ![x] = intena[c]]
        /\ run' = [run EXCEPT ![c] = c]
        /\ UNCHANGED <<fl_if, ncli, intena, below, fresh>>
    BY <1>2, Zenon DEF sched
  <2>2. c \notin Threads /\ x = run[c]
    BY Here, Zenon
  <2> HIDE DEF x
  <2>3. /\ run'[c] = c /\ \A d \in Cpus : d # c => run'[d] = run[d]
        /\ saved'[x] = intena[c] /\ \A t \in Threads : t # x => saved'[t] = saved[t]
    BY <2>1, Zenon DEF IInv, TypeOK
  <2>4. (\A y : Gate(below'[y]) = Gate(below[y])) /\ \A d \in Cpus : Flag(d)' = Flag(d)
    BY <2>1, Zenon DEF Gate, Flag
  <2>5. Flag(c) = intena[c]
    BY <2>1 DEF Flag
  <2>6. ASSUME NEW d \in Cpus, run'[d] \in Threads, Gate(below'[run'[d]]) # "fork"
        PROVE  Flag(d)' <=> Gate(below'[run'[d]]) # "interrupt"
    <3>1. d # c
      BY <2>2, <2>3, <2>6
    <3>2. run'[d] = run[d]
      BY <2>3, <3>1, Zenon
    <3>3. Gate(below'[run'[d]]) = Gate(below[run[d]])
      BY <2>4, <3>2
    <3> QED  BY <2>4, <2>6, <3>2, <3>3, Zenon DEF FlagInv
  <2>7. ASSUME NEW t \in Threads, Idle(t)', Gate(below'[t]) # "fork"
        PROVE  saved'[t] <=> Gate(below'[t]) # "interrupt"
    <3>1. CASE t = x
      BY <2>1, <2>2, <2>3, <2>4, <2>5, <2>7, <3>1, Zenon DEF FlagInv
    <3>2. CASE t # x
      <4>1. Idle(t)
        BY <2>2, <2>3, <2>7, <3>2 DEF Idle
      <4> QED  BY <2>3, <2>4, <2>7, <3>2, <4>1, Zenon DEF FlagInv
    <3> QED  BY <3>1, <3>2, Zenon
  <2>8. \A t \in fresh' : Gate(below'[t]) = "fork" /\ Idle(t)'
    <3>1. \A t \in fresh : t \in Threads
      BY Zenon DEF IInv, TypeOK
    <3> QED  BY <2>1, <2>2, <2>3, <2>4, <3>1 DEF FlagInv, Idle
  <2>9. \A y \in Threads : \A i \in 2 .. Len(below'[y]) : below'[y][i].gate # "interrupt"
    BY <2>1, Zenon DEF FlagInv
  <2> QED  BY <2>6, <2>7, <2>8, <2>9 DEF FlagInv
<1> QED  BY <1>1, <1>2, Zenon

(* sched() restores it on whichever CPU the thread comes back to. *)
LEMMA SwtchFlag ==
  ASSUME IInv, FlagInv, NEW c \in Cpus, NEW t \in Threads, swtch(c, t)
  PROVE  FlagInv'
<1>1. /\ run[c] = c /\ step[c] = "ready" /\ todo[c] = <<Rel(ptable)>> /\ Idle(t)
      /\ run' = [run EXCEPT ![c] = t]
      /\ intena' = [intena EXCEPT ![c] = IF t \in fresh THEN @ ELSE saved[t]]
      /\ fresh' = fresh \ {t}
      /\ UNCHANGED <<fl_if, ncli, below, saved>>
  BY Zenon DEF swtch, Resumed
<1>2. ncli[c] # 0
  <2>1. ncli[c] = Net(todo[c])
    BY <1>1, Counts, Zenon
  <2> QED  BY <1>1, <2>1, NetRel
<1>3. /\ run'[c] = t /\ \A d \in Cpus : d # c => run'[d] = run[d] /\ intena'[d] = intena[d]
      /\ intena'[c] = IF t \in fresh THEN intena[c] ELSE saved[t]
  BY <1>1, Zenon DEF IInv, TypeOK
<1>4. \A y : Gate(below'[y]) = Gate(below[y])
  BY <1>1, Zenon DEF Gate
<1>5. ASSUME NEW d \in Cpus, run'[d] \in Threads, Gate(below'[run'[d]]) # "fork"
      PROVE  Flag(d)' <=> Gate(below'[run'[d]]) # "interrupt"
  <2>1. CASE d = c
    <3>1. run'[d] = t /\ Gate(below'[t]) = Gate(below[t])
      BY <1>3, <1>4, <2>1
    <3>2. Gate(below[t]) # "fork" /\ t \notin fresh
      BY <1>5, <3>1, Zenon DEF FlagInv
    <3>3. Flag(d)' = saved[t]
      BY <1>1, <1>2, <1>3, <2>1, <3>2, Zenon DEF Flag
    <3> QED  BY <1>1, <3>1, <3>2, <3>3, Zenon DEF FlagInv
  <2>2. CASE d # c
    <3>1. run'[d] = run[d] /\ Gate(below'[run'[d]]) = Gate(below[run[d]]) /\ Flag(d)' = Flag(d)
      BY <1>1, <1>3, <1>4, <2>2 DEF Flag
    <3> QED  BY <1>5, <3>1, Zenon DEF FlagInv
  <2> QED  BY <2>1, <2>2, Zenon
<1>6. ASSUME NEW u, u # t, u \in Threads  PROVE Idle(u)' <=> Idle(u)
  <2>1. u # c
    BY <1>6, Here
  <2> QED  BY <1>1, <1>3, <1>6, <2>1, Zenon DEF Idle
<1>7. ASSUME NEW u \in Threads, Idle(u)', Gate(below'[u]) # "fork"
      PROVE  saved'[u] <=> Gate(below'[u]) # "interrupt"
  <2>1. u # t
    BY <1>3, <1>7 DEF Idle
  <2> QED  BY <1>1, <1>4, <1>6, <1>7, <2>1, Zenon DEF FlagInv
<1>8. \A u \in fresh' : Gate(below'[u]) = "fork" /\ Idle(u)'
  <2>1. \A u \in fresh' : u \in fresh /\ u # t /\ u \in Threads
    BY <1>1, Zenon DEF IInv, TypeOK
  <2> QED  BY <1>4, <1>6, <2>1, Zenon DEF FlagInv
<1>9. \A y \in Threads : \A i \in 2 .. Len(below'[y]) : below'[y][i].gate # "interrupt"
  BY <1>1, Zenon DEF FlagInv
<1> QED  BY <1>5, <1>7, <1>8, <1>9, Zenon DEF FlagInv

LEMMA SchedulerFlag ==
  ASSUME IInv, FlagInv, NEW c \in Cpus, scheduler(c)
  PROVE  FlagInv'
<1>1. /\ run[c] = c /\ fl_if' = [fl_if EXCEPT ![c] = TRUE]
      /\ UNCHANGED <<ncli, intena, run, below, saved, fresh>>
  BY Zenon DEF scheduler
<1>2. c \notin Threads /\ \A d \in Cpus : d # c => fl_if'[d] = fl_if[d]
  BY <1>1, Here, Zenon DEF IInv, TypeOK
<1>3. \A d \in Cpus : run[d] \in Threads => Flag(d)' = Flag(d)
  BY <1>1, <1>2, Zenon DEF Flag
<1> QED  BY <1>1, <1>3, FlagSame, Zenon

(***************************************************************************)
(* A thread on CPU c goes through a gate or returns: what changes is the   *)
(* thread's stack and the flag of the CPU it is on.                        *)
(***************************************************************************)
LEMMA FlagGate ==
  ASSUME IInv, FlagInv, NEW c \in Cpus, UNCHANGED <<run, saved, fresh>>,
         \A y \in Contexts : y # run[c] => below'[y] = below[y],
         \A d \in Cpus : d # c => Flag(d)' = Flag(d),
         run[c] \in Threads =>
           /\ Gate(below'[run'[c]]) # "fork" => (Flag(c)' <=> Gate(below'[run'[c]]) # "interrupt")
           /\ \A i \in 2 .. Len(below'[run'[c]]) : below'[run'[c]][i].gate # "interrupt"
  PROVE  FlagInv'
<1>1. \A y : Idle(y)' <=> Idle(y)
  BY Zenon DEF Idle
<1>2. \A y \in Contexts : y # run[c] => Gate(below'[y]) = Gate(below[y])
  BY Zenon DEF Gate
<1>3. \A y \in Threads : Idle(y) => y # run[c] /\ y \in Contexts
  BY Zenon DEF Idle, Contexts
<1>4. ASSUME NEW d \in Cpus, run'[d] \in Threads, Gate(below'[run'[d]]) # "fork"
      PROVE  Flag(d)' <=> Gate(below'[run'[d]]) # "interrupt"
  <2>1. CASE d = c
    BY <1>4, <2>1, Zenon
  <2>2. CASE d # c
    <3>1. run[d] # run[c] /\ run[d] \in Contexts /\ run'[d] = run[d]
      BY <2>2, Here, Zenon DEF IInv, Suspended
    <3> QED  BY <1>2, <1>4, <2>2, <3>1, Zenon DEF FlagInv
  <2> QED  BY <2>1, <2>2, Zenon
<1>5. ASSUME NEW t \in Threads, Idle(t)', Gate(below'[t]) # "fork"
      PROVE  saved'[t] <=> Gate(below'[t]) # "interrupt"
  BY <1>1, <1>2, <1>3, <1>5, Zenon DEF FlagInv
<1>6. \A t \in fresh' : Gate(below'[t]) = "fork" /\ Idle(t)'
  <2>1. \A t \in fresh : t \in Threads /\ Idle(t) /\ Gate(below[t]) = "fork"
    BY Zenon DEF IInv, TypeOK, FlagInv
  <2> QED  BY <1>1, <1>2, <1>3, <2>1, Zenon
<1>7. ASSUME NEW y \in Threads, NEW i \in 2 .. Len(below'[y])
      PROVE  below'[y][i].gate # "interrupt"
  <2>1. CASE y = run[c]
    BY <1>7, <2>1
  <2>2. CASE y # run[c]
    <3>1. below'[y] = below[y]
      BY <2>2, Zenon DEF Contexts
    <3> QED  BY <1>7, <3>1, Zenon DEF FlagInv
  <2> QED  BY <2>1, <2>2, Zenon
<1> QED  BY <1>4, <1>5, <1>6, <1>7, Zenon DEF FlagInv

(* The gate of a system call leaves FL_IF, which is set in user mode. *)
LEMMA SyscallFlag ==
  ASSUME IInv, FlagInv, NEW c \in Cpus, NEW path \in Calls, syscall(c, path)
  PROVE  FlagInv'
<1> DEFINE x == run[c]
<1>1. /\ x \in Threads /\ below[x] = <<>>
      /\ below' = [below EXCEPT ![x] = <<User("syscall")>>]
      /\ UNCHANGED <<fl_if, ncli, intena, run, saved, fresh>>
  BY Zenon DEF syscall
<1>2. x \in Contexts /\ x = run[c]
  BY Here, Zenon
<1> HIDE DEF x
<1>3. below'[x] = <<User("syscall")>> /\ \A y \in Contexts : y # x => below'[y] = below[y]
  BY <1>1, <1>2, Zenon DEF IInv, TypeOK
<1>4. \A d \in Cpus : Flag(d)' = Flag(d)
  BY <1>1, Zenon DEF Flag
<1>5. Flag(c)
  <2>1. Gate(below[x]) = "none"
    BY <1>1, Zenon DEF Gate
  <2> QED  BY <1>1, <1>2, <2>1, Zenon DEF FlagInv
<1>6. Gate(below'[x]) = "syscall"
  <2>1. below'[x] # <<>> /\ Head(below'[x]).gate = "syscall"
    BY <1>3 DEF User
  <2> QED  BY <2>1, Zenon DEF Gate
<1>7. \A i \in 2 .. Len(below'[x]) : below'[x][i].gate # "interrupt"
  BY <1>3
<1> QED  BY <1>1, <1>2, <1>3, <1>4, <1>5, <1>6, <1>7, FlagGate

(* An interrupt clears FL_IF, and comes only where it was set. *)
LEMMA TrapFlag ==
  ASSUME IInv, FlagInv, NEW c \in Cpus, NEW irq \in Irqs, trap(c, irq)
  PROVE  FlagInv'
<1> DEFINE x == run[c]
           frame == [todo |-> todo[x], step |-> step[c], gate |-> "interrupt"]
<1>1. /\ fl_if[c]
      /\ below' = [below EXCEPT ![x] = <<frame>> \o @]
      /\ fl_if' = [fl_if EXCEPT ![c] = FALSE]
      /\ UNCHANGED <<ncli, intena, run, saved, fresh>>
  BY Zenon DEF trap
<1>2. x \in Contexts /\ x = run[c] /\ below[x] \in Seq(Frames) /\ frame.gate = "interrupt"
  BY Here, Zenon DEF IInv, TypeOK
<1>3. ncli[c] = 0
  BY <1>1, Zenon DEF IInv, CpuInv
<1> HIDE DEF x, frame
<1>4. /\ below'[x] = <<frame>> \o below[x] /\ \A y \in Contexts : y # x => below'[y] = below[y]
      /\ fl_if'[c] = FALSE /\ \A d \in Cpus : d # c => fl_if'[d] = fl_if[d]
  BY <1>1, <1>2, Zenon DEF IInv, TypeOK
<1>5. Flag(c)' = FALSE /\ Flag(c) /\ \A d \in Cpus : d # c => Flag(d)' = Flag(d)
  BY <1>1, <1>3, <1>4, Zenon DEF Flag
<1>6. /\ Len(below[x]) \in Nat /\ Len(below'[x]) = Len(below[x]) + 1
      /\ below'[x] # <<>> /\ Head(below'[x]) = frame
      /\ \A i \in 2 .. Len(below[x]) + 1 : below'[x][i] = below[x][i - 1]
  <2> DEFINE stack == below[x]
             new == <<frame>> \o stack
  <2>1. stack \in Seq(Frames)
    BY <1>2, Zenon
  <2> HIDE DEF stack
  <2>2. /\ Len(stack) \in Nat /\ Len(new) = Len(stack) + 1 /\ new # <<>> /\ Head(new) = frame
        /\ \A i \in 2 .. Len(stack) + 1 : new[i] = stack[i - 1]
    BY <2>1
  <2>3. below'[x] = new /\ below[x] = stack
    BY <1>4, Zenon DEF stack
  <2> HIDE DEF new
  <2> QED  BY <2>2, <2>3, Zenon
<1>7. Gate(below'[x]) = "interrupt"
  BY <1>2, <1>6, Zenon DEF Gate
<1>8. ASSUME x \in Threads, NEW i \in 2 .. Len(below'[x])
      PROVE  below'[x][i].gate # "interrupt"
  <2>1. /\ i - 1 \in 1 .. Len(below[x]) /\ below'[x][i] = below[x][i - 1]
        /\ i - 1 # 1 => i - 1 \in 2 .. Len(below[x])
    BY <1>6
  <2>2. CASE i - 1 = 1
    <3>1. below[x] # <<>> /\ Head(below[x]) = below[x][1]
      BY <1>2, <2>1, <2>2
    <3>2. Gate(below[x]) = below[x][1].gate
      BY <3>1, Zenon DEF Gate
    <3>3. Gate(below[x]) # "interrupt"
      BY <1>2, <1>5, <1>8, Zenon DEF FlagInv
    <3> QED  BY <2>1, <2>2, <3>2, <3>3, Zenon
  <2>3. CASE i - 1 # 1
    BY <1>8, <2>1, <2>3 DEF FlagInv
  <2> QED  BY <2>2, <2>3, Zenon
<1>9. run'[c] = x /\ run[c] = x
  BY <1>1, <1>2, Zenon
<1>10. run[c] \in Threads =>
         /\ Gate(below'[run'[c]]) # "fork" =>
              (Flag(c)' <=> Gate(below'[run'[c]]) # "interrupt")
         /\ \A i \in 2 .. Len(below'[run'[c]]) : below'[run'[c]][i].gate # "interrupt"
  BY <1>5, <1>7, <1>8, <1>9, Zenon
<1>11. \A y \in Contexts : y # run[c] => below'[y] = below[y]
  BY <1>4, <1>9, Zenon
<1> QED  BY <1>1, <1>5, <1>10, <1>11, FlagGate, Zenon

(* iret sets FL_IF, and what it returns to is no interrupt handler. *)
LEMMA TrapretFlag ==
  ASSUME IInv, FlagInv, NEW c \in Cpus, trapret(c)
  PROVE  FlagInv'
<1> DEFINE x == run[c]
<1>1. /\ step[c] = "ready" /\ todo[x] = <<>> /\ below[x] # <<>>
      /\ below' = [below EXCEPT ![x] = Tail(@)]
      /\ fl_if' = [fl_if EXCEPT ![c] = TRUE]
      /\ UNCHANGED <<ncli, intena, run, saved, fresh>>
  BY Zenon DEF trapret
<1>2. x \in Contexts /\ x = run[c] /\ below[x] \in Seq(Frames)
  BY Here, Zenon DEF IInv, TypeOK
<1>3. ncli[c] = 0
  BY <1>1, Done, Zenon
<1> HIDE DEF x
<1>4. /\ below'[x] = Tail(below[x]) /\ \A y \in Contexts : y # x => below'[y] = below[y]
      /\ fl_if'[c] = TRUE /\ \A d \in Cpus : d # c => fl_if'[d] = fl_if[d]
  BY <1>1, <1>2 DEF IInv, TypeOK
<1>5. Flag(c)' = TRUE /\ \A d \in Cpus : d # c => Flag(d)' = Flag(d)
  BY <1>1, <1>3, <1>4 DEF Flag
<1>6. \A i \in 1 .. Len(below'[x]) :
        i + 1 \in 2 .. Len(below[x]) /\ below'[x][i] = below[x][i + 1]
  <2> DEFINE stack == below[x]
  <2>1. stack \in Seq(Frames) /\ stack # <<>>
    BY <1>1, <1>2, Zenon
  <2> HIDE DEF stack
  <2>2. Len(stack) \in Nat /\ Len(Tail(stack)) = Len(stack) - 1
    BY <2>1
  <2>3. \A i \in 1 .. Len(Tail(stack)) : Tail(stack)[i] = stack[i + 1]
    BY <2>1
  <2>4. \A i \in 1 .. Len(Tail(stack)) : i + 1 \in 2 .. Len(stack)
    BY <2>2
  <2> QED  BY <1>4, <2>3, <2>4, Zenon DEF stack
<1>7. ASSUME x \in Threads, NEW i \in 1 .. Len(below'[x])
      PROVE  below'[x][i].gate # "interrupt"
  BY <1>6, <1>7, Zenon DEF FlagInv
<1>8. x \in Threads => Gate(below'[x]) # "interrupt"
  <2>1. below'[x] \in Seq(Frames)
    BY <1>1, <1>2, <1>4
  <2>2. below'[x] # <<>> => 1 \in 1 .. Len(below'[x]) /\ Head(below'[x]) = below'[x][1]
    BY <2>1
  <2> QED  BY <1>7, <2>2 DEF Gate
<1>9. ASSUME x \in Threads, NEW i \in 2 .. Len(below'[x])
      PROVE  below'[x][i].gate # "interrupt"
  <2>1. i \in 1 .. Len(below'[x])
    OBVIOUS
  <2> QED  BY <1>7, <1>9, <2>1, Zenon
<1>10. run'[c] = x /\ run[c] = x
  BY <1>1, <1>2, Zenon
<1>11. run[c] \in Threads =>
         /\ Gate(below'[run'[c]]) # "fork" =>
              (Flag(c)' <=> Gate(below'[run'[c]]) # "interrupt")
         /\ \A i \in 2 .. Len(below'[run'[c]]) : below'[run'[c]][i].gate # "interrupt"
  BY <1>5, <1>8, <1>9, <1>10, Zenon
<1>12. \A y \in Contexts : y # run[c] => below'[y] = below[y]
  BY <1>4, <1>10, Zenon
<1> QED  BY <1>1, <1>5, <1>11, <1>12, FlagGate, Zenon

LEMMA FlagStep ==
  ASSUME IInv, FlagInv, [Next]_vars
  PROVE  FlagInv'
<1>1. CASE UNCHANGED vars
  BY <1>1, InsideFlag, Zenon DEF vars
<1>2. ASSUME NEW c \in Cpus, LockStep(c)
      PROVE  FlagInv'
  <2>1. CASE acquire_test(c) \/ xchg(c) \/ acquire_own(c) \/ release(c) \/ release_store(c)
    <3>1. UNCHANGED <<fl_if, ncli, intena, run, below, saved, fresh>>
      BY <2>1, Zenon DEF acquire_test, xchg, acquire_own, release, release_store, panic
    <3> QED  BY <3>1, InsideFlag
  <2> QED  BY <1>2, <2>1, AcquireFlag, PopcliFlag, Zenon DEF LockStep
<1>3. ASSUME NEW c \in Cpus, Switches(c)
      PROVE  FlagInv'
  BY <1>3, SchedFlag, SchedulerFlag, SwtchFlag DEF Switches
<1>4. ASSUME NEW c \in Cpus, Traps(c)
      PROVE  FlagInv'
  BY <1>4, SyscallFlag, TrapFlag, TrapretFlag, Zenon DEF Traps
<1> QED  BY <1>1, <1>2, <1>3, <1>4 DEF Next

(***************************************************************************)
(* intena belongs to the thread: outside of locks, on whichever CPU it is, *)
(* a thread has interrupts off exactly in an interrupt handler.            *)
(***************************************************************************)
THEOREM IntrRestoredHolds == Spec => []IntrRestored
<1>1. Init => FlagInv
  BY FlagInit, Zenon
<1>2. IInv /\ FlagInv /\ [Next]_vars => FlagInv'
  BY FlagStep, Zenon
<1>3. FlagInv => IntrRestored
  BY Zenon DEF FlagInv, IntrRestored, Flag, Gate
<1> QED  BY <1>1, <1>2, <1>3, Invariance, PTL DEF Spec
=============================================================================
