----------------------------- MODULE ProcProofs -----------------------------
(***************************************************************************)
(* Theorems about ProcTable for every number of CPUs and slots, with any   *)
(* kill() and any failing fork(): the types, one CPU for each running      *)
(* process, a living parent for each process, no lost wakeup of wait(),    *)
(* and distinct pids.                                                      *)
(*                                                                         *)
(* The argument.  Whoever gives up a CPU hands over to a process that is   *)
(* RUNNABLE, so no CPU ever takes a process from another (HandOver).  A    *)
(* parent is always alive because exit() gives the children away in the    *)
(* step that ends it; and a sleeper in wait() sleeps on its own slot,      *)
(* which is where the exit of a child, or of a parent of zombies, looks.   *)
(***************************************************************************)
EXTENDS ProcTable, TLAPS, FiniteSetTheorems, WellFoundedInduction

(* CPUs and running processes correspond. *)
Running ==
  /\ \A c \in Cpus : cpu[c] # 0 => state[cpu[c]] = "RUNNING"
  /\ \A c, d \in Cpus : (cpu[c] # 0 /\ cpu[c] = cpu[d]) => c = d
  /\ \A s \in Slots : state[s] = "RUNNING" => \E c \in Cpus : cpu[c] = s

(* A process in fork() has a half-made child of its own. *)
Forking ==
  \A s \in Slots : pc[s] = "fork" =>
    /\ child[s] \in Slots /\ state[child[s]] = "EMBRYO"
    /\ state[s] \in {"RUNNING", "RUNNABLE"}
    /\ \A q \in Slots : (pc[q] = "fork" /\ child[q] = child[s]) => q = s

(* Who has a parent, and that it is alive. *)
Family ==
  /\ parent[initproc] = 0 /\ Alive(initproc)
  /\ \A s \in Slots : parent[s] # 0 => parent[s] # s /\ Alive(parent[s])
  /\ \A s \in Slots : state[s] \in {"UNUSED", "EMBRYO"} => parent[s] = 0
  /\ \A s \in Slots \ {initproc} :
       state[s] \notin {"UNUSED", "EMBRYO"} => parent[s] # 0

(* A sleeper in wait() is where its children look for it. *)
Waiting ==
  \A s \in Slots : (state[s] = "SLEEPING" /\ pc[s] = "wait") => chan[s] = s

(* The inductive invariant. *)
IInv ==
  /\ TypeOK
  /\ Running
  /\ Forking
  /\ Family
  /\ Waiting
  /\ WaitMissesNothing
  /\ PidsDistinct

-----------------------------------------------------------------------------
(* The least of some naturals is one of them. *)
LEMMA MinIn ==
  ASSUME NEW S \in SUBSET Nat, S # {}
  PROVE  Min(S) \in S
<1> DEFINE UpTo(n) == {m \in S : m <= n}
           T == {UpTo(n) : n \in S}
<1>1. IsWellFoundedOn(StrictSubsetOrdering(Nat), FiniteSubsetsOf(Nat))
  BY FS_StrictSubsetOrderingWellFounded
<1>2. ASSUME NEW n \in S
      PROVE  UpTo(n) \in FiniteSubsetsOf(Nat)
  <2>1. IsFiniteSet(0 .. n)
    BY FS_Interval
  <2>2. UpTo(n) \subseteq 0 .. n
    <3> SUFFICES ASSUME NEW m \in S, m <= n  PROVE m \in 0 .. n
      OBVIOUS
    <3> QED  OBVIOUS
  <2>3. IsFiniteSet(UpTo(n))
    BY <2>1, <2>2, FS_Subset
  <2> QED  BY <2>3, Zenon DEF FiniteSubsetsOf
<1>3. T \subseteq FiniteSubsetsOf(Nat) /\ T # {}
  BY <1>2, Zenon
<1>4. PICK x \in T : \A y \in T : ~ (<<y, x>> \in StrictSubsetOrdering(Nat))
  <2> HIDE DEF T
  <2> QED  BY <1>1, <1>3, WFMin
<1>5. PICK n \in S : x = UpTo(n)
  OBVIOUS
<1>6. ASSUME NEW m \in S, ~ n <= m
      PROVE  FALSE
  <2>1. UpTo(m) \subseteq UpTo(n) /\ n \in UpTo(n) /\ n \notin UpTo(m)
    <3>1. \A k \in S : k <= m => k <= n
      BY <1>6
    <3>2. n <= n /\ ~ n <= m
      BY <1>6
    <3> QED  BY <3>1, <3>2, Zenon
  <2>2. UpTo(m) \in T /\ UpTo(m) \in SUBSET Nat /\ UpTo(n) \in SUBSET Nat
    OBVIOUS
  <2>3. <<UpTo(m), UpTo(n)>> \in StrictSubsetOrdering(Nat)
    <3> HIDE DEF UpTo
    <3> QED  BY <2>1, <2>2 DEF StrictSubsetOrdering
  <2> QED  BY <1>4, <1>5, <2>2, <2>3, Zenon
<1> QED  BY <1>6, Zenon DEF Min

(***************************************************************************)
(* get_smallest_pid() gives a number that no process has: -1 only if every *)
(* other one is taken, and then by NPROC slots, of which none has -1.      *)
(***************************************************************************)
LEMMA PidFree ==
  ASSUME TypeOK, NEW q \in Slots
  PROVE  /\ get_smallest_pid(q) \in -1 .. NPROC - 1
         /\ \A r \in Slots : (state[r] # "UNUSED" /\ r # q) => get_smallest_pid(q) # pid[r]
<1> DEFINE live == {x \in Slots : x = q \/ state[x] # "UNUSED"}
           taken == {pid[s] : s \in live}
           free == (0 .. NPROC - 1) \ taken
<1>1. get_smallest_pid(q) = IF free = {} THEN -1 ELSE Min(free)
  BY DEF get_smallest_pid
<1>2. \A r \in Slots : (state[r] # "UNUSED" /\ r # q) => pid[r] \in taken
  OBVIOUS
<1>3. CASE free # {}
  <2>1. Min(free) \in 0 .. NPROC - 1 /\ Min(free) \notin taken
    <3>1. free \in SUBSET Nat
      BY NPROCAssumption
    <3>2. Min(free) \in free
      BY <1>3, <3>1, MinIn, Zenon
    <3> QED  BY <3>2
  <2>2. get_smallest_pid(q) = Min(free)
    BY <1>1, <1>3
  <2>3. get_smallest_pid(q) \in -1 .. NPROC - 1
    BY <2>1, <2>2, NPROCAssumption
  <2> HIDE DEF taken, free
  <2> QED  BY <1>2, <2>1, <2>2, <2>3
<1>4. CASE free = {}
  <2>1. SUFFICES ASSUME NEW r \in Slots, state[r] # "UNUSED", r # q
                 PROVE  pid[r] # -1
    BY <1>1, <1>4, NPROCAssumption
  <2>2. SUFFICES ASSUME pid[r] = -1 PROVE FALSE
    OBVIOUS
  <2>3. 0 .. NPROC - 1 \subseteq taken
    BY <1>4
  <2> DEFINE others == Slots \ {r}
             f == [s \in others |-> IF pid[s] \in 0 .. NPROC - 1 THEN pid[s] ELSE 0]
  <2>4. f \in Surjection(others, 0 .. NPROC - 1)
    <3>1. f \in [others -> 0 .. NPROC - 1]
      BY NPROCAssumption
    <3>2. ASSUME NEW n \in 0 .. NPROC - 1
          PROVE  \E s \in others : f[s] = n
      <4>1. PICK s \in live : pid[s] = n
        BY <2>3
      <4>2. s \in others
        BY <2>2, <4>1
      <4> QED  BY <4>1, <4>2
    <3> HIDE DEF f, others
    <3> QED  BY <3>1, <3>2 DEF Surjection
  <2>5. IsFiniteSet(Slots) /\ Cardinality(Slots) = NPROC
    BY FS_Interval, NPROCAssumption DEF Slots
  <2>6. IsFiniteSet(others) /\ Cardinality(others) = NPROC - 1
    BY <2>5, FS_RemoveElement, NPROCAssumption
  <2>7. Cardinality(0 .. NPROC - 1) = NPROC
    BY FS_Interval, NPROCAssumption
  <2> HIDE DEF f, others
  <2>8. Cardinality(0 .. NPROC - 1) <= Cardinality(others)
    BY <2>4, <2>6, FS_Surjection
  <2> QED  BY <2>6, <2>7, <2>8, NPROCAssumption
<1> QED  BY <1>3, <1>4

-----------------------------------------------------------------------------
LEMMA InitOK ==
  ASSUME userinit
  PROVE  IInv
<1>1. TypeOK
  <2>1. {0, 1} \subseteq -1 .. NPROC - 1 /\ 0 \in 0 .. NPROC /\ 0 \in 0 .. ticks
    BY NPROCAssumption DEF ticks
  <2> QED  BY Zenon, <2>1 DEF userinit, TypeOK, States
<1>2. Running /\ Forking /\ Waiting /\ WaitMissesNothing /\ PidsDistinct
  BY DEF userinit, Running, Forking, Waiting, WaitMissesNothing, PidsDistinct, Slots
<1>3. Family
  BY NPROCAssumption DEF userinit, Family, Alive, Slots, initproc
<1> QED  BY <1>1, <1>2, <1>3 DEF IInv

(***************************************************************************)
(* sched() and scheduler(): with states st, in which this CPU's process is *)
(* no longer RUNNING, the CPU goes to a RUNNABLE process or to its loop.   *)
(***************************************************************************)
LEMMA HandOver ==
  ASSUME TypeOK, Running, NEW c \in Cpus, NEW st \in [Slots -> States],
         cpu[c] # 0 => st[cpu[c]] # "RUNNING",
         \A s \in Slots : s # cpu[c] => (st[s] = "RUNNING" <=> state[s] = "RUNNING"),
         Switch(c, cpu[c], st)
  PROVE  /\ state' \in [Slots -> States]
         /\ cpu' \in [Cpus -> 0 .. NPROC]
         /\ Running'
         /\ \A s \in Slots : st[s] # "RUNNABLE" => state'[s] = st[s]
         /\ \A s \in Slots : st[s] = "RUNNABLE" => state'[s] \in {"RUNNABLE", "RUNNING"}
<1> DEFINE ready == {s \in Slots : s > cpu[c] /\ st[s] = "RUNNABLE"}
<1>1. CASE ready = {}
  <2>1. cpu' = [cpu EXCEPT ![c] = 0] /\ state' = st
    BY <1>1 DEF Switch
  <2>2. state' \in [Slots -> States] /\ cpu' \in [Cpus -> 0 .. NPROC]
    BY <2>1, NPROCAssumption DEF TypeOK
  <2>3. Running'
    <3>1. ASSUME NEW d \in Cpus, cpu'[d] # 0
          PROVE  state'[cpu'[d]] = "RUNNING"
      BY <2>1, <3>1 DEF TypeOK, Running, Slots
    <3>2. ASSUME NEW d \in Cpus, NEW e \in Cpus, cpu'[d] # 0, cpu'[d] = cpu'[e]
          PROVE  d = e
      BY <2>1, <3>2 DEF TypeOK, Running
    <3>3. ASSUME NEW s \in Slots, state'[s] = "RUNNING"
          PROVE  \E d \in Cpus : cpu'[d] = s
      BY <2>1, <3>3 DEF TypeOK, Running, Slots
    <3> QED  BY <3>1, <3>2, <3>3 DEF Running
  <2> QED  BY <2>1, <2>2, <2>3
<1>2. CASE ready # {}
  <2>1. PICK n \in Slots : n = Min(ready) /\ st[n] = "RUNNABLE"
    <3>1. ready \in SUBSET Nat
      BY DEF Slots
    <3> HIDE DEF ready
    <3>2. Min(ready) \in ready
      BY <1>2, <3>1, MinIn
    <3> QED  BY <3>2 DEF ready
  <2>2. cpu' = [cpu EXCEPT ![c] = n] /\ state' = [st EXCEPT ![n] = "RUNNING"]
    BY <1>2, <2>1 DEF Switch
  <2>3. state[n] # "RUNNING" \/ n = cpu[c]
    BY <2>1
  <2>4. n # 0 /\ n \in 0 .. NPROC
    BY NPROCAssumption DEF Slots
  <2>5. state' \in [Slots -> States] /\ cpu' \in [Cpus -> 0 .. NPROC]
    BY <2>2, <2>4 DEF TypeOK, States
  <2>6. Running'
    <3>1. ASSUME NEW d \in Cpus, cpu'[d] # 0
          PROVE  state'[cpu'[d]] = "RUNNING"
      BY <2>1, <2>2, <2>3, <2>4, <3>1 DEF TypeOK, Running, Slots
    <3>2. ASSUME NEW d \in Cpus, NEW e \in Cpus, cpu'[d] # 0, cpu'[d] = cpu'[e]
          PROVE  d = e
      BY <2>1, <2>2, <2>3, <2>4, <3>2 DEF TypeOK, Running, Slots
    <3>3. ASSUME NEW s \in Slots, state'[s] = "RUNNING"
          PROVE  \E d \in Cpus : cpu'[d] = s
      <4>1. CASE s = n
        BY <2>2, <4>1 DEF TypeOK
      <4>2. CASE s # n
        <5>1. st[s] = "RUNNING"
          BY <2>2, <3>3, <4>2
        <5>2. s # cpu[c]
          BY <5>1 DEF Slots
        <5>3. state[s] = "RUNNING"
          BY <5>1, <5>2
        <5>4. PICK d \in Cpus : cpu[d] = s
          BY <5>3 DEF Running
        <5> QED  BY <2>2, <5>2, <5>4 DEF TypeOK
      <4> QED  BY <4>1, <4>2
    <3> QED  BY <3>1, <3>2, <3>3 DEF Running
  <2> QED  BY <2>1, <2>2, <2>5, <2>6
<1> QED  BY <1>1, <1>2

-----------------------------------------------------------------------------
(* init has a slot, and so has every parent. *)
LEMMA ParentIn ==
  ASSUME TypeOK
  PROVE  initproc \in Slots /\ \A r \in Slots : parent[r] # 0 => parent[r] \in Slots
<1>1. \A r \in Slots : parent[r] \in 0 .. NPROC
  BY DEF TypeOK
<1>2. \A n \in 0 .. NPROC : n # 0 => n \in Slots
  BY DEF Slots
<1>3. initproc \in Slots
  BY NPROCAssumption DEF initproc, Slots
<1> QED  BY <1>1, <1>2, <1>3

(***************************************************************************)
(* Steps in which nobody is born, dies or is reaped: they keep the rest of *)
(* the invariant if whoever sleeps in wait() afterwards does so rightly.   *)
(***************************************************************************)
LEMMA Calm ==
  ASSUME IInv, UNCHANGED <<parent, pid, child>>,
         \A s \in Slots : state'[s] = "UNUSED" <=> state[s] = "UNUSED",
         \A s \in Slots : state'[s] = "EMBRYO" <=> state[s] = "EMBRYO",
         \A s \in Slots : state'[s] = "ZOMBIE" <=> state[s] = "ZOMBIE",
         \A s \in Slots : pc'[s] = "fork" =>
           pc[s] = "fork" /\ state'[s] \in {"RUNNING", "RUNNABLE"},
         \A s \in Slots : (state'[s] = "SLEEPING" /\ pc'[s] = "wait") =>
           /\ chan'[s] = s /\ ~killed'[s]
           /\ \E q \in Slots : parent[q] = s
           /\ \A q \in Slots : parent[q] = s => state[q] # "ZOMBIE"
  PROVE  Forking' /\ Family' /\ Waiting' /\ WaitMissesNothing' /\ PidsDistinct'
<1> USE DEF IInv
<1>1. Forking'
  BY DEF Forking
<1>2. Family'
  <2>1. initproc \in Slots /\ \A s \in Slots : parent[s] # 0 => parent[s] \in Slots
    BY ParentIn
  <2> QED  BY <2>1 DEF Family, Alive
<1>3. Waiting' /\ WaitMissesNothing'
  BY DEF Waiting, WaitMissesNothing
<1>4. PidsDistinct'
  BY DEF PidsDistinct
<1> QED  BY <1>1, <1>2, <1>3, <1>4

(* Who is on a CPU is RUNNING. *)
LEMMA OnCpu ==
  ASSUME TypeOK, Running, NEW c \in Cpus, cpu[c] # 0
  PROVE  cpu[c] \in Slots /\ state[cpu[c]] = "RUNNING"
<1>1. cpu[c] \in 0 .. NPROC
  BY DEF TypeOK
<1>2. cpu[c] \in Slots
  BY <1>1 DEF Slots
<1> QED  BY <1>2 DEF Running

LEMMA SchedulerOK ==
  ASSUME IInv, NEW c \in Cpus, scheduler(c)
  PROVE  IInv'
<1> USE DEF IInv
<1>1. Switch(c, cpu[c], state)
  BY DEF scheduler
<1>2. /\ state' \in [Slots -> States]
      /\ cpu' \in [Cpus -> 0 .. NPROC]
      /\ Running'
      /\ \A s \in Slots : state[s] # "RUNNABLE" => state'[s] = state[s]
      /\ \A s \in Slots : state[s] = "RUNNABLE" => state'[s] \in {"RUNNABLE", "RUNNING"}
  BY <1>1, HandOver DEF TypeOK, scheduler
<1>3. TypeOK'
  BY <1>2 DEF TypeOK, scheduler, ticks
<1>4. Forking' /\ Family' /\ Waiting' /\ WaitMissesNothing' /\ PidsDistinct'
  BY <1>2, Calm DEF scheduler, Forking, Waiting, WaitMissesNothing
<1> QED  BY <1>2, <1>3, <1>4

LEMMA YieldOK ==
  ASSUME IInv, NEW c \in Cpus, yield(c)
  PROVE  IInv'
<1> USE DEF IInv
<1> DEFINE st == [state EXCEPT ![cpu[c]] = "RUNNABLE"]
<1>1. Switch(c, cpu[c], st) /\ cpu[c] \in Slots /\ state[cpu[c]] = "RUNNING"
  BY OnCpu DEF yield, sched
<1>2. /\ state' \in [Slots -> States]
      /\ cpu' \in [Cpus -> 0 .. NPROC]
      /\ Running'
      /\ \A s \in Slots : st[s] # "RUNNABLE" => state'[s] = st[s]
      /\ \A s \in Slots : st[s] = "RUNNABLE" => state'[s] \in {"RUNNABLE", "RUNNING"}
  <2>1. st \in [Slots -> States]
    BY <1>1 DEF TypeOK, States
  <2>2. st[cpu[c]] # "RUNNING" /\ \A s \in Slots : s # cpu[c] => st[s] = state[s]
    BY <1>1 DEF TypeOK
  <2> HIDE DEF st
  <2> QED  BY <1>1, <2>1, <2>2, HandOver
<1>3. TypeOK'
  BY <1>2 DEF TypeOK, yield, ticks
<1>4. Forking' /\ Family' /\ Waiting' /\ WaitMissesNothing' /\ PidsDistinct'
  <2>1. \A s \in Slots : IF s = cpu[c] THEN state'[s] \in {"RUNNABLE", "RUNNING"}
                         ELSE IF state[s] # "RUNNABLE" THEN state'[s] = state[s]
                         ELSE state'[s] \in {"RUNNABLE", "RUNNING"}
    BY <1>1, <1>2 DEF TypeOK
  <2> HIDE DEF st
  <2> QED  BY <1>1, <2>1, Calm DEF yield, Forking, Waiting, WaitMissesNothing
<1> QED  BY <1>2, <1>3, <1>4

LEMMA KillOK ==
  ASSUME IInv, NEW c \in Cpus, NEW k \in KillPids, kill(c, k)
  PROVE  IInv'
<1> USE DEF IInv
<1> DEFINE named == {s \in Slots : pid[s] = k}
           q == Min(named)
<1>1. q \in Slots
  <2>1. named \in SUBSET Nat /\ named # {}
    BY NPROCAssumption DEF kill, Slots
  <2>2. q \in named
    BY <2>1, MinIn, Zenon
  <2> QED  BY <2>2
<1>2. /\ killed' = [killed EXCEPT ![q] = TRUE]
      /\ state' = [state EXCEPT ![q] = IF @ = "SLEEPING" THEN "RUNNABLE" ELSE @]
      /\ UNCHANGED <<pid, parent, chan, cpu, pc, child, panicked>>
  BY DEF kill
<1> HIDE DEF q
<1>3. TypeOK'
  <2>1. state' \in [Slots -> States]
    BY <1>1, <1>2 DEF TypeOK, States
  <2>2. killed' \in [Slots -> BOOLEAN]
    BY <1>1, <1>2 DEF TypeOK
  <2> QED  BY <1>2, <2>1, <2>2 DEF TypeOK, ticks
<1>4. Running'
  <2>1. \A s \in Slots : state'[s] = "RUNNING" <=> state[s] = "RUNNING"
    BY <1>1, <1>2 DEF TypeOK
  <2>2. \A d \in Cpus : cpu[d] # 0 => cpu[d] \in Slots
    BY OnCpu
  <2> QED  BY <1>2, <2>1, <2>2 DEF Running
<1>5. Forking' /\ Family' /\ Waiting' /\ WaitMissesNothing' /\ PidsDistinct'
  <2>1. \A s \in Slots : IF s = q /\ state[s] = "SLEEPING" THEN state'[s] = "RUNNABLE"
                         ELSE state'[s] = state[s]
    BY <1>1, <1>2 DEF TypeOK
  <2>2. \A s \in Slots : s # q => killed'[s] = killed[s]
    BY <1>1, <1>2 DEF TypeOK
  <2> QED  BY <1>2, <2>1, <2>2, Calm DEF Forking, Waiting, WaitMissesNothing
<1> QED  BY <1>3, <1>4, <1>5

LEMMA SysSleepOK ==
  ASSUME IInv, NEW c \in Cpus, sys_sleep(c)
  PROVE  IInv'
<1> USE DEF IInv
<1>1. cpu[c] \in Slots /\ state[cpu[c]] = "RUNNING"
  BY OnCpu DEF sys_sleep, Syscall
<1>2. UNCHANGED <<state, pid, parent, killed, cpu, child, panicked>>
  BY DEF sys_sleep
<1>3. /\ chan' = [chan EXCEPT ![cpu[c]] = 0]
      /\ \E x \in {"tickslock", "user"} : pc' = [pc EXCEPT ![cpu[c]] = x]
  BY DEF sys_sleep
<1>4. TypeOK'
  <2>1. chan' \in [Slots -> 0 .. ticks]
    BY <1>1, <1>3, NPROCAssumption DEF TypeOK, ticks
  <2>2. pc' \in [Slots -> {"user", "fork", "wait", "tickslock", "ticks"}]
    BY <1>1, <1>3 DEF TypeOK
  <2> QED  BY <1>2, <2>1, <2>2 DEF TypeOK
<1>5. Running'
  BY <1>2 DEF Running
<1>6. Forking' /\ Family' /\ Waiting' /\ WaitMissesNothing' /\ PidsDistinct'
  <2>1. \A s \in Slots : s # cpu[c] => pc'[s] = pc[s] /\ chan'[s] = chan[s]
    BY <1>1, <1>3 DEF TypeOK
  <2>2. pc'[cpu[c]] \in {"tickslock", "user"}
    BY <1>1, <1>3 DEF TypeOK
  <2> QED  BY <1>1, <1>2, <2>1, <2>2, Calm DEF Forking, Waiting, WaitMissesNothing
<1> QED  BY <1>4, <1>5, <1>6

LEMMA TickOK ==
  ASSUME IInv, timer
  PROVE  IInv'
<1> USE DEF IInv
<1>1. \A s \in Slots : IF state[s] = "SLEEPING" /\ chan[s] = ticks
                       THEN state'[s] = "RUNNABLE" ELSE state'[s] = state[s]
  BY DEF timer, wakeup1
<1>2. UNCHANGED <<pid, parent, chan, killed, cpu, pc, child, panicked>>
  BY DEF timer
<1>3. TypeOK'
  <2>1. state' \in [Slots -> States]
    BY DEF timer, wakeup1, TypeOK, States
  <2> QED  BY <1>2, <2>1 DEF TypeOK, ticks
<1>4. Running'
  <2>2. \A d \in Cpus : cpu[d] # 0 => cpu[d] \in Slots
    BY OnCpu
  <2> QED  BY <1>1, <1>2, <2>2 DEF Running
<1>5. Forking' /\ Family' /\ Waiting' /\ WaitMissesNothing' /\ PidsDistinct'
  BY <1>1, <1>2, Calm DEF Forking, Waiting, WaitMissesNothing
<1> QED  BY <1>3, <1>4, <1>5

LEMMA SleepOK ==
  ASSUME IInv, NEW c \in Cpus, sleep(c)
  PROVE  IInv'
<1> USE DEF IInv
<1> DEFINE st == [state EXCEPT ![cpu[c]] = "SLEEPING"]
<1>1. Switch(c, cpu[c], st) /\ cpu[c] \in Slots /\ state[cpu[c]] = "RUNNING"
  BY OnCpu DEF sleep, sched
<1>2. /\ chan' = [chan EXCEPT ![cpu[c]] = ticks]
      /\ pc' = [pc EXCEPT ![cpu[c]] = "ticks"]
      /\ UNCHANGED <<pid, parent, killed, child, panicked>>
  BY DEF sleep
<1>3. /\ st \in [Slots -> States]
      /\ st[cpu[c]] = "SLEEPING" /\ \A s \in Slots : s # cpu[c] => st[s] = state[s]
  BY <1>1 DEF TypeOK, States
<1> HIDE DEF st
<1>4. /\ state' \in [Slots -> States]
      /\ cpu' \in [Cpus -> 0 .. NPROC]
      /\ Running'
      /\ \A s \in Slots : st[s] # "RUNNABLE" => state'[s] = st[s]
      /\ \A s \in Slots : st[s] = "RUNNABLE" => state'[s] \in {"RUNNABLE", "RUNNING"}
  BY <1>1, <1>3, HandOver
<1>5. TypeOK'
  <2>1. chan' \in [Slots -> 0 .. ticks]
    BY <1>1, <1>2, NPROCAssumption DEF TypeOK, ticks
  <2>2. pc' \in [Slots -> {"user", "fork", "wait", "tickslock", "ticks"}]
    BY <1>1, <1>2 DEF TypeOK
  <2> QED  BY <1>2, <1>4, <2>1, <2>2 DEF TypeOK
<1>6. Forking' /\ Family' /\ Waiting' /\ WaitMissesNothing' /\ PidsDistinct'
  <2>1. \A s \in Slots : s # cpu[c] => pc'[s] = pc[s] /\ chan'[s] = chan[s]
    BY <1>1, <1>2 DEF TypeOK
  <2>2. pc'[cpu[c]] = "ticks"
    BY <1>1, <1>2 DEF TypeOK
  <2> QED  BY <1>1, <1>2, <1>3, <1>4, <2>1, <2>2, Calm
           DEF Forking, Waiting, WaitMissesNothing
<1> QED  BY <1>4, <1>5, <1>6

-----------------------------------------------------------------------------
LEMMA AllocprocOK ==
  ASSUME IInv, NEW c \in Cpus, allocproc(c)
  PROVE  IInv'
<1> USE DEF IInv
<1> DEFINE s == cpu[c]
           q == Min(Unused)
<1>1. s \in Slots /\ state[s] = "RUNNING" /\ pc[s] = "user"
  BY OnCpu DEF allocproc, Syscall
<1>2. q \in Slots /\ state[q] = "UNUSED"
  <2>1. Unused \in SUBSET Nat /\ Unused # {}
    BY NPROCAssumption DEF allocproc, Unused, Slots
  <2>2. q \in Unused
    BY <2>1, MinIn, Zenon
  <2> QED  BY <2>2 DEF Unused
<1>3. /\ state' = [state EXCEPT ![q] = "EMBRYO"]
      /\ pid' = [pid EXCEPT ![q] = get_smallest_pid(q)]
      /\ child' = [child EXCEPT ![s] = q]
      /\ pc' = [pc EXCEPT ![s] = "fork"]
      /\ UNCHANGED <<parent, chan, killed, cpu, panicked>>
  BY DEF allocproc
<1>4. /\ get_smallest_pid(q) \in -1 .. NPROC - 1
      /\ \A r \in Slots : (state[r] # "UNUSED" /\ r # q) => get_smallest_pid(q) # pid[r]
  BY <1>2, PidFree
<1> HIDE DEF s, q
<1>5. /\ state'[q] = "EMBRYO" /\ \A r \in Slots : r # q => state'[r] = state[r]
      /\ pid'[q] = get_smallest_pid(q) /\ \A r \in Slots : r # q => pid'[r] = pid[r]
      /\ child'[s] = q /\ \A r \in Slots : r # s => child'[r] = child[r]
      /\ pc'[s] = "fork" /\ \A r \in Slots : r # s => pc'[r] = pc[r]
  BY <1>1, <1>2, <1>3 DEF TypeOK
<1>6. TypeOK'
  <2>1. state' \in [Slots -> States]
    BY <1>2, <1>3 DEF TypeOK, States
  <2>2. pid' \in [Slots -> -1 .. NPROC - 1]
    BY <1>2, <1>3, <1>4 DEF TypeOK
  <2>3. child' \in [Slots -> 0 .. NPROC]
    BY <1>1, <1>2, <1>3 DEF TypeOK, Slots
  <2>4. pc' \in [Slots -> {"user", "fork", "wait", "tickslock", "ticks"}]
    BY <1>1, <1>3 DEF TypeOK
  <2> QED  BY <1>3, <2>1, <2>2, <2>3, <2>4 DEF TypeOK, ticks
<1>7. Running'
  <2>1. \A d \in Cpus : cpu[d] # 0 => cpu[d] \in Slots /\ cpu[d] # q
    BY <1>2, OnCpu
  <2> QED  BY <1>2, <1>3, <1>5, <2>1 DEF Running
<1>8. Forking'
  BY <1>1, <1>2, <1>5 DEF Forking
<1>9. Family'
  <2>1. q # initproc /\ parent[q] = 0 /\ \A r \in Slots : parent[r] # q
    BY <1>2, NPROCAssumption DEF Family, Alive, initproc, Slots
  <2> QED  BY <1>2, <1>3, <1>5, <2>1, ParentIn DEF Family, Alive
<1>10. Waiting' /\ WaitMissesNothing'
  BY <1>1, <1>2, <1>3, <1>5 DEF Waiting, WaitMissesNothing
<1>11. PidsDistinct'
  BY <1>2, <1>4, <1>5 DEF PidsDistinct
<1> QED  BY <1>6, <1>7, <1>8, <1>9, <1>10, <1>11

LEMMA ForkFailOK ==
  ASSUME IInv, NEW c \in Cpus, fork_fail(c)
  PROVE  IInv'
<1> USE DEF IInv
<1> DEFINE s == cpu[c]
           q == child[s]
<1>1. s \in Slots /\ state[s] = "RUNNING" /\ pc[s] = "fork"
  BY OnCpu DEF fork_fail
<1>2. q \in Slots /\ state[q] = "EMBRYO"
  BY <1>1 DEF Forking
<1>3. /\ state' = [state EXCEPT ![q] = "UNUSED"]
      /\ child' = [child EXCEPT ![s] = 0]
      /\ pc' = [pc EXCEPT ![s] = "user"]
      /\ UNCHANGED <<pid, parent, chan, killed, cpu, panicked>>
  BY DEF fork_fail
<1>4. \A r \in Slots : (pc[r] = "fork" /\ child[r] = q) => r = s
  BY <1>1 DEF Forking
<1> HIDE DEF s, q
<1>5. /\ state'[q] = "UNUSED" /\ \A r \in Slots : r # q => state'[r] = state[r]
      /\ \A r \in Slots : r # s => child'[r] = child[r]
      /\ pc'[s] = "user" /\ \A r \in Slots : r # s => pc'[r] = pc[r]
  BY <1>1, <1>2, <1>3 DEF TypeOK
<1>6. TypeOK'
  <2>1. state' \in [Slots -> States]
    BY <1>2, <1>3 DEF TypeOK, States
  <2>2. child' \in [Slots -> 0 .. NPROC]
    BY <1>1, <1>3, NPROCAssumption DEF TypeOK
  <2>3. pc' \in [Slots -> {"user", "fork", "wait", "tickslock", "ticks"}]
    BY <1>1, <1>3 DEF TypeOK
  <2> QED  BY <1>3, <2>1, <2>2, <2>3 DEF TypeOK, ticks
<1>7. Running'
  <2>1. \A d \in Cpus : cpu[d] # 0 => cpu[d] \in Slots /\ cpu[d] # q
    BY <1>2, OnCpu
  <2> QED  BY <1>2, <1>3, <1>5, <2>1 DEF Running
<1>8. Forking'
  BY <1>1, <1>2, <1>4, <1>5 DEF Forking
<1>9. Family'
  <2>1. q # initproc /\ parent[q] = 0 /\ \A r \in Slots : parent[r] # q
    BY <1>2, NPROCAssumption DEF Family, Alive, initproc, Slots
  <2> QED  BY <1>2, <1>3, <1>5, <2>1, ParentIn DEF Family, Alive
<1>10. Waiting' /\ WaitMissesNothing'
  BY <1>1, <1>2, <1>3, <1>5 DEF Waiting, WaitMissesNothing
<1>11. PidsDistinct'
  BY <1>2, <1>3, <1>5 DEF PidsDistinct
<1> QED  BY <1>6, <1>7, <1>8, <1>9, <1>10, <1>11

LEMMA ForkRunOK ==
  ASSUME IInv, NEW c \in Cpus, fork_run(c)
  PROVE  IInv'
<1> USE DEF IInv
<1> DEFINE s == cpu[c]
           q == child[s]
<1>1. s \in Slots /\ state[s] = "RUNNING" /\ pc[s] = "fork"
  BY OnCpu DEF fork_run
<1>2. q \in Slots /\ state[q] = "EMBRYO"
  BY <1>1 DEF Forking
<1>3. /\ parent' = [parent EXCEPT ![q] = s]
      /\ state' = [state EXCEPT ![q] = "RUNNABLE"]
      /\ child' = [child EXCEPT ![s] = 0]
      /\ pc' = [pc EXCEPT ![s] = "user"]
      /\ UNCHANGED <<pid, chan, killed, cpu, panicked>>
  BY DEF fork_run
<1>4. \A r \in Slots : (pc[r] = "fork" /\ child[r] = q) => r = s
  BY <1>1 DEF Forking
<1> HIDE DEF s, q
<1>5. /\ state'[q] = "RUNNABLE" /\ \A r \in Slots : r # q => state'[r] = state[r]
      /\ parent'[q] = s /\ \A r \in Slots : r # q => parent'[r] = parent[r]
      /\ \A r \in Slots : r # s => child'[r] = child[r]
      /\ pc'[s] = "user" /\ \A r \in Slots : r # s => pc'[r] = pc[r]
  BY <1>1, <1>2, <1>3 DEF TypeOK
<1>6. TypeOK'
  <2>1. state' \in [Slots -> States]
    BY <1>2, <1>3 DEF TypeOK, States
  <2>2. child' \in [Slots -> 0 .. NPROC]
    BY <1>1, <1>3, NPROCAssumption DEF TypeOK
  <2>3. pc' \in [Slots -> {"user", "fork", "wait", "tickslock", "ticks"}]
    BY <1>1, <1>3 DEF TypeOK
  <2>4. parent' \in [Slots -> 0 .. NPROC]
    BY <1>1, <1>2, <1>3 DEF TypeOK, Slots
  <2> QED  BY <1>3, <2>1, <2>2, <2>3, <2>4 DEF TypeOK, ticks
<1>7. Running'
  <2>1. \A d \in Cpus : cpu[d] # 0 => cpu[d] \in Slots /\ cpu[d] # q
    BY <1>2, OnCpu
  <2> QED  BY <1>2, <1>3, <1>5, <2>1 DEF Running
<1>8. Forking'
  BY <1>1, <1>2, <1>4, <1>5 DEF Forking
<1>9. Family'
  <2>1. q # initproc /\ parent[q] = 0 /\ \A r \in Slots : parent[r] # q
    BY <1>2, NPROCAssumption DEF Family, Alive, initproc, Slots
  <2>2. s # 0 /\ s # q
    BY <1>1, <1>2, NPROCAssumption DEF Slots
  <2> QED  BY <1>1, <1>2, <1>3, <1>5, <2>1, <2>2, ParentIn DEF Family, Alive
<1>10. Waiting' /\ WaitMissesNothing'
  <2>1. parent[q] = 0 /\ \A r \in Slots : r # 0
    BY <1>2, NPROCAssumption DEF Family, Slots
  <2>2. \A r \in Slots : (\E k \in Slots : parent[k] = r) => \E k \in Slots : parent'[k] = r
    BY <1>5, <2>1
  <2>3. Waiting'
    BY <1>1, <1>3, <1>5 DEF Waiting
  <2> QED  BY <1>1, <1>2, <1>3, <1>5, <2>2, <2>3 DEF WaitMissesNothing
<1>11. PidsDistinct'
  BY <1>2, <1>3, <1>5 DEF PidsDistinct
<1> QED  BY <1>6, <1>7, <1>8, <1>9, <1>10, <1>11

(***************************************************************************)
(* exit(): whoever still sleeps on its own slot afterwards is neither the  *)
(* parent, nor init with a zombie to inherit.                              *)
(***************************************************************************)
LEMMA ExitOK ==
  ASSUME IInv, NEW c \in Cpus, exit(c)
  PROVE  IInv'
<1> USE DEF IInv
<1> DEFINE s == cpu[c]
           st == [exit_wakeups(s) EXCEPT ![s] = "ZOMBIE"]
<1>1. s \in Slots /\ state[s] = "RUNNING" /\ pc[s] = "user"
  BY OnCpu DEF exit
<1>2. UNCHANGED <<pid, chan, killed, pc, child>>
  BY DEF exit
<1>3. CASE s = initproc
  <2>1. panicked' = TRUE /\ UNCHANGED <<state, parent, cpu>>
    BY <1>3 DEF exit
  <2> QED  BY <1>2, <2>1 DEF TypeOK, ticks, Running, Forking, Family, Alive, Waiting,
                             WaitMissesNothing, PidsDistinct
<1>4. CASE s # initproc
  <2>1. parent' = reparent(s) /\ Switch(c, cpu[c], st) /\ UNCHANGED panicked
    BY <1>4 DEF exit, sched
  <2>2. \A q \in Slots : parent'[q] = IF parent[q] = s THEN initproc ELSE parent[q]
    BY <2>1 DEF reparent, Orphans
  <2> DEFINE w == exit_wakeups(s)
  <2>3. /\ w \in [Slots -> States]
        /\ \A q \in Slots : w[q] = state[q] \/ (state[q] = "SLEEPING" /\ w[q] = "RUNNABLE")
        /\ \A q \in Slots : w[q] = "SLEEPING" =>
             /\ chan[q] # parent[s]
             /\ (\E z \in Slots : parent[z] = s /\ state[z] = "ZOMBIE") => chan[q] # initproc
    <3> DEFINE v == wakeup1(state, parent[s])
    <3>1. /\ v \in [Slots -> States]
          /\ \A q \in Slots : v[q] = IF state[q] = "SLEEPING" /\ chan[q] = parent[s]
                                     THEN "RUNNABLE" ELSE state[q]
      BY DEF wakeup1, TypeOK, States
    <3>2. w = IF \E q \in Orphans(s) : v[q] = "ZOMBIE" THEN wakeup1(v, initproc) ELSE v
      BY DEF exit_wakeups
    <3> HIDE DEF v, w
    <3>3. CASE \E q \in Orphans(s) : v[q] = "ZOMBIE"
      <4>1. w = wakeup1(v, initproc)
        BY <3>2, <3>3
      <4>2. /\ w \in [Slots -> States]
            /\ \A q \in Slots : w[q] = IF v[q] = "SLEEPING" /\ chan[q] = initproc
                                       THEN "RUNNABLE" ELSE v[q]
        BY <3>1, <4>1 DEF wakeup1, States
      <4> QED  BY <3>1, <4>2
    <3>4. CASE ~ \E q \in Orphans(s) : v[q] = "ZOMBIE"
      <4>1. w = v
        BY <3>2, <3>4
      <4>2. ~ \E z \in Slots : parent[z] = s /\ state[z] = "ZOMBIE"
        BY <3>1, <3>4 DEF Orphans
      <4> QED  BY <3>1, <4>1, <4>2
    <3> QED  BY <3>3, <3>4
  <2>4. /\ st \in [Slots -> States] /\ st[s] = "ZOMBIE"
        /\ \A q \in Slots : q # s => st[q] = w[q]
    <3> HIDE DEF w
    <3>1. st = [w EXCEPT ![s] = "ZOMBIE"]
      BY DEF w
    <3> HIDE DEF s, st
    <3> QED  BY <1>1, <2>3, <3>1 DEF States
  <2> HIDE DEF w, st
  <2>5. /\ state' \in [Slots -> States]
        /\ cpu' \in [Cpus -> 0 .. NPROC]
        /\ Running'
        /\ \A q \in Slots : st[q] # "RUNNABLE" => state'[q] = st[q]
        /\ \A q \in Slots : st[q] = "RUNNABLE" => state'[q] \in {"RUNNABLE", "RUNNING"}
    <3>1. \A q \in Slots : q # s => (st[q] = "RUNNING" <=> state[q] = "RUNNING")
      BY <2>3, <2>4
    <3> QED  BY <1>1, <2>1, <2>4, <3>1, HandOver
  <2>6. /\ state'[s] = "ZOMBIE"
        /\ \A q \in Slots : q # s =>
             /\ \A x \in {"UNUSED", "EMBRYO", "ZOMBIE"} : state'[q] = x <=> state[q] = x
             /\ state'[q] = "SLEEPING" => state[q] = "SLEEPING" /\ w[q] = "SLEEPING"
             /\ state[q] \in {"RUNNING", "RUNNABLE"} => state'[q] \in {"RUNNING", "RUNNABLE"}
    <3>1. state'[s] = "ZOMBIE"
      BY <1>1, <2>4, <2>5
    <3> SUFFICES ASSUME NEW q \in Slots, q # s
                 PROVE  /\ \A x \in {"UNUSED", "EMBRYO", "ZOMBIE"} : state'[q] = x <=> state[q] = x
                        /\ state'[q] = "SLEEPING" => state[q] = "SLEEPING" /\ w[q] = "SLEEPING"
                        /\ state[q] \in {"RUNNING", "RUNNABLE"} => state'[q] \in {"RUNNING", "RUNNABLE"}
      BY <3>1
    <3> QED  BY <2>3, <2>4, <2>5
  <2> HIDE DEF s
  <2>7. TypeOK'
    <3>1. parent' \in [Slots -> 0 .. NPROC]
      BY <2>1, NPROCAssumption DEF reparent, TypeOK, initproc
    <3> QED  BY <1>2, <2>1, <2>5, <3>1 DEF TypeOK, ticks
  <2>8. Forking'
    BY <1>1, <1>2, <2>6 DEF Forking
  <2>9. Family'
    <3>1. initproc # 0 /\ s # 0
      BY <1>1, NPROCAssumption DEF initproc, Slots
    <3>2. parent'[initproc] = 0 /\ Alive(initproc)'
      BY <1>4, <2>2, <2>6, <3>1, ParentIn DEF Family, Alive
    <3>3. ASSUME NEW q \in Slots, parent'[q] # 0
          PROVE  parent'[q] # q /\ state'[parent'[q]] \notin {"UNUSED", "EMBRYO", "ZOMBIE"}
      BY <1>4, <2>2, <2>6, <3>1, <3>2, <3>3, ParentIn DEF Family, Alive
    <3>4. \A q \in Slots : state'[q] \in {"UNUSED", "EMBRYO"} => parent'[q] = 0
      BY <1>1, <2>2, <2>6, <3>1 DEF Family
    <3>5. \A q \in Slots \ {initproc} : state'[q] \notin {"UNUSED", "EMBRYO"} => parent'[q] # 0
      BY <1>1, <2>2, <2>6, <3>1 DEF Family
    <3> QED  BY <3>2, <3>3, <3>4, <3>5 DEF Family, Alive
  <2>10. Waiting'
    BY <1>2, <2>6 DEF Waiting
  <2>11. WaitMissesNothing'
    <3> SUFFICES ASSUME NEW r \in Slots, state'[r] = "SLEEPING", pc'[r] = "wait"
                 PROVE  /\ ~killed'[r]
                        /\ \E q \in Slots : parent'[q] = r
                        /\ \A q \in Slots : parent'[q] = r => state'[q] # "ZOMBIE"
      BY DEF WaitMissesNothing
    <3>1. r # s /\ state[r] = "SLEEPING" /\ w[r] = "SLEEPING" /\ pc[r] = "wait" /\ chan[r] = r
      BY <1>2, <2>6 DEF Waiting
    <3>2. ~killed'[r] /\ \E q \in Slots : parent'[q] = r
      BY <1>2, <2>2, <3>1 DEF WaitMissesNothing
    <3>3. ASSUME NEW q \in Slots, parent'[q] = r, state'[q] = "ZOMBIE"
          PROVE  FALSE
      <4>1. q # s
        BY <1>1, <1>4, <2>2, <2>3, <3>1, <3>3 DEF Family
      <4>2. CASE parent[q] = s
        BY <2>2, <2>3, <2>6, <3>1, <3>3, <4>1, <4>2
      <4>3. CASE parent[q] # s
        BY <2>2, <2>6, <3>1, <3>3, <4>1, <4>3 DEF WaitMissesNothing
      <4> QED  BY <4>2, <4>3
    <3> QED  BY <3>2, <3>3
  <2>12. PidsDistinct'
    BY <1>1, <1>2, <2>6 DEF PidsDistinct
  <2> QED  BY <2>5, <2>7, <2>8, <2>9, <2>10, <2>11, <2>12
<1> QED  BY <1>3, <1>4

(* The two turns of wait()'s loop that keep the CPU, and the one that sleeps. *)
LEMMA WaitOK ==
  ASSUME IInv, NEW c \in Cpus, wait(c)
  PROVE  IInv'
<1> USE DEF IInv
<1> DEFINE s == cpu[c]
           kids == {q \in Slots : parent[q] = s}
           zombies == {q \in kids : state[q] = "ZOMBIE"}
           z == Min(zombies)
<1>1. s \in Slots /\ state[s] = "RUNNING" /\ pc[s] \in {"user", "wait"}
  BY OnCpu DEF wait, Syscall
<1>2. UNCHANGED <<child, panicked>>
  BY DEF wait
<1>3. CASE zombies # {}
  <2>1. /\ pid' = [pid EXCEPT ![z] = 0]
        /\ parent' = [parent EXCEPT ![z] = 0]
        /\ killed' = [killed EXCEPT ![z] = FALSE]
        /\ state' = [state EXCEPT ![z] = "UNUSED"]
        /\ chan' = [chan EXCEPT ![s] = 0]
        /\ pc' = [pc EXCEPT ![s] = "user"]
        /\ UNCHANGED cpu
    BY <1>3 DEF wait
  <2>2. z \in Slots /\ parent[z] = s /\ state[z] = "ZOMBIE"
    <3>1. zombies \in SUBSET Nat
      BY NPROCAssumption DEF Slots
    <3>2. z \in zombies
      BY <1>3, <3>1, MinIn, Zenon
    <3> QED  BY <3>2
  <2> HIDE DEF s, kids, zombies, z
  <2>3. /\ pid'[z] = 0 /\ \A r \in Slots : r # z => pid'[r] = pid[r]
        /\ parent'[z] = 0 /\ \A r \in Slots : r # z => parent'[r] = parent[r]
        /\ \A r \in Slots : r # z => killed'[r] = killed[r]
        /\ state'[z] = "UNUSED" /\ \A r \in Slots : r # z => state'[r] = state[r]
        /\ \A r \in Slots : r # s => chan'[r] = chan[r]
        /\ pc'[s] = "user" /\ \A r \in Slots : r # s => pc'[r] = pc[r]
    BY <1>1, <2>1, <2>2 DEF TypeOK
  <2>4. TypeOK'
    <3>1. state' \in [Slots -> States]
      BY <2>1, <2>2 DEF TypeOK, States
    <3>2. pid' \in [Slots -> -1 .. NPROC - 1]
      BY <2>1, <2>2, NPROCAssumption DEF TypeOK
    <3>3. parent' \in [Slots -> 0 .. NPROC]
      BY <2>1, <2>2, NPROCAssumption DEF TypeOK
    <3>4. chan' \in [Slots -> 0 .. ticks]
      BY <1>1, <2>1, NPROCAssumption DEF TypeOK, ticks
    <3>5. killed' \in [Slots -> BOOLEAN]
      BY <2>1, <2>2 DEF TypeOK
    <3>6. pc' \in [Slots -> {"user", "fork", "wait", "tickslock", "ticks"}]
      BY <1>1, <2>1 DEF TypeOK
    <3> QED  BY <1>2, <2>1, <3>1, <3>2, <3>3, <3>4, <3>5, <3>6 DEF TypeOK
  <2>5. Running'
    <3>1. \A d \in Cpus : cpu[d] # 0 => cpu[d] \in Slots /\ cpu[d] # z
      BY <2>2, OnCpu
    <3> QED  BY <2>1, <2>2, <2>3, <3>1 DEF Running
  <2>6. Forking'
    <3> SUFFICES ASSUME NEW r \in Slots, pc'[r] = "fork"
                 PROVE  /\ child[r] \in Slots /\ state'[child[r]] = "EMBRYO"
                        /\ state'[r] \in {"RUNNING", "RUNNABLE"}
                        /\ \A q \in Slots : (pc'[q] = "fork" /\ child[q] = child[r]) => q = r
      BY <1>2, Zenon DEF Forking
    <3>1. r # s /\ pc[r] = "fork"
      BY <1>1, <2>3
    <3>2. /\ child[r] \in Slots /\ state[child[r]] = "EMBRYO"
          /\ state[r] \in {"RUNNING", "RUNNABLE"}
          /\ \A q \in Slots : (pc[q] = "fork" /\ child[q] = child[r]) => q = r
      BY <3>1, Zenon DEF Forking
    <3>3. child[r] # z /\ r # z
      BY <2>2, <3>2
    <3>4. \A q \in Slots : pc'[q] = "fork" => pc[q] = "fork"
      BY <1>1, <2>3
    <3>5. state'[child[r]] = "EMBRYO" /\ state'[r] \in {"RUNNING", "RUNNABLE"}
      BY <2>3, <3>2, <3>3
    <3> QED  BY <3>2, <3>4, <3>5
  <2>7. Family'
    <3>1. z # initproc /\ \A r \in Slots : parent[r] # z
      BY <2>2, NPROCAssumption DEF Family, Alive, initproc, Slots
    <3> QED  BY <2>2, <2>3, <3>1, ParentIn DEF Family, Alive
  <2>8. Waiting'
    BY <1>1, <2>2, <2>3 DEF Waiting
  <2>9. WaitMissesNothing'
    <3>1. \A r \in Slots \ {s} : (\E k \in Slots : parent[k] = r)
                                  => \E k \in Slots : parent'[k] = r
      BY <2>2, <2>3
    <3>2. \A r \in Slots : r # 0
      BY NPROCAssumption DEF Slots
    <3> QED  BY <1>1, <2>2, <2>3, <3>1, <3>2 DEF WaitMissesNothing
  <2>10. PidsDistinct'
    BY <2>2, <2>3 DEF PidsDistinct
  <2> QED  BY <2>4, <2>5, <2>6, <2>7, <2>8, <2>9, <2>10
<1>4. CASE zombies = {} /\ (kids = {} \/ killed[s])
  <2>1. /\ chan' = [chan EXCEPT ![s] = 0]
        /\ pc' = [pc EXCEPT ![s] = "user"]
        /\ UNCHANGED <<state, pid, parent, killed, cpu>>
    BY <1>4 DEF wait
  <2> HIDE DEF s
  <2>2. /\ pc'[s] = "user"
        /\ \A r \in Slots : r # s => pc'[r] = pc[r] /\ chan'[r] = chan[r]
    BY <1>1, <2>1 DEF TypeOK
  <2>3. TypeOK'
    <3>1. chan' \in [Slots -> 0 .. ticks]
      BY <1>1, <2>1, NPROCAssumption DEF TypeOK, ticks
    <3>2. pc' \in [Slots -> {"user", "fork", "wait", "tickslock", "ticks"}]
      BY <1>1, <2>1 DEF TypeOK
    <3> QED  BY <1>2, <2>1, <3>1, <3>2 DEF TypeOK
  <2>4. Running'
    BY <2>1 DEF Running
  <2>5. Forking' /\ Family' /\ Waiting' /\ WaitMissesNothing' /\ PidsDistinct'
    BY <1>1, <1>2, <2>1, <2>2, Calm DEF Forking, Waiting, WaitMissesNothing
  <2> QED  BY <2>3, <2>4, <2>5
<1>5. CASE zombies = {} /\ kids # {} /\ ~killed[s]
  <2> DEFINE st == [state EXCEPT ![s] = "SLEEPING"]
  <2>1. /\ chan' = [chan EXCEPT ![s] = s]
        /\ pc' = [pc EXCEPT ![s] = "wait"]
        /\ Switch(c, cpu[c], st)
        /\ UNCHANGED <<pid, parent, killed>>
    BY <1>5 DEF wait, sched
  <2>2. /\ ~killed[s]
        /\ \E q \in Slots : parent[q] = s
        /\ \A q \in Slots : parent[q] = s => state[q] # "ZOMBIE"
    BY <1>5
  <2>3. /\ st \in [Slots -> States]
        /\ st[s] = "SLEEPING" /\ \A r \in Slots : r # s => st[r] = state[r]
    BY <1>1 DEF TypeOK, States
  <2> HIDE DEF st
  <2>4. /\ state' \in [Slots -> States]
        /\ cpu' \in [Cpus -> 0 .. NPROC]
        /\ Running'
        /\ \A r \in Slots : st[r] # "RUNNABLE" => state'[r] = st[r]
        /\ \A r \in Slots : st[r] = "RUNNABLE" => state'[r] \in {"RUNNABLE", "RUNNING"}
    BY <1>1, <2>1, <2>3, HandOver
  <2> HIDE DEF s
  <2>5. /\ pc'[s] = "wait" /\ chan'[s] = s
        /\ \A r \in Slots : r # s => pc'[r] = pc[r] /\ chan'[r] = chan[r]
    BY <1>1, <2>1 DEF TypeOK
  <2>6. TypeOK'
    <3>1. chan' \in [Slots -> 0 .. ticks]
      <4>1. s \in 0 .. ticks
        BY <1>1, NPROCAssumption DEF Slots, ticks
      <4> QED  BY <1>1, <2>1, <4>1 DEF TypeOK
    <3>2. pc' \in [Slots -> {"user", "fork", "wait", "tickslock", "ticks"}]
      BY <1>1, <2>1 DEF TypeOK
    <3> QED  BY <1>2, <2>1, <2>4, <3>1, <3>2 DEF TypeOK
  <2>7. Forking' /\ Family' /\ Waiting' /\ WaitMissesNothing' /\ PidsDistinct'
    <3>1. \A r \in Slots : IF r = s THEN state'[r] = "SLEEPING"
                           ELSE IF state[r] # "RUNNABLE" THEN state'[r] = state[r]
                           ELSE state'[r] \in {"RUNNABLE", "RUNNING"}
      BY <2>3, <2>4
    <3>2. \A r \in Slots : \A x \in {"UNUSED", "EMBRYO", "ZOMBIE"} :
            state'[r] = x <=> state[r] = x
      BY <1>1, <3>1
    <3>3. \A r \in Slots : pc'[r] = "fork" =>
            pc[r] = "fork" /\ state'[r] \in {"RUNNING", "RUNNABLE"}
      BY <1>1, <2>5, <3>1 DEF Forking
    <3>4. \A r \in Slots : (state'[r] = "SLEEPING" /\ pc'[r] = "wait") =>
            /\ chan'[r] = r /\ ~killed'[r]
            /\ \E q \in Slots : parent[q] = r
            /\ \A q \in Slots : parent[q] = r => state[q] # "ZOMBIE"
      <4> SUFFICES ASSUME NEW r \in Slots, state'[r] = "SLEEPING", pc'[r] = "wait"
                   PROVE  /\ chan'[r] = r /\ ~killed'[r]
                          /\ \E q \in Slots : parent[q] = r
                          /\ \A q \in Slots : parent[q] = r => state[q] # "ZOMBIE"
        OBVIOUS
      <4>1. CASE r = s
        BY <2>1, <2>2, <2>5, <4>1
      <4>2. CASE r # s
        BY <2>1, <2>5, <3>1, <4>2 DEF Waiting, WaitMissesNothing
      <4> QED  BY <4>1, <4>2
    <3> QED  BY <1>2, <2>1, <3>2, <3>3, <3>4, Calm
  <2> QED  BY <2>4, <2>6, <2>7
<1> QED  BY <1>3, <1>4, <1>5

-----------------------------------------------------------------------------
LEMMA StepOK ==
  ASSUME IInv, [Next]_vars
  PROVE  IInv'
<1>1. CASE UNCHANGED vars
  BY <1>1 DEF vars, IInv, TypeOK, ticks, Running, Forking, Family, Alive, Waiting,
              WaitMissesNothing, PidsDistinct
<1>2. ASSUME NEW c \in Cpus, InKernel(c)
      PROVE  IInv'
  BY <1>2, ForkFailOK, ForkRunOK, SleepOK, WaitOK, SysSleepOK, ExitOK DEF InKernel
<1>3. ASSUME NEW c \in Cpus, Calls(c)
      PROVE  IInv'
  BY <1>3, SysSleepOK, AllocprocOK, ExitOK, WaitOK, KillOK DEF Calls
<1>4. ASSUME NEW c \in Cpus, scheduler(c) \/ yield(c)
      PROVE  IInv'
  BY <1>4, SchedulerOK, YieldOK
<1>5. CASE Tick
  BY <1>5, TickOK DEF Tick
<1> QED  BY <1>1, <1>2, <1>3, <1>4, <1>5 DEF Next

(* The invariant holds in every state of the process table. *)
THEOREM Invariance == Spec => []IInv
<1>1. userinit => IInv
  BY InitOK
<1>2. IInv /\ [Next]_vars => IInv'
  BY StepOK
<1> QED  BY <1>1, <1>2, PTL DEF Spec

(* fork(), exit(), wait(), kill() and the scheduler keep every variable in its type. *)
THEOREM TypeCorrect == Spec => []TypeOK
<1>1. IInv => TypeOK
  BY DEF IInv
<1> QED  BY <1>1, Invariance, PTL

(* scheduler() and sched(): a process is RUNNING exactly when one CPU runs it. *)
THEOREM OneCpuEachHolds == Spec => []OneCpuEach
<1>1. ASSUME IInv  PROVE OneCpuEach
  <2> SUFFICES ASSUME NEW s \in Slots
               PROVE  Cardinality({c \in Cpus : cpu[c] = s})
                        = (IF state[s] = "RUNNING" THEN 1 ELSE 0)
    BY DEF OneCpuEach
  <2>0. s # 0
    BY NPROCAssumption DEF Slots
  <2>1. CASE state[s] = "RUNNING"
    <3>1. PICK c \in Cpus : cpu[c] = s
      BY <1>1, <2>1 DEF IInv, Running
    <3>2. {d \in Cpus : cpu[d] = s} = {c}
      BY <1>1, <2>0, <3>1 DEF IInv, Running
    <3> QED  BY <2>1, <3>2, FS_Singleton, Zenon
  <2>2. CASE state[s] # "RUNNING"
    <3>1. {d \in Cpus : cpu[d] = s} = {}
      BY <1>1, <2>0, <2>2 DEF IInv, Running
    <3> QED  BY <2>2, <3>1, FS_EmptySet
  <2> QED  BY <2>1, <2>2
<1> QED  BY <1>1, Invariance, PTL

(* exit() leaves no process, zombie or not, without a living parent to wait() for it. *)
THEOREM ParentCanWaitHolds == Spec => []ParentCanWait
<1>1. IInv => ParentCanWait
  BY DEF IInv, Family, ParentCanWait
<1> QED  BY <1>1, Invariance, PTL

(* exit() and kill() lose no wakeup of a process that sleeps in wait(). *)
THEOREM WaitMissesNothingHolds == Spec => []WaitMissesNothing
<1>1. IInv => WaitMissesNothing
  BY DEF IInv
<1> QED  BY <1>1, Invariance, PTL

(* get_smallest_pid(): no two processes ever have the same pid. *)
THEOREM PidsDistinctHolds == Spec => []PidsDistinct
<1>1. IInv => PidsDistinct
  BY DEF IInv
<1> QED  BY <1>1, Invariance, PTL

=============================================================================
