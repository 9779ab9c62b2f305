----------------------------- MODULE ProcTable -----------------------------
(***************************************************************************)
(* The process table of proc.c: fork, exit, wait, kill, sleep, wakeup and  *)
(* the per-CPU scheduler.  A critical section under ptable.lock is one     *)
(* step; what a system call does outside of it is in other steps, so that  *)
(* other CPUs and timer interrupts come in between.                        *)
(***************************************************************************)
EXTENDS Integers, FiniteSets, FiniteSetsExt

CONSTANTS
  NPROC,        (* slots of ptable.proc                                    *)
  Cpus,         (* processors, each running scheduler()                    *)
  KillPids,     (* arguments programs give to kill()                       *)
  MaxLive,      (* programs stop forking at this many processes            *)
  OutOfMemory   (* whether kalloc() may fail inside fork()                 *)

ASSUME NPROCAssumption == NPROC \in Nat \ {0, 1}   (* init's pid is 1 *)
ASSUME EnvAssumption == /\ MaxLive \in Nat
                        /\ KillPids \subseteq Int
                        /\ OutOfMemory \in BOOLEAN

VARIABLES
  state, pid, parent, chan, killed,  (* fields of struct proc              *)
  cpu,                               (* cpu->proc, 0 in the scheduler      *)
  pc,                                (* the system call a process is in    *)
  child,                             (* np, while a process is in fork()   *)
  panicked

procVars == <<state, pid, parent, chan, killed>>
vars == <<state, pid, parent, chan, killed, cpu, pc, child, panicked>>

Slots == 1 .. NPROC
initproc == 1
ticks == NPROC + 1      (* &ticks, a channel that is not a process *)

States == {"UNUSED", "EMBRYO", "SLEEPING", "RUNNABLE", "RUNNING", "ZOMBIE"}

(* userinit(): the table after boot, before the first scheduling. *)
userinit ==
  /\ state = [s \in Slots |-> IF s = initproc THEN "RUNNABLE" ELSE "UNUSED"]
  /\ pid = [s \in Slots |-> IF s = initproc THEN 1 ELSE 0]
  /\ parent = [s \in Slots |-> 0]
  /\ chan = [s \in Slots |-> 0]
  /\ killed = [s \in Slots |-> FALSE]
  /\ cpu = [c \in Cpus |-> 0]
  /\ pc = [s \in Slots |-> "user"]
  /\ child = [s \in Slots |-> 0]
  /\ panicked = FALSE

-----------------------------------------------------------------------------
Switch_StaysRunnable(c, from, st) ==
  LET ready == {s \in Slots : s > from /\ st[s] = "RUNNABLE"}
  IN  IF ready = {}
        THEN cpu' = [cpu EXCEPT ![c] = 0] /\ state' = st
        ELSE cpu' = [cpu EXCEPT ![c] = Min(ready)] /\ state' = st

(* The loop of scheduler(), from the slot after `from', under ptable.lock. *)
Switch(c, from, st) ==
  LET ready == {s \in Slots : s > from /\ st[s] = "RUNNABLE"}
  IN  IF ready = {}
        THEN cpu' = [cpu EXCEPT ![c] = 0] /\ state' = st
        ELSE /\ cpu' = [cpu EXCEPT ![c] = Min(ready)]
             /\ state' = [st EXCEPT ![Min(ready)] = "RUNNING"]

sched_FromTheTop(c, st) == Switch(c, 0, st)

(* A process gives up its CPU; the scheduler's scan goes on behind it. *)
sched(c, st) == Switch(c, cpu[c], st)

(* The scheduler of an idle CPU begins another pass over the table. *)
scheduler(c) ==
  /\ cpu[c] = 0
  /\ \E s \in Slots : state[s] = "RUNNABLE"
  /\ Switch(c, 0, state)
  /\ UNCHANGED <<pid, parent, chan, killed, pc, child, panicked>>

(***************************************************************************)
(* yield() from trap() on a timer interrupt.  trap() has already made a    *)
(* killed process exit if it was in user mode; interrupts are off while a  *)
(* process holds, or spins for, ptable.lock or tickslock.                  *)
(***************************************************************************)
yield(c) ==
  LET s == cpu[c]
  IN  /\ s # 0
      /\ pc[s] \in {"user", "fork"}
      /\ pc[s] = "user" => ~killed[s]
      /\ sched(c, [state EXCEPT ![s] = "RUNNABLE"])
      /\ UNCHANGED <<pid, parent, chan, killed, pc, child, panicked>>

(* A process in user mode on CPU c makes a system call: trap() lets it. *)
Syscall(c, s) == s = cpu[c] /\ s # 0 /\ pc[s] = "user" /\ ~killed[s]

-----------------------------------------------------------------------------
get_smallest_pid_NotZombies(q) ==
  LET live == {r \in Slots : r = q \/ state[r] \notin {"UNUSED", "ZOMBIE"}}
  IN  Min((0 .. NPROC) \ {pid[s] : s \in live})

(* The number given to slot q, whose state is already EMBRYO. *)
get_smallest_pid(q) ==
  LET taken == {pid[s] : s \in {r \in Slots : r = q \/ state[r] # "UNUSED"}}
      free == (0 .. NPROC - 1) \ taken
  IN  IF free = {} THEN -1 ELSE Min(free)

Unused == {s \in Slots : state[s] = "UNUSED"}

(* fork() as far as allocproc()'s critical section. *)
allocproc(c) ==
  LET s == cpu[c]
      q == Min(Unused)
  IN  /\ Syscall(c, s)
      /\ Unused # {}
      /\ NPROC - Cardinality(Unused) < MaxLive
      /\ state' = [state EXCEPT ![q] = "EMBRYO"]
      /\ pid' = [pid EXCEPT ![q] = get_smallest_pid(q)]
      /\ child' = [child EXCEPT ![s] = q]
      /\ pc' = [pc EXCEPT ![s] = "fork"]
      /\ UNCHANGED <<parent, chan, killed, cpu, panicked>>

(* kalloc() or copyuvm() finds no memory: fork() gives the slot back. *)
fork_fail(c) ==
  LET s == cpu[c]
  IN  /\ s # 0
      /\ pc[s] = "fork"
      /\ OutOfMemory
      /\ state' = [state EXCEPT ![child[s]] = "UNUSED"]
      /\ child' = [child EXCEPT ![s] = 0]
      /\ pc' = [pc EXCEPT ![s] = "user"]
      /\ UNCHANGED <<pid, parent, chan, killed, cpu, panicked>>

(* The rest of fork(): the child is complete, and may run. *)
fork_run(c) ==
  LET s == cpu[c]
  IN  /\ s # 0
      /\ pc[s] = "fork"
      /\ parent' = [parent EXCEPT ![child[s]] = s]
      /\ state' = [state EXCEPT ![child[s]] = "RUNNABLE"]
      /\ child' = [child EXCEPT ![s] = 0]
      /\ pc' = [pc EXCEPT ![s] = "user"]
      /\ UNCHANGED <<pid, chan, killed, cpu, panicked>>

-----------------------------------------------------------------------------
(* Every process sleeping on channel ch is made RUNNABLE. *)
wakeup1(st, ch) ==
  [s \in Slots |-> IF st[s] = "SLEEPING" /\ chan[s] = ch THEN "RUNNABLE"
                                                         ELSE st[s]]

Orphans(s) == {q \in Slots : parent[q] = s}

(* The wakeups of exit(): the parent, and init if it inherits a zombie. *)
exit_wakeups_OnlyInit(s) ==
  IF \E q \in Orphans(s) : state[q] = "ZOMBIE" THEN wakeup1(state, initproc) ELSE state

exit_wakeups(s) ==
  LET st == wakeup1(state, parent[s])
  IN  IF \E q \in Orphans(s) : st[q] = "ZOMBIE" THEN wakeup1(st, initproc) ELSE st

(* exit() passes abandoned children to init. *)
reparent_None(s) == parent
reparent(s) == [q \in Slots |-> IF q \in Orphans(s) THEN initproc ELSE parent[q]]

(***************************************************************************)
(* exit() from its acquire of ptable.lock on: called by the program, or by *)
(* trap() because the process was killed.                                  *)
(***************************************************************************)
exit(c) ==
  LET s == cpu[c]
  IN  /\ s # 0
      /\ pc[s] = "user"
      /\ s = initproc => killed[s]
      /\ IF s = initproc
           THEN panicked' = TRUE /\ UNCHANGED <<state, parent, cpu>>
           ELSE /\ parent' = reparent(s)
                /\ sched(c, [exit_wakeups(s) EXCEPT ![s] = "ZOMBIE"])
                /\ UNCHANGED panicked
      /\ UNCHANGED <<pid, chan, killed, pc, child>>

(* One turn of the loop of wait(), under ptable.lock: reap, give up or sleep. *)
wait(c) ==
  LET s == cpu[c]
      kids == {q \in Slots : parent[q] = s}
      zombies == {q \in kids : state[q] = "ZOMBIE"}
      z == Min(zombies)
  IN  /\ Syscall(c, s) \/ (s # 0 /\ pc[s] = "wait")
      /\ \/ /\ zombies # {}
            /\ pid' = [pid EXCEPT ![z] = 0]
            /\ parent' = [parent EXCEPT ![z] = 0]
            /\ killed' = [killed EXCEPT ![z] = FALSE]
            /\ state' = [state EXCEPT ![z] = "UNUSED"]
            /\ chan' = [chan EXCEPT ![s] = 0]
            /\ pc' = [pc EXCEPT ![s] = "user"]
            /\ UNCHANGED cpu
         \/ /\ zombies = {}
            /\ kids = {} \/ killed[s]
            /\ chan' = [chan EXCEPT ![s] = 0]
            /\ pc' = [pc EXCEPT ![s] = "user"]
            /\ UNCHANGED <<state, pid, parent, killed, cpu>>
         \/ /\ zombies = {}
            /\ kids # {} /\ ~killed[s]
            /\ chan' = [chan EXCEPT ![s] = s]
            /\ pc' = [pc EXCEPT ![s] = "wait"]
            /\ sched(c, [state EXCEPT ![s] = "SLEEPING"])
            /\ UNCHANGED <<pid, parent, killed>>
      /\ UNCHANGED <<child, panicked>>

kill_NoWakeup(c, k) ==
  LET named == {s \in Slots : pid[s] = k}
  IN  /\ Syscall(c, cpu[c])
      /\ named # {}
      /\ killed' = [killed EXCEPT ![Min(named)] = TRUE]
      /\ UNCHANGED <<state, pid, parent, chan, cpu, pc, child, panicked>>

(* kill(k): the first slot whose pid is k. *)
kill(c, k) ==
  LET named == {s \in Slots : pid[s] = k}
      q == Min(named)
  IN  /\ Syscall(c, cpu[c])
      /\ named # {}
      /\ killed' = [killed EXCEPT ![q] = TRUE]
      /\ state' = [state EXCEPT ![q] = IF @ = "SLEEPING" THEN "RUNNABLE" ELSE @]
      /\ UNCHANGED <<pid, parent, chan, cpu, pc, child, panicked>>

-----------------------------------------------------------------------------
(***************************************************************************)
(* sys_sleep(n): the loop's tests with tickslock held, at the first turn   *)
(* and again after each wakeup.  How many ticks n leaves is left open.     *)
(***************************************************************************)
sys_sleep(c) ==
  LET s == cpu[c]
  IN  /\ Syscall(c, s) \/ (s # 0 /\ pc[s] = "ticks")
      /\ \A q \in Slots : pc[q] # "tickslock"
      /\ chan' = [chan EXCEPT ![s] = 0]
      /\ \/ ~killed[s] /\ pc' = [pc EXCEPT ![s] = "tickslock"]
         \/ pc' = [pc EXCEPT ![s] = "user"]
      /\ UNCHANGED <<state, pid, parent, killed, cpu, child, panicked>>

(* sleep(&ticks, &tickslock): takes ptable.lock, then drops tickslock. *)
sleep(c) ==
  LET s == cpu[c]
  IN  /\ s # 0
      /\ pc[s] = "tickslock"
      /\ chan' = [chan EXCEPT ![s] = ticks]
      /\ pc' = [pc EXCEPT ![s] = "ticks"]
      /\ sched(c, [state EXCEPT ![s] = "SLEEPING"])
      /\ UNCHANGED <<pid, parent, killed, child, panicked>>

(* The timer interrupt of trap(): wakeup(&ticks) under tickslock. *)
timer ==
  /\ \A q \in Slots : pc[q] # "tickslock"
  /\ state' = wakeup1(state, ticks)
  /\ UNCHANGED <<pid, parent, chan, killed, cpu, pc, child, panicked>>

-----------------------------------------------------------------------------
(***************************************************************************)
(* CPU c can take ptable.lock.  A process that sched() resumes inside      *)
(* wait() holds it from the moment it is RUNNING.                          *)
(***************************************************************************)
LockFree(c) == \A d \in Cpus \ {c} : cpu[d] # 0 => pc[cpu[d]] # "wait"

(* Kernel code the process on CPU c is in the middle of. *)
InKernel(c) ==
  \/ fork_fail(c)
  \/ LockFree(c) /\ (fork_run(c) \/ sleep(c))
  \/ LockFree(c) /\ cpu[c] # 0 /\ pc[cpu[c]] = "wait" /\ wait(c)
  \/ cpu[c] # 0 /\ pc[cpu[c]] = "ticks" /\ sys_sleep(c)
  \/ LockFree(c) /\ cpu[c] # 0 /\ killed[cpu[c]] /\ exit(c)

(* System calls the process on CPU c may make. *)
Calls(c) ==
  \/ sys_sleep(c)
  \/ LockFree(c) /\ (allocproc(c) \/ exit(c) \/ wait(c))
  \/ LockFree(c) /\ \E k \in KillPids : kill(c, k)

Tick == timer /\ \A c \in Cpus : LockFree(c)

Next ==
  /\ ~panicked
  /\ \/ \E c \in Cpus : InKernel(c) \/ Calls(c)
     \/ \E c \in Cpus : LockFree(c) /\ (scheduler(c) \/ yield(c))
     \/ Tick

Spec == userinit /\ [][Next]_vars

(***************************************************************************)
(* Each CPU keeps scheduling and taking timer interrupts, and whoever      *)
(* spins for a lock gets it in the end (strong fairness: the lock may be   *)
(* taken and given back in between).  A process on a CPU goes on with the  *)
(* kernel code it is in, and a killed one is made to exit at its next      *)
(* trap.  Nobody is obliged to make a system call.                         *)
(***************************************************************************)
On(s, A(_)) == \E c \in Cpus : cpu[c] = s /\ A(c)

Fairness ==
  /\ \A c \in Cpus : SF_vars(~panicked /\ LockFree(c) /\ scheduler(c))
  /\ \A c \in Cpus : SF_vars(~panicked /\ LockFree(c) /\ yield(c))
  /\ \A s \in Slots : SF_vars(~panicked /\ On(s, InKernel))
  /\ SF_vars(~panicked /\ Tick)

FairSpec == Spec /\ Fairness

-----------------------------------------------------------------------------
(* The type of every variable. *)
TypeOK ==
  /\ state \in [Slots -> States]
  /\ pid \in [Slots -> -1 .. NPROC - 1]
  /\ parent \in [Slots -> 0 .. NPROC]
  /\ chan \in [Slots -> 0 .. ticks]
  /\ killed \in [Slots -> BOOLEAN]
  /\ cpu \in [Cpus -> 0 .. NPROC]
  /\ pc \in [Slots -> {"user", "fork", "wait", "tickslock", "ticks"}]
  /\ child \in [Slots -> 0 .. NPROC]
  /\ panicked \in BOOLEAN

Alive(s) == state[s] \notin {"UNUSED", "EMBRYO", "ZOMBIE"}

(***************************************************************************)
(* scheduler()/sched(): a process is RUNNING exactly when one CPU runs it. *)
(* Two CPUs on one kernel stack would corrupt it.                          *)
(***************************************************************************)
OneCpuEach ==
  \A s \in Slots :
    Cardinality({c \in Cpus : cpu[c] = s}) = (IF state[s] = "RUNNING" THEN 1 ELSE 0)

(***************************************************************************)
(* exit() passes its children to init before it becomes a zombie, so every *)
(* process, zombies included, has a parent that can still wait() for it.   *)
(***************************************************************************)
ParentCanWait ==
  \A s \in Slots \ {initproc} :
    state[s] \notin {"UNUSED", "EMBRYO"} => parent[s] # 0 /\ Alive(parent[s])

(***************************************************************************)
(* No wakeup of wait() is lost: a process sleeps in wait() only while it   *)
(* has a child, none of its children is a zombie, and nobody killed it.    *)
(***************************************************************************)
WaitMissesNothing ==
  \A s \in Slots :
    (state[s] = "SLEEPING" /\ pc[s] = "wait") =>
      /\ ~killed[s]
      /\ \E q \in Slots : parent[q] = s
      /\ \A q \in Slots : parent[q] = s => state[q] # "ZOMBIE"

(***************************************************************************)
(* get_smallest_pid() with a table that other CPUs change: no two          *)
(* processes have the same pid, zombies and half-made children included,   *)
(* so kill() and wait() mean one process, whatever fork() failed before.   *)
(***************************************************************************)
PidsDistinct ==
  \A s, q \in Slots :
    (state[s] # "UNUSED" /\ state[q] # "UNUSED" /\ pid[s] = pid[q]) => s = q

(* The scheduler starves nobody: a RUNNABLE process gets a CPU. *)
RunnableRuns ==
  \A s \in Slots : state[s] = "RUNNABLE" ~> state[s] = "RUNNING"

(***************************************************************************)
(* kill() takes effect even on a process asleep in wait() or sys_sleep(),  *)
(* or about to sleep: a killed process other than init ends up a zombie.   *)
(***************************************************************************)
KilledDies ==
  \A s \in Slots \ {initproc} :
    (Alive(s) /\ killed[s]) ~> ~(Alive(s) /\ killed[s])

=============================================================================
