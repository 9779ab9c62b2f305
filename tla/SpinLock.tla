------------------------------ MODULE SpinLock ------------------------------
(***************************************************************************)
(* Spin locks, interrupt flags and context switches: spinlock.c with the   *)
(* parts of proc.c and trap.c that carry a lock or the interrupt flag from *)
(* one context to another.  Code is a sequence of operations on locks; an  *)
(* operation is cut where another CPU or an interrupt can see the middle.  *)
(***************************************************************************)
EXTENDS Integers, Sequences, FiniteSets

CONSTANTS
  Cpus,      (* processors; each also names its scheduler context          *)
  Threads,   (* kernel threads of processes                                *)
  Locks,     (* the spin locks                                             *)
  ptable,    (* ptable.lock, held across sched()                           *)
  Calls,     (* what system calls do with locks                            *)
  Irqs,      (* what interrupt handlers do with locks                      *)
  Timer,     (* the handler of the timer, after which trap() yields        *)
  MaxNest    (* trap frames on a kernel stack, more than ever are           *)

(* The operations that code is made of. *)
Acq(l) == [op |-> "acquire", lk |-> l]
Rel(l) == [op |-> "release", lk |-> l]
Sched == [op |-> "sched", lk |-> ptable]
Ops == [op : {"acquire", "release", "sched"}, lk : Locks]

ASSUME SpinAssumption ==
  /\ ptable \in Locks
  /\ Cpus \cap Threads = {}
  /\ Calls \subseteq Seq(Ops)
  /\ Irqs \subseteq Seq(Ops)
  /\ MaxNest \in Nat

VARIABLES
  locked, lkcpu,          (* lk->locked and lk->cpu                        *)
  fl_if, ncli, intena,    (* per CPU: FL_IF, and fields of struct cpu      *)
  run,                    (* the context a CPU is in                       *)
  step,                   (* how far the CPU is in the first operation     *)
  todo, below,            (* per context: code left, and its trap frames   *)
  saved, fresh,           (* sched()'s intena; threads not yet in forkret  *)
  held,                   (* locks a CPU has won and not given back        *)
  panicked

vars == <<locked, lkcpu, fl_if, ncli, intena, run, step, todo, below, saved,
          fresh, held, panicked>>

Contexts == Cpus \cup Threads
NoCpu == "nobody"
Steps == {"ready", "holding", "xchg", "own", "unlock", "popcli"}

(***************************************************************************)
(* A trap frame: the code that a trap came in, and what kind of gate it    *)
(* came through.  T_SYSCALL's leaves FL_IF alone, the others clear it.     *)
(***************************************************************************)
Gates == {"fork", "syscall", "interrupt"}
Frames == [todo : Seq(Ops), step : Steps, gate : Gates]
User(gate) == [todo |-> <<>>, step |-> "ready", gate |-> gate]

(* What a new thread begins with, on the stack that allocproc() makes for it. *)
forkret == <<Rel(ptable)>>

Init ==
  /\ locked = [l \in Locks |-> FALSE]
  /\ lkcpu = [l \in Locks |-> NoCpu]
  /\ fl_if = [c \in Cpus |-> FALSE]
  /\ ncli = [c \in Cpus |-> 0]
  /\ intena = [c \in Cpus |-> FALSE]
  /\ run = [c \in Cpus |-> c]
  /\ step = [c \in Cpus |-> "ready"]
  /\ todo = [x \in Contexts |-> IF x \in Threads THEN forkret ELSE <<>>]
  /\ below = [x \in Contexts |-> IF x \in Threads THEN <<User("fork")>> ELSE <<>>]
  /\ saved = [t \in Threads |-> FALSE]
  /\ fresh = Threads
  /\ held = [c \in Cpus |-> {}]
  /\ panicked = FALSE

-----------------------------------------------------------------------------
(* The CPU's context is about to do op o, or in the middle of it. *)
Doing(c, st, o) ==
  /\ step[c] = st
  /\ todo[run[c]] # <<>>
  /\ Head(todo[run[c]]).op = o

Lk(c) == Head(todo[run[c]]).lk
Goes(c, st) == step' = [step EXCEPT ![c] = st]

Ends(c) ==
  /\ todo' = [todo EXCEPT ![run[c]] = Tail(@)]
  /\ Goes(c, "ready")

panic ==
  /\ panicked' = TRUE
  /\ UNCHANGED <<locked, lkcpu, fl_if, ncli, intena, run, step, todo, below,
                 saved, fresh, held>>

holding(c, l) == locked[l] /\ lkcpu[l] = c

-----------------------------------------------------------------------------
pushcli_NoCli(c) ==
  /\ UNCHANGED fl_if
  /\ intena' = [intena EXCEPT ![c] = IF ncli[c] = 0 THEN fl_if[c] ELSE @]
  /\ ncli' = [ncli EXCEPT ![c] = @ + 1]

pushcli(c) ==
  /\ fl_if' = [fl_if EXCEPT ![c] = FALSE]
  /\ intena' = [intena EXCEPT ![c] = IF ncli[c] = 0 THEN fl_if[c] ELSE @]
  /\ ncli' = [ncli EXCEPT ![c] = @ + 1]

(* acquire(): first pushcli(), ... *)
acquire(c) ==
  /\ Doing(c, "ready", "acquire")
  /\ pushcli(c)
  /\ Goes(c, "holding")
  /\ UNCHANGED <<locked, lkcpu, run, todo, below, saved, fresh, held, panicked>>

(* ... then the test that this CPU does not have the lock, ... *)
acquire_test(c) ==
  /\ Doing(c, "holding", "acquire")
  /\ \/ holding(c, Lk(c)) /\ panic
     \/ /\ ~holding(c, Lk(c))
        /\ Goes(c, "xchg")
        /\ UNCHANGED <<locked, lkcpu, fl_if, ncli, intena, run, todo, below, saved,
                       fresh, held, panicked>>

xchg_LoadThenStore(c) ==
  \/ /\ Doing(c, "xchg", "acquire")
     /\ ~locked[Lk(c)]
     /\ Goes(c, "store")
     /\ UNCHANGED <<locked, held, lkcpu, fl_if, ncli, intena, run, todo, below, saved,
                    fresh, panicked>>
  \/ /\ Doing(c, "store", "acquire")
     /\ locked' = [locked EXCEPT ![Lk(c)] = TRUE]
     /\ held' = [held EXCEPT ![c] = @ \cup {Lk(c)}]
     /\ Goes(c, "own")
     /\ UNCHANGED <<lkcpu, fl_if, ncli, intena, run, todo, below, saved, fresh,
                    panicked>>

(* ... the exchange that succeeds (those that fail change nothing), ... *)
xchg(c) ==
  /\ Doing(c, "xchg", "acquire")
  /\ ~locked[Lk(c)]
  /\ locked' = [locked EXCEPT ![Lk(c)] = TRUE]
  /\ held' = [held EXCEPT ![c] = @ \cup {Lk(c)}]
  /\ Goes(c, "own")
  /\ UNCHANGED <<lkcpu, fl_if, ncli, intena, run, todo, below, saved, fresh,
                 panicked>>

(* ... and lk->cpu. *)
acquire_own(c) ==
  /\ Doing(c, "own", "acquire")
  /\ lkcpu' = [lkcpu EXCEPT ![Lk(c)] = c]
  /\ Ends(c)
  /\ UNCHANGED <<locked, fl_if, ncli, intena, run, below, saved, fresh, held,
                 panicked>>

(* release(): the test and lk->cpu, then the store, then popcli(). *)
release(c) ==
  /\ Doing(c, "ready", "release")
  /\ \/ ~holding(c, Lk(c)) /\ panic
     \/ /\ holding(c, Lk(c))
        /\ lkcpu' = [lkcpu EXCEPT ![Lk(c)] = NoCpu]
        /\ Goes(c, "unlock")
        /\ UNCHANGED <<locked, fl_if, ncli, intena, run, todo, below, saved, fresh,
                       held, panicked>>

release_store(c) ==
  /\ Doing(c, "unlock", "release")
  /\ locked' = [locked EXCEPT ![Lk(c)] = FALSE]
  /\ held' = [held EXCEPT ![c] = @ \ {Lk(c)}]
  /\ Goes(c, "popcli")
  /\ UNCHANGED <<lkcpu, fl_if, ncli, intena, run, todo, below, saved, fresh,
                 panicked>>

popcli(c) ==
  /\ Doing(c, "popcli", "release")
  /\ \/ (fl_if[c] \/ ncli[c] < 1) /\ panic
     \/ /\ ~fl_if[c] /\ ncli[c] >= 1
        /\ ncli' = [ncli EXCEPT ![c] = @ - 1]
        /\ fl_if' = [fl_if EXCEPT ![c] = ncli[c] = 1 /\ intena[c]]
        /\ Ends(c)
        /\ UNCHANGED <<locked, lkcpu, intena, run, below, saved, fresh, held,
                       panicked>>

-----------------------------------------------------------------------------
(* sched(): its tests, and the switch to this CPU's scheduler. *)
sched(c) ==
  LET sane == holding(c, ptable) /\ ncli[c] = 1 /\ ~fl_if[c]
  IN  /\ Doing(c, "ready", "sched")
      /\ run[c] \in Threads
      /\ \/ ~sane /\ panic
         \/ /\ sane
            /\ saved' = [saved EXCEPT ![run[c]] = intena[c]]
            /\ run' = [run EXCEPT ![c] = c]
            /\ Ends(c)
            /\ UNCHANGED <<locked, lkcpu, fl_if, ncli, intena, below, fresh, held,
                           panicked>>

(* intena after swtch() into t: sched() restores it, forkret() does not. *)
Resumed_Cpus(c, t) == intena
Resumed(c, t) == [intena EXCEPT ![c] = IF t \in fresh THEN @ ELSE saved[t]]

Idle(t) == \A d \in Cpus : run[d] # t

(* scheduler() inside its loop, with ptable.lock: it switches to thread t. *)
swtch(c, t) ==
  /\ run[c] = c
  /\ step[c] = "ready"
  /\ todo[c] = <<Rel(ptable)>> /\ below[c] = <<>>
  /\ Idle(t)
  /\ run' = [run EXCEPT ![c] = t]
  /\ intena' = Resumed(c, t)
  /\ fresh' = fresh \ {t}
  /\ UNCHANGED <<locked, lkcpu, fl_if, ncli, step, todo, below, saved, held, panicked>>

(* The outer loop of scheduler(): sti(), then acquire ... release. *)
scheduler(c) ==
  /\ run[c] = c
  /\ step[c] = "ready"
  /\ todo[c] = <<>> /\ below[c] = <<>>
  /\ fl_if' = [fl_if EXCEPT ![c] = TRUE]
  /\ todo' = [todo EXCEPT ![c] = <<Acq(ptable), Rel(ptable)>>]
  /\ UNCHANGED <<locked, lkcpu, ncli, intena, run, step, below, saved, fresh, held,
                 panicked>>

-----------------------------------------------------------------------------
(* A thread in user mode makes a system call: trap(), then syscall(). *)
syscall(c, path) ==
  /\ run[c] \in Threads
  /\ step[c] = "ready"
  /\ todo[run[c]] = <<>> /\ below[run[c]] = <<>>
  /\ todo' = [todo EXCEPT ![run[c]] = path]
  /\ below' = [below EXCEPT ![run[c]] = <<User("syscall")>>]
  /\ UNCHANGED <<locked, lkcpu, fl_if, ncli, intena, run, step, saved, fresh, held,
                 panicked>>

yield == <<Acq(ptable), Sched, Rel(ptable)>>

(* Releases less acquires: what code leaves of the locks it begins with. *)
Marks(code, o) == {i \in 1 .. Len(code) : code[i].op = o}
Net(code) == Cardinality(Marks(code, "release")) - Cardinality(Marks(code, "acquire"))

(* Every call and every handler releases as often as it acquires. *)
ASSUME BalanceAssumption ==
  /\ NoCpu \notin Cpus
  /\ \A path \in Calls : Net(path) = 0
  /\ \A irq \in Irqs : Net(irq) = 0 /\ Net(irq \o yield) = 0

(* The locks that code which begins with H has before its i-th operation. *)
Has(code, H, i) ==
  {l \in Locks : \E j \in 0 .. i - 1 :
     /\ IF j = 0 THEN l \in H ELSE code[j] = Acq(l)
     /\ \A m \in j + 1 .. i - 1 : code[m] # Rel(l)}

(***************************************************************************)
(* Taken by itself, code that begins with H acquires a lock it has not,    *)
(* only after locks that `order' allows, releases a lock it has, calls     *)
(* sched() with ptable.lock alone, and ends without a lock.                *)
(***************************************************************************)
Legal(code, H, order) ==
  /\ \A i \in 1 .. Len(code) :
       LET has == Has(code, H, i)
           l == code[i].lk
       IN  /\ code[i].op = "acquire" => l \notin has /\ has \X {l} \subseteq order
           /\ code[i].op = "release" => l \in has
           /\ code[i].op = "sched" => has = {ptable}
  /\ Has(code, H, Len(code) + 1) = {}

Codes == Calls \cup Irqs \cup {irq \o yield : irq \in Irqs}

(* No call and no handler is wrong by itself. *)
ASSUME LegalAssumption == \A code \in Codes : Legal(code, {}, Locks \X Locks)

(***************************************************************************)
(* An interrupt, through a gate that clears FL_IF, and trap() up to its    *)
(* return; the timer makes a process yield, but not the scheduler.         *)
(***************************************************************************)
trap(c, irq) ==
  LET x == run[c]
  IN  /\ fl_if[c]
      /\ Len(below[x]) < MaxNest
      /\ below' = [below EXCEPT ![x] =
                      <<[todo |-> todo[x], step |-> step[c], gate |-> "interrupt"]>> \o @]
      /\ todo' = [todo EXCEPT ![x] =
                    IF irq = Timer /\ x \in Threads THEN irq \o yield ELSE irq]
      /\ Goes(c, "ready")
      /\ fl_if' = [fl_if EXCEPT ![c] = FALSE]
      /\ UNCHANGED <<locked, lkcpu, ncli, intena, run, saved, fresh, held, panicked>>

(* trapret: iret brings back the interrupted code and its FL_IF, which was set. *)
trapret(c) ==
  LET x == run[c]
  IN  /\ step[c] = "ready"
      /\ todo[x] = <<>> /\ below[x] # <<>>
      /\ todo' = [todo EXCEPT ![x] = Head(below[x]).todo]
      /\ Goes(c, Head(below[x]).step)
      /\ below' = [below EXCEPT ![x] = Tail(@)]
      /\ fl_if' = [fl_if EXCEPT ![c] = TRUE]
      /\ UNCHANGED <<locked, lkcpu, ncli, intena, run, saved, fresh, held, panicked>>

LockStep(c) ==
  \/ acquire(c) \/ acquire_test(c) \/ xchg(c) \/ acquire_own(c)
  \/ release(c) \/ release_store(c) \/ popcli(c)

Switches(c) == sched(c) \/ scheduler(c) \/ \E t \in Threads : swtch(c, t)

Traps(c) ==
  \/ \E path \in Calls : syscall(c, path)
  \/ \E irq \in Irqs : trap(c, irq)
  \/ trapret(c)

Next ==
  /\ ~panicked
  /\ \E c \in Cpus : LockStep(c) \/ Switches(c) \/ Traps(c)

Spec == Init /\ [][Next]_vars

-----------------------------------------------------------------------------
(* The type of every variable. *)
TypeOK ==
  /\ locked \in [Locks -> BOOLEAN]
  /\ lkcpu \in [Locks -> Cpus \cup {NoCpu}]
  /\ fl_if \in [Cpus -> BOOLEAN]
  /\ ncli \in [Cpus -> Nat]
  /\ intena \in [Cpus -> BOOLEAN]
  /\ run \in [Cpus -> Contexts]
  /\ step \in [Cpus -> Steps]
  /\ todo \in [Contexts -> Seq(Ops)]
  /\ below \in [Contexts -> Seq(Frames)]
  /\ saved \in [Threads -> BOOLEAN]
  /\ fresh \subseteq Threads
  /\ held \in [Cpus -> SUBSET Locks]
  /\ panicked \in BOOLEAN

(***************************************************************************)
(* acquire()/release(): no two CPUs are between the exchange and the store *)
(* of the same lock, whatever interrupts and context switches happen in    *)
(* between, ptable.lock included, which sched() hands to another context.  *)
(***************************************************************************)
MutualExclusion ==
  \A c, d \in Cpus : c # d => held[c] \cap held[d] = {}

(***************************************************************************)
(* pushcli()/popcli(): while a CPU holds a lock, no interrupt can come on  *)
(* it, so that no handler spins for a lock which the code below it holds.  *)
(* None of the panics of acquire, release, popcli and sched is reached.    *)
(***************************************************************************)
LockedIsQuiet ==
  /\ \A c \in Cpus : held[c] # {} => ~fl_if[c]
  /\ ~panicked

(***************************************************************************)
(* intena is a property of the kernel thread and not of the CPU: outside   *)
(* of locks, a thread has interrupts off exactly in an interrupt handler,  *)
(* also after sched() has brought it to another CPU.  (A new thread takes  *)
(* whatever flag the CPU has, from forkret() until it is in user mode.)    *)
(***************************************************************************)
IntrRestored ==
  \A c \in Cpus :
    LET x == run[c]
        Gate == IF below[x] = <<>> THEN "none" ELSE Head(below[x]).gate
    IN  (x \in Threads /\ step[c] = "ready" /\ ncli[c] = 0 /\ Gate # "fork")
          => (fl_if[c] <=> Gate # "interrupt")

Spins(c, d) == Doing(c, "xchg", "acquire") /\ Lk(c) \in held[d]

(***************************************************************************)
(* Lock order: no group of CPUs spins for locks that the group itself      *)
(* holds.  Interrupts are off meanwhile, so the machine would stand still. *)
(***************************************************************************)
NoSpinCycle ==
  \A S \in (SUBSET Cpus) \ {{}} : \E c \in S : \A d \in S : ~Spins(c, d)

=============================================================================
