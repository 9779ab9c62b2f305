---------------------------- MODULE KernelLocks ----------------------------
(***************************************************************************)
(* What the kernel's functions acquire and release, in order.  A function  *)
(* that may take several ways is given by the one that holds most locks.   *)
(***************************************************************************)
EXTENDS SpinLock

(* Code run with l held, from acquire(l) to release(l). *)
Under(l, body) == <<Acq(l)>> \o body \o <<Rel(l)>>

wakeup == Under(ptable, <<>>)

sleep_LockInside(lk) == <<Acq(ptable), Rel(lk), Sched, Acq(lk), Rel(ptable)>>

(* sleep() with a lock other than ptable.lock. *)
sleep(lk) == <<Acq(ptable), Rel(lk), Sched, Rel(ptable), Acq(lk)>>

begin_op == Under("log", sleep("log"))
end_op == Under("log", wakeup)
consoleread == Under("cons", sleep("cons"))
consoleintr == Under("cons", wakeup)
tick == Under("tickslock", wakeup)
sys_sleep == Under("tickslock", sleep("tickslock"))
kfree == Under("kmem", <<>>)

(* wait(), sleeping and then freeing the stack of a child. *)
wait == Under(ptable, <<Sched>> \o kfree)

cprintf == Under("cons", <<>>)

(* wait() of a child with a shared page: shm_remove() prints under ptable.lock. *)
wait_shm == Under(ptable, cprintf)

=============================================================================
