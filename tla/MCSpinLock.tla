----------------------------- MODULE MCSpinLock -----------------------------
(***************************************************************************)
(* SpinLock for two CPUs and the lock uses of KernelLocks.                 *)
(***************************************************************************)
EXTENDS KernelLocks, TLC

MCLocks == {"ptable", "log", "cons", "tickslock", "kmem"}
MCCalls == {begin_op, end_op, wait, consoleread, sys_sleep}
MCIrqs == {tick, consoleintr}
MCSym == Permutations(Cpus) \cup Permutations(Threads)
=============================================================================
