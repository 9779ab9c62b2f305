---------------------------- MODULE AtomicStore ----------------------------
(***************************************************************************)
(* What log.c promises to the file system above it, whatever its buffers,  *)
(* its on-disk log and its recovery do: a store of blocks in which the     *)
(* updates of a group of operations become stable all together, only when  *)
(* none of the operations is still running, and in which a crash falls     *)
(* back to the last stable contents.                                       *)
(***************************************************************************)

CONSTANTS
  Procs,   (* processes that make file-system calls  *)
  Blocks,  (* block numbers of the file system        *)
  Data,    (* possible contents of a block            *)
  Zero     (* contents mkfs leaves in every block     *)

VARIABLES
  stable,  (* what a reboot would find                           *)
  current, (* what bread() shows to the running system           *)
  active   (* processes between begin_op() and end_op()          *)

vars == <<stable, current, active>>

Init ==
  /\ stable = [b \in Blocks |-> Zero]
  /\ current = stable
  /\ active = {}

Begin(p) ==
  /\ active' = active \union {p}
  /\ UNCHANGED <<stable, current>>

(* Only a running operation changes a block. *)
Update(p, b, d) ==
  /\ p \in active
  /\ current' = [current EXCEPT ![b] = d]
  /\ UNCHANGED <<stable, active>>

End(p) ==
  /\ p \in active
  /\ active' = active \ {p}
  /\ UNCHANGED <<stable, current>>

(* All the updates made so far become stable in one step. *)
Commit ==
  /\ active = {}
  /\ stable' = current
  /\ UNCHANGED <<current, active>>

Crash ==
  /\ current' = stable
  /\ active' = {}
  /\ UNCHANGED stable

Next ==
  \/ \E p \in Procs : Begin(p) \/ End(p)
  \/ \E p \in Procs, b \in Blocks, d \in Data : Update(p, b, d)
  \/ Commit
  \/ Crash

Spec == Init /\ [][Next]_vars

=============================================================================
