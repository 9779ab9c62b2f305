----------------------------- MODULE ByteStream -----------------------------
(***************************************************************************)
(* What a pipe promises: a bounded queue of bytes.  A writer's bytes enter *)
(* it in order, a few at a time; a read takes a prefix out.                *)
(***************************************************************************)
EXTENDS Integers, Sequences

CONSTANTS Procs, Byte, Capacity, Messages

VARIABLES
  queue,   (* bytes written and not yet read                    *)
  left,    (* what each process's write still has to deliver    *)
  addr     (* what each process's last read returned            *)

vars == <<queue, left, addr>>

Init ==
  /\ queue = << >>
  /\ left = [p \in Procs |-> << >>]
  /\ addr = [p \in Procs |-> << >>]

(* A write of m, or of what it has left, puts k bytes; it may then give up. *)
Put(p, m, k) ==
  /\ k <= Len(m)
  /\ Len(queue) + k <= Capacity
  /\ queue' = queue \o SubSeq(m, 1, k)
  /\ \/ left' = [left EXCEPT ![p] = SubSeq(m, k + 1, Len(m))]
     \/ left' = [left EXCEPT ![p] = << >>]
  /\ UNCHANGED addr

Write(p, m, k) == left[p] = << >> /\ Put(p, m, k)

Resume(p, k) == left[p] # << >> /\ Put(p, left[p], k)

Read(p, k) ==
  /\ k <= Len(queue)
  /\ addr' = [addr EXCEPT ![p] = SubSeq(queue, 1, k)]
  /\ queue' = SubSeq(queue, k + 1, Len(queue))
  /\ UNCHANGED left

Next ==
  \E p \in Procs :
    \E k \in 0 .. Capacity :
      \/ Resume(p, k)
      \/ Read(p, k)
      \/ \E m \in Messages : Write(p, m, k)

Spec == Init /\ [][Next]_vars

=============================================================================
