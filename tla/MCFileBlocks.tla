---------------------------- MODULE MCFileBlocks ----------------------------
(* Instances of FileBlocks for TLC. *)
EXTENDS FileBlocks, TLC

Symmetry == Permutations(Procs) \union Permutations(Files) \union Permutations(Inums)

(* Nobody reads a block that is not in use before bzero() has cleared it. *)
UsedView ==
  <<used, [b \in used |-> data[b]], dip, linked, ip, holder, file, proc, panicked>>
=============================================================================
