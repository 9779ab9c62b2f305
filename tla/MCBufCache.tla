----------------------------- MODULE MCBufCache -----------------------------
(* Instances of BufCache for TLC. *)
EXTENDS BufCache, TLC

Symmetry == Permutations(Procs) \union Permutations(Blocks) \union Permutations(Bufs)
=============================================================================
