------------------------------ MODULE MCInodes ------------------------------
(* Instances of Inodes for TLC. *)
EXTENDS Inodes, TLC

Call(c, path) == [call |-> c, path |-> path, new |-> << >>]

(* A directory d, and a file that is f in the root, d/f, or both. *)
TreeCalls ==
  {Call("create", <<"f">>), Call("open", <<"f">>), Call("unlink", <<"f">>),
   Call("mkdir", <<"d">>), Call("unlink", <<"d">>), Call("unlink", <<"d", "f">>),
   [call |-> "link", path |-> <<"f">>, new |-> <<"d", "f">>],
   Call("create", <<"d", "f">>), Call("open", <<"d">>)}

ProcSymmetry == Permutations(Procs)
=============================================================================
