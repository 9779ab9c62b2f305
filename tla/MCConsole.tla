----------------------------- MODULE MCConsole -----------------------------
(***************************************************************************)
(* Console for TLC.  The view leaves out what no later step looks at: slots*)
(* of the ring that hold no input, what a finished read got, and the text  *)
(* on the screen, except the line being typed while it is not mixed with   *)
(* output.                                                                 *)
(***************************************************************************)
EXTENDS Console, TLC

MCOutputs == {<<"o">>}

Typed ==
  IF mixed THEN << >>
  ELSE [i \in 1 .. Min({Sub(input.e, input.w), screen.pos}) |-> screen.crt[screen.pos - i]]

From == IF mixed THEN 0 ELSE screen.from

ConsoleView ==
  <<shift, down, pend, input.r, Between(input.r, input.w), Between(input.w, input.e),
    screen.pos, From, Typed, mixed, pc, n,
    [p \in Procs |-> IF pc[p] \in {"user", "gone"} THEN << >> ELSE dst[p]], killed>>

MCSym == Permutations(Procs)
=============================================================================
