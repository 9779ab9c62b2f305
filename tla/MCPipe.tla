------------------------------- MODULE MCPipe -------------------------------
(* Instances of Pipe for TLC. *)
EXTENDS Pipe

(* Writes shorter and longer than the buffer. *)
SomeMessages == {<<1>>, <<0, 1, 1>>}
=============================================================================
