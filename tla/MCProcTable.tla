---------------------------- MODULE MCProcTable ----------------------------
(* ProcTable for TLC. *)
EXTENDS ProcTable
=============================================================================
