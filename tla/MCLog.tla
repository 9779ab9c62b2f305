------------------------------- MODULE MCLog -------------------------------
(* The instance of Log for TLC; MCLog.cfg gives its constants. *)
EXTENDS Log
=============================================================================
