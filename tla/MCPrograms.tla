----------------------------- MODULE MCPrograms -----------------------------
(***************************************************************************)
(* The programs that work alone, for TLC: a behaviour is one of a program  *)
(* that uses malloc() and free(), of grep, or of mkfs.                     *)
(***************************************************************************)
EXTENDS Umalloc, Grep, Mkfs

VARIABLE prog

vars == <<heapvars, grepvars, imagevars, prog>>

Init ==
  /\ prog \in {"malloc", "grep", "mkfs"}
  /\ HeapInit
  /\ IF prog = "grep" THEN GrepInit
     ELSE /\ pattern = << >> /\ files = << >> /\ input = << >> /\ buf = << >>
          /\ out = << >> /\ kept = << >> /\ state = "exit"
  /\ IF prog = "mkfs" THEN ImageInit
     ELSE /\ dinode = << >> /\ block = << >> /\ bitmap = {} /\ freeinode = 0
          /\ freeblock = 0 /\ args = << >> /\ unread = 0 /\ append = Nothing /\ stage = "none"

Next ==
  \/ prog = "malloc" /\ HeapNext /\ UNCHANGED <<grepvars, imagevars, prog>>
  \/ prog = "grep" /\ GrepNext /\ UNCHANGED <<heapvars, imagevars, prog>>
  \/ prog = "mkfs" /\ ImageNext /\ UNCHANGED <<heapvars, grepvars, prog>>

Spec == Init /\ [][Next]_vars

MCChars == {"a", "b", ".", "*", "^", "$"}
MCPatterns ==
  UNION {[1 .. k -> MCChars] : k \in 0 .. 3}
    \cup {<<"a", "*", "b", "*">>, <<".", "*", "a", "$">>, <<"a", ".", "*", "b">>,
          <<"^", "a", "*", "$">>, <<"$", "*", "a", "*">>}
MCArguments ==
  {<<text>> : text \in [1 .. 4 -> {"a", "b", NL}]}
    \cup {<< <<"$", "a", NL>>, Missing, <<"a", NL>> >>,
          << <<"*", "a", NL>>, <<"^", "b", NL, "a", ".", NL>> >>}

MCDisks == UNION {[1 .. k -> {0, 1, 2, 3, 5, 7}] : k \in 0 .. 3}
=============================================================================
