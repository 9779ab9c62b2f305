------------------------------ MODULE MCShell ------------------------------
(***************************************************************************)
(* Shell for TLC: every line of up to two characters, and longer ones      *)
(* that nest pipes, lists, blocks, background and redirections.            *)
(***************************************************************************)
EXTENDS Shell

MCChars == {"a", " ", "|", "&", ";", "(", ")", "<", ">"}

MCLong == {
  <<"a", "|", "b", "|", "c">>,
  <<"(", "a", ";", "b", ")", "|", "c">>,
  <<"a", "|", "(", "b", "&", ")">>,
  <<"(", "a", "|", "b", ")", "&", ";", "c">>,
  <<"a", "<", "f", ">", "g", "<", "a">>,
  <<"(", "a", " ", ">", ">", "f", ";", "b", ")", ">", "g">>,
  <<"a", "&", "&", ";", "b", "|", "c", "\n">>,
  <<"a", " ", "b", " ", "c", " ", "a">>,
  <<"c", "d", " ", "f", "\n">>}

MCShort == UNION {[1 .. k -> MCChars] : k \in 0 .. 2}

MCLines == <<MCLong \cup MCShort, {<<"b", "|", "c">>}>>
MCPrograms == {<<"a">>, <<"b">>, <<"c">>}
MCFiles == {<<"a">>, <<"f">>, <<"g">>}
=============================================================================
