------------------------------- MODULE MCShell -------------------------------
(***************************************************************************)
(* A small instance of Shell for TLC: all lines of up to five characters,  *)
(* and some longer ones with nested pipes, lists and background commands.  *)
(***************************************************************************)
EXTENDS Shell

Char == {"a", " "} \cup Symbols
Longer == {
  <<"a", "|", "a", "|", "a", "|", "a">>,
  <<"(", "a", ";", "a", ")", "|", "a">>,
  <<"a", "|", "(", "a", "&", ")", ";", "a">>,
  <<"(", "a", "|", "a", ")", "&", ";", "a">>,
  <<"a", ">", "a", "|", "a", "<", "a">>,
  <<"(", "(", "a", ")", ">", ">", "a", ")", " ", ">", "a">>,
  <<"a", " ", "a", " ", "<", " ", "a", "a", " ", "a">>}
SmallLines == UNION {[1..n -> Char] : n \in 0..5} \cup Longer
=============================================================================
