------------------------------ MODULE MCConsole ------------------------------
(***************************************************************************)
(* A small instance of Console for TLC: behaviours with much input, and    *)
(* behaviours with much output.                                            *)
(***************************************************************************)
EXTENDS Console

Budget(t, w, p, r) == [typed |-> t, written |-> w, printed |-> p, read |-> r]
Budgets == {Budget(4, 0, 0, 2), Budget(1, 4, 1, 0)}
=============================================================================
