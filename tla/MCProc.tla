------------------------------- MODULE MCProc -------------------------------
(***************************************************************************)
(* A small instance of Proc for TLC: init, a program that forks and waits, *)
(* and a program that sleeps and kills.                                    *)
(***************************************************************************)
EXTENDS Proc

Programs == <<{}, {"alloc", "wait", "exit"}, {"exit", "sleep", "kill"}>>
=============================================================================
