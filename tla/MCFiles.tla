------------------------------- MODULE MCFiles -------------------------------
(***************************************************************************)
(* A small instance of Files for TLC.  What follows a lost update of f->ref*)
(* is not explored.                                                        *)
(***************************************************************************)
EXTENDS Files, TLC

NothingLost == ~lost
Others == Permutations(Proc \ {Root})
=============================================================================
