------------------------------- MODULE MCDisk -------------------------------
(***************************************************************************)
(* A small instance of Disk for TLC: more blocks than buffers, and         *)
(* descriptors for two requests.                                           *)
(***************************************************************************)
EXTENDS Disk, TLC

Requests == {<<"log_write", 1>>, <<"install", 1>>, <<"read", 2>>, <<"write", 3>>, <<"read", 4>>}

ProcSymmetry == Permutations(Proc)
=============================================================================
