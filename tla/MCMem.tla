-------------------------------- MODULE MCMem --------------------------------
(***************************************************************************)
(* A small instance of Mem for TLC: pages of two bytes, two entries in a   *)
(* page-table page, programs of one and two segments.                      *)
(***************************************************************************)
EXTENDS Mem

Segment(va, n) == [vaddr |-> va, memsz |-> n]
SmallPrograms == {<<Segment(0, 1)>>, <<Segment(0, 3), Segment(4, 1)>>}
SmallIncrements == {1, 3, -2, -5}
=============================================================================
