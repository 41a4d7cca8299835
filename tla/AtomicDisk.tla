----------------------------- MODULE AtomicDisk -----------------------------
(***************************************************************************)
(* What the log of kernel/log.c promises to the file system: operations    *)
(* bracketed by begin_op() and end_op() update blocks; a commit makes the  *)
(* updates of all the operations before it durable in one step, and only   *)
(* while no operation is running; a crash takes the disk back to the last  *)
(* commit.                                                                 *)
(***************************************************************************)
CONSTANTS
  Proc,     \* processes
  Block,    \* home blocks of the file system
  Value     \* contents of a block

VARIABLES
  durable,  \* what a restart finds in each block
  current,  \* what a running operation reads in each block
  active    \* processes between begin_op() and end_op()

vars == <<durable, current, active>>

Init ==
  /\ durable \in [Block -> Value]
  /\ current = durable
  /\ active = {}

Begin(p) ==
  /\ p \notin active
  /\ active' = active \cup {p}
  /\ UNCHANGED <<durable, current>>

Write(p, b, v) ==
  /\ p \in active
  /\ current' = [current EXCEPT ![b] = v]
  /\ UNCHANGED <<durable, active>>

End(p) ==
  /\ p \in active
  /\ active' = active \ {p}
  /\ UNCHANGED <<durable, current>>

Commit ==
  /\ active = {}
  /\ durable' = current
  /\ UNCHANGED <<current, active>>

Crash ==
  /\ current' = durable
  /\ active' = {}
  /\ UNCHANGED durable

Next ==
  \/ \E p \in Proc : Begin(p) \/ End(p)
  \/ \E p \in Proc, b \in Block, v \in Value : Write(p, b, v)
  \/ Commit
  \/ Crash

Spec == Init /\ [][Next]_vars
=============================================================================
