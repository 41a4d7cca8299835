------------------------------ MODULE LogProofs ------------------------------
(***************************************************************************)
(* Proofs about Log, for any number of processes, blocks, log entries and  *)
(* crashes: the invariants behind the commit protocol, and the theorems    *)
(* that a commit runs alone on pinned updates, that begin_op() reserves    *)
(* the space that the admitted operations need, and that the log           *)
(* implements the atomic disk.                                             *)
(***************************************************************************)
EXTENDS Log, FiniteSetTheorems, TLAPS

(* Where a process may be in begin_op(), its operation, end_op() and         *)
(* commit(), and the boot thread in initlog().                               *)
Labels == {"idle", "begin", "sleep", "op", "log_write", "write_log", "install", "end"}
BootLabels == {"read_head", "install", "done"}

(* The types of the variables; neither header outgrows struct logheader.     *)
TypeInv ==
  /\ disk \in [Block -> Value \cup {Torn}]
  /\ dlog \in [LogBlock -> Value \cup {Torn}]
  /\ dhead \in Seq(Block) /\ lh \in Seq(Block)
  /\ Len(lh) <= LOGSIZE /\ Len(dhead) <= LOGSIZE
  /\ cache \in [Block -> Value \cup {Torn, NULL}]
  /\ pins \in [Block -> Int] /\ lock \in [Block -> Proc \cup {NULL}]
  /\ outstanding \in Int /\ committing \in BOOLEAN
  /\ pc \in [Thread -> Labels \cup BootLabels]
  /\ tail \in [Thread -> Nat]
  /\ wrote \in [Proc -> SUBSET Block] /\ nwrites \in [Proc -> Nat]
  /\ panicked \in BOOLEAN /\ crashes \in Nat

(* The steps of Next, one disjunct for each action and each way to crash.    *)
LEMMA NextCases ==
  ASSUME [Next]_vars
  PROVE  \/ \E p \in Proc : BeginOp(p)
         \/ \E p \in Proc : BeginOpSleeps(p)
         \/ \E p \in Proc, b \in Block, v \in Value : Modify(p, b, v)
         \/ \E p \in Proc, b \in Block : LogWrite(p, b)
         \/ \E p \in Proc : LogWritePanics(p)
         \/ \E p \in Proc : EndOp(p)
         \/ \E p \in Proc : WriteLog(p)
         \/ \E p \in Proc : WriteHead(p)
         \/ \E p \in Proc : CommitNothing(p)
         \/ \E t \in Thread : Install(t)
         \/ \E t \in Thread : Clear(t)
         \/ \E p \in Proc : FinishCommit(p)
         \/ ReadHead
         \/ \E b \in Block : Recycle(b)
         \/ Crash
         \/ \E t \in Thread, i \in LogBlock : CrashInLogWrite(t, i)
         \/ \E t \in Thread, b \in Block : CrashInHomeWrite(t, b)
         \/ UNCHANGED vars
<1>1. Proc \subseteq Thread /\ Boot \in Thread
  BY DEF Thread
<1> QED BY <1>1, Zenon DEF Next, ProcStep, BootStep, CrashStep

(* Types survive a crash: recovery starts on an empty cache and log.         *)
LEMMA RestartType ==
  ASSUME TypeInv, Restart, disk' \in [Block -> Value \cup {Torn}],
         dlog' \in [LogBlock -> Value \cup {Torn}], dhead' = dhead
  PROVE  TypeInv'
<1>1. <<>> \in Seq(Block) /\ Len(<<>>) = 0 /\ 0 <= LOGSIZE
  BY LogSizes
<1>2. lh' \in Seq(Block) /\ Len(lh') <= LOGSIZE
  BY <1>1 DEF Restart
<1>3. dhead' \in Seq(Block) /\ Len(dhead') <= LOGSIZE
  BY DEF TypeInv
<1>4. cache' \in [Block -> Value \cup {Torn, NULL}] /\ pins' \in [Block -> Int] /\ lock' \in [Block -> Proc \cup {NULL}]
  BY DEF Restart
<1>5. pc' \in [Thread -> Labels \cup BootLabels] /\ tail' \in [Thread -> Nat]
  BY DEF Restart, Labels, BootLabels
<1>6. /\ wrote' \in [Proc -> SUBSET Block] /\ nwrites' \in [Proc -> Nat] /\ panicked' \in BOOLEAN
      /\ crashes' \in Nat /\ outstanding' \in Int /\ committing' \in BOOLEAN
  <2>1. wrote' = [p \in Proc |-> {}] /\ nwrites' = [p \in Proc |-> 0]
    BY DEF Restart
  <2>2. panicked' = FALSE /\ crashes' = crashes + 1 /\ outstanding' = 0 /\ committing' = FALSE
    BY DEF Restart
  <2>3. panicked' \in BOOLEAN /\ committing' \in BOOLEAN
    BY <2>2, Zenon
  <2> QED BY <2>1, <2>2, <2>3 DEF TypeInv
<1> QED BY <1>2, <1>3, <1>4, <1>5, <1>6 DEF TypeInv

(* Every step of log.c keeps the types, and log.lh within LOGSIZE entries:   *)
(* log_write() panics before it appends to a full log.                       *)
LEMMA TypeStep ==
  ASSUME TypeInv, [Next]_vars
  PROVE  TypeInv'
<1> USE DEF TypeInv, diskVars, cacheVars, logVars, procVars, Labels, BootLabels
<1>0. Proc \subseteq Thread /\ Boot \in Thread
  BY DEF Thread
<1>1. ASSUME NEW p \in Proc, BeginOp(p) PROVE TypeInv'
  BY <1>0, <1>1 DEF BeginOp, Goto
<1>2. ASSUME NEW p \in Proc, BeginOpSleeps(p) PROVE TypeInv'
  BY <1>0, <1>2 DEF BeginOpSleeps, Goto
<1>3. ASSUME NEW p \in Proc, NEW b \in Block, NEW v \in Value, Modify(p, b, v) PROVE TypeInv'
  BY <1>0, <1>3 DEF Modify, Goto
<1>4. ASSUME NEW p \in Proc, NEW b \in Block, LogWrite(p, b) PROVE TypeInv'
  <2>1. lh' \in Seq(Block) /\ Len(lh') <= LOGSIZE /\ pins' \in [Block -> Int]
    <3>1. CASE Logged(b)
      BY <3>1, <1>4 DEF LogWrite
    <3>2. CASE ~Logged(b)
      <4>1. lh' = Append(lh, b) /\ pins' = [pins EXCEPT ![b] = @ + 1] /\ Len(lh) < LOGSIZE
        BY <3>2, <1>4, LogSizes DEF LogWrite, Pin, TooBig
      <4>2. lh' \in Seq(Block) /\ Len(lh') = Len(lh) + 1
        BY <4>1
      <4> QED BY <4>1, <4>2, LogSizes
    <3> QED BY <3>1, <3>2
  <2>2. wrote' \in [Proc -> SUBSET Block] /\ nwrites' \in [Proc -> Nat] /\ lock' \in [Block -> Proc \cup {NULL}]
    BY <1>4 DEF LogWrite
  <2>3. pc' \in [Thread -> Labels \cup BootLabels]
    BY <1>0, <1>4 DEF LogWrite, Goto
  <2> QED BY <1>4, <2>1, <2>2, <2>3 DEF LogWrite
<1>5. ASSUME NEW p \in Proc, LogWritePanics(p) PROVE TypeInv'
  BY <1>5 DEF LogWritePanics, Panic
<1>6. ASSUME NEW p \in Proc, EndOp(p) PROVE TypeInv'
  <2>1. pc' \in [Thread -> Labels \cup BootLabels] /\ tail' \in [Thread -> Nat] /\ committing' \in BOOLEAN
    <3>1. CASE LastOut
      <4>1. committing' = TRUE /\ Goto(p, "write_log") /\ tail' = [tail EXCEPT ![p] = 0]
        BY <1>6, <3>1 DEF EndOp
      <4>2. committing' \in BOOLEAN
        BY <4>1, Zenon
      <4> QED BY <1>0, <4>1, <4>2 DEF Goto
    <3>2. CASE ~LastOut
      <4>1. WakeupAnd(p, "idle") /\ UNCHANGED <<committing, tail>>
        BY <1>6, <3>2 DEF EndOp
      <4> QED BY <1>0, <4>1 DEF WakeupAnd
    <3> QED BY <3>1, <3>2
  <2> QED BY <1>6, <2>1 DEF EndOp
<1>7. ASSUME NEW p \in Proc, WriteLog(p) PROVE TypeInv'
  <2>1. tail[p] \in Nat /\ tail[p] + 1 \in 1..Len(lh) /\ lh[tail[p] + 1] \in Block
    BY <1>0, <1>7 DEF WriteLog
  <2>2. Bread(lh[tail[p] + 1]) \in Value \cup {Torn}
    BY <2>1 DEF Bread
  <2>3. dlog' \in [LogBlock -> Value \cup {Torn}] /\ cache' \in [Block -> Value \cup {Torn, NULL}]
    BY <1>7, <2>1, <2>2, Zenon DEF WriteLog
  <2>4. tail' \in [Thread -> Nat]
    BY <1>0, <1>7, <2>1 DEF WriteLog
  <2> QED BY Zenon, <1>7, <2>3, <2>4 DEF WriteLog
<1>8. ASSUME NEW p \in Proc, WriteHead(p) PROVE TypeInv'
  BY <1>0, <1>8 DEF WriteHead, Goto
<1>9. ASSUME NEW p \in Proc, CommitNothing(p) PROVE TypeInv'
  BY <1>0, <1>9 DEF CommitNothing, Goto
<1>10. ASSUME NEW t \in Thread, Install(t) PROVE TypeInv'
  <2>1. tail[t] \in Nat /\ tail[t] + 1 \in 1..Len(lh) /\ lh[tail[t] + 1] \in Block
    BY <1>0, <1>10 DEF Install
  <2>2. dlog[tail[t] + 1] \in Value \cup {Torn}
    BY <2>1, LogSizes DEF LogBlock
  <2>3. pins' \in [Block -> Int]
    BY <2>1, <1>10 DEF Install, Unpin
  <2>4. /\ disk' \in [Block -> Value \cup {Torn}] /\ cache' \in [Block -> Value \cup {Torn, NULL}]
        /\ tail' \in [Thread -> Nat]
    BY <1>10, <2>1, <2>2 DEF Install
  <2> QED BY Zenon, <1>10, <2>3, <2>4 DEF Install
<1>11. ASSUME NEW t \in Thread, Clear(t) PROVE TypeInv'
  <2>1. <<>> \in Seq(Block) /\ Len(<<>>) = 0 /\ 0 <= LOGSIZE
    BY LogSizes
  <2> QED BY <1>0, <1>11, <2>1 DEF Clear, Goto
<1>12. ASSUME NEW p \in Proc, FinishCommit(p) PROVE TypeInv'
  BY <1>0, <1>12, Zenon DEF FinishCommit, FinishWakeup, WakeupAnd, CommitOver
<1>13. ASSUME ReadHead PROVE TypeInv'
  BY <1>0, <1>13 DEF ReadHead, Goto
<1>14. ASSUME NEW b \in Block, Recycle(b) PROVE TypeInv'
  BY <1>14 DEF Recycle
<1>15. ASSUME Crash PROVE TypeInv'
  BY <1>15, RestartType DEF Crash
<1>16. ASSUME NEW t \in Thread, NEW i \in LogBlock, CrashInLogWrite(t, i) PROVE TypeInv'
  BY <1>16, RestartType DEF CrashInLogWrite
<1>17. ASSUME NEW t \in Thread, NEW b \in Block, CrashInHomeWrite(t, b) PROVE TypeInv'
  BY Zenon, <1>17, RestartType DEF CrashInHomeWrite
<1>18. ASSUME UNCHANGED vars PROVE TypeInv'
  BY <1>18 DEF vars
<1> HIDE DEF TypeInv
<1> QED BY NextCases, <1>1, <1>2, <1>3, <1>4, <1>5, <1>6, <1>7, <1>8, <1>9, <1>10, <1>11, <1>12, <1>13,
           <1>14, <1>15, <1>16, <1>17, <1>18
-----------------------------------------------------------------------------
(* The processes between begin_op() and end_op().                            *)
Ops == {p \in Proc : InOp(p)}

(* Who may be where. Nothing runs before recovery is over; log.committing    *)
(* says that a process is in commit(), which then is alone; a buffer's       *)
(* sleep-lock belongs to a process in log_write(), one buffer to each; and   *)
(* what an operation has written is forgotten when it ends.                  *)
ControlInv ==
  /\ pc[Boot] \in BootLabels /\ \A p \in Proc : pc[p] \in Labels
  /\ pc[Boot] # "done" => \A p \in Proc : pc[p] = "idle"
  /\ committing <=> \E p \in Proc : InCommit(p)
  /\ CommitAlone
  /\ \A b \in Block : lock[b] # NULL => pc[lock[b]] = "log_write"
  /\ \A b, c \in Block : lock[b] # NULL /\ lock[b] = lock[c] => b = c
  /\ \A p \in Proc : ~InOp(p) => wrote[p] = {}

(* log.outstanding counts the operations in progress.                        *)
CountInv == outstanding = Cardinality(Ops)

(* Counting the operations in progress: one begins, one ends, none is left,  *)
(* one is alone.                                                             *)
LEMMA OpsCount ==
  /\ IsFiniteSet(Ops) /\ Cardinality(Ops) \in Nat
  /\ \A p \in Proc : InOp(p) => Cardinality(Ops) = Cardinality(Ops \ {p}) + 1
  /\ \A p \in Proc : ~InOp(p) => Cardinality(Ops \cup {p}) = Cardinality(Ops) + 1
  /\ Cardinality(Ops) = 0 <=> \A p \in Proc : ~InOp(p)
  /\ \A p \in Proc : InOp(p) /\ Cardinality(Ops) = 1 => \A q \in Proc \ {p} : ~InOp(q)
<1>1. Ops \subseteq Proc /\ IsFiniteSet(Proc)
  BY LogValues DEF Ops
<1>2. IsFiniteSet(Ops)
  BY <1>1, FS_Subset
<1>3. Cardinality(Ops) \in Nat
  BY <1>2, FS_CardinalityType
<1>4. ASSUME NEW p \in Proc, InOp(p)
      PROVE  Cardinality(Ops) = Cardinality(Ops \ {p}) + 1 /\ Cardinality(Ops \ {p}) \in Nat
  <2>1. p \in Ops
    BY <1>4 DEF Ops
  <2>2. IsFiniteSet(Ops \ {p}) /\ Cardinality(Ops \ {p}) = Cardinality(Ops) - 1
    BY <1>2, <2>1, FS_RemoveElement
  <2>3. Cardinality(Ops \ {p}) \in Nat
    BY <2>2, FS_CardinalityType
  <2> QED BY <1>3, <2>2, <2>3
<1>5. ASSUME NEW p \in Proc, ~InOp(p) PROVE Cardinality(Ops \cup {p}) = Cardinality(Ops) + 1
  <2>1. p \notin Ops
    BY <1>5 DEF Ops
  <2> QED BY <1>2, <2>1, FS_AddElement
<1>6. Cardinality(Ops) = 0 <=> \A p \in Proc : ~InOp(p)
  <2>1. Cardinality(Ops) = 0 <=> Ops = {}
    BY <1>2, FS_EmptySet
  <2> QED BY <2>1 DEF Ops
<1>7. ASSUME NEW p \in Proc, InOp(p), Cardinality(Ops) = 1, NEW q \in Proc \ {p} PROVE ~InOp(q)
  <2>1. IsFiniteSet(Ops \ {p}) /\ Cardinality(Ops \ {p}) = 0
    BY <1>2, <1>3, <1>4, <1>7, FS_RemoveElement, FS_Subset
  <2>2. Ops \ {p} = {}
    BY <2>1, FS_EmptySet
  <2> QED BY <2>2 DEF Ops
<1> QED BY <1>2, <1>3, <1>4, <1>5, <1>6, <1>7

(* After a crash nobody runs and nothing is locked.                          *)
LEMMA RestartControl ==
  ASSUME Restart
  PROVE  ControlInv' /\ CountInv'
<1>1. \A p \in Proc : pc'[p] = "idle" /\ wrote'[p] = {}
  BY LogValues DEF Restart, Thread
<1>2. pc'[Boot] = "read_head" /\ ~committing' /\ outstanding' = 0 /\ \A b \in Block : lock'[b] = NULL
  BY DEF Restart, Thread
<1>3. Ops' = {}
  BY <1>1 DEF Ops, InOp
<1>4. CountInv'
  BY <1>2, <1>3, FS_EmptySet DEF CountInv
<1>5. ControlInv'
  BY <1>1, <1>2 DEF ControlInv, CommitAlone, InOp, InCommit, Labels, BootLabels
<1> QED BY <1>4, <1>5

(* Every step keeps the control invariant. The step that matters is          *)
(* end_op()'s: the process that finds log.outstanding at 1 is the only one   *)
(* in an operation, so its commit starts alone; and begin_op() lets nobody   *)
(* in while log.committing.                                                  *)
LEMMA ControlStep ==
  ASSUME TypeInv, ControlInv, CountInv, [Next]_vars
  PROVE  ControlInv'
<1> USE DEF ControlInv, CommitAlone, InOp, InCommit, Labels, BootLabels, diskVars, cacheVars, logVars, procVars
<1>0. Proc \subseteq Thread /\ Boot \in Thread /\ Boot \notin Proc /\ NULL \notin Proc
  BY LogValues DEF Thread
<1>t. /\ pc \in [Thread -> Labels \cup BootLabels] /\ lock \in [Block -> Proc \cup {NULL}]
      /\ wrote \in [Proc -> SUBSET Block]
  BY DEF TypeInv
<1>1. ASSUME NEW p \in Proc, BeginOp(p) PROVE ControlInv'
  BY <1>0, <1>t, <1>1 DEF BeginOp, Goto, Running, MayBegin
<1>2. ASSUME NEW p \in Proc, BeginOpSleeps(p) PROVE ControlInv'
  BY <1>0, <1>t, <1>2 DEF BeginOpSleeps, Goto, Running
<1>3. ASSUME NEW p \in Proc, NEW b \in Block, NEW v \in Value, Modify(p, b, v) PROVE ControlInv'
  BY <1>0, <1>t, <1>3 DEF Modify, Goto, Running
<1>4. ASSUME NEW p \in Proc, NEW b \in Block, LogWrite(p, b) PROVE ControlInv'
  BY <1>0, <1>t, <1>4 DEF LogWrite, Goto, Running
<1>5. ASSUME NEW p \in Proc, LogWritePanics(p) PROVE ControlInv'
  BY <1>5 DEF LogWritePanics, Panic
<1>6. ASSUME NEW p \in Proc, EndOp(p) PROVE ControlInv'
  <2>1. CASE LastOut
    <3>1. \A q \in Proc \ {p} : ~InOp(q)
      BY <1>6, <2>1, OpsCount DEF LastOut, CountInv, EndOp
    <3> QED BY <1>0, <1>t, <1>6, <2>1, <3>1 DEF EndOp, Goto, Running
  <2>2. CASE ~LastOut
    BY <1>0, <1>t, <1>6, <2>2 DEF EndOp, WakeupAnd, Running
  <2> QED BY <2>1, <2>2
<1>7. ASSUME NEW p \in Proc, WriteLog(p) PROVE ControlInv'
  BY <1>7 DEF WriteLog
<1>8. ASSUME NEW p \in Proc, WriteHead(p) PROVE ControlInv'
  BY <1>0, <1>t, <1>8 DEF WriteHead, Goto, Running
<1>9. ASSUME NEW p \in Proc, CommitNothing(p) PROVE ControlInv'
  BY <1>0, <1>t, <1>9 DEF CommitNothing, Goto, Running
<1>10. ASSUME NEW t \in Thread, Install(t) PROVE ControlInv'
  BY <1>10 DEF Install
<1>11. ASSUME NEW t \in Thread, Clear(t) PROVE ControlInv'
  BY <1>0, <1>t, <1>11 DEF Clear, Goto, Thread
<1>12. ASSUME NEW p \in Proc, FinishCommit(p) PROVE ControlInv'
  BY <1>0, <1>t, <1>12 DEF FinishCommit, FinishWakeup, WakeupAnd, CommitOver, Running
<1>13. ASSUME ReadHead PROVE ControlInv'
  BY <1>0, <1>t, <1>13 DEF ReadHead, Goto
<1>14. ASSUME NEW b \in Block, Recycle(b) PROVE ControlInv'
  BY <1>14 DEF Recycle
<1>15. ASSUME Restart PROVE ControlInv'
  BY <1>15, RestartControl
<1>18. ASSUME UNCHANGED vars PROVE ControlInv'
  BY <1>18 DEF vars
<1> HIDE DEF ControlInv
<1> QED BY NextCases, <1>1, <1>2, <1>3, <1>4, <1>5, <1>6, <1>7, <1>8, <1>9, <1>10, <1>11, <1>12, <1>13,
           <1>14, <1>15, <1>18 DEF Crash, CrashInLogWrite, CrashInHomeWrite

(* begin_op() and end_op() keep log.outstanding exact, and nothing else      *)
(* changes it or who is in an operation.                                     *)
LEMMA CountStep ==
  ASSUME TypeInv, ControlInv, CountInv, [Next]_vars
  PROVE  CountInv'
<1> USE DEF CountInv
<1>0. Proc \subseteq Thread /\ Boot \in Thread /\ Boot \notin Proc
  BY LogValues DEF Thread
<1>t. pc \in [Thread -> Labels \cup BootLabels]
  BY DEF TypeInv
<1>a. ASSUME outstanding' = outstanding, \A q \in Proc : InOp(q)' = InOp(q) PROVE CountInv'
  BY <1>a DEF Ops
<1>1. ASSUME NEW p \in Proc, BeginOp(p) PROVE CountInv'
  <2>1. ~InOp(p) /\ Ops' = Ops \cup {p} /\ outstanding' = outstanding + 1
    BY <1>0, <1>t, <1>1 DEF BeginOp, Goto, Ops, InOp
  <2> QED BY <2>1, OpsCount
<1>2. ASSUME NEW p \in Proc, BeginOpSleeps(p) PROVE CountInv'
  BY <1>0, <1>t, <1>2, <1>a DEF BeginOpSleeps, Goto, InOp, logVars
<1>3. ASSUME NEW p \in Proc, NEW b \in Block, NEW v \in Value, Modify(p, b, v) PROVE CountInv'
  BY <1>0, <1>t, <1>3, <1>a DEF Modify, Goto, InOp, logVars
<1>4. ASSUME NEW p \in Proc, NEW b \in Block, LogWrite(p, b) PROVE CountInv'
  BY <1>0, <1>t, <1>4, <1>a DEF LogWrite, Goto, InOp
<1>5. ASSUME NEW p \in Proc, LogWritePanics(p) PROVE CountInv'
  BY <1>5, <1>a DEF LogWritePanics, Panic, InOp, logVars, procVars
<1>6. ASSUME NEW p \in Proc, EndOp(p) PROVE CountInv'
  <2>1. InOp(p) /\ Ops' = Ops \ {p} /\ outstanding' = outstanding - 1
    <3>1. CASE LastOut
      BY <1>0, <1>t, <1>6, <3>1 DEF EndOp, Goto, Ops, InOp
    <3>2. CASE ~LastOut
      BY <1>0, <1>t, <1>6, <3>2 DEF EndOp, WakeupAnd, Ops, InOp
    <3> QED BY <3>1, <3>2
  <2>2. Cardinality(Ops \ {p}) \in Nat
    BY Zenon, OpsCount, FS_Subset, FS_CardinalityType
  <2> QED BY <2>1, <2>2, OpsCount
<1>7. ASSUME NEW p \in Proc, WriteLog(p) PROVE CountInv'
  BY <1>7, <1>a DEF WriteLog, InOp, logVars
<1>8. ASSUME NEW p \in Proc, WriteHead(p) PROVE CountInv'
  BY <1>0, <1>t, <1>8, <1>a DEF WriteHead, Goto, InOp, logVars
<1>9. ASSUME NEW p \in Proc, CommitNothing(p) PROVE CountInv'
  BY <1>0, <1>t, <1>9, <1>a DEF CommitNothing, Goto, InOp, logVars
<1>10. ASSUME NEW t \in Thread, Install(t) PROVE CountInv'
  BY <1>10, <1>a DEF Install, InOp, logVars
<1>11. ASSUME NEW t \in Thread, Clear(t) PROVE CountInv'
  BY <1>0, <1>t, <1>11, <1>a DEF Clear, Goto, InOp
<1>12. ASSUME NEW p \in Proc, FinishCommit(p) PROVE CountInv'
  BY <1>0, <1>t, <1>12, <1>a DEF FinishCommit, FinishWakeup, WakeupAnd, InOp
<1>13. ASSUME ReadHead PROVE CountInv'
  BY <1>0, <1>t, <1>13, <1>a DEF ReadHead, Goto, InOp
<1>14. ASSUME NEW b \in Block, Recycle(b) PROVE CountInv'
  BY <1>14, <1>a DEF Recycle, InOp, logVars, procVars
<1>15. ASSUME Restart PROVE CountInv'
  BY <1>15, RestartControl
<1>18. ASSUME UNCHANGED vars PROVE CountInv'
  BY <1>18, <1>a DEF vars, InOp, logVars, procVars
<1> HIDE DEF CountInv
<1> QED BY NextCases, <1>1, <1>2, <1>3, <1>4, <1>5, <1>6, <1>7, <1>8, <1>9, <1>10, <1>11, <1>12, <1>13,
           <1>14, <1>15, <1>18 DEF Crash, CrashInLogWrite, CrashInHomeWrite
-----------------------------------------------------------------------------
(* log_write() absorbs repeated writes, so a header names a block once.      *)
Distinct(s) == \A i, j \in 1..Len(s) : s[i] = s[j] => i = j
(* The on-disk header names block b.                                         *)
InHead(b) == \E i \in 1..Len(dhead) : dhead[i] = b

(* The two headers. In memory and on disk a block appears once; during       *)
(* install_trans() the two agree, outside it the one on disk is empty; a     *)
(* loop variable stays within the header; and every block that an operation  *)
(* in progress wrote is in log.lh.                                           *)
HeaderInv ==
  /\ Distinct(lh) /\ Distinct(dhead)
  /\ pc[Boot] = "read_head" => lh = <<>>
  /\ \A t \in Thread : pc[t] = "install" => lh = dhead
  /\ pc[Boot] = "done" /\ (\A p \in Proc : pc[p] # "install") => dhead = <<>>
  /\ \A p \in Proc : pc[p] = "end" => lh = <<>>
  /\ \A t \in Thread : pc[t] \in {"write_log", "install"} => tail[t] <= Len(lh)
  /\ \A p \in Proc : \A b \in wrote[p] : Logged(b)

(* A crash empties log.lh and leaves the on-disk header alone.               *)
LEMMA RestartHeader ==
  ASSUME HeaderInv, Restart, dhead' = dhead
  PROVE  HeaderInv'
<1>1. \A p \in Proc : pc'[p] = "idle" /\ wrote'[p] = {}
  BY LogValues DEF Restart, Thread
<1>2. pc'[Boot] = "read_head" /\ lh' = <<>>
  BY DEF Restart, Thread
<1>3. Distinct(<<>>)
  BY DEF Distinct
<1> QED BY <1>1, <1>2, <1>3 DEF HeaderInv, Distinct, Thread

(* Every step keeps the header invariant.                                    *)
LEMMA HeaderStep ==
  ASSUME TypeInv, ControlInv, CountInv, HeaderInv, [Next]_vars
  PROVE  HeaderInv'
<1> USE DEF diskVars, cacheVars, logVars, procVars
<1>0. Proc \subseteq Thread /\ Boot \in Thread /\ Boot \notin Proc /\ NULL \notin Proc
  BY LogValues DEF Thread
<1>t. /\ pc \in [Thread -> Labels \cup BootLabels] /\ tail \in [Thread -> Nat]
      /\ wrote \in [Proc -> SUBSET Block] /\ lh \in Seq(Block) /\ dhead \in Seq(Block)
  BY DEF TypeInv
<1>1. ASSUME NEW p \in Proc, BeginOp(p) PROVE HeaderInv'
  BY <1>0, <1>t, <1>1 DEF BeginOp, Goto, HeaderInv, Logged
<1>2. ASSUME NEW p \in Proc, BeginOpSleeps(p) PROVE HeaderInv'
  BY <1>0, <1>t, <1>2 DEF BeginOpSleeps, Goto, HeaderInv, Logged
<1>3. ASSUME NEW p \in Proc, NEW b \in Block, NEW v \in Value, Modify(p, b, v) PROVE HeaderInv'
  BY <1>0, <1>t, <1>3 DEF Modify, Goto, HeaderInv, Logged
<1>4. ASSUME NEW p \in Proc, NEW b \in Block, LogWrite(p, b) PROVE HeaderInv'
  <2>1. /\ pc[Boot] = "done" /\ pc[p] = "log_write" /\ pc' = [pc EXCEPT ![p] = "op"]
        /\ dhead' = dhead /\ tail' = tail /\ wrote' = [wrote EXCEPT ![p] = @ \cup {b}]
    BY <1>4 DEF LogWrite, Goto, Running
  <2>2. \A q \in Proc : ~InCommit(q) /\ ~InCommit(q)'
    BY <1>0, <1>t, <2>1 DEF ControlInv, CommitAlone, InOp, InCommit
  <2>3. /\ Distinct(lh') /\ Logged(b)' /\ \A c \in Block : Logged(c) => Logged(c)'
    <3>1. CASE Logged(b)
      BY ZenonT(40), <1>4, <3>1 DEF LogWrite, Logged, HeaderInv
    <3>2. CASE ~Logged(b)
      <4>1. lh' = Append(lh, b)
        BY <1>4, <3>2 DEF LogWrite
      <4>2. Len(lh') = Len(lh) + 1 /\ lh'[Len(lh) + 1] = b /\ \A i \in 1..Len(lh) : lh'[i] = lh[i]
        BY <1>t, <4>1
      <4>3. Len(lh) \in Nat
        BY <1>t
      <4>4. Logged(b)' /\ \A c \in Block : Logged(c) => Logged(c)'
        BY <4>2, <4>3 DEF Logged
      <4>5. \A i \in 1..Len(lh) : lh[i] # b
        BY Zenon, <3>2 DEF Logged
      <4>6. Distinct(lh)
        BY Zenon DEF HeaderInv
      <4>7. Distinct(lh')
        BY <4>2, <4>3, <4>5, <4>6 DEF Distinct
      <4> QED BY Zenon, <4>4, <4>7
    <3> QED BY <3>1, <3>2
  <2>4. \A q \in Proc : \A c \in wrote'[q] : Logged(c)'
    BY <1>t, <2>1, <2>3 DEF HeaderInv
  <2> QED BY <1>0, <1>t, <2>1, <2>2, <2>3, <2>4 DEF HeaderInv, InCommit, Thread
<1>5. ASSUME NEW p \in Proc, LogWritePanics(p) PROVE HeaderInv'
  BY <1>5 DEF LogWritePanics, Panic, HeaderInv, Logged
<1>6. ASSUME NEW p \in Proc, EndOp(p) PROVE HeaderInv'
  <2>1. /\ lh' = lh /\ dhead' = dhead /\ wrote' = [wrote EXCEPT ![p] = {}]
        /\ pc[Boot] = "done" /\ pc[p] = "op"
    BY <1>6 DEF EndOp, Running
  <2>2. \A q \in Proc : \A b \in wrote'[q] : Logged(b)'
    BY <1>t, <2>1 DEF HeaderInv, Logged
  <2>3. CASE LastOut
    <3>1. pc' = [pc EXCEPT ![p] = "write_log"] /\ tail' = [tail EXCEPT ![p] = 0]
      BY <1>6, <2>3 DEF EndOp, Goto
    <3> QED BY <1>0, <1>t, <2>1, <2>2, <3>1 DEF HeaderInv
  <2>4. CASE ~LastOut
    <3>1. WakeupAnd(p, "idle") /\ tail' = tail
      BY <1>6, <2>4 DEF EndOp
    <3>2. /\ \A t \in Thread : pc'[t] \in {"write_log", "install", "end", "read_head", "done"} => pc'[t] = pc[t]
          /\ \A t \in Thread : pc[t] = "install" => pc'[t] = "install"
      BY <2>1, <3>1 DEF WakeupAnd
    <3> QED BY <1>0, <2>1, <2>2, <3>1, <3>2 DEF HeaderInv
  <2> QED BY <2>3, <2>4
<1>7. ASSUME NEW p \in Proc, WriteLog(p) PROVE HeaderInv'
  BY <1>0, <1>t, <1>7 DEF WriteLog, HeaderInv, Logged
<1>8. ASSUME NEW p \in Proc, WriteHead(p) PROVE HeaderInv'
  BY <1>0, <1>t, <1>8 DEF WriteHead, Goto, Running, HeaderInv, Logged, ControlInv, CommitAlone, InCommit, Thread
<1>9. ASSUME NEW p \in Proc, CommitNothing(p) PROVE HeaderInv'
  BY <1>0, <1>t, <1>9 DEF CommitNothing, Goto, HeaderInv, Logged
<1>10. ASSUME NEW t \in Thread, Install(t) PROVE HeaderInv'
  BY <1>0, <1>t, <1>10 DEF Install, HeaderInv, Logged
<1>11. ASSUME NEW t \in Thread, Clear(t) PROVE HeaderInv'
  <2>1. /\ lh' = <<>> /\ dhead' = <<>> /\ wrote' = wrote /\ pc[t] = "install" /\ tail' = tail
        /\ pc' = [pc EXCEPT ![t] = IF t = Boot THEN "done" ELSE "end"]
    BY <1>11 DEF Clear, Goto
  <2>2. \A q \in Proc : ~InOp(q)
    BY <1>0, <2>1 DEF ControlInv, CommitAlone, InOp, InCommit, Thread
  <2>3. \A q \in Proc : wrote[q] = {}
    BY <2>2 DEF ControlInv
  <2>4. \A u \in Thread : pc'[u] \notin {"write_log", "install", "read_head"}
    BY <1>0, <1>t, <2>1, ZenonT(40) DEF ControlInv, CommitAlone, InCommit, Thread, Labels, BootLabels
  <2> QED BY <2>1, <2>3, <2>4, <1>0 DEF HeaderInv, Distinct
<1>12. ASSUME NEW p \in Proc, FinishCommit(p) PROVE HeaderInv'
  BY <1>0, <1>t, <1>12 DEF FinishCommit, FinishWakeup, WakeupAnd, Running, HeaderInv, Logged
<1>13. ASSUME ReadHead PROVE HeaderInv'
  <2>1. /\ lh' = dhead /\ dhead' = dhead /\ wrote' = wrote /\ pc[Boot] = "read_head"
        /\ pc' = [pc EXCEPT ![Boot] = "install"] /\ tail' = [tail EXCEPT ![Boot] = 0]
    BY <1>13 DEF ReadHead, Goto
  <2>2. \A q \in Proc : pc'[q] = "idle" /\ wrote'[q] = {}
    BY <1>0, <1>t, <2>1, Zenon DEF ControlInv, InOp
  <2> QED BY <1>0, <1>t, <2>1, <2>2 DEF HeaderInv, Thread
<1>14. ASSUME NEW b \in Block, Recycle(b) PROVE HeaderInv'
  BY <1>14 DEF Recycle, HeaderInv, Logged
<1>15. ASSUME Restart, dhead' = dhead PROVE HeaderInv'
  BY Zenon, <1>15, RestartHeader
<1>18. ASSUME UNCHANGED vars PROVE HeaderInv'
  BY Zenon, <1>18 DEF vars, HeaderInv, Logged
<1> QED BY NextCases, <1>1, <1>2, <1>3, <1>4, <1>5, <1>6, <1>7, <1>8, <1>9, <1>10, <1>11, <1>12, <1>13,
           <1>14, <1>15, <1>18 DEF Crash, CrashInLogWrite, CrashInHomeWrite
-----------------------------------------------------------------------------
(* log_write() has pinned the buffer of b and install_trans() has not yet    *)
(* unpinned it.                                                              *)
Pinned(b) ==
  \E i \in 1..Len(lh) : lh[i] = b /\ \A p \in Proc : pc[p] = "install" => tail[p] < i

(* What is on the disk is never both torn and needed: the log blocks that    *)
(* the header names are whole, and so is every home block the header does    *)
(* not name.                                                                 *)
StoredInv ==
  /\ \A i \in 1..Len(dhead) : dlog[i] \in Value
  /\ \A b \in Block : disk[b] \in Value \/ InHead(b)
  /\ \A b \in Block : cache[b] \in Value \cup {NULL}

(* What is in the cache: exactly the blocks that await installation are      *)
(* pinned, once each; and a buffer that is neither pinned nor being modified *)
(* holds what is on the disk.                                                *)
CachedInv ==
  /\ pc[Boot] # "done" =>
       \A b \in Block : pins[b] = 0 /\ lock[b] = NULL /\ cache[b] \in {NULL, disk[b]}
  /\ pc[Boot] = "done" =>
       \A b \in Block :
         /\ pins[b] = IF Pinned(b) THEN 1 ELSE 0
         /\ cache[b] \in {NULL, disk[b]} \/ lock[b] # NULL \/ Pinned(b)
         /\ lock[b] # NULL \/ Pinned(b) => cache[b] # NULL

(* The progress of the two loops of commit(): write_log() has copied the     *)
(* first tail entries to the log, install_trans() has copied them home, and  *)
(* meanwhile the cache still holds what the log does.                        *)
CopiedInv ==
  /\ \A p \in Proc : pc[p] = "write_log" => \A i \in 1..tail[p] : dlog[i] = Bread(lh[i])
  /\ \A t \in Thread : pc[t] = "install" => \A i \in 1..tail[t] : disk[lh[i]] = dlog[i]
  /\ \A p \in Proc : pc[p] = "install" => \A i \in 1..Len(lh) : Bread(lh[i]) = dlog[i]

(* The content of the disk, of the log and of the cache.                     *)
ContentInv == StoredInv /\ CachedInv /\ CopiedInv

(* A step that touches neither disk nor cache nor log.lh, and that at most   *)
(* enters write_log() or leaves its place in the call, keeps the content     *)
(* invariant.                                                                *)
LEMMA ContentFrame ==
  ASSUME ContentInv, UNCHANGED <<diskVars, cacheVars, lh>>, pc'[Boot] = pc[Boot], tail'[Boot] = tail[Boot],
         \A p \in Proc : pc[p] = "install" => pc'[p] = "install",
         \A p \in Proc : pc'[p] = "install" => pc[p] = "install" /\ tail'[p] = tail[p],
         \A p \in Proc : pc'[p] = "write_log" => \/ tail'[p] = 0
                                                 \/ pc[p] = "write_log" /\ tail'[p] = tail[p]
  PROVE  ContentInv'
<1> USE DEF diskVars, cacheVars
<1>1. \A b \in Block : Pinned(b)' <=> Pinned(b)
  BY DEF Pinned
<1>2. StoredInv'
  BY ZenonT(40) DEF ContentInv, StoredInv, InHead
<1>3. CachedInv'
  BY Zenon, <1>1 DEF ContentInv, CachedInv
<1>4. CopiedInv'
  <2>1. \A b : Bread(b)' = Bread(b)
    BY Zenon DEF Bread
  <2>2. ASSUME NEW p \in Proc, pc'[p] = "write_log", NEW i \in 1..tail'[p] PROVE dlog'[i] = Bread(lh[i])'
    BY <2>1, <2>2 DEF ContentInv, CopiedInv
  <2> QED BY <2>1, <2>2 DEF ContentInv, CopiedInv, Thread
<1> QED BY <1>2, <1>3, <1>4 DEF ContentInv

(* After a crash the content invariant asks only that no block is torn and   *)
(* needed.                                                                   *)
LEMMA RestartContent ==
  ASSUME Restart, \A i \in 1..Len(dhead') : dlog'[i] \in Value,
         \A b \in Block : disk'[b] \in Value \/ InHead(b)'
  PROVE  ContentInv'
<1>1. pc'[Boot] = "read_head" /\ \A p \in Proc : pc'[p] = "idle"
  BY LogValues DEF Restart, Thread
<1>2. \A b \in Block : cache'[b] = NULL /\ pins'[b] = 0 /\ lock'[b] = NULL
  BY DEF Restart
<1> QED BY Zenon, <1>1, <1>2 DEF ContentInv, StoredInv, CachedInv, CopiedInv, Thread

(* An operation modifies a buffer it has locked, while no commit runs.       *)
LEMMA ModifyContent ==
  ASSUME TypeInv, ControlInv, HeaderInv, ContentInv,
         NEW p \in Proc, NEW b \in Block, NEW v \in Value, Modify(p, b, v)
  PROVE  ContentInv'
<1>1. /\ pc[Boot] = "done" /\ pc[p] = "op" /\ pc' = [pc EXCEPT ![p] = "log_write"]
      /\ cache' = [cache EXCEPT ![b] = v] /\ lock' = [lock EXCEPT ![b] = p] /\ pins' = pins
      /\ disk' = disk /\ dlog' = dlog /\ dhead' = dhead /\ lh' = lh /\ tail' = tail
  BY Zenon DEF Modify, Goto, Running, diskVars, logVars
<1>2. Boot \notin Proc /\ NULL \notin Proc /\ NULL \notin Value /\ Proc \subseteq Thread /\ Boot \in Thread
  BY LogValues DEF Thread
<1>3. \A q \in Proc : pc[q] \notin {"write_log", "install"} /\ pc'[q] \notin {"write_log", "install"}
  BY Zenon, <1>1, <1>2 DEF TypeInv, ControlInv, CommitAlone, InOp, InCommit
<1>4. pc'[Boot] = "done" /\ \A c \in Block : Pinned(c)' <=> Pinned(c)
  BY <1>1, <1>2, <1>3 DEF Pinned, TypeInv
<1>5. StoredInv'
  BY <1>1 DEF ContentInv, StoredInv, InHead, TypeInv
<1>6. CachedInv'
  BY Zenon, <1>1, <1>2, <1>4 DEF ContentInv, CachedInv, TypeInv
<1>7. CopiedInv'
  BY Zenon, <1>3, <1>4 DEF CopiedInv, Thread
<1> QED BY ZenonT(40), <1>5, <1>6, <1>7 DEF ContentInv

(* log_write() pins the buffer it is about to unlock, once.                  *)
LEMMA LogWriteContent ==
  ASSUME TypeInv, ControlInv, HeaderInv, ContentInv, NEW p \in Proc, NEW b \in Block, LogWrite(p, b)
  PROVE  ContentInv'
<1>1. /\ pc[Boot] = "done" /\ pc[p] = "log_write" /\ pc' = [pc EXCEPT ![p] = "op"]
      /\ cache' = cache /\ lock[b] = p /\ lock' = [lock EXCEPT ![b] = NULL]
      /\ disk' = disk /\ dlog' = dlog /\ dhead' = dhead /\ tail' = tail
  BY DEF LogWrite, Goto, Running, diskVars
<1>2. Boot \notin Proc /\ NULL \notin Proc /\ Proc \subseteq Thread /\ Boot \in Thread
  BY LogValues DEF Thread
<1>3. \A q \in Proc : pc[q] \notin {"write_log", "install"} /\ pc'[q] \notin {"write_log", "install"}
  BY <1>1, <1>2 DEF TypeInv, ControlInv, CommitAlone, InOp, InCommit
<1>4. pc'[Boot] = "done"
  BY <1>1, <1>2 DEF TypeInv
<1>5. \A c \in Block : /\ Pinned(c)' <=> (Pinned(c) \/ c = b)
                       /\ pins'[c] = IF Pinned(c) \/ c = b THEN 1 ELSE 0
  <2>1. \A c \in Block : pins[c] = IF Pinned(c) THEN 1 ELSE 0
    BY <1>1 DEF ContentInv, CachedInv
  <2>2. \A c \in Block : (Pinned(c) <=> Logged(c)) /\ (Pinned(c)' <=> Logged(c)')
    BY <1>3 DEF Pinned, Logged
  <2>3. CASE Logged(b)
    <3>1. lh' = lh /\ pins' = pins
      BY <2>3 DEF LogWrite
    <3> QED BY <2>1, <2>2, <2>3, <3>1 DEF Logged
  <2>4. CASE ~Logged(b)
    <3>1. lh' = Append(lh, b) /\ pins' = [pins EXCEPT ![b] = @ + 1]
      BY Zenon, <2>4 DEF LogWrite, Pin
    <3>2. /\ Len(lh) \in Nat /\ Len(lh') = Len(lh) + 1 /\ lh'[Len(lh) + 1] = b
          /\ \A i \in 1..Len(lh) : lh'[i] = lh[i]
      BY <3>1 DEF TypeInv
    <3>3. \A c \in Block : Logged(c)' <=> (Logged(c) \/ c = b)
      BY <3>2 DEF Logged
    <3> QED BY <2>1, <2>2, <2>4, <3>1, <3>3 DEF TypeInv
  <2> QED BY Zenon, <2>3, <2>4
<1>6. StoredInv'
  BY <1>1 DEF ContentInv, StoredInv, InHead
<1>7. CachedInv'
  BY ZenonT(40), <1>1, <1>2, <1>4, <1>5 DEF ContentInv, CachedInv, TypeInv
<1>8. CopiedInv'
  BY <1>3, <1>4 DEF CopiedInv, Thread
<1> QED BY <1>6, <1>7, <1>8 DEF ContentInv

(* bget() may take the buffer of any block that is neither locked nor        *)
(* pinned: the disk has its content, and during install_trans() so does the  *)
(* log.                                                                      *)
LEMMA RecycleContent ==
  ASSUME TypeInv, ControlInv, HeaderInv, ContentInv, NEW b \in Block, Recycle(b)
  PROVE  ContentInv'
<1>1. /\ pc[Boot] = "done" /\ cache' = [cache EXCEPT ![b] = NULL] /\ lock[b] = NULL /\ pins[b] = 0
      /\ lock' = lock /\ pins' = pins /\ pc' = pc /\ tail' = tail /\ lh' = lh
      /\ disk' = disk /\ dlog' = dlog /\ dhead' = dhead
  BY Zenon DEF Recycle, Running, diskVars, logVars, procVars
<1>2. ~Pinned(b) /\ \A c \in Block : Pinned(c)' <=> Pinned(c)
  BY <1>1 DEF ContentInv, CachedInv, Pinned
<1>3. StoredInv'
  BY ZenonT(40), <1>1 DEF ContentInv, StoredInv, InHead, TypeInv
<1>4. CachedInv'
  BY <1>1, <1>2 DEF ContentInv, CachedInv, TypeInv
<1>7. lh \in Seq(Block) /\ tail \in [Thread -> Nat] /\ Proc \subseteq Thread
  BY Zenon DEF TypeInv, Thread
<1>8. ASSUME NEW p \in Proc, pc[p] = "write_log", NEW i \in 1..tail[p]
      PROVE  dlog[i] = Bread(lh[i])'
  <2>1. i \in 1..Len(lh)
    <3>1. tail[p] <= Len(lh)
      BY Zenon, <1>7, <1>8 DEF HeaderInv
    <3>2. tail[p] \in Nat /\ Len(lh) \in Nat
      BY <1>7
    <3> QED BY <1>8, <3>1, <3>2
  <2>2. Pinned(lh[i])
    BY ZenonT(40), <1>8, <2>1 DEF Pinned, ControlInv, CommitAlone, InCommit
  <2>3. lh[i] \in Block /\ lh[i] # b /\ dlog[i] = Bread(lh[i])
    <3>1. lh[i] \in Block
      BY <1>7, <2>1
    <3>2. dlog[i] = Bread(lh[i])
      BY Zenon, <1>8 DEF ContentInv, CopiedInv
    <3> QED BY Zenon, <1>2, <2>2, <3>1, <3>2
  <2> QED BY ZenonT(40), <1>1, <2>3 DEF Bread, TypeInv
<1>9. ASSUME NEW p \in Proc, pc[p] = "install", NEW i \in 1..Len(lh)
      PROVE  Bread(lh[i])' = dlog[i]
  <2>1. CASE lh[i] # b
    <3>1. lh[i] \in Block /\ Bread(lh[i]) = dlog[i]
      <4>1. lh[i] \in Block
        BY <1>7, <1>9
      <4> QED BY Zenon, <1>9, <4>1 DEF ContentInv, CopiedInv
    <3> QED BY ZenonT(40), <1>1, <2>1, <3>1 DEF Bread, TypeInv
  <2>2. CASE lh[i] = b
    <3>1. \A q \in Proc : pc[q] = "install" => q = p
      BY Zenon, <1>9 DEF ControlInv, CommitAlone, InCommit
    <3>2. i \in 1..tail[p]
      <4>1. ~(tail[p] < i)
        BY Zenon, <1>2, <1>9, <2>2, <3>1 DEF Pinned
      <4>2. tail[p] \in Nat /\ Len(lh) \in Nat
        BY <1>7
      <4> QED BY <1>9, <4>1, <4>2
    <3>3. disk[lh[i]] = dlog[i]
      BY ZenonT(40), <1>7, <1>9, <3>2 DEF ContentInv, CopiedInv
    <3> QED BY Zenon, <1>1, <2>2, <3>3 DEF Bread, TypeInv
  <2> QED BY <2>1, <2>2
<1>10. CopiedInv'
  BY <1>1, <1>8, <1>9 DEF ContentInv, CopiedInv
<1> QED BY Zenon, <1>3, <1>4, <1>10 DEF ContentInv

(* write_log() finds the buffer of a logged block in the cache, since it is  *)
(* pinned, and copies it to the log while the on-disk header is empty.       *)
LEMMA WriteLogContent ==
  ASSUME TypeInv, ControlInv, HeaderInv, ContentInv, NEW p \in Proc, WriteLog(p)
  PROVE  ContentInv'
<1> DEFINE n == tail[p] + 1
           b == lh[n]
<1>0. /\ Boot \notin Proc /\ NULL \notin Value /\ Proc \subseteq Thread /\ Boot \in Thread
      /\ lh \in Seq(Block) /\ tail \in [Thread -> Nat] /\ cache \in [Block -> Value \cup {Torn, NULL}]
      /\ dlog \in [LogBlock -> Value \cup {Torn}] /\ Len(lh) <= LOGSIZE /\ LOGSIZE \in Nat
  BY Zenon, LogValues, LogSizes DEF Thread, TypeInv
<1>1. /\ pc[Boot] = "done" /\ pc[p] = "write_log" /\ tail[p] < Len(lh)
      /\ dlog' = [dlog EXCEPT ![n] = Bread(b)] /\ cache' = [cache EXCEPT ![b] = Bread(b)]
      /\ tail' = [tail EXCEPT ![p] = @ + 1]
      /\ disk' = disk /\ dhead' = dhead /\ pins' = pins /\ lock' = lock /\ lh' = lh /\ pc' = pc
  BY Zenon DEF WriteLog, Running, logVars
<1>2. \A q \in Proc : pc[q] # "install" /\ (pc[q] = "write_log" => q = p)
  BY <1>1 DEF ControlInv, CommitAlone, InCommit
<1>3. dhead = <<>>
  BY <1>1, <1>2 DEF HeaderInv
<1>4. n \in 1..Len(lh) /\ b \in Block /\ n \in LogBlock
  BY <1>0, <1>1 DEF LogBlock
<1>5. Pinned(b)
  BY ZenonT(40), <1>2, <1>4 DEF Pinned
<1>6. cache[b] # NULL
  BY Zenon, <1>1, <1>4, <1>5 DEF ContentInv, CachedInv
<1>7. Bread(b) = cache[b] /\ cache' = cache
  <2>1. Bread(b) = cache[b]
    BY Zenon, <1>6 DEF Bread
  <2> QED BY <1>0, <1>1, <1>4, <2>1
<1>8. StoredInv'
  <2>1. 1..Len(dhead') = {}
    BY <1>1, <1>3
  <2>2. disk' = disk /\ dhead' = dhead /\ StoredInv
    BY ZenonT(40), <1>1 DEF ContentInv
  <2> QED BY Zenon, <1>7, <2>1, <2>2 DEF StoredInv, InHead
<1>9. CachedInv'
  <2>1. \A c \in Block : Pinned(c)' <=> Pinned(c)
    BY Zenon, <1>1, <1>2 DEF Pinned
  <2> QED BY Zenon, <1>1, <1>7, <2>1 DEF ContentInv, CachedInv
<1>10. ASSUME NEW q \in Proc, pc'[q] = "write_log", NEW i \in 1..tail'[q] PROVE dlog'[i] = Bread(lh[i])'
  <2>1. q = p /\ tail'[q] = n /\ n \in Nat
    <3>1. q = p
      BY Zenon, <1>1, <1>2, <1>10
    <3> QED BY <1>0, <1>1, <3>1
  <2>2. i \in 1..n /\ i \in LogBlock
    BY <1>0, <1>10, <2>1, <1>4 DEF LogBlock
  <2>3. CASE i = n
    BY ZenonT(40), <1>0, <1>1, <1>4, <1>6, <1>7, <2>3 DEF Bread
  <2>4. CASE i # n
    <3>1. i \in 1..tail[p]
      BY <1>0, <2>2, <2>4
    <3>2. dlog[i] = Bread(lh[i])
      BY ZenonT(40), <1>1, <3>1 DEF ContentInv, CopiedInv
    <3> QED BY Zenon, <1>0, <1>1, <1>7, <2>2, <2>4, <3>2 DEF Bread
  <2> QED BY <2>3, <2>4
<1>11. CopiedInv'
  BY <1>1, <1>2, <1>10 DEF CopiedInv, Thread
<1> QED BY <1>8, <1>9, <1>11 DEF ContentInv

(* write_head() makes the header name log blocks that are all written.       *)
LEMMA WriteHeadContent ==
  ASSUME TypeInv, ControlInv, HeaderInv, ContentInv, NEW p \in Proc, WriteHead(p)
  PROVE  ContentInv'
<1>0. /\ Boot \notin Proc /\ NULL \notin Value /\ Proc \subseteq Thread /\ Boot \in Thread
      /\ lh \in Seq(Block) /\ tail \in [Thread -> Nat] /\ pc \in [Thread -> Labels \cup BootLabels]
  BY LogValues DEF Thread, TypeInv
<1>1. /\ pc[Boot] = "done" /\ pc[p] = "write_log" /\ tail[p] >= Len(lh)
      /\ dhead' = lh /\ tail' = [tail EXCEPT ![p] = 0] /\ pc' = [pc EXCEPT ![p] = "install"]
      /\ disk' = disk /\ dlog' = dlog /\ pins' = pins /\ lock' = lock /\ lh' = lh /\ cache' = cache
  BY DEF WriteHead, Running, HeadReady, Goto, logVars, cacheVars
<1>2. \A q \in Proc : pc[q] # "install" /\ (pc[q] = "write_log" => q = p)
  BY <1>1 DEF ControlInv, CommitAlone, InCommit
<1>3. dhead = <<>>
  BY ZenonT(40), <1>1, <1>2 DEF HeaderInv
<1>4. \A i \in 1..Len(lh) : dlog[i] = Bread(lh[i]) /\ Bread(lh[i]) \in Value
  <2> TAKE i \in 1..Len(lh)
  <2>1. i \in 1..tail[p] /\ lh[i] \in Block
    BY <1>0, <1>1
  <2>2. Pinned(lh[i])
    BY Zenon, <1>2 DEF Pinned
  <2>3. cache[lh[i]] # NULL /\ cache[lh[i]] \in Value
    BY Zenon, <1>1, <2>1, <2>2 DEF ContentInv, CachedInv, StoredInv
  <2> QED BY <1>1, <2>1, <2>3 DEF Bread, ContentInv, CopiedInv
<1>5. StoredInv'
  BY <1>1, <1>3, <1>4 DEF ContentInv, StoredInv, InHead
<1>6. \A c \in Block : Pinned(c)' <=> Pinned(c)
  BY <1>0, <1>1, <1>2 DEF Pinned
<1>7. CachedInv'
  BY Zenon, <1>0, <1>1, <1>6 DEF ContentInv, CachedInv
<1>8. \A t \in Thread : pc'[t] = "install" => t = p /\ tail'[t] = 0
  BY Zenon, <1>0, <1>1, <1>2 DEF Thread
<1>9. \A i \in 1..Len(lh) : Bread(lh[i])' = dlog'[i]
  BY Zenon, <1>1, <1>4 DEF Bread
<1>10. CopiedInv'
  BY <1>0, <1>1, <1>2, <1>8, <1>9 DEF CopiedInv
<1> QED BY <1>5, <1>7, <1>10 DEF ContentInv

(* install_trans() writes a log block home and unpins its buffer; no other   *)
(* entry is about that block.                                                *)
LEMMA InstallContent ==
  ASSUME TypeInv, ControlInv, HeaderInv, ContentInv, NEW t \in Thread, Install(t)
  PROVE  ContentInv'
<1> DEFINE n == tail[t] + 1
           b == lh[n]
<1>0. /\ Boot \notin Proc /\ NULL \notin Value /\ Proc \subseteq Thread /\ Boot \in Thread
      /\ lh \in Seq(Block) /\ tail \in [Thread -> Nat] /\ cache \in [Block -> Value \cup {Torn, NULL}]
      /\ pins \in [Block -> Int] /\ disk \in [Block -> Value \cup {Torn}]
  BY LogValues DEF Thread, TypeInv
<1>1. /\ pc[t] = "install" /\ tail[t] < Len(lh) /\ lock[b] = NULL
      /\ disk' = [disk EXCEPT ![b] = dlog[n]] /\ cache' = [cache EXCEPT ![b] = dlog[n]]
      /\ tail' = [tail EXCEPT ![t] = n] /\ pins' = IF t = Boot THEN pins ELSE [pins EXCEPT ![b] = @ - 1]
      /\ dlog' = dlog /\ dhead' = dhead /\ lock' = lock /\ lh' = lh /\ pc' = pc
  BY ZenonT(40) DEF Install, Unpin, logVars
<1>2. \A u \in Thread : pc[u] = "install" => u = t
  BY Zenon, <1>0, <1>1 DEF ControlInv, CommitAlone, InCommit, Thread
<1>3. lh = dhead /\ Distinct(lh)
  BY ZenonT(40), <1>1 DEF HeaderInv
<1>4. n \in 1..Len(lh) /\ b \in Block /\ n \in Nat
  BY <1>0, <1>1
<1>5. dlog[n] \in Value
  BY ZenonT(40), <1>3, <1>4 DEF ContentInv, StoredInv
<1>6. StoredInv'
  BY <1>0, <1>1, <1>4, <1>5 DEF ContentInv, StoredInv, InHead
<1>7. \A i \in 1..Len(lh) : lh[i] = b => i = n
  BY <1>3, <1>4 DEF Distinct
<1>8. CachedInv'
  <2>1. CASE t = Boot
    BY Zenon, <1>0, <1>1, <1>4, <2>1 DEF ContentInv, CachedInv
  <2>2. CASE t # Boot
    <3>1. t \in Proc /\ pc[Boot] = "done"
      BY Zenon, <1>1, <2>2 DEF Thread, ControlInv
    <3>2. \A c \in Block : Pinned(c) <=> \E i \in 1..Len(lh) : lh[i] = c /\ tail[t] < i
      BY Zenon, <1>0, <1>1, <1>2, <3>1 DEF Pinned
    <3>3. \A c \in Block : Pinned(c)' <=> \E i \in 1..Len(lh) : lh[i] = c /\ n < i
      BY Zenon, <1>0, <1>1, <1>2, <3>1 DEF Pinned
    <3> DEFINE before(i) == tail[t] < i
               after(i) == n < i
    <3>0. before(n) /\ ~after(n) /\ \A i \in 1..Len(lh) : i # n => (before(i) <=> after(i))
      BY <1>0
    <3> HIDE DEF before, after
    <3>4. \A c \in Block : c = b => Pinned(c) /\ ~Pinned(c)'
      BY Zenon, <1>4, <1>7, <3>0, <3>2, <3>3 DEF before, after
    <3>5. \A c \in Block : c # b => (Pinned(c)' <=> Pinned(c))
      BY Zenon, <1>4, <3>0, <3>2, <3>3 DEF before, after
    <3>6. \A c \in Block : /\ pins[c] = IF Pinned(c) THEN 1 ELSE 0
                           /\ cache[c] \in {NULL, disk[c]} \/ lock[c] # NULL \/ Pinned(c)
                           /\ lock[c] # NULL \/ Pinned(c) => cache[c] # NULL
      BY Zenon, <3>1 DEF ContentInv, CachedInv
    <3>7. pins' = [pins EXCEPT ![b] = @ - 1]
      BY ZenonT(40), <1>1, <2>2
    <3>8. \A c \in Block : pins'[c] = IF Pinned(c)' THEN 1 ELSE 0
      <4>1. PICK x \in Block : x = b
        BY Zenon, <1>4
      <4>2. /\ Pinned(x) /\ ~Pinned(x)' /\ pins[x] = IF Pinned(x) THEN 1 ELSE 0
        BY Zenon, <3>4, <3>6, <4>1
      <4>3. pins'[x] = pins[x] - 1 /\ \A c \in Block : c # x => pins'[c] = pins[c]
        BY <1>0, <3>7, <4>1
      <4>4. pins'[x] = 0
        BY <4>2, <4>3
      <4> QED BY Zenon, <3>5, <3>6, <4>1, <4>2, <4>3, <4>4
    <3>9. \A c \in Block : /\ cache'[c] \in {NULL, disk'[c]} \/ lock'[c] # NULL \/ Pinned(c)'
                           /\ lock'[c] # NULL \/ Pinned(c)' => cache'[c] # NULL
      BY Zenon, <1>0, <1>1, <1>4, <3>4, <3>5, <3>6
    <3> QED BY Zenon, <1>1, <3>1, <3>8, <3>9 DEF CachedInv
  <2> QED BY Zenon, <2>1, <2>2
<1>9. ASSUME NEW i \in 1..n PROVE disk'[lh[i]] = dlog[i]
  <2>1. CASE i = n
    BY ZenonT(40), <1>0, <1>1, <1>4, <2>1
  <2>2. CASE i # n
    <3>1. i \in 1..tail[t] /\ i \in 1..Len(lh) /\ lh[i] \in Block /\ lh[i] # b
      BY <1>0, <1>4, <1>7, <2>2
    <3>2. disk[lh[i]] = dlog[i]
      BY Zenon, <1>1, <3>1 DEF ContentInv, CopiedInv
    <3> QED BY <1>0, <1>1, <3>1, <3>2
  <2> QED BY Zenon, <2>1, <2>2
<1>10. ASSUME NEW p \in Proc, pc[p] = "install", NEW i \in 1..Len(lh) PROVE Bread(lh[i])' = dlog[i]
  <2>1. lh[i] \in Block /\ Bread(lh[i]) = dlog[i]
    BY <1>0, <1>10 DEF ContentInv, CopiedInv
  <2>2. CASE i = n
    BY ZenonT(40), <1>0, <1>1, <1>4, <1>5, <2>2 DEF Bread
  <2>3. CASE i # n
    <3>1. lh[i] # b
      BY Zenon, <1>7, <2>3
    <3> QED BY Zenon, <1>0, <1>1, <2>1, <3>1 DEF Bread
  <2> QED BY <2>2, <2>3
<1>11. CopiedInv'
  <2>1. \A p \in Proc : pc'[p] # "write_log"
    BY Zenon, <1>0, <1>1 DEF ControlInv, CommitAlone, InCommit, Thread
  <2>2. \A u \in Thread : pc'[u] = "install" => \A i \in 1..tail'[u] : disk'[lh'[i]] = dlog'[i]
    BY Zenon, <1>0, <1>1, <1>2, <1>9
  <2>3. \A p \in Proc : pc'[p] = "install" => \A i \in 1..Len(lh') : Bread(lh[i])' = dlog'[i]
    BY Zenon, <1>1, <1>10
  <2> QED BY Zenon, <2>1, <2>2, <2>3 DEF CopiedInv
<1> QED BY <1>6, <1>8, <1>11 DEF ContentInv

(* The second write_head() erases a transaction that is completely           *)
(* installed.                                                                *)
LEMMA ClearContent ==
  ASSUME TypeInv, ControlInv, HeaderInv, ContentInv, NEW t \in Thread, Clear(t)
  PROVE  ContentInv'
<1>0. /\ Boot \notin Proc /\ NULL \notin Value /\ Proc \subseteq Thread /\ Boot \in Thread
      /\ lh \in Seq(Block) /\ tail \in [Thread -> Nat] /\ pc \in [Thread -> Labels \cup BootLabels]
  BY LogValues DEF Thread, TypeInv
<1>1. /\ pc[t] = "install" /\ tail[t] >= Len(lh) /\ lh' = <<>> /\ dhead' = <<>>
      /\ pc' = [pc EXCEPT ![t] = IF t = Boot THEN "done" ELSE "end"]
      /\ disk' = disk /\ dlog' = dlog /\ cache' = cache /\ pins' = pins /\ lock' = lock
  BY Zenon DEF Clear, Goto, Installed, cacheVars
<1>2. \A u \in Thread : pc'[u] \notin {"write_log", "install"}
  BY ZenonT(40), <1>0, <1>1 DEF ControlInv, CommitAlone, InCommit, Thread, Labels, BootLabels
<1>3. pc'[Boot] = "done"
  BY Zenon, <1>0, <1>1 DEF ControlInv, Thread
<1>4. \A b \in Block : disk[b] \in Value
  <2> SUFFICES ASSUME NEW b \in Block, InHead(b) PROVE disk[b] \in Value
    BY DEF ContentInv, StoredInv
  <2>1. PICK i \in 1..Len(dhead) : dhead[i] = b
    BY DEF InHead
  <2>2. lh = dhead
    BY <1>1 DEF HeaderInv
  <2>3. i \in 1..tail[t] /\ lh[i] = b
    <3>1. i \in 1..Len(lh) /\ lh[i] = b /\ tail[t] \in Nat /\ Len(lh) \in Nat
      BY <1>0, <2>1, <2>2
    <3> QED BY <1>1, <3>1
  <2>4. disk[b] = dlog[i]
    BY Zenon, <1>1, <2>3 DEF ContentInv, CopiedInv
  <2> QED BY <2>1, <2>4 DEF ContentInv, StoredInv
<1>5. StoredInv'
  BY <1>1, <1>4 DEF ContentInv, StoredInv
<1>6. \A b \in Block : ~Pinned(b)'
  BY <1>1 DEF Pinned
<1>7. \A b \in Block : pins[b] = 0 /\ (cache[b] \in {NULL, disk[b]} \/ lock[b] # NULL) /\ (lock[b] # NULL => cache[b] # NULL)
  <2>1. CASE t = Boot
    BY Zenon, <1>1, <2>1 DEF ContentInv, CachedInv
  <2>2. CASE t # Boot
    <3>1. t \in Proc /\ pc[Boot] = "done"
      BY <1>1, <2>2 DEF Thread, ControlInv
    <3>2. \A b \in Block : ~Pinned(b)
      BY <1>0, <1>1, <3>1 DEF Pinned
    <3> QED BY Zenon, <3>1, <3>2 DEF ContentInv, CachedInv
  <2> QED BY Zenon, <2>1, <2>2
<1>8. CachedInv'
  BY ZenonT(40), <1>1, <1>3, <1>6, <1>7 DEF CachedInv
<1>9. CopiedInv'
  BY Zenon, <1>0, <1>2 DEF CopiedInv
<1> QED BY <1>5, <1>8, <1>9 DEF ContentInv

(* Every step, crashes inside a write included, keeps the content invariant: *)
(* a crash tears a log block only while the header is empty, and a home      *)
(* block only while the header names it.                                     *)
LEMMA ContentStep ==
  ASSUME TypeInv, ControlInv, CountInv, HeaderInv, ContentInv, [Next]_vars
  PROVE  ContentInv'
<1> USE DEF diskVars, cacheVars, logVars, procVars
<1>0. Proc \subseteq Thread /\ Boot \in Thread /\ Boot \notin Proc
  BY LogValues DEF Thread
<1>t. pc \in [Thread -> Labels \cup BootLabels] /\ tail \in [Thread -> Nat]
  BY DEF TypeInv
<1>1. ASSUME NEW p \in Proc, BeginOp(p) PROVE ContentInv'
  BY <1>0, <1>t, <1>1, ContentFrame DEF BeginOp, Goto
<1>2. ASSUME NEW p \in Proc, BeginOpSleeps(p) PROVE ContentInv'
  BY ZenonT(40), <1>0, <1>t, <1>2, ContentFrame DEF BeginOpSleeps, Goto
<1>3. ASSUME NEW p \in Proc, LogWritePanics(p) PROVE ContentInv'
  BY <1>3, ContentFrame DEF LogWritePanics, Panic
<1>4. ASSUME NEW p \in Proc, EndOp(p) PROVE ContentInv'
  <2>1. CASE LastOut
    BY ZenonT(40), <1>0, <1>t, <1>4, <2>1, ContentFrame DEF EndOp, Goto
  <2>2. CASE ~LastOut
    <3>1. WakeupAnd(p, "idle") /\ tail' = tail /\ UNCHANGED <<diskVars, cacheVars, lh>> /\ pc[p] = "op"
      BY <1>4, <2>2 DEF EndOp
    <3>2. pc[Boot] = "done"
      BY <1>4 DEF EndOp, Running
    <3> QED BY <1>0, <3>1, <3>2, ContentFrame DEF WakeupAnd
  <2> QED BY <2>1, <2>2
<1>5. ASSUME NEW p \in Proc, CommitNothing(p) PROVE ContentInv'
  BY <1>0, <1>t, <1>5, ContentFrame DEF CommitNothing, Goto
<1>6. ASSUME NEW p \in Proc, FinishCommit(p) PROVE ContentInv'
  BY ZenonT(40), <1>0, <1>t, <1>6, ContentFrame DEF FinishCommit, FinishWakeup, WakeupAnd, Running
<1>7. ASSUME ReadHead PROVE ContentInv'
  <2>1. /\ UNCHANGED <<diskVars, cacheVars>> /\ pc[Boot] = "read_head"
        /\ pc' = [pc EXCEPT ![Boot] = "install"] /\ tail' = [tail EXCEPT ![Boot] = 0]
    BY Zenon, <1>7 DEF ReadHead, Goto
  <2>2. pc'[Boot] = "install" /\ tail'[Boot] = 0 /\ \A p \in Proc : pc'[p] = "idle"
    BY ZenonT(40), <1>0, <1>t, <2>1 DEF ControlInv
  <2>3. 1..tail'[Boot] = {}
    BY <2>2
  <2>4. StoredInv' /\ CachedInv'
    BY Zenon, <2>1, <2>2 DEF ContentInv, StoredInv, CachedInv, InHead, diskVars, cacheVars
  <2>5. CopiedInv'
    BY Zenon, <2>2, <2>3 DEF CopiedInv, Thread
  <2> QED BY Zenon, <2>4, <2>5 DEF ContentInv
<1>8. ASSUME Crash PROVE ContentInv'
  BY Zenon, <1>8, RestartContent DEF Crash, ContentInv, StoredInv, InHead
<1>9. ASSUME NEW t \in Thread, NEW i \in LogBlock, CrashInLogWrite(t, i) PROVE ContentInv'
  <2>1. dhead' = <<>> /\ disk' = disk /\ dhead = <<>>
    <3>1. pc[t] = "write_log"
      BY <1>9 DEF CrashInLogWrite, WritesLog
    <3>2. t \in Proc
      BY Zenon, <3>1 DEF Thread, ControlInv, BootLabels
    <3>3. pc[Boot] = "done" /\ \A p \in Proc : pc[p] # "install"
      BY <3>1, <3>2 DEF ControlInv, CommitAlone, InCommit
    <3>4. dhead = <<>>
      BY ZenonT(40), <3>3 DEF HeaderInv
    <3> QED BY <1>9, <3>4 DEF CrashInLogWrite
  <2>2. 1..Len(dhead') = {} /\ 1..Len(dhead) = {}
    BY <2>1
  <2> QED BY Zenon, <1>9, <2>1, <2>2, RestartContent DEF CrashInLogWrite, ContentInv, StoredInv, InHead
<1>10. ASSUME NEW t \in Thread, NEW b \in Block, CrashInHomeWrite(t, b) PROVE ContentInv'
  <2>1. /\ Restart /\ dhead' = dhead /\ dlog' = dlog /\ disk' = [disk EXCEPT ![b] = Torn]
        /\ pc[t] = "install" /\ tail[t] < Len(lh) /\ b = lh[tail[t] + 1]
    BY <1>10 DEF CrashInHomeWrite, WritesHome
  <2>2. lh = dhead /\ lh \in Seq(Block)
    BY <2>1 DEF HeaderInv, TypeInv
  <2>3. InHead(b)
    BY <1>t, <2>1, <2>2 DEF InHead
  <2>4. \A c \in Block : disk'[c] \in Value \/ InHead(c)
    BY ZenonT(40), <2>1, <2>3 DEF ContentInv, StoredInv, TypeInv
  <2> QED BY Zenon, <2>1, <2>4, RestartContent DEF ContentInv, StoredInv, InHead
<1>11. ASSUME UNCHANGED vars PROVE ContentInv'
  BY <1>11, ContentFrame DEF vars
<1> QED BY Zenon, NextCases, ModifyContent, LogWriteContent, RecycleContent, WriteLogContent, WriteHeadContent,
           InstallContent, ClearContent, <1>1, <1>2, <1>3, <1>4, <1>5, <1>6, <1>7, <1>8, <1>9, <1>10, <1>11
-----------------------------------------------------------------------------
(* Reservations: an operation has logged at most MAXOPBLOCKS blocks, the one *)
(* it is about to log included, and the log has room for the rest.           *)
RoomInv ==
  /\ \A p \in Proc : Cardinality(wrote[p]) <= MAXOPBLOCKS
  /\ \A b \in Block : lock[b] # NULL => Cardinality(wrote[lock[b]] \cup {b}) <= MAXOPBLOCKS
  /\ Reserved

(* The blocks logged by the operations in progress, once for each of them.   *)
Writes == {x \in Proc \X Block : x[2] \in wrote[x[1]]}

(* These are finitely many.                                                  *)
LEMMA WritesCount ==
  ASSUME wrote \in [Proc -> SUBSET Block]
  PROVE  /\ IsFiniteSet(Writes) /\ Cardinality(Writes) \in Nat
         /\ \A p \in Proc : IsFiniteSet(wrote[p]) /\ Cardinality(wrote[p]) \in Nat
<1>1. IsFiniteSet(Proc \X Block)
  BY LogValues, FS_Product
<1>2. Writes \in SUBSET (Proc \X Block)
  BY DEF Writes
<1>3. IsFiniteSet(Writes)
  BY <1>1, <1>2, FS_Subset
<1>4. \A p \in Proc : IsFiniteSet(wrote[p])
  BY LogValues, FS_Subset
<1> QED BY <1>3, <1>4, FS_CardinalityType

(* An empty log has room.                                                    *)
LEMMA RestartRoom ==
  ASSUME Restart
  PROVE  RoomInv'
<1>1. \A p \in Proc : wrote'[p] = {}
  BY DEF Restart
<1>2. outstanding' = 0 /\ Len(lh') = 0 /\ \A b \in Block : lock'[b] = NULL
  BY DEF Restart
<1>3. Writes' = {}
  BY <1>1 DEF Writes
<1>4. Cardinality({}) = 0
  BY FS_EmptySet
<1>5. Reserved'
  <2>1. Reserved' <=> Len(lh') + outstanding' * MAXOPBLOCKS - Cardinality(Writes') <= LOGSIZE
    BY DEF Reserved, Writes
  <2>2. Cardinality(Writes') = 0 /\ 0 * MAXOPBLOCKS = 0
    BY <1>3, <1>4, LogSizes
  <2> QED BY <1>2, <2>1, <2>2, LogSizes
<1>6. \A p \in Proc : Cardinality(wrote'[p]) = 0
  BY <1>1, <1>4, Zenon
<1> QED BY <1>2, <1>5, <1>6, LogSizes DEF RoomInv

(* A step that starts or ends no operation and logs no block keeps the       *)
(* reservations, also when it empties the log.                               *)
LEMMA RoomFrame ==
  ASSUME TypeInv, RoomInv, UNCHANGED <<lock, wrote, outstanding>>, lh' = lh \/ lh' = <<>>
  PROVE  RoomInv'
<1>1. Writes' = Writes /\ Cardinality(Writes) \in Nat
  BY WritesCount DEF Writes, TypeInv
<1>2. Len(lh) \in Nat /\ Len(lh') \in Nat /\ Len(lh') <= Len(lh)
  BY DEF TypeInv
<1>3. outstanding * MAXOPBLOCKS \in Int
  BY LogSizes DEF TypeInv
<1> DEFINE x == outstanding * MAXOPBLOCKS
<1>4. x' = x /\ Len(lh) + x - Cardinality(Writes) <= LOGSIZE
  BY Zenon DEF RoomInv, Reserved, Writes
<1>5. (Len(lh') + x' - Cardinality(Writes') <= LOGSIZE) => Reserved'
  BY Zenon DEF Reserved, Writes
<1> HIDE DEF x
<1>6. Len(lh') + x - Cardinality(Writes) <= LOGSIZE
  BY <1>1, <1>2, <1>3, <1>4, LogSizes DEF x
<1>7. Reserved'
  BY Zenon, <1>1, <1>4, <1>5, <1>6
<1> QED BY Zenon, <1>7 DEF RoomInv

(* log_write() uses one of the blocks that were reserved for its operation,  *)
(* or absorbs the write.                                                     *)
LEMMA LogWriteRoom ==
  ASSUME TypeInv, ControlInv, HeaderInv, RoomInv, NEW p \in Proc, NEW b \in Block, LogWrite(p, b)
  PROVE  RoomInv'
<1>0. /\ lh \in Seq(Block) /\ lock \in [Block -> Proc \cup {NULL}] /\ wrote \in [Proc -> SUBSET Block]
      /\ Len(lh) \in Nat /\ NULL \notin Proc /\ outstanding \in Int /\ MAXOPBLOCKS \in Nat /\ LOGSIZE \in Nat
  BY LogValues, LogSizes DEF TypeInv
<1>1. /\ lock[b] = p /\ lock' = [lock EXCEPT ![b] = NULL] /\ wrote' = [wrote EXCEPT ![p] = @ \cup {b}]
      /\ outstanding' = outstanding
  BY DEF LogWrite
<1>2. Len(lh') = IF Logged(b) THEN Len(lh) ELSE Len(lh) + 1
  BY <1>0 DEF LogWrite
<1>3. \A q \in Proc : Cardinality(wrote'[q]) <= MAXOPBLOCKS
  BY <1>0, <1>1 DEF RoomInv
<1>4. \A c \in Block : lock'[c] # NULL => lock'[c] = lock[c] /\ lock[c] # p
  BY <1>0, <1>1 DEF ControlInv
<1>5. \A c \in Block : lock'[c] # NULL => Cardinality(wrote'[lock'[c]] \cup {c}) <= MAXOPBLOCKS
  BY <1>0, <1>1, <1>4 DEF RoomInv
<1>6. Writes' = Writes \cup {<<p, b>>}
  BY <1>0, <1>1 DEF Writes
<1>7. IsFiniteSet(Writes) /\ Cardinality(Writes) \in Nat
  BY <1>0, WritesCount
<1>8. outstanding * MAXOPBLOCKS \in Int
  BY <1>0
<1>9. Len(lh') - Cardinality(Writes') <= Len(lh) - Cardinality(Writes) /\ Cardinality(Writes') \in Nat
  <2>1. CASE b \in wrote[p]
    <3>1. Logged(b)
      BY Zenon, <2>1 DEF HeaderInv
    <3>2. Writes' = Writes
      BY <1>6, <2>1 DEF Writes
    <3> QED BY <1>0, <1>2, <1>7, <3>1, <3>2
  <2>2. CASE b \notin wrote[p]
    <3>1. <<p, b>> \notin Writes
      BY <2>2 DEF Writes
    <3>2. Cardinality(Writes') = Cardinality(Writes) + 1
      BY Zenon, <1>6, <1>7, <3>1, FS_AddElement
    <3> QED BY <1>0, <1>2, <1>7, <3>2
  <2> QED BY <2>1, <2>2
<1>10. Len(lh) + outstanding * MAXOPBLOCKS - Cardinality(Writes) <= LOGSIZE
  BY DEF RoomInv, Reserved, Writes
<1>11. Len(lh') \in Nat
  BY <1>0, <1>2
<1>12. Reserved'
  <2> DEFINE x == outstanding * MAXOPBLOCKS
             m == Cardinality(Writes)
             k == Cardinality(Writes')
  <2>1. x \in Int /\ m \in Nat /\ k \in Nat /\ Len(lh) + x - m <= LOGSIZE /\ Len(lh') - k <= Len(lh) - m
    BY Zenon, <1>7, <1>8, <1>9, <1>10
  <2>2. Len(lh') + x - k <= LOGSIZE => Reserved'
    BY Zenon, <1>1 DEF Reserved, Writes
  <2> HIDE DEF x, m, k
  <2>3. Len(lh') + x - k <= LOGSIZE
    BY <1>0, <1>11, <2>1
  <2> QED BY Zenon, <2>2, <2>3
<1> QED BY Zenon, <1>3, <1>5, <1>12 DEF RoomInv

(* end_op() gives back what the operation did not use of its reservation.    *)
LEMMA EndOpRoom ==
  ASSUME TypeInv, ControlInv, RoomInv, NEW p \in Proc, EndOp(p)
  PROVE  RoomInv'
<1>0. /\ Len(lh) \in Nat /\ lock \in [Block -> Proc \cup {NULL}] /\ wrote \in [Proc -> SUBSET Block]
      /\ NULL \notin Proc /\ outstanding \in Int /\ MAXOPBLOCKS \in Nat /\ LOGSIZE \in Nat
  BY LogValues, LogSizes DEF TypeInv
<1>1. /\ lh' = lh /\ lock' = lock /\ wrote' = [wrote EXCEPT ![p] = {}] /\ outstanding' = outstanding - 1
      /\ pc[p] = "op"
  BY DEF EndOp, cacheVars
<1>2. Cardinality({}) = 0 /\ IsFiniteSet(wrote[p]) /\ IsFiniteSet({p}) /\ Cardinality({p}) = 1
  BY <1>0, WritesCount, FS_EmptySet, FS_Singleton, Zenon
<1>3. \A q \in Proc : Cardinality(wrote'[q]) <= MAXOPBLOCKS
  BY <1>0, <1>1, <1>2 DEF RoomInv
<1>4. \A c \in Block : lock'[c] # NULL => Cardinality(wrote'[lock'[c]] \cup {c}) <= MAXOPBLOCKS
  BY <1>0, <1>1 DEF RoomInv, ControlInv
<1>5. Writes' = Writes \ ({p} \X wrote[p]) /\ Writes \cap ({p} \X wrote[p]) = {p} \X wrote[p]
  BY ZenonT(40), <1>0, <1>1 DEF Writes
<1>6. Cardinality({p} \X wrote[p]) = Cardinality(wrote[p]) /\ Cardinality(wrote[p]) \in Nat
  <2>1. Cardinality({p} \X wrote[p]) = Cardinality({p}) * Cardinality(wrote[p])
    BY Zenon, <1>2, FS_Product
  <2> QED BY <1>0, <1>2, <2>1, WritesCount
<1>7. IsFiniteSet(Writes) /\ Cardinality(Writes) \in Nat
  BY ZenonT(40), <1>0, WritesCount
<1>8. Cardinality(Writes') = Cardinality(Writes) - Cardinality(wrote[p])
  <2> DEFINE Own == {p} \X wrote[p]
  <2>1. Cardinality(Writes \ Own) = Cardinality(Writes) - Cardinality(Writes \cap Own)
    BY <1>7, FS_Difference, Zenon
  <2>2. Writes' = Writes \ Own /\ Writes \cap Own = Own /\ Cardinality(Own) = Cardinality(wrote[p])
    BY <1>5, <1>6
  <2> HIDE DEF Own
  <2> QED BY <2>1, <2>2
<1>9. Cardinality(wrote[p]) <= MAXOPBLOCKS
  BY DEF RoomInv
<1>10. Len(lh) + outstanding * MAXOPBLOCKS - Cardinality(Writes) <= LOGSIZE
  BY DEF RoomInv, Reserved, Writes
<1>11. outstanding * MAXOPBLOCKS \in Int /\ (outstanding - 1) * MAXOPBLOCKS = outstanding * MAXOPBLOCKS - MAXOPBLOCKS
  BY <1>0
<1>12. Reserved'
  <2> DEFINE x == outstanding * MAXOPBLOCKS
             y == (outstanding - 1) * MAXOPBLOCKS
             m == Cardinality(Writes)
             w == Cardinality(wrote[p])
  <2>1. /\ x \in Int /\ y = x - MAXOPBLOCKS /\ m \in Nat /\ w \in Nat /\ w <= MAXOPBLOCKS
        /\ Len(lh) + x - m <= LOGSIZE
    BY Zenon, <1>6, <1>7, <1>9, <1>10, <1>11
  <2>2. Len(lh) + y - (m - w) <= LOGSIZE => Reserved'
    BY Zenon, <1>1, <1>8 DEF Reserved, Writes
  <2> HIDE DEF x, y, m, w
  <2>3. Len(lh) + y - (m - w) <= LOGSIZE
    BY <1>0, <2>1
  <2> QED BY Zenon, <2>2, <2>3
<1> QED BY <1>3, <1>4, <1>12 DEF RoomInv

(* Every step keeps the reservations. begin_op() admits an operation only if *)
(* there is room for all it may write, and recovery reads back a header that *)
(* fits when no operation is in progress.                                    *)
LEMMA RoomStep ==
  ASSUME TypeInv, ControlInv, CountInv, HeaderInv, RoomInv, [Next]_vars
  PROVE  RoomInv'
<1> USE DEF cacheVars, logVars, procVars
<1>1. ASSUME NEW p \in Proc, BeginOp(p) PROVE RoomInv'
  <2>1. lh' = lh /\ lock' = lock /\ wrote' = wrote /\ outstanding' = outstanding + 1
    BY <1>1 DEF BeginOp
  <2>2. Len(lh) + (outstanding + 1) * MAXOPBLOCKS <= LOGSIZE
    BY Zenon, <1>1 DEF BeginOp, MayBegin, Room
  <2>3. Writes' = Writes /\ Cardinality(Writes) \in Nat
    BY <2>1, WritesCount DEF Writes, TypeInv
  <2>4. Len(lh) \in Nat /\ (outstanding + 1) * MAXOPBLOCKS \in Int
    BY LogSizes DEF TypeInv
  <2>5. Reserved'
    BY <2>1, <2>2, <2>3, <2>4, LogSizes DEF Reserved, Writes
  <2> QED BY Zenon, <2>1, <2>5 DEF RoomInv
<1>2. ASSUME NEW p \in Proc, BeginOpSleeps(p) PROVE RoomInv'
  BY <1>2, RoomFrame DEF BeginOpSleeps
<1>3. ASSUME NEW p \in Proc, NEW b \in Block, NEW v \in Value, Modify(p, b, v) PROVE RoomInv'
  <2>1. /\ lh' = lh /\ lock' = [lock EXCEPT ![b] = p] /\ wrote' = wrote /\ outstanding' = outstanding
        /\ Cardinality(wrote[p] \cup {b}) <= MAXOPBLOCKS
    BY Zenon, <1>3 DEF Modify
  <2>2. Reserved'
    BY <2>1 DEF RoomInv, Reserved
  <2> QED BY <2>1, <2>2, Zenon DEF RoomInv, TypeInv
<1>4. ASSUME NEW p \in Proc, LogWritePanics(p) PROVE RoomInv'
  BY Zenon, <1>4, RoomFrame DEF LogWritePanics, Panic
<1>5. ASSUME NEW p \in Proc, WriteLog(p) PROVE RoomInv'
  BY <1>5, RoomFrame DEF WriteLog
<1>6. ASSUME NEW p \in Proc, WriteHead(p) PROVE RoomInv'
  BY <1>6, RoomFrame DEF WriteHead
<1>7. ASSUME NEW p \in Proc, CommitNothing(p) PROVE RoomInv'
  BY Zenon, <1>7, RoomFrame DEF CommitNothing
<1>8. ASSUME NEW t \in Thread, Install(t) PROVE RoomInv'
  BY <1>8, RoomFrame DEF Install
<1>9. ASSUME NEW t \in Thread, Clear(t) PROVE RoomInv'
  BY <1>9, RoomFrame DEF Clear
<1>10. ASSUME NEW p \in Proc, FinishCommit(p) PROVE RoomInv'
  BY <1>10, RoomFrame DEF FinishCommit
<1>11. ASSUME ReadHead PROVE RoomInv'
  <2>1. lh' = dhead /\ lock' = lock /\ wrote' = wrote /\ outstanding' = outstanding /\ pc[Boot] = "read_head"
    BY <1>11 DEF ReadHead
  <2>2. outstanding = 0
    <3>1. \A p \in Proc : ~InOp(p)
      BY Zenon, <2>1 DEF ControlInv, InOp
    <3> QED BY Zenon, <3>1, OpsCount DEF CountInv
  <2>3. Cardinality(Writes') \in Nat
    BY <2>1, WritesCount DEF Writes, TypeInv
  <2>4. Len(lh') \in Nat /\ Len(lh') <= LOGSIZE
    BY <2>1 DEF TypeInv
  <2>5. Reserved'
    BY <2>1, <2>2, <2>3, <2>4, LogSizes DEF Reserved, Writes
  <2> QED BY <2>1, <2>5 DEF RoomInv
<1>12. ASSUME NEW b \in Block, Recycle(b) PROVE RoomInv'
  BY <1>12, RoomFrame DEF Recycle
<1>13. ASSUME Restart PROVE RoomInv'
  BY <1>13, RestartRoom
<1>14. ASSUME UNCHANGED vars PROVE RoomInv'
  BY <1>14, RoomFrame DEF vars
<1> QED BY Zenon, NextCases, LogWriteRoom, EndOpRoom, <1>1, <1>2, <1>3, <1>4, <1>5, <1>6, <1>7, <1>8, <1>9, <1>10,
           <1>11, <1>12, <1>13, <1>14 DEF Crash, CrashInLogWrite, CrashInHomeWrite
-----------------------------------------------------------------------------
(* The inductive invariant of the log.                                       *)
LogInv == TypeInv /\ ControlInv /\ CountInv /\ HeaderInv /\ ContentInv

(* The machine starts with an empty log, no operation and nothing cached.    *)
LEMMA InitLogInv ==
  ASSUME Init
  PROVE  LogInv /\ RoomInv
<1>0. Boot \notin Proc /\ NULL \notin Proc /\ Boot \in Thread /\ Proc \subseteq Thread
  BY LogValues DEF Thread
<1>1. pc[Boot] = "read_head" /\ \A p \in Proc : pc[p] = "idle" /\ wrote[p] = {}
  BY Zenon, <1>0 DEF Init
<1>2. TypeInv
  <2>1. committing \in BOOLEAN /\ panicked \in BOOLEAN
    BY Zenon DEF Init
  <2>2. /\ <<>> \in Seq(Block) /\ Len(<<>>) = 0 /\ 0 <= LOGSIZE
    BY LogSizes
  <2>3. pc \in [Thread -> Labels \cup BootLabels] /\ tail \in [Thread -> Nat]
    BY DEF Init, Labels, BootLabels
  <2> QED BY <2>1, <2>2, <2>3 DEF Init, TypeInv
<1>3. Ops = {} /\ CountInv
  <2>1. Ops = {}
    BY Zenon, <1>1 DEF Ops, InOp
  <2> QED BY <2>1, FS_EmptySet DEF CountInv, Init
<1>4. ControlInv
  BY <1>1 DEF Init, ControlInv, CommitAlone, InOp, InCommit, Labels, BootLabels
<1>5. HeaderInv
  <2>1. lh = <<>> /\ dhead = <<>> /\ Distinct(<<>>)
    BY DEF Init, Distinct
  <2> QED BY <1>1, <2>1 DEF HeaderInv, Thread
<1>6. ContentInv
  BY <1>1 DEF Init, ContentInv, StoredInv, CachedInv, CopiedInv, Thread
<1>7. RoomInv
  <2>1. Writes = {} /\ Cardinality({}) = 0
    BY <1>1, FS_EmptySet DEF Writes
  <2>2. Len(lh) = 0 /\ outstanding = 0 /\ \A b \in Block : lock[b] = NULL
    BY DEF Init
  <2>3. Reserved
    <3>1. Reserved <=> Len(lh) + outstanding * MAXOPBLOCKS - Cardinality(Writes) <= LOGSIZE
      BY DEF Reserved, Writes
    <3>2. Cardinality(Writes) = 0 /\ 0 * MAXOPBLOCKS = 0
      BY <2>1, LogSizes
    <3> QED BY <2>2, <3>1, <3>2, LogSizes
  <2>4. \A p \in Proc : Cardinality(wrote[p]) = 0
    BY <1>1, <2>1, Zenon
  <2> QED BY <2>2, <2>3, <2>4, LogSizes DEF RoomInv
<1> QED BY <1>2, <1>3, <1>4, <1>5, <1>6, <1>7 DEF LogInv

(* LogInv holds in every reachable state of log.c's begin_op(), log_write(), *)
(* end_op(), commit() and recovery, whatever crashes.                        *)
THEOREM LogInvariant == Spec => []LogInv
<1>1. Init => LogInv
  BY InitLogInv
<1>2. LogInv /\ [Next]_vars => LogInv'
  BY TypeStep, ControlStep, CountStep, HeaderStep, ContentStep DEF LogInv
<1> QED BY <1>1, <1>2, PTL DEF Spec

(* CommitProtected: a commit() runs alone, and until install_trans() has     *)
(* written an update home its buffer stays pinned in the cache.              *)
THEOREM Protected == Spec => []CommitProtected
<1>1. LogInv => CommitProtected
  <2> SUFFICES ASSUME LogInv PROVE CommitAlone /\ UpdatesPinned
    BY DEF CommitProtected
  <2>1. CommitAlone
    BY Zenon DEF LogInv, ControlInv
  <2>2. UpdatesPinned
    BY DEF LogInv, ContentInv, CachedInv, UpdatesPinned
  <2> QED BY <2>1, <2>2
<1> QED BY <1>1, LogInvariant, PTL

(* Reserved: begin_op()'s admission test keeps room in the log for every     *)
(* block that the operations in progress may still write.                    *)
THEOREM RoomReserved == Spec => []Reserved
<1>1. Init => LogInv /\ RoomInv
  BY InitLogInv
<1>2. LogInv /\ RoomInv /\ [Next]_vars => RoomInv'
  BY RoomStep DEF LogInv
<1>3. RoomInv => Reserved
  BY DEF RoomInv
<1> QED BY <1>1, <1>2, <1>3, LogInvariant, PTL DEF Spec
-----------------------------------------------------------------------------
(* The log implements the atomic disk. Each step of Log is mapped to a step  *)
(* of AtomicDisk or to a stutter:                                            *)
(*                                                                           *)
(*   BeginOp      Begin       Modify     Write      EndOp    End             *)
(*   WriteHead    Commit      Crash, CrashInLogWrite, CrashInHomeWrite       *)
(*                            Crash                                          *)
(*                                                                           *)
(* and every other step to a stutter. It rests on LogInv.                    *)

(* A header without duplicates names a block at one place only.              *)
LEMMA Lookup ==
  ASSUME NEW h, NEW b, Distinct(h), NEW i \in 1..Len(h), h[i] = b
  PROVE  {j \in 1..Len(h) : h[j] = b} = {i}
BY DEF Distinct

(* There is one way to choose from a singleton.                              *)
LEMMA ChooseOnly ==
  ASSUME NEW i
  PROVE  {i} # {} /\ (CHOOSE j \in {i} : TRUE) = i
OBVIOUS

(* What recovery would make of the disk: a block that the header names gets  *)
(* its log block, every other one keeps its content.                         *)
LEMMA RecoveredIs ==
  ASSUME Distinct(dhead)
  PROVE  /\ \A i \in 1..Len(dhead) : Recovered(dhead[i]) = dlog[i]
         /\ \A b : ~InHead(b) => Recovered(b) = disk[b]
<1>1. ASSUME NEW i \in 1..Len(dhead) PROVE Recovered(dhead[i]) = dlog[i]
  <2>1. {j \in 1..Len(dhead) : dhead[j] = dhead[i]} = {i}
    BY Lookup, Zenon
  <2> QED BY <2>1, ChooseOnly, Zenon DEF Recovered
<1>2. ASSUME NEW b, ~InHead(b) PROVE Recovered(b) = disk[b]
  <2>1. {i \in 1..Len(dhead) : dhead[i] = b} = {}
    BY <1>2 DEF InHead
  <2> QED BY <2>1 DEF Recovered
<1> QED BY <1>1, <1>2

(* The same, in the state after a step.                                      *)
LEMMA RecoveredIsNext ==
  ASSUME Distinct(dhead)'
  PROVE  /\ \A i \in 1..Len(dhead') : \A b : dhead'[i] = b => Recovered(b)' = dlog'[i]
         /\ \A b : ~InHead(b)' => Recovered(b)' = disk'[b]
<1>1. ASSUME NEW i \in 1..Len(dhead'), NEW b, dhead'[i] = b PROVE Recovered(b)' = dlog'[i]
  <2>1. {j \in 1..Len(dhead') : dhead'[j] = b} = {i}
    BY Zenon, <1>1, Lookup DEF Distinct
  <2> QED BY <2>1, ChooseOnly, Zenon DEF Recovered
<1>2. ASSUME NEW b, ~InHead(b)' PROVE Recovered(b)' = disk'[b]
  <2>1. {i \in 1..Len(dhead') : dhead'[i] = b} = {}
    BY Zenon, <1>2 DEF InHead
  <2> QED BY <2>1 DEF Recovered
<1> QED BY <1>1, <1>2

(* A step that changes only log blocks the header does not use, and home     *)
(* blocks the header names, does not change what recovery would make of the  *)
(* disk.                                                                     *)
LEMMA RecoveredKept ==
  ASSUME Distinct(dhead), dhead' = dhead, \A i \in 1..Len(dhead) : dlog'[i] = dlog[i],
         \A b \in Block : ~InHead(b) => disk'[b] = disk[b]
  PROVE  \A b \in Block : Recovered(b)' = Recovered(b)
<1> TAKE b \in Block
<1>0. Distinct(dhead)'
  BY DEF Distinct
<1>1. CASE InHead(b)
  <2>1. PICK i \in 1..Len(dhead) : dhead[i] = b
    BY <1>1 DEF InHead
  <2>2. Recovered(b) = dlog[i]
    BY <2>1, RecoveredIs
  <2>3. Recovered(b)' = dlog'[i]
    BY Zenon, <1>0, <2>1, RecoveredIsNext
  <2> QED BY Zenon, <2>2, <2>3
<1>2. CASE ~InHead(b)
  <2>1. Recovered(b) = disk[b]
    BY <1>2, RecoveredIs
  <2>2. Recovered(b)' = disk'[b]
    BY <1>0, <1>2, RecoveredIsNext DEF InHead
  <2> QED BY <1>2, <2>1, <2>2
<1> QED BY <1>1, <1>2

(* A step that changes neither what recovery would find, nor what operations *)
(* read, nor who is in an operation, is a stutter of the atomic disk.        *)
LEMMA Stutter ==
  ASSUME \A b \in Block : Recovered(b)' = Recovered(b) /\ Current(b)' = Current(b),
         \A p \in Proc : InOp(p)' = InOp(p)
  PROVE  UNCHANGED Atomic!vars
BY DEF Atomic!vars

(* A step that changes neither disk nor cache changes no content.            *)
LEMMA Quiet ==
  ASSUME LogInv, UNCHANGED <<diskVars, cache>>, pc'[Boot] = pc[Boot]
  PROVE  \A b \in Block : Recovered(b)' = Recovered(b) /\ Current(b)' = Current(b)
<1>1. \A b \in Block : Recovered(b)' = Recovered(b)
  BY RecoveredKept DEF LogInv, HeaderInv, diskVars
<1> QED BY Zenon, <1>1 DEF Current, Bread, diskVars

(* begin_op() that is admitted starts an operation.                          *)
LEMMA BeginStep ==
  ASSUME LogInv, NEW p \in Proc, BeginOp(p)
  PROVE  Atomic!Begin(p)
<1>0. Proc \subseteq Thread /\ Boot \in Thread /\ Boot \notin Proc /\ pc \in [Thread -> Labels \cup BootLabels]
  BY LogValues DEF Thread, LogInv, TypeInv
<1>1. pc[p] \in {"idle", "begin"} /\ pc' = [pc EXCEPT ![p] = "op"] /\ UNCHANGED <<diskVars, cache>>
  BY DEF BeginOp, Goto, cacheVars
<1>2. \A b \in Block : Recovered(b)' = Recovered(b) /\ Current(b)' = Current(b)
  BY <1>0, <1>1, Quiet
<1>3. ~InOp(p) /\ {q \in Proc : InOp(q)'} = {q \in Proc : InOp(q)} \cup {p}
  BY <1>0, <1>1 DEF InOp
<1> QED BY <1>2, <1>3 DEF Atomic!Begin

(* Modifying a locked buffer writes one block of the current content.        *)
LEMMA WriteStep ==
  ASSUME LogInv, NEW p \in Proc, NEW b \in Block, NEW v \in Value, Modify(p, b, v)
  PROVE  Atomic!Write(p, b, v)
<1>0. /\ Proc \subseteq Thread /\ Boot \in Thread /\ Boot \notin Proc /\ NULL \notin Value
      /\ pc \in [Thread -> Labels \cup BootLabels] /\ cache \in [Block -> Value \cup {Torn, NULL}]
  BY Zenon, LogValues DEF Thread, LogInv, TypeInv
<1>1. /\ pc[Boot] = "done" /\ pc[p] = "op" /\ pc' = [pc EXCEPT ![p] = "log_write"]
      /\ UNCHANGED <<disk, dlog, dhead>> /\ cache' = [cache EXCEPT ![b] = v]
  BY Zenon DEF Modify, Goto, diskVars, Running
<1>2. \A c \in Block : Recovered(c)' = Recovered(c)
  BY Zenon, <1>1, RecoveredKept DEF LogInv, HeaderInv
<1>3. \A c \in Block : Current(c)' = IF c = b THEN v ELSE Current(c)
  BY <1>0, <1>1 DEF Current, Bread
<1>4. InOp(p) /\ \A q \in Proc : InOp(q)' = InOp(q)
  BY <1>0, <1>1 DEF InOp
<1>5. [c \in Block |-> Current(c)'] = [[c \in Block |-> Current(c)] EXCEPT ![b] = v]
  BY <1>3, Zenon
<1> QED BY <1>2, <1>4, <1>5 DEF Atomic!Write

(* end_op() ends the operation; the commit it may start comes later.         *)
LEMMA EndStep ==
  ASSUME LogInv, NEW p \in Proc, EndOp(p)
  PROVE  Atomic!End(p)
<1>0. Proc \subseteq Thread /\ Boot \in Thread /\ Boot \notin Proc /\ pc \in [Thread -> Labels \cup BootLabels]
  BY LogValues DEF Thread, LogInv, TypeInv
<1>1. pc[p] = "op" /\ pc[Boot] = "done" /\ UNCHANGED <<diskVars, cache>>
  BY Zenon DEF EndOp, Running, cacheVars
<1>2. pc'[Boot] = pc[Boot] /\ {q \in Proc : InOp(q)'} = {q \in Proc : InOp(q)} \ {p}
  <2>1. CASE LastOut
    BY <1>0, <1>1, <2>1 DEF EndOp, Goto, InOp
  <2>2. CASE ~LastOut
    BY Zenon, <1>0, <1>1, <2>2 DEF EndOp, WakeupAnd, InOp
  <2> QED BY <2>1, <2>2
<1>3. \A b \in Block : Recovered(b)' = Recovered(b) /\ Current(b)' = Current(b)
  BY Zenon, <1>1, <1>2, Quiet
<1>4. InOp(p)
  BY <1>1 DEF InOp
<1> QED BY <1>2, <1>3, <1>4 DEF Atomic!End

(* write_head() commits: in one write of one block, what recovery would find *)
(* becomes all that operations have read and written, and nobody is in an    *)
(* operation.                                                                *)
LEMMA CommitStep ==
  ASSUME LogInv, HeaderInv', NEW p \in Proc, WriteHead(p)
  PROVE  Atomic!Commit
<1>0. /\ Proc \subseteq Thread /\ Boot \in Thread /\ Boot \notin Proc /\ NULL \notin Proc
      /\ pc \in [Thread -> Labels \cup BootLabels] /\ tail \in [Thread -> Nat] /\ lh \in Seq(Block)
      /\ lock \in [Block -> Proc \cup {NULL}]
  BY LogValues DEF Thread, LogInv, TypeInv
<1>1. /\ pc[Boot] = "done" /\ pc[p] = "write_log" /\ tail[p] >= Len(lh) /\ dhead' = lh
      /\ pc' = [pc EXCEPT ![p] = "install"] /\ disk' = disk /\ dlog' = dlog /\ cache' = cache
  BY Zenon DEF WriteHead, HeadReady, Goto, Running, cacheVars
<1>2. \A q \in Proc : ~InOp(q) /\ ~InOp(q)'
  BY Zenon, <1>0, <1>1 DEF LogInv, ControlInv, CommitAlone, InOp, InCommit
<1>3. \A b \in Block : lock[b] = NULL
  BY Zenon, <1>0, <1>2 DEF LogInv, ControlInv, InOp
<1>4. \A b \in Block : Current(b)' = Bread(b) /\ Current(b) = Bread(b)
  BY <1>0, <1>1 DEF Current, Bread
<1>5. ASSUME NEW b \in Block PROVE Recovered(b)' = Bread(b)
  <2>1. CASE Logged(b)
    <3>1. PICK i \in 1..Len(lh) : lh[i] = b
      BY Zenon, <2>1 DEF Logged
    <3>2. Recovered(b)' = dlog[i]
      BY <1>1, <3>1, RecoveredIsNext DEF HeaderInv
    <3>3. i \in 1..tail[p]
      BY <1>0, <1>1, <3>1
    <3>4. dlog[i] = Bread(b)
      BY Zenon, <1>1, <3>1, <3>3 DEF LogInv, ContentInv, CopiedInv
    <3> QED BY <3>2, <3>4
  <2>2. CASE ~Logged(b)
    <3>1. Recovered(b)' = disk[b]
      BY <1>1, <2>2, RecoveredIsNext DEF HeaderInv, InHead, Logged
    <3>2. ~Pinned(b)
      BY Zenon, <2>2 DEF Logged, Pinned
    <3>3. cache[b] \in {NULL, disk[b]}
      BY Zenon, <1>1, <1>3, <3>2 DEF LogInv, ContentInv, CachedInv
    <3> QED BY Zenon, <3>1, <3>3 DEF Bread
  <2> QED BY <2>1, <2>2
<1>6. [b \in Block |-> Recovered(b)'] = [b \in Block |-> Current(b)]
  BY <1>4, <1>5
<1> QED BY Zenon, <1>2, <1>4, <1>6 DEF Atomic!Commit

(* A crash takes the current content back to what recovery will find.        *)
LEMMA CrashedStep ==
  ASSUME Restart, \A b \in Block : Recovered(b)' = Recovered(b)
  PROVE  Atomic!Crash
<1>1. pc'[Boot] = "read_head" /\ \A p \in Proc : ~InOp(p)'
  BY LogValues DEF Restart, Thread, InOp
<1>2. \A b \in Block : Current(b)' = Recovered(b)
  BY <1>1 DEF Current
<1> QED BY <1>1, <1>2 DEF Atomic!Crash

(* bget() drops only buffers whose content the disk has.                     *)
LEMMA RecycleStep ==
  ASSUME LogInv, NEW b \in Block, Recycle(b)
  PROVE  UNCHANGED Atomic!vars
<1>1. /\ pc[Boot] = "done" /\ cache' = [cache EXCEPT ![b] = NULL] /\ lock[b] = NULL /\ pins[b] = 0
      /\ pc' = pc /\ UNCHANGED <<disk, dlog, dhead>> /\ cache \in [Block -> Value \cup {Torn, NULL}]
  BY Zenon DEF Recycle, Running, diskVars, procVars, LogInv, TypeInv
<1>2. cache[b] \in {NULL, disk[b]}
  <2>1. /\ pins[b] = IF Pinned(b) THEN 1 ELSE 0
        /\ cache[b] \in {NULL, disk[b]} \/ lock[b] # NULL \/ Pinned(b)
    BY Zenon, <1>1 DEF LogInv, ContentInv, CachedInv
  <2> QED BY <1>1, <2>1
<1>3. \A c \in Block : Recovered(c)' = Recovered(c)
  BY Zenon, <1>1, RecoveredKept DEF LogInv, HeaderInv
<1>4. \A c \in Block : Current(c)' = Current(c)
  BY <1>1, <1>2 DEF Current, Bread
<1>5. \A p \in Proc : InOp(p)' = InOp(p)
  BY <1>1 DEF InOp
<1> QED BY <1>3, <1>4, <1>5, Stutter

(* write_log() writes log blocks while the header is empty: recovery would   *)
(* not look at them.                                                         *)
LEMMA WriteLogStep ==
  ASSUME LogInv, NEW p \in Proc, WriteLog(p)
  PROVE  UNCHANGED Atomic!vars
<1> DEFINE b == lh[tail[p] + 1]
<1>0. /\ Proc \subseteq Thread /\ lh \in Seq(Block) /\ tail \in [Thread -> Nat]
      /\ cache \in [Block -> Value \cup {Torn, NULL}]
  BY Zenon DEF Thread, LogInv, TypeInv
<1>1. /\ pc[Boot] = "done" /\ pc[p] = "write_log" /\ tail[p] < Len(lh)
      /\ cache' = [cache EXCEPT ![b] = Bread(b)] /\ pc' = pc /\ UNCHANGED <<disk, dhead>>
  BY Zenon DEF WriteLog, Running
<1>2. \A q \in Proc : pc[q] # "install"
  BY <1>1 DEF LogInv, ControlInv, CommitAlone, InCommit
<1>3. dhead = <<>>
  BY Zenon, <1>1, <1>2 DEF LogInv, HeaderInv
<1>4. \A c \in Block : Recovered(c)' = Recovered(c)
  <2>1. Distinct(dhead)
    BY Zenon DEF LogInv, HeaderInv
  <2>2. \A i \in 1..Len(dhead) : dlog'[i] = dlog[i]
    BY <1>3
  <2> QED BY Zenon, <1>1, <2>1, <2>2, RecoveredKept
<1>5. b \in Block /\ cache[b] # NULL
  <2>1. tail[p] + 1 \in 1..Len(lh) /\ b \in Block
    BY <1>0, <1>1
  <2>2. Pinned(b)
    BY <1>2, <2>1 DEF Pinned
  <2> QED BY Zenon, <1>1, <2>1, <2>2 DEF LogInv, ContentInv, CachedInv
<1>6. cache' = cache
  <2>1. Bread(b) = cache[b]
    BY Zenon, <1>5 DEF Bread
  <2> QED BY <1>0, <1>1, <1>5, <2>1
<1>7. \A c \in Block : Current(c)' = Current(c)
  BY Zenon, <1>1, <1>6 DEF Current, Bread
<1>8. \A q \in Proc : InOp(q)' = InOp(q)
  BY <1>1 DEF InOp
<1> QED BY <1>4, <1>7, <1>8, Stutter

(* install_trans() writes home what recovery would write there too, and      *)
(* leaves in the cache what was in it.                                       *)
LEMMA InstallStep ==
  ASSUME LogInv, NEW t \in Thread, Install(t)
  PROVE  UNCHANGED Atomic!vars
<1> DEFINE n == tail[t] + 1
           b == lh[n]
<1>0. /\ lh \in Seq(Block) /\ tail \in [Thread -> Nat] /\ cache \in [Block -> Value \cup {Torn, NULL}]
      /\ disk \in [Block -> Value \cup {Torn}] /\ NULL \notin Value
  BY Zenon, LogValues DEF LogInv, TypeInv
<1>1. /\ pc[t] = "install" /\ tail[t] < Len(lh) /\ UNCHANGED <<dlog, dhead, pc>>
      /\ disk' = [disk EXCEPT ![b] = dlog[n]] /\ cache' = [cache EXCEPT ![b] = dlog[n]]
  BY Zenon DEF Install
<1>2. lh = dhead
  BY Zenon, <1>1 DEF LogInv, HeaderInv
<1>3. n \in 1..Len(lh) /\ b \in Block
  BY <1>0, <1>1
<1>4. InHead(b) /\ dlog[n] \in Value
  BY Zenon, <1>2, <1>3 DEF InHead, LogInv, ContentInv, StoredInv
<1>5. \A c \in Block : Recovered(c)' = Recovered(c)
  <2>1. \A c \in Block : ~InHead(c) => disk'[c] = disk[c]
    BY <1>0, <1>1, <1>4
  <2> QED BY Zenon, <1>1, <2>1, RecoveredKept DEF LogInv, HeaderInv
<1>6. \A c \in Block : Current(c)' = Current(c)
  <2>1. CASE pc[Boot] # "done"
    BY Zenon, <1>1, <1>5, <2>1 DEF Current
  <2>2. CASE pc[Boot] = "done"
    <3>1. t \in Proc
      BY Zenon, <1>1, <2>2 DEF Thread
    <3>2. Bread(b) = dlog[n]
      BY Zenon, <1>1, <1>3, <3>1 DEF LogInv, ContentInv, CopiedInv
    <3> QED BY <1>0, <1>1, <1>3, <1>4, <2>2, <3>2 DEF Current, Bread
  <2> QED BY <2>1, <2>2
<1>7. \A q \in Proc : InOp(q)' = InOp(q)
  BY <1>1 DEF InOp
<1> QED BY <1>5, <1>6, <1>7, Stutter

(* The second write_head() erases a transaction that is installed, in        *)
(* commit() and at the end of recovery: from then on the cache is read       *)
(* instead of the log, and both agree.                                       *)
LEMMA ClearStep ==
  ASSUME LogInv, HeaderInv', NEW t \in Thread, Clear(t)
  PROVE  UNCHANGED Atomic!vars
<1>0. /\ Proc \subseteq Thread /\ Boot \in Thread /\ Boot \notin Proc
      /\ pc \in [Thread -> Labels \cup BootLabels] /\ tail \in [Thread -> Nat] /\ lh \in Seq(Block)
  BY LogValues DEF Thread, LogInv, TypeInv
<1>1. /\ pc[t] = "install" /\ tail[t] >= Len(lh) /\ dhead' = <<>>
      /\ pc' = [pc EXCEPT ![t] = IF t = Boot THEN "done" ELSE "end"] /\ UNCHANGED <<disk, dlog, cache>>
  BY ZenonT(40) DEF Clear, Goto, Installed, cacheVars
<1>2. lh = dhead
  BY Zenon, <1>1 DEF LogInv, HeaderInv
<1>3. \A b \in Block : Recovered(b) = disk[b]
  <2> TAKE b \in Block
  <2>1. CASE ~InHead(b)
    BY Zenon, <2>1, RecoveredIs DEF LogInv, HeaderInv
  <2>2. CASE InHead(b)
    <3>1. PICK i \in 1..Len(dhead) : dhead[i] = b
      BY Zenon, <2>2 DEF InHead
    <3>2. Recovered(b) = dlog[i]
      BY <3>1, RecoveredIs DEF LogInv, HeaderInv
    <3>3. i \in 1..tail[t] /\ lh[i] = b
      BY <1>0, <1>1, <1>2, <3>1
    <3>4. disk[b] = dlog[i]
      BY ZenonT(40), <1>1, <3>3 DEF LogInv, ContentInv, CopiedInv
    <3> QED BY <3>2, <3>4
  <2> QED BY <2>1, <2>2
<1>4. \A b \in Block : Recovered(b)' = disk[b]
  <2>1. Distinct(dhead)'
    BY Zenon DEF HeaderInv
  <2>2. \A b : ~InHead(b)'
    <3>1. 1..Len(dhead') = {}
      BY <1>1
    <3> QED BY Zenon, <3>1 DEF InHead
  <2> QED BY Zenon, <1>1, <2>1, <2>2, RecoveredIsNext
<1>5. \A b \in Block : Current(b)' = Current(b)
  <2>1. pc'[Boot] = "done"
    BY Zenon, <1>0, <1>1 DEF LogInv, ControlInv, Thread
  <2>2. CASE t # Boot
    <3>1. pc[Boot] = "done"
      BY Zenon, <1>0, <1>1, <2>1, <2>2
    <3> QED BY <1>1, <2>1, <3>1 DEF Current, Bread
  <2>3. CASE t = Boot
    <3>1. \A b \in Block : cache[b] \in {NULL, disk[b]}
      BY <1>1, <2>3 DEF LogInv, ContentInv, CachedInv
    <3> QED BY ZenonT(40), <1>1, <1>3, <2>1, <2>3, <3>1 DEF Current, Bread
  <2> QED BY Zenon, <2>2, <2>3
<1>6. \A q \in Proc : InOp(q)' = InOp(q)
  BY <1>0, <1>1 DEF InOp
<1> QED BY Zenon, <1>3, <1>4, <1>5, <1>6, Stutter

(* The initial states are initial states of the atomic disk.                 *)
LEMMA AtomicInit ==
  ASSUME Init
  PROVE  Atomic!Init
<1>1. LogInv /\ pc[Boot] = "read_head" /\ \A p \in Proc : ~InOp(p)
  BY InitLogInv, LogValues, Zenon DEF Init, Thread, InOp
<1>2. \A b \in Block : Recovered(b) = disk[b] /\ disk[b] \in Value
  BY <1>1, RecoveredIs DEF LogInv, HeaderInv, InHead, Init
<1>3. \A b \in Block : Current(b) = Recovered(b)
  BY <1>1 DEF Current
<1> QED BY <1>1, <1>2, <1>3 DEF Atomic!Init

(* Every step of the log is a step or a stutter of the atomic disk.          *)
LEMMA AtomicStep ==
  ASSUME LogInv, LogInv', [Next]_vars
  PROVE  [Atomic!Next]_(Atomic!vars)
<1> USE DEF diskVars, cacheVars, procVars
<1>0. /\ Proc \subseteq Thread /\ Boot \in Thread /\ Boot \notin Proc
      /\ pc \in [Thread -> Labels \cup BootLabels]
  BY LogValues DEF Thread, LogInv, TypeInv
<1>1. ASSUME UNCHANGED <<disk, dlog, dhead, cache>>, pc'[Boot] = "done" <=> pc[Boot] = "done",
             \A p \in Proc : InOp(p)' = InOp(p)
      PROVE  UNCHANGED Atomic!vars
  <2>1. \A b \in Block : Recovered(b)' = Recovered(b)
    BY ZenonT(40), <1>1, RecoveredKept DEF LogInv, HeaderInv
  <2>2. \A b \in Block : Current(b)' = Current(b)
    BY Zenon, <1>1, <2>1 DEF Current, Bread
  <2> QED BY Zenon, <1>1, <2>1, <2>2, Stutter
<1>2. ASSUME NEW p \in Proc, BeginOpSleeps(p) PROVE UNCHANGED Atomic!vars
  BY <1>0, <1>1, <1>2 DEF BeginOpSleeps, Goto, InOp
<1>3. ASSUME NEW p \in Proc, NEW b \in Block, LogWrite(p, b) PROVE UNCHANGED Atomic!vars
  BY <1>0, <1>1, <1>3 DEF LogWrite, Goto, InOp
<1>4. ASSUME NEW p \in Proc, LogWritePanics(p) PROVE UNCHANGED Atomic!vars
  BY Zenon, <1>1, <1>4 DEF LogWritePanics, Panic, InOp
<1>5. ASSUME NEW p \in Proc, CommitNothing(p) PROVE UNCHANGED Atomic!vars
  BY <1>0, <1>1, <1>5 DEF CommitNothing, Goto, InOp
<1>6. ASSUME NEW p \in Proc, FinishCommit(p) PROVE UNCHANGED Atomic!vars
  BY <1>0, <1>1, <1>6 DEF FinishCommit, FinishWakeup, WakeupAnd, Running, InOp
<1>7. ASSUME ReadHead PROVE UNCHANGED Atomic!vars
  BY ZenonT(40), <1>0, <1>1, <1>7 DEF ReadHead, Goto, InOp
<1>8. ASSUME Crash PROVE Atomic!Crash
  BY Zenon, <1>8, CrashedStep, RecoveredKept DEF Crash, LogInv, HeaderInv
<1>9. ASSUME NEW t \in Thread, NEW i \in LogBlock, CrashInLogWrite(t, i) PROVE Atomic!Crash
  <2>1. dhead = <<>>
    <3>1. pc[t] = "write_log"
      BY <1>9 DEF CrashInLogWrite, WritesLog
    <3>2. t \in Proc
      BY Zenon, <3>1 DEF Thread, LogInv, ControlInv, BootLabels
    <3>3. pc[Boot] = "done" /\ \A p \in Proc : pc[p] # "install"
      BY ZenonT(40), <3>1, <3>2 DEF LogInv, ControlInv, CommitAlone, InCommit
    <3> QED BY Zenon, <3>3 DEF LogInv, HeaderInv
  <2>2. disk' = disk /\ dhead' = dhead /\ Distinct(dhead)
    BY Zenon, <1>9 DEF CrashInLogWrite, LogInv, HeaderInv
  <2>3. \A j \in 1..Len(dhead) : dlog'[j] = dlog[j]
    BY <2>1
  <2>4. \A b \in Block : Recovered(b)' = Recovered(b)
    BY Zenon, <2>2, <2>3, RecoveredKept
  <2> QED BY Zenon, <1>9, <2>4, CrashedStep DEF CrashInLogWrite
<1>10. ASSUME NEW t \in Thread, NEW b \in Block, CrashInHomeWrite(t, b) PROVE Atomic!Crash
  <2>1. /\ dhead' = dhead /\ dlog' = dlog /\ disk' = [disk EXCEPT ![b] = Torn]
        /\ pc[t] = "install" /\ tail[t] < Len(lh) /\ b = lh[tail[t] + 1]
    BY ZenonT(40), <1>10 DEF CrashInHomeWrite, WritesHome
  <2>2. lh = dhead /\ lh \in Seq(Block) /\ tail[t] \in Nat
    BY <2>1 DEF LogInv, HeaderInv, TypeInv
  <2>3. InHead(b)
    BY <2>1, <2>2 DEF InHead
  <2>4. \A c \in Block : ~InHead(c) => disk'[c] = disk[c]
    BY ZenonT(40), <2>1, <2>3 DEF LogInv, TypeInv
  <2>5. \A c \in Block : Recovered(c)' = Recovered(c)
    BY Zenon, <2>1, <2>4, RecoveredKept DEF LogInv, HeaderInv
  <2> QED BY Zenon, <1>10, <2>5, CrashedStep DEF CrashInHomeWrite
<1>11. ASSUME UNCHANGED vars PROVE UNCHANGED Atomic!vars
  BY <1>1, <1>11 DEF vars, InOp
<1>12. HeaderInv'
  BY DEF LogInv
<1> QED BY ZenonT(40), NextCases, BeginStep, WriteStep, EndStep, CommitStep, RecycleStep, WriteLogStep, InstallStep,
           ClearStep, <1>2, <1>3, <1>4, <1>5, <1>6, <1>7, <1>8, <1>9, <1>10, <1>11, <1>12 DEF Atomic!Next

(* AtomicSpec: begin_op(), log_write(), end_op(), commit() and recovery give *)
(* the file system atomic and durable transactions. Whatever the             *)
(* interleaving of operations, commits and crashes, crashes in the middle of *)
(* a write and during recovery included, the disk goes from one commit to    *)
(* the next as a whole.                                                      *)
THEOREM ImplementsAtomicDisk == Spec => AtomicSpec
<1>1. Init => Atomic!Init
  BY AtomicInit
<1>2. LogInv /\ LogInv' /\ [Next]_vars => [Atomic!Next]_(Atomic!vars)
  BY AtomicStep
<1> QED BY <1>1, <1>2, LogInvariant, PTL DEF Spec, AtomicSpec, Atomic!Spec
=============================================================================
