-------------------------------- MODULE Log --------------------------------
(***************************************************************************)
(* The write-ahead log of kernel/log.c: begin_op(), log_write(), end_op()  *)
(* with its group commit, and initlog()'s recovery, over a disk whose      *)
(* machine may stop between any two writes, or in the middle of one.       *)
(*                                                                         *)
(* A section under log.lock is one step; every bwrite() is a step of its   *)
(* own.  The buffer cache appears as what the log relies on: the content   *)
(* of each cached block, its sleep-lock and the references bpin() takes    *)
(* (kernel/bio.c).  A buffer nobody references may be recycled at any      *)
(* time.                                                                   *)
(***************************************************************************)
EXTENDS Integers, Sequences, FiniteSets

CONSTANTS
  Proc,          \* processes that run file-system calls
  Boot,          \* the thread that runs initlog()
  Block,         \* home blocks
  Value,         \* contents a block may have
  Torn,          \* content of a block whose write the crash interrupted
  NULL,
  MAXOPBLOCKS,   \* blocks an operation may write
  LOGSIZE,       \* entries of struct logheader
  NLOG,          \* blocks of the on-disk log, header included (sb.nlog)
  MAXWRITES,     \* bound: log_write() calls of an operation
  MAXCRASHES     \* bound: crashes

ASSUME LogSizes ==
  /\ MAXOPBLOCKS \in Nat /\ LOGSIZE \in Nat /\ NLOG \in Nat \ {0}
  /\ MAXWRITES \in Nat /\ MAXCRASHES \in Nat

ASSUME LogValues ==
  /\ Boot \notin Proc /\ NULL \notin Proc /\ NULL \notin Value
  /\ Torn \notin Value /\ Torn # NULL /\ IsFiniteSet(Proc) /\ IsFiniteSet(Block)

VARIABLES
  disk,         \* the home blocks on disk
  dlog,         \* the log's data blocks on disk
  dhead,        \* the block numbers of the on-disk header
  cache,        \* content of the cached home blocks, NULL if not cached
  pins,         \* references bpin() holds on a block's buffer
  lock,         \* process that holds a block's sleep-lock
  lh,           \* log.lh: the block numbers logged since the last commit
  outstanding,  \* log.outstanding
  committing,   \* log.committing
  pc,           \* where each thread is
  tail,         \* install_trans()'s and write_log()'s loop variable
  wrote,        \* blocks the operation of a process has logged
  nwrites,      \* log_write() calls of that operation
  panicked,
  crashes

diskVars == <<disk, dlog, dhead>>
cacheVars == <<cache, pins, lock>>
logVars == <<lh, outstanding, committing>>
procVars == <<pc, tail, wrote, nwrites>>
vars == <<diskVars, cacheVars, logVars, procVars, panicked, crashes>>

Thread == Proc \cup {Boot}
LogBlock == 1..LOGSIZE
-----------------------------------------------------------------------------
(* What bread() returns for a home block.                                   *)
Bread(b) == IF cache[b] = NULL THEN disk[b] ELSE cache[b]

(* log.lh keeps the first occurrence of a block only.                       *)
Logged(b) == \E i \in 1..Len(lh) : lh[i] = b

Running == pc[Boot] = "done" /\ ~panicked

Goto(t, l) == pc' = [pc EXCEPT ![t] = l]

(* wakeup(&log): every sleeper tries again.                                 *)
WakeupAnd(t, l) ==
  pc' = [q \in Thread |-> IF q = t THEN l ELSE IF pc[q] = "sleep" THEN "begin" ELSE pc[q]]

Panic ==
  /\ panicked' = TRUE
  /\ UNCHANGED <<diskVars, cacheVars, logVars, procVars, crashes>>
-----------------------------------------------------------------------------
(* begin_op().                                                              *)

Room_IgnoresThis == Len(lh) + outstanding * MAXOPBLOCKS <= LOGSIZE
Room == Len(lh) + (outstanding + 1) * MAXOPBLOCKS <= LOGSIZE

MayBegin_DuringCommit == Room
MayBegin == ~committing /\ Room

BeginOp(p) ==
  /\ Running /\ pc[p] \in {"idle", "begin"}
  /\ MayBegin
  /\ outstanding' = outstanding + 1
  /\ Goto(p, "op")
  /\ UNCHANGED <<diskVars, cacheVars, lh, committing, tail, wrote, nwrites, panicked, crashes>>

BeginOpSleeps(p) ==
  /\ Running /\ pc[p] \in {"idle", "begin"}
  /\ ~MayBegin
  /\ Goto(p, "sleep")
  /\ UNCHANGED <<diskVars, cacheVars, logVars, tail, wrote, nwrites, panicked, crashes>>
-----------------------------------------------------------------------------
(* The body of an operation: bread() a block, modify it, log_write(),       *)
(* brelse().  An operation logs at most MAXOPBLOCKS different blocks.       *)

Modify(p, b, v) ==
  /\ Running /\ pc[p] = "op" /\ lock[b] = NULL
  /\ nwrites[p] < MAXWRITES /\ Cardinality(wrote[p] \cup {b}) <= MAXOPBLOCKS
  /\ cache' = [cache EXCEPT ![b] = v]
  /\ lock' = [lock EXCEPT ![b] = p]
  /\ Goto(p, "log_write")
  /\ UNCHANGED <<diskVars, pins, logVars, tail, wrote, nwrites, panicked, crashes>>

TooBig == Len(lh) >= LOGSIZE \/ Len(lh) >= NLOG - 1

Pin(b) == pins' = [pins EXCEPT ![b] = @ + 1]

LogWrite(p, b) ==
  /\ Running /\ pc[p] = "log_write" /\ lock[b] = p
  /\ ~TooBig /\ outstanding >= 1
  /\ IF Logged(b) THEN UNCHANGED <<lh, pins>> ELSE lh' = Append(lh, b) /\ Pin(b)
  /\ lock' = [lock EXCEPT ![b] = NULL]
  /\ wrote' = [wrote EXCEPT ![p] = @ \cup {b}]
  /\ nwrites' = [nwrites EXCEPT ![p] = @ + 1]
  /\ Goto(p, "op")
  /\ UNCHANGED <<diskVars, cache, outstanding, committing, tail, panicked, crashes>>

LogWritePanics(p) ==
  /\ Running /\ pc[p] = "log_write" /\ (TooBig \/ outstanding < 1)
  /\ Panic

(* bget() recycles a buffer that nobody references.                         *)
Recycle(b) ==
  /\ Running /\ cache[b] # NULL /\ lock[b] = NULL /\ pins[b] = 0
  /\ cache' = [cache EXCEPT ![b] = NULL]
  /\ UNCHANGED <<diskVars, pins, lock, logVars, procVars, panicked, crashes>>
-----------------------------------------------------------------------------
(* end_op() and commit().                                                   *)

LastOut == outstanding = 1

(* Its panic("log.committing") cannot happen: CommitAlone.                   *)
EndOp(p) ==
  /\ Running /\ pc[p] = "op"
  /\ outstanding' = outstanding - 1
  /\ wrote' = [wrote EXCEPT ![p] = {}]
  /\ nwrites' = [nwrites EXCEPT ![p] = 0]
  /\ IF LastOut
       THEN committing' = TRUE /\ Goto(p, "write_log") /\ tail' = [tail EXCEPT ![p] = 0]
       ELSE WakeupAnd(p, "idle") /\ UNCHANGED <<committing, tail>>
  /\ UNCHANGED <<diskVars, cacheVars, lh, panicked, crashes>>

(* One iteration of write_log().                                            *)
WriteLog(p) ==
  LET b == lh[tail[p] + 1] IN
  /\ Running /\ pc[p] = "write_log" /\ tail[p] < Len(lh) /\ lock[b] = NULL
  /\ dlog' = [dlog EXCEPT ![tail[p] + 1] = Bread(b)]
  /\ cache' = [cache EXCEPT ![b] = Bread(b)]
  /\ tail' = [tail EXCEPT ![p] = @ + 1]
  /\ UNCHANGED <<disk, dhead, pins, lock, logVars, pc, wrote, nwrites, panicked, crashes>>

(* write_head(): the real commit.                                           *)
HeadReady(p) == tail[p] >= Len(lh)

WriteHead(p) ==
  /\ Running /\ pc[p] = "write_log" /\ lh # <<>> /\ HeadReady(p)
  /\ dhead' = lh
  /\ Goto(p, "install")
  /\ tail' = [tail EXCEPT ![p] = 0]
  /\ UNCHANGED <<disk, dlog, cacheVars, logVars, wrote, nwrites, panicked, crashes>>

(* commit() with an empty log.                                              *)
CommitNothing(p) ==
  /\ Running /\ pc[p] = "write_log" /\ lh = <<>>
  /\ Goto(p, "end")
  /\ UNCHANGED <<diskVars, cacheVars, logVars, tail, wrote, nwrites, panicked, crashes>>

(* Recovery has pinned nothing.                                             *)
Unpin(t, b) == pins' = IF t = Boot THEN pins ELSE [pins EXCEPT ![b] = @ - 1]

(* One iteration of install_trans(), in commit() and in recovery.           *)
Install(t) ==
  LET i == tail[t] + 1
      b == lh[i] IN
  /\ ~panicked /\ pc[t] = "install" /\ tail[t] < Len(lh) /\ lock[b] = NULL
  /\ disk' = [disk EXCEPT ![b] = dlog[i]]
  /\ cache' = [cache EXCEPT ![b] = dlog[i]]
  /\ Unpin(t, b)
  /\ tail' = [tail EXCEPT ![t] = i]
  /\ UNCHANGED <<dlog, dhead, lock, logVars, pc, wrote, nwrites, panicked, crashes>>

(* The second write_head(), which erases the transaction.                   *)
Installed_Early(t) == TRUE
Installed(t) == tail[t] >= Len(lh)

Clear(t) ==
  /\ ~panicked /\ pc[t] = "install" /\ Installed(t)
  /\ lh' = <<>> /\ dhead' = <<>>
  /\ Goto(t, IF t = Boot THEN "done" ELSE "end")
  /\ UNCHANGED <<disk, dlog, cacheVars, outstanding, committing, tail, wrote, nwrites,
                 panicked, crashes>>

(* The end of end_op(): waiting calls may start.                            *)
CommitOver_Missing == UNCHANGED committing
CommitOver == committing' = FALSE

FinishWakeup_Missing(p) == Goto(p, "idle")
FinishWakeup(p) == WakeupAnd(p, "idle")

FinishCommit(p) ==
  /\ Running /\ pc[p] = "end"
  /\ CommitOver
  /\ FinishWakeup(p)
  /\ UNCHANGED <<diskVars, cacheVars, lh, outstanding, tail, wrote, nwrites, panicked, crashes>>
-----------------------------------------------------------------------------
(* Crashes and recovery.                                                    *)

(* read_head().                                                             *)
ReadHead ==
  /\ ~panicked /\ pc[Boot] = "read_head"
  /\ lh' = dhead
  /\ Goto(Boot, "install")
  /\ tail' = [tail EXCEPT ![Boot] = 0]
  /\ UNCHANGED <<diskVars, cacheVars, outstanding, committing, wrote, nwrites, panicked, crashes>>

(* A bwrite() that the crash interrupts leaves its block torn.  The header  *)
(* lies within one disk sector and is written whole or not at all.          *)
WritesLog(t, i) == pc[t] = "write_log" /\ tail[t] < Len(lh) /\ i = tail[t] + 1
WritesHome(t, b) == pc[t] = "install" /\ tail[t] < Len(lh) /\ b = lh[tail[t] + 1]

Restart ==
  /\ crashes < MAXCRASHES /\ crashes' = crashes + 1
  /\ cache' = [b \in Block |-> NULL] /\ pins' = [b \in Block |-> 0]
  /\ lock' = [b \in Block |-> NULL]
  /\ lh' = <<>> /\ outstanding' = 0 /\ committing' = FALSE
  /\ pc' = [t \in Thread |-> IF t = Boot THEN "read_head" ELSE "idle"]
  /\ tail' = [t \in Thread |-> 0]
  /\ wrote' = [p \in Proc |-> {}] /\ nwrites' = [p \in Proc |-> 0]
  /\ panicked' = FALSE

Crash ==
  /\ Restart
  /\ UNCHANGED diskVars

CrashInLogWrite(t, i) ==
  /\ ~panicked /\ WritesLog(t, i) /\ Restart
  /\ dlog' = [dlog EXCEPT ![i] = Torn]
  /\ UNCHANGED <<disk, dhead>>

CrashInHomeWrite(t, b) ==
  /\ ~panicked /\ WritesHome(t, b) /\ Restart
  /\ disk' = [disk EXCEPT ![b] = Torn]
  /\ UNCHANGED <<dlog, dhead>>
-----------------------------------------------------------------------------
Init ==
  /\ disk \in [Block -> Value] /\ dlog = [i \in LogBlock |-> Torn] /\ dhead = <<>>
  /\ cache = [b \in Block |-> NULL] /\ pins = [b \in Block |-> 0]
  /\ lock = [b \in Block |-> NULL]
  /\ lh = <<>> /\ outstanding = 0 /\ committing = FALSE
  /\ pc = [t \in Thread |-> IF t = Boot THEN "read_head" ELSE "idle"]
  /\ tail = [t \in Thread |-> 0]
  /\ wrote = [p \in Proc |-> {}] /\ nwrites = [p \in Proc |-> 0]
  /\ panicked = FALSE /\ crashes = 0

(* A process between begin_op() and the return of end_op().                 *)
ProcStep(p) ==
  \/ \E b \in Block, v \in Value : Modify(p, b, v)
  \/ \E b \in Block : LogWrite(p, b)
  \/ LogWritePanics(p)
  \/ EndOp(p)
  \/ WriteLog(p) \/ WriteHead(p) \/ CommitNothing(p)
  \/ Install(p) \/ Clear(p) \/ FinishCommit(p)

BootStep == ReadHead \/ Install(Boot) \/ Clear(Boot)

CrashStep ==
  \/ Crash
  \/ \E t \in Thread, i \in LogBlock : CrashInLogWrite(t, i)
  \/ \E t \in Thread, b \in Block : CrashInHomeWrite(t, b)

Next ==
  \/ \E p \in Proc : BeginOp(p) \/ BeginOpSleeps(p) \/ ProcStep(p)
  \/ BootStep
  \/ \E b \in Block : Recycle(b)
  \/ CrashStep

Spec == Init /\ [][Next]_vars

(* A call that was woken retries, a call in progress goes on to its end, and *)
(* initlog() runs: the scheduler runs every runnable thread.                 *)
Fairness ==
  /\ \A p \in Proc : /\ WF_vars(ProcStep(p))
                     /\ WF_vars(pc[p] = "begin" /\ (BeginOp(p) \/ BeginOpSleeps(p)))
  /\ WF_vars(BootStep)

InOp(p) == pc[p] \in {"op", "log_write"}
InCommit(p) == pc[p] \in {"write_log", "install", "end"}

FairSpec == Spec /\ Fairness
-----------------------------------------------------------------------------
(* A commit runs alone: while one process is in commit(), no other process   *)
(* is, and none is between begin_op() and end_op() (log.c:12-16: "never any  *)
(* reasoning required about whether a commit might write an uncommitted      *)
(* system call's updates to disk").                                          *)
CommitAlone ==
  \A p \in Proc : InCommit(p) => \A q \in Proc \ {p} : ~InOp(q) /\ ~InCommit(q)

(* The admission test of begin_op() reserves room: the log never outgrows    *)
(* its LOGSIZE entries even if every running operation logs all the blocks   *)
(* it may still log, whatever part of them is absorbed.                      *)
Reserved ==
  Len(lh) + outstanding * MAXOPBLOCKS
    - Cardinality({x \in Proc \X Block : x[2] \in wrote[x[1]]}) <= LOGSIZE

(* A cached block that differs from the disk and is not being modified is    *)
(* pinned: bget() cannot recycle the only copy of an update between          *)
(* log_write() and install_trans().                                          *)
UpdatesPinned ==
  \A b \in Block : cache[b] \notin {NULL, disk[b]} /\ lock[b] = NULL => pins[b] > 0

(* Until a commit is over nothing changes or loses what it writes: it runs   *)
(* alone, and the updates stay pinned in the cache.                          *)
CommitProtected == CommitAlone /\ UpdatesPinned

(* Every process that sleeps in begin_op() is woken: the wakeup() calls of   *)
(* end_op() cover both reasons to sleep, also when a crash intervenes.       *)
SleepersWoken == \A p \in Proc : pc[p] = "sleep" ~> (pc[p] # "sleep" \/ panicked)

(* Recovery ends, and so does every commit: log.committing is cleared and    *)
(* the file system is usable again.                                          *)
CommitEnds == (committing \/ pc[Boot] # "done") ~> ((~committing /\ pc[Boot] = "done") \/ panicked)

-----------------------------------------------------------------------------
(* The disk a restart would find: the log's content once the header names it. *)
Recovered(b) ==
  LET hits == {i \in 1..Len(dhead) : dhead[i] = b} IN
  IF hits = {} THEN disk[b] ELSE dlog[CHOOSE i \in hits : TRUE]

(* What operations read; nobody reads before recovery has finished.          *)
Current(b) == IF pc[Boot] = "done" THEN Bread(b) ELSE Recovered(b)

Atomic == INSTANCE AtomicDisk WITH
  durable <- [b \in Block |-> Recovered(b)],
  current <- [b \in Block |-> Current(b)],
  active  <- {p \in Proc : InOp(p)}

(* The log implements atomic, durable transactions: whatever the             *)
(* interleaving of operations, commits, interrupted writes, crashes and      *)
(* crashes during recovery, the disk is always taken from one commit to the  *)
(* next as a whole.                                                          *)
AtomicSpec == Atomic!Spec
=============================================================================
