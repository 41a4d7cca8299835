----------------------------- MODULE ProcProofs -----------------------------
(***************************************************************************)
(* Theorems about Proc, for any number of harts and process slots: no two  *)
(* harts run on one kernel stack, interrupts come back exactly as          *)
(* push_off() found them, and no wakeup is lost.  Most steps are quiet:    *)
(* they cannot lose a wakeup.  The others are those of wait(), exit(),     *)
(* sys_sleep() and clockintr() under their condition lock.                 *)
(***************************************************************************)
EXTENDS ProcSwitchProofs

(* Process p sleeps on channel ch.                                           *)
Asleep(p, ch) == proc[p].state = "SLEEPING" /\ proc[p].chan = ch
(* reparent() has passed a child to initproc and is about to wake initproc   *)
(* up.                                                                       *)
WakesInit == \E t \in Proc : thr[t].pc = "wake_init" /\ thr[t].wx = 1
(* exit() of q has woken up its parent p, or has passed p's slot in          *)
(* wakeup(), and has not yet become ZOMBIE.                                  *)
PastParent(q, p) == thr[q].pc = "exit_zombie" \/ (thr[q].pc = "wake_parent" /\ thr[q].wx > p)

(* A free slot, and a slot that fork() fills, belongs to nobody yet.         *)
FamilyInv ==
  /\ \A p \in Proc : proc[p].state = "UNUSED" => proc[p].parent = NULL
  /\ \A p \in Proc : Pos(p) = "fork_parent" => proc[thr[p].ix].parent = NULL

(* A process asleep in wait() has a child and no ZOMBIE child, except for    *)
(* initproc just before reparent() wakes it up.                              *)
SleeperOK(p) ==
  Asleep(p, p) =>
    /\ \E q \in Proc : proc[q].parent = p
    /\ \A q \in Proc : proc[q].parent = p /\ proc[q].state = "ZOMBIE" => p = initproc /\ WakesInit

(* The scan of wait() has seen no ZOMBIE up to its index, none at all when   *)
(* it decides to sleep; and a parent that exit() has just woken up stays     *)
(* awake until the child is ZOMBIE, since exit() holds wait_lock throughout. *)
WaitInv ==
  /\ \A p \in Proc : SleeperOK(p)
  /\ \A p, q \in Proc : thr[p].pc = "wait_scan" /\ proc[q].parent = p /\ q <= thr[p].ix => proc[q].state # "ZOMBIE"
  /\ \A p, q \in Proc : thr[p].pc = "wait_sleep" /\ proc[q].parent = p => proc[q].state # "ZOMBIE"
  /\ \A p \in Proc : thr[p].pc = "wait_sleep" => \E q \in Proc : proc[q].parent = p
  /\ \A p, q \in Proc : proc[q].parent = p /\ PastParent(q, p) => ~Asleep(p, p)

(* A process asleep in sys_sleep() has ticks left, or clockintr() is still   *)
(* to reach it in its wakeup(); nobody goes to sleep with none left.         *)
TickInv ==
  /\ \A p \in Proc : Asleep(p, tickslock) =>
       proc[p].left > 0 \/ \E t \in Thread : thr[t].pc = "clock_wake" /\ thr[t].wx <= p
  /\ \A p \in Proc : thr[p].pc = "sleep_go" => proc[p].left > 0

(* The part of the inductive invariant that is about wakeups.                *)
Wake == FamilyInv /\ WaitInv /\ TickInv

(* The places that Wake speaks about.                                        *)
Critical == {"wait_scan", "wait_sleep", "exit_zombie", "wake_parent", "wake_init", "sleep_go", "clock_wake"}

(* A step that does nothing to process p that could lose a wakeup: no        *)
(* sleeper, ZOMBIE or free slot is new, no parent changes, and only a        *)
(* process that is awake changes its ticks.                                  *)
QuietProc(p) ==
  /\ proc'[p].parent = proc[p].parent
  /\ proc'[p].state \in {"ZOMBIE", "UNUSED"} => proc[p].state = proc'[p].state
  /\ proc'[p].state = "SLEEPING" => proc[p].state = "SLEEPING" /\ proc'[p].chan = proc[p].chan
  /\ proc'[p].left = proc[p].left \/ (proc'[p].state # "SLEEPING" /\ thr'[p].pc # "sleep_go")

(* A step that does not bring thread u to a place that Wake speaks about,    *)
(* nor away from a wakeup() in progress.                                     *)
QuietThread(u) ==
  \/ thr'[u].pc = thr[u].pc /\ thr'[u].ix = thr[u].ix /\ thr'[u].wx = thr[u].wx /\ thr'[u].trap = thr[u].trap
  \/ /\ thr'[u].pc \notin Critical /\ thr[u].pc \notin {"wake_init", "clock_wake"}
     /\ Pos(u)' = "fork_parent" =>
          \/ Pos(u) = "fork_parent" /\ thr'[u].ix = thr[u].ix
          \/ thr'[u].ix \in Proc /\ proc[thr'[u].ix].state = "UNUSED"

(* A step that Wake does not notice.                                         *)
Quiet == (\A p \in Proc : QuietProc(p)) /\ (\A u \in Thread : QuietThread(u))

(* A quiet step keeps Wake.                                                  *)
LEMMA QuietKeeps ==
  ASSUME Base, Wake, Quiet
  PROVE  Wake'
<1>0. Proc \subseteq Thread /\ (\A p \in Proc : proc[p].left \in Nat)
  BY Sets DEF Base, TypeInv, ProcType
<1>1. \A u \in Thread : /\ thr'[u].pc \in Critical =>
                             thr'[u].pc = thr[u].pc /\ thr'[u].ix = thr[u].ix /\ thr'[u].wx = thr[u].wx
                        /\ thr[u].pc \in {"wake_init", "clock_wake"} =>
                             thr'[u].pc = thr[u].pc /\ thr'[u].wx = thr[u].wx
                        /\ Pos(u)' = "fork_parent" =>
                             \/ Pos(u) = "fork_parent" /\ thr'[u].ix = thr[u].ix
                             \/ thr'[u].ix \in Proc /\ proc[thr'[u].ix].state = "UNUSED"
  BY DEF Quiet, QuietThread, Pos
<1>2. FamilyInv'
  <2>1. \A p \in Proc : Pos(p) = "fork_parent" => thr[p].ix \in Proc
    BY DEF Base, ForkInv, Forking
  <2> QED BY <1>0, <1>1, <2>1 DEF Wake, FamilyInv, Quiet, QuietProc
<1>3. \A p \in Proc : \A ch : Asleep(p, ch)' => Asleep(p, ch)
  BY DEF Quiet, QuietProc, Asleep
<1>4. WakesInit => WakesInit'
  BY <1>0, <1>1 DEF WakesInit
<1>5. \A p \in Proc : SleeperOK(p)'
  BY <1>3, <1>4 DEF Wake, WaitInv, SleeperOK, Quiet, QuietProc
<1>6. \A p, q \in Proc : PastParent(q, p)' => PastParent(q, p)
  BY <1>0, <1>1 DEF PastParent, Critical
<1>7. WaitInv'
  BY <1>0, <1>1, <1>3, <1>5, <1>6 DEF Wake, WaitInv, Quiet, QuietProc, Critical
<1>8. TickInv'
  <2>1. \A p \in Proc : Asleep(p, tickslock)' => Asleep(p, tickslock) /\ proc'[p].left = proc[p].left
    BY <1>3 DEF Quiet, QuietProc, Asleep
  <2>2. \A p \in Proc : thr'[p].pc = "sleep_go" => thr[p].pc = "sleep_go" /\ proc'[p].left = proc[p].left
    BY <1>0, <1>1 DEF Quiet, QuietProc, Critical
  <2> QED BY <1>1, <2>1, <2>2 DEF Wake, TickInv
<1> QED BY <1>2, <1>7, <1>8 DEF Wake

(* The process at a place of WaitLabels owns wait_lock.                      *)
LEMMA WaitOwner ==
  ASSUME Base, NEW u \in Proc, thr[u].pc \in WaitLabels
  PROVE  \E d \in Cpu : Current(d) = u /\ lock[wait_lock] = d
<1>1. On(u)
  BY DEF Base, PlaceInv, StateOK, WaitLabels, OffLabels
<1>2. PICK d \in Cpu : myproc(d) = u
  BY <1>1 DEF On
<1>3. Current(d) = u
  BY <1>2, Sets DEF Current
<1>4. wait_lock \in Holds(u)
  BY DEF Holds, HoldsAt
<1> QED BY <1>3, <1>4, Sets DEF Base, LockInv

(* The thread at a place of TickLabels owns tickslock.                       *)
LEMMA TickOwner ==
  ASSUME Base, NEW u \in Thread, thr[u].pc \in TickLabels
  PROVE  \E d \in Cpu : Current(d) = u /\ lock[tickslock] = d
<1>1. PICK d \in Cpu : Current(d) = u
  <2>1. CASE u \in Proc
    <3>1. On(u)
      BY <2>1 DEF Base, PlaceInv, StateOK, TickLabels, OffLabels
    <3>2. PICK d \in Cpu : myproc(d) = u
      BY <3>1 DEF On
    <3> QED BY <2>1, <3>2, Sets DEF Current
  <2>2. CASE u \notin Proc
    <3>1. PICK d \in Cpu : u = Scheduler(d)
      BY <2>2 DEF Thread
    <3>2. thr[u].pc # "scan"
      BY DEF TickLabels
    <3> QED BY <3>1, <3>2 DEF Base, HartInv, SchedulerOK, Current
  <2> QED BY <2>1, <2>2
<1>2. tickslock \in Holds(u)
  BY DEF Holds, HoldsAt, TickLabels, WaitLabels
<1> QED BY <1>1, <1>2, Sets DEF Base, LockInv

(* The invariants imply NoLostWakeup: when the lock is free, no wakeup() is  *)
(* in progress.                                                              *)
LEMMA WakeupsOfBase == Base /\ Wake => NoLostWakeup
<1> SUFFICES ASSUME Base, Wake, NEW p \in Proc, proc[p].state = "SLEEPING"
             PROVE  /\ proc[p].chan = p /\ lock[wait_lock] = NULL =>
                         Children(p) # {} /\ \A q \in Children(p) : proc[q].state # "ZOMBIE"
                    /\ proc[p].chan = tickslock /\ lock[tickslock] = NULL => proc[p].left > 0
  BY DEF NoLostWakeup
<1>1. lock[wait_lock] = NULL => ~WakesInit
  BY WaitOwner, Sets DEF WakesInit, WaitLabels
<1>2. lock[tickslock] = NULL => \A t \in Thread : thr[t].pc # "clock_wake"
  BY TickOwner, Sets DEF TickLabels
<1> QED BY <1>1, <1>2 DEF Wake, WaitInv, TickInv, SleeperOK, Asleep, Children

(* A thread that moves between places that do not matter takes a quiet step  *)
(* if proc[] allows it.                                                      *)
LEMMA QuietMove ==
  ASSUME Base, NEW t \in Thread, NEW l, NEW i, NEW w, NEW tr, Moved(t, l, i, w, tr), l \notin Critical,
         thr[t].pc \notin {"wake_init", "clock_wake"},
         (IF tr = "none" THEN l ELSE tr) = "fork_parent" =>
           (Pos(t) = "fork_parent" /\ i = thr[t].ix) \/ (i \in Proc /\ proc[i].state = "UNUSED"),
         \A p \in Proc : QuietProc(p)
  PROVE  Quiet
<1>1. \A u \in Thread \ {t} : thr'[u] = thr[u]
  BY DEF Moved
<1>2. \A u \in Thread \ {t} : QuietThread(u)
  BY <1>1 DEF QuietThread
<1>3. Pos(t)' = IF tr = "none" THEN l ELSE tr
  BY DEF Pos, Moved
<1>4. QuietThread(t)
  BY <1>3 DEF QuietThread, Moved
<1> QED BY <1>2, <1>4 DEF Quiet

(* A step that leaves proc[] alone is quiet about processes.                 *)
LEMMA QuietSame ==
  ASSUME UNCHANGED proc, NEW p \in Proc
  PROVE  QuietProc(p)
BY DEF QuietProc

(* Places that do not matter to Wake.                                        *)
LEMMA Returning ==
  ASSUME NEW l \in {"ret", "user", "user_wait", "exit", "wait", "sleep_again", "sleep_loop", "reparent", "alloc", "kill", "sleep"}
  PROVE  l \notin Critical /\ l # "fork_parent"
BY DEF Critical

(* Steps that return, or that begin a call. *)
LEMMA QuietReturn ==
  ASSUME Base, NEW c \in Cpu, NEW t \in Thread, t = Current(c), SyscallReturn(t)
  PROVE  Quiet
<1> DEFINE l == IF proc[t].killed THEN "exit" ELSE "user"
<1>1. l \in {"exit", "user"} /\ Goto(t, l)
  BY DEF SyscallReturn
<1> HIDE DEF l
<1>2. Moved(t, l, thr[t].ix, thr[t].wx, thr[t].trap)
  BY <1>1, Words, MovedPc, Zenon
<1>3. thr[t].trap = "none" /\ thr[t].pc = "ret"
  BY Plain DEF RunLabels, OpenLabels, SyscallReturn
<1>4. \A p \in Proc : QuietProc(p)
  BY QuietSame DEF SyscallReturn
<1> QED BY <1>1, <1>2, <1>3, <1>4, QuietMove, Returning

(* Entering a system call is quiet.                                          *)
LEMMA QuietUserCall ==
  ASSUME Base, NEW c \in Cpu, NEW t \in Thread, t = Current(c),
         NEW call \in {"alloc", "exit", "wait", "sleep", "kill"}, UserCall(c, t, call)
  PROVE  Quiet
<1> DEFINE l == IF proc[t].killed THEN "exit" ELSE call
           i == IF call = "alloc" /\ ~proc[t].killed THEN 1 ELSE 0
<1>1. l \in {"alloc", "exit", "wait", "sleep", "kill"} /\ i \in Int /\ GotoAt(t, l, i) /\ l \in Labels
  BY DEF UserCall, GotoAt, Labels
<1> HIDE DEF l, i
<1>2. Moved(t, l, i, thr[t].wx, thr[t].trap)
  BY <1>1, MovedPcIx
<1>3. thr[t].trap = "none" /\ thr[t].pc \in {"user", "user_wait"}
  BY Plain DEF RunLabels, OpenLabels, UserCall
<1>4. \A p \in Proc : QuietProc(p)
  BY QuietSame DEF UserCall
<1> QED BY <1>1, <1>2, <1>3, <1>4, QuietMove, Returning

(* kill() is quiet: it wakes a sleeper up and changes nothing else that      *)
(* matters.                                                                  *)
LEMMA QuietKill ==
  ASSUME Base, NEW c \in Cpu, NEW t \in Thread, t = Current(c), kill(t)
  PROVE  Quiet
<1>1. Moved(t, "ret", thr[t].ix, thr[t].wx, thr[t].trap)
  BY Words, MovedPc, Zenon DEF kill
<1>2. thr[t].trap = "none" /\ thr[t].pc = "kill"
  BY Plain DEF RunLabels, OpenLabels, kill
<1>3. \A p \in Proc : QuietProc(p)
  <2>1. ASSUME NEW v \in Victims, proc' = [proc EXCEPT ![v] = KillSlot(@)], NEW p \in Proc
        PROVE  QuietProc(p)
    BY <2>1 DEF QuietProc, KillSlot, Base, TypeInv, ProcType
  <2> QED BY <2>1, QuietSame, Zenon DEF kill
<1> QED BY <1>1, <1>2, <1>3, QuietMove, Returning

(* Steps of the trap handler outside of clockintr()'s wakeup(), and of the   *)
(* scheduler.                                                                *)
LEMMA QuietTrap ==
  ASSUME Base, NEW c \in Cpu, NEW t \in Thread, t = Current(c),
         \/ thr[t].pc = "clock_end" /\ Goto(t, "preempt") /\ UNCHANGED proc
         \/ Preempt(c, t) \/ yield(c, t)
  PROVE  Quiet
<1>1. thr[t].trap # "none" /\ thr[t].pc \in {"clock_end", "preempt", "yielded"}
  BY InTrapHas DEF InTrap, Preempt, yield
<1>2. PICK l \in {"preempt", "exit", "sched", "trapret"}, tr \in {"none", thr[t].trap} :
        /\ Moved(t, l, thr[t].ix, thr[t].wx, tr)
        /\ (l = "exit" /\ tr = "none") \/ tr = thr[t].trap
  <2>1. CASE thr' = [thr EXCEPT ![t].pc = "exit", ![t].trap = "none"]
    <3>1. Moved(t, "exit", thr[t].ix, thr[t].wx, "none")
      BY <2>1, Words, MovedPcTrap, Zenon
    <3> QED BY <3>1
  <2>2. ASSUME NEW l \in {"preempt", "sched", "trapret"}, Goto(t, l)
        PROVE  Moved(t, l, thr[t].ix, thr[t].wx, thr[t].trap)
    BY <2>2, Words, MovedPc, Zenon
  <2> QED BY <2>1, <2>2 DEF Preempt, yield
<1>3. \A p \in Proc : QuietProc(p)
  <2>1. ASSUME Yields(t), proc' = [proc EXCEPT ![t].state = "RUNNABLE"], NEW p \in Proc PROVE QuietProc(p)
    BY <2>1 DEF QuietProc, Base, TypeInv, ProcType, Yields
  <2> QED BY <2>1, QuietSame DEF Preempt, yield
<1>4. l \notin Critical /\ l # "fork_parent"
  BY <1>2 DEF Critical
<1>5. (IF tr = "none" THEN l ELSE tr) = "fork_parent" => Pos(t) = "fork_parent"
  BY <1>1, <1>2, <1>4 DEF Pos
<1> QED BY <1>1, <1>2, <1>3, <1>4, <1>5, QuietMove

(* Returning from a trap is quiet.                                           *)
LEMMA QuietTrapReturn ==
  ASSUME Base, NEW c \in Cpu, NEW t \in Thread, t = Current(c), TrapReturn(c, t)
  PROVE  Quiet
<1>1. thr[t].trap # "none" /\ thr[t].pc = "trapret"
  BY InTrapHas DEF TrapReturn, InTrap
<1>2. thr[t].trap \in OpenLabels \cup {"scan"} /\ thr[t].trap \in Labels
  BY <1>1, Running DEF TrapOK, SchedulerOK, Base, TypeInv, ThreadType
<1>3. Moved(t, thr[t].trap, thr[t].ix, thr[t].wx, "none")
  BY <1>2, Words, MovedPcTrap, Zenon DEF TrapReturn
<1>4. \A p \in Proc : QuietProc(p)
  BY QuietSame DEF TrapReturn
<1>5. thr[t].trap \notin Critical /\ Pos(t) = thr[t].trap
  BY <1>1, <1>2 DEF Critical, OpenLabels, Pos
<1> QED BY <1>1, <1>3, <1>4, <1>5, QuietMove

(* A timer interrupt is quiet: it finds no thread in wakeup().               *)
LEMMA QuietTimer ==
  ASSUME Base, NEW c \in Cpu, NEW t \in Thread, t = Current(c), TimerInterrupt(c)
  PROVE  Quiet
<1> DEFINE l == IF c = 1 THEN "clock" ELSE "preempt"
<1>1. hart[c].sie /\ thr[t].pc \in Labels
  BY DEF TimerInterrupt, Base, TypeInv, ThreadType
<1>2. thr[t].trap = "none" /\ thr[t].pc \notin {"wake_init", "clock_wake", "none"}
  <2>1. thr[t].trap = "none"
    BY <1>1, Running
  <2>2. Holds(t) = {}
    BY <1>1 DEF Base, LockInv
  <2>3. thr[t].pc # "none"
    BY <2>1, Running DEF TrapOK, SchedulerOK, SchedulerLabels, RunLabels, OpenLabels, WaitLabels
  <2> QED BY <2>1, <2>2, <2>3 DEF Holds, HoldsAt, WaitLabels, TickLabels
<1>3. l \in {"clock", "preempt"} /\ l \in Labels /\ thr' = [thr EXCEPT ![t].trap = thr[t].pc, ![t].pc = l]
  BY DEF Labels, TimerInterrupt
<1> HIDE DEF l
<1>4. Moved(t, l, thr[t].ix, thr[t].wx, thr[t].pc)
  BY <1>1, <1>3, MovedPcTrap, Zenon
<1>5. \A p \in Proc : QuietProc(p)
  BY QuietSame DEF TimerInterrupt
<1>6. l \notin Critical /\ Pos(t) = thr[t].pc
  BY <1>2, <1>3 DEF Critical, Pos
<1> QED BY <1>2, <1>3, <1>4, <1>5, <1>6, QuietMove

(* The scheduler's scan is quiet.                                            *)
LEMMA QuietScanPass ==
  ASSUME Base, NEW c \in Cpu, ScanPass(c)
  PROVE  Quiet
<1> DEFINE s == Scheduler(c)
<1>1. s \in Thread /\ NextIx(c) \in Int /\ thr[s] \in ThreadType /\ s \notin Proc
  BY NextIxIn, Sets, Zenon DEF Base, TypeInv
<1>2. thr' = [thr EXCEPT ![s].ix = NextIx(c)] /\ thr[s].pc = "scan" /\ thr[s].trap = "none"
  BY DEF ScanPass, Base, HartInv, SchedulerOK
<1>3. Moved(s, "scan", NextIx(c), thr[s].wx, "none")
  BY <1>1, <1>2 DEF Moved, Base, TypeInv, ThreadType
<1>4. \A p \in Proc : QuietProc(p)
  BY QuietSame DEF ScanPass
<1>5. "scan" \notin Critical /\ "scan" # "fork_parent"
  BY DEF Critical
<1> HIDE DEF s
<1> QED BY <1>1, <1>2, <1>3, <1>4, <1>5, QuietMove

(* Switching to a process is quiet.                                          *)
LEMMA QuietSwitchIn ==
  ASSUME Base, NEW c \in Cpu, ScanSwitch(c), NEW p, p = thr[Scheduler(c)].ix
  PROVE  Quiet
<1>1. p \in Proc /\ p \in Thread
  BY NextIxIn, Sets, Zenon
<1>2. proc' = [proc EXCEPT ![p].state = "RUNNING"] /\ thr' = [thr EXCEPT ![p].intena = FALSE] /\ proc[p].state = "RUNNABLE"
  BY DEF ScanSwitch
<1>3. \A q \in Proc : QuietProc(q)
  BY ZenonT(40), <1>1, <1>2 DEF QuietProc, Base, TypeInv, ProcType
<1>4. \A u \in Thread : QuietThread(u)
  BY ZenonT(40), <1>1, <1>2 DEF QuietThread, Base, TypeInv, ThreadType
<1> QED BY <1>3, <1>4 DEF Quiet

(* Switching to the scheduler is quiet: the sleeper fell asleep earlier, in  *)
(* sleep().                                                                  *)
LEMMA QuietSched ==
  ASSUME Base, NEW c \in Cpu, NEW p \in Thread, p = Current(c), sched(c, p)
  PROVE  Quiet
<1> DEFINE s == Scheduler(c)
<1>1. p \in Proc /\ thr[p].pc = "sched" /\ s \in Thread /\ s # p /\ s \notin Proc /\ thr[s].pc = "scan" /\ thr[s].trap = "none"
  <2>1. p \in Proc /\ thr[p].pc = "sched"
    BY SchedChecksHold DEF sched
  <2>2. myproc(c) # NULL
    BY <2>1, CurrentThread DEF Base
  <2> QED BY <2>1, <2>2, Sets DEF Base, HartInv, SchedulerOK
<1>2. Resume(p) \in {"dead", "sleep_woken", "wait_woken", "yielded"}
  <2>1. TrapOK(p) /\ p # tickslock /\ p # NULL /\ tickslock # NULL
    BY <1>1, Running, Sets
  <2> QED BY <1>1, <2>1 DEF TrapOK, Resume
<1>3. thr' = [[thr EXCEPT ![p] = [@ EXCEPT !.pc = Resume(p), !.intena = hart[c].intena]] EXCEPT ![s] = [@ EXCEPT !.ix = NextIx(c)]]
  BY <1>1, Zenon DEF sched, Base, TypeInv
<1>4. thr[p] \in ThreadType /\ thr[s] \in ThreadType
  BY <1>1 DEF Base, TypeInv
<1>5. /\ thr'[p] = [thr[p] EXCEPT !.pc = Resume(p), !.intena = hart[c].intena]
      /\ thr'[s] = [thr[s] EXCEPT !.ix = NextIx(c)] /\ \A u \in Thread \ {p, s} : thr'[u] = thr[u]
  BY <1>1, <1>3 DEF Base, TypeInv
<1>6. thr'[p].pc = Resume(p) /\ thr'[p].trap = thr[p].trap /\ thr'[p].ix = thr[p].ix
  BY <1>4, <1>5 DEF ThreadType
<1>7. thr'[s].pc = "scan" /\ thr'[s].trap = "none"
  BY <1>1, <1>4, <1>5 DEF ThreadType
<1>8. QuietThread(p)
  BY <1>1, <1>2, <1>6 DEF QuietThread, Critical, Pos
<1>9. QuietThread(s)
  BY <1>1, <1>7 DEF QuietThread, Critical, Pos
<1>10. \A u \in Thread \ {p, s} : QuietThread(u)
  BY <1>5 DEF QuietThread
<1>11. \A q \in Proc : QuietProc(q)
  BY QuietSame DEF sched
<1> QED BY <1>8, <1>9, <1>10, <1>11 DEF Quiet

(* A child's first return is quiet.                                          *)
LEMMA QuietForkret ==
  ASSUME Base, NEW c \in Cpu, NEW t \in Thread, t = Current(c), forkret(c, t)
  PROVE  Quiet
<1>1. Moved(t, "user", thr[t].ix, thr[t].wx, thr[t].trap)
  BY Words, MovedPc, Zenon DEF forkret
<1>2. thr[t].trap = "none" /\ thr[t].pc = "forkret"
  BY Running DEF SchedulerOK, SchedulerLabels, TrapOK, InTrap, forkret
<1>3. \A p \in Proc : QuietProc(p)
  BY QuietSame DEF forkret
<1> QED BY <1>1, <1>2, <1>3, QuietMove, Returning

(* Making a child RUNNABLE is quiet.                                         *)
LEMMA QuietForkRun ==
  ASSUME Base, NEW c \in Cpu, NEW t \in Thread, t = Current(c), thr[t].pc = "fork_run",
         NEW np, np = thr[t].ix, proc' = [proc EXCEPT ![np].state = "RUNNABLE"],
         thr' = [thr EXCEPT ![np] = [NoThread EXCEPT !.pc = "forkret"],
                            ![t].pc = IF t = initproc THEN "user_wait" ELSE "ret", ![t].ix = 0]
  PROVE  Quiet
<1> DEFINE l == IF t = initproc THEN "user_wait" ELSE "ret"
<1>1. /\ t \in Proc /\ thr[t].trap = "none" /\ proc[t].state = "RUNNING"
      /\ thr[t] \in ThreadType /\ Forking(t)
  BY Plain DEF RunLabels, OpenLabels, Forking
<1>2. np \in Proc /\ proc[np].state = "USED" /\ np # t /\ np \in Thread
  BY <1>1, Sets DEF Base, ForkInv
<1>3. thr[np].pc = "dead"
  BY <1>2 DEF Base, PlaceInv, StateOK
<1>4. l \in {"user_wait", "ret"} /\ l \in Labels
  BY DEF Labels
<1> HIDE DEF l
<1>5. /\ thr'[np] = [NoThread EXCEPT !.pc = "forkret"] /\ thr'[t] = [thr[t] EXCEPT !.pc = l, !.ix = 0]
      /\ \A u \in Thread \ {np, t} : thr'[u] = thr[u]
  BY <1>2, Zenon DEF l, Base, TypeInv
<1>6. thr'[t].pc = l /\ thr'[t].trap = "none"
  <2> DEFINE r == thr[t]
             q == thr'[t]
  <2>1. r \in ThreadType /\ q = [r EXCEPT !.pc = l, !.ix = 0] /\ r.trap = "none"
    BY <1>1, <1>5
  <2> HIDE DEF r, q
  <2>2. q.pc = l /\ q.trap = r.trap
    BY <2>1 DEF ThreadType
  <2> QED BY <2>1, <2>2 DEF r, q
<1>7. QuietThread(t)
  BY <1>4, <1>6 DEF QuietThread, Critical, Pos
<1>8. thr'[np].pc = "forkret" /\ thr'[np].trap = "none"
  BY <1>5, ChildThread, Zenon
<1>9. QuietThread(np)
  BY <1>3, <1>8, Zenon DEF QuietThread, Critical, Pos
<1>10. \A u \in Thread \ {np, t} : QuietThread(u)
  BY <1>5, Zenon DEF QuietThread
<1>11. \A p \in Proc : QuietProc(p)
  BY <1>2 DEF QuietProc, Base, TypeInv, ProcType
<1> QED BY Zenon, <1>7, <1>9, <1>10, <1>11 DEF Quiet

(* exit() entering reparent() is quiet.                                      *)
LEMMA QuietExit ==
  ASSUME Base, NEW c \in Cpu, NEW t \in Thread, t = Current(c), thr[t].pc = "exit", GotoAt(t, "reparent", 1), UNCHANGED proc
  PROVE  Quiet
<1>1. Moved(t, "reparent", 1, thr[t].wx, thr[t].trap)
  BY Sets, Words, MovedPcIx, Zenon
<1>2. thr[t].trap = "none"
  BY Plain DEF RunLabels, OpenLabels
<1>3. \A p \in Proc : QuietProc(p)
  BY QuietSame
<1> QED BY <1>1, <1>2, <1>3, QuietMove, Returning

(* wait() returning without a child freed is quiet.                          *)
LEMMA QuietWaitLeaves ==
  ASSUME Base, NEW c \in Cpu, NEW t \in Thread, t = Current(c), thr[t].pc = "wait_scan", GotoAt(t, "ret", 0), UNCHANGED proc
  PROVE  Quiet
<1>1. Moved(t, "ret", 0, thr[t].wx, thr[t].trap)
  BY Sets, Words, MovedPcIx, Zenon
<1>2. thr[t].trap = "none"
  BY Plain DEF RunLabels, WaitLabels
<1>3. \A p \in Proc : QuietProc(p)
  BY QuietSame
<1> QED BY <1>1, <1>2, <1>3, QuietMove, Returning

(* sleep() returning is quiet.                                               *)
LEMMA QuietWoken ==
  ASSUME Base, NEW c \in Cpu, NEW t \in Thread, t = Current(c), NEW l \in {"wait", "sleep_again"},
         thr[t].pc \in {"wait_woken", "sleep_woken"}, Woken(c, t, l)
  PROVE  Quiet
<1>1. Moved(t, l, thr[t].ix, thr[t].wx, thr[t].trap)
  BY Words, MovedPc, Zenon DEF Woken
<1>2. t \in Proc /\ thr[t].trap = "none" /\ proc[t].state = "RUNNING"
  BY Running DEF SchedulerOK, SchedulerLabels, TrapOK, InTrap
<1>3. \A p \in Proc : QuietProc(p)
  BY <1>2 DEF QuietProc, Woken, Base, TypeInv, ProcType
<1> QED BY <1>1, <1>2, <1>3, QuietMove, Returning

(* The steps of sys_sleep() on the ticks of its own process are quiet.       *)
LEMMA QuietSleep ==
  ASSUME Base, NEW c \in Cpu, NEW t \in Thread, t = Current(c), thr[t].pc \in {"sleep", "sleep_again", "sleep_loop"},
         NEW l \in {"sleep_loop", "ret"}, Goto(t, l),
         UNCHANGED proc \/ \E n \in Nat : proc' = [proc EXCEPT ![t].left = n]
  PROVE  Quiet
<1>1. Moved(t, l, thr[t].ix, thr[t].wx, thr[t].trap)
  BY Words, MovedPc, Zenon
<1>2. t \in Proc /\ thr[t].trap = "none" /\ proc[t].state = "RUNNING"
  BY Plain DEF RunLabels, OpenLabels
<1>3. \A p \in Proc : QuietProc(p)
  <2>1. thr'[t].pc # "sleep_go"
    BY <1>1 DEF Moved
  <2> QED BY <1>2, <2>1 DEF QuietProc, Base, TypeInv, ProcType
<1> QED BY ZenonT(40), <1>1, <1>2, <1>3, QuietMove, Returning

(* allocproc() is quiet: a slot it takes has no parent.                      *)
LEMMA QuietAlloc ==
  ASSUME Base, Wake, NEW c \in Cpu, NEW t \in Thread, t = Current(c), allocproc(t)
  PROVE  Quiet
<1> DEFINE np == thr[t].ix
           r == IF t = initproc THEN "user_wait" ELSE "ret"
<1>1. t \in Proc /\ thr[t].trap = "none" /\ proc[t].state = "RUNNING" /\ Pos(t) = "alloc" /\ thr[t].pc = "alloc"
  BY Plain DEF RunLabels, OpenLabels, allocproc
<1>2. np \in Proc /\ np \in Int /\ np + 1 \in Int
  <2>1. np \in Proc
    BY <1>1 DEF Base, ForkInv
  <2> HIDE DEF np
  <2>2. np \in Int
    BY ZenonT(40), <2>1, Sets
  <2> QED BY <2>1, <2>2
<1>3. PICK l \in {"user_wait", "ret", "alloc", "fork_parent"}, i \in Int :
        Moved(t, l, i, thr[t].wx, "none") /\ (l = "fork_parent" => i = np /\ proc[np].state = "UNUSED")
  <2>1. CASE GotoAt(t, "alloc", np + 1)
    <3>1. Moved(t, "alloc", np + 1, thr[t].wx, "none")
      BY <1>1, <1>2, <2>1, Words, MovedPcIx, Zenon
    <3> QED BY <1>2, <3>1
  <2>2. CASE ForkReturn(t)
    <3>1. r \in {"user_wait", "ret"} /\ r \in Labels /\ GotoAt(t, r, 0)
      BY <2>2 DEF ForkReturn, Labels
    <3> HIDE DEF r
    <3>2. Moved(t, r, 0, thr[t].wx, thr[t].trap)
      BY Zenon, <3>1, Sets, MovedPcIx
    <3> QED BY <1>1, <3>1, <3>2, Sets
  <2>3. CASE Goto(t, "fork_parent") /\ proc[np].state = "UNUSED"
    <3>1. Moved(t, "fork_parent", np, thr[t].wx, "none")
      BY <1>1, <2>3, Words, MovedPc, Zenon
    <3> QED BY <1>2, <2>3, <3>1
  <2> QED BY <2>1, <2>2, <2>3 DEF allocproc
<1>4. \A p \in Proc : QuietProc(p)
  <2>1. ASSUME proc[np].state = "UNUSED", proc' = freeproc(np), NEW p \in Proc PROVE QuietProc(p)
    <3>1. proc[np].parent = NULL
      BY <1>2, <2>1 DEF Wake, FamilyInv
    <3>2. proc'[np] = Unused /\ (p # np => proc'[p] = proc[p])
      BY <1>2, <2>1 DEF freeproc, Base, TypeInv
    <3>3. thr'[np].pc # "sleep_go"
      <4>1. np # t /\ np \in Thread
        BY ZenonT(40), <1>1, <1>2, <2>1, Sets
      <4>2. thr'[np] = thr[np]
        BY <1>3, <4>1 DEF Moved
      <4>3. thr[np].pc = "dead"
        BY <1>2, <2>1 DEF Base, PlaceInv, StateOK, OffLabels
      <4> QED BY <4>2, <4>3
    <3> QED BY <2>1, <3>1, <3>2, <3>3 DEF QuietProc, Unused
  <2>2. ASSUME proc[np].state = "UNUSED", proc' = [proc EXCEPT ![np].state = "USED"], NEW p \in Proc PROVE QuietProc(p)
    BY <1>2, <2>2 DEF QuietProc, Base, TypeInv, ProcType
  <2> QED BY ZenonT(40), <2>1, <2>2, QuietSame DEF allocproc
<1>5. l \notin Critical
  BY DEF Critical
<1> HIDE DEF np, r
<1> QED BY Zenon, <1>1, <1>2, <1>3, <1>4, <1>5, QuietMove DEF np
-----------------------------------------------------------------------------
(* The holder of wait_lock, and of tickslock, is one thread. *)
LEMMA OneWaits ==
  ASSUME Base, NEW u \in Proc, NEW v \in Proc, thr[u].pc \in WaitLabels, thr[v].pc \in WaitLabels
  PROVE  u = v
<1>1. PICK d \in Cpu : Current(d) = u /\ lock[wait_lock] = d
  BY WaitOwner
<1>2. PICK e \in Cpu : Current(e) = v /\ lock[wait_lock] = e
  BY WaitOwner
<1> QED BY <1>1, <1>2

(* Nobody is there while wait_lock is free.                                  *)
LEMMA NoneWaits ==
  ASSUME Base, lock[wait_lock] = NULL, NEW u \in Proc
  PROVE  thr[u].pc \notin WaitLabels
BY WaitOwner, Sets

(* Nobody is at a place of TickLabels while tickslock is free.               *)
LEMMA NoneTicks ==
  ASSUME Base, lock[tickslock] = NULL, NEW u \in Thread
  PROVE  thr[u].pc \notin TickLabels
BY TickOwner, Sets

(* At most one thread is at a place of TickLabels.                           *)
LEMMA OneTicks ==
  ASSUME Base, NEW u \in Thread, NEW v \in Thread, thr[u].pc \in TickLabels, thr[v].pc \in TickLabels
  PROVE  u = v
<1>1. PICK d \in Cpu : Current(d) = u /\ lock[tickslock] = d
  BY TickOwner
<1>2. PICK e \in Cpu : Current(e) = v /\ lock[tickslock] = e
  BY TickOwner
<1> QED BY <1>1, <1>2

(* What a step of t that only moves it leaves of the invariant. *)
LEMMA TickKept ==
  ASSUME Base, Wake, NEW t \in Thread, NEW l, NEW i, NEW w, NEW tr, Moved(t, l, i, w, tr),
         thr[t].pc # "clock_wake", t \in Proc /\ l = "sleep_go" => proc[t].left > 0,
         \A p \in Proc : /\ proc'[p].left = proc[p].left \/ (proc[p].state = "ZOMBIE" /\ p # t)
                         /\ Asleep(p, tickslock)' => Asleep(p, tickslock) \/ (proc[p].state # "ZOMBIE" /\ proc[p].left > 0)
  PROVE  TickInv'
<1>1. \A u \in Thread \ {t} : thr'[u] = thr[u]
  BY DEF Moved
<1>2. \A u \in Thread : thr[u].pc = "clock_wake" => thr'[u].pc = "clock_wake" /\ thr'[u].wx = thr[u].wx
  BY <1>1
<1>3. \A u \in Thread \ {t} : thr'[u].pc = "sleep_go" => thr[u].pc = "sleep_go"
  BY Zenon, <1>1
<1>4. \A p \in Proc : proc[p].state = "ZOMBIE" => thr[p].pc # "sleep_go" /\ ~Asleep(p, tickslock)
  BY DEF Base, PlaceInv, StateOK, OffLabels, Asleep
<1>5. \A p \in Proc : Asleep(p, tickslock)' =>
         proc'[p].left > 0 \/ \E u \in Thread : thr'[u].pc = "clock_wake" /\ thr'[u].wx <= p
  BY <1>2, <1>4 DEF Wake, TickInv
<1>6. \A p \in Proc : thr'[p].pc = "sleep_go" => proc'[p].left > 0
  BY <1>3, <1>4, Sets DEF Wake, TickInv, Moved
<1> QED BY Zenon, <1>5, <1>6 DEF TickInv

(* The clauses about parents of free slots after a step of one thread.       *)
LEMMA FamilyKept ==
  ASSUME Base, Wake, NEW t \in Thread, NEW l, NEW i, NEW w, NEW tr, Moved(t, l, i, w, tr),
         (IF tr = "none" THEN l ELSE tr) = "fork_parent" => Pos(t) = "fork_parent" /\ i = thr[t].ix,
         \A p \in Proc : /\ proc[p].parent = NULL => proc'[p].parent = NULL
                         /\ proc'[p].state = "UNUSED" => proc'[p].parent = NULL \/ proc[p].state = "UNUSED"
  PROVE  FamilyInv'
<1>1. \A u \in Thread \ {t} : thr'[u] = thr[u]
  BY DEF Moved
<1>2. Pos(t)' = IF tr = "none" THEN l ELSE tr
  BY DEF Pos, Moved
<1>3. \A u \in Thread : Pos(u)' = "fork_parent" => Pos(u) = "fork_parent" /\ thr'[u].ix = thr[u].ix
  BY Zenon, <1>1, <1>2 DEF Pos, Moved
<1>4. \A p \in Proc : Pos(p) = "fork_parent" => thr[p].ix \in Proc
  BY DEF Base, ForkInv, Forking
<1> QED BY <1>3, <1>4, Sets, Zenon DEF Wake, FamilyInv

(* What a step of thread t that makes no ZOMBIE does to parents and their    *)
(* children: it wakes sleepers and takes children away, it finds out what    *)
(* wait() knows at its new place l, and it stays behind no sleeping parent.  *)
WaitStep(t, l, i, w) ==
  /\ t \in Proc => ~Asleep(t, t)'
  /\ \A p \in Proc \ {t}, q \in Proc : proc'[q].parent = p <=> proc[q].parent = p
  /\ \A p \in Proc : proc'[p].state = "ZOMBIE" => proc[p].state = "ZOMBIE"
  /\ \A p \in Proc \ {t} : Asleep(p, p)' => Asleep(p, p)
  /\ thr[t].pc = "wake_init" /\ thr[t].wx = 1 => ~Asleep(initproc, initproc)'
  /\ l = "wait_scan" => \A q \in Proc : proc'[q].parent = t /\ q <= i => proc'[q].state # "ZOMBIE"
  /\ l = "wait_sleep" => /\ \A q \in Proc : proc'[q].parent = t => proc'[q].state # "ZOMBIE"
                         /\ \E q \in Proc : proc'[q].parent = t
  /\ \A p \in Proc \ {t} :
      t \in Proc /\ proc[t].parent = p /\ (l = "exit_zombie" \/ (l = "wake_parent" /\ w > p)) => ~Asleep(p, p)'

(* The clauses about wait() and exit() after such a step.                    *)
LEMMA WaitKept ==
  ASSUME Base, Wake, NEW t \in Thread, NEW l, NEW i, NEW w, NEW tr, Moved(t, l, i, w, tr), WaitStep(t, l, i, w)
  PROVE  WaitInv'
<1>1. (\A u \in Thread \ {t} : thr'[u] = thr[u]) /\ thr'[t].pc = l /\ thr'[t].ix = i /\ thr'[t].wx = w /\ Proc \subseteq Thread
  BY Zenon, Sets DEF Moved
<1>2. WakesInit => WakesInit' \/ ~Asleep(initproc, initproc)'
  BY Zenon, <1>1 DEF WakesInit, WaitStep
<1>3. \A p \in Proc : SleeperOK(p)'
  <2> SUFFICES ASSUME NEW p \in Proc, Asleep(p, p)'
               PROVE  /\ \E q \in Proc : proc'[q].parent = p
                      /\ \A q \in Proc : proc'[q].parent = p /\ proc'[q].state = "ZOMBIE" => p = initproc /\ WakesInit'
    BY DEF SleeperOK
  <2>1. p # t /\ Asleep(p, p)
    BY Zenon DEF WaitStep
  <2> QED BY <1>2, <2>1 DEF Wake, WaitInv, SleeperOK, WaitStep
<1>4. ASSUME NEW p \in Proc, NEW q \in Proc, thr'[p].pc = "wait_scan", proc'[q].parent = p, q <= thr'[p].ix
      PROVE  proc'[q].state # "ZOMBIE"
  BY <1>1, <1>4 DEF Wake, WaitInv, WaitStep
<1>5. ASSUME NEW p \in Proc, thr'[p].pc = "wait_sleep"
      PROVE  /\ \A q \in Proc : proc'[q].parent = p => proc'[q].state # "ZOMBIE"
             /\ \E q \in Proc : proc'[q].parent = p
  BY <1>1, <1>5 DEF Wake, WaitInv, WaitStep
<1>6. ASSUME NEW p \in Proc, NEW q \in Proc, proc'[q].parent = p, PastParent(q, p)'
      PROVE  ~Asleep(p, p)'
  <2>1. CASE p = t
    BY <2>1 DEF WaitStep
  <2>2. CASE p # t /\ q = t
    BY ZenonT(40), <1>1, <1>6, <2>2 DEF PastParent, WaitStep
  <2>3. CASE p # t /\ q # t
    <3>1. PastParent(q, p) /\ proc[q].parent = p
      BY ZenonT(40), <1>1, <1>6, <2>3 DEF PastParent, WaitStep
    <3> QED BY <2>3, <3>1 DEF Wake, WaitInv, WaitStep
  <2> QED BY ZenonT(40), <2>1, <2>2, <2>3
<1> QED BY ZenonT(40), <1>3, <1>4, <1>5, <1>6 DEF WaitInv

(* A step of wakeup() at slot q wakes the sleeper there and goes on to q + 1. *)
LEMMA WakeupPasses ==
  ASSUME Base, Wake, NEW c \in Cpu, NEW t \in Thread, t = Current(c), Wants(t) \notin Held, thr[t].pc \in WakeLabels,
         NEW l \in Labels, wakeup(t, l), NEW ch, ch = WakeChan(t)
  PROVE  /\ \A p \in Proc : p > thr[t].wx => thr'[t].pc = thr[t].pc /\ thr'[t].wx = thr[t].wx + 1
         /\ \A p \in Proc : p = thr[t].wx => ~Asleep(p, ch)'
         /\ \A p \in Proc : \A k : Asleep(p, k)' => Asleep(p, k)
         /\ \A p \in Proc : /\ proc'[p].parent = proc[p].parent /\ proc'[p].left = proc[p].left
                            /\ proc'[p].state \in {"ZOMBIE", "UNUSED"} => proc[p].state = proc'[p].state
<1> DEFINE q == thr[t].wx
<1>1. q \in Proc /\ q \in Int /\ thr[t] \in ThreadType
  BY Sets, ZenonT(40) DEF Base, ForkInv, TypeInv
<1>2. \A p \in Proc : Untouched(p) \/ WokenUp(p)
  BY WakeupTable
<1>3. \A p \in Proc : proc'[p].parent = proc[p].parent /\ proc'[p].left = proc[p].left
  BY WakeupTable
<1>4. ASSUME NEW p \in Proc, p > q PROVE thr'[t].pc = thr[t].pc /\ thr'[t].wx = q + 1
  <2>1. q < NPROC
    BY <1>1, <1>4, SizesAssumption DEF Proc
  <2>2. thr' = [thr EXCEPT ![t].wx = q + 1]
    BY <2>1 DEF wakeup
  <2> QED BY <1>1, <2>2 DEF Base, TypeInv, ThreadType
<1>5. ASSUME NEW p \in Proc, p = q PROVE ~Asleep(p, ch)'
  <2>1. CASE p = t
    <3>1. thr[t].pc # "sched"
      BY DEF WakeLabels
    <3>2. proc[p].state = "RUNNING"
      BY ZenonT(40), <2>1, <3>1, Running
    <3> QED BY <1>2, <3>2 DEF Asleep, Untouched, WokenUp
  <2>2. CASE p # t
    <3>1. proc'[p] = WakeSlot(proc[p], ch) /\ proc[p] \in ProcType
      BY <1>5, <2>2 DEF wakeup, Base, TypeInv
    <3>2. \A r \in ProcType : ~(WakeSlot(r, ch).state = "SLEEPING" /\ WakeSlot(r, ch).chan = ch)
      BY DEF WakeSlot, ProcType
    <3> QED BY <3>1, <3>2 DEF Asleep
  <2> QED BY <2>1, <2>2
<1>6. \A p \in Proc : \A k : Asleep(p, k)' => Asleep(p, k)
  BY <1>2 DEF Asleep, Untouched, WokenUp
<1>7. \A p \in Proc : proc'[p].state \in {"ZOMBIE", "UNUSED"} => proc[p].state = proc'[p].state
  BY <1>2 DEF Untouched, WokenUp
<1> QED BY Zenon, <1>3, <1>4, <1>5, <1>6, <1>7

(* A thread that runs is awake.                                              *)
LEMMA AwakeSelf ==
  ASSUME Base, NEW c \in Cpu, NEW t \in Thread, t = Current(c), t \in Proc, thr[t].pc # "sched"
  PROVE  \A k : ~Asleep(t, k)
BY Running DEF Asleep

(* clockintr() *)
LEMMA ClockWake ==
  ASSUME Base, Wake, NEW c \in Cpu, NEW t \in Thread, t = Current(c), Wants(t) \notin Held, clockintr(c, t)
  PROVE  Wake'
<1>1. thr[t].trap # "none" /\ thr[t].pc # "sched"
  BY InTrapHas DEF clockintr, InTrap
<1>2. CASE /\ thr[t].pc = "clock" /\ acquire(c, tickslock)
           /\ proc' = [p \in Proc |-> [proc[p] EXCEPT !.left = IF @ > 0 THEN @ - 1 ELSE 0]]
           /\ thr' = [thr EXCEPT ![t].pc = "clock_wake", ![t].wx = 1]
  <2>1. Moved(t, "clock_wake", thr[t].ix, 1, thr[t].trap)
    BY <1>2, Sets, Words, MovedPcWx, ZenonT(40)
  <2>2. lock[tickslock] = NULL
    BY ZenonT(40), <1>2, LockFree, Sets DEF Wants
  <2>3. \A p \in Proc : /\ proc'[p].parent = proc[p].parent /\ proc'[p].state = proc[p].state
                        /\ proc'[p].chan = proc[p].chan
    BY <1>2 DEF Base, TypeInv, ProcType
  <2>4. \A p \in Proc : \A k : Asleep(p, k)' => Asleep(p, k)
    BY <2>3 DEF Asleep
  <2>5. FamilyInv'
    BY ZenonT(40), <1>1, <2>1, <2>3, FamilyKept DEF Pos, Wake, FamilyInv
  <2>6. WaitInv'
    <3>1. t \in Proc => ~Asleep(t, t)'
      BY <1>1, <2>4, AwakeSelf
    <3>2. thr[t].pc = "clock"
      BY <1>2
    <3>3. WaitStep(t, "clock_wake", thr[t].ix, 1)
      BY Zenon, <2>3, <2>4, <3>1, <3>2 DEF WaitStep
    <3> QED BY Zenon, <2>1, <3>3, WaitKept
  <2>7. TickInv'
    <3>1. \A p \in Proc : 1 <= p
      BY SizesAssumption DEF Proc
    <3>2. thr'[t].pc = "clock_wake" /\ thr'[t].wx = 1 /\ \A u \in Thread \ {t} : thr'[u] = thr[u]
      BY <2>1 DEF Moved
    <3>3. \A p \in Proc : thr'[p].pc # "sleep_go"
      BY Zenon, <2>2, <3>2, NoneTicks, Sets DEF TickLabels
    <3> QED BY Zenon, <3>1, <3>2, <3>3 DEF TickInv
  <2> QED BY <2>5, <2>6, <2>7 DEF Wake
<1>3. CASE thr[t].pc = "clock_wake" /\ wakeup(t, "clock_end")
  <2>1. PICK l \in {"clock_wake", "clock_end"}, w \in Int : Moved(t, l, thr[t].ix, w, thr[t].trap)
    <3>1. thr[t].wx + 1 \in Int /\ "clock_wake" \in WakeLabels
      <4>1. thr[t].wx \in Int
        BY Zenon DEF Base, TypeInv, ThreadType
      <4> QED BY <4>1 DEF WakeLabels
    <3> QED BY <1>3, <3>1, Sets, Words, WakeupMoves, Zenon
  <2>2. /\ \A p \in Proc : p > thr[t].wx => thr'[t].pc = thr[t].pc /\ thr'[t].wx = thr[t].wx + 1
        /\ \A p \in Proc : p = thr[t].wx => ~Asleep(p, tickslock)'
        /\ \A p \in Proc : \A k : Asleep(p, k)' => Asleep(p, k)
        /\ \A p \in Proc : /\ proc'[p].parent = proc[p].parent /\ proc'[p].left = proc[p].left
                           /\ proc'[p].state \in {"ZOMBIE", "UNUSED"} => proc[p].state = proc'[p].state
    <3>1. WakeChan(t) = tickslock /\ thr[t].pc \in WakeLabels /\ "clock_end" \in Labels
      BY Zenon, <1>3, Words DEF WakeChan, WakeLabels
    <3> QED BY <1>3, <3>1, WakeupPasses
  <2>3. FamilyInv'
    BY ZenonT(40), <1>1, <2>1, <2>2, FamilyKept DEF Pos, Wake, FamilyInv
  <2>4. WaitInv'
    <3>1. t \in Proc => ~Asleep(t, t)'
      BY ZenonT(40), <1>1, <2>2, AwakeSelf
    <3>2. WaitStep(t, l, thr[t].ix, w)
      BY Zenon, <1>3, <2>1, <2>2, <3>1 DEF WaitStep
    <3> QED BY Zenon, <2>1, <3>2, WaitKept
  <2>5. TickInv'
    <3>1. \A u \in Thread \ {t} : thr'[u] = thr[u]
      BY <2>1 DEF Moved
    <3>2. \A u \in Thread : thr[u].pc \in {"clock_wake", "sleep_go"} => u = t
      BY <1>3, OneTicks DEF TickLabels
    <3>3. \A p \in Proc : thr'[p].pc # "sleep_go"
      BY Zenon, <2>1, <3>1, <3>2, Sets DEF Moved
    <3>4. ASSUME NEW p \in Proc, Asleep(p, tickslock)', ~(proc'[p].left > 0)
          PROVE  \E u \in Thread : thr'[u].pc = "clock_wake" /\ thr'[u].wx <= p
      <4>1. Asleep(p, tickslock) /\ ~(proc[p].left > 0) /\ p # thr[t].wx
        BY Zenon, <2>2, <3>4
      <4>2. thr[t].wx <= p
        BY Zenon, <3>2, <4>1 DEF Wake, TickInv
      <4>3. thr[t].wx \in Int /\ p \in Int
        BY Sets DEF Base, TypeInv, ThreadType
      <4>4. p > thr[t].wx /\ thr[t].wx + 1 <= p
        BY <4>1, <4>2, <4>3
      <4> QED BY Zenon, <1>3, <2>2, <4>4
    <3> QED BY <3>3, <3>4 DEF TickInv
  <2> QED BY <2>3, <2>4, <2>5 DEF Wake
<1>4. CASE thr[t].pc = "clock_end" /\ Goto(t, "preempt") /\ UNCHANGED proc
  BY Zenon, <1>4, QuietTrap, QuietKeeps
<1> QED BY <1>2, <1>3, <1>4 DEF clockintr

(* exit() and reparent() *)
LEMMA ExitWakes ==
  ASSUME Base, Wake, NEW c \in Cpu, NEW t \in Thread, t = Current(c), Wants(t) \notin Held,
         \/ thr[t].pc = "wake_parent" /\ wakeup(t, "exit_zombie")
         \/ thr[t].pc = "wake_init" /\ wakeup(t, "reparent")
  PROVE  Wake'
<1>1. /\ t \in Proc /\ thr[t].trap = "none" /\ Pos(t) = thr[t].pc /\ thr[t].pc \in WakeLabels /\ thr[t].pc # "sched"
  BY ZenonT(40), Plain DEF RunLabels, WaitLabels, WakeLabels
<1>2. PICK l \in {"wake_parent", "wake_init", "reparent", "exit_zombie"}, w \in Int :
        /\ Moved(t, l, thr[t].ix, w, "none") /\ w \in {0, thr[t].wx + 1}
        /\ l \in {"wake_parent", "exit_zombie"} => thr[t].pc = "wake_parent"
        /\ l = "wake_parent" => w = thr[t].wx + 1
  <2>1. thr[t].wx + 1 \in Int
    <3>1. thr[t].wx \in Int
      BY DEF Base, TypeInv, ThreadType
    <3> QED BY <3>1
  <2>2. "exit_zombie" \in Labels /\ "reparent" \in Labels
    BY Zenon, Words
  <2>3. CASE thr[t].pc = "wake_parent" /\ wakeup(t, "exit_zombie")
    <3>1. \/ Moved(t, "wake_parent", thr[t].ix, thr[t].wx + 1, "none")
          \/ Moved(t, "exit_zombie", thr[t].ix, 0, "none")
      BY ZenonT(40), <1>1, <2>2, <2>3, WakeupMoves
    <3> QED BY <2>1, <2>3, <3>1
  <2>4. CASE thr[t].pc = "wake_init" /\ wakeup(t, "reparent")
    <3>1. \/ Moved(t, "wake_init", thr[t].ix, thr[t].wx + 1, "none")
          \/ Moved(t, "reparent", thr[t].ix, 0, "none")
      BY Zenon, <1>1, <2>2, <2>4, WakeupMoves
    <3> QED BY <2>1, <2>4, <3>1
  <2> QED BY <2>3, <2>4
<1>3. PICK ch : ch = WakeChan(t)
  BY Zenon
<1>4. /\ \A p \in Proc : p > thr[t].wx => thr'[t].pc = thr[t].pc /\ thr'[t].wx = thr[t].wx + 1
      /\ \A p \in Proc : p = thr[t].wx => ~Asleep(p, ch)'
      /\ \A p \in Proc : \A k : Asleep(p, k)' => Asleep(p, k)
      /\ \A p \in Proc : /\ proc'[p].parent = proc[p].parent /\ proc'[p].left = proc[p].left
                         /\ proc'[p].state \in {"ZOMBIE", "UNUSED"} => proc[p].state = proc'[p].state
  <2>1. "exit_zombie" \in Labels /\ "reparent" \in Labels
    BY Zenon, Words
  <2> QED BY <1>1, <1>3, <2>1, WakeupPasses
<1>5. FamilyInv'
  BY ZenonT(40), <1>2, <1>4, FamilyKept DEF Wake, FamilyInv
<1>6. TickInv'
  BY Zenon, <1>1, <1>2, <1>4, TickKept
<1>7. ~Asleep(t, t)'
  BY <1>1, <1>4, AwakeSelf
<1>8. thr[t].pc = "wake_init" /\ thr[t].wx = 1 => ~Asleep(initproc, initproc)'
  BY Zenon, <1>3, <1>4, Sets DEF WakeChan, initproc
<1>9. ASSUME NEW p \in Proc \ {t}, proc[t].parent = p, l = "exit_zombie" \/ (l = "wake_parent" /\ w > p)
      PROVE  ~Asleep(p, p)'
  <2>1. thr[t].pc = "wake_parent" /\ ch = p
    BY ZenonT(40), <1>2, <1>3, <1>9 DEF WakeChan
  <2>2. p \in Int /\ thr[t].wx \in Int
    BY Sets DEF Base, TypeInv, ThreadType
  <2>3. CASE p > thr[t].wx
    <3>1. thr'[t].pc = "wake_parent" /\ l # "exit_zombie"
      BY Zenon, <1>2, <1>4, <2>1, <2>3 DEF Moved
    <3>2. w = thr[t].wx + 1 /\ w > p
      BY Zenon, <1>2, <1>9, <3>1
    <3> QED BY <2>2, <2>3, <3>2
  <2>4. CASE p = thr[t].wx
    BY ZenonT(40), <1>4, <2>1, <2>4
  <2>5. CASE thr[t].wx > p
    <3>1. PastParent(t, p)
      BY Zenon, <2>1, <2>5 DEF PastParent
    <3>2. ~Asleep(p, p)
      BY ZenonT(40), <1>1, <1>9, <3>1 DEF Wake, WaitInv
    <3> QED BY <1>4, <3>2
  <2> QED BY <2>2, <2>3, <2>4, <2>5
<1>10. WaitInv'
  <2>0. l # "wait_scan" /\ l # "wait_sleep"
    BY <1>2
  <2>1. \A p \in Proc : /\ Asleep(p, p)' => Asleep(p, p)
                        /\ proc'[p].parent = proc[p].parent
                        /\ proc'[p].state = "ZOMBIE" => proc[p].state = "ZOMBIE"
    BY Zenon, <1>4
  <2>2. \A p \in Proc \ {t} :
      t \in Proc /\ proc[t].parent = p /\ (l = "exit_zombie" \/ (l = "wake_parent" /\ w > p)) => ~Asleep(p, p)'
    BY Zenon, <1>9
  <2>3. WaitStep(t, l, thr[t].ix, w)
    BY Zenon, <1>7, <1>8, <2>0, <2>1, <2>2 DEF WaitStep
  <2> QED BY Zenon, <1>2, <2>3, WaitKept
<1> QED BY Zenon, <1>5, <1>6, <1>10 DEF Wake

(* exit() becomes ZOMBIE while its parent is awake: it has been woken up     *)
(* under wait_lock, which sleep() needs to put it to sleep again.            *)
LEMMA ZombieWake ==
  ASSUME Base, Wake, NEW c \in Cpu, NEW t \in Thread, t = Current(c),
         thr[t].pc = "exit_zombie", proc' = [proc EXCEPT ![t].state = "ZOMBIE"], Goto(t, "sched")
  PROVE  Wake'
<1>1. t \in Proc /\ thr[t].trap = "none" /\ Pos(t) = thr[t].pc
  BY Plain DEF RunLabels, WaitLabels
<1>2. Moved(t, "sched", thr[t].ix, thr[t].wx, thr[t].trap)
  BY Words, MovedPc, Zenon
<1>3. /\ \A p \in Proc \ {t} : proc'[p] = proc[p]
      /\ proc'[t].state = "ZOMBIE" /\ proc'[t].parent = proc[t].parent /\ proc'[t].left = proc[t].left
  BY <1>1 DEF Base, TypeInv, ProcType
<1>4. \A p \in Proc : \A k : Asleep(p, k)' => p # t /\ Asleep(p, k)
  BY <1>3 DEF Asleep
<1>5. FamilyInv'
  BY <1>1, <1>2, <1>3, FamilyKept DEF Wake, FamilyInv
<1>6. TickInv'
  BY ZenonT(40), <1>2, <1>3, <1>4, TickKept
<1>7. \A p \in Proc : proc[t].parent = p => ~Asleep(p, p)
  BY <1>1 DEF Wake, WaitInv, PastParent
<1>8. \A u \in Proc \ {t} : thr'[u] = thr[u] /\ thr'[u].pc \notin WaitLabels
  BY <1>1, <1>2, OneWaits, Sets DEF Moved, WaitLabels
<1>9. thr'[t].pc = "sched"
  BY <1>2 DEF Moved
<1>10. \A p \in Proc : SleeperOK(p)'
  <2> SUFFICES ASSUME NEW p \in Proc, Asleep(p, p)'
               PROVE  /\ \E q \in Proc : proc'[q].parent = p
                      /\ \A q \in Proc : proc'[q].parent = p => proc'[q].state # "ZOMBIE"
    BY DEF SleeperOK
  <2>1. Asleep(p, p) /\ proc[t].parent # p
    BY <1>4, <1>7
  <2>2. ~WakesInit
    BY <1>1, OneWaits DEF WakesInit, WaitLabels
  <2> QED BY <1>3, <2>1, <2>2 DEF Wake, WaitInv, SleeperOK
<1>11. WaitInv'
  BY <1>8, <1>9, <1>10 DEF WaitInv, PastParent, WaitLabels
<1> QED BY <1>5, <1>6, <1>11 DEF Wake

(* A pass of reparent(): a child is given to initproc, which is woken up     *)
(* next.                                                                     *)
LEMMA ReparentWake ==
  ASSUME Base, Wake, NEW c \in Cpu, NEW t \in Thread, t = Current(c), thr[t].pc = "reparent",
         \/ /\ Children(t) # {}
            /\ proc' = [proc EXCEPT ![Least(Children(t))].parent = initproc]
            /\ thr' = [thr EXCEPT ![t].pc = "wake_init", ![t].wx = 1]
         \/ /\ Children(t) = {} /\ UNCHANGED proc
            /\ thr' = [thr EXCEPT ![t].pc = "wake_parent", ![t].wx = 1]
  PROVE  Wake'
<1>1. t \in Proc /\ thr[t].trap = "none" /\ Pos(t) = thr[t].pc /\ t # NULL /\ t # initproc /\ initproc \in Proc
  <2>1. t \in Proc /\ thr[t].trap = "none" /\ Pos(t) = thr[t].pc
    BY Plain DEF RunLabels, WaitLabels
  <2> QED BY <2>1, Sets DEF Base, InitOK, ExitPc
<1>2. \A k : ~Asleep(t, k)
  BY <1>1, AwakeSelf
<1>3. CASE /\ Children(t) = {} /\ UNCHANGED proc
           /\ thr' = [thr EXCEPT ![t].pc = "wake_parent", ![t].wx = 1]
  <2>1. Moved(t, "wake_parent", thr[t].ix, 1, thr[t].trap)
    BY <1>3, Sets, Words, MovedPcWx, Zenon
  <2>2. proc' = proc /\ \A p, k : Asleep(p, k)' => Asleep(p, k)
    BY <1>3 DEF Asleep
  <2>3. FamilyInv'
    BY <1>1, <2>1, <2>2, FamilyKept
  <2>4. TickInv'
    BY <2>1, <2>2, TickKept
  <2>5. \A p \in Proc : ~(1 > p)
    BY SizesAssumption DEF Proc
  <2>6. WaitInv'
    <3>1. WaitStep(t, "wake_parent", thr[t].ix, 1)
      BY Zenon, <1>2, <2>2, <2>5 DEF WaitStep
    <3> QED BY Zenon, <2>1, <3>1, WaitKept
  <2> QED BY <2>3, <2>4, <2>6 DEF Wake
<1>4. ASSUME NEW r \in Proc, proc[r].parent = t, proc' = [proc EXCEPT ![r].parent = initproc],
             thr' = [thr EXCEPT ![t].pc = "wake_init", ![t].wx = 1]
      PROVE  Wake'
  <2>1. Moved(t, "wake_init", thr[t].ix, 1, thr[t].trap)
    BY <1>4, Sets, Words, MovedPcWx, Zenon
  <2>2. /\ \A p \in Proc : proc'[p].state = proc[p].state /\ proc'[p].chan = proc[p].chan /\ proc'[p].left = proc[p].left
        /\ \A p \in Proc \ {r} : proc'[p].parent = proc[p].parent
        /\ proc'[r].parent = initproc
    BY <1>4 DEF Base, TypeInv, ProcType
  <2>3. \A p \in Proc : \A k : Asleep(p, k)' => Asleep(p, k)
    BY <2>2 DEF Asleep
  <2>4. FamilyInv'
    BY <1>1, <1>4, <2>1, <2>2, FamilyKept, ZenonT(40) DEF Wake, FamilyInv
  <2>5. TickInv'
    BY Zenon, <2>1, <2>2, <2>3, TickKept
  <2>6. \A u \in Proc \ {t} : thr'[u] = thr[u] /\ thr'[u].pc \notin WaitLabels
    BY <1>1, <2>1, OneWaits, Sets DEF Moved, WaitLabels
  <2>7. thr'[t].pc = "wake_init" /\ thr'[t].wx = 1 /\ WakesInit'
    BY <1>1, <2>1 DEF Moved, WakesInit
  <2>8. \A p \in Proc : SleeperOK(p)'
    <3> SUFFICES ASSUME NEW p \in Proc, Asleep(p, p)'
                 PROVE  /\ \E q \in Proc : proc'[q].parent = p
                        /\ \A q \in Proc : proc'[q].parent = p /\ proc'[q].state = "ZOMBIE" => p = initproc /\ WakesInit'
      BY DEF SleeperOK
    <3>1. p # t /\ Asleep(p, p)
      BY <1>2, <2>3
    <3>2. CASE p = initproc
      BY <2>2, <2>7, <3>2
    <3>3. CASE p # initproc
      BY <1>4, <2>2, <3>1, <3>3 DEF Wake, WaitInv, SleeperOK
    <3> QED BY <3>2, <3>3
  <2>9. WaitInv'
    BY <2>6, <2>7, <2>8 DEF WaitInv, PastParent, WaitLabels
  <2> QED BY <2>4, <2>5, <2>9 DEF Wake
<1>5. Children(t) # {} => Least(Children(t)) \in Proc /\ proc[Least(Children(t))].parent = t
  BY LeastOf DEF Children
<1> QED BY <1>3, <1>4, <1>5

(* wait() *)
LEMMA WaitEntersWake ==
  ASSUME Base, Wake, NEW c \in Cpu, NEW t \in Thread, t = Current(c),
         thr[t].pc = "wait", GotoAt(t, "wait_scan", 0), UNCHANGED proc
  PROVE  Wake'
<1>1. Moved(t, "wait_scan", 0, thr[t].wx, thr[t].trap)
  BY Sets, Words, MovedPcIx, Zenon
<1>2. t \in Proc /\ thr[t].trap = "none"
  BY Plain DEF RunLabels, OpenLabels
<1>3. proc' = proc /\ \A p, k : Asleep(p, k)' => Asleep(p, k)
  BY DEF Asleep
<1>4. FamilyInv'
  BY Zenon, <1>1, <1>2, <1>3, FamilyKept
<1>5. TickInv'
  BY <1>1, <1>3, TickKept
<1>6. ~Asleep(t, t)
  BY <1>2, AwakeSelf
<1>7. \A p \in Proc : ~(p <= 0)
  BY SizesAssumption DEF Proc
<1>8. WaitInv'
  <2>1. WaitStep(t, "wait_scan", 0, thr[t].wx)
    BY Zenon, <1>3, <1>6, <1>7 DEF WaitStep
  <2> QED BY Zenon, <1>1, <2>1, WaitKept
<1> QED BY <1>4, <1>5, <1>8 DEF Wake

(* A step of wait()'s scan.                                                  *)
LEMMA ScanWake ==
  ASSUME Base, Wake, NEW c \in Cpu, NEW t \in Thread, t = Current(c), WaitScan(c, t)
  PROVE  Wake'
<1>1. t \in Proc /\ thr[t].trap = "none" /\ thr[t].pc = "wait_scan" /\ proc[t].state = "RUNNING"
  BY Plain DEF RunLabels, WaitLabels, WaitScan
<1>2. PICK np : np = Least(Unscanned(t))
  OBVIOUS
<1>3. np \in Proc /\ np \in Int /\ proc[np].parent = t /\ np > thr[t].ix /\ \A q \in Proc : proc[q].parent = t /\ q > thr[t].ix => np <= q
  BY <1>2, LeastOf, Sets, Zenon DEF WaitScan, Unscanned, Children
<1>4. thr[t].ix \in Int /\ Proc \subseteq Int
  BY Sets DEF Base, TypeInv, ThreadType
<1>5. ~Asleep(t, t)
  BY <1>1, AwakeSelf
<1>6. CASE proc[np].state # "ZOMBIE" /\ GotoAt(t, "wait_scan", np) /\ UNCHANGED proc
  <2>1. Moved(t, "wait_scan", np, thr[t].wx, thr[t].trap)
    BY <1>3, <1>6, Words, MovedPcIx, Zenon
  <2>2. proc' = proc /\ \A p, k : Asleep(p, k)' => Asleep(p, k)
    BY Zenon, <1>6 DEF Asleep
  <2>3. FamilyInv'
    BY Zenon, <1>1, <2>1, <2>2, FamilyKept
  <2>4. TickInv'
    BY ZenonT(40), <1>1, <2>1, <2>2, TickKept
  <2>5. ASSUME NEW q \in Proc, proc[q].parent = t, q <= np PROVE proc[q].state # "ZOMBIE"
    <3>1. q = np \/ q <= thr[t].ix
      BY <1>3, <1>4, <2>5
    <3> QED BY Zenon, <1>1, <1>6, <2>5, <3>1 DEF Wake, WaitInv
  <2>6. WaitInv'
    <3>1. WaitStep(t, "wait_scan", np, thr[t].wx)
      BY Zenon, <1>1, <1>5, <2>2, <2>5 DEF WaitStep
    <3> QED BY Zenon, <2>1, <3>1, WaitKept
  <2> QED BY <2>3, <2>4, <2>6 DEF Wake
<1>7. CASE proc[np].state = "ZOMBIE" /\ GotoAt(t, "ret", 0) /\ proc' = freeproc(np)
  <2>1. Moved(t, "ret", 0, thr[t].wx, thr[t].trap)
    BY <1>7, Sets, Words, MovedPcIx, Zenon
  <2>2. proc'[np] = Unused /\ np # t /\ \A p \in Proc \ {np} : proc'[p] = proc[p]
    BY Zenon, <1>1, <1>3, <1>7 DEF freeproc, Base, TypeInv
  <2>3. proc'[np].state = "UNUSED" /\ proc'[np].parent = NULL
    BY <2>2 DEF Unused
  <2>4. \A p \in Proc : \A k : Asleep(p, k)' => Asleep(p, k)
    BY Zenon, <2>2, <2>3 DEF Asleep
  <2>5. FamilyInv'
    BY Zenon, <1>1, <2>1, <2>2, <2>3, FamilyKept
  <2>6. TickInv'
    BY Zenon, <1>1, <1>7, <2>1, <2>2, <2>4, TickKept
  <2>7. \A p \in Proc \ {t}, q \in Proc : proc'[q].parent = p <=> proc[q].parent = p
    BY Zenon, <1>3, <2>2, <2>3, Sets
  <2>8. \A p \in Proc : proc'[p].state = "ZOMBIE" => proc[p].state = "ZOMBIE"
    BY Zenon, <2>2, <2>3
  <2>9. WaitInv'
    <3>1. WaitStep(t, "ret", 0, thr[t].wx)
      BY Zenon, <1>1, <1>5, <2>4, <2>7, <2>8 DEF WaitStep
    <3> QED BY Zenon, <2>1, <3>1, WaitKept
  <2> QED BY <2>5, <2>6, <2>9 DEF Wake
<1>8. CASE GotoAt(t, "ret", 0) /\ UNCHANGED proc
  BY Zenon, <1>1, <1>8, QuietWaitLeaves, QuietKeeps
<1> QED BY Zenon, <1>2, <1>6, <1>7, <1>8 DEF WaitScan

(* wait() ends its scan: it sleeps only if there is a child and none was     *)
(* ZOMBIE.                                                                   *)
LEMMA ScanEndWake ==
  ASSUME Base, Wake, NEW c \in Cpu, NEW t \in Thread, t = Current(c), WaitEnd(c, t)
  PROVE  Wake'
<1>1. t \in Proc /\ thr[t].trap = "none" /\ thr[t].pc = "wait_scan"
  BY Plain DEF RunLabels, WaitLabels, WaitEnd
<1>2. CASE GotoAt(t, "ret", 0)
  BY Zenon, <1>1, <1>2, QuietWaitLeaves, QuietKeeps DEF WaitEnd
<1>3. CASE Children(t) # {} /\ GotoAt(t, "wait_sleep", 0)
  <2>1. Moved(t, "wait_sleep", 0, thr[t].wx, thr[t].trap)
    BY <1>3, Sets, Words, MovedPcIx, Zenon
  <2>2. proc' = proc /\ \A p, k : Asleep(p, k)' => Asleep(p, k)
    BY DEF Asleep, WaitEnd
  <2>3. FamilyInv'
    BY Zenon, <1>1, <2>1, <2>2, FamilyKept
  <2>4. TickInv'
    BY Zenon, <1>1, <2>1, <2>2, TickKept
  <2>5. ~Asleep(t, t)
    BY <1>1, AwakeSelf
  <2>6. \E q \in Proc : proc[q].parent = t
    BY <1>3 DEF Children
  <2>7. ASSUME NEW q \in Proc, proc[q].parent = t PROVE proc[q].state # "ZOMBIE"
    <3>1. ~(q > thr[t].ix)
      BY <2>7 DEF WaitEnd, Unscanned, Children
    <3>2. q \in Int /\ thr[t].ix \in Int
      BY Sets DEF Base, TypeInv, ThreadType
    <3>3. q <= thr[t].ix
      BY <3>1, <3>2
    <3> QED BY Zenon, <1>1, <2>7, <3>3 DEF Wake, WaitInv
  <2>8. WaitInv'
    <3>1. WaitStep(t, "wait_sleep", 0, thr[t].wx)
      BY Zenon, <1>1, <2>2, <2>5, <2>6, <2>7 DEF WaitStep
    <3> QED BY Zenon, <2>1, <3>1, WaitKept
  <2> QED BY <2>3, <2>4, <2>8 DEF Wake
<1> QED BY Zenon, <1>2, <1>3 DEF WaitEnd

(* sleep(), from wait() and from sys_sleep() *)
LEMMA SleepTable ==
  ASSUME Base, NEW c \in Cpu, NEW t \in Proc, NEW ch \in Lock, NEW lk, sleep(c, t, ch, lk)
  PROVE  /\ \A p \in Proc \ {t} : proc'[p] = proc[p]
         /\ proc'[t].state = "SLEEPING" /\ proc'[t].chan = ch
         /\ proc'[t].parent = proc[t].parent /\ proc'[t].left = proc[t].left
         /\ Moved(t, "sched", thr[t].ix, thr[t].wx, thr[t].trap)
<1>1. proc' = [proc EXCEPT ![t] = [@ EXCEPT !.chan = ch, !.state = "SLEEPING"]] /\ proc[t] \in ProcType
  BY Zenon DEF sleep, Base, TypeInv
<1>2. \A p \in Proc \ {t} : proc'[p] = proc[p]
  BY <1>1 DEF Base, TypeInv
<1>3. /\ proc'[t].state = "SLEEPING" /\ proc'[t].chan = ch
      /\ proc'[t].parent = proc[t].parent /\ proc'[t].left = proc[t].left
  BY <1>1 DEF Base, TypeInv, ProcType
<1>4. t \in Thread
  BY Sets
<1>5. Moved(t, "sched", thr[t].ix, thr[t].wx, thr[t].trap)
  BY <1>4, Words, MovedPc, Zenon DEF sleep
<1> QED BY <1>2, <1>3, <1>5

(* wait() falls asleep under wait_lock, so no child has become ZOMBIE since  *)
(* the scan.                                                                 *)
LEMMA WaitSleepWake ==
  ASSUME Base, Wake, NEW c \in Cpu, NEW t \in Thread, t = Current(c),
         thr[t].pc = "wait_sleep", sleep(c, t, t, wait_lock)
  PROVE  Wake'
<1>1. t \in Proc /\ thr[t].trap = "none" /\ t \in Lock /\ t # tickslock
  BY Zenon, Plain, Sets DEF RunLabels, WaitLabels
<1>2. /\ \A p \in Proc \ {t} : proc'[p] = proc[p]
      /\ proc'[t].state = "SLEEPING" /\ proc'[t].chan = t
      /\ proc'[t].parent = proc[t].parent /\ proc'[t].left = proc[t].left
      /\ Moved(t, "sched", thr[t].ix, thr[t].wx, thr[t].trap)
  BY Zenon, <1>1, SleepTable
<1>3. FamilyInv'
  BY Zenon, <1>1, <1>2, FamilyKept
<1>4. TickInv'
  <2>1. \A p \in Proc : Asleep(p, tickslock)' => Asleep(p, tickslock)
    BY Zenon, <1>1, <1>2 DEF Asleep
  <2> QED BY <1>2, <2>1, TickKept
<1>5. \A u \in Proc \ {t} : thr'[u] = thr[u] /\ thr'[u].pc \notin WaitLabels
  BY ZenonT(40), <1>1, <1>2, OneWaits, Sets DEF Moved, WaitLabels
<1>6. thr'[t].pc = "sched"
  BY <1>2 DEF Moved
<1>7. ~WakesInit
  BY Zenon, <1>1, OneWaits DEF WakesInit, WaitLabels
<1>8. \A q \in Proc : /\ proc'[q].parent = proc[q].parent
                      /\ proc'[q].state = "ZOMBIE" => proc[q].state = "ZOMBIE"
                      /\ q # t /\ Asleep(q, q)' => Asleep(q, q)
  BY <1>2 DEF Asleep
<1>9. \A p \in Proc : SleeperOK(p)'
  <2>1. SleeperOK(t)'
    <3>1. /\ \E q \in Proc : proc[q].parent = t
          /\ \A q \in Proc : proc[q].parent = t => proc[q].state # "ZOMBIE"
      BY Zenon, <1>1 DEF Wake, WaitInv
    <3> QED BY Zenon, <1>8, <3>1 DEF SleeperOK
  <2>2. \A p \in Proc \ {t} : SleeperOK(p)'
    BY <1>7, <1>8 DEF Wake, WaitInv, SleeperOK
  <2> QED BY Zenon, <2>1, <2>2
<1>10. WaitInv'
  BY Zenon, <1>5, <1>6, <1>9 DEF WaitInv, PastParent, WaitLabels
<1> QED BY Zenon, <1>3, <1>4, <1>10 DEF Wake

(* sys_sleep() falls asleep under tickslock, with ticks left.                *)
LEMMA TickSleepWake ==
  ASSUME Base, Wake, NEW c \in Cpu, NEW t \in Thread, t = Current(c),
         thr[t].pc = "sleep_go", sleep(c, t, tickslock, tickslock)
  PROVE  Wake'
<1>1. t \in Proc /\ thr[t].trap = "none" /\ tickslock \in Lock /\ t # tickslock /\ proc[t].state = "RUNNING"
  BY Zenon, Plain, Sets DEF RunLabels
<1>2. /\ \A p \in Proc \ {t} : proc'[p] = proc[p]
      /\ proc'[t].state = "SLEEPING" /\ proc'[t].chan = tickslock
      /\ proc'[t].parent = proc[t].parent /\ proc'[t].left = proc[t].left
      /\ Moved(t, "sched", thr[t].ix, thr[t].wx, thr[t].trap)
  BY <1>1, SleepTable
<1>3. FamilyInv'
  BY ZenonT(40), <1>1, <1>2, FamilyKept
<1>4. TickInv'
  <2>1. proc[t].left > 0
    BY Zenon, <1>1 DEF Wake, TickInv
  <2>2. \A p \in Proc : Asleep(p, tickslock)' => Asleep(p, tickslock) \/ (proc[p].state # "ZOMBIE" /\ proc[p].left > 0)
    BY <1>1, <1>2, <2>1 DEF Asleep
  <2> QED BY <1>2, <2>2, TickKept
<1>5. ~Asleep(t, t)' /\ \A p \in Proc \ {t} : Asleep(p, p)' => Asleep(p, p)
  BY Zenon, <1>1, <1>2 DEF Asleep
<1>6. WaitInv'
  <2>1. WaitStep(t, "sched", thr[t].ix, thr[t].wx)
    BY Zenon, <1>2, <1>5 DEF WaitStep
  <2> QED BY Zenon, <1>2, <2>1, WaitKept
<1> QED BY Zenon, <1>3, <1>4, <1>6 DEF Wake

(* sys_sleep() finds that its time is not over. *)
LEMMA SleepLoopWake ==
  ASSUME Base, Wake, NEW c \in Cpu, NEW t \in Thread, t = Current(c), thr[t].pc = "sleep_loop",
         IF proc[t].left = 0 \/ proc[t].killed
         THEN release(c, tickslock) /\ Goto(t, "ret") /\ proc' = [proc EXCEPT ![t].left = 0]
         ELSE Balanced /\ Goto(t, "sleep_go") /\ UNCHANGED proc
  PROVE  Wake'
<1>1. t \in Proc /\ thr[t].trap = "none" /\ proc[t] \in ProcType
  BY Plain DEF RunLabels
<1>2. CASE Goto(t, "ret") /\ proc' = [proc EXCEPT ![t].left = 0]
  <2>1. 0 \in Nat
    OBVIOUS
  <2>2. Quiet
    BY <1>2, <2>1, QuietSleep, Zenon
  <2> QED BY <2>2, QuietKeeps
<1>3. CASE proc[t].left # 0 /\ Goto(t, "sleep_go") /\ UNCHANGED proc
  <2>1. Moved(t, "sleep_go", thr[t].ix, thr[t].wx, thr[t].trap)
    BY <1>3, Words, MovedPc, Zenon
  <2>2. proc' = proc /\ \A p, k : Asleep(p, k)' => Asleep(p, k)
    BY <1>3 DEF Asleep
  <2>3. FamilyInv'
    BY Zenon, <1>1, <2>1, <2>2, FamilyKept
  <2>4. proc[t].left > 0
    BY <1>1, <1>3 DEF ProcType
  <2>5. TickInv'
    BY Zenon, <2>1, <2>2, <2>4, TickKept
  <2>6. ~Asleep(t, t)
    BY <1>1, AwakeSelf
  <2>7. WaitInv'
    <3>1. WaitStep(t, "sleep_go", thr[t].ix, thr[t].wx)
      BY Zenon, <2>2, <2>6 DEF WaitStep
    <3> QED BY Zenon, <2>1, <3>1, WaitKept
  <2> QED BY <2>3, <2>5, <2>7 DEF Wake
<1> QED BY <1>2, <1>3

(* fork() enters itself as the parent. *)
LEMMA ForkParentWake ==
  ASSUME Base, Wake, NEW c \in Cpu, NEW t \in Thread, t = Current(c), thr[t].pc = "fork_parent",
         NEW np, np = thr[t].ix, proc' = [proc EXCEPT ![np].parent = t], Goto(t, "fork_run")
  PROVE  Wake'
<1>1. Moved(t, "fork_run", thr[t].ix, thr[t].wx, thr[t].trap)
  BY Words, MovedPc, Zenon
<1>2. t \in Proc /\ thr[t].trap = "none" /\ Forking(t) /\ Pos(t) = "fork_parent"
  BY Plain DEF RunLabels, OpenLabels, Forking
<1>3. np \in Proc /\ proc[np].state = "USED" /\ proc[np].parent = NULL
  BY <1>2 DEF Base, ForkInv, Wake, FamilyInv
<1>4. /\ \A p \in Proc : proc'[p].state = proc[p].state /\ proc'[p].chan = proc[p].chan /\ proc'[p].left = proc[p].left
      /\ \A p \in Proc \ {np} : proc'[p].parent = proc[p].parent
      /\ proc'[np].parent = t
  BY <1>3 DEF Base, TypeInv, ProcType
<1>5. \A p \in Proc : \A k : Asleep(p, k)' => Asleep(p, k)
  BY <1>4 DEF Asleep
<1>6. FamilyInv'
  <2>1. \A p \in Proc : proc'[p].state = "UNUSED" => proc'[p].parent = NULL
    BY ZenonT(40), <1>3, <1>4 DEF Wake, FamilyInv
  <2>2. ASSUME NEW p \in Proc, Pos(p)' = "fork_parent" PROVE proc'[thr'[p].ix].parent = NULL
    <3>1. p # t /\ thr'[p] = thr[p]
      BY Zenon, <1>1, <1>2, <2>2, Sets DEF Moved, Pos
    <3>2. Pos(p) = "fork_parent" /\ Forking(p)
      BY <2>2, <3>1 DEF Pos, Forking
    <3>3. thr[p].ix \in Proc /\ thr[p].ix # np /\ proc[thr[p].ix].parent = NULL
      BY Zenon, <1>2, <3>1, <3>2 DEF Base, ForkInv, Wake, FamilyInv
    <3> QED BY Zenon, <1>4, <3>1, <3>3
  <2> QED BY Zenon, <2>1, <2>2 DEF FamilyInv
<1>7. TickInv'
  BY <1>1, <1>4, <1>5, TickKept
<1>8. ~Asleep(t, t)'
  BY Zenon, <1>2, <1>5, AwakeSelf
<1>9. \A p \in Proc \ {t}, q \in Proc : proc'[q].parent = p <=> proc[q].parent = p
  BY <1>2, <1>3, <1>4, Sets
<1>10. WaitInv'
  <2>1. WaitStep(t, "fork_run", thr[t].ix, thr[t].wx)
    BY Zenon, <1>4, <1>5, <1>8, <1>9 DEF WaitStep
  <2> QED BY Zenon, <1>1, <2>1, WaitKept
<1> QED BY <1>6, <1>7, <1>10 DEF Wake
-----------------------------------------------------------------------------
(* Booting establishes Wake.                                                 *)
LEMMA WakeInit == Init => Wake
<1> SUFFICES ASSUME Init PROVE Wake
  OBVIOUS
<1>1. \A p \in Proc : proc[p].state \in {"UNUSED", "RUNNABLE"} /\ proc[p].parent = NULL
  BY DEF Init, Unused
<1>2. \A t \in Thread : thr[t].pc \in {"forkret", "dead", "scan"} /\ thr[t].trap = "none"
  BY DEF Init, NoThread
<1>3. \A p \in Proc : \A k : ~Asleep(p, k)
  BY <1>1 DEF Asleep
<1>4. FamilyInv
  BY <1>1, <1>2, Sets DEF FamilyInv, Pos
<1>5. WaitInv
  BY Zenon, <1>2, <1>3, Sets DEF WaitInv, SleeperOK, PastParent
<1>6. TickInv
  BY Zenon, <1>2, <1>3, Sets DEF TickInv
<1> QED BY <1>4, <1>5, <1>6 DEF Wake

(* Every step of a kernel thread keeps Wake: one case for each place.        *)
LEMMA KernelWake ==
  ASSUME Base, Wake, NEW c \in Cpu, NEW t \in Thread, t = Current(c), Wants(t) \notin Held, KernelStep(c, t)
  PROVE  Wake'
<1>1. CASE ScanPass(c) \/ ScanSwitch(c)
  BY <1>1, QuietScanPass, QuietSwitchIn, QuietKeeps
<1>2. CASE sched(c, t) \/ forkret(c, t)
  BY Zenon, <1>2, QuietSched, QuietForkret, QuietKeeps
<1>3. CASE SchedPanics(c, t)
  BY <1>3, SchedChecksHold DEF SchedPanics
<1>4. CASE clockintr(c, t)
  BY <1>4, ClockWake
<1>5. CASE Preempt(c, t) \/ yield(c, t)
  BY <1>5, QuietTrap, QuietKeeps
<1>6. CASE TrapReturn(c, t) \/ SyscallReturn(t)
  BY Zenon, <1>6, QuietTrapReturn, QuietReturn, QuietKeeps
<1>7. CASE allocproc(t)
  BY <1>7, QuietAlloc, QuietKeeps
<1>8. CASE fork(t)
  BY <1>8, ForkParentWake, QuietForkRun, QuietKeeps, Zenon DEF fork
<1>9. CASE exit(c, t)
  <2>1. CASE thr[t].pc = "exit" /\ t = initproc
    <3>1. Pos(t) = "exit"
      BY <2>1, Plain, Zenon DEF RunLabels, OpenLabels
    <3> QED BY <2>1, <3>1 DEF Base, InitOK, ExitPc
  <2>2. CASE thr[t].pc = "exit" /\ GotoAt(t, "reparent", 1) /\ UNCHANGED proc
    BY Zenon, <2>2, QuietExit, QuietKeeps
  <2> QED BY Zenon, <1>9, <2>1, <2>2, ZombieWake, ExitWakes DEF exit
<1>10. CASE reparent(t)
  BY <1>10, ReparentWake, ExitWakes DEF reparent
<1>11. CASE wait(c, t)
  <2>1. CASE thr[t].pc = "wait_woken" /\ Woken(c, t, "wait")
    BY <2>1, QuietWoken, QuietKeeps
  <2>2. CASE WaitScan(c, t)
    BY <2>2, ScanWake, Zenon
  <2>3. CASE WaitEnd(c, t)
    BY <2>3, ScanEndWake, Zenon
  <2>4. CASE thr[t].pc = "wait_sleep" /\ sleep(c, t, t, wait_lock)
    BY <2>4, WaitSleepWake, Zenon
  <2>5. CASE thr[t].pc = "wait" /\ acquire(c, wait_lock) /\ GotoAt(t, "wait_scan", 0) /\ UNCHANGED proc
    BY <2>5, WaitEntersWake, Zenon
  <2> QED BY <1>11, <2>1, <2>2, <2>3, <2>4, <2>5, Zenon DEF wait
<1>12. CASE sys_sleep(c, t)
  <2>1. CASE thr[t].pc = "sleep_woken" /\ Woken(c, t, "sleep_again")
    BY Zenon, <2>1, QuietWoken, QuietKeeps
  <2>2. ASSUME NEW n \in 0..MAXSLEEP PROVE n \in Nat
    BY <2>2, SizesAssumption
  <2>3. CASE thr[t].pc = "sleep_loop"
    BY <1>12, <2>3, SleepLoopWake DEF sys_sleep
  <2>4. CASE thr[t].pc \in {"sleep", "sleep_again"}
    <3>1. Goto(t, "sleep_loop") /\ (UNCHANGED proc \/ \E n \in Nat : proc' = [proc EXCEPT ![t].left = n])
      BY <1>12, <2>2, <2>4 DEF sys_sleep
    <3> QED BY Zenon, <2>4, <3>1, QuietSleep, QuietKeeps
  <2>5. CASE thr[t].pc = "sleep_go"
    BY <1>12, <2>5, TickSleepWake DEF sys_sleep
  <2> QED BY Zenon, <1>12, <2>1, <2>3, <2>4, <2>5 DEF sys_sleep
<1>13. CASE kill(t)
  BY <1>13, QuietKill, QuietKeeps
<1>14. CASE t = initproc /\ \E call \in {"alloc", "wait"} : UserCall(c, t, call)
  BY <1>14, QuietUserCall, QuietKeeps, Zenon
<1> QED BY ZenonT(40), <1>1, <1>2, <1>3, <1>4, <1>5, <1>6, <1>7, <1>8, <1>9, <1>10, <1>11, <1>12, <1>13, <1>14 DEF KernelStep

(* Every step keeps Wake.                                                    *)
LEMMA WakeNext == Base /\ Wake /\ [Next]_vars => Wake'
<1> SUFFICES ASSUME Base, Wake, [Next]_vars PROVE Wake'
  OBVIOUS
<1>1. CASE UNCHANGED vars
  <2>1. proc' = proc /\ thr' = thr
    BY <1>1 DEF vars
  <2>2. Quiet
    BY <2>1 DEF Quiet, QuietProc, QuietThread
  <2> QED BY <2>2, QuietKeeps
<1>2. ASSUME NEW c \in Cpu, HartStep(c) \/ UserCalls(c) \/ Timer(c) PROVE Wake'
  <2>1. PICK t \in Thread : t = Current(c)
    BY CurrentThread DEF Base
  <2>2. CASE HartStep(c)
    BY Zenon, <2>1, <2>2, KernelWake, NeverHeld DEF HartStep, AcquirePanics
  <2>3. CASE UserCalls(c)
    <3>1. t \in Proc
      BY <2>1, <2>3, CurrentThread DEF Base, UserCalls
    <3>2. \A call \in Calls[t] : call \in {"alloc", "exit", "wait", "sleep", "kill"}
      BY <3>1, SizesAssumption DEF Proc
    <3> QED BY Zenon, <2>1, <2>3, <3>2, QuietUserCall, QuietKeeps DEF UserCalls, UserStep
  <2>4. CASE Timer(c)
    BY <2>1, <2>4, QuietTimer, QuietKeeps DEF Timer
  <2> QED BY Zenon, <1>2, <2>2, <2>3, <2>4
<1> QED BY <1>1, <1>2 DEF Next

-----------------------------------------------------------------------------

(* Booting establishes the invariant.                                        *)
LEMMA BaseInit == Init => Base
<1> SUFFICES ASSUME Init PROVE Base
  OBVIOUS
<1>1. /\ \A p \in Proc : proc[p] = IF p = initproc THEN [Unused EXCEPT !.state = "RUNNABLE"] ELSE Unused
      /\ \A l \in Lock : lock[l] = NULL
      /\ panicked = FALSE
  BY DEF Init
<1>2. \A c \in Cpu : hart[c].proc = NULL /\ hart[c].noff = 0
  BY DEF Init
<1>3. /\ \A p \in Proc \ {initproc} : thr[p] = NoThread
      /\ thr[initproc] = [NoThread EXCEPT !.pc = "forkret"]
      /\ \A c \in Cpu : thr[Scheduler(c)] = [NoThread EXCEPT !.pc = "scan", !.ix = 1]
  BY Sets DEF Init
<1>4. TypeInv
  <2>1. [Unused EXCEPT !.state = "RUNNABLE"] \in ProcType
    BY UnusedType DEF ProcType, States
  <2>2. proc \in [Proc -> ProcType]
    BY <2>1, UnusedType DEF Init
  <2>3. hart \in [Cpu -> HartType]
    <3>1. ASSUME NEW a \in BOOLEAN, NEW b \in BOOLEAN
          PROVE  [proc |-> NULL, noff |-> 0, intena |-> a, sie |-> b] \in HartType
      BY <3>1 DEF HartType
    <3>2. [proc |-> NULL, noff |-> 0, intena |-> FALSE, sie |-> TRUE] \in HartType
      BY <3>1, Zenon
    <3> QED BY <3>2, Zenon DEF Init
  <2>4. thr \in [Thread -> ThreadType]
    <3>1. ASSUME NEW b \in BOOLEAN, NEW n, n = [pc |-> "dead", ix |-> 0, wx |-> 0, trap |-> "none", intena |-> b]
          PROVE  n \in ThreadType /\ [n EXCEPT !.pc = "scan", !.ix = 1] \in ThreadType
      <4>1. {"dead", "none", "scan"} \subseteq Labels
        BY Words
      <4>2. n \in ThreadType
        BY <3>1, <4>1 DEF ThreadType
      <4>3. "scan" \in Labels
        BY <4>1
      <4> QED BY <4>2, <4>3, Sets, ThreadAt, Zenon
    <3>2. NoThread \in ThreadType /\ [NoThread EXCEPT !.pc = "scan", !.ix = 1] \in ThreadType
      BY <3>1, Zenon DEF NoThread
    <3>3. [NoThread EXCEPT !.pc = "forkret"] \in ThreadType
      BY ChildThread
    <3> QED BY <3>2, <3>3 DEF Init
  <2> QED BY <1>1, <2>2, <2>3, <2>4, Zenon DEF Init, TypeInv
<1>5. /\ NoThread.pc = "dead" /\ NoThread.trap = "none" /\ NoThread.ix = 0
      /\ [NoThread EXCEPT !.pc = "scan", !.ix = 1].pc = "scan" /\ [NoThread EXCEPT !.pc = "scan", !.ix = 1].ix = 1
      /\ [NoThread EXCEPT !.pc = "scan", !.ix = 1].trap = "none"
  BY DEF NoThread
<1>6. /\ Unused.state = "UNUSED" /\ Unused.chan = NULL
      /\ [Unused EXCEPT !.state = "RUNNABLE"].state = "RUNNABLE" /\ [Unused EXCEPT !.state = "RUNNABLE"].chan = NULL
      /\ ~[Unused EXCEPT !.state = "RUNNABLE"].killed
  BY DEF Unused
<1>7. \A c \in Cpu : myproc(c) = NULL /\ Current(c) = Scheduler(c)
  BY <1>2 DEF myproc, Current
<1>8. \A p \in Proc : ~On(p)
  BY <1>7, Sets DEF On
<1>9. \A c \in Cpu : thr[Scheduler(c)].pc = "scan" /\ thr[Scheduler(c)].ix \in Proc /\ thr[Scheduler(c)].trap = "none"
  BY <1>3, <1>5, Sets, Zenon DEF initproc
<1>10. /\ \A p \in Proc \ {initproc} : thr[p].pc = "dead" /\ thr[p].trap = "none" /\ proc[p].state = "UNUSED" /\ proc[p].chan = NULL
       /\ thr[initproc].pc = "forkret" /\ thr[initproc].trap = "none" /\ proc[initproc].state = "RUNNABLE"
       /\ proc[initproc].chan = NULL /\ ~proc[initproc].killed
  BY <1>1, <1>3, <1>5, <1>6, ChildThread, Sets, Zenon
<1>11. LockInv
  <2>1. \A c \in Cpu : Holds(Current(c)) = {}
    BY Zenon, <1>7, <1>9, OpenHolds DEF Holds
  <2> QED BY Zenon, <1>1, <1>2, <2>1, Sets DEF LockInv
<1>12. HartInv
  BY Zenon, <1>7, <1>9 DEF HartInv, SchedulerOK, SchedulerLabels
<1>13. PlaceInv
  BY Zenon, <1>8, <1>10 DEF PlaceInv, StateOK, TrapOK, ChanOK, OffLabels
<1>14. IntrInv
  BY ZenonT(40), <1>7, <1>9, <1>10, Sets DEF IntrInv, IntrOK, SavedOK
<1>15. ForkInv
  <2>1. \A p \in Proc : Pos(p) \in {"dead", "forkret"} /\ ~Forking(p)
    BY <1>10 DEF Pos, Forking
  <2>2. \A u \in Thread : thr[u].pc \notin WakeLabels
    BY <1>9, <1>10 DEF Thread, WakeLabels
  <2> QED BY <2>1, <2>2 DEF ForkInv
<1>16. InitOK
  BY <1>10 DEF InitOK, Pos, ExitPc
<1> QED BY ZenonT(40), <1>1, <1>4, <1>11, <1>12, <1>13, <1>14, <1>15, <1>16 DEF Base

(* Every step of a kernel thread keeps the invariant: one case for each      *)
(* place that the thread can be at.                                          *)
LEMMA KernelBase ==
  ASSUME Base, NEW c \in Cpu, NEW t \in Thread, t = Current(c), Wants(t) \notin Held, KernelStep(c, t)
  PROVE  Base'
<1>1. CASE ScanPass(c)
  BY <1>1, ScanPassStep
<1>2. CASE ScanSwitch(c)
  BY <1>2, SwitchInStep
<1>3. CASE sched(c, t)
  BY <1>3, SchedStep
<1>4. CASE SchedPanics(c, t)
  BY Zenon, <1>4, SchedChecksHold DEF SchedPanics
<1>5. CASE forkret(c, t)
  BY <1>5, ForkretStep
<1>6. CASE clockintr(c, t)
  BY <1>6, ClockStep
<1>7. CASE Preempt(c, t)
  BY <1>7, PreemptStep
<1>8. CASE yield(c, t) \/ TrapReturn(c, t) \/ SyscallReturn(t)
  BY Zenon, <1>8, YieldStep, TrapReturnStep, ReturnStep
<1>9. CASE allocproc(t)
  BY <1>9, AllocStep
<1>10. CASE fork(t)
  BY <1>10, ForkParentStep, ForkRunStep, ZenonT(40) DEF fork
<1>11. CASE exit(c, t)
  <2>1. CASE thr[t].pc = "exit" /\ t = initproc
    <3>1. Pos(t) = "exit"
      BY <2>1, Plain, Zenon DEF RunLabels, OpenLabels
    <3> QED BY <2>1, <3>1 DEF Base, InitOK, ExitPc
  <2> QED BY Zenon, <1>11, <2>1, ExitEnters, ZombieStep, ExitWakeStep DEF exit
<1>12. CASE reparent(t)
  BY <1>12, ReparentStep, ExitWakeStep DEF reparent
<1>13. CASE wait(c, t)
  <2>1. CASE thr[t].pc = "wait_woken" /\ Woken(c, t, "wait")
    BY <2>1, WokenStep
  <2> QED BY ZenonT(40), <1>13, <2>1, WaitEnters, ScanStep, ScanEndStep, SleepStep DEF wait
<1>14. CASE sys_sleep(c, t)
  <2>1. CASE thr[t].pc = "sleep_woken" /\ Woken(c, t, "sleep_again")
    BY <2>1, WokenStep
  <2>2. ASSUME NEW n \in 0..MAXSLEEP PROVE n \in Nat
    BY <2>2, SizesAssumption
  <2>3. CASE thr[t].pc = "sleep_loop"
    BY <1>14, <2>3, SleepLoopStep DEF sys_sleep
  <2>4. CASE thr[t].pc \in {"sleep", "sleep_again"}
    BY Zenon, <1>14, <2>2, <2>4, SleepEnters DEF sys_sleep
  <2>5. CASE thr[t].pc = "sleep_go"
    BY Zenon, <1>14, <2>5, SleepStep DEF sys_sleep
  <2> QED BY ZenonT(40), <1>14, <2>1, <2>3, <2>4, <2>5 DEF sys_sleep
<1>15. CASE kill(t)
  BY <1>15, KillStep
<1>16. CASE t = initproc /\ \E call \in {"alloc", "wait"} : UserCall(c, t, call)
  BY <1>16, UserCallStep, Zenon
<1> QED BY ZenonT(40), <1>1, <1>2, <1>3, <1>4, <1>5, <1>6, <1>7, <1>8, <1>9, <1>10, <1>11, <1>12, <1>13, <1>14, <1>15, <1>16 DEF KernelStep

(* Every step keeps the invariant.                                           *)
LEMMA BaseNext == Base /\ [Next]_vars => Base'
<1> SUFFICES ASSUME Base, [Next]_vars PROVE Base'
  OBVIOUS
<1>1. CASE UNCHANGED vars
  <2>1. proc' = proc /\ lock' = lock /\ hart' = hart /\ thr' = thr /\ panicked' = panicked
    BY <1>1 DEF vars
  <2>2. /\ \A c \in Cpu : Current(c)' = Current(c) /\ myproc(c)' = myproc(c) /\ (Ena(c)' <=> Ena(c))
        /\ \A p : On(p)' <=> On(p)
    BY <2>1 DEF Current, myproc, Ena, On
  <2>3. TypeInv' /\ ~panicked'
    BY Zenon, <2>1 DEF Base, TypeInv
  <2>4. LockInv' /\ HartInv'
    <3>1. \A c \in Cpu : Holds(Current(c))' = Holds(Current(c)) /\ (SchedulerOK(c)' <=> SchedulerOK(c))
      BY Zenon, <2>1, <2>2 DEF Holds, SchedulerOK
    <3>2. LockInv'
      BY SMTT(40), <2>1, <2>2, <3>1 DEF Base, LockInv
    <3>3. HartInv'
      BY Zenon, <2>2, <3>1 DEF Base, HartInv
    <3> QED BY Zenon, <3>2, <3>3
  <2>5. PlaceInv'
    BY ZenonT(40), <2>1, <2>2 DEF Base, PlaceInv, StateOK, TrapOK, ChanOK
  <2>6. IntrInv'
    BY ZenonT(40), <2>1, <2>2 DEF Base, IntrInv, IntrOK, SavedOK
  <2>7. ForkInv' /\ InitOK'
    BY <2>1 DEF Base, ForkInv, InitOK, Forking, Pos
  <2> QED BY ZenonT(40), <2>3, <2>4, <2>5, <2>6, <2>7 DEF Base
<1>2. ASSUME NEW c \in Cpu, HartStep(c) \/ UserCalls(c) \/ Timer(c) PROVE Base'
  <2>1. PICK t \in Thread : t = Current(c)
    BY CurrentThread DEF Base
  <2>2. CASE HartStep(c)
    BY Zenon, <2>1, <2>2, KernelBase, NeverHeld DEF HartStep, AcquirePanics
  <2>3. CASE UserCalls(c)
    <3>1. t \in Proc
      BY Zenon, <2>1, <2>3, CurrentThread DEF Base, UserCalls
    <3>2. \A call \in Calls[t] : call \in {"alloc", "exit", "wait", "sleep", "kill"}
      BY <3>1, SizesAssumption DEF Proc
    <3> QED BY Zenon, <2>1, <2>3, <3>2, UserCallStep DEF UserCalls, UserStep
  <2>4. CASE Timer(c)
    BY <2>1, <2>4, TimerStep DEF Timer
  <2> QED BY Zenon, <1>2, <2>2, <2>3, <2>4
<1> QED BY <1>1, <1>2 DEF Next

(* In every reachable state, the locks, states, channels and interrupt flags *)
(* are as Base says; no panic() of the process code is reached.              *)
THEOREM ProcInvariant == Spec => []Base
BY BaseInit, BaseNext, PTL DEF Spec

(* StacksExclusive: whatever the interleaving of the harts, no two of them   *)
(* run one process, exactly the RUNNING processes are run, save for one that *)
(* holds its lock in sched(), and no panic() of spinlock.c and proc.c is     *)
(* reached.                                                                  *)
THEOREM Stacks == Spec => []StacksExclusive
<1>1. Base => StacksExclusive
  <2> SUFFICES ASSUME Base PROVE StacksExclusive
    OBVIOUS
  <2>1. \A p \in Proc : proc[p].state = "RUNNING" => \E c \in Cpu : myproc(c) = p
    BY DEF Base, PlaceInv, StateOK, On
  <2>2. ASSUME NEW c \in Cpu, myproc(c) # NULL, proc[myproc(c)].state # "RUNNING"
        PROVE  thr[myproc(c)].pc = "sched" /\ holding(c, myproc(c))
    <3>1. Current(c) \in Thread /\ Current(c) = myproc(c)
      BY <2>2, CurrentThread DEF Base
    <3>2. thr[Current(c)].pc = "sched"
      BY ZenonT(40), <2>2, <3>1, CurrentThread, Running DEF Base
    <3> QED BY Zenon, <3>1, <3>2, SchedChecksHold DEF SchedChecks
  <2> QED BY <2>1, <2>2 DEF Base, HartInv, StacksExclusive
<1> QED BY <1>1, ProcInvariant, PTL

(* InterruptsRestored: push_off() and pop_off(), with the intena that        *)
(* sched() carries across a context switch, keep interrupts off in a trap    *)
(* handler and on in a system call that holds no lock.                       *)
THEOREM Interrupts == Spec => []InterruptsRestored
<1>1. Base => InterruptsRestored
  <2> SUFFICES ASSUME Base, NEW c \in Cpu, NEW t, t = Current(c)
               PROVE  /\ thr[t].trap # "none" => ~hart[c].sie
                      /\ t \in Proc /\ thr[t].trap = "none" /\ hart[c].noff = 0 /\ thr[t].pc \notin ExitPc => hart[c].sie
    BY DEF InterruptsRestored
  <2>1. t \in Thread
    BY Zenon, CurrentThread DEF Base
  <2>2. thr[t].trap # "none" => ~hart[c].sie
    BY <2>1, Running
  <2>3. ASSUME t \in Proc, thr[t].trap = "none", hart[c].noff = 0, thr[t].pc \notin ExitPc PROVE hart[c].sie
    <3>1. Holds(t) = {}
      BY <2>3 DEF Base, LockInv
    <3>2. thr[t].pc # "forkret" /\ thr[t].pc # "sched"
      BY <3>1 DEF Holds, HoldsAt, OffLabels, WaitLabels, TickLabels
    <3> QED BY ZenonT(40), <2>1, <2>3, <3>2, Running DEF IntrOK, Ena
  <2> QED BY <2>2, <2>3
<1> QED BY <1>1, ProcInvariant, PTL

(* NoLostWakeup: sleep() releases the condition lock only under p->lock and  *)
(* wakeup() takes p->lock, so that no exit() and no clock tick goes by a     *)
(* process that is about to sleep, or sleeps, in wait() or sys_sleep().      *)
THEOREM Wakeups == Spec => []NoLostWakeup
<1>1. Spec => [](Base /\ Wake)
  BY BaseInit, BaseNext, WakeInit, WakeNext, PTL DEF Spec
<1> QED BY <1>1, WakeupsOfBase, PTL
=============================================================================
