-------------------------------- MODULE Proc --------------------------------
(***************************************************************************)
(* The life of processes: proc.c, spinlock.c, the timer path of trap.c and *)
(* the process calls of sysproc.c.  Harts run kernel threads: the scheduler*)
(* of each hart and the kernel half of each process.  A step is what a     *)
(* thread does up to the point where it next acquires a lock, or where an  *)
(* interrupt or an unlocked read can come between.                         *)
(***************************************************************************)
EXTENDS Integers, FiniteSets

CONSTANTS
  NPROC,      \* process slots
  NCPU,       \* harts; hart 1 is the one whose cpuid() is 0
  MAXSLEEP,   \* bound: ticks a process asks sys_sleep() for
  Calls,      \* bound: the system calls made from each slot
  Victims,    \* bound: the slots kill() is called for, never that of init
  TrapsAt,    \* bound: where a timer interrupt finds a thread
  NULL

ASSUME SizesAssumption ==
  /\ NPROC \in Nat \ {0} /\ NCPU \in Nat \ {0} /\ MAXSLEEP \in Nat
  /\ Calls \in [1..NPROC -> SUBSET {"alloc", "exit", "wait", "sleep", "kill"}]
  /\ Victims \subseteq 2..NPROC /\ NULL \notin Int

Proc == 1..NPROC
Cpu == 1..NCPU
initproc == 1

(* The locks: wait_lock, the p->lock of each process, and tickslock, whose  *)
(* number also stands for the channel &ticks.                               *)
wait_lock == 0
tickslock == NPROC + 1
Lock == 0..(NPROC + 1)

(* The kernel threads: one per process, and the scheduler of each hart.     *)
Scheduler(c) == NPROC + 1 + c
Thread == Proc \cup {Scheduler(c) : c \in Cpu}

VARIABLES
  proc,       \* the process table
  lock,       \* lock[l]: the hart that holds l, or NULL
  hart,       \* struct cpu, and the interrupt-enable bit of the hart
  thr,        \* where each kernel thread is
  ran,        \* ran[c]: the thread on c has moved since the last timer interrupt
  panicked

vars == <<proc, lock, hart, thr, ran, panicked>>

(* left: n - (ticks - ticks0) of sys_sleep().  ix and wx: the slots a loop   *)
(* and wakeup() are at.  trap: where the interrupted thread was.  intena:    *)
(* the local variable of sched().                                            *)
Unused == [state |-> "UNUSED", parent |-> NULL, chan |-> NULL, killed |-> FALSE, left |-> 0]
NoThread == [pc |-> "dead", ix |-> 0, wx |-> 0, trap |-> "none", intena |-> FALSE]

(* main() ran procinit() and userinit(); every hart enters scheduler().     *)
Init ==
  /\ proc = [p \in Proc |-> IF p = initproc THEN [Unused EXCEPT !.state = "RUNNABLE"] ELSE Unused]
  /\ lock = [l \in Lock |-> NULL]
  /\ hart = [c \in Cpu |-> [proc |-> NULL, noff |-> 0, intena |-> FALSE, sie |-> TRUE]]
  /\ thr = [t \in Thread |->
              IF t = initproc THEN [NoThread EXCEPT !.pc = "forkret"]
              ELSE IF t \in Proc THEN NoThread
              ELSE [NoThread EXCEPT !.pc = "scan", !.ix = 1]]
  /\ ran = [c \in Cpu |-> FALSE]
  /\ panicked = FALSE

-----------------------------------------------------------------------------
(* Spinlocks and interrupts.                                                *)

myproc(c) == hart[c].proc
Current(c) == IF myproc(c) = NULL THEN Scheduler(c) ELSE myproc(c)

(* intena is not read while noff is 0; it is kept FALSE then.               *)
push_off(h) == [h EXCEPT !.sie = FALSE, !.noff = @ + 1,
                         !.intena = IF h.noff = 0 THEN h.sie ELSE @]
pop_off(h) == [h EXCEPT !.noff = @ - 1, !.sie = h.noff = 1 /\ h.intena,
                        !.intena = h.noff # 1 /\ @]
MayPop(h) == ~h.sie /\ h.noff >= 1

holding(c, l) == lock[l] = c

(* The guard of Step says that the lock is free.                            *)
acquire_NoSwap(c, l) ==
  /\ hart' = [hart EXCEPT ![c] = push_off(@)]
  /\ UNCHANGED <<lock, panicked>>

acquire(c, l) ==
  /\ lock' = [lock EXCEPT ![l] = c]
  /\ hart' = [hart EXCEPT ![c] = push_off(@)]
  /\ UNCHANGED panicked

release(c, l) ==
  /\ lock' = [lock EXCEPT ![l] = NULL]
  /\ hart' = [hart EXCEPT ![c] = pop_off(@)]
  /\ panicked' = ~(holding(c, l) /\ MayPop(hart[c]))

(* Acquire l, then release m.                                               *)
Exchange(c, l, m) ==
  /\ lock' = [lock EXCEPT ![l] = c, ![m] = NULL]
  /\ panicked' = ~holding(c, m)
  /\ UNCHANGED hart

(* What a step acquires it has released again at its end.                   *)
Balanced == UNCHANGED <<lock, hart, panicked>>

Goto(t, l) == thr' = [thr EXCEPT ![t].pc = l]
GotoAt(t, l, i) == thr' = [thr EXCEPT ![t].pc = l, ![t].ix = i]

(* sleep(chan, lk) up to sched(), and from there to the acquire(lk) at l.   *)
sleep(c, t, ch, lk) ==
  /\ proc' = [proc EXCEPT ![t].chan = ch, ![t].state = "SLEEPING"]
  /\ Exchange(c, t, lk) /\ Goto(t, "sched")

Woken(c, t, l) ==
  /\ proc' = [proc EXCEPT ![t].chan = NULL]
  /\ release(c, t) /\ Goto(t, l)

-----------------------------------------------------------------------------
(* wakeup(chan): one slot per step, the caller's own slot without its lock. *)

WakeChan_Own(t) == IF thr[t].pc = "clock_wake" THEN tickslock ELSE t
WakeChan(t) ==
  CASE thr[t].pc = "wake_init" -> initproc
    [] thr[t].pc = "wake_parent" -> proc[t].parent
    [] OTHER -> tickslock

WakeSlot_ChanOnly(q, ch) == IF q.state = "SLEEPING" /\ q.chan = ch THEN [q EXCEPT !.chan = NULL] ELSE q
WakeSlot(q, ch) == IF q.state = "SLEEPING" /\ q.chan = ch THEN [q EXCEPT !.state = "RUNNABLE"] ELSE q

(* The slots beyond the last are skipped: after the loop, go on at l.       *)
wakeup(t, l) ==
  LET q == thr[t].wx IN
  /\ proc' = IF q = t THEN proc ELSE [proc EXCEPT ![q] = WakeSlot(@, WakeChan(t))]
  /\ thr' = IF q < NPROC THEN [thr EXCEPT ![t].wx = q + 1]
            ELSE [thr EXCEPT ![t].wx = 0, ![t].pc = l]
  /\ Balanced

-----------------------------------------------------------------------------
(* The scheduler.                                                           *)

(* The end of one round of the loop: the next slot, or intr_on() and anew.  *)
NextSlot(c, h) == IF thr[Scheduler(c)].ix = NPROC THEN [h EXCEPT !.sie = TRUE] ELSE h
NextIx_Short(c) == (thr[Scheduler(c)].ix % (NPROC - 1)) + 1
NextIx(c) == (thr[Scheduler(c)].ix % NPROC) + 1

(* The slot is not RUNNABLE.                                                *)
ScanPass(c) ==
  LET s == Scheduler(c) IN
  /\ myproc(c) = NULL /\ thr[s].pc = "scan" /\ proc[thr[s].ix].state # "RUNNABLE"
  /\ thr' = [thr EXCEPT ![s].ix = NextIx(c)]
  /\ hart' = [hart EXCEPT ![c] = NextSlot(c, @)]
  /\ UNCHANGED <<proc, lock, panicked>>

(* swtch() to the process, which goes on in forkret() or behind sched(),    *)
(* where its own intena is put back.  p->lock stays held.                   *)
RestoreIntena_Missing(t, h) == h
RestoreIntena(t, h) == IF thr[t].pc = "forkret" THEN h ELSE [h EXCEPT !.intena = thr[t].intena]

ScanSwitch(c) ==
  LET p == thr[Scheduler(c)].ix IN
  /\ myproc(c) = NULL /\ thr[Scheduler(c)].pc = "scan" /\ proc[p].state = "RUNNABLE"
  /\ proc' = [proc EXCEPT ![p].state = "RUNNING"]
  /\ lock' = [lock EXCEPT ![p] = c]
  /\ hart' = [hart EXCEPT ![c] = [RestoreIntena(p, push_off(@)) EXCEPT !.proc = p]]
  /\ thr' = [thr EXCEPT ![p].intena = FALSE]
  /\ panicked' = (thr[p].pc = "dead")          \* panic("zombie exit")

(* What swtch() comes back to, by what the process did before sched().      *)
Resume(t) ==
  CASE proc[t].state = "ZOMBIE" -> "dead"
    [] proc[t].chan = tickslock -> "sleep_woken"
    [] proc[t].chan = t -> "wait_woken"
    [] OTHER -> "yielded"

(* sched(), and the scheduler of the hart behind swtch(): c->proc = 0,      *)
(* release(&p->lock), next slot.                                            *)
SchedChecks(c, t) ==
  holding(c, t) /\ hart[c].noff = 1 /\ proc[t].state # "RUNNING" /\ ~hart[c].sie

sched(c, t) ==
  /\ thr[t].pc = "sched" /\ SchedChecks(c, t)
  /\ lock' = [lock EXCEPT ![t] = NULL]
  /\ hart' = [hart EXCEPT ![c] = [NextSlot(c, pop_off(@)) EXCEPT !.proc = NULL]]
  /\ thr' = [thr EXCEPT ![t].pc = Resume(t), ![t].intena = hart[c].intena,
                        ![Scheduler(c)].ix = NextIx(c)]
  /\ UNCHANGED <<proc, panicked>>

SchedPanics(c, t) ==
  /\ thr[t].pc = "sched" /\ ~SchedChecks(c, t)
  /\ panicked' = TRUE /\ UNCHANGED <<proc, lock, hart, thr>>

forkret(c, t) ==
  /\ thr[t].pc = "forkret" /\ Goto(t, "user")
  /\ lock' = [lock EXCEPT ![t] = NULL]
  /\ hart' = [hart EXCEPT ![c] = [pop_off(@) EXCEPT !.sie = TRUE]]   \* usertrapret()
  /\ panicked' = ~holding(c, t) /\ UNCHANGED proc

-----------------------------------------------------------------------------
(* Timer interrupts.                                                        *)

(* The thread has run since the last one (the interval of start.c is far    *)
(* longer than any path in the kernel).  A user program may compute for     *)
(* ever, except for init, which only forks and waits.  On an idle hart      *)
(* other than hart 1 the interrupt does nothing.                            *)
TimerInterrupt(c) ==
  LET t == Current(c) IN
  /\ hart[c].sie /\ thr[t].pc \in TrapsAt
  /\ ran[c] \/ (thr[t].pc \in {"user", "user_wait"} /\ t # initproc)
  /\ t \in Proc \/ c = 1
  /\ thr' = [thr EXCEPT ![t].trap = thr[t].pc, ![t].pc = IF c = 1 THEN "clock" ELSE "preempt"]
  /\ hart' = [hart EXCEPT ![c].sie = FALSE]
  /\ ran' = [ran EXCEPT ![c] = FALSE]
  /\ UNCHANGED <<proc, lock, panicked>>

clockintr(c, t) ==
  \/ /\ thr[t].pc = "clock"
     /\ acquire(c, tickslock)
     /\ proc' = [p \in Proc |-> [proc[p] EXCEPT !.left = IF @ > 0 THEN @ - 1 ELSE 0]]
     /\ thr' = [thr EXCEPT ![t].pc = "clock_wake", ![t].wx = 1]
  \/ thr[t].pc = "clock_wake" /\ wakeup(t, "clock_end")
  \/ thr[t].pc = "clock_end" /\ release(c, tickslock) /\ Goto(t, "preempt") /\ UNCHANGED proc

(* The end of kerneltrap() and usertrap() for a timer interrupt.            *)
InUser(t) == thr[t].trap \in {"user", "user_wait"}
Dies(t) == InUser(t) /\ proc[t].killed
Yields(t) == t \in Proc /\ ~Dies(t) /\ (InUser(t) \/ proc[t].state = "RUNNING")

Preempt(c, t) ==
  /\ thr[t].pc = "preempt"
  /\ \/ /\ Dies(t) /\ Balanced
        /\ thr' = [thr EXCEPT ![t].pc = "exit", ![t].trap = "none"]
        /\ UNCHANGED proc
     \/ /\ Yields(t) /\ acquire(c, t) /\ Goto(t, "sched")
        /\ proc' = [proc EXCEPT ![t].state = "RUNNABLE"]
     \/ /\ ~Dies(t) /\ ~Yields(t) /\ Goto(t, "trapret") /\ Balanced /\ UNCHANGED proc

yield(c, t) ==
  thr[t].pc = "yielded" /\ release(c, t) /\ Goto(t, "trapret") /\ UNCHANGED proc

(* sret with the saved sstatus, or by usertrapret().                        *)
TrapReturn(c, t) ==
  /\ thr[t].pc = "trapret"
  /\ thr' = [thr EXCEPT ![t].pc = thr[t].trap, ![t].trap = "none"]
  /\ hart' = [hart EXCEPT ![c].sie = TRUE]
  /\ UNCHANGED <<proc, lock, panicked>>

-----------------------------------------------------------------------------
(* System calls.  usertrap() looks at p->killed on the way in and out.      *)

(* Bound: one call before the next timer interrupt.                         *)
(* user/init.c waits after each fork(); other programs call what they like. *)
UserCall(c, t, call) ==
  /\ thr[t].pc = "user" \/ (thr[t].pc = "user_wait" /\ call = "wait")
  /\ ~ran[c]
  /\ t = initproc => call \in {"alloc", "wait"}
  /\ thr' = [thr EXCEPT ![t].pc = IF proc[t].killed THEN "exit" ELSE call,
                        ![t].ix = IF call = "alloc" /\ ~proc[t].killed THEN 1 ELSE 0]
  /\ hart' = [hart EXCEPT ![c].sie = ~proc[t].killed]
  /\ UNCHANGED <<proc, lock, panicked>>

SyscallReturn(t) ==
  /\ thr[t].pc = "ret"
  /\ Goto(t, IF proc[t].killed THEN "exit" ELSE "user")
  /\ Balanced /\ UNCHANGED proc

(* fork() returns: init goes on to wait().                                  *)
ForkReturn(t) == GotoAt(t, IF t = initproc THEN "user_wait" ELSE "ret", 0)

freeproc(p) == [proc EXCEPT ![p] = Unused]

(* allocproc() and fork() up to release(&np->lock): the slot is taken, its  *)
(* memory cannot be had (freeproc), or the table of vmas is full and fork() *)
(* returns without freeing it.                                              *)
allocproc(t) ==
  LET np == thr[t].ix IN
  /\ thr[t].pc = "alloc" /\ Balanced
  /\ \/ /\ proc[np].state # "UNUSED" /\ UNCHANGED proc
        /\ IF np < NPROC THEN GotoAt(t, "alloc", np + 1) ELSE ForkReturn(t)
     \/ /\ proc[np].state = "UNUSED" /\ proc' = freeproc(np) /\ ForkReturn(t)
     \/ /\ proc[np].state = "UNUSED" /\ proc' = [proc EXCEPT ![np].state = "USED"]
        /\ Goto(t, "fork_parent") \/ ForkReturn(t)

fork(t) ==
  LET np == thr[t].ix IN
  \/ /\ thr[t].pc = "fork_parent" /\ Balanced
     /\ proc' = [proc EXCEPT ![np].parent = t] /\ Goto(t, "fork_run")
  \/ /\ thr[t].pc = "fork_run" /\ Balanced
     /\ proc' = [proc EXCEPT ![np].state = "RUNNABLE"]
     /\ thr' = [thr EXCEPT ![np] = [NoThread EXCEPT !.pc = "forkret"],
                           ![t].pc = IF t = initproc THEN "user_wait" ELSE "ret", ![t].ix = 0]

(* exit(): the files, vmas and working directory are given back first.  Of  *)
(* the locks of this module only p->lock is taken for that, by munmap(),    *)
(* which is in Vma with what it does while it has the lock.                 *)
exit(c, t) ==
  \/ /\ thr[t].pc = "exit" /\ t # initproc
     /\ acquire(c, wait_lock) /\ GotoAt(t, "reparent", 1) /\ UNCHANGED proc
  \/ /\ thr[t].pc = "exit" /\ t = initproc
     /\ panicked' = TRUE /\ UNCHANGED <<proc, lock, hart, thr>>
  \/ /\ thr[t].pc = "exit_zombie"
     /\ proc' = [proc EXCEPT ![t].state = "ZOMBIE"]
     /\ Exchange(c, t, wait_lock) /\ Goto(t, "sched")
  \/ thr[t].pc = "wake_parent" /\ wakeup(t, "exit_zombie")

Children(t) == {p \in Proc : proc[p].parent = t}
Least(S) == CHOOSE p \in S : \A q \in S : p <= q

reparent(t) ==
  \/ /\ thr[t].pc = "reparent" /\ Balanced
     /\ \/ /\ Children(t) # {}
           /\ proc' = [proc EXCEPT ![Least(Children(t))].parent = initproc]
           /\ thr' = [thr EXCEPT ![t].pc = "wake_init", ![t].wx = 1]
        \/ /\ Children(t) = {} /\ UNCHANGED proc
           /\ thr' = [thr EXCEPT ![t].pc = "wake_parent", ![t].wx = 1]
  \/ thr[t].pc = "wake_init" /\ wakeup(t, "reparent")

(* wait(): the scan takes the lock of each child.  The address given to it  *)
(* may be bad (init gives none).                                            *)
Unscanned(t) == {p \in Children(t) : p > thr[t].ix}

WaitScan(c, t) ==
  LET np == Least(Unscanned(t)) IN
  /\ thr[t].pc = "wait_scan" /\ Unscanned(t) # {}
  /\ \/ /\ proc[np].state # "ZOMBIE"
        /\ GotoAt(t, "wait_scan", np) /\ Balanced /\ UNCHANGED proc
     \/ /\ proc[np].state = "ZOMBIE" /\ GotoAt(t, "ret", 0) /\ release(c, wait_lock)
        /\ proc' = freeproc(np) \/ (t # initproc /\ UNCHANGED proc)

WaitEnd(c, t) ==
  /\ thr[t].pc = "wait_scan" /\ Unscanned(t) = {} /\ UNCHANGED proc
  /\ IF Children(t) = {} \/ proc[t].killed
     THEN release(c, wait_lock) /\ GotoAt(t, "ret", 0)
     ELSE Balanced /\ GotoAt(t, "wait_sleep", 0)

wait(c, t) ==
  \/ /\ thr[t].pc = "wait"
     /\ acquire(c, wait_lock) /\ GotoAt(t, "wait_scan", 0) /\ UNCHANGED proc
  \/ WaitScan(c, t)
  \/ WaitEnd(c, t)
  \/ thr[t].pc = "wait_sleep" /\ sleep(c, t, t, wait_lock)
  \/ thr[t].pc = "wait_woken" /\ Woken(c, t, "wait")

(* sys_sleep(n).                                                            *)
sys_sleep(c, t) ==
  \/ /\ thr[t].pc = "sleep" /\ acquire(c, tickslock) /\ Goto(t, "sleep_loop")
     /\ \E n \in 0..MAXSLEEP : proc' = [proc EXCEPT ![t].left = n]
  \/ /\ thr[t].pc = "sleep_again" /\ acquire(c, tickslock) /\ Goto(t, "sleep_loop") /\ UNCHANGED proc
  \/ /\ thr[t].pc = "sleep_loop"
     /\ IF proc[t].left = 0 \/ proc[t].killed
        THEN release(c, tickslock) /\ Goto(t, "ret") /\ proc' = [proc EXCEPT ![t].left = 0]
        ELSE Balanced /\ Goto(t, "sleep_go") /\ UNCHANGED proc
  \/ thr[t].pc = "sleep_go" /\ sleep(c, t, tickslock, tickslock)
  \/ thr[t].pc = "sleep_woken" /\ Woken(c, t, "sleep_again")

(* kill(): the slots before the victim's are locked and passed over.  An    *)
(* UNUSED slot has pid 0, and kill(0) finds the first of them.              *)
KillSlot(q) == [q EXCEPT !.killed = TRUE, !.state = IF @ = "SLEEPING" THEN "RUNNABLE" ELSE @]

kill(t) ==
  /\ thr[t].pc = "kill" /\ Goto(t, "ret") /\ Balanced
  /\ \/ \E victim \in Victims :
          /\ lock[victim] = NULL
          /\ proc[victim].state = "UNUSED" => victim = Least({p \in Proc : proc[p].state = "UNUSED"})
          /\ proc' = [proc EXCEPT ![victim] = KillSlot(@)]
     \/ UNCHANGED proc                                  \* no such pid

-----------------------------------------------------------------------------
(* The lock that the next step of t acquires, NULL when it needs none.      *)
Wants(t) ==
  LET l == thr[t].pc IN
  CASE l = "scan" -> thr[t].ix
    [] l \in {"wake_init", "wake_parent", "clock_wake"} -> IF thr[t].wx = t THEN NULL ELSE thr[t].wx
    [] l = "clock" \/ l = "sleep" \/ l = "sleep_again" -> tickslock
    [] l = "preempt" -> IF Yields(t) THEN t ELSE NULL
    [] l \in {"alloc", "fork_run"} -> thr[t].ix
    [] l = "fork_parent" \/ l = "wait" -> wait_lock
    [] l = "exit" -> IF t = initproc THEN NULL ELSE wait_lock
    [] l \in {"exit_zombie", "wait_sleep", "sleep_go"} -> t
    [] l = "wait_scan" -> IF Unscanned(t) = {} THEN NULL ELSE Least(Unscanned(t))
    [] OTHER -> NULL

Held == {l \in Lock : lock[l] # NULL}

(* acquire() of a lock that the hart holds.                                 *)
AcquirePanics(c, t) ==
  /\ Wants(t) \in Held /\ holding(c, Wants(t))
  /\ panicked' = TRUE /\ UNCHANGED <<proc, lock, hart, thr>>

KernelStep(c, t) ==
  \/ ScanPass(c) \/ ScanSwitch(c)
  \/ sched(c, t) \/ SchedPanics(c, t) \/ forkret(c, t)
  \/ clockintr(c, t) \/ Preempt(c, t) \/ yield(c, t) \/ TrapReturn(c, t)
  \/ SyscallReturn(t) \/ allocproc(t) \/ fork(t)
  \/ exit(c, t) \/ reparent(t) \/ wait(c, t) \/ sys_sleep(c, t) \/ kill(t)
  \/ t = initproc /\ \E call \in {"alloc", "wait"} : UserCall(c, t, call)

UserStep(c, t) ==
  /\ t # initproc
  /\ \E call \in Calls[t] : UserCall(c, t, call)

Moves(c, t) ==
  ran' = [ran EXCEPT ![c] = thr[t].trap = "none" /\ myproc(c) = hart'[c].proc]

HartStep(c) ==
  LET t == Current(c) IN
  /\ ~panicked
  /\ \/ Wants(t) \notin Held /\ KernelStep(c, t)
     \/ AcquirePanics(c, t)
  /\ Moves(c, t)

UserCalls(c) == ~panicked /\ myproc(c) # NULL /\ UserStep(c, Current(c)) /\ Moves(c, Current(c))
Timer(c) == ~panicked /\ TimerInterrupt(c)

Next == \E c \in Cpu : HartStep(c) \/ UserCalls(c) \/ Timer(c)

Spec == Init /\ [][Next]_vars

(* Harts run on; a test-and-set lock that is free again and again is got in *)
(* the end; the timer fires.                                                *)
FairSpec == Spec /\ \A c \in Cpu : SF_vars(HartStep(c)) /\ WF_vars(Timer(c))

-----------------------------------------------------------------------------
(* A process is on one hart at most, so that its kernel stack is used by    *)
(* one hart at a time, and exactly the RUNNING ones are, save for one that  *)
(* holds its own lock on the way out of the hart.  No step reaches a panic: *)
(* "acquire" (a hart waits for itself), "release", "pop_off", the four of   *)
(* sched(), "zombie exit" and "init exiting".                               *)
StacksExclusive ==
  /\ ~panicked
  /\ \A c, d \in Cpu : c # d /\ myproc(c) # NULL => myproc(c) # myproc(d)
  /\ \A p \in Proc : proc[p].state = "RUNNING" => \E c \in Cpu : myproc(c) = p
  /\ \A c \in Cpu : LET p == myproc(c) IN
       p # NULL /\ proc[p].state # "RUNNING" => thr[p].pc = "sched" /\ holding(c, p)

(* No wakeup() is lost.  While wait_lock is free a parent asleep in wait()  *)
(* has a child and none of its children is a zombie: the wakeups of exit()  *)
(* and reparent() cannot fall between its scan and its sleep().  While      *)
(* tickslock is free, who sleeps in sys_sleep() has ticks to go.            *)
NoLostWakeup ==
  \A p \in Proc : proc[p].state = "SLEEPING" =>
    /\ proc[p].chan = p /\ lock[wait_lock] = NULL =>
         Children(p) # {} /\ \A q \in Children(p) : proc[q].state # "ZOMBIE"
    /\ proc[p].chan = tickslock /\ lock[tickslock] = NULL => proc[p].left > 0

(* A trap handler runs with interrupts off also behind yield(), whatever    *)
(* ran on the hart in the meantime, and a system call without locks runs    *)
(* with interrupts on (exit() for a killed process excepted).               *)
ExitPc == {"exit", "reparent", "wake_init", "wake_parent", "exit_zombie"}

InterruptsRestored ==
  \A c \in Cpu : LET t == Current(c) IN
    /\ thr[t].trap # "none" => ~hart[c].sie
    /\ t \in Proc /\ thr[t].trap = "none" /\ hart[c].noff = 0 /\ thr[t].pc \notin ExitPc => hart[c].sie

(* A RUNNABLE process gets to run: the scan comes round to it and its lock. *)
RunnableRuns == \A p \in Proc : proc[p].state = "RUNNABLE" ~> proc[p].state = "RUNNING"

(* A zombie that init inherits or begets gets init out of wait(): init is   *)
(* woken, or finds it on the way in.  (Which zombie it reaps is another     *)
(* matter: the scan starts at the lowest slot.)                             *)
InitReaps ==
  (\E p \in Proc : proc[p].state = "ZOMBIE" /\ proc[p].parent = initproc) ~> thr[initproc].pc = "ret"
=============================================================================
