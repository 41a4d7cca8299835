-------------------------- MODULE ProcSwitchProofs --------------------------
(***************************************************************************)
(* The inductive invariant of Proc, for any number of harts and process    *)
(* slots, and the proof that every step keeps it: what a thread holds at   *)
(* each of its labels, who may be in which state of struct proc, and what  *)
(* interrupts are worth when.  First the steps of the system calls, then   *)
(* those of the trap handler, of the scheduler and of fork()'s last part.  *)
(***************************************************************************)
EXTENDS Proc, WellFoundedInduction, TLAPS

(* The types of struct proc, struct cpu and of a kernel thread: where it is, *)
(* its loop counters, where a trap interrupted it, and the intena that       *)
(* sched() saves.                                                            *)
States == {"UNUSED", "USED", "SLEEPING", "RUNNABLE", "RUNNING", "ZOMBIE"}
ProcType == [state : States, parent : Proc \cup {NULL}, chan : Lock \cup {NULL}, killed : BOOLEAN, left : Nat]
HartType == [proc : Proc \cup {NULL}, noff : Int, intena : BOOLEAN, sie : BOOLEAN]
Labels ==
  {"dead", "forkret", "scan", "clock", "clock_wake", "clock_end", "preempt", "sched",
   "yielded", "trapret", "none", "user", "user_wait", "alloc", "fork_parent", "fork_run",
   "exit", "reparent", "wake_init", "wake_parent", "exit_zombie", "wait", "wait_scan", "wait_sleep",
   "wait_woken", "sleep", "sleep_again", "sleep_loop", "sleep_go", "sleep_woken", "kill", "ret"}
ThreadType == [pc : Labels, ix : Int, wx : Int, trap : Labels, intena : BOOLEAN]

(* The types of the variables.                                               *)
TypeInv ==
  /\ proc \in [Proc -> ProcType]
  /\ lock \in [Lock -> Cpu \cup {NULL}]
  /\ hart \in [Cpu -> HartType]
  /\ thr \in [Thread -> ThreadType]
  /\ panicked \in BOOLEAN

(* Processes and the two global locks are locks, and no scheduler is a       *)
(* process.                                                                  *)
LEMMA Sets ==
  /\ Proc \subseteq Thread /\ Proc \subseteq Lock /\ wait_lock \in Lock /\ tickslock \in Lock
  /\ wait_lock \notin Proc /\ tickslock \notin Proc /\ wait_lock # tickslock
  /\ \A c \in Cpu : Scheduler(c) \in Thread \ Proc
  /\ \A c, d \in Cpu : Scheduler(c) = Scheduler(d) => c = d
  /\ initproc \in Proc /\ NULL \notin Lock /\ NULL \notin Cpu /\ NULL \notin Proc
  /\ Proc \subseteq Int /\ Cpu \subseteq Int /\ 0 \in Int /\ 1 \in Int
BY SizesAssumption DEF Proc, Thread, Lock, wait_lock, tickslock, Scheduler, Cpu, initproc

(* The places that a thread can be at.                                       *)
LEMMA Words ==
  /\ "dead" \in Labels /\ "forkret" \in Labels /\ "scan" \in Labels /\ "clock" \in Labels /\ "clock_wake" \in Labels
  /\ "clock_end" \in Labels /\ "preempt" \in Labels /\ "sched" \in Labels /\ "yielded" \in Labels /\ "trapret" \in Labels
  /\ "none" \in Labels /\ "user" \in Labels /\ "user_wait" \in Labels /\ "alloc" \in Labels /\ "fork_parent" \in Labels
  /\ "fork_run" \in Labels /\ "exit" \in Labels /\ "reparent" \in Labels /\ "wake_init" \in Labels /\ "wake_parent" \in Labels
  /\ "exit_zombie" \in Labels /\ "wait" \in Labels /\ "wait_scan" \in Labels /\ "wait_sleep" \in Labels /\ "wait_woken" \in Labels
  /\ "sleep" \in Labels /\ "sleep_again" \in Labels /\ "sleep_loop" \in Labels /\ "sleep_go" \in Labels /\ "sleep_woken" \in Labels
  /\ "kill" \in Labels /\ "ret" \in Labels
BY DEF Labels

(* push_off() and pop_off() keep the type of struct cpu.                     *)
LEMMA PopType ==
  ASSUME NEW h \in HartType
  PROVE  pop_off(h) \in HartType /\ push_off(h) \in HartType
<1>1. ASSUME NEW n \in Int, NEW a \in BOOLEAN, NEW b \in BOOLEAN
      PROVE  [h EXCEPT !.noff = n, !.sie = a, !.intena = b] \in HartType
  BY <1>1, Zenon DEF HartType
<1>2. ASSUME NEW n \in Int, NEW a \in BOOLEAN, NEW b \in BOOLEAN
      PROVE  [h EXCEPT !.sie = a, !.noff = n, !.intena = b] \in HartType
  BY <1>2, Zenon DEF HartType
<1>3. h.noff - 1 \in Int /\ h.noff + 1 \in Int /\ h.intena \in BOOLEAN /\ h.sie \in BOOLEAN
  BY DEF HartType
<1>4. /\ (h.noff = 1 /\ h.intena) \in BOOLEAN /\ (h.noff # 1 /\ h.intena) \in BOOLEAN
      /\ (IF h.noff = 0 THEN h.sie ELSE h.intena) \in BOOLEAN /\ FALSE \in BOOLEAN
  BY <1>3
<1>5. pop_off(h) \in HartType
  BY <1>1, <1>3, <1>4, Zenon DEF pop_off
<1>6. push_off(h) \in HartType
  BY <1>2, <1>3, <1>4, Zenon DEF push_off
<1> QED BY <1>5, <1>6

(* The lowest process slot of a set, which is where a loop over proc[] stops *)
(* first.                                                                    *)
LEMMA LeastOf ==
  ASSUME NEW S \in SUBSET Proc, S # {}
  PROVE  Least(S) \in S /\ \A q \in S : Least(S) <= q
<1> DEFINE R == OpToRel(<, Nat)
<1>1. IsWellFoundedOn(R, Nat)
  BY NatLessThanWellFounded, Zenon
<1>2. S \subseteq Nat /\ Proc \subseteq Nat
  BY SizesAssumption DEF Proc
<1>3. \A x, y \in Nat : x < y => <<x, y>> \in R
  BY DEF OpToRel
<1> HIDE DEF R
<1>4. \E x \in S : \A y \in S : ~(<<y, x>> \in R)
  BY <1>1, <1>2, WFMin, Zenon
<1>5. PICK x \in S : \A y \in S : ~(<<y, x>> \in R)
  BY <1>4
<1>6. \A y \in S : ~(y < x)
  BY <1>2, <1>3, <1>5, Zenon
<1>7. \A y \in S : x <= y
  BY <1>2, <1>6
<1> QED BY <1>7 DEF Least
-----------------------------------------------------------------------------
(* The places at which a thread holds wait_lock, tickslock or its own        *)
(* p->lock, and those where it holds no lock.                                *)
WaitLabels == {"reparent", "wake_init", "wake_parent", "exit_zombie", "wait_scan", "wait_sleep"}
TickLabels == {"clock_wake", "clock_end", "sleep_loop", "sleep_go"}
OffLabels == {"yielded", "wait_woken", "sleep_woken", "forkret"}
OpenLabels == {"user", "user_wait", "alloc", "fork_parent", "fork_run", "exit", "wait", "sleep",
               "sleep_again", "kill", "ret"}
SchedulerLabels == {"scan", "clock", "clock_wake", "clock_end", "preempt", "trapret"}
RunLabels == OpenLabels \cup WaitLabels \cup {"sleep_loop", "sleep_go"}
InTrap == {"clock", "clock_wake", "clock_end", "preempt", "sched", "yielded", "trapret"}

(* Process p is the one that some hart runs.                                 *)
On(p) == \E c \in Cpu : myproc(c) = p
(* The lock held by a thread at label l, and by thread t.                    *)
HoldsAt(l, t) ==
  IF l \in WaitLabels THEN {wait_lock}
  ELSE IF l \in TickLabels THEN {tickslock}
  ELSE IF l \in OffLabels \/ l = "sched" THEN {t} ELSE {}
Holds(t) == HoldsAt(thr[t].pc, t)

(* Lock discipline. A hart owns exactly the locks that its thread holds      *)
(* where it is: at most one here, so noff is 0 or 1, and interrupts are off  *)
(* while there is one.                                                       *)
LockInv ==
  \A c \in Cpu :
    /\ \A l \in Lock : lock[l] = c <=> l \in Holds(Current(c))
    /\ hart[c].noff = IF Holds(Current(c)) = {} THEN 0 ELSE 1
    /\ Holds(Current(c)) # {} => ~hart[c].sie

(* The scheduler of hart c waits in swtch() while a process runs there; a    *)
(* trap can interrupt it only in its scan.                                   *)
SchedulerOK(c) ==
  LET s == Scheduler(c) IN
  /\ thr[s].pc \in SchedulerLabels /\ thr[s].ix \in Proc
  /\ thr[s].trap = IF thr[s].pc = "scan" THEN "none" ELSE "scan"
  /\ myproc(c) # NULL => thr[s].pc = "scan"

(* No process is current on two harts.                                       *)
HartInv ==
  /\ \A c, d \in Cpu : c # d /\ myproc(c) # NULL => myproc(c) # myproc(d)
  /\ \A c \in Cpu : SchedulerOK(c)

(* p->state and the place of p. A hart runs p only if p is RUNNING, or is    *)
(* leaving through sched(); off the harts, p is dead, or waits at the place  *)
(* that swtch() will return to.                                              *)
StateOK(p) ==
  /\ On(p) => \/ proc[p].state = "RUNNING" /\ thr[p].pc \notin {"sched", "dead"}
              \/ proc[p].state \in {"RUNNABLE", "SLEEPING", "ZOMBIE"} /\ thr[p].pc = "sched"
  /\ ~On(p) => \/ proc[p].state \in {"UNUSED", "USED", "ZOMBIE"} /\ thr[p].pc = "dead"
               \/ proc[p].state \in {"RUNNABLE", "SLEEPING"} /\ thr[p].pc \in OffLabels

(* A trap interrupts p only where it holds no lock, and sched() is reached   *)
(* from yield(), sleep() or exit() with the state that each of them sets.    *)
TrapOK(p) ==
  /\ thr[p].trap # "none" => thr[p].pc \in InTrap /\ thr[p].trap \in OpenLabels
  /\ thr[p].trap = "none" => thr[p].pc \in RunLabels \cup {"sched", "wait_woken", "sleep_woken", "forkret", "dead"}
  /\ thr[p].pc = "sched" =>
       \/ thr[p].trap # "none" /\ proc[p].state = "RUNNABLE" /\ proc[p].chan = NULL
       \/ thr[p].trap = "none" /\ proc[p].state = "SLEEPING" /\ proc[p].chan \in {p, tickslock}
       \/ thr[p].trap = "none" /\ proc[p].state = "ZOMBIE" /\ proc[p].chan = NULL

(* p->chan is set exactly from sleep() until the sleeper has run again.      *)
ChanOK(p) ==
  /\ thr[p].pc = "wait_woken" => proc[p].chan = p
  /\ thr[p].pc = "sleep_woken" => proc[p].chan = tickslock
  /\ thr[p].pc \notin {"sched", "wait_woken", "sleep_woken"} => proc[p].chan = NULL
  /\ proc[p].state = "SLEEPING" => thr[p].pc \in {"sched", "wait_woken", "sleep_woken"}

(* StateOK, TrapOK and ChanOK for every process.                             *)
PlaceInv == \A p \in Proc : StateOK(p) /\ TrapOK(p) /\ ChanOK(p)

(* Where thread t is in its own code, a trap handler not counted.            *)
Pos(t) == IF thr[t].trap = "none" THEN thr[t].pc ELSE thr[t].trap
(* Process p is between allocproc() and the end of fork().                   *)
Forking(p) == Pos(p) \in {"fork_parent", "fork_run"}
(* The places in the loop of wakeup().                                       *)
WakeLabels == {"wake_init", "wake_parent", "clock_wake"}

(* The slot that fork() fills stays USED, and is the slot of one fork()      *)
(* only; the loops of allocproc() and wakeup() stay within proc[].           *)
ForkInv ==
  /\ \A p \in Proc : Pos(p) = "alloc" => thr[p].ix \in Proc
  /\ \A p \in Proc : Forking(p) => thr[p].ix \in Proc /\ proc[thr[p].ix].state = "USED"
  /\ \A p, q \in Proc : Forking(p) /\ Forking(q) /\ thr[p].ix = thr[q].ix => p = q
  /\ \A t \in Thread : thr[t].pc \in WakeLabels => thr[t].wx \in Proc

(* initproc is never killed and never exits.                                 *)
InitOK ==
  /\ ~proc[initproc].killed /\ proc[initproc].state \notin {"UNUSED", "USED", "ZOMBIE"}
  /\ Pos(initproc) \notin ExitPc

(* Whether hart c has interrupts enabled, not counting push_off().           *)
Ena(c) == IF hart[c].noff = 0 THEN hart[c].sie ELSE hart[c].intena

(* Interrupts stay disabled through a trap, and a system call runs with them *)
(* enabled until exit(), which no longer cares.                              *)
IntrOK(c) ==
  LET t == Current(c) IN
  /\ thr[t].trap # "none" => ~Ena(c)
  /\ /\ t \in Proc /\ thr[t].trap = "none" /\ thr[t].pc \notin ExitPc \cup {"forkret"}
     /\ ~(thr[t].pc = "sched" /\ proc[t].state = "ZOMBIE")
     => Ena(c)

(* The intena that sched() saved for p: disabled when a trap brought p       *)
(* there, enabled otherwise.                                                 *)
SavedOK(p) ==
  ~On(p) /\ thr[p].pc \in {"yielded", "wait_woken", "sleep_woken"} => (thr[p].intena <=> thr[p].trap = "none")

(* IntrOK on every hart and SavedOK for every process.                       *)
IntrInv == (\A c \in Cpu : IntrOK(c)) /\ (\A p \in Proc : SavedOK(p))

(* The inductive invariant. It also says that no panic() of acquire(),       *)
(* release(), pop_off(), sched() and exit() is reached.                      *)
Base == TypeInv /\ IntrInv /\ ~panicked /\ LockInv /\ HartInv /\ PlaceInv /\ ForkInv /\ InitOK

(* Only thread t moves, and it stays on hart c. *)
Local(c, t) ==
  /\ \A d \in Cpu : hart'[d].proc = hart[d].proc
  /\ \A d \in Cpu \ {c} : hart'[d] = hart[d]
  /\ \A u \in Thread \ {t} : thr'[u] = thr[u]

(* A step of t on hart c that keeps the lock discipline.                     *)
LockStep(c, t) ==
  /\ Local(c, t) /\ LockInv' /\ panicked' = FALSE
  /\ hart' \in [Cpu -> HartType] /\ lock' \in [Lock -> Cpu \cup {NULL}]

(* A hart's thread is the process it runs, or else its scheduler, and no     *)
(* other hart has it.                                                        *)
LEMMA CurrentThread ==
  ASSUME TypeInv, HartInv, NEW c \in Cpu
  PROVE  /\ Current(c) \in Thread
         /\ \A d \in Cpu \ {c} : Current(d) # Current(c)
         /\ Current(c) \in Proc <=> myproc(c) # NULL
         /\ Current(c) \in Proc => Current(c) = myproc(c)
         /\ Current(c) \notin Proc => Current(c) = Scheduler(c)
BY Sets, ZenonT(40) DEF Current, myproc, HartInv, TypeInv, HartType

(* A local step moves nobody between harts.                                  *)
LEMMA LocalPlace ==
  ASSUME NEW c \in Cpu, NEW t, Local(c, t)
  PROVE  (\A d \in Cpu : Current(d)' = Current(d) /\ myproc(d)' = myproc(d)) /\ (\A p : On(p)' <=> On(p))
BY DEF Local, Current, myproc, On

(* The lock discipline is kept when the stepping hart keeps it and leaves    *)
(* the locks of the others alone.                                            *)
LEMMA LockLocal ==
  ASSUME Base, NEW c \in Cpu, NEW t \in Thread, t = Current(c), Local(c, t),
         \A l \in Lock, d \in Cpu \ {c} : lock'[l] = d <=> lock[l] = d,
         \A l \in Lock : lock'[l] = c <=> l \in Holds(t)',
         hart'[c].noff = IF Holds(t)' = {} THEN 0 ELSE 1,
         Holds(t)' # {} => ~hart'[c].sie
  PROVE  LockInv'
<1> SUFFICES ASSUME NEW d \in Cpu
             PROVE  /\ \A l \in Lock : lock'[l] = d <=> l \in Holds(Current(d))'
                    /\ hart'[d].noff = IF Holds(Current(d))' = {} THEN 0 ELSE 1
                    /\ Holds(Current(d))' # {} => ~hart'[d].sie
  BY DEF LockInv
<1>1. Current(d)' = Current(d) /\ Current(d) \in Thread
  BY LocalPlace, CurrentThread DEF Base
<1>2. CASE d = c
  BY <1>1, <1>2 DEF Holds
<1>3. CASE d # c
  <2>1. Current(d) # t
    BY <1>3, CurrentThread DEF Base
  <2>2. Holds(Current(d))' = Holds(Current(d))
    BY <1>1, <2>1 DEF Holds, Local
  <2>3. hart'[d] = hart[d]
    BY <1>3 DEF Local
  <2> QED BY <1>3, <2>2, <2>3 DEF LockInv, Base
<1> QED BY <1>2, <1>3

(* acquire() of a free lock by a thread that holds none.                     *)
LEMMA LockAcquire ==
  ASSUME Base, NEW c \in Cpu, NEW t \in Thread, t = Current(c),
         NEW l \in Lock, lock[l] = NULL, acquire(c, l), Holds(t) = {}, Holds(t)' = {l},
         \A u \in Thread \ {t} : thr'[u] = thr[u]
  PROVE  LockStep(c, t) /\ (Ena(c)' <=> Ena(c))
<1>0. hart[c] \in HartType /\ hart[c].noff = 0 /\ NULL \notin Cpu
  BY Sets DEF TypeInv, LockInv, Base
<1>1. /\ hart'[c].noff = 1 /\ (hart'[c].intena <=> hart[c].sie) /\ ~hart'[c].sie /\ hart'[c].proc = hart[c].proc
      /\ \A d \in Cpu \ {c} : hart'[d] = hart[d]
  BY <1>0 DEF acquire, push_off, HartType, TypeInv, Base
<1>2. Local(c, t)
  BY <1>1 DEF Local
<1>3. \A m \in Lock : /\ \A d \in Cpu \ {c} : lock'[m] = d <=> lock[m] = d
                      /\ lock'[m] = c <=> m = l
  BY <1>0 DEF acquire, TypeInv, LockInv, Base
<1>4. LockInv'
  BY <1>1, <1>2, <1>3, LockLocal
<1>5. hart' \in [Cpu -> HartType] /\ lock' \in [Lock -> Cpu \cup {NULL}]
  BY <1>0, PopType DEF acquire, TypeInv, Base
<1>6. panicked' = FALSE
  BY Zenon DEF acquire, TypeInv, Base
<1> QED BY <1>0, <1>1, <1>2, <1>4, <1>5, <1>6 DEF LockStep, Ena

(* release() of the one lock that the thread holds: it does not panic, and   *)
(* pop_off() restores interrupts.                                            *)
LEMMA LockRelease ==
  ASSUME Base, NEW c \in Cpu, NEW t \in Thread, t = Current(c),
         NEW l \in Lock, release(c, l), Holds(t) = {l}, Holds(t)' = {},
         \A u \in Thread \ {t} : thr'[u] = thr[u]
  PROVE  LockStep(c, t) /\ (Ena(c)' <=> Ena(c))
<1>0. hart[c] \in HartType /\ hart[c].noff = 1 /\ ~hart[c].sie /\ lock[l] = c /\ NULL \notin Cpu
  BY Sets DEF TypeInv, LockInv, Base
<1>1. /\ hart'[c].noff = 0 /\ (hart'[c].sie <=> hart[c].intena) /\ hart'[c].proc = hart[c].proc
      /\ \A d \in Cpu \ {c} : hart'[d] = hart[d]
  BY <1>0 DEF release, pop_off, HartType, TypeInv, Base
<1>2. Local(c, t)
  BY <1>1 DEF Local
<1>3. \A m \in Lock : /\ \A d \in Cpu \ {c} : lock'[m] = d <=> lock[m] = d
                      /\ lock'[m] # c
  BY <1>0 DEF release, TypeInv, LockInv, Base
<1>4. panicked' = FALSE
  <2>1. holding(c, l) /\ MayPop(hart[c])
    BY <1>0 DEF holding, MayPop
  <2> QED BY <2>1, Zenon DEF release
<1>5. LockInv'
  BY <1>1, <1>2, <1>3, LockLocal
<1>6. hart' \in [Cpu -> HartType] /\ lock' \in [Lock -> Cpu \cup {NULL}]
  BY <1>0, PopType DEF release, TypeInv, Base
<1> QED BY <1>0, <1>1, <1>2, <1>4, <1>5, <1>6 DEF LockStep, Ena

(* Taking p->lock and then giving back the lock lk, as sleep() does.         *)
LEMMA LockExchange ==
  ASSUME Base, NEW c \in Cpu, NEW t \in Thread, t = Current(c),
         NEW l \in Lock, NEW m \in Lock, l # m, lock[l] = NULL, Exchange(c, l, m), Holds(t) = {m}, Holds(t)' = {l},
         \A u \in Thread \ {t} : thr'[u] = thr[u]
  PROVE  LockStep(c, t) /\ (Ena(c)' <=> Ena(c))
<1>0. hart[c].noff = 1 /\ ~hart[c].sie /\ lock[m] = c /\ NULL \notin Cpu
  BY Sets DEF TypeInv, LockInv, Base
<1>1. Local(c, t) /\ hart' = hart
  BY DEF Local, Exchange
<1>2. \A k \in Lock : /\ \A d \in Cpu \ {c} : lock'[k] = d <=> lock[k] = d
                      /\ lock'[k] = c <=> k = l
  BY <1>0 DEF Exchange, TypeInv, LockInv, Base
<1>3. panicked' = FALSE
  BY <1>0, Zenon DEF Exchange, holding
<1>4. LockInv'
  BY <1>0, <1>1, <1>2, LockLocal
<1>5. hart' \in [Cpu -> HartType] /\ lock' \in [Lock -> Cpu \cup {NULL}]
  BY <1>1 DEF Exchange, TypeInv, Base
<1> QED BY <1>1, <1>3, <1>4, <1>5 DEF LockStep, Ena

(* A step that leaves the locks as they are.                                 *)
LEMMA LockBalanced ==
  ASSUME Base, NEW c \in Cpu, NEW t \in Thread, t = Current(c),
         Balanced, Holds(t)' = Holds(t), \A u \in Thread \ {t} : thr'[u] = thr[u]
  PROVE  LockStep(c, t) /\ (Ena(c)' <=> Ena(c))
<1>1. Local(c, t) /\ hart' = hart /\ lock' = lock
  BY DEF Local, Balanced
<1>2. LockInv'
  BY <1>1, LockLocal DEF LockInv, Base
<1>3. panicked' = FALSE
  BY Zenon DEF Balanced, TypeInv, Base
<1> QED BY <1>1, <1>2, <1>3 DEF LockStep, Ena, TypeInv, Base

(* What a step of t may do to another process: nothing, wake it up, free a   *)
(* slot nobody runs in, or take an UNUSED one.                               *)
Untouched(p) == proc'[p].state = proc[p].state /\ proc'[p].chan = proc[p].chan
WokenUp(p) ==
  /\ lock[p] = NULL /\ proc[p].state = "SLEEPING" /\ proc'[p].state = "RUNNABLE"
  /\ proc'[p].chan = proc[p].chan
Freed(p) ==
  /\ lock[p] = NULL /\ proc[p].state \in {"UNUSED", "ZOMBIE"} /\ proc'[p].state = "UNUSED"
  /\ proc'[p].chan = NULL
Taken(p) == proc[p].state = "UNUSED" /\ proc'[p].state = "USED" /\ proc'[p].chan = proc[p].chan

(* A process whose lock is free is not behind sched() on a hart. *)
LEMMA NotSwitching ==
  ASSUME Base, NEW p \in Proc, lock[p] = NULL
  PROVE  thr[p].pc # "sched"
<1> SUFFICES ASSUME thr[p].pc = "sched" PROVE FALSE
  OBVIOUS
<1>1. On(p)
  BY DEF Base, PlaceInv, StateOK, OffLabels
<1>2. PICK d \in Cpu : myproc(d) = p
  BY <1>1 DEF On
<1>3. Current(d) = p
  BY <1>2, Sets DEF Current
<1>4. p \in Holds(p)
  BY DEF Holds, HoldsAt, WaitLabels, TickLabels
<1>5. lock[p] = d
  BY <1>3, <1>4, Sets DEF Base, LockInv
<1> QED BY <1>5, Sets

(* A local step keeps the invariant when the lock discipline and the clauses *)
(* about the stepping thread hold after it.                                  *)
LEMMA LocalBase ==
  ASSUME Base, NEW c \in Cpu, NEW t \in Thread, t = Current(c), LockStep(c, t), IntrOK(c)',
         proc' \in [Proc -> ProcType], thr' \in [Thread -> ThreadType],
         \A p \in Proc \ {t} : Untouched(p) \/ WokenUp(p) \/ Freed(p) \/ Taken(p),
         t \notin Proc => SchedulerOK(c)',
         t \in Proc => StateOK(t)' /\ TrapOK(t)' /\ ChanOK(t)',
         t \in Proc /\ Pos(t)' = "alloc" => thr'[t].ix \in Proc,
         t \in Proc /\ Forking(t)' => /\ thr'[t].ix = thr[t].ix
                                      /\ Forking(t) \/ (thr[t].ix \in Proc \ {t} /\ Taken(thr[t].ix)),
         thr'[t].pc \in WakeLabels => thr'[t].wx \in Proc,
         ~proc'[initproc].killed,
         t = initproc => Pos(t)' \notin ExitPc /\ proc'[t].state \notin {"UNUSED", "USED", "ZOMBIE"}
  PROVE  Base'
<1>0. /\ \A d \in Cpu : Current(d)' = Current(d) /\ myproc(d)' = myproc(d)
      /\ \A p : On(p)' <=> On(p)
      /\ \A u \in Thread \ {t} : thr'[u] = thr[u]
  BY LocalPlace DEF Local, LockStep
<1>1. HartInv'
  <2>1. ASSUME NEW d \in Cpu PROVE SchedulerOK(d)'
    <3>1. CASE t = Scheduler(d)
      <4>1. t \notin Proc
        BY <3>1, Sets
      <4>2. t = Scheduler(c)
        BY <4>1, CurrentThread DEF Base
      <4>3. d = c
        BY <3>1, <4>2, Sets, ZenonT(40)
      <4> QED BY <4>1, <4>3
    <3>2. CASE t # Scheduler(d)
      <4>1. Scheduler(d) \in Thread \ {t}
        BY Zenon, <3>2, Sets
      <4> QED BY <1>0, <4>1 DEF Base, HartInv, SchedulerOK, Scheduler
    <3> QED BY <3>1, <3>2
  <2> QED BY ZenonT(40), <1>0, <2>1 DEF Base, HartInv
<1>2. ASSUME NEW p \in Proc, p # t PROVE StateOK(p)' /\ TrapOK(p)' /\ ChanOK(p)' /\ SavedOK(p)'
  <2>1. /\ thr'[p] = thr[p] /\ (On(p)' <=> On(p)) /\ StateOK(p) /\ TrapOK(p) /\ ChanOK(p) /\ SavedOK(p)
        /\ lock[p] = NULL => thr[p].pc # "sched"
    BY Zenon, <1>0, <1>2, Sets, NotSwitching DEF Base, PlaceInv, IntrInv
  <2>2. CASE Untouched(p)
    <3>1. StateOK(p)'
      BY Zenon, <2>1, <2>2 DEF Untouched, StateOK
    <3>2. TrapOK(p)'
      BY ZenonT(40), <2>1, <2>2 DEF Untouched, TrapOK
    <3>3. ChanOK(p)'
      <4>1. /\ proc'[p].state = proc[p].state /\ proc'[p].chan = proc[p].chan
            /\ thr'[p] = thr[p] /\ ChanOK(p)
        BY Zenon, <2>1, <2>2 DEF Untouched
      <4> QED BY Zenon, <4>1 DEF ChanOK
    <3>4. SavedOK(p)'
      BY ZenonT(40), <2>1 DEF SavedOK
    <3> QED BY Zenon, <3>1, <3>2, <3>3, <3>4
  <2>3. CASE WokenUp(p)
    BY ZenonT(40), <2>1, <2>3 DEF WokenUp, StateOK, TrapOK, ChanOK, SavedOK
  <2>4. CASE Freed(p)
    BY Zenon, <2>1, <2>4 DEF Freed, StateOK, TrapOK, ChanOK, SavedOK
  <2>5. CASE Taken(p)
    BY ZenonT(40), <2>1, <2>5 DEF Taken, StateOK, TrapOK, ChanOK, SavedOK
  <2> QED BY Zenon, <1>2, <2>2, <2>3, <2>4, <2>5
<1>3. PlaceInv'
  BY Zenon, <1>2 DEF PlaceInv
<1>4. \A p \in Proc \ {t} : /\ thr'[p] = thr[p] /\ (Forking(p)' <=> Forking(p)) /\ Pos(p)' = Pos(p)
                            /\ proc[p].state = "USED" => proc'[p].state = "USED"
  BY ZenonT(40), <1>0, Sets DEF Forking, Pos, Untouched, WokenUp, Freed, Taken
<1>5. t \in Proc => On(t) /\ proc[t].state # "USED"
  <2> SUFFICES ASSUME t \in Proc PROVE On(t) /\ proc[t].state # "USED"
    OBVIOUS
  <2>1. On(t) /\ StateOK(t)
    BY Zenon, CurrentThread DEF Base, On, PlaceInv
  <2> QED BY <2>1 DEF StateOK
<1>6. ForkInv'
  <2>1. \A p \in Proc : Pos(p)' = "alloc" => thr'[p].ix \in Proc
    BY Zenon, <1>4 DEF Base, ForkInv
  <2>2. ASSUME NEW p \in Proc, Forking(p)'
        PROVE  /\ thr'[p].ix = thr[p].ix /\ thr[p].ix \in Proc /\ proc'[thr[p].ix].state = "USED"
               /\ Forking(p) \/ (p = t /\ proc[thr[p].ix].state = "UNUSED")
    <3>1. Forking(p) => thr[p].ix \in Proc /\ proc[thr[p].ix].state = "USED" /\ thr[p].ix # t
      BY Zenon, <1>5 DEF Base, ForkInv
    <3>2. CASE p # t
      BY Zenon, <1>4, <2>2, <3>1, <3>2
    <3>3. CASE p = t
      <4>1. /\ thr'[t].ix = thr[t].ix
            /\ Forking(t) \/ (thr[t].ix \in Proc \ {t} /\ Taken(thr[t].ix))
        BY Zenon, <2>2, <3>3
      <4>2. CASE Forking(t)
        BY Zenon, <1>4, <3>1, <3>3, <4>1, <4>2
      <4>3. CASE thr[t].ix \in Proc \ {t} /\ Taken(thr[t].ix)
        BY Zenon, <3>3, <4>1, <4>3 DEF Taken
      <4> QED BY Zenon, <4>1, <4>2, <4>3
    <3> QED BY Zenon, <3>2, <3>3
  <2>3. ASSUME NEW p \in Proc, NEW q \in Proc, Forking(p)', Forking(q)', thr'[p].ix = thr'[q].ix PROVE p = q
    <3>1. thr[p].ix = thr[q].ix
      BY Zenon, <2>2, <2>3
    <3>2. /\ Forking(p) => proc[thr[p].ix].state = "USED"
          /\ Forking(q) => proc[thr[q].ix].state = "USED"
          /\ Forking(p) /\ Forking(q) => p = q
      BY Zenon, <3>1 DEF Base, ForkInv
    <3> QED BY Zenon, <2>2, <2>3, <3>1, <3>2
  <2>4. \A u \in Thread : thr'[u].pc \in WakeLabels => thr'[u].wx \in Proc
    BY Zenon, <1>0 DEF Base, ForkInv
  <2> QED BY Zenon, <2>1, <2>2, <2>3, <2>4 DEF ForkInv
<1>7. InitOK'
  BY <1>4, Sets DEF Base, InitOK, Untouched, WokenUp, Freed, Taken
<1>8. IntrInv'
  <2>1. ASSUME NEW d \in Cpu, d # c PROVE IntrOK(d)'
    <3> DEFINE u == Current(d)
    <3>1. u \in Thread \ {t} /\ thr'[u] = thr[u] /\ hart'[d] = hart[d] /\ IntrOK(d) /\ Current(d)' = u
      BY ZenonT(40), <1>0, <2>1, CurrentThread DEF Base, IntrInv, Local, LockStep
    <3>2. Ena(d)' <=> Ena(d)
      BY <3>1 DEF Ena
    <3>3. u \in Proc /\ thr[u].pc = "sched" => (proc'[u].state = "ZOMBIE" <=> proc[u].state = "ZOMBIE")
      BY ZenonT(40), <3>1, NotSwitching, <1>2 DEF Untouched, WokenUp, Freed, Taken, PlaceInv, Base, StateOK
    <3> HIDE DEF u
    <3>4. Current(d) = u
      BY DEF u
    <3> QED BY Zenon, <3>1, <3>2, <3>3, <3>4 DEF IntrOK
  <2>2. \A p \in Proc : SavedOK(p)'
    BY Zenon, <1>0, <1>2, <1>5 DEF SavedOK
  <2> QED BY ZenonT(40), <2>1, <2>2 DEF IntrInv
<1>9. TypeInv'
  BY Zenon DEF TypeInv, LockStep
<1>10. LockInv' /\ ~panicked'
  BY DEF LockStep
<1> QED BY <1>1, <1>3, <1>6, <1>7, <1>8, <1>9, <1>10 DEF Base
(* Thread t goes on at label l with loop counters i and w and trap place tr. *)
Moved(t, l, i, w, tr) ==
  /\ thr' \in [Thread -> ThreadType] /\ \A u \in Thread \ {t} : thr'[u] = thr[u]
  /\ thr'[t].pc = l /\ thr'[t].ix = i /\ thr'[t].wx = w /\ thr'[t].trap = tr

(* The ways in which an action writes its thread: a new place, with one loop *)
(* counter or with the trap place.                                           *)
LEMMA MovedPc ==
  ASSUME Base, NEW t \in Thread, NEW l \in Labels, Goto(t, l)
  PROVE  Moved(t, l, thr[t].ix, thr[t].wx, thr[t].trap)
BY DEF Base, TypeInv, ThreadType, Goto, Moved

(* As MovedPc, for a step that also sets the loop counter ix.                *)
LEMMA MovedPcIx ==
  ASSUME Base, NEW t \in Thread, NEW l \in Labels, NEW i \in Int, GotoAt(t, l, i)
  PROVE  Moved(t, l, i, thr[t].wx, thr[t].trap)
<1>1. thr' = [thr EXCEPT ![t] = [@ EXCEPT !.pc = l, !.ix = i]]
  BY Zenon DEF Base, TypeInv, GotoAt
<1>2. thr[t] \in ThreadType
  BY DEF Base, TypeInv
<1>3. [thr[t] EXCEPT !.pc = l, !.ix = i] \in ThreadType
  BY <1>2, Zenon DEF ThreadType
<1>4. thr' \in [Thread -> ThreadType]
  BY <1>1, <1>3 DEF Base, TypeInv
<1> QED BY <1>1, <1>2, <1>4 DEF Moved, Base, TypeInv, ThreadType

(* As MovedPc, for a step of wakeup()'s loop.                                *)
LEMMA MovedPcWx ==
  ASSUME Base, NEW t \in Thread, NEW l \in Labels, NEW w \in Int,
         \/ thr' = [thr EXCEPT ![t].pc = l, ![t].wx = w]
         \/ thr' = [thr EXCEPT ![t].wx = w, ![t].pc = l]
         \/ l = thr[t].pc /\ thr' = [thr EXCEPT ![t].wx = w]
  PROVE  Moved(t, l, thr[t].ix, w, thr[t].trap)
<1>1. thr' = [thr EXCEPT ![t] = [@ EXCEPT !.pc = l, !.wx = w]]
  BY Zenon DEF Base, TypeInv, ThreadType
<1>2. thr[t] \in ThreadType
  BY DEF Base, TypeInv
<1>3. [thr[t] EXCEPT !.pc = l, !.wx = w] \in ThreadType
  BY <1>2, Zenon DEF ThreadType
<1>4. thr' \in [Thread -> ThreadType]
  BY <1>1, <1>3 DEF Base, TypeInv
<1> QED BY <1>1, <1>2, <1>4 DEF Moved, Base, TypeInv, ThreadType

(* As MovedPc, for a step that enters or leaves a trap.                      *)
LEMMA MovedPcTrap ==
  ASSUME Base, NEW t \in Thread, NEW l \in Labels, NEW tr \in Labels,
         \/ thr' = [thr EXCEPT ![t].pc = l, ![t].trap = tr]
         \/ thr' = [thr EXCEPT ![t].trap = tr, ![t].pc = l]
  PROVE  Moved(t, l, thr[t].ix, thr[t].wx, tr)
<1>1. thr' = [thr EXCEPT ![t] = [@ EXCEPT !.pc = l, !.trap = tr]]
  BY Zenon DEF Base, TypeInv, ThreadType
<1>2. thr[t] \in ThreadType
  BY DEF Base, TypeInv
<1>3. [thr[t] EXCEPT !.pc = l, !.trap = tr] \in ThreadType
  BY <1>2, Zenon DEF ThreadType
<1>4. thr' \in [Thread -> ThreadType]
  BY <1>1, <1>3 DEF Base, TypeInv
<1> QED BY <1>1, <1>2, <1>4 DEF Moved, Base, TypeInv, ThreadType

(* The process that runs on hart c is RUNNING and on no channel until it    *)
(* reaches sched(), and the thread of a trap has interrupts off.            *)
LEMMA Running ==
  ASSUME Base, NEW c \in Cpu, NEW t \in Thread, t = Current(c)
  PROVE  /\ t \in Proc => On(t) /\ thr[t].pc # "dead"
         /\ t \in Proc /\ thr[t].pc # "sched" => proc[t].state = "RUNNING"
         /\ t \in Proc /\ thr[t].pc \notin {"sched", "wait_woken", "sleep_woken"} => proc[t].chan = NULL
         /\ t \in Proc => TrapOK(t)
         /\ thr[t].trap # "none" => ~hart[c].sie
         /\ t \notin Proc => SchedulerOK(c) /\ t = Scheduler(c)
         /\ IntrOK(c)
<1>1. t \in Proc => On(t) /\ StateOK(t) /\ TrapOK(t) /\ ChanOK(t)
  BY CurrentThread DEF Base, On, PlaceInv
<1>2. t \notin Proc => SchedulerOK(c) /\ t = Scheduler(c)
  BY CurrentThread DEF Base, HartInv
<1>3. IntrOK(c)
  BY DEF Base, IntrInv
<1>4. thr[t].trap # "none" => ~hart[c].sie
  BY <1>3 DEF IntrOK, Ena, Base, LockInv
<1> QED BY <1>1, <1>2, <1>3, <1>4 DEF StateOK, ChanOK

(* What a step of a process outside of traps leaves behind when it does not  *)
(* reach sched(): t goes to place l with the counters i and w.               *)
PlainMove(c, t, l, i, w) ==
  /\ t \in Proc /\ LockStep(c, t) /\ l \in RunLabels /\ Moved(t, l, i, w, "none")
  /\ l \notin ExitPc => \/ Ena(c)'
                        \/ /\ thr[t].trap = "none" /\ thr[t].pc \notin ExitPc \cup {"forkret", "sched"}
                           /\ Ena(c)' <=> Ena(c)
  /\ proc' \in [Proc -> ProcType] /\ proc'[t].state = "RUNNING" /\ proc'[t].chan = NULL
  /\ \A p \in Proc \ {t} : Untouched(p) \/ WokenUp(p) \/ Freed(p) \/ Taken(p)
  /\ ~proc'[initproc].killed
  /\ t = initproc => l \notin ExitPc
  /\ l = "alloc" => i \in Proc
  /\ l \in WakeLabels => w \in Proc
  /\ l \in {"fork_parent", "fork_run"} =>
       i = thr[t].ix /\ (Forking(t) \/ (i \in Proc \ {t} /\ Taken(i)))

(* Such a step preserves the invariant.                                      *)
LEMMA PlainStep ==
  ASSUME Base, NEW c \in Cpu, NEW t, t = Current(c), NEW l, NEW i, NEW w, PlainMove(c, t, l, i, w)
  PROVE  Base'
<1> USE DEF PlainMove
<1>1. t \in Thread /\ t # NULL
  BY Sets
<1>2. /\ thr'[t].pc = l /\ thr'[t].ix = i /\ thr'[t].wx = w /\ thr'[t].trap = "none"
      /\ Current(c)' = t /\ (On(t)' <=> On(t)) /\ On(t)
  BY Zenon, <1>1, LocalPlace, Running DEF Moved, LockStep
<1>3. l \notin {"sched", "dead", "wait_woken", "sleep_woken", "forkret"}
  BY DEF RunLabels, OpenLabels, WaitLabels
<1>4. StateOK(t)' /\ TrapOK(t)' /\ ChanOK(t)'
  BY Zenon, <1>2, <1>3 DEF StateOK, TrapOK, ChanOK
<1>5. IntrOK(c)'
  <2>1. l \notin ExitPc => Ena(c)'
    BY Zenon, <1>1, Running DEF IntrOK
  <2> QED BY Zenon, <1>2, <2>1 DEF IntrOK
<1>6. Pos(t)' = l /\ (Forking(t)' <=> l \in {"fork_parent", "fork_run"})
  BY <1>2 DEF Pos, Forking
<1>7. thr' \in [Thread -> ThreadType]
  BY DEF Moved
<1> QED BY Zenon, <1>1, <1>2, <1>4, <1>5, <1>6, <1>7, LocalBase
(* A thread at a place of a system call is a RUNNING process outside of      *)
(* traps.                                                                    *)
LEMMA Plain ==
  ASSUME Base, NEW c \in Cpu, NEW t \in Thread, t = Current(c), thr[t].pc \in RunLabels
  PROVE  /\ t \in Proc /\ thr[t].trap = "none" /\ proc[t].state = "RUNNING" /\ proc[t].chan = NULL
         /\ Pos(t) = thr[t].pc /\ proc[t] \in ProcType /\ thr[t] \in ThreadType
<1>1. thr[t].pc \notin SchedulerLabels \cup InTrap
  BY DEF RunLabels, SchedulerLabels, InTrap, OpenLabels, WaitLabels
<1>2. t \in Proc
  BY <1>1, Running DEF SchedulerOK
<1>3. thr[t].trap = "none"
  BY <1>1, <1>2, Running DEF TrapOK
<1>4. thr[t].pc \notin {"sched", "wait_woken", "sleep_woken"}
  BY DEF RunLabels, OpenLabels, WaitLabels
<1> QED BY <1>2, <1>3, <1>4, Running DEF Pos, Base, TypeInv

(* The lock that a step waits for is free when the step is taken.            *)
LEMMA LockFree ==
  ASSUME Base, NEW t \in Thread, Wants(t) \notin Held, Wants(t) \in Lock
  PROVE  lock[Wants(t)] = NULL
BY ZenonT(40) DEF Held

(* exit(), wait() and sys_sleep() take the lock they begin with. *)
LEMMA ExitEnters ==
  ASSUME Base, NEW c \in Cpu, NEW t \in Thread, t = Current(c), Wants(t) \notin Held,
         thr[t].pc = "exit", t # initproc, acquire(c, wait_lock), GotoAt(t, "reparent", 1), UNCHANGED proc
  PROVE  Base'
<1>1. Moved(t, "reparent", 1, thr[t].wx, thr[t].trap)
  BY Sets, Words, MovedPcIx, Zenon
<1>2. t \in Proc /\ thr[t].trap = "none" /\ proc[t].state = "RUNNING" /\ proc[t].chan = NULL
  BY Plain DEF RunLabels, OpenLabels
<1>3. lock[wait_lock] = NULL
  BY LockFree, Sets DEF Wants
<1>4. LockStep(c, t)
  BY <1>1, <1>3, LockAcquire, Sets DEF Moved, Holds, HoldsAt, WaitLabels, TickLabels, OffLabels
<1>5. (\A p \in Proc : Untouched(p)) /\ proc' \in [Proc -> ProcType] /\ ~proc'[initproc].killed
  BY DEF Untouched, Base, TypeInv, InitOK
<1>6. proc'[t].state = "RUNNING" /\ proc'[t].chan = NULL
  BY ZenonT(40), <1>2
<1>20. PlainMove(c, t, "reparent", 1, thr[t].wx)
  BY <1>1, <1>2, <1>4, <1>5, <1>6 DEF PlainMove, RunLabels, WaitLabels, ExitPc, WakeLabels
<1> QED BY Zenon, <1>20, PlainStep

(* wait() takes wait_lock.                                                   *)
LEMMA WaitEnters ==
  ASSUME Base, NEW c \in Cpu, NEW t \in Thread, t = Current(c), Wants(t) \notin Held,
         thr[t].pc = "wait", acquire(c, wait_lock), GotoAt(t, "wait_scan", 0), UNCHANGED proc
  PROVE  Base'
<1>1. Moved(t, "wait_scan", 0, thr[t].wx, thr[t].trap)
  BY Sets, Words, MovedPcIx, Zenon
<1>2. t \in Proc /\ thr[t].trap = "none" /\ proc[t].state = "RUNNING" /\ proc[t].chan = NULL
  BY Plain DEF RunLabels, OpenLabels
<1>3. lock[wait_lock] = NULL
  BY LockFree, Sets DEF Wants
<1>4. LockStep(c, t) /\ (Ena(c)' <=> Ena(c))
  BY <1>1, <1>3, LockAcquire, Sets DEF Moved, Holds, HoldsAt, WaitLabels, TickLabels, OffLabels
<1>5. (\A p \in Proc : Untouched(p)) /\ proc' \in [Proc -> ProcType] /\ ~proc'[initproc].killed
  BY DEF Untouched, Base, TypeInv, InitOK
<1>6. proc'[t].state = "RUNNING" /\ proc'[t].chan = NULL
  BY <1>2
<1>7. /\ "wait_scan" \in RunLabels /\ "wait_scan" \notin ExitPc /\ "wait_scan" \notin WakeLabels /\ "wait_scan" \notin {"alloc", "fork_parent", "fork_run"}
     /\ thr[t].pc \notin ExitPc \cup {"forkret", "sched"}
  BY Zenon DEF RunLabels, WaitLabels, ExitPc, WakeLabels
<1>20. PlainMove(c, t, "wait_scan", 0, thr[t].wx)
  BY <1>1, <1>2, <1>4, <1>5, <1>6, <1>7 DEF PlainMove
<1> QED BY Zenon, <1>20, PlainStep

(* sys_sleep() takes tickslock.                                              *)
LEMMA SleepEnters ==
  ASSUME Base, NEW c \in Cpu, NEW t \in Thread, t = Current(c), Wants(t) \notin Held,
         thr[t].pc \in {"sleep", "sleep_again"}, acquire(c, tickslock), Goto(t, "sleep_loop"),
         UNCHANGED proc \/ \E n \in Nat : proc' = [proc EXCEPT ![t].left = n]
  PROVE  Base'
<1>1. Moved(t, "sleep_loop", thr[t].ix, thr[t].wx, thr[t].trap)
  BY Words, MovedPc, Zenon
<1>2. t \in Proc /\ thr[t].trap = "none" /\ proc[t].state = "RUNNING" /\ proc[t].chan = NULL
  BY Plain DEF RunLabels, OpenLabels
<1>3. lock[tickslock] = NULL
  BY LockFree, Sets, Zenon DEF Wants
<1>4. LockStep(c, t) /\ (Ena(c)' <=> Ena(c))
  BY <1>1, <1>3, LockAcquire, Sets DEF Moved, Holds, HoldsAt, WaitLabels, TickLabels, OffLabels
<1>5. (\A p \in Proc : Untouched(p)) /\ proc' \in [Proc -> ProcType] /\ ~proc'[initproc].killed
  BY <1>2, Sets DEF Untouched, Base, TypeInv, ProcType, InitOK
<1>6. proc'[t].state = "RUNNING" /\ proc'[t].chan = NULL
  BY <1>2, <1>5 DEF Untouched
<1>7. /\ "sleep_loop" \in RunLabels /\ "sleep_loop" \notin ExitPc /\ "sleep_loop" \notin WakeLabels /\ "sleep_loop" \notin {"alloc", "fork_parent", "fork_run"}
     /\ thr[t].pc \notin ExitPc \cup {"forkret", "sched"}
  BY ZenonT(40) DEF RunLabels, WaitLabels, ExitPc, WakeLabels
<1>20. PlainMove(c, t, "sleep_loop", thr[t].ix, thr[t].wx)
  BY <1>1, <1>2, <1>4, <1>5, <1>6, <1>7 DEF PlainMove
<1> QED BY Zenon, <1>20, PlainStep

(* Releasing steps of wait() and sys_sleep(). *)
LEMMA WaitLeaves ==
  ASSUME Base, NEW c \in Cpu, NEW t \in Thread, t = Current(c),
         thr[t].pc = "wait_scan", release(c, wait_lock), GotoAt(t, "ret", 0), proc' \in [Proc -> ProcType],
         UNCHANGED proc \/ \E q \in Proc : /\ lock[q] = NULL /\ proc[q].state = "ZOMBIE"
                                           /\ proc' = freeproc(q)
  PROVE  Base'
<1>1. Moved(t, "ret", 0, thr[t].wx, thr[t].trap)
  BY Sets, Words, MovedPcIx, Zenon
<1>2. t \in Proc /\ thr[t].trap = "none" /\ proc[t].state = "RUNNING" /\ proc[t].chan = NULL
  BY Zenon, Plain DEF RunLabels, WaitLabels
<1>4. LockStep(c, t) /\ (Ena(c)' <=> Ena(c))
  BY <1>1, LockRelease, Sets DEF Moved, Holds, HoldsAt, WaitLabels, TickLabels, OffLabels
<1>5. \A p \in Proc : Untouched(p) \/ (Freed(p) /\ p # t)
  BY <1>2 DEF Untouched, Freed, freeproc, Unused, Base, TypeInv
<1>6. ~proc'[initproc].killed
  BY Sets DEF freeproc, Unused, Base, TypeInv, InitOK
<1>7. proc'[t].state = "RUNNING" /\ proc'[t].chan = NULL
  BY <1>2, <1>5 DEF Untouched
<1>8. /\ "ret" \in RunLabels /\ "ret" \notin ExitPc /\ "ret" \notin WakeLabels /\ "ret" \notin {"alloc", "fork_parent", "fork_run"}
     /\ thr[t].pc \notin ExitPc \cup {"forkret", "sched"}
  BY DEF RunLabels, OpenLabels, ExitPc, WakeLabels
<1>20. PlainMove(c, t, "ret", 0, thr[t].wx)
  BY <1>1, <1>2, <1>4, <1>5, <1>6, <1>7, <1>8 DEF PlainMove
<1> QED BY Zenon, <1>20, PlainStep

(* A freed slot is a slot.                                                   *)
LEMMA UnusedType == Unused \in ProcType
BY ZenonT(40), Sets DEF Unused, ProcType, States

(* wait() goes on to the next slot, or to sleep().                           *)
LEMMA WaitMoves ==
  ASSUME Base, NEW c \in Cpu, NEW t \in Thread, t = Current(c),
         thr[t].pc = "wait_scan", Balanced, UNCHANGED proc,
         (\E i \in Int : GotoAt(t, "wait_scan", i)) \/ GotoAt(t, "wait_sleep", 0)
  PROVE  Base'
<1>1. PICK i \in Int, l \in {"wait_scan", "wait_sleep"} : Moved(t, l, i, thr[t].wx, thr[t].trap)
  BY Sets, Words, MovedPcIx, Zenon
<1>2. t \in Proc /\ thr[t].trap = "none" /\ proc[t].state = "RUNNING" /\ proc[t].chan = NULL
  BY Plain DEF RunLabels, WaitLabels
<1>4. LockStep(c, t) /\ (Ena(c)' <=> Ena(c))
  BY <1>1, LockBalanced, Sets, Zenon DEF Moved, Holds, HoldsAt, WaitLabels
<1>5. (\A p \in Proc : Untouched(p)) /\ proc' \in [Proc -> ProcType] /\ ~proc'[initproc].killed
  BY DEF Untouched, Base, TypeInv, InitOK
<1>6. proc'[t].state = "RUNNING" /\ proc'[t].chan = NULL
  BY <1>2
<1>7. /\ l \in RunLabels /\ l \notin ExitPc /\ l \notin WakeLabels /\ l \notin {"alloc", "fork_parent", "fork_run"}
     /\ thr[t].pc \notin ExitPc \cup {"forkret", "sched"}
  BY DEF RunLabels, WaitLabels, ExitPc, WakeLabels
<1>20. PlainMove(c, t, l, i, thr[t].wx)
  BY <1>1, <1>2, <1>4, <1>5, <1>6, <1>7 DEF PlainMove
<1> QED BY Zenon, <1>20, PlainStep

(* A step of wait()'s scan of proc[].                                        *)
LEMMA ScanStep ==
  ASSUME Base, NEW c \in Cpu, NEW t \in Thread, t = Current(c), Wants(t) \notin Held, WaitScan(c, t)
  PROVE  Base'
<1> DEFINE np == Least(Unscanned(t))
<1>1. np \in Proc
  BY LeastOf DEF WaitScan, Unscanned, Children
<1>2. Wants(t) = np
  BY DEF Wants, WaitScan
<1>3. lock[np] = NULL
  BY <1>1, <1>2, LockFree, Sets, Zenon
<1>4. CASE proc[np].state # "ZOMBIE"
  BY <1>1, <1>4, WaitMoves, Sets, Zenon DEF WaitScan
<1>5. CASE proc[np].state = "ZOMBIE"
  <2>1. release(c, wait_lock) /\ GotoAt(t, "ret", 0) /\ (proc' = freeproc(np) \/ UNCHANGED proc) /\ thr[t].pc = "wait_scan"
    BY <1>5 DEF WaitScan
  <2>2. proc' \in [Proc -> ProcType]
    BY ZenonT(40), <1>1, <2>1, UnusedType DEF freeproc, Base, TypeInv
  <2> HIDE DEF np
  <2> QED BY ZenonT(40), <1>1, <1>3, <1>5, <2>1, <2>2, WaitLeaves
<1> QED BY ZenonT(40), <1>4, <1>5

(* The end of wait()'s scan.                                                 *)
LEMMA ScanEndStep ==
  ASSUME Base, NEW c \in Cpu, NEW t \in Thread, t = Current(c), WaitEnd(c, t)
  PROVE  Base'
<1>1. proc' \in [Proc -> ProcType]
  BY DEF WaitEnd, Base, TypeInv
<1> QED BY <1>1, WaitLeaves, WaitMoves DEF WaitEnd

(* The test of sys_sleep()'s loop.                                           *)
LEMMA SleepLoopStep ==
  ASSUME Base, NEW c \in Cpu, NEW t \in Thread, t = Current(c), thr[t].pc = "sleep_loop",
         IF proc[t].left = 0 \/ proc[t].killed
         THEN release(c, tickslock) /\ Goto(t, "ret") /\ proc' = [proc EXCEPT ![t].left = 0]
         ELSE Balanced /\ Goto(t, "sleep_go") /\ UNCHANGED proc
  PROVE  Base'
<1>1. t \in Proc /\ thr[t].trap = "none" /\ proc[t].state = "RUNNING" /\ proc[t].chan = NULL
  BY Plain DEF RunLabels
<1>2. (\A p \in Proc : Untouched(p)) /\ proc' \in [Proc -> ProcType] /\ ~proc'[initproc].killed
  BY <1>1, Sets DEF Untouched, Base, TypeInv, InitOK, ProcType
<1>3. proc'[t].state = "RUNNING" /\ proc'[t].chan = NULL
  BY <1>1, <1>2 DEF Untouched
<1>4. CASE release(c, tickslock) /\ Goto(t, "ret")
  <2>1. Moved(t, "ret", thr[t].ix, thr[t].wx, thr[t].trap)
    BY <1>4, Words, MovedPc, Zenon
  <2>2. LockStep(c, t) /\ (Ena(c)' <=> Ena(c))
    BY <1>4, <2>1, LockRelease, Sets DEF Moved, Holds, HoldsAt, WaitLabels, TickLabels, OffLabels
  <2>3. "ret" \in RunLabels /\ "ret" \notin ExitPc /\ "ret" \notin WakeLabels
    BY DEF RunLabels, OpenLabels, ExitPc, WakeLabels
  <2>4. thr[t].pc \notin ExitPc \cup {"forkret", "sched"}
    BY DEF ExitPc
  <2>20. PlainMove(c, t, "ret", thr[t].ix, thr[t].wx)
    BY <1>1, <1>2, <1>3, <2>1, <2>2, <2>3, <2>4 DEF PlainMove
  <2> QED BY Zenon, <2>20, PlainStep
<1>5. CASE Balanced /\ Goto(t, "sleep_go")
  <2>1. Moved(t, "sleep_go", thr[t].ix, thr[t].wx, thr[t].trap)
    BY <1>5, Words, MovedPc, Zenon
  <2>2. LockStep(c, t) /\ (Ena(c)' <=> Ena(c))
    BY <1>5, <2>1, LockBalanced, Sets, ZenonT(40) DEF Moved, Holds, HoldsAt, WaitLabels, TickLabels
  <2>20. PlainMove(c, t, "sleep_go", thr[t].ix, thr[t].wx)
    BY <1>1, <1>2, <1>3, <2>1, <2>2 DEF PlainMove, RunLabels, ExitPc, WakeLabels
  <2> QED BY Zenon, <2>20, PlainStep
<1> QED BY <1>4, <1>5

(* sleep() returns: chan is cleared and p->lock released.                    *)
LEMMA WokenStep ==
  ASSUME Base, NEW c \in Cpu, NEW t \in Thread, t = Current(c), NEW l \in {"wait", "sleep_again"},
         thr[t].pc \in {"wait_woken", "sleep_woken"}, Woken(c, t, l)
  PROVE  Base'
<1>1. Moved(t, l, thr[t].ix, thr[t].wx, thr[t].trap)
  BY Words, MovedPc, ZenonT(40) DEF Woken
<1>2. t \in Proc /\ thr[t].trap = "none" /\ proc[t].state = "RUNNING"
  BY Zenon, Running DEF SchedulerOK, SchedulerLabels, TrapOK, InTrap
<1>3. LockStep(c, t) /\ (Ena(c)' <=> Ena(c))
  BY <1>1, <1>2, LockRelease, Sets DEF Moved, Holds, HoldsAt, WaitLabels, TickLabels, OffLabels, Woken
<1>4. \A p \in Proc \ {t} : Untouched(p)
  BY <1>2 DEF Untouched, Woken, Base, TypeInv
<1>5. proc' \in [Proc -> ProcType] /\ ~proc'[initproc].killed /\ proc'[t].state = "RUNNING" /\ proc'[t].chan = NULL
  BY <1>2, Sets DEF Woken, Base, TypeInv, InitOK, ProcType
<1>6. /\ l \in RunLabels /\ l \notin ExitPc /\ l \notin WakeLabels /\ l \notin {"alloc", "fork_parent", "fork_run"}
     /\ thr[t].pc \notin ExitPc \cup {"forkret", "sched"}
  BY ZenonT(40) DEF RunLabels, OpenLabels, ExitPc, WakeLabels
<1>20. PlainMove(c, t, l, thr[t].ix, thr[t].wx)
  BY <1>1, <1>2, <1>3, <1>4, <1>5, <1>6 DEF PlainMove
<1> QED BY Zenon, <1>20, PlainStep

(* A system call returns to user space.                                      *)
LEMMA ReturnStep ==
  ASSUME Base, NEW c \in Cpu, NEW t \in Thread, t = Current(c), SyscallReturn(t)
  PROVE  Base'
<1> DEFINE l == IF proc[t].killed THEN "exit" ELSE "user"
<1>1. l \in {"exit", "user"} /\ (l = "exit" => t # initproc)
  BY DEF Base, InitOK
<1>2. Goto(t, l)
  BY DEF SyscallReturn
<1> HIDE DEF l
<1>3. Moved(t, l, thr[t].ix, thr[t].wx, thr[t].trap)
  BY <1>1, <1>2, Words, MovedPc, Zenon
<1>4. t \in Proc /\ thr[t].trap = "none" /\ proc[t].state = "RUNNING" /\ proc[t].chan = NULL
  BY Plain DEF RunLabels, OpenLabels, SyscallReturn
<1>5. LockStep(c, t) /\ (Ena(c)' <=> Ena(c))
  BY <1>1, <1>3, LockBalanced, Sets, Zenon DEF Moved, Holds, HoldsAt, WaitLabels, TickLabels, OffLabels, SyscallReturn
<1>6. (\A p \in Proc : Untouched(p)) /\ proc' \in [Proc -> ProcType] /\ ~proc'[initproc].killed
  BY DEF Untouched, Base, TypeInv, InitOK, SyscallReturn
<1>7. proc'[t].state = "RUNNING" /\ proc'[t].chan = NULL /\ thr[t].pc = "ret"
  BY <1>4 DEF SyscallReturn
<1>8. /\ l \in RunLabels /\ l \notin WakeLabels /\ l \notin {"alloc", "fork_parent", "fork_run"}
      /\ thr[t].pc \notin ExitPc \cup {"forkret", "sched"} /\ (t = initproc => l \notin ExitPc)
  BY Zenon, <1>1, <1>7 DEF RunLabels, OpenLabels, ExitPc, WakeLabels
<1>20. PlainMove(c, t, l, thr[t].ix, thr[t].wx)
  BY <1>3, <1>4, <1>5, <1>6, <1>7, <1>8 DEF PlainMove
<1> QED BY Zenon, <1>20, PlainStep

(* kill() marks one process, and makes it RUNNABLE if it sleeps.             *)
LEMMA KillStep ==
  ASSUME Base, NEW c \in Cpu, NEW t \in Thread, t = Current(c), kill(t)
  PROVE  Base'
<1>1. Moved(t, "ret", thr[t].ix, thr[t].wx, thr[t].trap)
  BY Words, MovedPc, Zenon DEF kill
<1>2. t \in Proc /\ thr[t].trap = "none" /\ proc[t].state = "RUNNING" /\ proc[t].chan = NULL
  BY Plain DEF RunLabels, OpenLabels, kill
<1>3. LockStep(c, t) /\ (Ena(c)' <=> Ena(c))
  BY <1>1, LockBalanced, Sets, ZenonT(40) DEF Moved, Holds, HoldsAt, WaitLabels, TickLabels, OffLabels, kill
<1>4. CASE UNCHANGED proc
  <2>1. (\A p \in Proc : Untouched(p)) /\ proc' \in [Proc -> ProcType] /\ ~proc'[initproc].killed
    BY <1>4 DEF Untouched, Base, TypeInv, InitOK
  <2>2. /\ "ret" \in RunLabels /\ "ret" \notin ExitPc /\ "ret" \notin WakeLabels /\ "ret" \notin {"alloc", "fork_parent", "fork_run"}
       /\ thr[t].pc \notin ExitPc \cup {"forkret", "sched"}
    BY ZenonT(40) DEF RunLabels, OpenLabels, ExitPc, WakeLabels, kill
  <2>20. PlainMove(c, t, "ret", thr[t].ix, thr[t].wx)
    BY <1>1, <1>2, <1>3, <1>4, <2>1, <2>2 DEF PlainMove
  <2> QED BY Zenon, <2>20, PlainStep
<1>5. ASSUME NEW v \in Victims, lock[v] = NULL, proc' = [proc EXCEPT ![v] = KillSlot(@)]
      PROVE  Base'
  <2>1. v \in Proc /\ v # initproc
    BY SizesAssumption DEF Proc, initproc
  <2>2. \A q \in ProcType : KillSlot(q) \in ProcType
    <3>1. ASSUME NEW q \in ProcType, NEW st \in States PROVE [q EXCEPT !.killed = TRUE, !.state = st] \in ProcType
      BY <3>1, Zenon DEF ProcType
    <3> QED BY <3>1, ZenonT(40) DEF KillSlot, ProcType, States
  <2>3. proc' \in [Proc -> ProcType] /\ ~proc'[initproc].killed
    BY <1>5, <2>1, <2>2, Sets DEF Base, TypeInv, InitOK
  <2>4. \A p \in Proc : Untouched(p) \/ (WokenUp(p) /\ p # t)
    BY <1>2, <1>5, <2>1 DEF Untouched, WokenUp, KillSlot, Base, TypeInv, ProcType
  <2>5. proc'[t].state = "RUNNING" /\ proc'[t].chan = NULL
    BY <1>2, <2>4 DEF Untouched
  <2>6. /\ "ret" \in RunLabels /\ "ret" \notin ExitPc /\ "ret" \notin WakeLabels /\ "ret" \notin {"alloc", "fork_parent", "fork_run"}
       /\ thr[t].pc \notin ExitPc \cup {"forkret", "sched"}
    BY Zenon DEF RunLabels, OpenLabels, ExitPc, WakeLabels, kill
  <2>20. PlainMove(c, t, "ret", thr[t].ix, thr[t].wx)
    BY <1>1, <1>2, <1>3, <2>3, <2>4, <2>5, <2>6 DEF PlainMove
  <2> QED BY Zenon, <2>20, PlainStep
<1> QED BY <1>4, <1>5, Zenon DEF kill

(* fork(): the scan for a slot, the two ways out, and the slot that is kept. *)
LEMMA AllocStep ==
  ASSUME Base, NEW c \in Cpu, NEW t \in Thread, t = Current(c), Wants(t) \notin Held, allocproc(t)
  PROVE  Base'
<1> DEFINE np == thr[t].ix
           r == IF t = initproc THEN "user_wait" ELSE "ret"
<1>1. /\ t \in Proc /\ thr[t].trap = "none" /\ proc[t].state = "RUNNING" /\ proc[t].chan = NULL
      /\ Pos(t) = "alloc" /\ thr[t].pc = "alloc"
  BY Plain DEF RunLabels, OpenLabels, allocproc
<1>2. np \in Proc
  BY <1>1 DEF Base, ForkInv
<1>3. lock[np] = NULL
  <2>1. Wants(t) = np
    BY <1>1 DEF Wants
  <2> QED BY <1>2, <2>1, LockFree, Sets, Zenon
<1>4. r \in {"user_wait", "ret"} /\ (ForkReturn(t) => GotoAt(t, r, 0))
  BY Zenon DEF ForkReturn
<1> HIDE DEF r
<1>5. ASSUME NEW i \in Int, NEW l \in {"user_wait", "ret", "alloc", "fork_parent"}, Moved(t, l, i, thr[t].wx, "none"),
             l = "alloc" => i \in Proc,
             l = "fork_parent" => i = np /\ Taken(np),
             proc' \in [Proc -> ProcType], \A p \in Proc : Untouched(p) \/ ((Taken(p) \/ Freed(p)) /\ p # t),
             ~proc'[initproc].killed
      PROVE  Base'
  <2>1. LockStep(c, t) /\ (Ena(c)' <=> Ena(c))
    BY <1>1, <1>5, LockBalanced, Sets, ZenonT(40) DEF Moved, Holds, HoldsAt, WaitLabels, TickLabels, OffLabels, allocproc
  <2>2. proc'[t].state = "RUNNING" /\ proc'[t].chan = NULL
    BY Zenon, <1>1, <1>5 DEF Untouched
  <2>3. l = "fork_parent" => np # t
    BY Zenon, <1>1, <1>5 DEF Taken
  <2>20. PlainMove(c, t, l, i, thr[t].wx)
    BY Zenon, <1>1, <1>2, <1>5, <2>1, <2>2, <2>3 DEF PlainMove, RunLabels, OpenLabels, ExitPc, WakeLabels
  <2> QED BY Zenon, <2>20, PlainStep
<1>6. ForkReturn(t) => Moved(t, r, 0, thr[t].wx, "none")
  <2>1. r \in Labels
    BY <1>4 DEF Labels
  <2>2. ForkReturn(t) => Moved(t, r, 0, thr[t].wx, thr[t].trap)
    BY <1>4, <2>1, Sets, MovedPcIx
  <2> QED BY <1>1, <2>2
<1>7. CASE proc[np].state # "UNUSED" /\ UNCHANGED proc
  <2>1. (\A p \in Proc : Untouched(p)) /\ proc' \in [Proc -> ProcType] /\ ~proc'[initproc].killed
    BY Zenon, <1>7 DEF Untouched, Base, TypeInv, InitOK
  <2>2. CASE np < NPROC /\ GotoAt(t, "alloc", np + 1)
    <3>1. np + 1 \in Int /\ np + 1 \in Proc
      BY <1>2, <2>2, SizesAssumption DEF Proc
    <3>2. Moved(t, "alloc", np + 1, thr[t].wx, "none")
      BY <1>1, <2>2, <3>1, Words, MovedPcIx, Zenon
    <3> QED BY Zenon, <1>5, <2>1, <3>1, <3>2
  <2>3. CASE ForkReturn(t)
    BY Zenon, <1>4, <1>5, <1>6, <2>1, <2>3, Sets
  <2> QED BY <1>7, <2>2, <2>3 DEF allocproc
<1>8. CASE proc[np].state = "UNUSED" /\ proc' = freeproc(np) /\ ForkReturn(t)
  <2>1. (\A p \in Proc : Untouched(p) \/ (Freed(p) /\ p # t)) /\ proc' \in [Proc -> ProcType]
    BY <1>1, <1>2, <1>3, <1>8, UnusedType DEF Untouched, Freed, freeproc, Unused, Base, TypeInv
  <2>2. ~proc'[initproc].killed
    BY <1>2, <1>8, Sets DEF freeproc, Unused, Base, TypeInv, InitOK
  <2> QED BY ZenonT(40), <1>4, <1>5, <1>6, <1>8, <2>1, <2>2, Sets
<1>9. CASE proc[np].state = "UNUSED" /\ proc' = [proc EXCEPT ![np].state = "USED"]
  <2>1. (\A p \in Proc : Untouched(p) \/ (Taken(p) /\ p # t)) /\ proc' \in [Proc -> ProcType] /\ Taken(np)
    BY <1>1, <1>2, <1>9 DEF Untouched, Taken, Base, TypeInv, ProcType, States
  <2>2. ~proc'[initproc].killed
    BY <1>2, <1>9, Sets DEF Base, TypeInv, InitOK, ProcType
  <2>3. CASE Goto(t, "fork_parent")
    <3>1. Moved(t, "fork_parent", np, thr[t].wx, "none")
      BY <1>1, <2>3, Words, MovedPc, Zenon
    <3> QED BY <1>2, <1>5, <2>1, <2>2, <3>1, Sets, Zenon
  <2>4. CASE ForkReturn(t)
    BY Zenon, <1>4, <1>5, <1>6, <2>1, <2>2, <2>4, Sets
  <2> QED BY <1>7, <1>8, <1>9, <2>3, <2>4 DEF allocproc
<1> QED BY <1>7, <1>8, <1>9 DEF allocproc

(* fork() sets np->parent under wait_lock.                                   *)
LEMMA ForkParentStep ==
  ASSUME Base, NEW c \in Cpu, NEW t \in Thread, t = Current(c), thr[t].pc = "fork_parent", Balanced,
         proc' = [proc EXCEPT ![thr[t].ix].parent = t], Goto(t, "fork_run")
  PROVE  Base'
<1>1. Moved(t, "fork_run", thr[t].ix, thr[t].wx, thr[t].trap)
  BY Words, MovedPc, Zenon
<1>2. t \in Proc /\ thr[t].trap = "none" /\ proc[t].state = "RUNNING" /\ proc[t].chan = NULL /\ Forking(t)
  BY Plain DEF RunLabels, OpenLabels, Forking
<1>3. LockStep(c, t) /\ (Ena(c)' <=> Ena(c))
  BY <1>1, LockBalanced, Sets, Zenon DEF Moved, Holds, HoldsAt, WaitLabels, TickLabels, OffLabels
<1>4. thr[t].ix \in Proc
  BY <1>2 DEF Base, ForkInv
<1>5. (\A p \in Proc : Untouched(p)) /\ proc' \in [Proc -> ProcType] /\ ~proc'[initproc].killed
  BY <1>2, <1>4, Sets DEF Untouched, Base, TypeInv, InitOK, ProcType
<1>6. proc'[t].state = "RUNNING" /\ proc'[t].chan = NULL
  BY <1>2, <1>5 DEF Untouched
<1>7. "fork_run" \in RunLabels /\ "fork_run" \notin ExitPc /\ "fork_run" \notin WakeLabels
  BY DEF RunLabels, OpenLabels, ExitPc, WakeLabels
<1>8. thr[t].pc \notin ExitPc \cup {"forkret", "sched"}
  BY DEF ExitPc
<1>20. PlainMove(c, t, "fork_run", thr[t].ix, thr[t].wx)
  BY <1>1, <1>2, <1>3, <1>5, <1>6, <1>7, <1>8 DEF PlainMove
<1> QED BY Zenon, <1>20, PlainStep

(* A step of wakeup(): what it does to the table, and where it goes. *)
LEMMA WakeupMoves ==
  ASSUME Base, NEW t \in Thread, thr[t].pc \in WakeLabels, NEW l \in Labels, wakeup(t, l)
  PROVE  \/ thr[t].wx + 1 \in Proc /\ Moved(t, thr[t].pc, thr[t].ix, thr[t].wx + 1, thr[t].trap)
         \/ Moved(t, l, thr[t].ix, 0, thr[t].trap)
<1> DEFINE q == thr[t].wx
<1>1. q \in Proc /\ q \in Int /\ q + 1 \in Int /\ thr[t].pc \in Labels
  BY Sets DEF Base, ForkInv, TypeInv, ThreadType
<1>2. CASE q < NPROC
  <2>1. q + 1 \in Proc
    BY <1>1, <1>2, SizesAssumption DEF Proc
  <2>2. thr' = [thr EXCEPT ![t].wx = q + 1]
    BY <1>2 DEF wakeup
  <2>3. Moved(t, thr[t].pc, thr[t].ix, q + 1, thr[t].trap)
    BY <1>1, <2>2, MovedPcWx, Zenon
  <2> QED BY <2>1, <2>3
<1>3. CASE ~(q < NPROC)
  <2>1. thr' = [thr EXCEPT ![t].wx = 0, ![t].pc = l]
    BY <1>3 DEF wakeup
  <2>2. Moved(t, l, thr[t].ix, 0, thr[t].trap)
    BY <2>1, Sets, MovedPcWx, ZenonT(40)
  <2> QED BY <2>2
<1> QED BY <1>2, <1>3

(* What a pass of wakeup()'s loop does to proc[]: at most, one process that  *)
(* is SLEEPING on the channel becomes RUNNABLE.                              *)
LEMMA WakeupTable ==
  ASSUME Base, NEW c \in Cpu, NEW t \in Thread, t = Current(c), Wants(t) \notin Held,
         thr[t].pc \in WakeLabels, NEW l \in Labels, wakeup(t, l)
  PROVE  /\ \A p \in Proc : \/ Untouched(p)
                            \/ WokenUp(p) /\ p # t /\ proc[p].chan = WakeChan(t) /\ p = thr[t].wx
         /\ proc' \in [Proc -> ProcType]
         /\ \A p \in Proc : /\ proc'[p].killed = proc[p].killed /\ proc'[p].parent = proc[p].parent
                            /\ proc'[p].left = proc[p].left
<1> DEFINE q == thr[t].wx
<1>1. q \in Proc
  BY DEF Base, ForkInv
<1>2. CASE q = t
  <2>1. proc' = proc
    BY ZenonT(40), <1>2 DEF wakeup
  <2> QED BY <2>1 DEF Untouched, Base, TypeInv
<1>3. CASE q # t
  <2>1. proc' = [proc EXCEPT ![q] = WakeSlot(@, WakeChan(t))]
    BY <1>3 DEF wakeup
  <2>2. lock[q] = NULL
    <3>1. Wants(t) = q
      BY <1>3 DEF Wants, WakeLabels
    <3> QED BY <1>1, <3>1, LockFree, Sets, Zenon
  <2>3. \A r \in ProcType : \A ch : WakeSlot(r, ch) \in ProcType
    BY DEF WakeSlot, ProcType, States
  <2>4. \A r \in ProcType : \A ch : /\ WakeSlot(r, ch).chan = r.chan /\ WakeSlot(r, ch).killed = r.killed
                                    /\ WakeSlot(r, ch).parent = r.parent /\ WakeSlot(r, ch).left = r.left
                                    /\ \/ WakeSlot(r, ch).state = r.state
                                       \/ r.state = "SLEEPING" /\ r.chan = ch /\ WakeSlot(r, ch).state = "RUNNABLE"
    BY DEF WakeSlot, ProcType
  <2>5. proc[q] \in ProcType /\ proc'[q] = WakeSlot(proc[q], WakeChan(t)) /\ \A p \in Proc \ {q} : proc'[p] = proc[p]
    BY <1>1, <2>1 DEF Base, TypeInv
  <2>6. proc' \in [Proc -> ProcType]
    BY Zenon, <1>1, <2>1, <2>3, <2>5 DEF Base, TypeInv
  <2>7. Untouched(q) \/ (WokenUp(q) /\ q # t /\ proc[q].chan = WakeChan(t))
    <3> DEFINE n == WakeSlot(proc[q], WakeChan(t))
    <3>1. /\ n.chan = proc[q].chan
          /\ \/ n.state = proc[q].state
             \/ proc[q].state = "SLEEPING" /\ proc[q].chan = WakeChan(t) /\ n.state = "RUNNABLE"
      BY ZenonT(40), <2>4, <2>5
    <3> HIDE DEF n
    <3>2. proc'[q] = n
      BY <2>5 DEF n
    <3> QED BY ZenonT(40), <1>3, <2>2, <3>1, <3>2 DEF Untouched, WokenUp
  <2>8. \A p \in Proc \ {q} : Untouched(p)
    BY <2>5 DEF Untouched
  <2> QED BY <2>4, <2>5, <2>6, <2>7, <2>8
<1> QED BY Zenon, <1>2, <1>3

(* exit()'s two calls of wakeup().                                           *)
LEMMA ExitWakeStep ==
  ASSUME Base, NEW c \in Cpu, NEW t \in Thread, t = Current(c), Wants(t) \notin Held,
         \/ thr[t].pc = "wake_parent" /\ wakeup(t, "exit_zombie")
         \/ thr[t].pc = "wake_init" /\ wakeup(t, "reparent")
  PROVE  Base'
<1>1. /\ t \in Proc /\ thr[t].trap = "none" /\ proc[t].state = "RUNNING" /\ proc[t].chan = NULL
      /\ Pos(t) = thr[t].pc /\ thr[t].pc \in WakeLabels
  BY Plain DEF RunLabels, WaitLabels, WakeLabels
<1>2. PICK l \in {"wake_parent", "wake_init", "reparent", "exit_zombie"}, w \in Int :
        Moved(t, l, thr[t].ix, w, "none") /\ (l \in WakeLabels => w \in Proc)
  <2>1. thr[t].wx + 1 \in Int /\ {"reparent", "exit_zombie"} \cap WakeLabels = {}
    <3>1. thr[t].wx \in Int
      BY DEF Base, TypeInv, ThreadType
    <3> QED BY <3>1 DEF WakeLabels
  <2> QED BY <1>1, <2>1, Sets, Words, WakeupMoves, ZenonT(40)
<1>3. /\ \A p \in Proc : Untouched(p) \/ (WokenUp(p) /\ p # t)
      /\ proc' \in [Proc -> ProcType] /\ ~proc'[initproc].killed
  <2>1. ~proc[initproc].killed /\ initproc \in Proc
    BY Sets DEF Base, InitOK
  <2> QED BY <1>1, <2>1, WakeupTable, Words, Zenon
<1>4. LockStep(c, t) /\ (Ena(c)' <=> Ena(c))
  BY <1>2, LockBalanced, ZenonT(40) DEF Moved, Holds, HoldsAt, WaitLabels, wakeup
<1>5. proc'[t].state = "RUNNING" /\ proc'[t].chan = NULL
  BY Zenon, <1>1, <1>3 DEF Untouched
<1>6. l \in RunLabels /\ l \in ExitPc /\ l \notin {"alloc", "fork_parent", "fork_run"} /\ t # initproc
  BY Zenon, <1>1, <1>2 DEF RunLabels, WaitLabels, ExitPc, Base, InitOK, WakeLabels
<1>20. PlainMove(c, t, l, thr[t].ix, w)
  BY <1>1, <1>2, <1>3, <1>4, <1>5, <1>6 DEF PlainMove
<1> QED BY Zenon, <1>20, PlainStep

(* A pass of reparent().                                                     *)
LEMMA ReparentStep ==
  ASSUME Base, NEW c \in Cpu, NEW t \in Thread, t = Current(c), thr[t].pc = "reparent", Balanced,
         \/ /\ Children(t) # {}
            /\ proc' = [proc EXCEPT ![Least(Children(t))].parent = initproc]
            /\ thr' = [thr EXCEPT ![t].pc = "wake_init", ![t].wx = 1]
         \/ /\ Children(t) = {} /\ UNCHANGED proc
            /\ thr' = [thr EXCEPT ![t].pc = "wake_parent", ![t].wx = 1]
  PROVE  Base'
<1>1. /\ t \in Proc /\ thr[t].trap = "none" /\ proc[t].state = "RUNNING" /\ proc[t].chan = NULL
      /\ Pos(t) = thr[t].pc
  BY Plain DEF RunLabels, WaitLabels
<1>2. PICK l \in {"wake_init", "wake_parent"} : Moved(t, l, thr[t].ix, 1, "none")
  <2>1. CASE thr' = [thr EXCEPT ![t].pc = "wake_init", ![t].wx = 1]
    <3>1. Moved(t, "wake_init", thr[t].ix, 1, thr[t].trap)
      BY <2>1, Sets, Words, MovedPcWx, Zenon
    <3> QED BY <1>1, <3>1
  <2>2. CASE thr' = [thr EXCEPT ![t].pc = "wake_parent", ![t].wx = 1]
    <3>1. Moved(t, "wake_parent", thr[t].ix, 1, thr[t].trap)
      BY <2>2, Sets, Words, MovedPcWx, Zenon
    <3> QED BY <1>1, <3>1
  <2> QED BY <2>1, <2>2
<1>3. LockStep(c, t)
  BY <1>2, LockBalanced, Zenon DEF Moved, Holds, HoldsAt, WaitLabels
<1>4. Children(t) # {} => Least(Children(t)) \in Proc
  BY LeastOf DEF Children
<1>5. (\A p \in Proc : Untouched(p)) /\ proc' \in [Proc -> ProcType] /\ ~proc'[initproc].killed
  BY <1>4, Sets DEF Untouched, Base, TypeInv, ProcType, InitOK
<1>6. proc'[t].state = "RUNNING" /\ proc'[t].chan = NULL
  BY <1>1, <1>5 DEF Untouched
<1>7. l \in RunLabels /\ l \in ExitPc /\ l \notin {"alloc", "fork_parent", "fork_run"} /\ t # initproc /\ 1 \in Proc
  BY <1>1, <1>2, Sets DEF RunLabels, WaitLabels, ExitPc, Base, InitOK, initproc
<1>20. PlainMove(c, t, l, thr[t].ix, 1)
  BY <1>1, <1>2, <1>3, <1>5, <1>6, <1>7 DEF PlainMove
<1> QED BY Zenon, <1>20, PlainStep

(* sleep() and the end of exit(): the caller takes its own lock, gives the    *)
(* other one back and goes to sched().                                        *)
LEMMA OffStep ==
  ASSUME Base, NEW c \in Cpu, NEW t \in Thread, t = Current(c), Wants(t) \notin Held,
         NEW lk \in {wait_lock, tickslock}, Exchange(c, t, lk), Goto(t, "sched"),
         proc' \in [Proc -> ProcType], \A p \in Proc \ {t} : Untouched(p), ~proc'[initproc].killed,
         \/ /\ thr[t].pc = "wait_sleep" /\ lk = wait_lock
            /\ proc'[t].state = "SLEEPING" /\ proc'[t].chan = t
         \/ /\ thr[t].pc = "sleep_go" /\ lk = tickslock
            /\ proc'[t].state = "SLEEPING" /\ proc'[t].chan = tickslock
         \/ /\ thr[t].pc = "exit_zombie" /\ lk = wait_lock
            /\ proc'[t].state = "ZOMBIE" /\ proc'[t].chan = proc[t].chan
  PROVE  Base'
<1>1. Moved(t, "sched", thr[t].ix, thr[t].wx, thr[t].trap)
  BY Words, MovedPc, ZenonT(40)
<1>2. /\ t \in Proc /\ thr[t].trap = "none" /\ proc[t].state = "RUNNING" /\ proc[t].chan = NULL
      /\ Pos(t) = thr[t].pc
  BY Zenon, Plain DEF RunLabels, WaitLabels
<1>3. lock[t] = NULL
  BY <1>2, LockFree, Sets, ZenonT(40) DEF Wants
<1>4. LockStep(c, t) /\ (Ena(c)' <=> Ena(c))
  BY ZenonT(40), <1>1, <1>2, <1>3, LockExchange, Sets DEF Moved, Holds, HoldsAt, WaitLabels, TickLabels
<1>5. thr'[t].pc = "sched" /\ thr'[t].trap = "none" /\ thr' \in [Thread -> ThreadType]
  BY Zenon, <1>1, <1>2 DEF Moved
<1>6. Current(c)' = t /\ (On(t)' <=> On(t)) /\ On(t) /\ IntrOK(c)
  BY Zenon, <1>2, <1>4, LocalPlace, Running DEF LockStep
<1>7. StateOK(t)' /\ TrapOK(t)' /\ ChanOK(t)'
  BY Zenon, <1>2, <1>5, <1>6, Sets DEF StateOK, TrapOK, ChanOK
<1>8. IntrOK(c)'
  BY ZenonT(40), <1>2, <1>4, <1>5, <1>6 DEF IntrOK, ExitPc
<1>9. Pos(t)' = "sched" /\ ~Forking(t)' /\ "sched" \notin WakeLabels /\ "sched" \notin ExitPc
  BY ZenonT(40), <1>5 DEF Pos, Forking, WakeLabels, ExitPc
<1>10. t = initproc => proc'[t].state = "SLEEPING"
  BY Zenon, <1>2 DEF Base, InitOK, ExitPc
<1> QED BY Zenon, <1>2, <1>4, <1>5, <1>7, <1>8, <1>9, <1>10, LocalBase

(* sleep() in wait() and in sys_sleep().                                     *)
LEMMA SleepStep ==
  ASSUME Base, NEW c \in Cpu, NEW t \in Thread, t = Current(c), Wants(t) \notin Held,
         \/ thr[t].pc = "wait_sleep" /\ sleep(c, t, t, wait_lock)
         \/ thr[t].pc = "sleep_go" /\ sleep(c, t, tickslock, tickslock)
  PROVE  Base'
<1>1. t \in Proc
  BY Plain DEF RunLabels, WaitLabels
<1>2. ASSUME NEW ch \in Lock, NEW lk, sleep(c, t, ch, lk)
      PROVE  /\ proc' \in [Proc -> ProcType] /\ (\A p \in Proc \ {t} : Untouched(p)) /\ ~proc'[initproc].killed
             /\ proc'[t].state = "SLEEPING" /\ proc'[t].chan = ch /\ Exchange(c, t, lk) /\ Goto(t, "sched")
  <2>1. proc' = [proc EXCEPT ![t] = [@ EXCEPT !.chan = ch, !.state = "SLEEPING"]] /\ proc[t] \in ProcType
    BY <1>1, <1>2, Zenon DEF sleep, Base, TypeInv
  <2>2. [proc[t] EXCEPT !.chan = ch, !.state = "SLEEPING"] \in ProcType
    BY <2>1, Zenon DEF ProcType, States
  <2>3. proc' \in [Proc -> ProcType] /\ (\A p \in Proc \ {t} : proc'[p] = proc[p])
    BY <1>1, <2>1, <2>2 DEF Base, TypeInv
  <2>4. proc'[t].state = "SLEEPING" /\ proc'[t].chan = ch /\ proc'[t].killed = proc[t].killed
    BY <1>1, <2>1 DEF Base, TypeInv, ProcType
  <2>5. ~proc'[initproc].killed
    BY <2>3, <2>4, Sets DEF Base, InitOK
  <2> QED BY <1>2, <2>3, <2>4, <2>5, Zenon DEF Untouched, sleep
<1>3. t \in Lock /\ tickslock \in Lock
  BY Zenon, <1>1, Sets
<1>4. CASE thr[t].pc = "wait_sleep" /\ sleep(c, t, t, wait_lock)
  BY ZenonT(40), <1>2, <1>3, <1>4, OffStep
<1>5. CASE thr[t].pc = "sleep_go" /\ sleep(c, t, tickslock, tickslock)
  BY <1>2, <1>3, <1>5, OffStep
<1> QED BY <1>4, <1>5

(* exit() becomes ZOMBIE under both locks.                                   *)
LEMMA ZombieStep ==
  ASSUME Base, NEW c \in Cpu, NEW t \in Thread, t = Current(c), Wants(t) \notin Held,
         thr[t].pc = "exit_zombie", proc' = [proc EXCEPT ![t].state = "ZOMBIE"],
         Exchange(c, t, wait_lock), Goto(t, "sched")
  PROVE  Base'
<1>1. t \in Proc
  BY Plain DEF RunLabels, WaitLabels
<1>2. /\ proc' \in [Proc -> ProcType] /\ (\A p \in Proc \ {t} : Untouched(p)) /\ ~proc'[initproc].killed
      /\ proc'[t].state = "ZOMBIE" /\ proc'[t].chan = proc[t].chan
  <2>1. proc \in [Proc -> ProcType] /\ ~proc[initproc].killed /\ initproc \in Proc
    BY Zenon, Sets DEF Base, TypeInv, InitOK
  <2>2. proc' \in [Proc -> ProcType]
    BY ZenonT(40), <1>1, <2>1 DEF ProcType, States
  <2> QED BY <1>1, <2>1, <2>2 DEF Untouched, ProcType
<1> QED BY <1>2, OffStep

(* A thread in the trap handler was interrupted somewhere.                   *)
LEMMA InTrapHas ==
  ASSUME Base, NEW c \in Cpu, NEW t \in Thread, t = Current(c), thr[t].pc \in InTrap \ {"sched"}
  PROVE  thr[t].trap # "none"
<1>1. thr[t].pc \notin RunLabels \cup {"sched", "wait_woken", "sleep_woken", "forkret", "dead", "scan"}
  BY DEF InTrap, RunLabels, OpenLabels, WaitLabels
<1> QED BY <1>1, Running DEF SchedulerOK, TrapOK

(* None of the four panic() conditions of sched() is met.                    *)
LEMMA SchedChecksHold ==
  ASSUME Base, NEW c \in Cpu, NEW t \in Thread, t = Current(c), thr[t].pc = "sched"
  PROVE  SchedChecks(c, t) /\ t \in Proc
<1>1. t \in Proc
  BY Running DEF SchedulerOK, SchedulerLabels
<1>2. Holds(t) = {t} /\ t \in Lock
  BY <1>1, Sets DEF Holds, HoldsAt, WaitLabels, TickLabels, OffLabels
<1>3. lock[t] = c /\ hart[c].noff = 1 /\ ~hart[c].sie
  BY ZenonT(40), <1>2 DEF Base, LockInv
<1>4. proc[t].state # "RUNNING"
  BY <1>1, Running DEF Base, PlaceInv, StateOK
<1> QED BY ZenonT(40), <1>1, <1>3, <1>4 DEF SchedChecks, holding

(* acquire() never finds its own hart as the holder. *)
LEMMA NeverHeld ==
  ASSUME Base, NEW c \in Cpu, NEW t \in Thread, t = Current(c), Wants(t) \in Held
  PROVE  ~holding(c, Wants(t))
<1> SUFFICES ASSUME lock[Wants(t)] = c PROVE FALSE
  BY DEF holding
<1>1. Wants(t) \in Lock /\ Wants(t) \in Holds(t)
  BY DEF Held, Base, LockInv
<1>2. NULL \notin Lock
  BY Zenon, Sets
<1>3. CASE thr[t].pc \in WaitLabels
  <2>1. Wants(t) = wait_lock
    BY <1>1, <1>3 DEF Holds, HoldsAt
  <2>2. t \in Proc
    BY <1>3, Plain DEF RunLabels
  <2>3. thr[t].pc = "wait_scan" /\ Unscanned(t) # {} => Least(Unscanned(t)) \in Proc
    BY LeastOf DEF Unscanned, Children
  <2>4. thr[t].pc \in WakeLabels => thr[t].wx \in Proc
    BY ZenonT(40) DEF Base, ForkInv
  <2> QED BY Zenon, <1>1, <1>2, <1>3, <2>1, <2>2, <2>3, <2>4, Sets DEF Wants, WaitLabels, WakeLabels
<1>4. CASE thr[t].pc \in TickLabels
  <2>1. Wants(t) = tickslock
    BY <1>1, <1>4 DEF Holds, HoldsAt, TickLabels, WaitLabels
  <2>2. thr[t].pc = "clock_wake" => thr[t].wx \in Proc
    BY DEF Base, ForkInv, WakeLabels
  <2>3. thr[t].pc = "sleep_go" => t \in Proc
    BY ZenonT(40), Plain DEF RunLabels
  <2> QED BY Zenon, <1>1, <1>2, <1>4, <2>1, <2>2, <2>3, Sets DEF Wants, TickLabels
<1>5. CASE thr[t].pc \in OffLabels \/ thr[t].pc = "sched"
  BY Zenon, <1>1, <1>2, <1>5 DEF Wants, OffLabels
<1> QED BY <1>1, <1>3, <1>4, <1>5 DEF Holds, HoldsAt

(* The scheduler's index stays within proc[].                                *)
LEMMA NextIxIn ==
  ASSUME Base, NEW c \in Cpu
  PROVE  NextIx(c) \in Proc /\ thr[Scheduler(c)].ix \in Proc
<1>1. thr[Scheduler(c)].ix \in Proc
  BY DEF Base, HartInv, SchedulerOK
<1>2. \A i \in Proc : (i % NPROC) + 1 \in Proc
  <2>1. \A i \in Proc : i % NPROC \in 0..(NPROC - 1)
    BY SizesAssumption DEF Proc
  <2> QED BY <2>1, SizesAssumption DEF Proc
<1> QED BY <1>1, <1>2 DEF NextIx

(* The context that allocproc() builds: the child begins at forkret().       *)
LEMMA ChildThread ==
  /\ [NoThread EXCEPT !.pc = "forkret"] \in ThreadType
  /\ [NoThread EXCEPT !.pc = "forkret"].pc = "forkret" /\ [NoThread EXCEPT !.pc = "forkret"].ix = 0
  /\ [NoThread EXCEPT !.pc = "forkret"].trap = "none"
<1>1. ASSUME NEW b \in BOOLEAN, NEW n, n = [pc |-> "dead", ix |-> 0, wx |-> 0, trap |-> "none", intena |-> b]
      PROVE  /\ [n EXCEPT !.pc = "forkret"] \in ThreadType
             /\ [n EXCEPT !.pc = "forkret"].pc = "forkret" /\ [n EXCEPT !.pc = "forkret"].ix = 0
             /\ [n EXCEPT !.pc = "forkret"].trap = "none"
  BY SMTT(40), <1>1, Words DEF ThreadType
<1> QED BY <1>1, Zenon DEF NoThread

-----------------------------------------------------------------------------

(* A step of a trap handler that stays in it and does not reach sched().     *)
LEMMA TrapStep ==
  ASSUME Base, NEW c \in Cpu, NEW t \in Thread, t = Current(c), LockStep(c, t), Ena(c)' <=> Ena(c),
         thr[t].trap # "none", thr[t].pc # "sched",
         NEW l \in {"clock_wake", "clock_end", "preempt", "trapret"}, NEW w,
         Moved(t, l, thr[t].ix, w, thr[t].trap), l \in WakeLabels => w \in Proc,
         proc' \in [Proc -> ProcType], \A p \in Proc : Untouched(p) \/ (WokenUp(p) /\ p # t),
         ~proc'[initproc].killed
  PROVE  Base'
<1>1. /\ thr'[t].pc = l /\ thr'[t].ix = thr[t].ix /\ thr'[t].wx = w /\ thr'[t].trap = thr[t].trap
      /\ Current(c)' = t /\ thr' \in [Thread -> ThreadType] /\ myproc(c)' = myproc(c)
  BY Zenon, LocalPlace DEF Moved, LockStep
<1>2. IntrOK(c)'
  BY Zenon, <1>1, Running DEF IntrOK
<1>3. t \notin Proc => SchedulerOK(c)'
  <2> SUFFICES ASSUME t \notin Proc PROVE SchedulerOK(c)'
    BY Zenon
  <2>1. t = Scheduler(c) /\ SchedulerOK(c) /\ myproc(c) = NULL
    BY Zenon, Running, CurrentThread DEF Base
  <2> QED BY Zenon, <1>1, <2>1 DEF SchedulerOK, SchedulerLabels, Scheduler
<1>4. t \in Proc => StateOK(t)' /\ TrapOK(t)' /\ ChanOK(t)'
  <2> SUFFICES ASSUME t \in Proc PROVE StateOK(t)' /\ TrapOK(t)' /\ ChanOK(t)'
    BY Zenon
  <2>1. thr[t].pc \in InTrap /\ thr[t].trap \in OpenLabels /\ On(t) /\ proc[t].state = "RUNNING"
    BY Zenon, Running DEF TrapOK
  <2>2. proc[t].chan = NULL
    BY Zenon, <2>1, Running DEF InTrap
  <2>3. On(t)' /\ proc'[t].state = "RUNNING" /\ proc'[t].chan = NULL
    BY Zenon, <2>1, <2>2, LocalPlace DEF LockStep, Untouched
  <2> QED BY Zenon, <1>1, <2>1, <2>3 DEF StateOK, TrapOK, ChanOK, InTrap
<1>5. Pos(t)' = Pos(t) /\ (Forking(t)' <=> Forking(t))
  BY <1>1 DEF Pos, Forking
<1>6. t \in Proc /\ Pos(t)' = "alloc" => thr'[t].ix \in Proc
  BY <1>1, <1>5, Zenon DEF Base, ForkInv
<1>7. t = initproc => Pos(t)' \notin ExitPc /\ proc'[t].state \notin {"UNUSED", "USED", "ZOMBIE"}
  BY Zenon, <1>5, Sets DEF Base, InitOK, Untouched
<1> QED BY Zenon, <1>1, <1>2, <1>3, <1>4, <1>5, <1>6, <1>7, LocalBase

(* clockintr() keeps the invariant: tickslock is taken, the sleepers are     *)
(* woken, tickslock is released.                                             *)
LEMMA ClockStep ==
  ASSUME Base, NEW c \in Cpu, NEW t \in Thread, t = Current(c), Wants(t) \notin Held, clockintr(c, t)
  PROVE  Base'
<1>1. thr[t].trap # "none" /\ thr[t].pc # "sched"
  BY Zenon, InTrapHas DEF clockintr, InTrap
<1>2. CASE /\ thr[t].pc = "clock" /\ acquire(c, tickslock)
           /\ proc' = [p \in Proc |-> [proc[p] EXCEPT !.left = IF @ > 0 THEN @ - 1 ELSE 0]]
           /\ thr' = [thr EXCEPT ![t].pc = "clock_wake", ![t].wx = 1]
  <2>1. Moved(t, "clock_wake", thr[t].ix, 1, thr[t].trap)
    BY <1>2, Sets, Words, MovedPcWx, Zenon
  <2>2. lock[tickslock] = NULL
    BY <1>2, LockFree, Sets DEF Wants
  <2>3. LockStep(c, t) /\ (Ena(c)' <=> Ena(c))
    BY <1>2, <2>1, <2>2, LockAcquire, Sets DEF Moved, Holds, HoldsAt, WaitLabels, TickLabels, OffLabels
  <2>4. \A q \in ProcType : [q EXCEPT !.left = IF @ > 0 THEN @ - 1 ELSE 0] \in ProcType
    BY DEF ProcType
  <2>5. proc' \in [Proc -> ProcType] /\ (\A p \in Proc : Untouched(p)) /\ ~proc'[initproc].killed
    BY <1>2, <2>4, Sets DEF Base, TypeInv, Untouched, ProcType, InitOK
  <2>6. 1 \in Proc
    BY Sets DEF initproc
  <2> QED BY <1>1, <2>1, <2>3, <2>5, <2>6, TrapStep
<1>3. CASE thr[t].pc = "clock_wake" /\ wakeup(t, "clock_end")
  <2>1. PICK l \in {"clock_wake", "clock_end"}, w \in Int :
          Moved(t, l, thr[t].ix, w, thr[t].trap) /\ (l \in WakeLabels => w \in Proc)
    <3>1. thr[t].wx + 1 \in Int /\ "clock_end" \notin WakeLabels /\ "clock_wake" \in WakeLabels
      <4>1. thr[t].wx \in Int
        BY DEF Base, TypeInv, ThreadType
      <4> QED BY <4>1 DEF WakeLabels
    <3> QED BY <1>3, <3>1, Sets, Words, WakeupMoves, Zenon
  <2>2. LockStep(c, t) /\ (Ena(c)' <=> Ena(c))
    BY <1>3, <2>1, LockBalanced, Zenon DEF Moved, Holds, HoldsAt, WaitLabels, TickLabels, wakeup
  <2>3. /\ \A p \in Proc : Untouched(p) \/ (WokenUp(p) /\ p # t)
        /\ proc' \in [Proc -> ProcType] /\ ~proc'[initproc].killed
    <3>1. ~proc[initproc].killed /\ initproc \in Proc /\ "clock_wake" \in WakeLabels
      BY ZenonT(40), Sets DEF Base, InitOK, WakeLabels
    <3> QED BY <1>3, <3>1, WakeupTable, Words, Zenon
  <2> QED BY Zenon, <1>1, <2>1, <2>2, <2>3, TrapStep
<1>4. CASE thr[t].pc = "clock_end" /\ release(c, tickslock) /\ Goto(t, "preempt") /\ UNCHANGED proc
  <2>1. Moved(t, "preempt", thr[t].ix, thr[t].wx, thr[t].trap)
    BY <1>4, Words, MovedPc, Zenon
  <2>2. LockStep(c, t) /\ (Ena(c)' <=> Ena(c))
    BY <1>4, <2>1, LockRelease, Sets DEF Moved, Holds, HoldsAt, WaitLabels, TickLabels, OffLabels
  <2>3. proc' \in [Proc -> ProcType] /\ (\A p \in Proc : Untouched(p)) /\ ~proc'[initproc].killed
    BY <1>4 DEF Base, TypeInv, Untouched, InitOK
  <2>4. "preempt" \notin WakeLabels
    BY DEF WakeLabels
  <2> QED BY <1>1, <2>1, <2>2, <2>3, <2>4, TrapStep
<1> QED BY <1>2, <1>3, <1>4 DEF clockintr

(* yield() returns from sched() with p->lock held.                           *)
LEMMA YieldStep ==
  ASSUME Base, NEW c \in Cpu, NEW t \in Thread, t = Current(c), yield(c, t)
  PROVE  Base'
<1>1. thr[t].trap # "none" /\ thr[t].pc = "yielded"
  BY InTrapHas DEF yield, InTrap
<1>2. Moved(t, "trapret", thr[t].ix, thr[t].wx, thr[t].trap)
  BY Words, MovedPc, Zenon DEF yield
<1>3. t \in Proc
  BY <1>1, Running DEF SchedulerOK, SchedulerLabels
<1>4. LockStep(c, t) /\ (Ena(c)' <=> Ena(c))
  BY <1>1, <1>2, <1>3, LockRelease, Sets DEF Moved, Holds, HoldsAt, WaitLabels, TickLabels, OffLabels, yield
<1>5. proc' \in [Proc -> ProcType] /\ (\A p \in Proc : Untouched(p)) /\ ~proc'[initproc].killed
  BY DEF Base, TypeInv, Untouched, InitOK, yield
<1>6. "trapret" \notin WakeLabels
  BY DEF WakeLabels
<1> QED BY <1>1, <1>2, <1>4, <1>5, <1>6, TrapStep, Zenon

(* The handler gives up the hart, returns, or exits a killed process.        *)
LEMMA PreemptStep ==
  ASSUME Base, NEW c \in Cpu, NEW t \in Thread, t = Current(c), Wants(t) \notin Held, Preempt(c, t)
  PROVE  Base'
<1>1. thr[t].trap # "none" /\ thr[t].pc = "preempt"
  BY InTrapHas DEF Preempt, InTrap
<1>2. CASE /\ Dies(t) /\ Balanced /\ UNCHANGED proc
           /\ thr' = [thr EXCEPT ![t].pc = "exit", ![t].trap = "none"]
  <2>1. Moved(t, "exit", thr[t].ix, thr[t].wx, "none")
    BY <1>2, Words, MovedPcTrap, Zenon
  <2>2. t \in Proc /\ proc[t].state = "RUNNING" /\ proc[t].chan = NULL
    BY <1>1, <1>2, Running DEF Dies, InUser, SchedulerOK
  <2>3. t # initproc
    BY <1>2 DEF Dies, Base, InitOK
  <2>4. LockStep(c, t)
    BY <1>1, <1>2, <2>1, LockBalanced, Zenon DEF Moved, Holds, HoldsAt, WaitLabels, TickLabels, OffLabels
  <2>5. proc' \in [Proc -> ProcType] /\ (\A p \in Proc : Untouched(p)) /\ ~proc'[initproc].killed
    BY <1>2 DEF Base, TypeInv, Untouched, InitOK
  <2>6. "exit" \in RunLabels /\ "exit" \in ExitPc /\ "exit" \notin WakeLabels
    BY DEF RunLabels, OpenLabels, ExitPc, WakeLabels
  <2>20. PlainMove(c, t, "exit", thr[t].ix, thr[t].wx)
    BY <1>2, <2>1, <2>2, <2>3, <2>4, <2>5, <2>6 DEF PlainMove
  <2> QED BY Zenon, <2>20, PlainStep
<1>3. CASE Yields(t) /\ acquire(c, t) /\ Goto(t, "sched") /\ proc' = [proc EXCEPT ![t].state = "RUNNABLE"]
  <2>1. Moved(t, "sched", thr[t].ix, thr[t].wx, thr[t].trap)
    BY <1>3, Words, MovedPc, Zenon
  <2>2. t \in Proc /\ proc[t].chan = NULL /\ On(t) /\ TrapOK(t) /\ IntrOK(c)
    BY Zenon, <1>1, <1>3, Running DEF Yields
  <2>3. lock[t] = NULL
    BY <1>1, <1>3, <2>2, LockFree, Sets DEF Wants
  <2>4. LockStep(c, t) /\ (Ena(c)' <=> Ena(c))
    BY <1>1, <1>3, <2>1, <2>2, <2>3, LockAcquire, Sets DEF Moved, Holds, HoldsAt, WaitLabels, TickLabels, OffLabels
  <2>5. proc' \in [Proc -> ProcType] /\ (\A p \in Proc \ {t} : Untouched(p)) /\ ~proc'[initproc].killed
    BY <1>3, <2>2, Sets DEF Base, TypeInv, Untouched, InitOK, ProcType, States
  <2>6. proc'[t].state = "RUNNABLE" /\ proc'[t].chan = NULL
    BY ZenonT(40), <1>3, <2>2 DEF Base, TypeInv, ProcType
  <2>7. /\ thr'[t].pc = "sched" /\ thr'[t].trap = thr[t].trap /\ thr'[t].ix = thr[t].ix /\ thr' \in [Thread -> ThreadType]
        /\ Current(c)' = t /\ On(t)'
    BY Zenon, <2>1, <2>2, <2>4, LocalPlace DEF Moved, LockStep
  <2>8. StateOK(t)' /\ TrapOK(t)' /\ ChanOK(t)'
    BY Zenon, <1>1, <2>2, <2>6, <2>7 DEF StateOK, TrapOK, ChanOK, InTrap
  <2>9. IntrOK(c)'
    BY Zenon, <1>1, <2>2, <2>4, <2>7 DEF IntrOK
  <2>10. Pos(t)' = Pos(t) /\ (Forking(t)' <=> Forking(t)) /\ "sched" \notin WakeLabels
    BY <1>1, <2>7 DEF Pos, Forking, WakeLabels
  <2>11. Pos(t)' = "alloc" => thr'[t].ix \in Proc
    BY <2>2, <2>7, <2>10, Zenon DEF Base, ForkInv
  <2>12. t = initproc => Pos(t)' \notin ExitPc
    BY ZenonT(40), <2>10 DEF Base, InitOK
  <2> QED BY Zenon, <2>2, <2>4, <2>5, <2>6, <2>7, <2>8, <2>9, <2>10, <2>11, <2>12, LocalBase
<1>4. CASE Goto(t, "trapret") /\ Balanced /\ UNCHANGED proc
  <2>1. Moved(t, "trapret", thr[t].ix, thr[t].wx, thr[t].trap)
    BY <1>4, Words, MovedPc, Zenon
  <2>2. LockStep(c, t) /\ (Ena(c)' <=> Ena(c))
    BY <1>1, <1>4, <2>1, LockBalanced, Zenon DEF Moved, Holds, HoldsAt, WaitLabels, TickLabels, OffLabels
  <2>3. proc' \in [Proc -> ProcType] /\ (\A p \in Proc : Untouched(p)) /\ ~proc'[initproc].killed
    BY <1>4 DEF Base, TypeInv, Untouched, InitOK
  <2>4. "trapret" \notin WakeLabels
    BY DEF WakeLabels
  <2> QED BY Zenon, <1>1, <2>1, <2>2, <2>3, <2>4, TrapStep
<1> QED BY <1>2, <1>3, <1>4 DEF Preempt

(* A step without locks that sets the interrupt-enable bit. *)
LEMMA SieStep ==
  ASSUME Base, NEW c \in Cpu, NEW t \in Thread, t = Current(c), NEW b \in BOOLEAN,
         hart' = [hart EXCEPT ![c].sie = b], UNCHANGED <<lock, panicked>>,
         Holds(t) = {}, Holds(t)' = {}, \A u \in Thread \ {t} : thr'[u] = thr[u]
  PROVE  LockStep(c, t) /\ (Ena(c)' <=> b)
<1>0. hart[c] \in HartType /\ hart[c].noff = 0 /\ lock' = lock
  BY DEF TypeInv, LockInv, Base
<1>1. /\ hart'[c].noff = 0 /\ hart'[c].sie = b /\ hart'[c].proc = hart[c].proc
      /\ \A d \in Cpu \ {c} : hart'[d] = hart[d]
  BY <1>0 DEF HartType, TypeInv, Base
<1>2. Local(c, t)
  BY <1>1 DEF Local
<1>3. LockInv'
  BY <1>0, <1>1, <1>2, LockLocal DEF Base, LockInv
<1>4. hart' \in [Cpu -> HartType]
  BY DEF TypeInv, Base, HartType
<1>5. lock' \in [Lock -> Cpu \cup {NULL}]
  BY <1>0 DEF TypeInv, Base
<1>6. panicked' = FALSE
  BY Zenon DEF TypeInv, Base
<1> QED BY <1>1, <1>2, <1>3, <1>4, <1>5, <1>6 DEF LockStep, Ena

(* No lock is held at the places where interrupts may be on.                 *)
LEMMA OpenHolds ==
  ASSUME NEW l \in OpenLabels \cup {"scan", "clock", "preempt", "trapret"}, NEW t
  PROVE  HoldsAt(l, t) = {}
BY DEF HoldsAt, OpenLabels, WaitLabels, TickLabels, OffLabels

(* kerneltrap() and usertrapret() return to the interrupted place with       *)
(* interrupts back on.                                                       *)
LEMMA TrapReturnStep ==
  ASSUME Base, NEW c \in Cpu, NEW t \in Thread, t = Current(c), TrapReturn(c, t)
  PROVE  Base'
<1>1. thr[t].trap # "none" /\ thr[t].pc = "trapret"
  BY Zenon, InTrapHas DEF TrapReturn, InTrap
<1>2. thr[t].trap \in OpenLabels \cup {"scan"} /\ thr[t].trap \in Labels
  BY <1>1, Running DEF TrapOK, SchedulerOK, Base, TypeInv, ThreadType
<1>3. Moved(t, thr[t].trap, thr[t].ix, thr[t].wx, "none")
  BY <1>2, Words, MovedPcTrap, Zenon DEF TrapReturn
<1>4. Holds(t) = {} /\ Holds(t)' = {}
  BY <1>1, <1>2, <1>3, OpenHolds DEF Holds, Moved
<1>5. LockStep(c, t) /\ Ena(c)'
  BY <1>3, <1>4, SieStep, Zenon DEF Moved, TrapReturn
<1>6. proc' \in [Proc -> ProcType] /\ (\A p \in Proc : Untouched(p)) /\ ~proc'[initproc].killed /\ proc' = proc
  BY DEF Base, TypeInv, Untouched, InitOK, TrapReturn
<1>7. CASE t \in Proc
  <2>1. /\ proc[t].state = "RUNNING" /\ proc[t].chan = NULL /\ thr[t].trap \in OpenLabels
    BY <1>1, <1>7, Running DEF TrapOK
  <2>2. Pos(t) = thr[t].trap
    BY <1>1 DEF Pos
  <2> DEFINE l == thr[t].trap
  <2>3. l \in RunLabels /\ l \notin WakeLabels
    BY Zenon, <2>1 DEF RunLabels, OpenLabels, WakeLabels
  <2>4. /\ l = "alloc" => thr[t].ix \in Proc
        /\ t = initproc => l \notin ExitPc
        /\ l \in {"fork_parent", "fork_run"} => Forking(t)
    BY <1>7, <2>2 DEF Base, ForkInv, InitOK, Forking
  <2>5. PlainMove(c, t, l, thr[t].ix, thr[t].wx)
    BY Zenon, <1>3, <1>5, <1>6, <1>7, <2>1, <2>3, <2>4 DEF PlainMove
  <2> QED BY Zenon, <2>5, PlainStep
<1>8. CASE t \notin Proc
  <2>1. t = Scheduler(c) /\ SchedulerOK(c) /\ myproc(c) = NULL /\ t # initproc
    BY Zenon, <1>8, Running, CurrentThread, Sets DEF Base
  <2>2. thr[t].trap = "scan" /\ thr[t].ix \in Proc
    BY <1>1, <2>1 DEF SchedulerOK, Scheduler
  <2>3. /\ thr'[t].pc = "scan" /\ thr'[t].trap = "none" /\ thr'[t].ix = thr[t].ix
        /\ Current(c)' = t /\ myproc(c)' = NULL /\ thr' \in [Thread -> ThreadType]
    BY <1>3, <1>5, <2>1, <2>2, LocalPlace, Zenon DEF Moved, LockStep
  <2>4. SchedulerOK(c)'
    BY Zenon, <2>1, <2>2, <2>3 DEF SchedulerOK, SchedulerLabels, Scheduler
  <2>5. IntrOK(c)' /\ "scan" \notin WakeLabels
    BY <1>8, <2>3 DEF IntrOK, WakeLabels
  <2> QED BY <1>5, <1>6, <1>8, <2>1, <2>3, <2>4, <2>5, LocalBase, Zenon
<1> QED BY <1>7, <1>8

(* A process enters a system call.                                           *)
LEMMA UserCallStep ==
  ASSUME Base, NEW c \in Cpu, NEW t \in Thread, t = Current(c),
         NEW call \in {"alloc", "exit", "wait", "sleep", "kill"}, UserCall(c, t, call)
  PROVE  Base'
<1> DEFINE l == IF proc[t].killed THEN "exit" ELSE call
           i == IF call = "alloc" /\ ~proc[t].killed THEN 1 ELSE 0
<1>1. /\ t \in Proc /\ thr[t].trap = "none" /\ proc[t].state = "RUNNING" /\ proc[t].chan = NULL
      /\ proc[t].killed \in BOOLEAN
  <2>1. thr[t].pc \in RunLabels
    BY DEF RunLabels, OpenLabels, UserCall
  <2> QED BY <2>1, Plain DEF ProcType
<1>2. /\ l \in {"alloc", "exit", "wait", "sleep", "kill"} /\ l \in Labels
      /\ i \in Int /\ (l = "alloc" => i \in Proc)
      /\ l \notin ExitPc => ~proc[t].killed
      /\ t = initproc => l \notin ExitPc
  BY Sets DEF Labels, initproc, ExitPc, Base, InitOK, UserCall
<1>3. GotoAt(t, l, i)
  BY DEF UserCall, GotoAt
<1>4. hart' = [hart EXCEPT ![c].sie = ~proc[t].killed] /\ UNCHANGED <<proc, lock, panicked>>
  BY DEF UserCall
<1>5. (~proc[t].killed) \in BOOLEAN
  OBVIOUS
<1> HIDE DEF l, i
<1>6. Moved(t, l, i, thr[t].wx, "none")
  <2>1. Moved(t, l, i, thr[t].wx, thr[t].trap)
    BY <1>2, <1>3, MovedPcIx
  <2> QED BY Zenon, <1>1, <2>1
<1>7. Holds(t) = {} /\ Holds(t)' = {}
  BY <1>2, <1>6, OpenHolds DEF Holds, Moved, OpenLabels, UserCall
<1>8. LockStep(c, t) /\ (Ena(c)' <=> ~proc[t].killed)
  <2>1. \A u \in Thread \ {t} : thr'[u] = thr[u]
    BY <1>6 DEF Moved
  <2> QED BY <1>4, <1>5, <1>7, <2>1, SieStep, Zenon
<1>9. proc' \in [Proc -> ProcType] /\ (\A p \in Proc : Untouched(p)) /\ ~proc'[initproc].killed /\ proc' = proc
  BY <1>4 DEF Base, TypeInv, Untouched, InitOK
<1>10. l \in RunLabels /\ l \notin WakeLabels /\ l \notin {"fork_parent", "fork_run"}
  BY Zenon, <1>2 DEF RunLabels, OpenLabels, WakeLabels
<1>11. PlainMove(c, t, l, i, thr[t].wx)
  BY Zenon, <1>1, <1>2, <1>6, <1>8, <1>9, <1>10 DEF PlainMove
<1> QED BY Zenon, <1>11, PlainStep

(* A timer interrupt arrives only where interrupts are on, so where no lock  *)
(* is held.                                                                  *)
LEMMA TimerStep ==
  ASSUME Base, NEW c \in Cpu, NEW t \in Thread, t = Current(c), TimerInterrupt(c)
  PROVE  Base'
<1> DEFINE l == IF c = 1 THEN "clock" ELSE "preempt"
<1>1. t \in Thread /\ hart[c].sie
  BY CurrentThread DEF Base, TimerInterrupt
<1>2. thr[t].trap = "none" /\ Holds(t) = {}
  <2>1. thr[t].trap = "none"
    BY <1>1, Running
  <2> QED BY <1>1, <2>1 DEF Base, LockInv
<1>3. thr[t].pc \in OpenLabels \cup {"scan"} /\ (t \in Proc => thr[t].pc \in OpenLabels) /\ thr[t].pc \in Labels
  <2>1. CASE t \in Proc
    <3>1. thr[t].pc \in RunLabels \cup {"sched", "wait_woken", "sleep_woken", "forkret"}
      BY Zenon, <1>1, <1>2, <2>1, Running DEF TrapOK
    <3>2. thr[t].pc \notin WaitLabels /\ thr[t].pc \notin TickLabels /\ thr[t].pc \notin OffLabels /\ thr[t].pc # "sched"
      BY <1>2 DEF Holds, HoldsAt
    <3> QED BY Zenon, <1>1, <3>1, <3>2 DEF RunLabels, TickLabels, OffLabels, Base, TypeInv, ThreadType
  <2>2. CASE t \notin Proc
    BY <1>1, <1>2, <2>2, Running DEF SchedulerOK, Base, TypeInv, ThreadType
  <2> QED BY <2>1, <2>2
<1>4. l \in {"clock", "preempt"} /\ l \in Labels
  BY DEF Labels
<1>5. thr' = [thr EXCEPT ![t].trap = thr[t].pc, ![t].pc = l]
  BY DEF TimerInterrupt
<1>6. hart' = [hart EXCEPT ![c].sie = FALSE] /\ UNCHANGED <<proc, lock, panicked>>
  BY DEF TimerInterrupt
<1> HIDE DEF l
<1>8. Moved(t, l, thr[t].ix, thr[t].wx, thr[t].pc)
  BY <1>1, <1>3, <1>4, <1>5, MovedPcTrap, Zenon
<1>9. Holds(t)' = {}
  BY Zenon, <1>4, <1>8, OpenHolds DEF Holds, Moved
<1>10. LockStep(c, t) /\ ~Ena(c)'
  <2>1. \A u \in Thread \ {t} : thr'[u] = thr[u]
    BY <1>8 DEF Moved
  <2> QED BY <1>1, <1>2, <1>6, <1>9, <2>1, SieStep, Zenon
<1>11. proc' \in [Proc -> ProcType] /\ (\A p \in Proc : Untouched(p)) /\ ~proc'[initproc].killed /\ proc' = proc
  BY Zenon, <1>6 DEF Base, TypeInv, Untouched, InitOK
<1>12. /\ thr'[t].pc = l /\ thr'[t].trap = thr[t].pc /\ thr'[t].ix = thr[t].ix /\ thr' \in [Thread -> ThreadType]
       /\ Current(c)' = t /\ myproc(c)' = myproc(c) /\ (On(t)' <=> On(t)) /\ thr[t].pc # "none"
  BY Zenon, <1>3, <1>8, <1>10, LocalPlace DEF Moved, LockStep, OpenLabels
<1>13. IntrOK(c)'
  BY Zenon, <1>10, <1>12 DEF IntrOK
<1>14. t \in Proc => StateOK(t)' /\ TrapOK(t)' /\ ChanOK(t)'
  <2> SUFFICES ASSUME t \in Proc PROVE StateOK(t)' /\ TrapOK(t)' /\ ChanOK(t)'
    OBVIOUS
  <2>1. On(t) /\ proc[t].state = "RUNNING" /\ proc[t].chan = NULL /\ thr[t].pc \in OpenLabels
    BY Zenon, <1>1, <1>3, Running DEF OpenLabels
  <2> QED BY Zenon, <1>4, <1>11, <1>12, <2>1 DEF StateOK, TrapOK, ChanOK, InTrap
<1>15. t \notin Proc => SchedulerOK(c)'
  <2> SUFFICES ASSUME t \notin Proc PROVE SchedulerOK(c)'
    BY Zenon
  <2>1. t = Scheduler(c) /\ SchedulerOK(c) /\ myproc(c) = NULL
    BY Zenon, <1>1, Running, CurrentThread DEF Base
  <2>2. thr[t].pc = "scan" /\ thr[t].ix \in Proc
    BY ZenonT(40), <1>2, <2>1 DEF SchedulerOK, Scheduler
  <2> QED BY <1>4, <1>12, <2>1, <2>2 DEF SchedulerOK, SchedulerLabels, Scheduler
<1>16. Pos(t)' = Pos(t) /\ (Forking(t)' <=> Forking(t)) /\ l \notin WakeLabels
  BY Zenon, <1>2, <1>4, <1>12 DEF Pos, Forking, WakeLabels
<1>17. t \in Proc /\ Pos(t)' = "alloc" => thr'[t].ix \in Proc
  BY <1>12, <1>16, Zenon DEF Base, ForkInv
<1>18. t = initproc => Pos(t)' \notin ExitPc /\ proc'[t].state \notin {"UNUSED", "USED", "ZOMBIE"}
  BY <1>11, <1>16 DEF Base, InitOK
<1> QED BY Zenon, <1>1, <1>10, <1>11, <1>12, <1>13, <1>14, <1>15, <1>16, <1>17, <1>18, LocalBase

(* A new process releases the p->lock that the scheduler took for it.        *)
LEMMA ForkretStep ==
  ASSUME Base, NEW c \in Cpu, NEW t \in Thread, t = Current(c), forkret(c, t)
  PROVE  Base'
<1>1. Moved(t, "user", thr[t].ix, thr[t].wx, thr[t].trap)
  BY Words, MovedPc, Zenon DEF forkret
<1>2. t \in Proc /\ thr[t].trap = "none" /\ proc[t].state = "RUNNING" /\ proc[t].chan = NULL
  BY Running DEF SchedulerOK, SchedulerLabels, TrapOK, InTrap, forkret
<1>3. Holds(t) = {t} /\ t \in Lock /\ Holds(t)' = {}
  BY <1>1, <1>2, Sets DEF Holds, HoldsAt, WaitLabels, TickLabels, OffLabels, Moved, forkret
<1>4. hart[c] \in HartType /\ hart[c].noff = 1 /\ lock[t] = c /\ NULL \notin Cpu
  BY <1>3, Sets DEF TypeInv, LockInv, Base
<1>5. /\ hart'[c].noff = 0 /\ hart'[c].sie /\ hart'[c].proc = hart[c].proc
      /\ \A d \in Cpu \ {c} : hart'[d] = hart[d]
  BY <1>4 DEF forkret, pop_off, HartType, TypeInv, Base
<1>6. Local(c, t)
  BY <1>1, <1>5 DEF Local, Moved
<1>7. \A m \in Lock : /\ \A d \in Cpu \ {c} : lock'[m] = d <=> lock[m] = d
                      /\ lock'[m] # c
  BY <1>3, <1>4 DEF forkret, TypeInv, LockInv, Base
<1>8. LockInv'
  BY <1>3, <1>5, <1>6, <1>7, LockLocal
<1>9. hart' \in [Cpu -> HartType]
  <2>1. \A h \in HartType : [h EXCEPT !.sie = TRUE] \in HartType
    BY Zenon DEF HartType
  <2>2. [pop_off(hart[c]) EXCEPT !.sie = TRUE] \in HartType
    BY <1>4, <2>1, PopType
  <2> QED BY <2>2 DEF forkret, TypeInv, Base
<1>10. lock' \in [Lock -> Cpu \cup {NULL}]
  BY <1>3 DEF forkret, TypeInv, Base
<1>11. panicked' = FALSE
  BY <1>4, Zenon DEF forkret, holding
<1>12. LockStep(c, t) /\ Ena(c)'
  BY <1>5, <1>6, <1>8, <1>9, <1>10, <1>11 DEF LockStep, Ena
<1>13. proc' \in [Proc -> ProcType] /\ (\A p \in Proc : Untouched(p)) /\ ~proc'[initproc].killed /\ proc' = proc
  BY DEF Base, TypeInv, Untouched, InitOK, forkret
<1>14. "user" \in RunLabels /\ "user" \notin ExitPc /\ "user" \notin WakeLabels
  BY Zenon DEF RunLabels, OpenLabels, ExitPc, WakeLabels
<1>20. PlainMove(c, t, "user", thr[t].ix, thr[t].wx)
  BY Zenon, <1>1, <1>2, <1>12, <1>13, <1>14 DEF PlainMove
<1> QED BY Zenon, <1>20, PlainStep

(* Between two slots the scheduler only turns interrupts on.                 *)
LEMMA NextSlotType ==
  ASSUME NEW c \in Cpu, NEW h \in HartType
  PROVE  /\ NextSlot(c, h) \in HartType /\ NextSlot(c, h).noff = h.noff /\ NextSlot(c, h).proc = h.proc
         /\ NextSlot(c, h).intena = h.intena
BY Zenon DEF NextSlot, HartType

(* The scheduler passes a slot that is not RUNNABLE.                         *)
LEMMA ScanPassStep ==
  ASSUME Base, NEW c \in Cpu, NEW t \in Thread, t = Current(c), ScanPass(c)
  PROVE  Base'
<1>1. /\ t = Scheduler(c) /\ t \notin Proc /\ t # initproc /\ myproc(c) = NULL
      /\ thr[t].pc = "scan" /\ thr[t].trap = "none"
  <2>1. t = Scheduler(c) /\ t \notin Proc /\ t # initproc
    BY Sets DEF ScanPass, Current
  <2> QED BY <2>1 DEF ScanPass, Base, HartInv, SchedulerOK
<1>2. thr' = [thr EXCEPT ![t].ix = NextIx(c)] /\ NextIx(c) \in Proc /\ NextIx(c) \in Int
  BY <1>1, NextIxIn, Sets DEF ScanPass
<1>3. /\ thr' \in [Thread -> ThreadType] /\ (\A u \in Thread \ {t} : thr'[u] = thr[u])
      /\ thr'[t].pc = "scan" /\ thr'[t].trap = "none" /\ thr'[t].ix \in Proc
  BY <1>1, <1>2 DEF Base, TypeInv, ThreadType
<1>4. Holds(t) = {} /\ Holds(t)' = {}
  BY Zenon, <1>1, <1>3, OpenHolds DEF Holds
<1>5. hart[c] \in HartType /\ hart[c].noff = 0 /\ hart' = [hart EXCEPT ![c] = NextSlot(c, @)] /\ lock' = lock
  BY <1>4 DEF Base, TypeInv, LockInv, ScanPass
<1>6. /\ hart' \in [Cpu -> HartType] /\ (\A d \in Cpu \ {c} : hart'[d] = hart[d])
      /\ hart'[c].noff = 0 /\ hart'[c].proc = hart[c].proc
  BY Zenon, <1>5, NextSlotType DEF Base, TypeInv
<1>7. Local(c, t)
  BY Zenon, <1>3, <1>6 DEF Local
<1>8. LockInv'
  BY <1>4, <1>5, <1>6, <1>7, LockLocal DEF Base, LockInv
<1>9. panicked' = FALSE /\ lock' \in [Lock -> Cpu \cup {NULL}]
  BY <1>5, Zenon DEF Base, TypeInv, ScanPass
<1>10. LockStep(c, t)
  BY <1>6, <1>7, <1>8, <1>9 DEF LockStep
<1>11. Current(c)' = t /\ myproc(c)' = NULL
  BY <1>1, <1>7, LocalPlace, Zenon
<1>12. SchedulerOK(c)' /\ IntrOK(c)' /\ "scan" \notin WakeLabels
  BY <1>1, <1>3, <1>11 DEF SchedulerOK, IntrOK, SchedulerLabels, Scheduler, WakeLabels
<1>13. proc' \in [Proc -> ProcType] /\ (\A p \in Proc : Untouched(p)) /\ ~proc'[initproc].killed
  BY DEF Base, TypeInv, Untouched, InitOK, ScanPass
<1> QED BY <1>1, <1>3, <1>10, <1>12, <1>13, LocalBase, Zenon

(* swtch(): hart c goes over between its scheduler and process p, and what  *)
(* the rest of the table and the other harts are does not change.           *)
Switched(c, p) ==
  /\ \A d \in Cpu \ {c} : hart'[d] = hart[d]
  /\ \A u \in Thread \ {p, Scheduler(c)} : thr'[u] = thr[u]
  /\ \A q \in Proc \ {p} : proc'[q] = proc[q]

(* What swtch() leaves behind on hart c: the locks and the interrupt flag    *)
(* are those of the thread it now runs.                                      *)
SwitchedHart(c) ==
  /\ \A l \in Lock, d \in Cpu \ {c} : lock'[l] = d <=> lock[l] = d
  /\ \A l \in Lock : lock'[l] = c <=> l \in Holds(Current(c))'
  /\ hart'[c].noff = IF Holds(Current(c))' = {} THEN 0 ELSE 1
  /\ Holds(Current(c))' # {} => ~hart'[c].sie
  /\ SchedulerOK(c)' /\ IntrOK(c)'
  /\ thr'[Scheduler(c)].pc \notin WakeLabels

(* What swtch() leaves behind of process p, to which or from which hart c    *)
(* went.                                                                     *)
SwitchedProc(p) ==
  /\ StateOK(p)' /\ TrapOK(p)' /\ ChanOK(p)' /\ SavedOK(p)'
  /\ Pos(p)' = Pos(p) \/ Pos(p)' \in {"dead", "wait_woken", "sleep_woken"}
  /\ thr'[p].ix = thr[p].ix /\ proc[p].state # "USED" /\ thr'[p].pc \notin WakeLabels
  /\ proc'[p].killed = proc[p].killed
  /\ p = initproc => proc'[p].state \notin {"UNUSED", "USED", "ZOMBIE"}

(* A context switch keeps the invariant when the clauses about the hart, the *)
(* scheduler and the process hold after it.                                  *)
LEMMA SwitchBase ==
  ASSUME Base, NEW c \in Cpu, NEW p \in Proc, Switched(c, p),
         \A d \in Cpu \ {c} : myproc(d) # p,
         \/ myproc(c) = NULL /\ myproc(c)' = p
         \/ myproc(c) = p /\ myproc(c)' = NULL,
         TypeInv', ~panicked', SwitchedHart(c), SwitchedProc(p)
  PROVE  Base'
<1>1. \A d \in Cpu \ {c} : myproc(d)' = myproc(d) /\ Current(d)' = Current(d)
  BY Zenon DEF Switched, myproc, Current
<1>2. \A d \in Cpu \ {c} : Current(d) \in Thread \ {p, Scheduler(c)}
  <2> SUFFICES ASSUME NEW d \in Cpu \ {c} PROVE Current(d) \in Thread \ {p, Scheduler(c)}
    BY Zenon
  <2>1. Current(d) \in Thread /\ (Current(d) = Scheduler(d) \/ (Current(d) \in Proc /\ Current(d) = myproc(d)))
    BY CurrentThread DEF Base
  <2>2. Scheduler(d) # Scheduler(c) /\ Scheduler(d) \notin Proc /\ Scheduler(c) \notin Proc
    BY Zenon, Sets
  <2> QED BY <2>1, <2>2
<1>3. \A d \in Cpu \ {c} : thr'[Current(d)] = thr[Current(d)] /\ hart'[d] = hart[d]
  BY Zenon, <1>2 DEF Switched
<1>4. LockInv'
  <2> SUFFICES ASSUME NEW d \in Cpu \ {c}
               PROVE  /\ \A l \in Lock : lock'[l] = d <=> l \in Holds(Current(d))'
                      /\ hart'[d].noff = IF Holds(Current(d))' = {} THEN 0 ELSE 1
                      /\ Holds(Current(d))' # {} => ~hart'[d].sie
    BY Zenon DEF LockInv, SwitchedHart
  <2>1. Holds(Current(d))' = Holds(Current(d))
    BY <1>1, <1>3 DEF Holds
  <2>2. /\ \A l \in Lock : lock[l] = d <=> l \in Holds(Current(d))
        /\ hart[d].noff = IF Holds(Current(d)) = {} THEN 0 ELSE 1
        /\ Holds(Current(d)) # {} => ~hart[d].sie
    BY Zenon DEF Base, LockInv
  <2>3. \A l \in Lock : lock'[l] = d <=> lock[l] = d
    BY Zenon DEF SwitchedHart
  <2> QED BY Zenon, <1>3, <2>1, <2>2, <2>3
<1>5. HartInv'
  <2>1. ASSUME NEW d \in Cpu \ {c} PROVE SchedulerOK(d)'
    <3>1. Scheduler(d) \in Thread \ {p, Scheduler(c)}
      BY Zenon, <2>1, Sets
    <3>2. thr'[Scheduler(d)] = thr[Scheduler(d)] /\ myproc(d)' = myproc(d)
      BY <1>1, <3>1 DEF Switched
    <3> QED BY <3>2 DEF Base, HartInv, SchedulerOK, Scheduler
  <2>2. ASSUME NEW d \in Cpu, NEW e \in Cpu, d # e, myproc(d)' # NULL PROVE myproc(d)' # myproc(e)'
    <3>1. p # NULL
      BY Zenon, Sets
    <3>2. CASE d = c
      BY <1>1, <2>2, <3>2
    <3>3. CASE e = c
      BY <1>1, <2>2, <3>3
    <3>4. CASE d # c /\ e # c
      BY <1>1, <2>2, <3>4 DEF Base, HartInv
    <3> QED BY Zenon, <3>2, <3>3, <3>4
  <2> QED BY Zenon, <2>1, <2>2 DEF HartInv, SwitchedHart
<1>6. ASSUME NEW q \in Proc \ {p} PROVE thr'[q] = thr[q] /\ proc'[q] = proc[q] /\ (On(q)' <=> On(q))
  <2>1. q \in Thread \ {p, Scheduler(c)} /\ q # NULL
    BY <1>6, Sets
  <2>2. \A d \in Cpu : myproc(d)' = q <=> myproc(d) = q
    BY Zenon, <1>1, <1>6, <2>1
  <2> QED BY Zenon, <1>6, <2>1, <2>2 DEF Switched, On
<1>7. ASSUME NEW q \in Proc PROVE StateOK(q)' /\ TrapOK(q)' /\ ChanOK(q)' /\ SavedOK(q)'
  <2> SUFFICES ASSUME q # p PROVE StateOK(q)' /\ TrapOK(q)' /\ ChanOK(q)' /\ SavedOK(q)'
    BY Zenon DEF SwitchedProc
  <2>1. /\ StateOK(q) /\ TrapOK(q) /\ ChanOK(q) /\ SavedOK(q)
        /\ thr'[q] = thr[q] /\ proc'[q] = proc[q] /\ (On(q)' <=> On(q))
    BY Zenon, <1>6 DEF Base, PlaceInv, IntrInv
  <2>2. StateOK(q)'
    BY Zenon, <2>1 DEF StateOK
  <2>3. TrapOK(q)'
    BY ZenonT(40), <2>1 DEF TrapOK
  <2>4. ChanOK(q)'
    BY Zenon, <2>1 DEF ChanOK
  <2>5. SavedOK(q)'
    BY Zenon, <2>1 DEF SavedOK
  <2> QED BY Zenon, <2>2, <2>3, <2>4, <2>5
<1>8. IntrInv'
  <2>1. ASSUME NEW d \in Cpu \ {c} PROVE IntrOK(d)'
    <3> DEFINE u == Current(d)
    <3>1. Current(d)' = u /\ thr'[u] = thr[u] /\ hart'[d] = hart[d] /\ IntrOK(d) /\ (u \in Proc => proc'[u] = proc[u])
      BY Zenon, <1>1, <1>2, <1>3, <1>6 DEF Base, IntrInv
    <3>2. Current(d) = u
      BY Zenon
    <3> HIDE DEF u
    <3> QED BY Zenon, <3>1, <3>2 DEF IntrOK, Ena
  <2> QED BY Zenon, <1>7, <2>1 DEF IntrInv, SwitchedHart
<1>9. \A q \in Proc : /\ Pos(q)' = Pos(q) \/ Pos(q)' \in {"dead", "wait_woken", "sleep_woken"}
                      /\ (Forking(q)' => Forking(q)) /\ thr'[q].ix = thr[q].ix
  <2>1. \A q \in Proc \ {p} : Pos(q)' = Pos(q)
    BY Zenon, <1>6 DEF Pos
  <2> QED BY Zenon, <1>6, <2>1 DEF Forking, SwitchedProc
<1>10. ForkInv'
  <2>1. \A u \in Thread : thr'[u].pc \in WakeLabels => thr'[u].wx \in Proc
    BY Zenon DEF Switched, SwitchedHart, SwitchedProc, Base, ForkInv
  <2>2. \A q \in Proc : Pos(q)' = "alloc" => thr'[q].ix \in Proc
    BY Zenon, <1>9 DEF Base, ForkInv
  <2>3. ASSUME NEW q \in Proc, Forking(q)' PROVE thr'[q].ix \in Proc /\ proc'[thr'[q].ix].state = "USED"
    <3>1. Forking(q) /\ thr'[q].ix = thr[q].ix
      BY Zenon, <1>9, <2>3
    <3>2. thr[q].ix \in Proc /\ proc[thr[q].ix].state = "USED"
      BY Zenon, <3>1 DEF Base, ForkInv
    <3>3. thr[q].ix # p
      BY Zenon, <3>2 DEF SwitchedProc
    <3>4. proc'[thr[q].ix] = proc[thr[q].ix]
      BY Zenon, <1>6, <3>2, <3>3
    <3> QED BY Zenon, <3>1, <3>2, <3>4
  <2>4. \A q, r \in Proc : Forking(q)' /\ Forking(r)' /\ thr'[q].ix = thr'[r].ix => q = r
    BY ZenonT(40), <1>9 DEF Base, ForkInv
  <2> QED BY ZenonT(40), <2>1, <2>2, <2>3, <2>4 DEF ForkInv
<1>11. InitOK'
  BY <1>6, <1>9, Sets DEF Base, InitOK, ExitPc, SwitchedProc
<1> QED BY ZenonT(40), <1>4, <1>5, <1>7, <1>8, <1>10, <1>11 DEF Base, PlaceInv

(* scheduler() switches to a RUNNABLE process, holding its lock across       *)
(* swtch().                                                                  *)
LEMMA SwitchInStep ==
  ASSUME Base, NEW c \in Cpu, Wants(Current(c)) \notin Held, ScanSwitch(c),
         NEW p, p = thr[Scheduler(c)].ix
  PROVE  Base'
<1> DEFINE s == Scheduler(c)
<1>1. p \in Proc /\ s \in Thread /\ s \notin Proc /\ s # p /\ p \in Lock /\ p # NULL /\ c # NULL /\ p \in Thread
  BY NextIxIn, Sets, Zenon
<1>2. Current(c) = s /\ myproc(c) = NULL /\ thr[s].pc = "scan" /\ proc[p].state = "RUNNABLE"
  BY DEF ScanSwitch, Current
<1>3. lock[p] = NULL
  <2>1. Wants(s) = p
    BY <1>2 DEF Wants
  <2> QED BY <1>1, <1>2, <2>1, LockFree
<1>4. ~On(p) /\ thr[p].pc \in OffLabels /\ thr[p].trap \in Labels
  BY Zenon, <1>1, <1>2, <1>3, NotSwitching DEF Base, PlaceInv, StateOK, TypeInv, ThreadType
<1>5. Holds(s) = {}
  BY <1>2, OpenHolds DEF Holds
<1>6. hart[c] \in HartType /\ hart[c].noff = 0
  BY <1>2, <1>5 DEF Base, TypeInv, LockInv
<1>7. proc' = [proc EXCEPT ![p].state = "RUNNING"] /\ lock' = [lock EXCEPT ![p] = c] /\ thr' = [thr EXCEPT ![p].intena = FALSE]
  BY DEF ScanSwitch
<1>8. /\ proc' \in [Proc -> ProcType] /\ (\A q \in Proc \ {p} : proc'[q] = proc[q])
      /\ proc'[p].state = "RUNNING" /\ proc'[p].chan = proc[p].chan /\ proc'[p].killed = proc[p].killed
  BY <1>1, <1>7 DEF Base, TypeInv, ProcType, States
<1>9. /\ thr' \in [Thread -> ThreadType] /\ (\A u \in Thread \ {p} : thr'[u] = thr[u])
      /\ thr'[p].pc = thr[p].pc /\ thr'[p].trap = thr[p].trap /\ thr'[p].ix = thr[p].ix
  BY <1>1, <1>7, ZenonT(40) DEF Base, TypeInv, ThreadType
<1>10. lock' \in [Lock -> Cpu \cup {NULL}] /\ (\A l \in Lock, d \in Cpu \ {c} : lock'[l] = d <=> lock[l] = d)
  BY <1>1, <1>3, <1>7, Sets DEF Base, TypeInv
<1>11. \A l \in Lock : lock'[l] = c <=> l = p
  BY <1>1, <1>2, <1>5, <1>7 DEF Base, TypeInv, LockInv
<1>12. PICK b \in BOOLEAN : /\ hart' = [hart EXCEPT ![c] = [push_off(@) EXCEPT !.intena = b, !.proc = p]]
                            /\ thr[p].pc # "forkret" => (b <=> thr[p].intena)
  <2>0. push_off(hart[c]) \in HartType
    BY <1>6, PopType
  <2>1. CASE thr[p].pc = "forkret"
    <3>1. [RestoreIntena(p, push_off(hart[c])) EXCEPT !.proc = p] = [push_off(hart[c]) EXCEPT !.intena = push_off(hart[c]).intena, !.proc = p]
      BY <2>0, <2>1, Zenon DEF RestoreIntena, HartType
    <3>2. push_off(hart[c]).intena \in BOOLEAN
      BY <2>0 DEF HartType
    <3> QED BY <1>6, <2>1, <3>1, <3>2, Zenon DEF ScanSwitch, Base, TypeInv
  <2>2. CASE thr[p].pc # "forkret"
    <3>1. RestoreIntena(p, push_off(hart[c])) = [push_off(hart[c]) EXCEPT !.intena = thr[p].intena]
      BY <2>2 DEF RestoreIntena
    <3>2. thr[p].intena \in BOOLEAN
      BY <1>1 DEF Base, TypeInv, ThreadType
    <3> QED BY <1>6, <2>2, <3>1, <3>2, Zenon DEF ScanSwitch, Base, TypeInv
  <2> QED BY <2>1, <2>2, Zenon
<1>13. /\ hart' \in [Cpu -> HartType] /\ (\A d \in Cpu \ {c} : hart'[d] = hart[d])
       /\ hart'[c].noff = 1 /\ ~hart'[c].sie /\ hart'[c].proc = p /\ (hart'[c].intena <=> b)
  <2>1. push_off(hart[c]) \in HartType /\ push_off(hart[c]).noff = 1 /\ ~push_off(hart[c]).sie
    <3>1. push_off(hart[c]).noff = 1 /\ ~push_off(hart[c]).sie
      BY <1>6 DEF push_off, HartType
    <3> QED BY <1>6, <3>1, PopType
  <2>2. [push_off(hart[c]) EXCEPT !.intena = b, !.proc = p] \in HartType
    BY <1>1, <1>12, <2>1, Zenon DEF HartType
  <2> QED BY Zenon, <1>6, <1>12, <2>1, <2>2 DEF Base, TypeInv, HartType
<1>14. myproc(c)' = p /\ Current(c)' = p /\ On(p)'
  BY ZenonT(40), <1>1, <1>13 DEF myproc, Current, On
<1>15. Holds(p)' = {p} /\ Holds(Current(c))' = {p}
  BY Zenon, <1>4, <1>9, <1>14 DEF Holds, HoldsAt, OffLabels, WaitLabels, TickLabels
<1>16. panicked' = FALSE
  BY <1>4, Zenon DEF ScanSwitch, OffLabels
<1>17. TypeInv'
  BY <1>8, <1>9, <1>10, <1>13, <1>16, ZenonT(40) DEF TypeInv
<1>18. Switched(c, p) /\ \A d \in Cpu \ {c} : myproc(d) # p
  BY ZenonT(40), <1>4, <1>8, <1>9, <1>13 DEF Switched, On
<1>19. SchedulerOK(c)'
  BY Zenon, <1>1, <1>2, <1>9 DEF Base, HartInv, SchedulerOK, Scheduler
<1>20. StateOK(p) /\ TrapOK(p) /\ ChanOK(p) /\ SavedOK(p)
  BY <1>1 DEF Base, PlaceInv, IntrInv
<1>21. StateOK(p)' /\ TrapOK(p)' /\ ChanOK(p)' /\ SavedOK(p)'
  BY <1>4, <1>8, <1>9, <1>14, <1>20, ZenonT(40) DEF StateOK, TrapOK, ChanOK, SavedOK, OffLabels
<1>22. IntrOK(c)'
  <2>1. Ena(c)' <=> b
    <3>1. hart'[c].noff # 0 /\ (hart'[c].intena <=> b)
      BY SMTT(40), <1>13
    <3> QED BY Zenon, <3>1 DEF Ena
  <2>2. thr[p].pc = "forkret" => thr[p].trap = "none"
    BY <1>20 DEF TrapOK, InTrap
  <2>3. thr[p].pc # "forkret" => (b <=> thr[p].trap = "none")
    BY Zenon, <1>4, <1>12, <1>20 DEF SavedOK, OffLabels
  <2> QED BY Zenon, <1>8, <1>9, <1>14, <2>1, <2>2, <2>3 DEF IntrOK
<1>23. Pos(p)' = Pos(p) /\ thr'[p].pc \notin WakeLabels /\ thr'[s].pc \notin WakeLabels
  BY Zenon, <1>1, <1>2, <1>4, <1>9 DEF Pos, OffLabels, WakeLabels
<1>24. SwitchedHart(c)
  BY Zenon, <1>10, <1>11, <1>13, <1>15, <1>19, <1>22, <1>23 DEF SwitchedHart
<1>25. SwitchedProc(p)
  BY Zenon, <1>2, <1>8, <1>9, <1>21, <1>23 DEF SwitchedProc
<1> QED BY Zenon, <1>1, <1>2, <1>14, <1>16, <1>17, <1>18, <1>24, <1>25, SwitchBase

(* sched() switches back to the scheduler, which releases the lock of the    *)
(* process that left.                                                        *)
LEMMA SchedStep ==
  ASSUME Base, NEW c \in Cpu, NEW p \in Thread, p = Current(c), sched(c, p)
  PROVE  Base'
<1> DEFINE s == Scheduler(c)
<1>0. p \in Proc /\ thr[p].pc = "sched" /\ SchedChecks(c, p)
  BY SchedChecksHold DEF sched
<1>1. /\ s \in Thread /\ s \notin Proc /\ s # p /\ p \in Lock /\ p # NULL /\ c # NULL /\ p # tickslock /\ tickslock # NULL
      /\ NextIx(c) \in Proc /\ NextIx(c) \in Int
  BY <1>0, NextIxIn, Sets, ZenonT(40)
<1>2. myproc(c) = p /\ SchedulerOK(c) /\ StateOK(p) /\ TrapOK(p) /\ ChanOK(p) /\ IntrOK(c) /\ On(p)
  BY Zenon, <1>0, <1>1, Running, CurrentThread DEF Base, HartInv, PlaceInv
<1>3. hart[c] \in HartType /\ hart[c].noff = 1 /\ lock[p] = c
  BY ZenonT(40), <1>0 DEF Base, TypeInv, SchedChecks, holding
<1>4. /\ Resume(p) \in {"dead", "sleep_woken", "wait_woken", "yielded"} /\ Resume(p) \in Labels
      /\ Resume(p) = "dead" <=> proc[p].state = "ZOMBIE"
      /\ Resume(p) = "yielded" => thr[p].trap # "none" /\ proc[p].state = "RUNNABLE" /\ proc[p].chan = NULL
      /\ Resume(p) = "wait_woken" => thr[p].trap = "none" /\ proc[p].state = "SLEEPING" /\ proc[p].chan = p
      /\ Resume(p) = "sleep_woken" => thr[p].trap = "none" /\ proc[p].state = "SLEEPING" /\ proc[p].chan = tickslock
  <2>1. \/ proc[p].state = "ZOMBIE" /\ thr[p].trap = "none" /\ proc[p].chan = NULL
        \/ proc[p].state = "RUNNABLE" /\ thr[p].trap # "none" /\ proc[p].chan = NULL
        \/ proc[p].state = "SLEEPING" /\ thr[p].trap = "none" /\ proc[p].chan = p
        \/ proc[p].state = "SLEEPING" /\ thr[p].trap = "none" /\ proc[p].chan = tickslock
    BY Zenon, <1>0, <1>2 DEF TrapOK
  <2>2. CASE proc[p].state = "ZOMBIE" /\ thr[p].trap = "none" /\ proc[p].chan = NULL
    BY <1>1, <2>2 DEF Resume, Labels
  <2>3. CASE proc[p].state = "RUNNABLE" /\ thr[p].trap # "none" /\ proc[p].chan = NULL
    BY <1>1, <2>3 DEF Resume, Labels
  <2>4. CASE proc[p].state = "SLEEPING" /\ thr[p].trap = "none" /\ proc[p].chan = p
    BY <1>1, <2>4 DEF Resume, Labels
  <2>5. CASE proc[p].state = "SLEEPING" /\ thr[p].trap = "none" /\ proc[p].chan = tickslock
    BY <1>1, <2>5 DEF Resume, Labels
  <2> QED BY Zenon, <2>1, <2>2, <2>3, <2>4, <2>5
<1>5. thr' = [[thr EXCEPT ![p] = [@ EXCEPT !.pc = Resume(p), !.intena = hart[c].intena]] EXCEPT ![s] = [@ EXCEPT !.ix = NextIx(c)]]
  BY <1>0, <1>1, Zenon DEF sched, Base, TypeInv
<1>6. /\ thr' \in [Thread -> ThreadType] /\ (\A u \in Thread \ {p, s} : thr'[u] = thr[u])
      /\ thr'[p] = [thr[p] EXCEPT !.pc = Resume(p), !.intena = hart[c].intena]
      /\ thr'[s] = [thr[s] EXCEPT !.ix = NextIx(c)]
  <2>1. [thr[p] EXCEPT !.pc = Resume(p), !.intena = hart[c].intena] \in ThreadType
    <3>1. ASSUME NEW r \in ThreadType, NEW l \in Labels, NEW b \in BOOLEAN
          PROVE  [r EXCEPT !.pc = l, !.intena = b] \in ThreadType
      BY <3>1, Zenon DEF ThreadType
    <3>2. thr[p] \in ThreadType /\ hart[c].intena \in BOOLEAN
      BY <1>3 DEF Base, TypeInv, HartType
    <3> QED BY <1>4, <3>1, <3>2, Zenon
  <2>2. [thr[s] EXCEPT !.ix = NextIx(c)] \in ThreadType
    BY <1>1 DEF Base, TypeInv, ThreadType
  <2> HIDE DEF s
  <2> QED BY <1>0, <1>1, <1>5, <2>1, <2>2 DEF Base, TypeInv
<1>7. /\ thr'[p].pc = Resume(p) /\ (thr'[p].intena <=> hart[c].intena) /\ thr'[p].trap = thr[p].trap
      /\ thr'[p].ix = thr[p].ix
      /\ thr'[s].pc = thr[s].pc /\ thr'[s].trap = thr[s].trap /\ thr'[s].ix = NextIx(c)
  BY <1>0, <1>1, <1>6 DEF Base, TypeInv, ThreadType
<1>8. /\ hart' \in [Cpu -> HartType] /\ (\A d \in Cpu \ {c} : hart'[d] = hart[d])
      /\ hart'[c].noff = 0 /\ hart'[c].proc = NULL
  <2>1. pop_off(hart[c]) \in HartType /\ pop_off(hart[c]).noff = 0
    <3>1. pop_off(hart[c]).noff = 0
      BY <1>3 DEF pop_off, HartType
    <3> QED BY <1>3, <3>1, PopType
  <2>2. NextSlot(c, pop_off(hart[c])) \in HartType /\ NextSlot(c, pop_off(hart[c])).noff = 0
    BY <2>1, NextSlotType
  <2>3. [NextSlot(c, pop_off(hart[c])) EXCEPT !.proc = NULL] \in HartType
    BY <2>2 DEF HartType
  <2> QED BY <2>2, <2>3 DEF sched, Base, TypeInv, HartType
<1>9. lock' \in [Lock -> Cpu \cup {NULL}] /\ (\A l \in Lock, d \in Cpu \ {c} : lock'[l] = d <=> lock[l] = d)
  BY Zenon, <1>1, <1>3, Sets DEF sched, Base, TypeInv
<1>10. Holds(p) = {p}
  BY <1>0 DEF Holds, HoldsAt, WaitLabels, TickLabels, OffLabels
<1>11. \A l \in Lock : lock'[l] # c
  BY <1>1, <1>10 DEF sched, Base, TypeInv, LockInv
<1>12. myproc(c)' = NULL /\ Current(c)' = s
  BY Zenon, <1>8 DEF myproc, Current, Scheduler
<1>13. thr[s].pc = "scan" /\ thr[s].trap = "none"
  BY Zenon, <1>1, <1>2 DEF SchedulerOK
<1>14. Holds(Current(c))' = {}
  BY <1>7, <1>12, <1>13, OpenHolds DEF Holds
<1>15. proc' = proc /\ panicked' = FALSE
  BY Zenon DEF sched, Base, TypeInv
<1>16. TypeInv'
  BY <1>6, <1>8, <1>9, <1>15, Zenon DEF Base, TypeInv
<1>17. Switched(c, p) /\ \A d \in Cpu \ {c} : myproc(d) # p
  BY ZenonT(40), <1>1, <1>2, <1>6, <1>8, <1>15 DEF Switched, Base, HartInv
<1>18. ~On(p)'
  BY <1>1, <1>8, <1>12, <1>17 DEF On, myproc
<1>19. SchedulerOK(c)'
  BY Zenon, <1>1, <1>7, <1>12, <1>13 DEF SchedulerOK, SchedulerLabels, Scheduler
<1>20. StateOK(p)' /\ TrapOK(p)' /\ ChanOK(p)'
  BY Zenon, <1>0, <1>1, <1>2, <1>4, <1>7, <1>15, <1>18 DEF StateOK, TrapOK, ChanOK, OffLabels, InTrap
<1>21. IntrOK(c)'
  BY Zenon, <1>1, <1>7, <1>12, <1>13 DEF IntrOK
<1>22. SavedOK(p)'
  <2>1. Ena(c) <=> hart[c].intena
    BY <1>3 DEF Ena
  <2>2. proc[p].state # "ZOMBIE" => (Ena(c) <=> thr[p].trap = "none")
    BY Zenon, <1>0, <1>2 DEF IntrOK, ExitPc
  <2> QED BY Zenon, <1>4, <1>7, <2>1, <2>2 DEF SavedOK
<1>23. /\ thr'[p].pc \notin WakeLabels /\ thr'[s].pc \notin WakeLabels /\ proc[p].state # "USED"
       /\ p = initproc => proc[p].state \notin {"UNUSED", "USED", "ZOMBIE"}
  BY ZenonT(40), <1>0, <1>2, <1>4, <1>7, <1>13 DEF WakeLabels, StateOK, Base, InitOK
<1>24. Pos(p)' = Pos(p) \/ Pos(p)' \in {"dead", "wait_woken", "sleep_woken"}
  BY Zenon, <1>0, <1>4, <1>7 DEF Pos
<1>25. SwitchedHart(c)
  BY Zenon, <1>8, <1>9, <1>11, <1>14, <1>19, <1>21, <1>23 DEF SwitchedHart
<1>26. SwitchedProc(p)
  BY Zenon, <1>7, <1>15, <1>20, <1>22, <1>23, <1>24 DEF SwitchedProc
<1> QED BY Zenon, <1>0, <1>2, <1>12, <1>15, <1>16, <1>17, <1>25, <1>26, SwitchBase

(* The fields of a thread that moved.                                        *)
LEMMA ThreadAt ==
  ASSUME NEW r \in ThreadType, NEW k \in Labels, NEW i \in Int, NEW q, q = [r EXCEPT !.pc = k, !.ix = i]
  PROVE  q \in ThreadType /\ q.pc = k /\ q.ix = i /\ q.trap = r.trap
BY Zenon DEF ThreadType

(* fork() lets the child run: its thread begins in forkret(). *)
LEMMA ForkRunStep ==
  ASSUME Base, NEW c \in Cpu, NEW t \in Thread, t = Current(c), thr[t].pc = "fork_run", Balanced,
         NEW np, np = thr[t].ix, proc' = [proc EXCEPT ![np].state = "RUNNABLE"],
         thr' = [thr EXCEPT ![np] = [NoThread EXCEPT !.pc = "forkret"],
                            ![t].pc = IF t = initproc THEN "user_wait" ELSE "ret", ![t].ix = 0]
  PROVE  Base'
<1> DEFINE l == IF t = initproc THEN "user_wait" ELSE "ret"
<1>1. /\ t \in Proc /\ thr[t].trap = "none" /\ proc[t].state = "RUNNING" /\ proc[t].chan = NULL
      /\ thr[t] \in ThreadType /\ Forking(t) /\ On(t) /\ IntrOK(c)
  BY Plain, Running DEF RunLabels, OpenLabels, Forking
<1>2. np \in Proc /\ proc[np].state = "USED" /\ np # t /\ np \in Thread
  BY Zenon, <1>1, Sets DEF Base, ForkInv
<1>3. ~On(np) /\ thr[np].pc = "dead" /\ proc[np].chan = NULL
  BY <1>2 DEF Base, PlaceInv, StateOK, ChanOK
<1>4. l \in {"user_wait", "ret"} /\ l \in Labels
  BY DEF Labels
<1> HIDE DEF l
<1>5. /\ thr'[np] = [NoThread EXCEPT !.pc = "forkret"] /\ thr'[t] = [thr[t] EXCEPT !.pc = l, !.ix = 0]
      /\ \A u \in Thread \ {np, t} : thr'[u] = thr[u]
  BY <1>2, Zenon DEF l, Base, TypeInv
<1>6. thr' \in [Thread -> ThreadType]
  <2>1. [NoThread EXCEPT !.pc = "forkret"] \in ThreadType
    BY ChildThread
  <2>2. [thr[t] EXCEPT !.pc = l, !.ix = 0] \in ThreadType
    BY <1>1, <1>4, Sets, ThreadAt, Zenon
  <2>3. thr' = [[thr EXCEPT ![np] = [NoThread EXCEPT !.pc = "forkret"]] EXCEPT ![t] = [thr[t] EXCEPT !.pc = l, !.ix = 0]]
    BY <1>2, Zenon DEF l, Base, TypeInv
  <2> QED BY <1>2, <2>1, <2>2, <2>3, ZenonT(40) DEF Base, TypeInv
<1>7. /\ thr'[t].pc = l /\ thr'[t].ix = 0 /\ thr'[t].trap = "none"
      /\ thr'[np].pc = "forkret" /\ thr'[np].trap = "none" /\ thr'[np].ix = 0
  <2>1. thr'[t].pc = l /\ thr'[t].ix = 0 /\ thr'[t].trap = thr[t].trap
    <3> DEFINE r == thr[t]
               q == thr'[t]
    <3>1. r \in ThreadType /\ q = [r EXCEPT !.pc = l, !.ix = 0]
      BY <1>1, <1>5
    <3> HIDE DEF r, q
    <3>2. q.pc = l /\ q.ix = 0 /\ q.trap = r.trap
      BY <3>1 DEF ThreadType
    <3> QED BY <3>2 DEF q, r
  <2>2. thr'[np].pc = "forkret" /\ thr'[np].trap = "none" /\ thr'[np].ix = 0
    BY <1>5, ChildThread, Zenon
  <2> QED BY <1>1, <2>1, <2>2
<1>8. /\ proc' \in [Proc -> ProcType] /\ (\A q \in Proc \ {np} : proc'[q] = proc[q])
      /\ proc'[np].state = "RUNNABLE" /\ proc'[np].chan = NULL /\ proc'[np].killed = proc[np].killed
  BY <1>2, <1>3 DEF Base, TypeInv, ProcType, States
<1>9. hart' = hart /\ lock' = lock /\ panicked' = panicked
  BY DEF Balanced
<1>10. TypeInv' /\ ~panicked'
  <2>1. TypeInv'
    BY <1>6, <1>8, <1>9 DEF Base, TypeInv
  <2>2. ~panicked'
    BY <1>9 DEF Base
  <2> QED BY <2>1, <2>2
<1>11. /\ \A d \in Cpu : Current(d)' = Current(d) /\ myproc(d)' = myproc(d) /\ Current(d) # np
       /\ \A d \in Cpu \ {c} : Current(d) # t
       /\ \A d \in Cpu : Current(d) \in Thread
       /\ \A q : On(q)' <=> On(q)
  BY <1>1, <1>2, <1>3, <1>9, CurrentThread, Sets, Zenon DEF Base, On, myproc, Current
<1>12. \A d \in Cpu : Holds(Current(d))' = Holds(Current(d))
  <2>1. \A d \in Cpu \ {c} : thr'[Current(d)] = thr[Current(d)]
    BY <1>5, <1>11, Zenon
  <2>2. HoldsAt(l, t) = {} /\ HoldsAt("fork_run", t) = {}
    BY <1>4, OpenHolds DEF OpenLabels
  <2> QED BY <1>7, <1>11, <2>1, <2>2, Zenon DEF Holds
<1>13. LockInv'
  BY <1>9, <1>12 DEF Base, LockInv
<1>14. HartInv'
  <2>1. \A d \in Cpu : thr'[Scheduler(d)] = thr[Scheduler(d)]
    BY <1>1, <1>2, <1>5, Sets, ZenonT(40)
  <2>2. \A d \in Cpu : SchedulerOK(d) /\ myproc(d)' = myproc(d)
    BY <1>11 DEF Base, HartInv
  <2>3. \A d \in Cpu : SchedulerOK(d)'
    BY <2>1, <2>2, Zenon DEF SchedulerOK, Scheduler
  <2> QED BY <1>11, <2>3 DEF Base, HartInv
<1>15. \A q \in Proc \ {np, t} : thr'[q] = thr[q] /\ proc'[q] = proc[q]
  BY <1>5, <1>8, Sets, Zenon
<1>16. PlaceInv'
  <2>1. \A q \in Proc \ {np, t} : StateOK(q)' /\ TrapOK(q)' /\ ChanOK(q)'
    <3> SUFFICES ASSUME NEW q \in Proc \ {np, t} PROVE StateOK(q)' /\ TrapOK(q)' /\ ChanOK(q)'
      OBVIOUS
    <3>1. /\ thr'[q] = thr[q] /\ proc'[q] = proc[q] /\ (On(q)' <=> On(q))
          /\ StateOK(q) /\ TrapOK(q) /\ ChanOK(q)
      BY <1>11, <1>15, Zenon DEF Base, PlaceInv
    <3> QED BY Zenon, <3>1 DEF StateOK, TrapOK, ChanOK
  <2>2. StateOK(np)' /\ TrapOK(np)' /\ ChanOK(np)'
    BY <1>3, <1>7, <1>8, <1>11, ZenonT(40) DEF StateOK, TrapOK, ChanOK, OffLabels
  <2>3. StateOK(t)' /\ TrapOK(t)' /\ ChanOK(t)'
    BY ZenonT(40), <1>1, <1>2, <1>4, <1>7, <1>8, <1>11 DEF StateOK, TrapOK, ChanOK, RunLabels, OpenLabels
  <2> QED BY Zenon, <2>1, <2>2, <2>3 DEF PlaceInv
<1>17. IntrInv'
  <2>1. IntrOK(c)'
    BY <1>1, <1>4, <1>7, <1>9, <1>11, Zenon DEF IntrOK, Ena, ExitPc
  <2>2. ASSUME NEW d \in Cpu \ {c} PROVE IntrOK(d)'
    <3> DEFINE u == Current(d)
    <3>1. Current(d)' = u /\ thr'[u] = thr[u] /\ IntrOK(d) /\ (u \in Proc => proc'[u] = proc[u])
      BY <1>5, <1>8, <1>11, Zenon DEF Base, IntrInv
    <3>2. Current(d) = u
      OBVIOUS
    <3> HIDE DEF u
    <3> QED BY <1>9, <3>1, <3>2, Zenon DEF IntrOK, Ena
  <2>3. \A q \in Proc : SavedOK(q)'
    <3>1. \A q \in Proc \ {np, t} : SavedOK(q)'
      <4> SUFFICES ASSUME NEW q \in Proc \ {np, t} PROVE SavedOK(q)'
        OBVIOUS
      <4>1. thr'[q] = thr[q] /\ (On(q)' <=> On(q)) /\ SavedOK(q)
        BY <1>11, <1>15, Zenon DEF Base, IntrInv
      <4> QED BY <4>1 DEF SavedOK
    <3>2. SavedOK(np)' /\ SavedOK(t)'
      BY <1>1, <1>7, <1>11 DEF SavedOK
    <3> QED BY <3>1, <3>2
  <2> QED BY <2>1, <2>2, <2>3 DEF IntrInv
<1>18. /\ \A q \in Proc \ {np, t} : Pos(q)' = Pos(q) /\ (Forking(q)' <=> Forking(q)) /\ thr'[q].ix = thr[q].ix
       /\ Pos(t)' = l /\ Pos(np)' = "forkret" /\ ~Forking(t)' /\ ~Forking(np)'
  <2>1. \A q \in Proc \ {np, t} : Pos(q)' = Pos(q) /\ thr'[q].ix = thr[q].ix
    <3> SUFFICES ASSUME NEW q \in Proc \ {np, t} PROVE Pos(q)' = Pos(q) /\ thr'[q].ix = thr[q].ix
      BY Zenon
    <3>1. thr'[q] = thr[q]
      BY <1>15, Zenon
    <3> QED BY <3>1 DEF Pos
  <2>2. Pos(t)' = l /\ Pos(np)' = "forkret"
    BY <1>7 DEF Pos
  <2> QED BY <1>4, <2>1, <2>2, Zenon DEF Forking
<1>19. ForkInv'
  <2>1. \A u \in Thread : thr'[u].pc \in WakeLabels => thr'[u].wx \in Proc
    <3>1. l \notin WakeLabels /\ "forkret" \notin WakeLabels
      BY <1>4 DEF WakeLabels
    <3> QED BY <1>5, <1>7, <3>1, ZenonT(40) DEF Base, ForkInv
  <2>2. \A q \in Proc \ {np, t} : Forking(q) => thr[q].ix # np
    BY <1>1 DEF Base, ForkInv
  <2>3. \A q \in Proc : Forking(q)' => /\ q \in Proc \ {np, t} /\ Forking(q) /\ thr'[q].ix = thr[q].ix
    BY <1>18, Zenon
  <2>4. \A q \in Proc : Forking(q)' => thr'[q].ix \in Proc /\ proc'[thr'[q].ix].state = "USED"
    <3> SUFFICES ASSUME NEW q \in Proc, Forking(q)' PROVE thr'[q].ix \in Proc /\ proc'[thr'[q].ix].state = "USED"
      BY Zenon
    <3>1. /\ thr'[q].ix = thr[q].ix /\ thr[q].ix # np
          /\ thr[q].ix \in Proc /\ proc[thr[q].ix].state = "USED"
      BY <2>2, <2>3, Zenon DEF Base, ForkInv
    <3> QED BY <1>8, <3>1
  <2>5. \A q \in Proc : Pos(q)' = "alloc" => thr'[q].ix \in Proc
    BY <1>4, <1>18, Zenon DEF Base, ForkInv
  <2> QED BY <2>1, <2>3, <2>4, <2>5, Zenon DEF Base, ForkInv
<1>20. InitOK'
  <2>1. np # initproc
    BY <1>2 DEF Base, InitOK
  <2> QED BY ZenonT(40), <1>1, <1>4, <1>8, <1>18, <2>1, Sets DEF Base, InitOK, ExitPc
<1> QED BY Zenon, <1>10, <1>13, <1>14, <1>16, <1>17, <1>19, <1>20 DEF Base
=============================================================================
