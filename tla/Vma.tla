-------------------------------- MODULE Vma --------------------------------
(***************************************************************************)
(* Memory-mapped files: the global table vmas[], the list of vmas of each  *)
(* process, and the part of its page table above START_ADDRESS.  An        *)
(* operation is one atomic step where the code holds p->lock or vmaslock   *)
(* throughout and touches nothing shared in between; munmap() is one step  *)
(* per page and exit() one step per descriptor and per munmap() call,      *)
(* because other processes run in between.  The counts f->ref, which       *)
(* mmap(), munmap() and fork() change without a lock, are in Files, and    *)
(* physical memory is taken to suffice (see Mem for the allocator).        *)
(* Addresses are counted in units of which PGSIZE make a page.  panic() and*)
(* a load through a null pointer both halt the machine: they set panicked, *)
(* after which nothing happens.                                            *)
(***************************************************************************)
EXTENDS Integers, Sequences, FiniteSets

CONSTANTS
  NPROC,           \* slots of proc[]; slot 1 is initproc
  NFILE,           \* slots of ftable.file[]
  Fd,              \* descriptors 0..NOFILE-1
  Inode,           \* inodes of regular files
  VMAS_STORED,     \* slots of vmas[]
  MAX_VMAS,        \* vmas a process may have
  PGSIZE,          \* units in a page
  PTPAGES,         \* pages that one leaf page-table page maps (512)
  START_ADDRESS, TOP_ADDRESS,
  WORD,            \* 2^64: user-supplied sums wrap here
  Lengths,         \* length arguments of mmap() and munmap()
  Addrs,           \* addr arguments of munmap()
  TouchAddrs,      \* addresses user code loads from and stores to
  Modes,           \* <<readable, writable>> of the open() calls made
  Prots, Flags,    \* prot and flag arguments sys_mmap() lets through
  MAXFILE,         \* largest size of a file, in units
  FileSizes,       \* possible initial sizes of a file, in units
  NULL

Proc == 1..NPROC
File == 0..(NFILE - 1)
Slot == 0..(VMAS_STORED - 1)

AllProts == {"PROT_READ", "PROT_WRITE", "PROT_READ_WRITE"}
AllFlags == {"MAP_PRIVATE", "MAP_SHARED"}

ASSUME SizesAssumption ==
  /\ NPROC \in Nat \ {0} /\ NFILE \in Nat \ {0}
  /\ VMAS_STORED \in Nat \ {0} /\ MAX_VMAS \in Nat \ {0}
  /\ PGSIZE \in Nat \ {0} /\ PTPAGES \in Nat \ {0}
  /\ IsFiniteSet(Fd)
  /\ NULL \notin File /\ NULL \notin Inode

ASSUME AddressAssumption ==
  /\ START_ADDRESS \in Nat /\ TOP_ADDRESS \in Nat /\ WORD \in Nat
  /\ START_ADDRESS < TOP_ADDRESS /\ TOP_ADDRESS + PGSIZE <= WORD
  /\ START_ADDRESS % PGSIZE = 0 /\ WORD % PGSIZE = 0

ASSUME ArgumentAssumption ==
  /\ Lengths \subseteq 0..(WORD - 1) /\ Addrs \subseteq 0..(WORD - 1)
  /\ TouchAddrs \subseteq START_ADDRESS..TOP_ADDRESS
  /\ Prots \subseteq AllProts /\ Flags \subseteq AllFlags
  /\ Modes \subseteq BOOLEAN \X BOOLEAN /\ MAXFILE \in Nat /\ FileSizes \subseteq 0..MAXFILE

(* Lengths that leave room for rounding up behind any address of the area:  *)
(* what sys_mmap() and sys_munmap() do not check.                           *)
NoWrap == \A n \in Lengths : n + TOP_ADDRESS + PGSIZE <= WORD

VARIABLES
  vmas,      \* vmas[]: the global table
  list,      \* list[p]: the slots on the chain p->vmas, in list order
  nvma,      \* p->nvma
  pagetable, \* pagetable[p]: the leaf PTEs above START_ADDRESS
  tables,    \* tables[p]: which leaf page-table pages walk() finds there
  ofile,     \* p->ofile[]
  file,      \* ftable.file[]
  isize,     \* ip->size
  plock,     \* is p->lock held by p itself?
  state,     \* p->state; ALIVE stands for SLEEPING, RUNNABLE and RUNNING
  pc, args,  \* where p is inside exit() and munmap(), and munmap's locals,
             \* with the offsets of the file it has written back
  panicked   \* why the machine halted, NULL while it runs

vmaVars  == <<vmas, list, nvma>>
pageVars == <<pagetable, tables>>
fileVars == <<ofile, file>>
procVars == <<plock, state, pc, args>>
vars == <<vmaVars, pageVars, fileVars, isize, procVars, panicked>>
-----------------------------------------------------------------------------
(* uint64 arithmetic and the page macros of riscv.h.                        *)
Add(a, b) == (a + b) % WORD
Sub(a, b) == (a - b) % WORD
PGROUNDDOWN(a) == a - (a % PGSIZE)
PGROUNDUP(n) == PGROUNDDOWN(Add(n, PGSIZE - 1))

Page == {a \in START_ADDRESS..TOP_ADDRESS : a % PGSIZE = 0}
Table(va) == va \div (PTPAGES * PGSIZE)

NoVma == [use |-> FALSE, ofile |-> NULL, addrinit |-> 0, addri |-> 0,
          addre |-> 0, prot |-> NULL, flag |-> NULL]

Vma == [use : {TRUE}, ofile : File,
        addrinit : 0..(WORD - 1), addri : 0..(WORD - 1), addre : 0..(WORD - 1),
        prot : AllProts, flag : AllFlags] \cup {NoVma}

(* A valid leaf PTE: its permission and dirty bits, and what the physical   *)
(* page was filled with: unit off onwards of the file of inode ip.  A page  *)
(* that is not the one kalloc() returned for this mapping has ip = NULL.    *)
Pte == [prot : AllProts, dirty : BOOLEAN, ip : Inode \cup {NULL}, off : Int]

(* What the mappings of a struct file depend on.                            *)
FileSlot == [ip : Inode \cup {NULL}, readable : BOOLEAN, writable : BOOLEAN]
NoFile == [ip |-> NULL, readable |-> FALSE, writable |-> FALSE]

Args == [slot : Slot \cup {NULL}, addr : 0..(WORD - 1), length : 0..(WORD - 1),
         i : Nat, call : {"sys_munmap", "exit", NULL}, written : SUBSET Int]
NoArgs == [slot |-> NULL, addr |-> 0, length |-> 0, i |-> 0, call |-> NULL, written |-> {}]
-----------------------------------------------------------------------------
Init ==
  /\ vmas = [c \in Slot |-> NoVma]
  /\ list = [p \in Proc |-> <<>>]
  /\ nvma = [p \in Proc |-> 0]
  /\ pagetable = [p \in Proc |-> [a \in Page |-> NULL]]
  /\ tables = [p \in Proc |-> {}]
  /\ ofile = [p \in Proc |-> [fd \in Fd |-> NULL]]
  /\ file = [f \in File |-> NoFile]
  /\ isize \in [Inode -> FileSizes]
  /\ plock = [p \in Proc |-> FALSE]
  /\ state = [p \in Proc |-> IF p = 1 THEN "ALIVE" ELSE "UNUSED"]
  /\ pc = [p \in Proc |-> "user"]
  /\ args = [p \in Proc |-> NoArgs]
  /\ panicked = NULL

(* p is about to make a system call or to execute a user instruction.       *)
InUser(p) == panicked = NULL /\ state[p] = "ALIVE" /\ pc[p] = "user"

Panic(why) ==
  /\ panicked' = why
  /\ UNCHANGED <<vmaVars, pageVars, fileVars, isize, procVars>>

(* The slot findVma() returns: the first one that is not in use.            *)
FindVma(c) == ~vmas[c].use /\ \A d \in Slot : d < c => vmas[d].use

-----------------------------------------------------------------------------
(* open() of an existing file and close().  Which slot filealloc() returns  *)
(* depends on f->ref, in which updates can be lost: any.                    *)

SysOpen(p, fd, f, ip, mode) ==
  /\ InUser(p) /\ ofile[p][fd] = NULL
  /\ file' = [file EXCEPT ![f] = [ip |-> ip, readable |-> mode[1], writable |-> mode[2]]]
  /\ ofile' = [ofile EXCEPT ![p][fd] = f]
  /\ UNCHANGED <<vmaVars, pageVars, isize, procVars, panicked>>

SysClose(p, fd) ==
  /\ InUser(p) /\ ofile[p][fd] # NULL
  /\ ofile' = [ofile EXCEPT ![p][fd] = NULL]
  /\ UNCHANGED <<vmaVars, pageVars, file, isize, procVars, panicked>>
-----------------------------------------------------------------------------
(* mmap().  The search runs along the list; a new vma goes into the first   *)
(* gap between two neighbours that it fits, else behind the last vma.       *)

Fits_NoSize(p, k, psize) ==
  /\ k \in 1..(Len(list[p]) - 1)
  /\ vmas[list[p][k]].addre <= vmas[list[p][k + 1]].addri

Fits(p, k, psize) ==
  /\ k \in 1..(Len(list[p]) - 1)
  /\ Add(vmas[list[p][k]].addre, psize) <= vmas[list[p][k + 1]].addri

(* The new vma follows the k-th one; k = 0 only when the list is empty.     *)
InsertionPoint(p, k, psize) ==
  \/ Fits(p, k, psize) /\ \A j \in 1..(k - 1) : ~Fits(p, j, psize)
  \/ k = Len(list[p]) /\ \A j \in 1..k : ~Fits(p, j, psize)

StartAfter(p, k) == IF k = 0 THEN START_ADDRESS ELSE vmas[list[p][k]].addre

NoRoom(p, k, psize) == k = Len(list[p]) /\ Add(StartAfter(p, k), psize) > TOP_ADDRESS

Permitted(p, flag, fd) ==
  flag = "MAP_SHARED" => /\ ofile[p][fd] # NULL
                         /\ file[ofile[p][fd]].readable /\ file[ofile[p][fd]].writable

BelowMax(p) == nvma[p] # MAX_VMAS

(* The process's list with slot c linked in as entry i, and without its     *)
(* entry i.                                                                 *)
LinkAt(l, i, c) == SubSeq(l, 1, i - 1) \o <<c>> \o SubSeq(l, i, Len(l))
Unlink(l, i) == SubSeq(l, 1, i - 1) \o SubSeq(l, i + 1, Len(l))

CountVma_Missing(p) == UNCHANGED nvma
CountVma(p) == nvma' = [nvma EXCEPT ![p] = @ + 1]

(* A successful mmap().  The list head is only set when nvma was 0.         *)
MmapOk(p, length, prot, flag, fd) ==
  LET psize == PGROUNDUP(length) IN
  /\ InUser(p) /\ ~plock[p] /\ Permitted(p, flag, fd) /\ BelowMax(p)
  /\ ofile[p][fd] # NULL
  /\ \E k \in 0..Len(list[p]), c \in Slot :
       /\ InsertionPoint(p, k, psize) /\ ~NoRoom(p, k, psize) /\ FindVma(c)
       /\ vmas' = [vmas EXCEPT ![c] =
                     [use |-> TRUE, ofile |-> ofile[p][fd], addrinit |-> StartAfter(p, k),
                      addri |-> StartAfter(p, k), addre |-> Add(StartAfter(p, k), psize),
                      prot |-> prot, flag |-> flag]]
       /\ list' = IF k = 0 /\ nvma[p] # 0
                    THEN list ELSE [list EXCEPT ![p] = LinkAt(@, k + 1, c)]
  /\ CountVma(p)
  /\ UNCHANGED <<fileVars, pageVars, isize, procVars, panicked>>

(* No room below TOP_ADDRESS: the call fails and p->lock stays held.        *)
MmapNoRoom(p, length, flag, fd) ==
  /\ InUser(p) /\ ~plock[p] /\ Permitted(p, flag, fd) /\ BelowMax(p)
  /\ \E k \in 0..Len(list[p]) : /\ InsertionPoint(p, k, PGROUNDUP(length))
                                /\ NoRoom(p, k, PGROUNDUP(length))
  /\ plock' = [plock EXCEPT ![p] = TRUE]
  /\ UNCHANGED <<vmaVars, pageVars, fileVars, isize, state, pc, args, panicked>>

(* fd is not open: p->ofile[fd] is read through before it is ever tested.   *)
MmapClosedFd(p, length, flag, fd) ==
  /\ InUser(p) /\ ofile[p][fd] = NULL
  /\ \/ flag = "MAP_SHARED"
     \/ /\ ~plock[p] /\ BelowMax(p) /\ \E c \in Slot : ~vmas[c].use
        /\ \E k \in 0..Len(list[p]) : /\ InsertionPoint(p, k, PGROUNDUP(length))
                                      /\ ~NoRoom(p, k, PGROUNDUP(length))
  /\ Panic("null file")

(* acquire(&p->lock) in mmap(), munmap() or yield() while p holds the lock. *)
AcquireHeld(p) ==
  /\ panicked = NULL /\ state[p] = "ALIVE" /\ pc[p] # "munmap" /\ plock[p]
  /\ Panic("acquire")
-----------------------------------------------------------------------------
(* User instructions and the page-fault branch of usertrap().               *)

(* Which positions of the list hold an address; which the range that        *)
(* munmap() is given.  Both loops stop at the first such position.  They    *)
(* run nvma times: when the list is shorter than that and nothing matches,  *)
(* they read through the null next pointer of its last vma.                 *)
HoldersOf(p, a) ==
  {k \in 1..Len(list[p]) : a >= vmas[list[p][k]].addri /\ a < vmas[list[p][k]].addre}

HoldersOfRange(p, addr, length) ==
  {k \in HoldersOf(p, addr) : /\ Add(addr, length) >= vmas[list[p][k]].addri
                              /\ Add(addr, length) <= vmas[list[p][k]].addre}

First(k, K) == k \in K /\ \A j \in K : k <= j
NotFound(p, K) == K = {} /\ Len(list[p]) = nvma[p]
OffTheEnd(p, K) == K = {} /\ Len(list[p]) < nvma[p]

(* The hardware's check.  W without R is a reserved encoding: it faults.    *)
Allows(p, a, store) ==
  LET pte == pagetable[p][PGROUNDDOWN(a)] IN
  /\ pte # NULL
  /\ pte.prot = "PROT_READ_WRITE" \/ (~store /\ pte.prot = "PROT_READ")

Store(p, a) ==
  /\ InUser(p) /\ Allows(p, a, TRUE)
  /\ pagetable' = [pagetable EXCEPT ![p][PGROUNDDOWN(a)].dirty = TRUE]
  /\ UNCHANGED <<vmaVars, tables, fileVars, isize, procVars, panicked>>

(* mappages(f_vaddr, PGSIZE) rounds both ends of the range: when f_vaddr is *)
(* not page aligned it also maps the next page, to the physical page after  *)
(* the allocated one.  readi() fills only the page of f_vaddr.              *)
MappedBy(a) == {b \in Page : b \in {PGROUNDDOWN(a), PGROUNDDOWN(a + PGSIZE - 1)}}

(* Where in the file page b of vma v is read from.                          *)
FaultOff_FromStart(v, b) == b - START_ADDRESS
FaultOff(v, b) == b - v.addri

(* exit(): initproc must not; anyone else goes on with ExitClose below.     *)
Exit(p) ==
  IF p = 1 THEN Panic("init exiting")
  ELSE /\ pc' = [pc EXCEPT ![p] = "exit"]
       /\ UNCHANGED <<vmaVars, pageVars, fileVars, isize, plock, state, args, panicked>>

FaultMap(p, a, store) ==
  /\ InUser(p) /\ ~Allows(p, a, store)
  /\ \A b \in MappedBy(a) : pagetable[p][b] = NULL
  /\ \E k \in 1..Len(list[p]) :
       LET v == vmas[list[p][k]] IN
       /\ First(k, HoldersOf(p, a))
       /\ pagetable' = [pagetable EXCEPT ![p] =
            [b \in Page |-> IF b \notin MappedBy(a) THEN @[b]
                            ELSE [prot |-> v.prot, dirty |-> FALSE,
                                  ip |-> IF b = PGROUNDDOWN(a) THEN file[v.ofile].ip ELSE NULL,
                                  off |-> FaultOff(v, b)]]]
  /\ tables' = [tables EXCEPT ![p] = @ \cup {Table(b) : b \in MappedBy(a)}]
  /\ UNCHANGED <<vmaVars, fileVars, isize, procVars, panicked>>

FaultRemap(p, a, store) ==
  /\ InUser(p) /\ ~Allows(p, a, store)
  /\ \E b \in MappedBy(a) : pagetable[p][b] # NULL
  /\ \E k \in 1..Len(list[p]) : First(k, HoldersOf(p, a))
  /\ Panic("mappages: remap")

(* An address outside every vma: killed, and exit(-1) straight away.        *)
FaultExit(p, a, store) ==
  /\ InUser(p) /\ ~Allows(p, a, store) /\ NotFound(p, HoldersOf(p, a))
  /\ Exit(p)

FaultOffTheEnd(p, a, store) ==
  /\ InUser(p) /\ ~Allows(p, a, store) /\ OffTheEnd(p, HoldersOf(p, a))
  /\ Panic("null vma")
-----------------------------------------------------------------------------
(* munmap(), called by sys_munmap() inside a transaction and by exit()      *)
(* outside of one.  A call that finds no vma returns -1 and changes nothing.*)

MunmapStart(p, addr, length, call) ==
  /\ \E k \in 1..Len(list[p]) :
       /\ First(k, HoldersOfRange(p, addr, length))
       /\ args' = [args EXCEPT ![p] = [slot |-> list[p][k], addr |-> addr, length |-> length,
                                       i |-> 0, call |-> call, written |-> {}]]
  /\ plock' = [plock EXCEPT ![p] = TRUE]
  /\ pc' = [pc EXCEPT ![p] = "munmap"]
  /\ UNCHANGED <<vmaVars, pageVars, fileVars, isize, state, panicked>>

SysMunmap(p, addr, length) ==
  InUser(p) /\ ~plock[p] /\ MunmapStart(p, addr, length, "sys_munmap")

SysMunmapOffTheEnd(p, addr, length) ==
  /\ InUser(p) /\ ~plock[p] /\ OffTheEnd(p, HoldersOfRange(p, addr, length))
  /\ Panic("null vma")

(* The page that iteration i of the loop looks at, and its PTE.             *)
UnmapVa(p) == PGROUNDDOWN(Add(args[p].addr, args[p].i * PGSIZE))

UnmapPages_Short(p) == (PGROUNDUP(args[p].length) - 1) \div PGSIZE
UnmapPages(p) == PGROUNDUP(args[p].length) \div PGSIZE

InLoop(p) ==
  panicked = NULL /\ pc[p] = "munmap" /\ args[p].i < UnmapPages(p)

Resident(p) == Table(UnmapVa(p)) \in tables[p] /\ pagetable[p][UnmapVa(p)] # NULL

MustWrite(p) ==
  Resident(p) /\ pagetable[p][UnmapVa(p)].dirty /\ vmas[args[p].slot].flag = "MAP_SHARED"

(* walk() without alloc returns 0, and munmap() reads *pte all the same.    *)
UnmapNoTable(p) ==
  InLoop(p) /\ Table(UnmapVa(p)) \notin tables[p] /\ Panic("null pte")

UnmapAbsent(p) ==
  /\ InLoop(p) /\ Table(UnmapVa(p)) \in tables[p] /\ ~Resident(p)
  /\ args' = [args EXCEPT ![p].i = @ + 1]
  /\ UNCHANGED <<vmaVars, pageVars, fileVars, isize, plock, state, pc, panicked>>

UnmapClean(p) ==
  /\ InLoop(p) /\ Resident(p) /\ ~MustWrite(p)
  /\ pagetable' = [pagetable EXCEPT ![p][UnmapVa(p)] = NULL]
  /\ args' = [args EXCEPT ![p].i = @ + 1]
  /\ UNCHANGED <<vmaVars, tables, fileVars, isize, plock, state, pc, panicked>>

(* The write-back of a dirty page of a MAP_SHARED vma: where it goes in the *)
(* file, how much is written, and whether writei() refuses it.              *)
UnmapIp(p) == file[vmas[args[p].slot].ofile].ip
UnmapOff(p) == UnmapVa(p) - vmas[args[p].slot].addrinit
PastEnd(p) == PGSIZE * (args[p].i + 1) - isize[UnmapIp(p)]
SizeWritten(p) == IF PastEnd(p) > 0 THEN PastEnd(p) ELSE PGSIZE
WriteiFails(p) ==
  UnmapOff(p) > isize[UnmapIp(p)] \/ UnmapOff(p) + SizeWritten(p) > MAXFILE

(* log.outstanding > 0: some process is between begin_op() and end_op().    *)
InTransaction == \E q \in Proc : pc[q] = "munmap" /\ args[q].call = "sys_munmap"

(* The page that reaches the end of the file is the last: out ends the loop.*)
UnmapWrite(p) ==
  LET ip == UnmapIp(p)  end == UnmapOff(p) + SizeWritten(p) IN
  /\ InLoop(p) /\ MustWrite(p) /\ ~WriteiFails(p) /\ InTransaction
  /\ isize' = [isize EXCEPT ![ip] = IF end > @ THEN end ELSE @]
  /\ pagetable' = [pagetable EXCEPT ![p][UnmapVa(p)] = NULL]
  /\ args' = [args EXCEPT ![p].i = IF PastEnd(p) > 0 THEN UnmapPages(p) ELSE @ + 1,
                          ![p].written = @ \cup UnmapOff(p)..(end - 1)]
  /\ UNCHANGED <<vmaVars, tables, fileVars, plock, state, pc, panicked>>

UnmapOutsideTransaction(p) ==
  /\ InLoop(p) /\ MustWrite(p) /\ ~WriteiFails(p) /\ ~InTransaction
  /\ Panic("log_write outside of trans")

(* ilock(), bread() and writei() may have to wait for a lock or for the     *)
(* disk.  sleep() then acquires p->lock, which munmap() holds.              *)
UnmapSleeps(p) ==
  InLoop(p) /\ MustWrite(p) /\ Panic("sleep")

MunmapReturn_Locked(p) ==
  /\ pc' = [pc EXCEPT ![p] = IF args[p].call = "exit" THEN "exit" ELSE "user"]
  /\ args' = [args EXCEPT ![p] = NoArgs]
  /\ UNCHANGED <<plock, state, panicked>>

MunmapReturn(p) ==
  /\ plock' = [plock EXCEPT ![p] = FALSE]
  /\ pc' = [pc EXCEPT ![p] = IF args[p].call = "exit" THEN "exit" ELSE "user"]
  /\ args' = [args EXCEPT ![p] = NoArgs]
  /\ UNCHANGED <<state, panicked>>

(* munmap() gives up with -1; the pages before this one stay unmapped.      *)
UnmapWriteFails(p) ==
  /\ InLoop(p) /\ MustWrite(p) /\ WriteiFails(p)
  /\ MunmapReturn(p)
  /\ UNCHANGED <<vmaVars, pageVars, fileVars, isize>>

ClearVma_InUse(c) == vmas' = [vmas EXCEPT ![c] = [NoVma EXCEPT !.use = TRUE]]
ClearVma(c) == vmas' = [vmas EXCEPT ![c] = NoVma]

(* freeVma(), but for the reference to the file.                            *)
FreeVma(p) ==
  LET c == args[p].slot IN
  /\ \E k \in 1..Len(list[p]) : list[p][k] = c /\ list' = [list EXCEPT ![p] = Unlink(@, k)]
  /\ ClearVma(c)
  /\ nvma' = [nvma EXCEPT ![p] = @ - 1]

UnmapFinish(p) ==
  LET c == args[p].slot  v == vmas[c]  n == PGROUNDUP(args[p].length) IN
  /\ panicked = NULL /\ pc[p] = "munmap" /\ ~InLoop(p)
  /\ IF Add(v.addri, n) = v.addre THEN FreeVma(p)
     ELSE /\ vmas' = [vmas EXCEPT ![c] =
                       IF v.addri = args[p].addr THEN [v EXCEPT !.addri = Add(@, n)]
                       ELSE [v EXCEPT !.addre = PGROUNDDOWN(args[p].addr)]]
          /\ UNCHANGED <<list, nvma>>
  /\ MunmapReturn(p)
  /\ UNCHANGED <<pageVars, fileVars, isize>>
-----------------------------------------------------------------------------
(* exit(): close every file, then munmap() the head of the list until nvma  *)
(* is 0.  A munmap() that returns -1 changes nothing: exit() tries again.   *)

SysExit(p) == InUser(p) /\ Exit(p)

Exiting(p) == panicked = NULL /\ state[p] = "ALIVE" /\ pc[p] = "exit"
AllClosed(p) == \A fd \in Fd : ofile[p][fd] = NULL

ExitClose(p) ==
  /\ Exiting(p)
  /\ \E fd \in Fd : /\ ofile[p][fd] # NULL /\ \A e \in Fd : e < fd => ofile[p][e] = NULL
                    /\ ofile' = [ofile EXCEPT ![p][fd] = NULL]
  /\ UNCHANGED <<vmaVars, pageVars, file, isize, procVars, panicked>>

ExitLength_OffByOne(v) == Sub(v.addre, v.addri) + 1
ExitLength(v) == Sub(v.addre, v.addri)

ExitMunmap(p) ==
  LET v == vmas[list[p][1]] IN
  /\ Exiting(p) /\ AllClosed(p) /\ nvma[p] > 0 /\ ~plock[p] /\ list[p] # <<>>
  /\ MunmapStart(p, v.addri, ExitLength(v), "exit")

ExitOffTheEnd(p) ==
  LET v == vmas[list[p][1]] IN
  /\ Exiting(p) /\ AllClosed(p) /\ nvma[p] > 0
  /\ \/ list[p] = <<>>
     \/ ~plock[p] /\ OffTheEnd(p, HoldersOfRange(p, v.addri, ExitLength(v)))
  /\ Panic("null vma")

ExitZombie(p) ==
  /\ Exiting(p) /\ AllClosed(p) /\ nvma[p] = 0 /\ ~plock[p]
  /\ state' = [state EXCEPT ![p] = "ZOMBIE"]
  /\ pc' = [pc EXCEPT ![p] = "user"]
  /\ UNCHANGED <<vmaVars, pageVars, fileVars, isize, plock, args, panicked>>

(* freeproc(), called by wait(): freewalk() panics on a leaf that is left.  *)
HasLeaf(p) == \E a \in Page : pagetable[p][a] # NULL

FreeProc(p) ==
  /\ panicked = NULL /\ state[p] = "ZOMBIE"
  /\ IF HasLeaf(p) THEN Panic("freewalk: leaf")
     ELSE /\ state' = [state EXCEPT ![p] = "UNUSED"]
          /\ tables' = [tables EXCEPT ![p] = {}]
          /\ UNCHANGED <<vmaVars, pagetable, fileVars, isize, plock, pc, args, panicked>>

(* A successful exec() frees the old page table and keeps the vmas.         *)
SysExec(p) ==
  /\ InUser(p) /\ tables[p] # {}
  /\ IF HasLeaf(p) THEN Panic("freewalk: leaf")
     ELSE /\ tables' = [tables EXCEPT ![p] = {}]
          /\ UNCHANGED <<vmaVars, pagetable, fileVars, isize, procVars, panicked>>
-----------------------------------------------------------------------------
(* fork().  The scan for free slots runs upwards once: the i-th vma of the  *)
(* parent goes to the i-th free slot.  Running out of slots is an error,    *)
(* except when the slot just taken was the last one of the table: then the  *)
(* remaining vmas are skipped and fork() goes on.                           *)

FreeSlots == {c \in Slot : ~vmas[c].use}

Copies(p) == IF nvma[p] <= Cardinality(FreeSlots) THEN nvma[p] ELSE Cardinality(FreeSlots)

FirstFree(sel) ==
  /\ \A i, j \in DOMAIN sel : i < j => sel[i] < sel[j]
  /\ \A i \in DOMAIN sel, c \in FreeSlots : c < sel[i] => \E j \in DOMAIN sel : sel[j] = c

OutOfSlots(p) == nvma[p] > Cardinality(FreeSlots) /\ VMAS_STORED - 1 \notin FreeSlots

CopyVmas_Share(p, np) == list' = [list EXCEPT ![np] = list[p]] /\ UNCHANGED vmas

CopyVmas(p, np) ==
  \E sel \in [1..Copies(p) -> FreeSlots] :
    /\ FirstFree(sel)
    /\ list' = [list EXCEPT ![np] = sel]
    /\ vmas' = [c \in Slot |-> IF \E i \in DOMAIN sel : sel[i] = c
                              THEN vmas[list[p][CHOOSE i \in DOMAIN sel : sel[i] = c]]
                              ELSE vmas[c]]

(* What both outcomes do to np: descriptors and vmas.                       *)
ForkInto(p, np) ==
  /\ CopyVmas(p, np)
  /\ nvma' = [nvma EXCEPT ![np] = nvma[p]]
  /\ ofile' = [ofile EXCEPT ![np] = ofile[p]]
  /\ UNCHANGED <<pageVars, file, isize, plock, pc, args, panicked>>

(* The slot allocproc() returns.                                            *)
AllocProc(np) == state[np] = "UNUSED" /\ \A q \in Proc : q < np => state[q] # "UNUSED"

ForkOk(p, np) ==
  /\ InUser(p) /\ AllocProc(np) /\ ~OutOfSlots(p) /\ Len(list[p]) = nvma[p]
  /\ ForkInto(p, np)
  /\ state' = [state EXCEPT ![np] = "ALIVE"]

(* fork() returns -1 and leaves np behind in state USED, as far as it got.  *)
ForkOutOfSlots(p, np) ==
  /\ InUser(p) /\ AllocProc(np) /\ OutOfSlots(p) /\ Copies(p) <= Len(list[p])
  /\ ForkInto(p, np)
  /\ state' = [state EXCEPT ![np] = "USED"]

ForkOffTheEnd(p, np) ==
  /\ InUser(p) /\ AllocProc(np) /\ Len(list[p]) < nvma[p]
  /\ ~OutOfSlots(p) \/ Copies(p) > Len(list[p])
  /\ Panic("null vma")
-----------------------------------------------------------------------------
UserStep(p) ==
  \/ \E fd \in Fd, f \in File, ip \in Inode, mode \in Modes : SysOpen(p, fd, f, ip, mode)
  \/ \E fd \in Fd : SysClose(p, fd)
  \/ \E length \in Lengths, prot \in Prots, flag \in Flags, fd \in Fd :
       MmapOk(p, length, prot, flag, fd)
  \/ \E length \in Lengths, flag \in Flags, fd \in Fd :
       MmapNoRoom(p, length, flag, fd) \/ MmapClosedFd(p, length, flag, fd)
  \/ \E addr \in Addrs, length \in Lengths :
       SysMunmap(p, addr, length) \/ SysMunmapOffTheEnd(p, addr, length)
  \/ \E a \in TouchAddrs : Store(p, a)
  \/ \E a \in TouchAddrs, store \in BOOLEAN :
       \/ FaultMap(p, a, store) \/ FaultRemap(p, a, store)
       \/ FaultExit(p, a, store) \/ FaultOffTheEnd(p, a, store)
  \/ \E np \in Proc : ForkOk(p, np) \/ ForkOutOfSlots(p, np) \/ ForkOffTheEnd(p, np)
  \/ SysExec(p) \/ SysExit(p) \/ AcquireHeld(p)

MunmapStep(p) ==
  \/ UnmapNoTable(p) \/ UnmapAbsent(p) \/ UnmapClean(p) \/ UnmapWrite(p)
  \/ UnmapOutsideTransaction(p) \/ UnmapWriteFails(p) \/ UnmapSleeps(p) \/ UnmapFinish(p)

ExitStep(p) == ExitClose(p) \/ ExitMunmap(p) \/ ExitOffTheEnd(p) \/ ExitZombie(p)

KernelStep(p) == MunmapStep(p) \/ ExitStep(p)

Next == \E p \in Proc : UserStep(p) \/ KernelStep(p) \/ FreeProc(p)

Spec == Init /\ [][Next]_vars
-----------------------------------------------------------------------------
(* Every variable keeps its shape: table entries are records of struct vma,   *)
(* lists hold slots, nvma stays within MAX_VMAS and munmap's locals name a    *)
(* slot while it runs.                                                        *)
TypeOK ==
  /\ vmas \in [Slot -> Vma] /\ list \in [Proc -> Seq(Slot)]
  /\ nvma \in [Proc -> 0..MAX_VMAS]
  /\ pagetable \in [Proc -> [Page -> Pte \cup {NULL}]]
  /\ tables \in [Proc -> SUBSET Int]
  /\ ofile \in [Proc -> [Fd -> File \cup {NULL}]] /\ file \in [File -> FileSlot]
  /\ isize \in [Inode -> Int]
  /\ plock \in [Proc -> BOOLEAN]
  /\ state \in [Proc -> {"UNUSED", "USED", "ALIVE", "ZOMBIE"}]
  /\ pc \in [Proc -> {"user", "munmap", "exit"}]
  /\ args \in [Proc -> Args]

(* A slot of vmas[] is on at most one process's list, at most once, and only  *)
(* while use is set: findVma(), freeVma() and fork()'s copy loop never hand   *)
(* one struct vma to two owners.                                              *)
SlotsExclusive ==
  /\ \A p \in Proc : \A k \in 1..Len(list[p]) : vmas[list[p][k]].use
  /\ \A p, q \in Proc : \A j \in 1..Len(list[p]), k \in 1..Len(list[q]) :
       list[p][j] = list[q][k] => p = q /\ j = k

(* The vmas of a process are sorted, do not overlap and lie inside the mmap   *)
(* area, whatever ranges munmap() is given: first-fit insertion and the three *)
(* ways munmap() shrinks a vma keep them apart.                               *)
VmasDisjoint ==
  \A p \in Proc :
    /\ \A k \in 1..Len(list[p]) : LET v == vmas[list[p][k]] IN
         START_ADDRESS <= v.addri /\ v.addri <= v.addre /\ v.addre <= TOP_ADDRESS
    /\ \A j, k \in 1..Len(list[p]) :
         j < k => vmas[list[p][j]].addre <= vmas[list[p][k]].addri

(* nvma never claims fewer vmas than the list has (the loops that run nvma    *)
(* times see the whole list), also after a fork() that ran out of slots.      *)
ListWithinCount == \A p \in Proc : Len(list[p]) <= nvma[p]

(* exit() gets through: once a process is in exit(), its fileclose() and      *)
(* munmap() calls come to an end and it becomes a zombie (or the machine      *)
(* halts).                                                                    *)
ExitTerminates ==
  \A p \in Proc : pc[p] = "exit" ~> (state[p] = "ZOMBIE" \/ panicked # NULL)

(* A process inside the kernel that can go on is scheduled again.             *)
FairSpec == Spec /\ \A p \in Proc : WF_vars(KernelStep(p))

(* None of the calls makes the kernel panic or read through a null pointer,   *)
(* but for one case: a write-back that has to wait for a lock or for the disk *)
(* makes sleep() acquire the p->lock that munmap() holds.                     *)
NoOtherPanic == panicked \in {NULL, "sleep"}

(* A resident page of a vma shows the part of the mapped file that belongs at *)
(* its address: the page offset counts from addrinit, where mmap() put the    *)
(* start of the file, also after munmap() moved addri.                        *)
MappingFaithful ==
  \A p \in Proc : \A k \in 1..Len(list[p]), a \in Page :
    LET v == vmas[list[p][k]]  pte == pagetable[p][a] IN
    (pte # NULL /\ v.addri <= a /\ a < v.addre)
      => pte.ip = file[v.ofile].ip /\ pte.off = a - v.addrinit

(* Every leaf mapping in the mmap area lies in a vma of the process, so that  *)
(* exit() has removed them all when freewalk() takes the page table down.     *)
LeavesOwned ==
  \A p \in Proc : \A a \in Page :
    pagetable[p][a] # NULL => \E k \in 1..Len(list[p]) :
                                 vmas[list[p][k]].addri <= a /\ a < vmas[list[p][k]].addre

(* The list p->vmas has exactly nvma vmas, in the child of a fork() too, and  *)
(* a slot in use is on some list, so that munmap() or exit() can free it.     *)
ListsComplete ==
  /\ \A p \in Proc : state[p] # "USED" => Len(list[p]) = nvma[p]
  /\ \A c \in Slot : vmas[c].use => \E p \in Proc : \E k \in 1..Len(list[p]) : list[p][k] = c

=============================================================================
