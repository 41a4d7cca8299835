------------------------------- MODULE MCVma -------------------------------
(***************************************************************************)
(* Small instances of Vma for TLC, with small pages and addresses.  Spec of*)
(* Vma lets user code make any call; CarefulSpec the calls that            *)
(* user/mmaptest.c makes, with a guard for each thing the kernel does not  *)
(* cope with.                                                              *)
(***************************************************************************)
EXTENDS Vma

ReadWrite == {<<TRUE, TRUE>>}

(* Two processes run; a third is forked but does not run.  While there are  *)
(* two they have two vmas each, in two pages, of which the first is touched.*)
AtMostTwo ==
  LET running == {p \in Proc : state[p] # "UNUSED"} IN
  /\ Cardinality(running) <= 2
  /\ Cardinality(running) = 2 =>
       /\ \A p \in Proc : nvma[p] <= 2 /\ \A a \in Page \ {START_ADDRESS} : pagetable[p][a] = NULL
       /\ \A c \in Slot : vmas[c].use => vmas[c].addre <= START_ADDRESS + 2 * PGSIZE

PagesOf(v) == {a \in Page : v.addri <= a /\ a < v.addre}
Unmapped(p, v) == \E a \in PagesOf(v) : Table(a) \notin tables[p]
DirtyShared(p, v) ==
  v.flag = "MAP_SHARED" /\ \E a \in PagesOf(v) : pagetable[p][a] # NULL /\ pagetable[p][a].dirty
VmasOf(p) == {vmas[list[p][k]] : k \in 1..Len(list[p])}

(* filealloc() returns the first slot that nothing refers to.               *)
FreeFile(f) == (\A p \in Proc, fd \in Fd : ofile[p][fd] # f) /\ (\A c \in Slot : vmas[c].ofile # f)
CarefulOpen(p, fd, f, ip, mode) ==
  /\ FreeFile(f) /\ \A g \in File : g < f => ~FreeFile(g)
  /\ SysOpen(p, fd, f, ip, mode)

(* At least one unit of an open file is mapped, and there is room.          *)
CarefulMmap(p, length, prot, flag, fd) ==
  length > 0 /\ ofile[p][fd] # NULL /\ MmapOk(p, length, prot, flag, fd)

(* Whole pages at one end of a vma whose page-table page exists; dirty      *)
(* pages are unmapped from the first page on.                               *)
CarefulMunmap(p, addr, length) ==
  /\ length > 0 /\ length % PGSIZE = 0 /\ addr % PGSIZE = 0
  /\ \E v \in VmasOf(p) :
       /\ addr >= v.addri /\ addr + length <= v.addre /\ ~Unmapped(p, v)
       /\ addr = v.addri \/ addr + length = v.addre
       /\ DirtyShared(p, v) => addr = v.addrinit
  /\ SysMunmap(p, addr, length) \/ SysMunmapOffTheEnd(p, addr, length)

(* There are slots for all copies.                                          *)
CarefulFork(p, np) ==
  /\ nvma[p] <= Cardinality(FreeSlots)
  /\ ForkOk(p, np) \/ ForkOutOfSlots(p, np) \/ ForkOffTheEnd(p, np)

(* exit() finds a page-table page for each vma, and nothing to write back.  *)
MayExit(p) == p # 1 /\ \A v \in VmasOf(p) : ~Unmapped(p, v) /\ ~DirtyShared(p, v)

(* The start of a page is touched, which is not behind the end of the file, *)
(* as prot allows; for the first time only while the vma still has its      *)
(* first page; outside of all vmas only when p may die.                     *)
CarefulFault(p, a, store) ==
  /\ a % PGSIZE = 0 /\ (HoldersOf(p, a) = {} => MayExit(p))
  /\ \A k \in HoldersOf(p, a) : LET v == vmas[list[p][k]] IN
       /\ v.addri = v.addrinit /\ a - v.addrinit < isize[file[v.ofile].ip]
       /\ store => v.prot = "PROT_READ_WRITE"
  /\ \/ FaultMap(p, a, store) \/ FaultRemap(p, a, store)
     \/ FaultExit(p, a, store) \/ FaultOffTheEnd(p, a, store)

CarefulStep(p) ==
  \/ \E fd \in Fd, f \in File, ip \in Inode, mode \in Modes : CarefulOpen(p, fd, f, ip, mode)
  \/ \E fd \in Fd : SysClose(p, fd)
  \/ \E length \in Lengths, prot \in Prots, flag \in Flags, fd \in Fd :
       CarefulMmap(p, length, prot, flag, fd)
  \/ \E addr \in Addrs, length \in Lengths : CarefulMunmap(p, addr, length)
  \/ \E a \in TouchAddrs : Store(p, a)
  \/ \E a \in TouchAddrs, store \in BOOLEAN : CarefulFault(p, a, store)
  \/ \E np \in Proc : CarefulFork(p, np)
  \/ ~HasLeaf(p) /\ SysExec(p)
  \/ MayExit(p) /\ SysExit(p)
  \/ AcquireHeld(p)

CarefulNext == \E p \in Proc : CarefulStep(p) \/ KernelStep(p) \/ FreeProc(p)

CarefulSpec == Init /\ [][CarefulNext]_vars /\ \A p \in Proc : WF_vars(KernelStep(p))
=============================================================================
