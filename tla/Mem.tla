--------------------------------- MODULE Mem ---------------------------------
(***************************************************************************)
(* Physical pages and user address spaces: kalloc.c, vm.c, and what        *)
(* proc.c, exec.c and sbrk() do with them.  The page table is the real     *)
(* tree of three levels, with NPTE entries in a page instead of 512.  A    *)
(* call is one step: it shares only the free list with other processes,    *)
(* one page at a time.                                                     *)
(*                                                                         *)
(* kalloc() does not return 0 when the list is empty but an address that   *)
(* does not exist, so the branches of its callers for "no memory" are dead *)
(* and the first use of the page is a fault in the kernel.                 *)
(***************************************************************************)
EXTENDS Integers, Sequences, FiniteSets, SequencesExt

CONSTANTS
  NPROC,
  NPAGES,        \* physical pages
  NPTE,          \* entries of a page-table page
  PGSIZE,
  WORD,          \* 2^32 in the code: growproc() computes sizes in a uint
  Increments,    \* bound: arguments of sbrk()
  Programs,      \* bound: segments of the programs that exec() loads
  MAXSZ,         \* bound: bytes of a process
  MAXCALLS       \* bound: calls of a behaviour

Proc == 1..NPROC
Page == 1..NPAGES
MAXVA == NPTE * NPTE * NPTE * PGSIZE
TRAMPOLINE == MAXVA - PGSIZE
TRAPFRAME == TRAMPOLINE - PGSIZE

ASSUME SizeAssumption == MAXSZ < TRAPFRAME /\ WORD >= MAXVA

VARIABLES mem, proc, calls

vars == <<mem, proc, calls>>

(* A PTE, by its flags: a table, a kernel page, a user page, or a user page *)
(* without PTE_U.  The trampoline is physical page 0.                       *)
NoPte == [kind |-> "none", pa |-> 0]
Empty == [i \in 0..(NPTE - 1) |-> NoPte]

(* mem: free pages, reference counts, contents of page-table pages, the     *)
(* panic, and the results of the last function: an address and a size.      *)
kinit == [free |-> Page, ref |-> [p \in Page |-> 0], pt |-> [p \in Page |-> Empty],
          bad |-> "no", pa |-> 0, sz |-> 0]
Unused == [state |-> "UNUSED", trapframe |-> 0, pagetable |-> 0, sz |-> 0]

Fail(m, kind) == [m EXCEPT !.bad = kind]
PGROUNDUP(n) == ((n + PGSIZE - 1) \div PGSIZE) * PGSIZE
PGROUNDDOWN(a) == (a \div PGSIZE) * PGSIZE
PX(level, va) == (va \div (PGSIZE * NPTE^level)) % NPTE

-----------------------------------------------------------------------------
(* kalloc() takes some page (which one is left to the list: here the        *)
(* lowest) and kfree() puts it back; the count stays 1 in a free page.      *)
kalloc(m) ==
  LET p == CHOOSE x \in m.free : \A y \in m.free : x <= y IN
  IF m.bad # "no" THEN m
  ELSE IF m.free = {} THEN Fail(m, "no memory")
  ELSE [m EXCEPT !.free = @ \ {p}, !.ref[p] = 1, !.pa = p]

kfree(m, p) ==
  IF m.bad # "no" THEN m
  ELSE IF m.ref[p] # 1 THEN Fail(m, "kfree: assert ref == 1 failed")
  ELSE IF p \in m.free THEN Fail(m, "freed twice")
  ELSE [m EXCEPT !.free = @ \cup {p}]

(* uvmcreate(), and walk() when it adds a table: a page, cleared.           *)
Cleared(n) == IF n.bad # "no" THEN n ELSE [n EXCEPT !.pt[n.pa] = Empty]
uvmcreate(m) == Cleared(kalloc(m))

(* walk(): from the table m.pa to the one its entry i names.                *)
AddTable(n, t, i) == IF n.bad # "no" THEN n ELSE [n EXCEPT !.pt[t][i] = [kind |-> "table", pa |-> n.pa]]
Descend(m, i, alloc) ==
  LET pte == m.pt[m.pa][i] IN
  IF m.bad # "no" \/ m.pa = 0 THEN m
  ELSE IF pte.kind # "none" THEN [m EXCEPT !.pa = pte.pa]
  ELSE IF ~alloc THEN [m EXCEPT !.pa = 0]
  ELSE AddTable(uvmcreate(m), m.pa, i)

walk(m, root, va, alloc) ==
  IF m.bad # "no" THEN m ELSE IF va >= MAXVA THEN Fail(m, "walk")
  ELSE Descend(Descend([m EXCEPT !.pa = root], PX(2, va), alloc), PX(1, va), alloc)

(* The PTE for va, if the tables that lead there exist.                     *)
EntryIn(n, va) == IF n.pa = 0 THEN NoPte ELSE n.pt[n.pa][PX(0, va)]
Pte(m, root, va) == EntryIn(walk(m, root, va, FALSE), va)

(* walkaddr(): only a page that the user may access.                        *)
walkaddr(m, root, va) ==
  IF va >= MAXVA THEN 0
  ELSE LET pte == Pte(m, root, va) IN IF pte.kind = "user" THEN pte.pa ELSE 0

(* mappages() of one page, the only size it is called with.                 *)
MapIn(n, va, pa, kind) ==
  IF n.bad # "no" THEN n
  ELSE IF n.pt[n.pa][PX(0, va)].kind # "none" THEN Fail(n, "mappages: remap")
  ELSE [n EXCEPT !.pt[n.pa][PX(0, va)] = [kind |-> kind, pa |-> pa]]
mappages(m, root, va, pa, kind) == MapIn(walk(m, root, va, TRUE), va, pa, kind)

Pages(from, to) == [i \in 1..((to - from) \div PGSIZE) |-> from + (i - 1) * PGSIZE]

(* uvmunmap() of the pages of [from, to): one page, whose entry is in the   *)
(* table w.pa, and all of them.                                             *)
UnmapIn(w, va, do_free) ==
  LET pte == EntryIn(w, va) IN
  IF w.bad # "no" THEN w
  ELSE IF w.pa = 0 THEN Fail(w, "uvmunmap: walk")
  ELSE IF pte.kind = "none" THEN Fail(w, "uvmunmap: not mapped")
  ELSE IF pte.kind = "table" THEN Fail(w, "uvmunmap: not a leaf")
  ELSE [(IF do_free THEN kfree(w, pte.pa) ELSE w) EXCEPT !.pt[w.pa][PX(0, va)] = NoPte]

uvmunmap(m, root, from, to, do_free) ==
  FoldLeft(LAMBDA n, va : UnmapIn(walk(n, root, va, FALSE), va, do_free), m, Pages(from, to))

(* uvmalloc(): the new size is m.sz.                                        *)
NewPage(m, root, va, kind) == LET n == kalloc(m) IN mappages(n, root, va, n.pa, kind)

FirstPage(oldsz) == PGROUNDUP(oldsz)
uvmalloc(m, root, oldsz, newsz) ==
  IF newsz < oldsz THEN [m EXCEPT !.sz = oldsz]
  ELSE [FoldLeft(LAMBDA n, va : NewPage(n, root, va, "user"), m, Pages(FirstPage(oldsz), PGROUNDUP(newsz)))
          EXCEPT !.sz = newsz]

uvmdealloc(m, root, oldsz, newsz) ==
  IF newsz >= oldsz THEN [m EXCEPT !.sz = oldsz]
  ELSE [uvmunmap(m, root, PGROUNDUP(newsz), PGROUNDUP(oldsz), TRUE) EXCEPT !.sz = newsz]

(* freewalk(): free the tree below and with page t.                         *)
RECURSIVE freewalk(_, _)
freewalk(m, t) ==
  LET One(n, i) ==
        LET pte == n.pt[t][i]  f == freewalk(n, pte.pa) IN
        IF n.bad # "no" \/ pte.kind = "none" THEN n
        ELSE IF pte.kind # "table" THEN Fail(n, "freewalk: leaf")
        ELSE IF f.bad # "no" THEN f ELSE [f EXCEPT !.pt[t][i] = NoPte]
  IN kfree(FoldLeft(One, m, [i \in 1..NPTE |-> i - 1]), t)

uvmfree(m, root, sz) == freewalk(uvmunmap(m, root, 0, PGROUNDUP(sz), TRUE), root)

(* The page table is m.pa.                                                  *)
proc_pagetable(m, trapframe) ==
  LET n == uvmcreate(m)  root == n.pa IN
  [mappages(mappages(n, root, TRAMPOLINE, 0, "kernel"), root, TRAPFRAME, trapframe, "kernel") EXCEPT !.pa = root]

proc_freepagetable(m, root, sz) ==
  uvmfree(uvmunmap(m, root, TRAPFRAME, MAXVA, FALSE), root, sz)

(* uvmcopy(): each page of the parent, with its flags.                      *)
uvmcopy(m, old, new, sz) ==
  LET One(n, va) == IF n.bad = "no" /\ Pte(n, old, va).kind = "none" THEN Fail(n, "uvmcopy: page not present")
                    ELSE NewPage(n, new, va, Pte(n, old, va).kind)
  IN FoldLeft(One, m, Pages(0, PGROUNDUP(sz)))

ClearIn(w, va) ==
  IF w.bad # "no" THEN w ELSE IF w.pa = 0 THEN Fail(w, "uvmclear")
  ELSE [w EXCEPT !.pt[w.pa][PX(0, va)].kind = "guard"]
uvmclear(m, root, va) == ClearIn(walk(m, root, va, FALSE), va)

-----------------------------------------------------------------------------
(* The calls.  A panic stops everything.                                    *)
Running(p) == mem.bad = "no" /\ proc[p].state = "RUNNING" /\ calls < MAXCALLS /\ calls' = calls + 1

uvminit(m, root) == NewPage(m, root, 0, "user")

(* userinit(): one page, for initcode.                                      *)
Init ==
  LET t == kalloc(kinit)  n == proc_pagetable(t, t.pa)  u == uvminit(n, n.pa) IN
  /\ mem = [u EXCEPT !.pa = 0]
  /\ proc = [p \in Proc |-> IF p = 1 THEN [state |-> "RUNNING", trapframe |-> t.pa, pagetable |-> n.pa, sz |-> PGSIZE]
                            ELSE Unused]
  /\ calls = 0

Settle(m) == mem' = [m EXCEPT !.pa = 0, !.sz = 0]

(* sbrk(): growproc() by n bytes, of which it takes the sum as a uint.      *)
growproc(p, n) ==
  LET sz == proc[p].sz  new == (sz + n) % WORD
      m == IF n > 0 THEN uvmalloc(mem, proc[p].pagetable, sz, new)
           ELSE IF n < 0 THEN uvmdealloc(mem, proc[p].pagetable, sz, new)
           ELSE [mem EXCEPT !.sz = sz]
  IN
  /\ Running(p) /\ sz + n <= MAXSZ /\ Settle(m)
  /\ proc' = IF m.bad = "no" THEN [proc EXCEPT ![p].sz = m.sz] ELSE proc

(* fork(): allocproc() and uvmcopy().                                       *)
fork(p) ==
  LET np == CHOOSE q \in Proc : proc[q].state = "UNUSED" /\ \A r \in Proc : proc[r].state = "UNUSED" => q <= r
      t == kalloc(mem)  n == proc_pagetable(t, t.pa)
      m == uvmcopy(n, proc[p].pagetable, n.pa, proc[p].sz)
  IN
  /\ Running(p) /\ \E q \in Proc : proc[q].state = "UNUSED"
  /\ Settle(m)
  /\ proc' = IF m.bad # "no" THEN proc
             ELSE [proc EXCEPT ![np] = [state |-> "RUNNING", trapframe |-> t.pa, pagetable |-> n.pa, sz |-> proc[p].sz]]

(* exec(): build a page table from the segments, add a guard page and a     *)
(* stack, and only then replace the old one.  It fails at the header, at a  *)
(* segment that is unaligned or cannot be read, or at the arguments, which  *)
(* sys_exec() keeps in a page meanwhile.  Each memory is named once it is   *)
(* known: n has the new page table, loaded the program, stacked all.        *)
loadseg(m, root, s) ==
  IF m.bad = "no" /\ \E va \in s.vaddr..(s.vaddr + s.memsz - 1) : walkaddr(m, root, PGROUNDDOWN(va)) = 0
  THEN Fail(m, "loadseg: address should exist") ELSE m

Image(m, root, segs) ==
  FoldLeft(LAMBDA n, s : loadseg(uvmalloc(n, root, n.sz, s.vaddr + s.memsz), root, s), [m EXCEPT !.sz = 0], segs)

OldSize_New(p, sz) == sz
OldSize(p, sz) == proc[p].sz

Fails == {"header", "segment", "arguments"}

exec(p, segs) ==
  /\ Running(p)
  /\ \E argv \in {kalloc(mem)} : \E n \in {proc_pagetable(argv, proc[p].trapframe)} :
     \E loaded \in {Image(n, n.pa, segs)} :
     LET sz0 == PGROUNDUP(loaded.sz)  sz == sz0 + 2 * PGSIZE IN
     \E stacked \in {uvmclear(uvmalloc(loaded, n.pa, sz0, sz), n.pa, sz0)} :
       \/ \E fail \in Fails :
            /\ Settle(kfree(CASE fail = "header" -> argv
                              [] fail = "segment" -> proc_freepagetable(loaded, n.pa, loaded.sz)
                              [] fail = "arguments" -> proc_freepagetable(stacked, n.pa, sz), argv.pa))
            /\ UNCHANGED proc
       \/ \E done \in {kfree(proc_freepagetable(stacked, proc[p].pagetable, OldSize(p, sz)), argv.pa)} :
            /\ Settle(done)
            /\ proc' = IF done.bad = "no" THEN [proc EXCEPT ![p].pagetable = n.pa, ![p].sz = sz] ELSE proc

exit(p) == Running(p) /\ proc' = [proc EXCEPT ![p].state = "ZOMBIE"] /\ UNCHANGED mem

(* wait(): freeproc() of a zombie.                                          *)
freeproc(m, z) == proc_freepagetable(kfree(m, z.trapframe), z.pagetable, z.sz)

wait(p, c) ==
  LET m == freeproc(mem, proc[c]) IN
  /\ Running(p) /\ proc[c].state = "ZOMBIE" /\ Settle(m)
  /\ proc' = IF m.bad = "no" THEN [proc EXCEPT ![c] = Unused] ELSE proc

Next ==
  \E p \in Proc :
    \/ \E n \in Increments : growproc(p, n)
    \/ fork(p)
    \/ \E segs \in Programs : exec(p, segs)
    \/ p # 1 /\ exit(p)
    \/ \E c \in Proc : wait(p, c)

Spec == Init /\ [][Next]_vars

-----------------------------------------------------------------------------
(* copyout() and copyin(): which physical bytes they touch, page by page;   *)
(* Failed at the end if they fail.                                          *)
Failed == <<-1, -1>>
Bytes(pa, off, n) == [i \in 1..n |-> <<pa, off + i - 1>>]

Lesser(a, b) == IF a < b THEN a ELSE b
InPage_Whole(va, len) == Lesser(PGSIZE, len)
InPage(va, len) == Lesser(PGSIZE - (va - PGROUNDDOWN(va)), len)

RECURSIVE copyout(_, _, _)
copyout(root, va, len) ==
  LET va0 == PGROUNDDOWN(va)  pa0 == walkaddr(mem, root, va0)  n == InPage(va, len) IN
  IF len = 0 THEN <<>>
  ELSE IF pa0 = 0 THEN <<Failed>>
  ELSE Bytes(pa0, va - va0, n) \o copyout(root, va0 + PGSIZE, len - n)

RECURSIVE copyin(_, _, _)
copyin(root, va, len) ==
  LET va0 == PGROUNDDOWN(va)  pa0 == walkaddr(mem, root, va0)  n == InPage(va, len) IN
  IF len = 0 THEN <<>>
  ELSE IF pa0 = 0 THEN <<Failed>>
  ELSE Bytes(pa0, va - va0, n) \o copyin(root, va0 + PGSIZE, len - n)

(* copyinstr() of a string that ends at address nul: whether it is found    *)
(* within max bytes.                                                        *)
RECURSIVE copyinstr(_, _, _, _)
copyinstr(root, va, max, nul) ==
  LET va0 == PGROUNDDOWN(va)  n == InPage(va, max) IN
  IF max = 0 \/ walkaddr(mem, root, va0) = 0 THEN FALSE
  ELSE nul < va + n \/ copyinstr(root, va0 + PGSIZE, max - n, nul)

-----------------------------------------------------------------------------
(* The pages of process p: its trapframe, the page-table pages under its    *)
(* root, and its user pages, in the order of the tree.                      *)
RECURSIVE Tables(_)
Tables(t) == {t} \cup UNION {Tables(mem.pt[t][i].pa) : i \in {j \in 0..(NPTE - 1) : mem.pt[t][j].kind = "table"}}

Alive == {p \in Proc : proc[p].state # "UNUSED"}
User(p) == {va \in 0..(TRAPFRAME - 1) : va % PGSIZE = 0 /\ Pte(mem, proc[p].pagetable, va).kind # "none"}
Owned(p) ==
  {proc[p].trapframe} \cup Tables(proc[p].pagetable) \cup {Pte(mem, proc[p].pagetable, va).pa : va \in User(p)}

(* Every page is free or has one owner and one use: nothing leaks on any    *)
(* path of exec(), fork() and sbrk(), nothing is freed twice or shared.     *)
(* A process has exactly the pages below its size, and its trapframe.  So   *)
(* none of the panics of walk(), mappages(), uvmunmap(), uvmcopy(),         *)
(* loadseg() and freewalk() is reached; only memory may run out.            *)
PagesOwned ==
  /\ mem.bad \in {"no", "no memory"}
  /\ mem.bad = "no" =>
    /\ \A p \in Alive :
         /\ User(p) = {va \in 0..(MAXVA - 1) : va % PGSIZE = 0 /\ va < proc[p].sz}
         /\ Pte(mem, proc[p].pagetable, TRAPFRAME).pa = proc[p].trapframe
         /\ Cardinality(Owned(p)) = 1 + Cardinality(Tables(proc[p].pagetable)) + Cardinality(User(p))
    /\ \A p, q \in Alive : p # q => Owned(p) \cap Owned(q) = {}
    /\ Page \ mem.free = UNION {Owned(p) : p \in Alive}

(* copyin() and copyout() succeed exactly for ranges of the user's own      *)
(* bytes, across page boundaries, and touch those bytes and no others;      *)
(* copyinstr() finds a string exactly when it ends in time and in reach.    *)
Reach(p, va) == va < MAXVA /\ Pte(mem, proc[p].pagetable, PGROUNDDOWN(va)).kind = "user"
CopyExact ==
  mem.bad = "no" =>
    \A p \in Alive, va \in 0..(MAXSZ + 1), len \in 0..(PGSIZE + 2) :
      LET root == proc[p].pagetable  c == copyout(root, va, len)
          ok == \A a \in va..(va + len - 1) : Reach(p, a)
      IN
      /\ copyin(root, va, len) = c
      /\ IF ok THEN c = [i \in 1..len |-> <<Pte(mem, root, PGROUNDDOWN(va + i - 1)).pa, (va + i - 1) % PGSIZE>>]
         ELSE c[Len(c)] = Failed
      /\ \A nul \in va..(va + PGSIZE + 1) :
           copyinstr(root, va, len, nul) = (nul < va + len /\ \A a \in va..nul : Reach(p, a))

(* kalloc() "Returns 0 if the memory cannot be allocated" (kalloc.c), so    *)
(* that a call fails when memory runs out, and the kernel goes on.          *)
OutOfMemorySurvived == mem.bad # "no memory"
=============================================================================
