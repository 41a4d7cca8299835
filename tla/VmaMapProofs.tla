---------------------------- MODULE VmaMapProofs ----------------------------
(***************************************************************************)
(* First-fit insertion in mmap() and the three ways munmap() shrinks a vma *)
(* keep the vmas of a process apart, for every layout of the area and all  *)
(* lengths that do not make the address arithmetic wrap.                   *)
(***************************************************************************)
EXTENDS VmaProofs

(* The vmas of p are page aligned, sorted and inside the area.  While p is  *)
(* in munmap(), the range it unmaps is inside the vma it found: between its *)
(* search and its last assignment nothing else moves that vma.              *)
Placed(v) ==
  /\ START_ADDRESS <= v.addri /\ v.addri <= v.addre /\ v.addre <= TOP_ADDRESS
  /\ v.addri % PGSIZE = 0 /\ v.addre % PGSIZE = 0

Inside(v, a) == v.addri <= a.addr /\ a.addr < v.addre /\ a.addr + a.length <= v.addre

LayoutOf(p) ==
  /\ \A k \in 1..Len(list[p]) : Placed(vmas[list[p][k]])
  /\ \A j, k \in 1..Len(list[p]) : j < k => vmas[list[p][j]].addre <= vmas[list[p][k]].addri
  /\ pc[p] = "munmap" => Inside(vmas[args[p].slot], args[p])

Layout == \A p \in Proc : LayoutOf(p)

(* The order of positions survives an insertion or a removal at k.           *)
LEMMA ShiftOrder ==
  \A i, j, k \in Int : i < j =>
    /\ (IF i < k THEN i ELSE i + 1) < (IF j < k THEN j ELSE j + 1)
    /\ i # k /\ j # k => (IF i < k THEN i ELSE i - 1) < (IF j < k THEN j ELSE j - 1)
OBVIOUS

LEMMA AtMostThrough == \A x, y, z \in Nat : x <= y /\ y <= z => x <= z
OBVIOUS

(* A process whose vmas a step does not touch keeps its layout.              *)
LEMMA Untouched ==
  ASSUME StructInv, NEW q \in Proc, LayoutOf(q), list'[q] = list[q],
         \A j \in 1..Len(list[q]) : vmas'[list[q][j]] = vmas[list[q][j]],
         pc'[q] = "munmap" => /\ pc[q] = "munmap" /\ args'[q].slot = args[q].slot
                              /\ args'[q].addr = args[q].addr /\ args'[q].length = args[q].length
  PROVE  LayoutOf(q)'
<1>1. \A k \in 1..Len(list'[q]) : Placed(vmas'[list'[q][k]])
  BY DEF LayoutOf
<1>2. \A j, k \in 1..Len(list'[q]) : j < k => vmas'[list'[q][j]].addre <= vmas'[list'[q][k]].addri
  BY DEF LayoutOf
<1>3. pc'[q] = "munmap" => Inside(vmas'[args'[q].slot], args'[q])
  <2> SUFFICES ASSUME pc'[q] = "munmap" PROVE Inside(vmas'[args'[q].slot], args'[q])
    OBVIOUS
  <2>1. PICK k \in 1..Len(list[q]) : list[q][k] = args[q].slot
    BY DEF StructInv, MunmapOnList
  <2>2. vmas'[args'[q].slot] = vmas[args[q].slot]
    BY <2>1
  <2>3. Inside(vmas[args[q].slot], args[q])
    BY DEF LayoutOf
  <2> QED BY <2>2, <2>3 DEF Inside
<1> QED BY <1>1, <1>2, <1>3 DEF LayoutOf, Placed

(* A step that leaves the table and the lists alone and starts no munmap().  *)
LEMMA LayoutFrame ==
  ASSUME StructInv, Layout, UNCHANGED <<vmas, list>>,
         \A q \in Proc : pc'[q] = "munmap" =>
           /\ pc[q] = "munmap" /\ args'[q].slot = args[q].slot
           /\ args'[q].addr = args[q].addr /\ args'[q].length = args[q].length
  PROVE  Layout'
<1>1. ASSUME NEW q \in Proc PROVE LayoutOf(q)'
  BY Untouched DEF Layout
<1> QED BY <1>1 DEF Layout

LEMMA LayoutPanic ==
  ASSUME StructInv, Layout, NEW why, Panic(why)
  PROVE  Layout'
BY LayoutFrame DEF Panic, vmaVars, procVars

(* Types of the addresses that are compared.                                 *)
LEMMA Addresses ==
  ASSUME TypeOK, NEW p \in Proc, NEW k \in 1..Len(list[p])
  PROVE  /\ list[p][k] \in Slot
         /\ vmas[list[p][k]].addri \in Nat /\ vmas[list[p][k]].addre \in Nat
BY ListElements, VmaRecords, AddressAssumption

LEMMA AddSmall ==
  ASSUME NEW x \in Nat, NEW y \in Nat, x + y < WORD
  PROVE  Add(x, y) = x + y
<1>1. WORD \in Nat \ {0}
  BY AddressAssumption, SizesAssumption
<1> QED BY <1>1 DEF Add

LEMMA LayoutMunmapStart ==
  ASSUME StructInv, Layout, NEW p \in Proc, NEW addr \in Nat, NEW length \in Nat,
         NEW call, addr + length < WORD \/ length + TOP_ADDRESS < WORD,
         MunmapStart(p, addr, length, call)
  PROVE  Layout'
<1>1. PICK k \in 1..Len(list[p]) :
        /\ First(k, HoldersOfRange(p, addr, length))
        /\ args' = [args EXCEPT ![p] = [slot |-> list[p][k], addr |-> addr, length |-> length,
                                        i |-> 0, call |-> call, written |-> {}]]
  BY Zenon DEF MunmapStart
<1>2. UNCHANGED <<vmas, list>> /\ pc' = [pc EXCEPT ![p] = "munmap"]
  BY DEF MunmapStart, vmaVars
<1>3. TypeOK
  BY DEF StructInv
<1>4. /\ args'[p].slot = list[p][k] /\ args'[p].addr = addr /\ args'[p].length = length
      /\ \A q \in Proc \ {p} : args'[q] = args[q] /\ pc'[q] = pc[q]
  BY Zenon, <1>1, <1>2, <1>3 DEF TypeOK
<1> DEFINE v == vmas[list[p][k]]
<1>5. v.addri \in Nat /\ v.addre \in Nat /\ v.addre <= TOP_ADDRESS
  BY <1>3, Addresses DEF Layout, LayoutOf, Placed
<1>6. addr >= v.addri /\ addr < v.addre /\ Add(addr, length) <= v.addre
  BY <1>1 DEF First, HoldersOfRange, HoldersOf
<1>7. addr + length < WORD
  BY <1>5, <1>6, AddressAssumption
<1>8. Add(addr, length) = addr + length
  BY <1>7, AddSmall
<1>9. Inside(v, args'[p])
  BY <1>4, <1>5, <1>6, <1>8 DEF Inside
<1>10. LayoutOf(p)'
  BY <1>2, <1>4, <1>9 DEF Layout, LayoutOf
<1>11. ASSUME NEW q \in Proc \ {p} PROVE LayoutOf(q)'
  BY <1>2, <1>4, Untouched DEF Layout
<1> QED BY <1>10, <1>11 DEF Layout

(* mmap(): the new vma starts where its predecessor ends (or the area does)  *)
(* and ends before its successor starts.                                     *)
LEMMA LayoutMmap ==
  ASSUME NoWrap, StructInv, Layout, NEW p \in Proc, NEW length \in Lengths, NEW prot \in Prots,
         NEW flag \in Flags, NEW fd \in Fd, MmapOk(p, length, prot, flag, fd)
  PROVE  Layout'
<1> DEFINE psize == PGROUNDUP(length)
<1>1. PICK k \in 0..Len(list[p]), c \in Slot :
        /\ InsertionPoint(p, k, psize) /\ ~NoRoom(p, k, psize) /\ FindVma(c)
        /\ vmas' = [vmas EXCEPT ![c] =
                     [use |-> TRUE, ofile |-> ofile[p][fd], addrinit |-> StartAfter(p, k),
                      addri |-> StartAfter(p, k), addre |-> Add(StartAfter(p, k), psize),
                      prot |-> prot, flag |-> flag]]
        /\ list' = IF k = 0 /\ nvma[p] # 0
                     THEN list ELSE [list EXCEPT ![p] = LinkAt(@, k + 1, c)]
  BY Zenon DEF MmapOk
<1> DEFINE start == StartAfter(p, k)
           end == Add(start, psize)
<1>2. /\ TypeOK /\ SlotsExclusive /\ list[p] \in Seq(Slot) /\ Len(list[p]) \in Nat
      /\ PGSIZE \in Nat \ {0} /\ WORD \in Nat /\ TOP_ADDRESS \in Nat /\ START_ADDRESS \in Nat
  BY Zenon, ListElements, SizesAssumption, AddressAssumption DEF StructInv, TypeOK
<1>3. \A j \in 1..Len(list[p]) : /\ Placed(vmas[list[p][j]])
                                /\ vmas[list[p][j]].addri \in Nat /\ vmas[list[p][j]].addre \in Nat
  BY Zenon, <1>2, Addresses DEF Layout, LayoutOf
<1>0. \A j \in 1..Len(list[p]) : /\ vmas[list[p][j]].addri <= vmas[list[p][j]].addre
                                /\ vmas[list[p][j]].addre <= TOP_ADDRESS
  BY <1>3 DEF Placed
<1>4. /\ psize \in Nat /\ psize % PGSIZE = 0 /\ psize < length + PGSIZE /\ length \in Nat
      /\ length + TOP_ADDRESS + PGSIZE <= WORD
  <2>1. length \in Nat /\ length + TOP_ADDRESS + PGSIZE <= WORD /\ length + PGSIZE <= WORD
    BY <1>2, ArgumentAssumption DEF NoWrap
  <2> QED BY <2>1, <1>2, RoundUp
<1> HIDE DEF psize
<1>5. /\ start \in Nat /\ start % PGSIZE = 0 /\ START_ADDRESS <= start /\ start <= TOP_ADDRESS
  <2>1. CASE k = 0
    BY <2>1, <1>2, AddressAssumption DEF StartAfter
  <2>2. CASE k # 0
    BY <2>2, <1>2, <1>3 DEF StartAfter, Placed
  <2> QED BY <2>1, <2>2
<1> HIDE DEF start
<1>6. end = start + psize /\ end \in Nat /\ end % PGSIZE = 0 /\ start <= end
  <2>1. start + psize < WORD
    BY <1>2, <1>4, <1>5
  <2>2. end = start + psize
    BY <2>1, <1>2, <1>4, <1>5 DEF Add
  <2> QED BY <2>2, <1>4, <1>5, Multiples
<1>7. k < Len(list[p]) => end <= vmas[list[p][k + 1]].addri
  <2> SUFFICES ASSUME k < Len(list[p]) PROVE end <= vmas[list[p][k + 1]].addri
    OBVIOUS
  <2>1. Fits(p, k, psize)
    BY <1>1, <1>2 DEF InsertionPoint
  <2>2. k # 0 /\ Add(vmas[list[p][k]].addre, psize) <= vmas[list[p][k + 1]].addri
    BY <2>1 DEF Fits
  <2> QED BY <2>2 DEF StartAfter, start
<1>8. end <= TOP_ADDRESS
  <2>1. CASE k = Len(list[p])
    BY <2>1, <1>1, <1>2, <1>6 DEF NoRoom, start
  <2>2. CASE k # Len(list[p])
    <3>1. k + 1 \in 1..Len(list[p])
      BY <2>2, <1>2
    <3> DEFINE u == vmas[list[p][k + 1]]
    <3>2. u.addri \in Nat /\ u.addre \in Nat /\ u.addri <= u.addre /\ u.addre <= TOP_ADDRESS
      BY <3>1, <1>3, <1>0
    <3>3. end <= u.addri
      BY <2>2, <1>2, <1>7
    <3> HIDE DEF u, end
    <3> QED BY <3>2, <3>3, <1>2, <1>6
  <2> QED BY <2>1, <2>2
<1> HIDE DEF end
<1>9. \A j \in 1..Len(list[p]) : j <= k => vmas[list[p][j]].addre <= start
  <2> TAKE j \in 1..Len(list[p])
  <2> HAVE j <= k
  <2>1. k # 0 /\ k \in 1..Len(list[p]) /\ start = vmas[list[p][k]].addre
    BY <1>2 DEF start, StartAfter
  <2>2. CASE j = k
    BY <2>1, <2>2, <1>3
  <2>3. CASE j < k
    <3>1. vmas[list[p][j]].addre <= vmas[list[p][k]].addri
      BY <2>1, <2>3 DEF Layout, LayoutOf
    <3>2. vmas[list[p][j]].addre \in Nat
      BY <1>3
    <3>3. /\ vmas[list[p][k]].addri \in Nat /\ vmas[list[p][k]].addre \in Nat
          /\ vmas[list[p][k]].addri <= vmas[list[p][k]].addre
      BY <2>1, <1>3, <1>0
    <3> QED BY <3>1, <3>2, <3>3, <2>1
  <2> QED BY <2>2, <2>3, <1>2
<1>10. \A j \in 1..Len(list[p]) : j > k => end <= vmas[list[p][j]].addri
  <2> TAKE j \in 1..Len(list[p])
  <2> HAVE j > k
  <2>1. k < Len(list[p]) /\ k + 1 \in 1..Len(list[p])
    BY <1>2
  <2>2. CASE j = k + 1
    BY <2>1, <2>2, <1>7
  <2>3. CASE k + 1 < j
    <3>1. vmas[list[p][k + 1]].addre <= vmas[list[p][j]].addri
      BY <2>1, <2>3 DEF Layout, LayoutOf
    <3>2. end <= vmas[list[p][k + 1]].addri
      BY Zenon, <2>1, <1>7
    <3>3. /\ vmas[list[p][k + 1]].addri \in Nat /\ vmas[list[p][k + 1]].addre \in Nat
          /\ vmas[list[p][k + 1]].addri <= vmas[list[p][k + 1]].addre
      BY <2>1, <1>3, <1>0
    <3>4. vmas[list[p][j]].addri \in Nat
      BY <1>3
    <3> QED BY <3>1, <3>2, <3>3, <3>4, <1>6
  <2> QED BY <2>2, <2>3, <1>2
<1>11. \A q \in Proc : \A j \in 1..Len(list[q]) :
         list[q][j] # c /\ vmas'[list[q][j]] = vmas[list[q][j]]
  <2>1. \A q \in Proc : \A j \in 1..Len(list[q]) : list[q][j] # c /\ list[q][j] \in Slot
    BY <1>1, <1>2, ListElements DEF SlotsExclusive, FindVma
  <2> QED BY Zenon, <2>1, <1>1, <1>2 DEF TypeOK
<1>12. vmas'[c].addri = start /\ vmas'[c].addre = end
  BY <1>1, <1>2 DEF TypeOK, start, end
<1>13. pc' = pc /\ args' = args /\ pc[p] # "munmap"
  BY DEF MmapOk, InUser, procVars
<1>14. ASSUME NEW q \in Proc, list'[q] = list[q] PROVE LayoutOf(q)'
  BY <1>11, <1>13, <1>14, Untouched DEF Layout
<1>15. \A q \in Proc \ {p} : list'[q] = list[q]
  BY <1>1, <1>2 DEF TypeOK
<1>16. LayoutOf(p)'
  <2>1. CASE k = 0 /\ nvma[p] # 0
    BY <2>1, <1>1, <1>14
  <2>2. CASE ~(k = 0 /\ nvma[p] # 0)
    <3> DEFINE i == k + 1
               s == LinkAt(list[p], i, c)
    <3>1. i \in 1..(Len(list[p]) + 1) /\ i = k + 1
      BY <1>2
    <3>2. list'[p] = s
      BY <2>2, <1>1, <1>2 DEF TypeOK
    <3> HIDE DEF i
    <3>3. Inserted(s, list[p], i, c, Slot)
      BY <1>2, <3>1, LinkAtProperties
    <3> HIDE DEF s
    <3>4. Len(s) = Len(list[p]) + 1 /\ s[i] = c
      BY <3>1, <3>3, <1>2 DEF Inserted
    <3>5. ASSUME NEW j \in 1..Len(s), j # i
          PROVE  \E m \in 1..Len(list[p]) : s[j] = list[p][m] /\ m = IF j < i THEN j ELSE j - 1
      BY <3>1, <3>3, <3>4, <3>5, <1>2 DEF Inserted
    <3>6. ASSUME NEW j \in 1..Len(s) PROVE Placed(vmas'[s[j]])
      <4>1. CASE j = i
        BY ZenonT(40), <4>1, <3>4, <1>5, <1>6, <1>8, <1>12 DEF Placed
      <4>2. CASE j # i
        <5>1. PICK m \in 1..Len(list[p]) : s[j] = list[p][m]
          BY Zenon, <4>2, <3>5
        <5> QED BY Zenon, <5>1, <1>3, <1>11
      <4> QED BY <4>1, <4>2
    <3>7. ASSUME NEW j \in 1..Len(s), NEW m \in 1..Len(s), j < m
          PROVE  vmas'[s[j]].addre <= vmas'[s[m]].addri
      <4>1. CASE j = i
        <5>1. PICK b \in 1..Len(list[p]) : s[m] = list[p][b] /\ b = m - 1
          BY <4>1, <3>1, <3>4, <3>5, <3>7, <1>2
        <5>2. b > k
          BY <5>1, <4>1, <3>1, <3>4, <3>7, <1>2
        <5>3. end <= vmas[list[p][b]].addri
          BY Zenon, <5>2, <1>10
        <5> QED BY Zenon, <5>1, <5>3, <4>1, <3>4, <1>11, <1>12
      <4>2. CASE m = i
        <5>1. PICK a \in 1..Len(list[p]) : s[j] = list[p][a] /\ a = j
          BY <4>2, <3>1, <3>4, <3>5, <3>7, <1>2
        <5>2. a <= k
          BY <5>1, <4>2, <3>1, <3>4, <3>7, <1>2
        <5> QED BY <5>1, <5>2, <4>2, <3>4, <1>9, <1>11, <1>12
      <4>3. CASE j # i /\ m # i
        <5>1. PICK a \in 1..Len(list[p]) : s[j] = list[p][a] /\ a = IF j < i THEN j ELSE j - 1
          BY <4>3, <3>5
        <5>2. PICK b \in 1..Len(list[p]) : s[m] = list[p][b] /\ b = IF m < i THEN m ELSE m - 1
          BY <4>3, <3>5
        <5>3. a < b
          <6>1. j \in Int /\ m \in Int /\ i \in Int
            BY <3>1, <3>4, <1>2
          <6> QED BY Zenon, <6>1, <5>1, <5>2, <4>3, <3>7, ShiftOrder
        <5>4. vmas[list[p][a]].addre <= vmas[list[p][b]].addri
          BY <5>3 DEF Layout, LayoutOf
        <5> QED BY ZenonT(40), <5>1, <5>2, <5>4, <1>11
      <4> QED BY <4>1, <4>2, <4>3
    <3> QED BY <3>2, <3>6, <3>7, <1>13 DEF LayoutOf
  <2> QED BY Zenon, <2>1, <2>2
<1> QED BY <1>14, <1>15, <1>16 DEF Layout

(* munmap(): the vma is freed, or loses pages at one end.                    *)
LEMMA LayoutFinish ==
  ASSUME StructInv, Layout, NEW p \in Proc, UnmapFinish(p)
  PROVE  Layout'
<1> DEFINE c == args[p].slot
           v == vmas[c]
           a == args[p]
           n == PGROUNDUP(a.length)
<1>1. /\ TypeOK /\ SlotsExclusive /\ pc[p] = "munmap" /\ MunmapReturn(p)
      /\ PGSIZE \in Nat \ {0} /\ WORD \in Nat /\ TOP_ADDRESS + PGSIZE <= WORD /\ TOP_ADDRESS \in Nat
      /\ START_ADDRESS \in Nat
  BY SizesAssumption, AddressAssumption DEF UnmapFinish, StructInv
<1>2. PICK k \in 1..Len(list[p]) : list[p][k] = c
  BY <1>1 DEF StructInv, MunmapOnList
<1>3. /\ pc'[p] # "munmap" /\ \A q \in Proc \ {p} : pc'[q] = pc[q] /\ args'[q] = args[q]
  BY Zenon, <1>1, ReturnTypes
<1>4. c \in Slot /\ Len(list[p]) \in Nat /\ list[p] \in Seq(Slot)
  BY Zenon, <1>1, <1>2, ListElements DEF TypeOK
<1>5. \A q \in Proc : \A j \in 1..Len(list[q]) :
        /\ list[q][j] \in Slot
        /\ ~(q = p /\ j = k) => list[q][j] # c
  BY <1>1, <1>2, ListElements DEF SlotsExclusive
<1>6. /\ Placed(v) /\ Inside(v, a) /\ v.addri \in Nat /\ v.addre \in Nat
      /\ a.addr \in 0..(WORD - 1) /\ a.addr \in Nat /\ a.length \in Nat
  <2>1. Placed(v) /\ Inside(v, a)
    BY Zenon, <1>1, <1>2 DEF Layout, LayoutOf
  <2>2. v.addri \in Nat /\ v.addre \in Nat
    BY Zenon, <1>1, <1>2, Addresses
  <2>3. a.addr \in 0..(WORD - 1) /\ a.length \in 0..(WORD - 1)
    BY <1>1, LoopTypes
  <2> HIDE DEF v, a
  <2> QED BY <2>1, <2>2, <2>3, <1>1
<1>7. CASE Add(v.addri, n) = v.addre
  <2>1. FreeVma(p)
    BY <1>7 DEF UnmapFinish
  <2>2. PICK m \in 1..Len(list[p]) :
          list[p][m] = c /\ list' = [list EXCEPT ![p] = Unlink(@, m)]
    BY <2>1, Zenon DEF FreeVma
  <2>3. m = k
    BY <2>2, <1>5
  <2>4. vmas' = [vmas EXCEPT ![c] = NoVma]
    BY <2>1 DEF FreeVma, ClearVma
  <2> HIDE DEF c, v, a, n
  <2>5. \A q \in Proc : \A j \in 1..Len(list[q]) :
          ~(q = p /\ j = k) => vmas'[list[q][j]] = vmas[list[q][j]]
    BY <2>4, <1>1, <1>5 DEF TypeOK
  <2> DEFINE s == Unlink(list[p], k)
  <2>6. Removed(s, list[p], k, Slot)
    BY <1>4, UnlinkProperties
  <2>7. list'[p] = s /\ \A q \in Proc \ {p} : list'[q] = list[q]
    BY Zenon, <2>2, <2>3, <1>1 DEF TypeOK
  <2> HIDE DEF s
  <2>8. ASSUME NEW j \in 1..Len(s)
        PROVE  \E i \in 1..Len(list[p]) : /\ s[j] = list[p][i] /\ i = IF j < k THEN j ELSE j + 1
                                          /\ vmas'[s[j]] = vmas[list[p][i]]
    <3>1. \E i \in 1..Len(list[p]) : s[j] = list[p][i] /\ i # k /\ i = IF j < k THEN j ELSE j + 1
      BY <2>6, <2>8, <1>4 DEF Removed
    <3> QED BY <3>1, <2>5
  <2>9. LayoutOf(p)'
    <3>1. \A j \in 1..Len(s) : Placed(vmas'[s[j]])
      BY Zenon, <2>8 DEF Layout, LayoutOf
    <3>2. ASSUME NEW i \in 1..Len(s), NEW j \in 1..Len(s), i < j
          PROVE  vmas'[s[i]].addre <= vmas'[s[j]].addri
      <4>1. PICK x \in 1..Len(list[p]) : vmas'[s[i]] = vmas[list[p][x]] /\ x = IF i < k THEN i ELSE i + 1
        BY Zenon, <2>8
      <4>2. PICK y \in 1..Len(list[p]) : vmas'[s[j]] = vmas[list[p][y]] /\ y = IF j < k THEN j ELSE j + 1
        BY Zenon, <2>8
      <4>3. Len(s) \in Nat
        BY <2>6, <1>4 DEF Removed
      <4>4. x < y
        <5>1. i \in Int /\ j \in Int /\ k \in Int
          BY <4>3, <1>4
        <5> QED BY Zenon, <5>1, <4>1, <4>2, <3>2, ShiftOrder
      <4> QED BY <4>1, <4>2, <4>4, Zenon DEF Layout, LayoutOf
    <3> QED BY <3>1, <3>2, <2>7, <1>3 DEF LayoutOf
  <2>10. ASSUME NEW q \in Proc \ {p} PROVE LayoutOf(q)'
    BY <2>5, <2>7, <1>3, Untouched DEF Layout
  <2> QED BY <2>9, <2>10 DEF Layout
<1>8. CASE Add(v.addri, n) # v.addre
  <2> DEFINE w == IF v.addri = a.addr THEN [v EXCEPT !.addri = Add(@, n)]
                  ELSE [v EXCEPT !.addre = PGROUNDDOWN(a.addr)]
  <2>1. vmas' = [vmas EXCEPT ![c] = w] /\ list' = list
    BY Zenon, <1>8 DEF UnmapFinish
  <2>2. v \in Vma /\ v # NoVma
    <3>1. v \in Vma
      BY Zenon, <1>1, <1>4 DEF TypeOK
    <3>2. v.use
      BY <1>1, <1>2 DEF SlotsExclusive
    <3> QED BY <3>1, <3>2 DEF NoVma
  <2>0. vmas[list[p][k]] = v
    BY <1>2
  <2> HIDE DEF c, v, a
  <2>3. n \in Nat /\ v.addri + n <= v.addre /\ n % PGSIZE = 0
    <3>1. a.length <= v.addre - v.addri /\ v.addre - v.addri \in Nat
      BY SMTT(20), <1>6, <1>1 DEF Inside, Placed
    <3>2. a.length + PGSIZE <= WORD
      <4>1. v.addre <= TOP_ADDRESS /\ v.addri \in Nat /\ v.addre \in Nat
        BY Zenon, <1>6 DEF Placed
      <4> QED BY <3>1, <4>1, <1>1, <1>6
    <3>3. (v.addre - v.addri) % PGSIZE = 0
      BY <1>6, Multiples, Zenon DEF Placed
    <3>4. n \in 0..(WORD - 1) /\ n % PGSIZE = 0 /\ n <= v.addre - v.addri
      BY <3>1, <3>2, <3>3, <1>6, RoundUp
    <3> HIDE DEF n
    <3> QED BY <3>4, <1>1, <1>6
  <2> HIDE DEF n
  <2>4. Placed(w) /\ v.addri <= w.addri /\ w.addre <= v.addre /\ w.addri \in Nat /\ w.addre \in Nat
    <3>1. CASE v.addri = a.addr
      <4>1. Add(v.addri, n) = v.addri + n
        <5>1. v.addre <= TOP_ADDRESS /\ v.addri \in Nat /\ v.addre \in Nat
          BY Zenon, <1>6 DEF Placed
        <5>2. v.addri + n \in 0..(WORD - 1)
          BY <5>1, <2>3, <1>1
        <5> QED BY <5>2, <1>1 DEF Add
      <4>2. w.addri = v.addri + n /\ w.addre = v.addre
        BY <3>1, <4>1, <2>2 DEF Vma
      <4>3. (v.addri + n) % PGSIZE = 0
        BY <2>3, <1>6, Multiples, Zenon DEF Placed
      <4> HIDE DEF w
      <4>4. v.addri + n \in Nat /\ v.addri <= v.addri + n /\ START_ADDRESS <= v.addri + n
        <5>1. START_ADDRESS <= v.addri /\ v.addri \in Nat /\ n \in Nat /\ START_ADDRESS \in Nat
          BY <2>3, <1>1, <1>6 DEF Placed
        <5> QED BY <5>1
      <4> QED BY <4>2, <4>3, <4>4, <2>3, <1>6 DEF Placed
    <3>2. CASE v.addri # a.addr
      <4> DEFINE e == PGROUNDDOWN(a.addr)
      <4>1. e \in 0..(WORD - 1) /\ e <= a.addr /\ a.addr < e + PGSIZE /\ e % PGSIZE = 0
        BY <1>6, RoundDown
      <4>2. w.addri = v.addri /\ w.addre = e
        BY <3>2, <2>2 DEF Vma
      <4> HIDE DEF w, e
      <4>3. e \in Nat /\ v.addri < e + PGSIZE
        BY <4>1, <1>1, <1>6 DEF Inside
      <4>4. v.addri <= e
        BY <4>1, <4>3, <1>6, Multiples, Zenon DEF Placed
      <4>5. /\ START_ADDRESS <= v.addri /\ v.addri \in Nat /\ v.addri % PGSIZE = 0
            /\ v.addre \in Nat /\ v.addre <= TOP_ADDRESS /\ e <= v.addre
        <5>1. a.addr < v.addre /\ v.addre <= TOP_ADDRESS /\ a.addr \in Int /\ v.addre \in Int
          BY <1>1, <1>6 DEF Placed, Inside
        <5>2. e <= v.addre
          BY <5>1, <4>1, <4>3
        <5> QED BY <5>2, <1>1, <1>6 DEF Placed
      <4>6. e <= TOP_ADDRESS
        BY <4>3, <4>5, <1>1, AddressAssumption
      <4> QED BY <4>1, <4>2, <4>3, <4>4, <4>5, <4>6 DEF Placed
    <3> QED BY <3>1, <3>2
  <2> HIDE DEF w
  <2>5. /\ vmas'[list[p][k]] = w
        /\ \A q \in Proc : \A j \in 1..Len(list[q]) :
             ~(q = p /\ j = k) => vmas'[list[q][j]] = vmas[list[q][j]]
    BY Zenon, <2>1, <1>1, <1>2, <1>4, <1>5 DEF TypeOK
  <2>6. LayoutOf(p)'
    <3>1. \A j \in 1..Len(list[p]) : Placed(vmas'[list[p][j]])
      BY <2>4, <2>5 DEF Layout, LayoutOf
    <3>2. ASSUME NEW i \in 1..Len(list[p]), NEW j \in 1..Len(list[p]), i < j
          PROVE  vmas'[list[p][i]].addre <= vmas'[list[p][j]].addri
      <4>1. /\ vmas[list[p][i]].addre <= vmas[list[p][j]].addri
            /\ vmas[list[p][i]].addre \in Nat /\ vmas[list[p][j]].addri \in Nat
        BY ZenonT(40), <3>2, <1>1, Addresses DEF Layout, LayoutOf
      <4>2. CASE i = k
        <5>1. vmas'[list[p][i]] = w /\ vmas'[list[p][j]] = vmas[list[p][j]]
          <6>1. j # k
            BY <4>2, <3>2
          <6> QED BY Zenon, <6>1, <4>2, <2>5
        <5>2. v.addre <= vmas[list[p][j]].addri
          BY Zenon, <4>1, <4>2, <2>0
        <5>3. v.addri \in Nat /\ v.addre \in Nat
          BY Zenon, <1>6
        <5> QED BY Zenon, <5>1, <5>2, <5>3, <4>1, <2>4, AtMostThrough
      <4>3. CASE j = k
        <5>1. vmas'[list[p][j]] = w /\ vmas'[list[p][i]] = vmas[list[p][i]]
          <6>1. i # k
            BY <4>3, <3>2
          <6> QED BY Zenon, <6>1, <4>3, <2>5
        <5>2. vmas[list[p][i]].addre <= v.addri
          BY Zenon, <4>1, <4>3, <2>0
        <5>3. v.addri \in Nat /\ v.addre \in Nat
          BY Zenon, <1>6
        <5> QED BY Zenon, <5>1, <5>2, <5>3, <4>1, <2>4, AtMostThrough
      <4>4. CASE i # k /\ j # k
        BY Zenon, <4>1, <4>4, <2>5
      <4> QED BY Zenon, <4>2, <4>3, <4>4
    <3> QED BY ZenonT(40), <3>1, <3>2, <2>1, <1>3 DEF LayoutOf
  <2>7. ASSUME NEW q \in Proc \ {p} PROVE LayoutOf(q)'
    BY <2>1, <2>5, <1>3, Untouched DEF Layout
  <2> QED BY <2>6, <2>7 DEF Layout
<1> QED BY <1>7, <1>8

(* fork(): the child's vmas are copies of the parent's, in the same order.   *)
LEMMA LayoutFork ==
  ASSUME StructInv, Layout, NEW p \in Proc, NEW np \in Proc, Copies(p) <= Len(list[p]),
         state[np] = "UNUSED", ForkInto(p, np)
  PROVE  Layout'
<1>1. TypeOK /\ SlotsExclusive /\ Copies(p) \in Nat /\ Len(list[p]) \in Nat
  BY ForkCounts, ListElements DEF StructInv
<1> DEFINE N == 1..Copies(p)
<1>2. PICK sel \in [N -> FreeSlots] :
        /\ FirstFree(sel)
        /\ list' = [list EXCEPT ![np] = sel]
        /\ vmas' = [c \in Slot |-> IF \E i \in DOMAIN sel : sel[i] = c
                                  THEN vmas[list[p][CHOOSE i \in DOMAIN sel : sel[i] = c]]
                                  ELSE vmas[c]]
  BY Zenon DEF ForkInto, CopyVmas
<1>3. DOMAIN sel = N /\ \A i \in N : sel[i] \in Slot /\ ~vmas[sel[i]].use
  BY <1>2 DEF FreeSlots
<1>4. \A i, j \in N : sel[i] = sel[j] => i = j
  <2>1. \A i, j \in N : i < j => sel[i] < sel[j]
    BY <1>2, <1>3 DEF FirstFree
  <2>2. \A i, j \in N : i < j \/ i = j \/ j < i
    BY <1>1
  <2>3. \A i \in N : sel[i] \in Int
    BY <1>3, SizesAssumption DEF Slot
  <2> HIDE DEF N
  <2> QED BY <2>1, <2>2, <2>3
<1>5. Len(sel) = Copies(p)
  <2>1. sel \in [1..Copies(p) -> Slot]
    BY <1>2 DEF FreeSlots
  <2> QED BY <2>1, <1>1
<1>6. \A i \in N : i \in 1..Len(list[p])
  BY <1>1
<1> HIDE DEF N
<1>7. ASSUME NEW i \in N
      PROVE  vmas'[sel[i]] = vmas[list[p][i]]
  <2>1. (CHOOSE j \in N : sel[j] = sel[i]) = i
    BY <1>4
  <2> QED BY <2>1, <1>2, <1>3
<1>8. pc' = pc /\ args' = args /\ pc[np] # "munmap"
  BY DEF ForkInto, StructInv, MunmapOnList
<1>9. list'[np] = sel /\ \A q \in Proc \ {np} : list'[q] = list[q]
  BY ZenonT(40), <1>1, <1>2 DEF TypeOK
<1>10. LayoutOf(np)'
  <2>1. \A i \in N : Placed(vmas'[sel[i]])
    BY <1>6, <1>7 DEF Layout, LayoutOf
  <2>2. \A i, j \in N : i < j => vmas'[sel[i]].addre <= vmas'[sel[j]].addri
    BY <1>6, <1>7 DEF Layout, LayoutOf
  <2> QED BY Zenon, <2>1, <2>2, <1>5, <1>8, <1>9 DEF LayoutOf, N
<1>11. ASSUME NEW q \in Proc \ {np} PROVE LayoutOf(q)'
  <2>1. \A j \in 1..Len(list[q]) : vmas'[list[q][j]] = vmas[list[q][j]]
    <3> TAKE j \in 1..Len(list[q])
    <3>1. list[q][j] \in Slot /\ vmas[list[q][j]].use
      BY <1>1, ListElements DEF SlotsExclusive
    <3> QED BY <3>1, <1>2, <1>3
  <2> QED BY ZenonT(40), <2>1, <1>8, <1>9, Untouched DEF Layout
<1> QED BY Zenon, <1>10, <1>11 DEF Layout

LEMMA LayoutNext ==
  ASSUME NoWrap, StructInv, Layout, Next
  PROVE  Layout'
<1>1. PICK p \in Proc : UserStep(p) \/ KernelStep(p) \/ FreeProc(p)
  BY DEF Next
<1>2. TypeOK
  BY DEF StructInv
<1>3. CASE \/ \E fd \in Fd, f \in File, ip \in Inode, mode \in Modes : SysOpen(p, fd, f, ip, mode)
           \/ \E fd \in Fd : SysClose(p, fd)
           \/ \E length \in Lengths, flag \in Flags, fd \in Fd : MmapNoRoom(p, length, flag, fd)
           \/ \E a \in TouchAddrs : Store(p, a)
           \/ \E a \in TouchAddrs, store \in BOOLEAN : FaultMap(p, a, store)
           \/ ExitClose(p)
  <2>1. UNCHANGED <<vmas, list, pc, args>>
    BY <1>3, Zenon DEF SysOpen, SysClose, MmapNoRoom, Store, FaultMap, ExitClose, vmaVars, procVars
  <2> QED BY <2>1, LayoutFrame
<1>4. CASE \/ \E length \in Lengths, flag \in Flags, fd \in Fd : MmapClosedFd(p, length, flag, fd)
           \/ \E addr \in Addrs, length \in Lengths : SysMunmapOffTheEnd(p, addr, length)
           \/ \E a \in TouchAddrs, store \in BOOLEAN :
                FaultRemap(p, a, store) \/ FaultOffTheEnd(p, a, store)
           \/ \E np \in Proc : ForkOffTheEnd(p, np)
           \/ AcquireHeld(p) \/ UnmapNoTable(p) \/ UnmapOutsideTransaction(p) \/ UnmapSleeps(p)
           \/ ExitOffTheEnd(p)
  <2>1. \E why : Panic(why)
    BY <1>4, Zenon DEF MmapClosedFd, SysMunmapOffTheEnd, FaultRemap, FaultOffTheEnd, ForkOffTheEnd,
       AcquireHeld, UnmapNoTable, UnmapOutsideTransaction, UnmapSleeps, ExitOffTheEnd
  <2> QED BY <2>1, LayoutPanic
<1>5. CASE \E length \in Lengths, prot \in Prots, flag \in Flags, fd \in Fd :
             MmapOk(p, length, prot, flag, fd)
  BY <1>5, LayoutMmap
<1>6. CASE \E addr \in Addrs, length \in Lengths : SysMunmap(p, addr, length)
  <2>1. PICK addr \in Addrs, length \in Lengths : SysMunmap(p, addr, length)
    BY <1>6
  <2>2. addr \in Nat /\ length \in Nat /\ length + TOP_ADDRESS < WORD
    BY ArgumentAssumption, AddressAssumption, SizesAssumption DEF NoWrap
  <2> QED BY <2>1, <2>2, LayoutMunmapStart DEF SysMunmap
<1>7. CASE (\E a \in TouchAddrs, store \in BOOLEAN : FaultExit(p, a, store)) \/ SysExit(p)
  <2>1. Exit(p)
    BY <1>7 DEF FaultExit, SysExit
  <2>2. CASE p = 1
    BY <2>1, <2>2, LayoutPanic, Zenon DEF Exit
  <2>3. CASE p # 1
    <3>1. pc' = [pc EXCEPT ![p] = "exit"] /\ UNCHANGED <<vmas, list, args>>
      BY <2>1, <2>3 DEF Exit, vmaVars
    <3>2. \A q \in Proc : pc'[q] = "munmap" => pc[q] = "munmap"
      BY <3>1, <1>2 DEF TypeOK
    <3> QED BY <3>1, <3>2, LayoutFrame
  <2> QED BY <2>2, <2>3
<1>8. CASE \E np \in Proc : ForkOk(p, np) \/ ForkOutOfSlots(p, np)
  <2>1. PICK np \in Proc : ForkOk(p, np) \/ ForkOutOfSlots(p, np)
    BY <1>8
  <2>2. ForkInto(p, np) /\ state[np] = "UNUSED" /\ Copies(p) <= Len(list[p])
    BY <2>1, <1>2, ForkCounts DEF ForkOk, ForkOutOfSlots, AllocProc
  <2> QED BY <2>2, LayoutFork
<1>9. CASE SysExec(p) \/ FreeProc(p)
  <2>1. UNCHANGED <<vmas, list, pc, args>>
    BY <1>9, Zenon DEF SysExec, FreeProc, Panic, vmaVars, procVars
  <2> QED BY <2>1, LayoutFrame
<1>10. CASE UnmapAbsent(p) \/ UnmapClean(p) \/ UnmapWrite(p)
  <2>1. UNCHANGED <<vmas, list, pc>>
    BY <1>10 DEF UnmapAbsent, UnmapClean, UnmapWrite, vmaVars
  <2>2. args \in [Proc -> Args]
    BY <1>2 DEF TypeOK
  <2>3. \A q \in Proc : /\ args'[q].slot = args[q].slot /\ args'[q].addr = args[q].addr
                        /\ args'[q].length = args[q].length
    <3>1. CASE UnmapAbsent(p) \/ UnmapClean(p)
      <4>1. PICK n : args' = [args EXCEPT ![p].i = n]
        BY <3>1, Zenon DEF UnmapAbsent, UnmapClean
      <4> QED BY <4>1, <2>2 DEF Args
    <3>2. CASE UnmapWrite(p)
      <4>1. PICK n, W : args' = [args EXCEPT ![p].i = n, ![p].written = W]
        BY <3>2, Zenon DEF UnmapWrite
      <4> QED BY <4>1, <2>2 DEF Args
    <3> QED BY <3>1, <3>2, <1>10, Zenon
  <2> QED BY <2>1, <2>3, LayoutFrame
<1>11. CASE UnmapWriteFails(p)
  <2>1. UNCHANGED <<vmas, list>> /\ MunmapReturn(p)
    BY <1>11 DEF UnmapWriteFails, vmaVars
  <2>2. pc'[p] # "munmap" /\ \A q \in Proc \ {p} : pc'[q] = pc[q] /\ args'[q] = args[q]
    BY <2>1, <1>2, ReturnTypes
  <2> QED BY <2>1, <2>2, LayoutFrame
<1>12. CASE UnmapFinish(p)
  BY <1>12, LayoutFinish
<1>13. CASE ExitMunmap(p)
  <2> DEFINE v == vmas[list[p][1]]
  <2>1. list[p] # <<>> /\ MunmapStart(p, v.addri, ExitLength(v), "exit")
    BY <1>13 DEF ExitMunmap
  <2>2. 1 \in 1..Len(list[p])
    BY <2>1, <1>2 DEF TypeOK
  <2>3. Placed(v) /\ v.addri \in Nat /\ v.addre \in Nat
    BY Zenon, <2>2, <1>2, Addresses DEF Layout, LayoutOf
  <2> HIDE DEF v
  <2>4. v.addre - v.addri \in 0..(WORD - 1) /\ WORD \in Nat /\ v.addre < WORD
    BY <2>3, AddressAssumption, SizesAssumption DEF Placed
  <2>5. ExitLength(v) = v.addre - v.addri
    BY <2>4 DEF ExitLength, Sub
  <2> QED BY <2>1, <2>3, <2>4, <2>5, LayoutMunmapStart
<1>14. CASE ExitZombie(p)
  <2>1. UNCHANGED <<vmas, list, args>> /\ pc' = [pc EXCEPT ![p] = "user"]
    BY <1>14 DEF ExitZombie, vmaVars
  <2>2. \A q \in Proc : pc'[q] = "munmap" => pc[q] = "munmap"
    BY <2>1, <1>2 DEF TypeOK
  <2> QED BY <2>1, <2>2, LayoutFrame
<1> QED BY ZenonT(40), <1>1, <1>3, <1>4, <1>5, <1>6, <1>7, <1>8, <1>9, <1>10, <1>11, <1>12, <1>13, <1>14
        DEF UserStep, KernelStep, MunmapStep, ExitStep

(* mmap() and munmap() keep the vmas of every process sorted, disjoint and   *)
(* inside the area, however calls of all processes interleave.               *)
THEOREM DisjointVmas == ASSUME NoWrap PROVE Spec => []VmasDisjoint
<1>1. Init => Layout
  <2> SUFFICES ASSUME Init, NEW p \in Proc PROVE LayoutOf(p)
    BY DEF Layout
  <2>1. Len(list[p]) = 0 /\ pc[p] = "user"
    BY DEF Init
  <2> QED BY <2>1 DEF LayoutOf
<1>2. StructInv /\ Layout /\ [Next]_vars => Layout'
  <2> SUFFICES ASSUME StructInv, Layout, [Next]_vars PROVE Layout'
    OBVIOUS
  <2>1. CASE UNCHANGED vars
    BY ZenonT(40), <2>1, LayoutFrame DEF vars, vmaVars, procVars
  <2> QED BY <2>1, LayoutNext
<1>3. Layout => VmasDisjoint
  BY Zenon DEF Layout, LayoutOf, Placed, VmasDisjoint
<1> QED BY <1>1, <1>2, <1>3, Structure, PTL DEF Spec
=============================================================================
