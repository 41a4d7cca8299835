----------------------------- MODULE VmaProofs -----------------------------
(***************************************************************************)
(* Proofs about Vma, for every number of processes, slots, pages, files    *)
(* and arguments: facts about its operators, its structural invariant      *)
(* StructInv, the proof that every step preserves it, and the theorems     *)
(* that follow from it.                                                    *)
(***************************************************************************)
EXTENDS Vma, FiniteSetTheorems, TLAPS

-----------------------------------------------------------------------------
(* Arithmetic of addresses.                                                 *)

(* uint64 sums and differences are in range.                                *)
LEMMA WordArithmetic ==
  ASSUME NEW a \in Int, NEW b \in Int
  PROVE  Add(a, b) \in 0..(WORD - 1) /\ Sub(a, b) \in 0..(WORD - 1)
<1>1. WORD \in Nat \ {0}
  BY AddressAssumption, SizesAssumption
<1>2. \A x \in Int : x % WORD \in 0..(WORD - 1)
  BY <1>1
<1> QED BY <1>2 DEF Add, Sub

LEMMA WordSize == WORD \in Nat \ {0} /\ PGSIZE \in Nat \ {0}
<1>1. PGSIZE \in Nat \ {0} /\ WORD \in Nat /\ TOP_ADDRESS \in Nat /\ TOP_ADDRESS + PGSIZE <= WORD
  BY Zenon, SizesAssumption, AddressAssumption
<1> QED BY <1>1

(* Rounding down stays in range.                                            *)
LEMMA RoundDown ==
  ASSUME NEW a \in 0..(WORD - 1)
  PROVE  /\ PGROUNDDOWN(a) \in 0..(WORD - 1)
         /\ PGROUNDDOWN(a) <= a
         /\ a < PGROUNDDOWN(a) + PGSIZE
         /\ PGROUNDDOWN(a) % PGSIZE = 0
<1>1. PGSIZE \in Nat \ {0} /\ WORD \in Nat
  BY SizesAssumption, AddressAssumption
<1>2. a % PGSIZE \in 0..(PGSIZE - 1) /\ a = PGSIZE * (a \div PGSIZE) + (a % PGSIZE)
  BY <1>1
<1>3. a \div PGSIZE \in Nat /\ a % PGSIZE <= a
  BY <1>1, <1>2
<1>4. PGROUNDDOWN(a) = PGSIZE * (a \div PGSIZE)
  BY <1>1, <1>2, <1>3 DEF PGROUNDDOWN
<1>5. \A q \in Nat : (PGSIZE * q) % PGSIZE = 0
  BY <1>1
<1>6. PGROUNDDOWN(a) % PGSIZE = 0
  BY Zenon, <1>3, <1>4, <1>5
<1> DEFINE r == a % PGSIZE
           d == PGSIZE * (a \div PGSIZE)
<1>7. d \in Nat /\ r \in 0..(PGSIZE - 1) /\ a = d + r
  BY <1>1, <1>2, <1>3
<1> HIDE DEF r, d
<1>8. d \in 0..(WORD - 1) /\ d <= a /\ a < d + PGSIZE
  BY <1>1, <1>7
<1> QED BY Zenon, <1>4, <1>6, <1>8 DEF d

(* Two multiples of PGSIZE less than a page apart are the same; sums and     *)
(* differences of multiples are multiples.                                   *)
LEMMA Multiples ==
  ASSUME NEW a \in Nat, NEW b \in Nat, a % PGSIZE = 0, b % PGSIZE = 0
  PROVE  /\ (a + b) % PGSIZE = 0
         /\ a < b + PGSIZE => a <= b
         /\ a <= b => (b - a) % PGSIZE = 0
<1>1. PGSIZE \in Nat \ {0}
  BY SizesAssumption
<1> DEFINE q == a \div PGSIZE
           r == b \div PGSIZE
<1>2. q \in Nat /\ a = PGSIZE * q
  BY <1>1
<1>3. r \in Nat /\ b = PGSIZE * r
  BY <1>1
<1> HIDE DEF q, r
<1>4. \A x \in Int : (PGSIZE * x) % PGSIZE = 0
  BY <1>1
<1>5. (a + b) % PGSIZE = 0
  <2>1. a + b = PGSIZE * (q + r)
    BY <1>1, <1>2, <1>3
  <2> QED BY <2>1, <1>4, <1>2, <1>3
<1>6. a < b + PGSIZE => a <= b
  <2> SUFFICES ASSUME a < b + PGSIZE PROVE a <= b
    OBVIOUS
  <2>1. PGSIZE * q < PGSIZE * (r + 1)
    BY <1>1, <1>2, <1>3
  <2>2. q < r + 1
    BY <2>1, <1>1, <1>2, <1>3
  <2>3. PGSIZE * q <= PGSIZE * r
    BY <2>2, <1>1, <1>2, <1>3
  <2> QED BY <2>3, <1>2, <1>3
<1>7. a <= b => (b - a) % PGSIZE = 0
  <2>1. b - a = PGSIZE * (r - q)
    BY <1>1, <1>2, <1>3
  <2> QED BY <2>1, <1>4, <1>2, <1>3
<1> QED BY <1>5, <1>6, <1>7

(* PGROUNDUP() is the least multiple of PGSIZE that is not smaller, unless   *)
(* it wraps.                                                                 *)
LEMMA RoundUp ==
  ASSUME NEW n \in Nat, n + PGSIZE <= WORD
  PROVE  /\ PGROUNDUP(n) \in 0..(WORD - 1)
         /\ n <= PGROUNDUP(n) /\ PGROUNDUP(n) < n + PGSIZE
         /\ PGROUNDUP(n) % PGSIZE = 0
         /\ \A d \in Nat : d % PGSIZE = 0 /\ n <= d => PGROUNDUP(n) <= d
<1>1. PGSIZE \in Nat \ {0} /\ WORD \in Nat \ {0}
  BY SizesAssumption, AddressAssumption
<1>2. \A x \in 0..(WORD - 1) : x % WORD = x
  BY <1>1
<1>3. n + (PGSIZE - 1) \in 0..(WORD - 1)
  BY <1>1
<1>4. PGROUNDUP(n) = PGROUNDDOWN(n + (PGSIZE - 1))
  BY <1>2, <1>3 DEF PGROUNDUP, Add
<1> DEFINE m == PGROUNDDOWN(n + (PGSIZE - 1))
<1>5. /\ m \in 0..(WORD - 1) /\ m % PGSIZE = 0
      /\ m <= n + (PGSIZE - 1) /\ n + (PGSIZE - 1) < m + PGSIZE
  BY <1>3, RoundDown
<1> HIDE DEF m
<1>6. ASSUME NEW d \in Nat, d % PGSIZE = 0, n <= d
      PROVE  m <= d
  <2>1. m \in Nat /\ m < d + PGSIZE
    BY <1>1, <1>5, <1>6
  <2> QED BY <2>1, <1>5, <1>6, Multiples
<1> QED BY <1>1, <1>4, <1>5, <1>6 DEF m
-----------------------------------------------------------------------------
(* Linked lists as sequences: linking an element in and out.                 *)

(* t, over S, is s with e linked in at position k, or without position k.    *)
Inserted(t, s, k, e, S) ==
  /\ t \in Seq(S) /\ Len(t) = Len(s) + 1
  /\ \A j \in 1..(Len(s) + 1) : t[j] = IF j < k THEN s[j] ELSE IF j = k THEN e ELSE s[j - 1]

Removed(t, s, k, S) ==
  /\ t \in Seq(S) /\ Len(t) = Len(s) - 1
  /\ \A j \in 1..(Len(s) - 1) : t[j] = IF j < k THEN s[j] ELSE s[j + 1]

LEMMA Concatenation ==
  ASSUME NEW S, NEW a \in Seq(S), NEW b \in Seq(S)
  PROVE  /\ a \o b \in Seq(S) /\ Len(a \o b) = Len(a) + Len(b)
         /\ \A i \in 1..(Len(a) + Len(b)) : (a \o b)[i] = IF i <= Len(a) THEN a[i] ELSE b[i - Len(a)]
<1>1. a \o b \in Seq(S)
  OBVIOUS
<1>2. Len(a \o b) = Len(a) + Len(b)
  OBVIOUS
<1>3. \A i \in 1..(Len(a) + Len(b)) : (a \o b)[i] = IF i <= Len(a) THEN a[i] ELSE b[i - Len(a)]
  OBVIOUS
<1> QED BY <1>1, <1>2, <1>3

LEMMA LinkAtProperties ==
  ASSUME NEW S, NEW s \in Seq(S), NEW k \in 1..(Len(s) + 1), NEW e \in S
  PROVE  Inserted(LinkAt(s, k, e), s, k, e, S)
<1> DEFINE a == SubSeq(s, 1, k - 1)
           b == SubSeq(s, k, Len(s))
           c == a \o <<e>>
<1>1. Len(s) \in Nat /\ \A i \in 1..Len(s) : s[i] \in S
  OBVIOUS
<1>2. a \in Seq(S) /\ Len(a) = k - 1 /\ \A i \in 1..(k - 1) : a[i] = s[i]
  BY <1>1
<1>3. b \in Seq(S) /\ Len(b) = Len(s) - k + 1 /\ \A i \in 1..(Len(s) - k + 1) : b[i] = s[k + i - 1]
  BY <1>1
<1>4. <<e>> \in Seq(S) /\ Len(<<e>>) = 1 /\ <<e>>[1] = e
  OBVIOUS
<1>5. c \in Seq(S) /\ Len(c) = k /\ \A i \in 1..k : c[i] = IF i < k THEN s[i] ELSE e
  BY <1>2, <1>4
<1> HIDE DEF a, b, c
<1>6. /\ c \o b \in Seq(S) /\ Len(c \o b) = Len(c) + Len(b)
      /\ \A i \in 1..(Len(c) + Len(b)) : (c \o b)[i] = IF i <= Len(c) THEN c[i] ELSE b[i - Len(c)]
  BY <1>5, <1>3, Concatenation, Zenon
<1>7. LinkAt(s, k, e) = c \o b
  BY DEF LinkAt, a, b, c
<1> QED BY <1>1, <1>3, <1>5, <1>6, <1>7 DEF Inserted

LEMMA UnlinkProperties ==
  ASSUME NEW S, NEW s \in Seq(S), NEW k \in 1..Len(s)
  PROVE  Removed(Unlink(s, k), s, k, S)
<1> DEFINE a == SubSeq(s, 1, k - 1)
           b == SubSeq(s, k + 1, Len(s))
<1>1. Len(s) \in Nat /\ \A i \in 1..Len(s) : s[i] \in S
  OBVIOUS
<1>2. a \in Seq(S) /\ Len(a) = k - 1 /\ \A i \in 1..(k - 1) : a[i] = s[i]
  BY <1>1
<1>3. b \in Seq(S) /\ Len(b) = Len(s) - k /\ \A i \in 1..(Len(s) - k) : b[i] = s[k + i]
  BY <1>1
<1> HIDE DEF a, b
<1>4. /\ a \o b \in Seq(S) /\ Len(a \o b) = Len(a) + Len(b)
      /\ \A i \in 1..(Len(a) + Len(b)) : (a \o b)[i] = IF i <= Len(a) THEN a[i] ELSE b[i - Len(a)]
  BY <1>2, <1>3, Concatenation, Zenon
<1>5. Unlink(s, k) = a \o b
  BY DEF Unlink, a, b
<1>6. ASSUME NEW j \in 1..(Len(s) - 1), j < k
      PROVE  (a \o b)[j] = s[j]
  BY <1>6, <1>1, <1>2, <1>3, <1>4
<1>7. ASSUME NEW j \in 1..(Len(s) - 1), ~(j < k)
      PROVE  (a \o b)[j] = s[j + 1]
  <2> DEFINE i == j - (k - 1)
  <2>1. i \in 1..(Len(s) - k) /\ k + i = j + 1 /\ i = j - Len(a)
    BY <1>7, <1>1, <1>2
  <2>2. (a \o b)[j] = b[i]
    <3>1. j \in 1..(Len(a) + Len(b)) /\ ~(j <= Len(a))
      BY <1>1, <1>2, <1>3, <1>7
    <3>2. (a \o b)[j] = b[j - Len(a)]
      BY Zenon, <1>4, <3>1
    <3> QED BY <2>1, <3>2
  <2> HIDE DEF i
  <2>3. b[i] = s[k + i] /\ k + i = j + 1
    BY Zenon, <2>1, <1>3
  <2>4. b[i] = s[j + 1]
    BY <2>3, Zenon
  <2> QED BY <2>2, <2>4
<1>8. \A j \in 1..(Len(s) - 1) : (a \o b)[j] = IF j < k THEN s[j] ELSE s[j + 1]
  BY <1>6, <1>7, Zenon
<1>9. a \o b \in Seq(S) /\ Len(a \o b) = Len(s) - 1
  BY <1>1, <1>2, <1>3, <1>4
<1> QED BY <1>5, <1>8, <1>9, Zenon DEF Removed

(* Where the elements of such a sequence come from.                          *)
LEMMA InsertedFrom ==
  ASSUME NEW S, NEW s \in Seq(S), NEW k \in 1..(Len(s) + 1), NEW e, NEW t, Inserted(t, s, k, e, S)
  PROVE  /\ Len(t) = Len(s) + 1 /\ t[k] = e
         /\ \A j \in 1..Len(t) : j # k => \E i \in 1..Len(s) : t[j] = s[i] /\ i = IF j < k THEN j ELSE j - 1
<1>1. Len(s) \in Nat
  OBVIOUS
<1>2. Len(t) = Len(s) + 1 /\ \A j \in 1..Len(t) : t[j] = IF j < k THEN s[j] ELSE IF j = k THEN e ELSE s[j - 1]
  BY DEF Inserted
<1> QED BY <1>1, <1>2

LEMMA RemovedFrom ==
  ASSUME NEW S, NEW s \in Seq(S), NEW k \in 1..Len(s), NEW t, Removed(t, s, k, S)
  PROVE  /\ Len(t) = Len(s) - 1
         /\ \A j \in 1..Len(t) : \E i \in 1..Len(s) : t[j] = s[i] /\ i = IF j < k THEN j ELSE j + 1
<1>1. Len(s) \in Nat
  OBVIOUS
<1>2. Len(t) = Len(s) - 1 /\ \A j \in 1..Len(t) : t[j] = IF j < k THEN s[j] ELSE s[j + 1]
  BY DEF Removed
<1> QED BY <1>1, <1>2

LEMMA ShiftsApart ==
  ASSUME NEW i \in Int, NEW j \in Int, NEW k \in Int
  PROVE  /\ (IF i < k THEN i ELSE i + 1) = (IF j < k THEN j ELSE j + 1) => i = j
         /\ i # k /\ j # k /\ (IF i < k THEN i ELSE i - 1) = (IF j < k THEN j ELSE j - 1) => i = j
OBVIOUS
-----------------------------------------------------------------------------
(* While p is in munmap(), it is alive and the vma munmap() works on is on   *)
(* p's list: nobody else takes it off.                                       *)
MunmapOnList ==
  \A p \in Proc : pc[p] = "munmap" =>
    state[p] = "ALIVE" /\ \E k \in 1..Len(list[p]) : list[p][k] = args[p].slot

StructInv == TypeOK /\ SlotsExclusive /\ ListWithinCount /\ MunmapOnList

(* What Copies(p) may be, and that counting references yields numbers.       *)
LEMMA ForkCounts ==
  ASSUME TypeOK, NEW p \in Proc
  PROVE  Copies(p) \in Nat /\ Copies(p) <= nvma[p]
<1>1. IsFiniteSet(Slot) /\ FreeSlots \subseteq Slot
  BY SizesAssumption, FS_Interval DEF Slot, FreeSlots
<1>2. Cardinality(FreeSlots) \in Nat
  BY <1>1, FS_Subset, FS_CardinalityType
<1> QED BY <1>2, SizesAssumption DEF Copies, TypeOK

(* Steps that leave the table, the lists, the counts and the program         *)
(* counters alone only have to keep the types of what they change.           *)
LEMMA FrameStep ==
  ASSUME StructInv, UNCHANGED <<vmaVars, procVars>>, TypeOK'
  PROVE  StructInv'
<1>1. SlotsExclusive' /\ ListWithinCount'
  BY DEF StructInv, SlotsExclusive, ListWithinCount, vmaVars
<1>2. MunmapOnList'
  BY DEF StructInv, MunmapOnList, vmaVars, procVars
<1> QED BY <1>1, <1>2 DEF StructInv

LEMMA SameStep ==
  ASSUME StructInv, UNCHANGED <<vmaVars, pageVars, fileVars, isize, procVars>>
  PROVE  StructInv'
<1>1. TypeOK
  BY DEF StructInv
<1>2. TypeOK'
  BY <1>1 DEF TypeOK, vmaVars, pageVars, fileVars, procVars
<1> QED BY <1>2, FrameStep

(* The invariant does not depend on panicked: halting preserves it.          *)
LEMMA PanicStep ==
  ASSUME StructInv, NEW why, Panic(why)
  PROVE  StructInv'
BY SameStep DEF Panic

LEMMA OpenStep ==
  ASSUME StructInv, NEW p \in Proc, NEW fd \in Fd, NEW f \in File, NEW ip \in Inode,
         NEW mode \in Modes, SysOpen(p, fd, f, ip, mode)
  PROVE  StructInv'
<1>1. mode[1] \in BOOLEAN /\ mode[2] \in BOOLEAN
  BY ArgumentAssumption
<1>2. TypeOK'
  BY <1>1 DEF StructInv, TypeOK, SysOpen, FileSlot, vmaVars, pageVars, procVars
<1> QED BY <1>2, FrameStep DEF SysOpen

LEMMA CloseStep ==
  ASSUME StructInv, NEW p \in Proc, NEW fd \in Fd, ofile' = [ofile EXCEPT ![p][fd] = NULL],
         UNCHANGED <<vmaVars, pageVars, file, isize, procVars, panicked>>
  PROVE  StructInv'
<1>1. TypeOK'
  BY DEF StructInv, TypeOK, vmaVars, pageVars, procVars
<1> QED BY <1>1, FrameStep

(* The fields of a table entry.                                              *)
LEMMA VmaRecords ==
  ASSUME TypeOK, NEW c \in Slot
  PROVE  /\ vmas[c].addri \in 0..(WORD - 1) /\ vmas[c].addre \in 0..(WORD - 1)
         /\ vmas[c].addrinit \in 0..(WORD - 1)
         /\ vmas[c].use => vmas[c].ofile \in File /\ vmas[c].prot \in AllProts
<1>1. vmas[c] \in Vma /\ WORD \in Nat \ {0}
  BY AddressAssumption, SizesAssumption DEF TypeOK
<1>2. CASE vmas[c] = NoVma
  BY <1>1, <1>2 DEF NoVma
<1>3. CASE vmas[c] # NoVma
  BY <1>1, <1>3, Zenon DEF Vma
<1> QED BY <1>2, <1>3

LEMMA ListElements ==
  ASSUME TypeOK, NEW p \in Proc
  PROVE  /\ Len(list[p]) \in Nat /\ \A k \in 1..Len(list[p]) : list[p][k] \in Slot
         /\ nvma[p] \in Nat
BY SizesAssumption DEF TypeOK

(* A slot is at one place of one list.                                       *)
LEMMA OnOneList ==
  ASSUME SlotsExclusive, NEW p \in Proc, NEW q \in Proc, NEW j \in 1..Len(list[p]), NEW k \in 1..Len(list[q]),
         list[p][j] = list[q][k]
  PROVE  p = q /\ j = k
BY DEF SlotsExclusive

LEMMA MmapOkStep ==
  ASSUME StructInv, NEW p \in Proc, NEW length \in Lengths, NEW prot \in Prots,
         NEW flag \in Flags, NEW fd \in Fd, MmapOk(p, length, prot, flag, fd)
  PROVE  StructInv'
<1> DEFINE psize == PGROUNDUP(length)
<1>1. PICK k \in 0..Len(list[p]), c \in Slot :
        /\ FindVma(c)
        /\ vmas' = [vmas EXCEPT ![c] =
                     [use |-> TRUE, ofile |-> ofile[p][fd], addrinit |-> StartAfter(p, k),
                      addri |-> StartAfter(p, k), addre |-> Add(StartAfter(p, k), psize),
                      prot |-> prot, flag |-> flag]]
        /\ list' = IF k = 0 /\ nvma[p] # 0
                     THEN list ELSE [list EXCEPT ![p] = LinkAt(@, k + 1, c)]
  BY Zenon DEF MmapOk
<1> DEFINE v == [use |-> TRUE, ofile |-> ofile[p][fd], addrinit |-> StartAfter(p, k),
                 addri |-> StartAfter(p, k), addre |-> Add(StartAfter(p, k), psize),
                 prot |-> prot, flag |-> flag]
<1>2. TypeOK /\ Len(list[p]) \in Nat /\ list[p] \in Seq(Slot)
  BY ListElements DEF StructInv, TypeOK
<1>3. StartAfter(p, k) \in 0..(WORD - 1) /\ StartAfter(p, k) \in Int
  <2>1. START_ADDRESS \in 0..(WORD - 1) /\ WORD \in Nat
    BY AddressAssumption, SizesAssumption
  <2>2. k # 0 => list[p][k] \in Slot
    BY <1>2, ListElements
  <2>3. k # 0 => vmas[list[p][k]].addre \in 0..(WORD - 1)
    BY <1>2, <2>2, VmaRecords
  <2> QED BY <2>1, <2>3 DEF StartAfter
<1>4. psize \in Int
  <2>1. length \in Int /\ PGSIZE - 1 \in Int /\ PGSIZE \in Nat \ {0} /\ WORD \in Nat
    BY ArgumentAssumption, SizesAssumption, AddressAssumption
  <2>2. Add(length, PGSIZE - 1) \in 0..(WORD - 1)
    BY <2>1, WordArithmetic, Zenon
  <2> QED BY <2>1, <2>2, RoundDown DEF PGROUNDUP
<1>5. v \in Vma /\ v.use
  <2>1. ofile[p][fd] \in File
    BY <1>2 DEF MmapOk, TypeOK
  <2>2. Add(StartAfter(p, k), psize) \in 0..(WORD - 1)
    BY <1>3, <1>4, WordArithmetic
  <2>3. prot \in AllProts /\ flag \in AllFlags
    BY ArgumentAssumption
  <2> HIDE DEF psize
  <2> QED BY <1>3, <2>1, <2>2, <2>3 DEF Vma
<1> HIDE DEF psize, v
<1>6. vmas' = [vmas EXCEPT ![c] = v] /\ ~vmas[c].use
  BY <1>1 DEF v, FindVma
<1>7. /\ nvma' = [nvma EXCEPT ![p] = @ + 1] /\ nvma[p] # MAX_VMAS
      /\ UNCHANGED <<fileVars, pageVars, isize, procVars, panicked>>
  BY DEF MmapOk, BelowMax, CountVma
<1>8. /\ nvma' \in [Proc -> 0..MAX_VMAS] /\ nvma'[p] = nvma[p] + 1
      /\ \A q \in Proc \ {p} : nvma'[q] = nvma[q]
  BY <1>2, <1>7, SizesAssumption DEF TypeOK
<1>10. /\ LinkAt(list[p], k + 1, c) \in Seq(Slot)
       /\ Len(LinkAt(list[p], k + 1, c)) = Len(list[p]) + 1
       /\ \A j \in 1..(Len(list[p]) + 1) : LinkAt(list[p], k + 1, c)[j] =
            IF j < k + 1 THEN list[p][j] ELSE IF j = k + 1 THEN c ELSE list[p][j - 1]
  <2> DEFINE i == k + 1
  <2>1. i \in 1..(Len(list[p]) + 1)
    BY <1>2
  <2> HIDE DEF i
  <2>2. Inserted(LinkAt(list[p], i, c), list[p], i, c, Slot)
    BY <1>2, <2>1, LinkAtProperties
  <2> QED BY <2>2 DEF i, Inserted
<1>11. TypeOK'
  <2>1. vmas' \in [Slot -> Vma]
    BY <1>2, <1>5, <1>6 DEF TypeOK
  <2>2. list' \in [Proc -> Seq(Slot)]
    BY <1>1, <1>2, <1>10 DEF TypeOK
  <2> QED BY <2>1, <2>2, <1>2, <1>7, <1>8 DEF TypeOK, fileVars, pageVars, procVars
<1>12. SlotsExclusive
  BY DEF StructInv
<1>13. CASE k = 0 /\ nvma[p] # 0
  <2>1. list' = list
    BY Zenon, <1>1, <1>13
  <2>2. \A q \in Proc : \A j \in 1..Len(list[q]) : list[q][j] # c
    BY <1>12, <1>6 DEF SlotsExclusive
  <2>3. \A q \in Proc : \A j \in 1..Len(list[q]) : vmas'[list[q][j]] = vmas[list[q][j]]
    BY ZenonT(40), <1>2, <2>2, <1>6, ListElements DEF TypeOK
  <2>4. SlotsExclusive'
    <3>1. \A q \in Proc : \A j \in 1..Len(list[q]) : vmas'[list[q][j]].use
      BY <2>3, <1>12 DEF SlotsExclusive
    <3> QED BY SMTT(20), <2>1, <3>1, <1>12 DEF SlotsExclusive
  <2>5. ListWithinCount'
    <3>1. \A q \in Proc : Len(list[q]) <= nvma'[q]
      <4> TAKE q \in Proc
      <4>1. Len(list[q]) \in Nat /\ nvma[q] \in Nat /\ Len(list[q]) <= nvma[q]
        BY <1>2, ListElements DEF ListWithinCount, StructInv
      <4>2. nvma'[q] = nvma[q] \/ nvma'[q] = nvma[q] + 1
        BY <1>8
      <4> QED BY <4>1, <4>2
    <3> QED BY <2>1, <3>1 DEF ListWithinCount
  <2>6. MunmapOnList'
    BY ZenonT(40), <2>1, <1>7 DEF MunmapOnList, StructInv, procVars
  <2> QED BY <1>11, <2>4, <2>5, <2>6 DEF StructInv
<1>14. CASE ~(k = 0 /\ nvma[p] # 0)
  <2> DEFINE s == LinkAt(list[p], k + 1, c)
  <2>1. list' = [list EXCEPT ![p] = s]
    BY <1>1, <1>14
  <2>2. list'[p] = s /\ \A q \in Proc \ {p} : list'[q] = list[q]
    BY ZenonT(40), <2>1, <1>2 DEF TypeOK
  <2>3. /\ Len(s) = Len(list[p]) + 1 /\ s[k + 1] = c
        /\ \A j \in 1..Len(s) : j # k + 1 =>
             \E i \in 1..Len(list[p]) : s[j] = list[p][i] /\ i = IF j < k + 1 THEN j ELSE j - 1
    <3> DEFINE i0 == k + 1
    <3>1. i0 \in 1..(Len(list[p]) + 1) /\ list[p] \in Seq(Slot)
      BY <1>2
    <3>2. Inserted(s, list[p], i0, c, Slot)
      BY Zenon, <1>2, <3>1, LinkAtProperties
    <3> HIDE DEF s, i0
    <3>3. /\ Len(s) = Len(list[p]) + 1 /\ s[i0] = c
          /\ \A j \in 1..Len(s) : j # i0 =>
               \E i \in 1..Len(list[p]) : s[j] = list[p][i] /\ i = IF j < i0 THEN j ELSE j - 1
      BY SMTT(30), <3>1, <3>2, InsertedFrom
    <3> QED BY Zenon, <3>3 DEF i0
  <2> HIDE DEF s
  <2>4. ASSUME NEW j \in 1..Len(s), j # k + 1
        PROVE  \E i \in 1..Len(list[p]) : s[j] = list[p][i] /\ i = IF j < k + 1 THEN j ELSE j - 1
    BY Zenon, <2>3, <2>4
  <2>5. \A q \in Proc : \A j \in 1..Len(list[q]) : list[q][j] # c
    BY <1>12, <1>6 DEF SlotsExclusive
  <2>6. SlotsExclusive'
    <3>1. ASSUME NEW q \in Proc, NEW j \in 1..Len(list'[q])
          PROVE  vmas'[list'[q][j]].use
      <4>1. list'[q][j] \in Slot
        BY <1>11, <3>1 DEF TypeOK
      <4>2. CASE list'[q][j] = c
        BY ZenonT(40), <4>1, <4>2, <1>2, <1>5, <1>6 DEF TypeOK
      <4>3. CASE list'[q][j] # c
        <5>1. \E i \in 1..Len(list[q]) : list'[q][j] = list[q][i]
          BY <3>1, <4>3, <2>2, <2>3, <2>4, ZenonT(40)
        <5>2. vmas[list'[q][j]].use
          BY Zenon, <5>1, <1>12 DEF SlotsExclusive
        <5> QED BY Zenon, <4>1, <4>3, <5>2, <1>2, <1>6 DEF TypeOK
      <4> QED BY <4>2, <4>3
    <3>2. ASSUME NEW q \in Proc, NEW r \in Proc, NEW i \in 1..Len(list'[q]),
                 NEW j \in 1..Len(list'[r]), list'[q][i] = list'[r][j]
          PROVE  q = r /\ i = j
      <4>1. CASE q = p /\ r = p
        <5>1. i \in 1..Len(s) /\ j \in 1..Len(s) /\ s[i] = s[j]
          BY <3>2, <4>1, <2>2
        <5>2. CASE i = k + 1 \/ j = k + 1
          BY Zenon, <5>1, <5>2, <2>3, <2>4, <2>5, <4>1
        <5>3. CASE i # k + 1 /\ j # k + 1
          <6>1. PICK a \in 1..Len(list[p]) : s[i] = list[p][a] /\ a = IF i < k + 1 THEN i ELSE i - 1
            BY <5>1, <5>3, <2>4
          <6>2. PICK b \in 1..Len(list[p]) : s[j] = list[p][b] /\ b = IF j < k + 1 THEN j ELSE j - 1
            BY Zenon, <5>1, <5>3, <2>4
          <6>3. list[p][a] = list[p][b]
            BY Zenon, <5>1, <6>1, <6>2
          <6>4. a = b
            BY <6>3, <1>12, OnOneList
          <6>5. i \in Int /\ j \in Int /\ k + 1 \in Int
            BY <5>1
          <6>6. i = j
            BY <5>3, <6>1, <6>2, <6>4, <6>5, ShiftsApart
          <6> QED BY Zenon, <4>1, <6>6
        <5> QED BY <5>2, <5>3
      <4>2. CASE q # p /\ r # p
        <5>1. i \in 1..Len(list[q]) /\ j \in 1..Len(list[r]) /\ list[q][i] = list[r][j]
          BY Zenon, <3>2, <4>2, <2>2
        <5> QED BY <5>1, <1>12, OnOneList
      <4>3. CASE q # p /\ r = p
        <5>1. i \in 1..Len(list[q]) /\ j \in 1..Len(s) /\ list[q][i] = s[j]
          BY Zenon, <3>2, <4>3, <2>2
        <5>2. \E a \in 1..Len(list[p]) : s[j] = list[p][a]
          BY Zenon, <5>1, <2>3, <2>4, <2>5
        <5>3. PICK a \in 1..Len(list[p]) : s[j] = list[p][a]
          BY Zenon, <5>2
        <5>4. list[q][i] = list[p][a]
          BY Zenon, <5>1, <5>3
        <5>5. q = p
          BY Zenon, <5>1, <5>4, <1>12, OnOneList
        <5> QED BY Zenon, <5>5, <4>3
      <4>4. CASE q = p /\ r # p
        <5>1. i \in 1..Len(s) /\ j \in 1..Len(list[r]) /\ s[i] = list[r][j]
          BY <3>2, <4>4, <2>2
        <5>2. \E a \in 1..Len(list[p]) : s[i] = list[p][a]
          BY <5>1, <2>3, <2>4, <2>5, Zenon
        <5>3. PICK a \in 1..Len(list[p]) : s[i] = list[p][a]
          BY Zenon, <5>2
        <5>4. list[r][j] = list[p][a]
          BY Zenon, <5>1, <5>3
        <5>5. r = p
          BY Zenon, <5>1, <5>4, <1>12, OnOneList
        <5> QED BY Zenon, <5>5, <4>4
      <4> QED BY <4>1, <4>2, <4>3, <4>4
    <3> QED BY <3>1, <3>2 DEF SlotsExclusive
  <2>7. ListWithinCount'
    <3>1. \A q \in Proc : Len(list'[q]) <= nvma'[q]
      <4> TAKE q \in Proc
      <4>1. Len(list[q]) \in Nat /\ nvma[q] \in Nat /\ Len(list[q]) <= nvma[q]
        BY <1>2, ListElements DEF ListWithinCount, StructInv
      <4>2. CASE q = p
        BY <4>1, <4>2, <1>8, <2>2, <2>3
      <4>3. CASE q # p
        <5>1. Len(list'[q]) = Len(list[q]) /\ nvma'[q] = nvma[q]
          BY Zenon, <4>3, <1>8, <2>2
        <5> QED BY Zenon, <4>1, <5>1
      <4> QED BY Zenon, <4>2, <4>3
    <3> QED BY Zenon, <3>1 DEF ListWithinCount
  <2>8. MunmapOnList'
    <3>1. \A q \in Proc \ {p} : list'[q] = list[q]
      BY <2>2
    <3>2. pc[p] # "munmap" /\ UNCHANGED <<pc, state, args>>
      BY ZenonT(40), <1>7 DEF MmapOk, InUser, procVars
    <3> QED BY ZenonT(40), <3>1, <3>2 DEF MunmapOnList, StructInv
  <2> QED BY <1>11, <2>6, <2>7, <2>8 DEF StructInv
<1> QED BY <1>13, <1>14

(* Steps that leave the table, the lists and the counts alone, and move only *)
(* p: if p is in munmap() afterwards, its vma must be on its list.           *)
LEMMA ProcStep ==
  ASSUME StructInv, NEW p \in Proc, TypeOK', UNCHANGED vmaVars,
         \A q \in Proc \ {p} : pc'[q] = pc[q] /\ args'[q] = args[q] /\ state'[q] = state[q],
         pc'[p] = "munmap" =>
           state'[p] = "ALIVE" /\ \E k \in 1..Len(list[p]) : list[p][k] = args'[p].slot
  PROVE  StructInv'
<1>1. MunmapOnList'
  <2>1. list' = list
    BY DEF vmaVars
  <2>2. \A q \in Proc : pc'[q] = "munmap" =>
          state'[q] = "ALIVE" /\ \E k \in 1..Len(list[q]) : list[q][k] = args'[q].slot
    BY ZenonT(40) DEF StructInv, MunmapOnList
  <2> QED BY <2>1, <2>2 DEF MunmapOnList
<1> QED BY <1>1 DEF StructInv, SlotsExclusive, ListWithinCount, vmaVars

LEMMA MmapNoRoomStep ==
  ASSUME StructInv, NEW p \in Proc, NEW length \in Lengths, NEW flag \in Flags, NEW fd \in Fd,
         MmapNoRoom(p, length, flag, fd)
  PROVE  StructInv'
<1>1. /\ plock' = [plock EXCEPT ![p] = TRUE]
      /\ UNCHANGED <<vmaVars, pageVars, fileVars, isize, state, pc, args, panicked>>
  BY DEF MmapNoRoom
<1>2. TypeOK'
  BY <1>1 DEF StructInv, TypeOK, vmaVars, pageVars, fileVars
<1> QED BY Zenon, <1>1, <1>2, ProcStep DEF StructInv, MunmapOnList

LEMMA ExitCallStep ==
  ASSUME StructInv, NEW p \in Proc, InUser(p), Exit(p)
  PROVE  StructInv'
<1>1. CASE p = 1
  BY <1>1, PanicStep, ZenonT(40) DEF Exit
<1>2. CASE p # 1
  <2>1. /\ pc' = [pc EXCEPT ![p] = "exit"]
        /\ UNCHANGED <<vmaVars, pageVars, fileVars, isize, plock, state, args, panicked>>
    BY <1>2 DEF Exit
  <2>2. TypeOK' /\ pc'[p] = "exit" /\ \A q \in Proc \ {p} : pc'[q] = pc[q]
    BY <2>1 DEF StructInv, TypeOK, vmaVars, pageVars, fileVars
  <2> QED BY <2>1, <2>2, ProcStep
<1> QED BY <1>1, <1>2

LEMMA StoreStep ==
  ASSUME StructInv, NEW p \in Proc, NEW a \in TouchAddrs, Store(p, a)
  PROVE  StructInv'
<1> DEFINE b == PGROUNDDOWN(a)
<1>1. /\ pagetable' = [pagetable EXCEPT ![p][b].dirty = TRUE] /\ pagetable[p][b] # NULL
      /\ UNCHANGED <<vmaVars, tables, fileVars, isize, procVars, panicked>>
  BY DEF Store, Allows
<1> HIDE DEF b
<1>2. pagetable' \in [Proc -> [Page -> Pte \cup {NULL}]]
  <2>1. pagetable \in [Proc -> [Page -> Pte \cup {NULL}]]
    BY DEF StructInv, TypeOK
  <2>2. \A x \in Pte : [x EXCEPT !.dirty = TRUE] \in Pte
    BY Zenon DEF Pte
  <2>3. CASE b \in Page
    BY <1>1, <2>1, <2>2, <2>3
  <2>4. CASE b \notin Page
    BY <1>1, <2>1, <2>4, Zenon
  <2> QED BY <2>3, <2>4
<1>3. TypeOK'
  BY <1>1, <1>2 DEF StructInv, TypeOK, vmaVars, fileVars, procVars
<1> QED BY <1>1, <1>3, FrameStep

LEMMA TableType ==
  ASSUME NEW b \in Page
  PROVE  b \in Nat /\ Table(b) \in Int
<1>1. b \in Nat
  BY AddressAssumption, SizesAssumption DEF Page
<1>2. PTPAGES * PGSIZE \in Nat \ {0}
  BY SizesAssumption
<1> QED BY <1>1, <1>2 DEF Table

LEMMA FaultMapStep ==
  ASSUME StructInv, NEW p \in Proc, NEW a \in TouchAddrs, NEW store \in BOOLEAN,
         FaultMap(p, a, store)
  PROVE  StructInv'
<1>1. PICK k \in 1..Len(list[p]) :
        pagetable' = [pagetable EXCEPT ![p] =
            [b \in Page |-> IF b \notin MappedBy(a) THEN @[b]
                            ELSE [prot |-> vmas[list[p][k]].prot, dirty |-> FALSE,
                                  ip |-> IF b = PGROUNDDOWN(a)
                                           THEN file[vmas[list[p][k]].ofile].ip ELSE NULL,
                                  off |-> FaultOff(vmas[list[p][k]], b)]]]
  BY Zenon DEF FaultMap
<1> DEFINE v == vmas[list[p][k]]
<1>2. TypeOK /\ list[p][k] \in Slot /\ v.use
  BY Zenon, ListElements DEF StructInv, SlotsExclusive
<1>3. v.prot \in AllProts /\ v.ofile \in File /\ v.addri \in Int
  BY <1>2, VmaRecords
<1>4. file[v.ofile].ip \in Inode \cup {NULL}
  BY Zenon, <1>2, <1>3 DEF TypeOK, FileSlot
<1> HIDE DEF v
<1> DEFINE pte(b) == [prot |-> v.prot, dirty |-> FALSE,
                      ip |-> IF b = PGROUNDDOWN(a) THEN file[v.ofile].ip ELSE NULL,
                      off |-> FaultOff(v, b)]
<1>5. ASSUME NEW b \in Page
      PROVE  pte(b) \in Pte
  <2>1. FaultOff(v, b) \in Int
    BY <1>3, TableType DEF FaultOff
  <2> QED BY <2>1, <1>3, <1>4 DEF Pte
<1>6. pagetable' = [pagetable EXCEPT ![p] =
        [b \in Page |-> IF b \notin MappedBy(a) THEN pagetable[p][b] ELSE pte(b)]]
  BY <1>1 DEF v
<1> HIDE DEF pte
<1>7. pagetable' \in [Proc -> [Page -> Pte \cup {NULL}]]
  BY <1>2, <1>5, <1>6 DEF TypeOK
<1>8. tables' \in [Proc -> SUBSET Int]
  <2>1. tables' = [tables EXCEPT ![p] = @ \cup {Table(b) : b \in MappedBy(a)}]
    BY DEF FaultMap
  <2>2. {Table(b) : b \in MappedBy(a)} \subseteq Int
    BY ZenonT(40), TableType DEF MappedBy
  <2> QED BY ZenonT(40), <2>1, <2>2, <1>2 DEF TypeOK
<1>9. UNCHANGED <<vmaVars, fileVars, isize, procVars, panicked>>
  BY DEF FaultMap
<1>10. TypeOK'
  BY Zenon, <1>2, <1>7, <1>8, <1>9 DEF TypeOK, vmaVars, fileVars, procVars
<1> QED BY <1>9, <1>10, FrameStep

-----------------------------------------------------------------------------
(* The steps of munmap().                                                    *)

LEMMA MunmapStartStep ==
  ASSUME StructInv, NEW p \in Proc, NEW addr \in 0..(WORD - 1), NEW length \in 0..(WORD - 1),
         NEW call \in {"sys_munmap", "exit"}, state[p] = "ALIVE",
         MunmapStart(p, addr, length, call)
  PROVE  StructInv'
<1>1. PICK k \in 1..Len(list[p]) :
        args' = [args EXCEPT ![p] = [slot |-> list[p][k], addr |-> addr, length |-> length,
                                     i |-> 0, call |-> call, written |-> {}]]
  BY ZenonT(40) DEF MunmapStart
<1>2. /\ plock' = [plock EXCEPT ![p] = TRUE] /\ pc' = [pc EXCEPT ![p] = "munmap"]
      /\ UNCHANGED <<vmaVars, pageVars, fileVars, isize, state, panicked>>
  BY Zenon DEF MunmapStart
<1>3. TypeOK /\ list[p][k] \in Slot
  BY Zenon, ListElements DEF StructInv
<1>4. TypeOK'
  BY Zenon, <1>1, <1>2, <1>3 DEF TypeOK, Args, vmaVars, pageVars, fileVars
<1>5. /\ \A q \in Proc \ {p} : pc'[q] = pc[q] /\ args'[q] = args[q]
      /\ args'[p].slot = list[p][k]
  BY <1>1, <1>2, <1>3 DEF TypeOK
<1> QED BY Zenon, <1>2, <1>4, <1>5, ProcStep

(* What the loop works with.                                                 *)
LEMMA LoopTypes ==
  ASSUME TypeOK, NEW p \in Proc
  PROVE  /\ args[p] \in Args /\ args[p].i \in Nat /\ UnmapVa(p) \in Nat
         /\ args[p].addr \in 0..(WORD - 1) /\ args[p].length \in 0..(WORD - 1)
         /\ PGROUNDUP(args[p].length) \in 0..(WORD - 1)
<1>1. /\ args[p] \in Args /\ args[p].i \in Nat
      /\ args[p].addr \in 0..(WORD - 1) /\ args[p].length \in 0..(WORD - 1)
  BY DEF TypeOK, Args
<1>2. PGSIZE \in Nat \ {0} /\ WORD \in Nat
  BY SizesAssumption, AddressAssumption
<1>3. /\ args[p].i * PGSIZE \in Int /\ args[p].addr \in Int /\ args[p].length \in Int
      /\ PGSIZE - 1 \in Int
  BY <1>1, <1>2
<1>4. Add(args[p].addr, args[p].i * PGSIZE) \in 0..(WORD - 1)
  BY <1>3, WordArithmetic, Zenon
<1>5. Add(args[p].length, PGSIZE - 1) \in 0..(WORD - 1)
  BY <1>3, WordArithmetic, Zenon
<1>6. UnmapVa(p) \in 0..(WORD - 1)
  BY <1>4, RoundDown DEF UnmapVa
<1> QED BY <1>1, <1>2, <1>5, <1>6, RoundDown DEF PGROUNDUP

(* A step of the loop: at most a page of p is unmapped and file data change. *)
LEMMA LoopStep ==
  ASSUME StructInv, NEW p \in Proc, pc[p] = "munmap",
         UnmapAbsent(p) \/ UnmapClean(p) \/ UnmapWrite(p)
  PROVE  StructInv'
<1>1. TypeOK /\ args[p] \in Args /\ args[p].i \in Nat /\ UnmapVa(p) \in Nat
  BY LoopTypes DEF StructInv
<1>2. UNCHANGED <<vmaVars, tables, fileVars, plock, state, pc, panicked>>
  BY DEF UnmapAbsent, UnmapClean, UnmapWrite, pageVars
<1>3. pagetable' \in [Proc -> [Page -> Pte \cup {NULL}]]
  <2> DEFINE b == UnmapVa(p)
  <2>1. pagetable' = pagetable \/ pagetable' = [pagetable EXCEPT ![p][b] = NULL]
    BY DEF UnmapAbsent, UnmapClean, UnmapWrite, pageVars
  <2>2. pagetable \in [Proc -> [Page -> Pte \cup {NULL}]]
    BY <1>1 DEF TypeOK
  <2> HIDE DEF b
  <2>3. [pagetable[p] EXCEPT ![b] = NULL] \in [Page -> Pte \cup {NULL}]
    BY <2>2, Zenon
  <2> QED BY <2>1, <2>2, <2>3
<1>4. PICK n \in Nat, W \in SUBSET Int : args' = [args EXCEPT ![p] = [@ EXCEPT !.i = n, !.written = W]]
  <2>1. PGROUNDUP(args[p].length) \in Nat /\ PGSIZE \in Nat \ {0}
    BY LoopTypes, SizesAssumption, AddressAssumption, <1>1
  <2>2. UnmapPages(p) \in Nat /\ args[p].i + 1 \in Nat
    BY <2>1, <1>1 DEF UnmapPages
  <2>3. args[p].written \in SUBSET Int
    BY <1>1, Zenon DEF Args
  <2>4. CASE UnmapAbsent(p) \/ UnmapClean(p)
    <3>1. args' = [args EXCEPT ![p].i = args[p].i + 1]
      BY <2>4, <1>1 DEF UnmapAbsent, UnmapClean, TypeOK
    <3>2. [args[p] EXCEPT !.i = args[p].i + 1] =
            [args[p] EXCEPT !.i = args[p].i + 1, !.written = args[p].written]
      BY <1>1 DEF Args
    <3>3. args' = [args EXCEPT ![p] = [@ EXCEPT !.i = args[p].i + 1, !.written = args[p].written]]
      BY <3>1, <3>2, <1>1, Zenon DEF TypeOK
    <3> QED BY <3>3, <2>2, <2>3, Zenon
  <2>5. CASE UnmapWrite(p)
    <3> DEFINE off == UnmapOff(p)
               end == UnmapOff(p) + SizeWritten(p)
               W0 == args[p].written \cup off..(end - 1)
               n0 == IF PastEnd(p) > 0 THEN UnmapPages(p) ELSE args[p].i + 1
    <3>0. args' = [args EXCEPT ![p].i = n0, ![p].written = W0]
      BY <2>5, <1>1 DEF UnmapWrite, TypeOK
    <3>1. args' = [args EXCEPT ![p] = [@ EXCEPT !.i = n0, !.written = W0]]
      BY <3>0, <1>1 DEF TypeOK
    <3>2. n0 \in Nat
      BY <2>2, Zenon
    <3> HIDE DEF off, end, n0
    <3>3. off..(end - 1) \subseteq Int
      OBVIOUS
    <3>4. W0 \in SUBSET Int
      BY <2>3, <3>3
    <3> HIDE DEF W0
    <3> QED BY <3>1, <3>2, <3>4, Zenon
  <2> QED BY <2>4, <2>5, Zenon
<1>5. isize' \in [Inode -> Int]
  <2>1. CASE UnmapAbsent(p) \/ UnmapClean(p)
    BY <2>1, <1>1 DEF UnmapAbsent, UnmapClean, TypeOK
  <2>2. CASE UnmapWrite(p)
    <3> DEFINE ip == UnmapIp(p)
               off == UnmapOff(p)
               end == UnmapOff(p) + SizeWritten(p)
    <3>1. isize' = [isize EXCEPT ![ip] = IF end > @ THEN end ELSE @]
      BY <2>2 DEF UnmapWrite
    <3>2. isize \in [Inode -> Int]
      BY <1>1 DEF TypeOK
    <3>3. CASE ip \in Inode
      <4>1. vmas[args[p].slot].addrinit \in Int
        <5>1. args[p].slot \in Slot
          BY Zenon, <1>1, ListElements DEF StructInv, MunmapOnList
        <5>2. vmas[args[p].slot].addrinit \in 0..(WORD - 1)
          BY ZenonT(40), <1>1, <5>1, VmaRecords
        <5> QED BY <5>2
      <4>2. off \in Int
        BY <4>1, <1>1 DEF UnmapOff
      <4>3. isize[UnmapIp(p)] \in Int
        BY Zenon, <3>2, <3>3
      <4>4. SizeWritten(p) \in Int
        <5>1. PGSIZE \in Nat
          BY Zenon, SizesAssumption
        <5>2. args[p].i + 1 \in Int
          BY <1>1
        <5>3. PGSIZE * (args[p].i + 1) \in Int
          BY <5>1, <5>2
        <5>4. PastEnd(p) \in Int
          BY <4>3, <5>3 DEF PastEnd
        <5> QED BY <5>1, <5>4 DEF SizeWritten
      <4>5. end \in Int
        BY <4>2, <4>4
      <4> HIDE DEF ip, off, end
      <4> QED BY ZenonT(40), <3>1, <3>2, <3>3, <4>5
    <3>4. CASE ip \notin Inode
      <4> HIDE DEF ip, off, end
      <4>1. isize' = isize
        BY <3>1, <3>2, <3>4
      <4> QED BY <4>1, <3>2
    <3> QED BY <3>3, <3>4
  <2> QED BY <2>1, <2>2
<1>6. /\ args' \in [Proc -> Args] /\ args'[p].slot = args[p].slot
      /\ \A q \in Proc \ {p} : args'[q] = args[q]
  <2> DEFINE r == [args[p] EXCEPT !.i = n, !.written = W]
  <2>1. r \in Args /\ r.slot = args[p].slot
    BY <1>1, Zenon DEF Args
  <2>2. args' = [args EXCEPT ![p] = r]
    BY <1>4
  <2> HIDE DEF r
  <2> QED BY <2>1, <2>2, <1>1 DEF TypeOK
<1>7. TypeOK'
  BY <1>1, <1>2, <1>3, <1>5, <1>6 DEF TypeOK, vmaVars, fileVars
<1>8. state[p] = "ALIVE" /\ \E k \in 1..Len(list[p]) : list[p][k] = args[p].slot
  BY DEF StructInv, MunmapOnList
<1> QED BY Zenon, <1>2, <1>6, <1>7, <1>8, ProcStep

LEMMA ReturnTypes ==
  ASSUME TypeOK, NEW p \in Proc, MunmapReturn(p)
  PROVE  /\ plock' \in [Proc -> BOOLEAN] /\ pc' \in [Proc -> {"user", "munmap", "exit"}]
         /\ args' \in [Proc -> Args] /\ pc'[p] # "munmap"
         /\ \A q \in Proc \ {p} : pc'[q] = pc[q] /\ args'[q] = args[q]
         /\ state' = state /\ panicked' = panicked
<1>1. NoArgs \in Args
  <2>1. WORD \in Nat \ {0}
    BY ZenonT(40), WordSize
  <2> QED BY <2>1 DEF NoArgs, Args
<1> QED BY <1>1 DEF MunmapReturn, TypeOK

LEMMA WriteFailsStep ==
  ASSUME StructInv, NEW p \in Proc, UnmapWriteFails(p)
  PROVE  StructInv'
<1>1. MunmapReturn(p) /\ UNCHANGED <<vmaVars, pageVars, fileVars, isize>> /\ TypeOK
  BY ZenonT(40) DEF UnmapWriteFails, StructInv
<1>2. /\ plock' \in [Proc -> BOOLEAN] /\ pc' \in [Proc -> {"user", "munmap", "exit"}]
      /\ args' \in [Proc -> Args] /\ pc'[p] # "munmap"
      /\ \A q \in Proc \ {p} : pc'[q] = pc[q] /\ args'[q] = args[q]
      /\ state' = state
  BY Zenon, <1>1, ReturnTypes
<1>3. TypeOK'
  BY <1>1, <1>2 DEF TypeOK, vmaVars, pageVars, fileVars
<1> QED BY Zenon, <1>1, <1>2, <1>3, ProcStep

(* munmap() shrinks its vma in place: addresses change, no slot changes hands.*)
LEMMA ShrinkStep ==
  ASSUME StructInv, NEW p \in Proc, NEW c \in Slot, NEW w \in Vma, w.use,
         vmas' = [vmas EXCEPT ![c] = w], MunmapReturn(p),
         UNCHANGED <<list, nvma, pageVars, fileVars, isize>>
  PROVE  StructInv'
<1>1. TypeOK
  BY Zenon DEF StructInv
<1>2. /\ plock' \in [Proc -> BOOLEAN] /\ pc' \in [Proc -> {"user", "munmap", "exit"}]
      /\ args' \in [Proc -> Args] /\ pc'[p] # "munmap"
      /\ \A q \in Proc \ {p} : pc'[q] = pc[q] /\ args'[q] = args[q]
      /\ state' = state
  BY Zenon, <1>1, ReturnTypes
<1>3. vmas' \in [Slot -> Vma] /\ \A d \in Slot : vmas[d].use => vmas'[d].use
  BY <1>1 DEF TypeOK
<1>4. TypeOK'
  BY ZenonT(40), <1>1, <1>2, <1>3 DEF TypeOK, pageVars, fileVars
<1>5. SlotsExclusive'
  <2>1. \A q \in Proc : \A j \in 1..Len(list[q]) : vmas'[list[q][j]].use
    BY <1>1, <1>3, ListElements DEF StructInv, SlotsExclusive
  <2>2. SlotsExclusive /\ list' = list
    BY DEF StructInv
  <2> QED BY <2>1, <2>2 DEF SlotsExclusive
<1>6. ListWithinCount' /\ MunmapOnList'
  BY <1>2 DEF StructInv, ListWithinCount, MunmapOnList
<1> QED BY <1>4, <1>5, <1>6 DEF StructInv

LEMMA FreeVmaStep ==
  ASSUME StructInv, NEW p \in Proc, pc[p] = "munmap", FreeVma(p), MunmapReturn(p),
         UNCHANGED <<pageVars, fileVars, isize>>
  PROVE  StructInv'
<1> DEFINE c == args[p].slot
<1>1. TypeOK /\ SlotsExclusive /\ ListWithinCount
  BY DEF StructInv
<1>2. PICK k \in 1..Len(list[p]) : list[p][k] = c /\ list' = [list EXCEPT ![p] = Unlink(@, k)]
  BY Zenon DEF FreeVma
<1>3. vmas' = [vmas EXCEPT ![c] = NoVma] /\ nvma' = [nvma EXCEPT ![p] = @ - 1]
  BY Zenon DEF FreeVma, ClearVma
<1>4. c \in Slot /\ list[p] \in Seq(Slot) /\ Len(list[p]) \in Nat /\ nvma[p] \in Nat
  BY ZenonT(40), <1>1, <1>2, ListElements DEF TypeOK
<1> HIDE DEF c
<1> DEFINE s == Unlink(list[p], k)
<1>5. Removed(s, list[p], k, Slot)
  BY <1>4, UnlinkProperties
<1>6. list' = [list EXCEPT ![p] = s]
  BY <1>2
<1> HIDE DEF s
<1>7. /\ list'[p] = s /\ s \in Seq(Slot) /\ Len(s) = Len(list[p]) - 1
      /\ \A q \in Proc \ {p} : list'[q] = list[q]
  BY ZenonT(40), <1>1, <1>5, <1>6 DEF TypeOK, Removed
<1>8. ASSUME NEW j \in 1..Len(s)
      PROVE  \E i \in 1..Len(list[p]) : s[j] = list[p][i] /\ i = IF j < k THEN j ELSE j + 1
  BY <1>8, <1>4, <1>5, RemovedFrom
<1>9. Len(list[p]) <= nvma[p] /\ nvma[p] - 1 \in Nat
  BY <1>1, <1>4 DEF ListWithinCount
<1>10. /\ nvma' \in [Proc -> 0..MAX_VMAS] /\ nvma'[p] = nvma[p] - 1
       /\ \A q \in Proc \ {p} : nvma'[q] = nvma[q]
  BY <1>1, <1>3, <1>9, SizesAssumption DEF TypeOK
<1>11. /\ plock' \in [Proc -> BOOLEAN] /\ pc' \in [Proc -> {"user", "munmap", "exit"}]
      /\ args' \in [Proc -> Args] /\ pc'[p] # "munmap"
      /\ \A q \in Proc \ {p} : pc'[q] = pc[q] /\ args'[q] = args[q]
      /\ state' = state
  BY <1>1, ReturnTypes
<1>12. TypeOK'
  <2>1. vmas' \in [Slot -> Vma]
    BY <1>1, <1>3, Zenon DEF TypeOK, Vma
  <2>2. list' \in [Proc -> Seq(Slot)]
    BY <1>1, <1>6, <1>7 DEF TypeOK
  <2>3. nvma' \in [Proc -> 0..MAX_VMAS]
    BY <1>10
  <2>4. /\ plock' \in [Proc -> BOOLEAN] /\ pc' \in [Proc -> {"user", "munmap", "exit"}]
        /\ args' \in [Proc -> Args] /\ state' = state
    BY ZenonT(40), <1>1, ReturnTypes
  <2> QED BY <2>1, <2>2, <2>3, <2>4, <1>1 DEF TypeOK, pageVars, fileVars
<1>13. SlotsExclusive'
  <2>0. k \in Int /\ \A q \in Proc : \A j \in 1..Len(list'[q]) : j \in Int
    OBVIOUS
  <2>1. ASSUME NEW q \in Proc, NEW j \in 1..Len(list'[q])
        PROVE  \E i \in 1..Len(list[q]) : /\ list'[q][j] = list[q][i] /\ list[q][i] # c
                                          /\ i = IF q = p THEN IF j < k THEN j ELSE j + 1 ELSE j
    <3>1. CASE q = p
      <4>1. PICK i \in 1..Len(list[p]) : s[j] = list[p][i] /\ i = IF j < k THEN j ELSE j + 1
        BY Zenon, <3>1, <2>1, <1>7, <1>8
      <4>2. i # k
        BY <2>0, <2>1, <4>1
      <4>3. list[p][i] # c
        BY Zenon, <1>1, <1>2, <4>2, OnOneList
      <4> QED BY Zenon, <3>1, <1>7, <4>1, <4>3
    <3>2. CASE q # p
      <4>1. j \in 1..Len(list[q]) /\ list'[q][j] = list[q][j]
        BY Zenon, <3>2, <2>1, <1>7
      <4>2. list[q][j] # c
        BY Zenon, <3>2, <1>1, <1>2, <4>1, OnOneList
      <4> QED BY Zenon, <3>2, <4>1, <4>2
    <3> QED BY Zenon, <3>1, <3>2
  <2>2. ASSUME NEW q \in Proc, NEW j \in 1..Len(list'[q])
        PROVE  vmas'[list'[q][j]].use
    <3>1. PICK i \in 1..Len(list[q]) : list'[q][j] = list[q][i] /\ list[q][i] # c
      BY Zenon, <2>1, <2>2
    <3>2. list[q][i] \in Slot /\ vmas[list[q][i]].use
      BY Zenon, <1>1, ListElements DEF SlotsExclusive
    <3> QED BY Zenon, <1>1, <1>3, <3>1, <3>2 DEF TypeOK
  <2>3. ASSUME NEW q \in Proc, NEW r \in Proc, NEW i \in 1..Len(list'[q]),
               NEW j \in 1..Len(list'[r]), list'[q][i] = list'[r][j]
        PROVE  q = r /\ i = j
    <3>1. PICK a \in 1..Len(list[q]) : list'[q][i] = list[q][a] /\ a = IF q = p THEN IF i < k THEN i ELSE i + 1 ELSE i
      BY Zenon, <2>1, <2>3
    <3>2. PICK b \in 1..Len(list[r]) : list'[r][j] = list[r][b] /\ b = IF r = p THEN IF j < k THEN j ELSE j + 1 ELSE j
      BY Zenon, <2>1, <2>3
    <3>3. q = r /\ a = b
      BY <3>1, <3>2, <2>3, <1>1, OnOneList
    <3>4. i = j
      BY Zenon, <2>0, <2>3, <3>1, <3>2, <3>3, ShiftsApart
    <3> QED BY Zenon, <3>3, <3>4
  <2> QED BY Zenon, <2>2, <2>3 DEF SlotsExclusive
<1>14. ListWithinCount'
  <2>1. \A q \in Proc : Len(list'[q]) <= nvma'[q]
    <3> TAKE q \in Proc
    <3>1. CASE q = p
      BY <3>1, <1>4, <1>7, <1>9, <1>10
    <3>2. CASE q # p
      BY Zenon, <3>2, <1>1, <1>7, <1>10 DEF ListWithinCount
    <3> QED BY Zenon, <3>1, <3>2
  <2> QED BY Zenon, <2>1 DEF ListWithinCount
<1>15. MunmapOnList'
  <2>1. \A q \in Proc : pc'[q] = "munmap" =>
          state'[q] = "ALIVE" /\ \E j \in 1..Len(list'[q]) : list'[q][j] = args'[q].slot
    BY ZenonT(40), <1>7, <1>11 DEF StructInv, MunmapOnList
  <2> QED BY Zenon, <2>1 DEF MunmapOnList
<1> QED BY <1>12, <1>13, <1>14, <1>15 DEF StructInv

LEMMA FinishStep ==
  ASSUME StructInv, NEW p \in Proc, UnmapFinish(p)
  PROVE  StructInv'
<1> DEFINE c == args[p].slot
           v == vmas[c]
           n == PGROUNDUP(args[p].length)
           addr == args[p].addr
<1>1. pc[p] = "munmap" /\ MunmapReturn(p) /\ UNCHANGED <<pageVars, fileVars, isize>>
  BY DEF UnmapFinish
<1>2. CASE Add(v.addri, n) = v.addre
  <2>1. FreeVma(p)
    BY <1>2 DEF UnmapFinish
  <2> QED BY <1>1, <2>1, FreeVmaStep
<1>3. CASE Add(v.addri, n) # v.addre
  <2> DEFINE w == IF v.addri = addr THEN [v EXCEPT !.addri = Add(@, n)]
                  ELSE [v EXCEPT !.addre = PGROUNDDOWN(addr)]
  <2>1. TypeOK /\ c \in Slot /\ v.use /\ v \in Vma
    <3>1. TypeOK /\ SlotsExclusive /\ MunmapOnList
      BY DEF StructInv
    <3>2. PICK k \in 1..Len(list[p]) : list[p][k] = c
      BY <1>1, <3>1 DEF MunmapOnList
    <3>3. c \in Slot
      BY <3>1, <3>2, ListElements
    <3>4. v.use
      BY <3>1, <3>2 DEF SlotsExclusive
    <3>5. v \in Vma
      BY <3>1, <3>3 DEF TypeOK
    <3> QED BY <3>1, <3>3, <3>4, <3>5
  <2>2. vmas' = [vmas EXCEPT ![c] = w] /\ UNCHANGED <<list, nvma>>
    BY ZenonT(40), <1>3, <2>1 DEF UnmapFinish, TypeOK
  <2>3. n \in 0..(WORD - 1) /\ v.addri \in 0..(WORD - 1) /\ addr \in 0..(WORD - 1)
    BY <2>1, LoopTypes, VmaRecords
  <2>4. Add(v.addri, n) \in 0..(WORD - 1) /\ PGROUNDDOWN(addr) \in 0..(WORD - 1)
    <3> HIDE DEF n, v, addr
    <3>1. n \in Int /\ v.addri \in Int
      BY <2>3
    <3> QED BY <2>3, <3>1, WordArithmetic, RoundDown, Zenon
  <2> HIDE DEF c, n, addr
  <2>5. v # NoVma
    <3>1. ~NoVma.use
      BY DEF NoVma
    <3> QED BY Zenon, <2>1, <3>1
  <2>6. w \in Vma /\ w.use
    BY <2>1, <2>4, <2>5, Zenon DEF Vma
  <2> HIDE DEF w, v
  <2> QED BY <1>1, <2>1, <2>2, <2>6, ShrinkStep, Zenon
<1> QED BY Zenon, <1>2, <1>3
-----------------------------------------------------------------------------
(* exit(), wait(), exec() and fork().                                        *)

LEMMA ExitStepInv ==
  ASSUME StructInv, NEW p \in Proc, ExitStep(p)
  PROVE  StructInv'
<1>1. CASE ExitClose(p)
  BY <1>1, CloseStep, ZenonT(40) DEF ExitClose
<1>2. CASE ExitMunmap(p)
  <2> DEFINE v == vmas[list[p][1]]
  <2>1. /\ state[p] = "ALIVE" /\ list[p] # <<>>
        /\ MunmapStart(p, v.addri, ExitLength(v), "exit")
    BY Zenon, <1>2 DEF ExitMunmap, Exiting
  <2>2. TypeOK /\ list[p][1] \in Slot
    <3>1. TypeOK /\ list[p] \in Seq(Slot) /\ list[p] # <<>>
      BY Zenon, <2>1 DEF StructInv, TypeOK
    <3>2. 1 \in 1..Len(list[p])
      BY <3>1
    <3> QED BY Zenon, <3>1, <3>2, ListElements
  <2>3. v.addri \in 0..(WORD - 1) /\ v.addri \in Int /\ v.addre \in Int
    <3>1. v.addri \in 0..(WORD - 1) /\ v.addre \in 0..(WORD - 1)
      BY Zenon, <2>2, VmaRecords
    <3> HIDE DEF v
    <3> QED BY <3>1
  <2>4. ExitLength(v) \in 0..(WORD - 1)
    BY <2>3, WordArithmetic, Zenon DEF ExitLength
  <2> HIDE DEF v
  <2> QED BY Zenon, <2>1, <2>3, <2>4, MunmapStartStep
<1>3. CASE ExitOffTheEnd(p)
  BY <1>3, PanicStep, Zenon DEF ExitOffTheEnd
<1>4. CASE ExitZombie(p)
  <2>1. /\ state' = [state EXCEPT ![p] = "ZOMBIE"] /\ pc' = [pc EXCEPT ![p] = "user"]
        /\ UNCHANGED <<vmaVars, pageVars, fileVars, isize, plock, args, panicked>>
    BY ZenonT(40), <1>4 DEF ExitZombie
  <2>2. TypeOK' /\ pc'[p] = "user" /\ \A q \in Proc \ {p} : pc'[q] = pc[q] /\ state'[q] = state[q]
    BY <2>1 DEF StructInv, TypeOK, vmaVars, pageVars, fileVars
  <2> QED BY ZenonT(40), <2>1, <2>2, ProcStep
<1> QED BY <1>1, <1>2, <1>3, <1>4 DEF ExitStep

LEMMA FreePageTableStep ==
  ASSUME StructInv, NEW p \in Proc, FreeProc(p) \/ SysExec(p)
  PROVE  StructInv'
<1>1. CASE HasLeaf(p)
  BY <1>1, PanicStep, Zenon DEF FreeProc, SysExec
<1>2. CASE ~HasLeaf(p)
  <2>1. /\ tables' = [tables EXCEPT ![p] = {}]
        /\ UNCHANGED <<vmaVars, pagetable, fileVars, isize, plock, pc, args, panicked>>
        /\ state' = state \/ (state[p] = "ZOMBIE" /\ state' = [state EXCEPT ![p] = "UNUSED"])
    BY <1>2 DEF FreeProc, SysExec, procVars
  <2>2. TypeOK'
    BY Zenon, <2>1 DEF StructInv, TypeOK, vmaVars, fileVars
  <2>3. /\ \A q \in Proc \ {p} : state'[q] = state[q]
        /\ pc[p] = "munmap" => state'[p] = "ALIVE"
    BY Zenon, <2>1 DEF StructInv, TypeOK, MunmapOnList
  <2>4. pc[p] = "munmap" => \E k \in 1..Len(list[p]) : list[p][k] = args[p].slot
    BY DEF StructInv, MunmapOnList
  <2> QED BY Zenon, <2>1, <2>2, <2>3, <2>4, ProcStep
<1> QED BY <1>1, <1>2

LEMMA ForkIntoStep ==
  ASSUME StructInv, NEW p \in Proc, NEW np \in Proc, NEW st \in {"ALIVE", "USED"},
         state[p] = "ALIVE", state[np] = "UNUSED", Copies(p) <= Len(list[p]),
         ForkInto(p, np), state' = [state EXCEPT ![np] = st]
  PROVE  StructInv'
<1>1. TypeOK /\ SlotsExclusive /\ ListWithinCount /\ MunmapOnList
  BY Zenon DEF StructInv
<1>2. /\ Copies(p) \in Nat /\ Copies(p) <= nvma[p] /\ Len(list[p]) \in Nat
      /\ \A k \in 1..Len(list[p]) : list[p][k] \in Slot
  BY Zenon, <1>1, ForkCounts, ListElements
<1> DEFINE N == 1..Copies(p)
<1>3. PICK sel \in [N -> FreeSlots] :
        /\ FirstFree(sel)
        /\ list' = [list EXCEPT ![np] = sel]
        /\ vmas' = [c \in Slot |-> IF \E i \in DOMAIN sel : sel[i] = c
                                  THEN vmas[list[p][CHOOSE i \in DOMAIN sel : sel[i] = c]]
                                  ELSE vmas[c]]
  BY Zenon DEF ForkInto, CopyVmas
<1>4. DOMAIN sel = N /\ \A i \in N : sel[i] \in Slot /\ ~vmas[sel[i]].use
  BY <1>3 DEF FreeSlots
<1>5. \A i, j \in N : sel[i] = sel[j] => i = j
  <2>1. \A i, j \in N : i < j => sel[i] < sel[j]
    BY <1>3, <1>4 DEF FirstFree
  <2>2. \A i, j \in N : i < j \/ i = j \/ j < i
    BY <1>2
  <2>3. \A i \in N : sel[i] \in Int
    BY <1>4, SizesAssumption DEF Slot
  <2> HIDE DEF N
  <2> QED BY <2>1, <2>2, <2>3
<1>6. sel \in Seq(Slot) /\ Len(sel) = Copies(p)
  <2>1. sel \in [1..Copies(p) -> Slot]
    BY Zenon, <1>3 DEF FreeSlots
  <2> QED BY <2>1, <1>2
<1> HIDE DEF N
<1>7. ASSUME NEW i \in N
      PROVE  vmas'[sel[i]] = vmas[list[p][i]]
  <2>1. (CHOOSE j \in N : sel[j] = sel[i]) = i
    BY <1>5
  <2> QED BY <2>1, <1>3, <1>4
<1>8. ASSUME NEW c \in Slot, vmas[c].use
      PROVE  vmas'[c] = vmas[c]
  BY <1>8, <1>3, <1>4
<1>9. \A i \in N : i \in 1..Len(list[p])
  BY <1>2 DEF N
<1>10. list'[np] = sel /\ \A q \in Proc \ {np} : list'[q] = list[q]
  BY Zenon, <1>1, <1>3 DEF TypeOK
<1>11. vmas' \in [Slot -> Vma]
  <2>1. ASSUME NEW c \in Slot
        PROVE  vmas'[c] \in Vma
    <3>1. CASE \E i \in N : sel[i] = c
      <4>1. PICK i \in N : sel[i] = c
        BY ZenonT(40), <3>1
      <4>2. vmas'[c] = vmas[list[p][i]] /\ list[p][i] \in Slot
        BY <4>1, <1>2, <1>7, <1>9
      <4> QED BY Zenon, <4>2, <1>1 DEF TypeOK
    <3>2. CASE ~\E i \in N : sel[i] = c
      BY <3>2, <1>1, <1>3, <1>4 DEF TypeOK
    <3> QED BY Zenon, <3>1, <3>2
  <2> QED BY <2>1, <1>3
<1>13. TypeOK'
  <2>1. list' \in [Proc -> Seq(Slot)]
    BY <1>1, <1>3, <1>6 DEF TypeOK
  <2>2. /\ nvma' = [nvma EXCEPT ![np] = nvma[p]] /\ ofile' = [ofile EXCEPT ![np] = ofile[p]]
        /\ UNCHANGED <<pageVars, file, isize, plock, pc, args, panicked>>
    BY DEF ForkInto
  <2>3. nvma' \in [Proc -> 0..MAX_VMAS] /\ ofile' \in [Proc -> [Fd -> File \cup {NULL}]]
    BY <2>2, <1>1 DEF TypeOK
  <2>4. state' \in [Proc -> {"UNUSED", "USED", "ALIVE", "ZOMBIE"}]
    BY Zenon, <1>1 DEF TypeOK
  <2> QED BY ZenonT(40), <2>1, <2>2, <2>3, <2>4, <1>1, <1>11 DEF TypeOK, pageVars
<1>14. SlotsExclusive'
  <2>1. ASSUME NEW q \in Proc, NEW j \in 1..Len(list'[q])
        PROVE  vmas'[list'[q][j]].use
    <3>1. CASE q = np
      <4>1. j \in N /\ list'[q][j] = sel[j]
        BY Zenon, <3>1, <2>1, <1>6, <1>10 DEF N
      <4>2. vmas[list[p][j]].use
        BY Zenon, <4>1, <1>1, <1>9 DEF SlotsExclusive
      <4> QED BY Zenon, <4>1, <4>2, <1>7
    <3>2. CASE q # np
      <4>1. j \in 1..Len(list[q]) /\ list'[q][j] = list[q][j]
        BY ZenonT(40), <3>2, <2>1, <1>10
      <4>2. list[q][j] \in Slot /\ vmas[list[q][j]].use
        BY Zenon, <4>1, <1>1, ListElements DEF SlotsExclusive
      <4> QED BY Zenon, <4>1, <4>2, <1>8
    <3> QED BY <3>1, <3>2
  <2>2. ASSUME NEW q \in Proc, NEW r \in Proc, NEW i \in 1..Len(list'[q]),
               NEW j \in 1..Len(list'[r]), list'[q][i] = list'[r][j]
        PROVE  q = r /\ i = j
    <3>1. CASE q = np /\ r = np
      BY Zenon, <3>1, <2>2, <1>5, <1>6, <1>10 DEF N
    <3>2. CASE q # np /\ r # np
      <4>1. i \in 1..Len(list[q]) /\ j \in 1..Len(list[r]) /\ list[q][i] = list[r][j]
        BY Zenon, <3>2, <2>2, <1>10
      <4> QED BY Zenon, <4>1, <1>1 DEF SlotsExclusive
    <3>3. CASE q = np /\ r # np
      <4>1. i \in N /\ list'[q][i] = sel[i] /\ ~vmas[sel[i]].use
        BY Zenon, <3>3, <2>2, <1>4, <1>6, <1>10 DEF N
      <4>2. j \in 1..Len(list[r]) /\ list'[r][j] = list[r][j] /\ vmas[list[r][j]].use
        BY Zenon, <3>3, <2>2, <1>1, <1>10 DEF SlotsExclusive
      <4> QED BY <4>1, <4>2, <2>2
    <3>4. CASE q # np /\ r = np
      <4>1. j \in N /\ list'[r][j] = sel[j] /\ ~vmas[sel[j]].use
        BY Zenon, <3>4, <2>2, <1>4, <1>6, <1>10 DEF N
      <4>2. i \in 1..Len(list[q]) /\ list'[q][i] = list[q][i] /\ vmas[list[q][i]].use
        BY Zenon, <3>4, <2>2, <1>1, <1>10 DEF SlotsExclusive
      <4> QED BY Zenon, <4>1, <4>2, <2>2
    <3> QED BY Zenon, <3>1, <3>2, <3>3, <3>4
  <2> QED BY ZenonT(40), <2>1, <2>2 DEF SlotsExclusive
<1>15. ListWithinCount'
  <2>1. nvma' = [nvma EXCEPT ![np] = nvma[p]]
    BY Zenon DEF ForkInto
  <2>2. \A q \in Proc : Len(list'[q]) <= nvma'[q]
    BY ZenonT(40), <2>1, <1>1, <1>2, <1>6, <1>10 DEF ListWithinCount, TypeOK
  <2> QED BY <2>2 DEF ListWithinCount
<1>16. MunmapOnList'
  <2>1. pc' = pc /\ args' = args /\ pc[np] # "munmap"
    BY <1>1 DEF ForkInto, MunmapOnList
  <2>2. \A q \in Proc \ {np} : state'[q] = state[q]
    BY Zenon, <1>1 DEF TypeOK
  <2>3. ASSUME NEW q \in Proc, pc[q] = "munmap"
        PROVE  state'[q] = "ALIVE" /\ \E i \in 1..Len(list'[q]) : list'[q][i] = args[q].slot
    <3>1. q # np /\ list'[q] = list[q] /\ state'[q] = state[q]
      BY Zenon, <2>1, <2>2, <2>3, <1>10
    <3> QED BY Zenon, <3>1, <2>3, <1>1 DEF MunmapOnList
  <2> QED BY <2>1, <2>3 DEF MunmapOnList
<1> QED BY <1>13, <1>14, <1>15, <1>16 DEF StructInv

LEMMA ForkStep ==
  ASSUME StructInv, NEW p \in Proc, NEW np \in Proc,
         ForkOk(p, np) \/ ForkOutOfSlots(p, np) \/ ForkOffTheEnd(p, np)
  PROVE  StructInv'
<1>1. CASE ForkOk(p, np)
  <2>1. Copies(p) <= Len(list[p])
    BY <1>1, ForkCounts DEF ForkOk, StructInv
  <2> QED BY <1>1, <2>1, ForkIntoStep, ZenonT(40) DEF ForkOk, InUser, AllocProc
<1>2. CASE ForkOutOfSlots(p, np)
  BY <1>2, ForkIntoStep, Zenon DEF ForkOutOfSlots, InUser, AllocProc
<1>3. CASE ForkOffTheEnd(p, np)
  BY <1>3, PanicStep, Zenon DEF ForkOffTheEnd
<1> QED BY <1>1, <1>2, <1>3
-----------------------------------------------------------------------------
LEMMA UserStepInv ==
  ASSUME StructInv, NEW p \in Proc, UserStep(p)
  PROVE  StructInv'
<1>1. CASE \E fd \in Fd, f \in File, ip \in Inode, mode \in Modes : SysOpen(p, fd, f, ip, mode)
  BY <1>1, OpenStep
<1>2. CASE \E fd \in Fd : SysClose(p, fd)
  BY <1>2, CloseStep, Zenon DEF SysClose
<1>3. CASE \E length \in Lengths, prot \in Prots, flag \in Flags, fd \in Fd :
             MmapOk(p, length, prot, flag, fd)
  BY <1>3, MmapOkStep
<1>4. CASE \E length \in Lengths, flag \in Flags, fd \in Fd :
             MmapNoRoom(p, length, flag, fd) \/ MmapClosedFd(p, length, flag, fd)
  BY <1>4, MmapNoRoomStep, PanicStep, Zenon DEF MmapClosedFd
<1>5. CASE \E addr \in Addrs, length \in Lengths :
             SysMunmap(p, addr, length) \/ SysMunmapOffTheEnd(p, addr, length)
  <2>1. PICK addr \in Addrs, length \in Lengths :
          SysMunmap(p, addr, length) \/ SysMunmapOffTheEnd(p, addr, length)
    BY <1>5
  <2>2. addr \in 0..(WORD - 1) /\ length \in 0..(WORD - 1)
    BY ArgumentAssumption
  <2>3. CASE SysMunmap(p, addr, length)
    BY <2>2, <2>3, MunmapStartStep DEF SysMunmap, InUser
  <2>4. CASE SysMunmapOffTheEnd(p, addr, length)
    BY <2>4, PanicStep, Zenon DEF SysMunmapOffTheEnd
  <2> QED BY <2>1, <2>3, <2>4
<1>6. CASE \E a \in TouchAddrs : Store(p, a)
  BY <1>6, StoreStep
<1>7. CASE \E a \in TouchAddrs, store \in BOOLEAN :
             \/ FaultMap(p, a, store) \/ FaultRemap(p, a, store)
             \/ FaultExit(p, a, store) \/ FaultOffTheEnd(p, a, store)
  <2>1. PICK a \in TouchAddrs, store \in BOOLEAN :
             \/ FaultMap(p, a, store) \/ FaultRemap(p, a, store)
             \/ FaultExit(p, a, store) \/ FaultOffTheEnd(p, a, store)
    BY <1>7
  <2>2. CASE FaultMap(p, a, store)
    BY <2>2, FaultMapStep
  <2>3. CASE FaultRemap(p, a, store) \/ FaultOffTheEnd(p, a, store)
    BY <2>3, PanicStep, Zenon DEF FaultRemap, FaultOffTheEnd
  <2>4. CASE FaultExit(p, a, store)
    BY <2>4, ExitCallStep DEF FaultExit
  <2> QED BY <2>1, <2>2, <2>3, <2>4
<1>8. CASE \E np \in Proc : ForkOk(p, np) \/ ForkOutOfSlots(p, np) \/ ForkOffTheEnd(p, np)
  BY <1>8, ForkStep
<1>9. CASE SysExec(p)
  BY <1>9, FreePageTableStep
<1>10. CASE SysExit(p)
  BY <1>10, ExitCallStep DEF SysExit
<1>11. CASE AcquireHeld(p)
  BY <1>11, PanicStep DEF AcquireHeld
<1> QED BY Zenon, <1>1, <1>2, <1>3, <1>4, <1>5, <1>6, <1>7, <1>8, <1>9, <1>10, <1>11 DEF UserStep

LEMMA MunmapStepInv ==
  ASSUME StructInv, NEW p \in Proc, MunmapStep(p)
  PROVE  StructInv'
<1>1. CASE UnmapNoTable(p) \/ UnmapOutsideTransaction(p) \/ UnmapSleeps(p)
  BY <1>1, PanicStep, Zenon DEF UnmapNoTable, UnmapOutsideTransaction, UnmapSleeps
<1>2. CASE UnmapAbsent(p) \/ UnmapClean(p) \/ UnmapWrite(p)
  <2>1. pc[p] = "munmap"
    BY <1>2 DEF UnmapAbsent, UnmapClean, UnmapWrite, InLoop
  <2> QED BY <1>2, <2>1, LoopStep
<1>3. CASE UnmapWriteFails(p)
  BY <1>3, WriteFailsStep
<1>4. CASE UnmapFinish(p)
  BY <1>4, FinishStep
<1> QED BY <1>1, <1>2, <1>3, <1>4 DEF MunmapStep

LEMMA InitInv ==
  ASSUME Init
  PROVE  StructInv
<1>1. TypeOK
  <2>1. NoVma \in Vma /\ NoFile \in FileSlot /\ NoArgs \in Args
    BY AddressAssumption, SizesAssumption DEF Vma, FileSlot, NoFile, NoArgs, Args
  <2>2. vmas \in [Slot -> Vma] /\ list \in [Proc -> Seq(Slot)] /\ nvma \in [Proc -> 0..MAX_VMAS]
    <3>1. <<>> \in Seq(Slot) /\ 0 \in 0..MAX_VMAS
      BY SizesAssumption
    <3> QED BY <2>1, <3>1 DEF Init
  <2>3. /\ pagetable \in [Proc -> [Page -> Pte \cup {NULL}]] /\ tables \in [Proc -> SUBSET Int]
        /\ ofile \in [Proc -> [Fd -> File \cup {NULL}]] /\ file \in [File -> FileSlot]
        /\ args \in [Proc -> Args]
    BY <2>1 DEF Init
  <2>4. isize \in [Inode -> Int]
    <3>1. FileSizes \subseteq Int
      BY ArgumentAssumption
    <3> QED BY <3>1, Zenon DEF Init
  <2>5. /\ plock \in [Proc -> BOOLEAN] /\ pc \in [Proc -> {"user", "munmap", "exit"}]
        /\ state \in [Proc -> {"UNUSED", "USED", "ALIVE", "ZOMBIE"}]
    BY DEF Init
  <2> QED BY Zenon, <2>2, <2>3, <2>4, <2>5 DEF TypeOK
<1>2. \A p \in Proc : Len(list[p]) = 0 /\ nvma[p] = 0 /\ pc[p] = "user"
  BY DEF Init
<1> QED BY <1>1, <1>2 DEF StructInv, SlotsExclusive, ListWithinCount, MunmapOnList

(* The structural invariant of the vma table and the lists is inductive.     *)
THEOREM Structure == Spec => []StructInv
<1>1. Init => StructInv
  BY InitInv
<1>2. StructInv /\ [Next]_vars => StructInv'
  <2> SUFFICES ASSUME StructInv, [Next]_vars PROVE StructInv'
    OBVIOUS
  <2>1. CASE Next
    <3>1. PICK p \in Proc : UserStep(p) \/ KernelStep(p) \/ FreeProc(p)
      BY <2>1 DEF Next
    <3> QED BY <3>1, UserStepInv, MunmapStepInv, ExitStepInv, FreePageTableStep DEF KernelStep
  <2>2. CASE UNCHANGED vars
    BY <2>2, SameStep DEF vars
  <2> QED BY <2>1, <2>2
<1> QED BY <1>1, <1>2, PTL DEF Spec

(* Type correctness.                                                         *)
THEOREM TypeCorrect == Spec => []TypeOK
<1>1. StructInv => TypeOK
  BY DEF StructInv
<1> QED BY <1>1, Structure, PTL

(* No struct vma ever has two owners, for any number of processes and slots. *)
THEOREM Exclusive == Spec => []SlotsExclusive
<1>1. StructInv => SlotsExclusive
  BY DEF StructInv
<1> QED BY <1>1, Structure, PTL

(* The loops that run nvma times see the whole list.                         *)
THEOREM CountCovers == Spec => []ListWithinCount
<1>1. StructInv => ListWithinCount
  BY DEF StructInv
<1> QED BY <1>1, Structure, PTL
=============================================================================
