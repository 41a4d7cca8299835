--------------------------- MODULE DiskBaseProofs ---------------------------
(***************************************************************************)
(* The inductive invariant of Disk, for any number of processes, blocks,   *)
(* buffers and descriptors and any size of the ring indices that the       *)
(* number of descriptors divides, and the proof that the steps of the      *)
(* buffer cache keep it: bget() and brelse(), sleeping and waking, the     *)
(* log's pins.  The steps of the driver and of the device are in           *)
(* DiskProofs.                                                             *)
(***************************************************************************)
EXTENDS Disk, FiniteSetTheorems, WellFoundedInduction, TLAPS

Places == {"idle", "lock", "have", "unpin", "release", "put", "rw", "wait"}
Ops == {"read", "write", "log_write", "install"}
Index == 0..(IDXMOD - 1)
Chans == {Free} \cup ({"lock", "buf"} \X Buf)

BufType == [blockno : Block \cup {NoBlock}, valid : BOOLEAN, disk : BOOLEAN, refcnt : Int,
            lock : Proc \cup {NULL}, data : Data]
LocType == [pc : Places \cup {"sleep"}, op : Ops \cup {"none"}, blk : Block \cup {NoBlock}, b : Buf \cup {0},
            write : BOOLEAN, i : Desc, chan : Chans]
DescType == [addr : Desc \cup Buf, next : Desc, more : BOOLEAN]
OpType == [write : BOOLEAN, blk : Block \cup {NoBlock}]
InfoType == [b : Buf \cup {0}, ok : BOOLEAN]
RingType == [ring : [Desc -> Desc], idx : Index]

(* The types of the variables.                                             *)
TypeInv ==
  /\ buf \in [Buf -> BufType] /\ mru \in [Buf -> Buf]
  /\ free \in SUBSET Desc /\ desc \in [Desc -> DescType]
  /\ ops \in [Desc -> OpType] /\ info \in [Desc -> InfoType]
  /\ avail \in RingType /\ used \in RingType
  /\ used_idx \in Index /\ lastAvail \in Index /\ inflight \in SUBSET Desc
  /\ platter \in [Block -> Data] /\ content \in [Block -> Data]
  /\ loc \in [Proc -> LocType] /\ pinned \in SUBSET Block

(* Where a process is in its call; a sleeper is where it will wake up.     *)
PlaceIn(l, p) == IF l[p].pc = "sleep" THEN Back(l[p].chan) ELSE l[p].pc
Place(p) == PlaceIn(loc, p)

(* Between acquiresleep() and releasesleep(); and in virtio_disk_rw().     *)
Holds == {"have", "unpin", "release", "rw", "wait"}
InRw == {"rw", "wait"}

(* A process in a call has a buffer of its block and, once it has locked   *)
(* it, the lock; what bread() returns is valid, and virtio_disk_rw() reads *)
(* into a buffer that is not and writes one that is.                       *)
PlaceOK(p) ==
  /\ Place(p) \in Places
  /\ Place(p) = "idle" => loc[p].op = "none"
  /\ Place(p) # "idle" => /\ loc[p].b \in Buf /\ loc[p].blk \in Block /\ loc[p].op \in Ops
                          /\ buf[loc[p].b].blockno = loc[p].blk
  /\ Place(p) \in Holds => buf[loc[p].b].lock = p
  /\ Place(p) \in Holds \ InRw => buf[loc[p].b].valid
  /\ Place(p) \in InRw => (buf[loc[p].b].valid <=> loc[p].write)
  /\ Place(p) \notin InRw => ~loc[p].write
  /\ loc[p].write => loc[p].op \in {"write", "install"}
  /\ Place(p) = "unpin" => loc[p].op = "install"

BufOK(b) ==
  /\ \A p \in Proc : buf[b].lock = p => Place(p) \in Holds /\ loc[p].b = b
  /\ buf[b].disk => \E p \in Proc : buf[b].lock = p /\ Place(p) = "wait"
  /\ buf[b].valid => buf[b].blockno \in Block
  /\ \A c \in Buf : b # c /\ buf[b].blockno # NoBlock => buf[b].blockno # buf[c].blockno

PlaceInv == (\A p \in Proc : PlaceOK(p)) /\ (\A b \in Buf : BufOK(b))

(* refcnt counts the calls that use the buffer, and the log's pin.         *)
Refs(b) == {p \in Proc : Place(p) # "idle" /\ loc[p].b = b}
RefOK(b) == buf[b].refcnt = Cardinality(Refs(b)) + (IF buf[b].blockno \in pinned THEN 1 ELSE 0)
RefInv == \A b \in Buf : RefOK(b)

(* A ring whose consumer is at h and whose producer is at t.               *)
Pending(h, t) == (t - h + IDXMOD) % IDXMOD
Entry(ring, h, n) == ring[(h + n) % NUM]
Items(ring, h, t) == {Entry(ring, h, n) : n \in 0..(Pending(h, t) - 1)}
RingOK(ring, h, t) ==
  /\ Pending(h, t) < NUM
  /\ \A m, n \in 0..(Pending(h, t) - 1) : Entry(ring, h, m) = Entry(ring, h, n) => m = n

(* The requests that the device has yet to fetch, and those that it is     *)
(* done with and the handler has yet to see.                               *)
Offered == Items(avail.ring, lastAvail, avail.idx)
Done == Items(used.ring, used_idx, used.idx)
Out == Offered \cup inflight
RingInv ==
  /\ RingOK(avail.ring, lastAvail, avail.idx) /\ RingOK(used.ring, used_idx, used.idx)
  /\ Offered \cap inflight = {} /\ Out \cap Done = {}

(* The request of a process that waits: a chain of three descriptors of    *)
(* its own, as virtio_disk_rw() filled them in.                            *)
ChainOK(p, i, j, k) ==
  /\ i # j /\ i # k /\ j # k /\ i \notin free /\ j \notin free /\ k \notin free
  /\ desc[i] = [addr |-> i, next |-> j, more |-> TRUE]
  /\ desc[j] = [addr |-> loc[p].b, next |-> k, more |-> TRUE]
  /\ desc[k] = [addr |-> i, next |-> 0, more |-> FALSE]
  /\ ops[i] = [write |-> loc[p].write, blk |-> loc[p].blk] /\ info[i].b = loc[p].b
ReqOK(p) ==
  /\ ChainOK(p, loc[p].i, desc[loc[p].i].next, desc[desc[loc[p].i].next].next)
  /\ buf[loc[p].b].disk <=> loc[p].i \in Out \cup Done
  /\ loc[p].i \in Done => info[loc[p].i].ok
Waiting == {p \in Proc : Place(p) = "wait"}
ReqInv ==
  /\ \A p \in Waiting : ReqOK(p)
  /\ \A p, q \in Waiting : p # q => Chain(loc[p].i) \cap Chain(loc[q].i) = {}
  /\ \A i \in Out \cup Done : \E p \in Waiting : loc[p].i = i

(* A write that the device has not done: the disk may lack the block.      *)
Dirty(p) == loc[p].write /\ (Place(p) = "wait" => loc[p].i \in Out)
(* What the platter and the buffers have of what was last stored.          *)
OnDisk(x) == platter[x] = content[x]
DataInv ==
  /\ \A b \in Buf : buf[b].valid => buf[b].data = content[buf[b].blockno]
  /\ \A x \in Block \ pinned : (\A p \in Proc : loc[p].blk = x => ~Dirty(p)) => OnDisk(x)
  /\ \A p \in Proc : Place(p) = "unpin" => OnDisk(loc[p].blk)
  /\ \A p \in Waiting : loc[p].i \notin Out =>
       IF loc[p].write THEN OnDisk(loc[p].blk) ELSE buf[loc[p].b].data = content[loc[p].blk]

(* A pinned block is in the cache; the installer of a block is alone with  *)
(* it, and the block stays pinned until bunpin().                          *)
Early == {"lock", "rw", "have", "wait", "unpin"}
PinInv ==
  /\ \A x \in pinned : \E b \in Buf : buf[b].blockno = x /\ buf[b].valid
  /\ \A p \in Proc : loc[p].op = "install" /\ Place(p) \in Early => loc[p].blk \in pinned
  /\ \A p, q \in Proc : p # q /\ loc[p].op = "install" /\ loc[q].op \in {"log_write", "install"}
                        => loc[q].blk # loc[p].blk

(* What a sleeper waits for.                                               *)
SleepOK(p) ==
  loc[p].pc = "sleep" =>
    \/ loc[p].chan = Free /\ Cardinality(free) < 3
    \/ loc[p].chan = <<"lock", loc[p].b>> /\ buf[loc[p].b].lock # NULL
    \/ loc[p].chan = <<"buf", loc[p].b>> /\ buf[loc[p].b].disk
WakeInv ==
  /\ \A p \in Proc : SleepOK(p)
  /\ used_idx # used.idx => irq \/ vdisk_lock = "intr"

(* The inductive invariant.                                                *)
CoreInv == TypeInv /\ PlaceInv /\ RefInv /\ RingInv /\ ReqInv /\ DataInv /\ PinInv
DiskInv == CoreInv /\ WakeInv /\ panicked = "no"

-----------------------------------------------------------------------------
(* Arithmetic modulo d, in the forms that the ring indices need: what %      *)
(* computes.                                                                 *)
LEMMA ModDef ==
  ASSUME NEW a \in Int, NEW d \in Nat \ {0}
  PROVE  a % d \in 0..(d-1) /\ a = d * (a \div d) + (a % d) /\ a \div d \in Int
OBVIOUS

(* Multiples of d are at least d apart.                                      *)
LEMMA MulStep ==
  ASSUME NEW d \in Nat \ {0}, NEW q \in Int, NEW r \in Int, q < r
  PROVE  d * q + d <= d * r
OBVIOUS

(* Quotient and remainder are unique.                                        *)
LEMMA ModUnique ==
  ASSUME NEW d \in Nat \ {0}, NEW q \in Int, NEW r \in 0..(d-1)
  PROVE  (d * q + r) % d = r
<1> DEFINE a == d * q + r
           k == a \div d
           s == a % d
<1>1. a \in Int /\ r \in Int /\ d \in Int
  OBVIOUS
<1> HIDE DEF a
<1>2. s \in 0..(d-1) /\ a = d * k + s /\ k \in Int
  BY <1>1, ModDef
<1> HIDE DEF k, s
<1>3. ~(q < k)
  BY <1>2, MulStep DEF a
<1>4. ~(k < q)
  BY <1>2, MulStep DEF a
<1>5. k = q
  BY <1>2, <1>3, <1>4
<1>6. s = r
  BY <1>2, <1>5 DEF a
<1> QED BY <1>6 DEF s, a

(* A summand may be reduced first.                                           *)
LEMMA ModAdd ==
  ASSUME NEW d \in Nat \ {0}, NEW a \in Int, NEW b \in Int
  PROVE  ((a % d) + b) % d = (a + b) % d
<1> DEFINE q == a \div d
           r == a % d
<1>1. r \in 0..(d-1) /\ a = d * q + r /\ q \in Int
  BY ModDef
<1> HIDE DEF q, r
<1> DEFINE c == r + b
           k == c \div d
           s == c % d
<1>2. c \in Int
  BY <1>1
<1>3. s \in 0..(d-1) /\ c = d * k + s /\ k \in Int
  BY Zenon, <1>2, ModDef
<1> HIDE DEF k, s
<1>4. a + b = d * (q + k) + s /\ q + k \in Int
  BY <1>1, <1>3
<1>5. (a + b) % d = s
  BY Zenon, <1>3, <1>4, ModUnique
<1> QED BY <1>5 DEF s, r

(* Reducing modulo a multiple of d first does not change the remainder.      *)
LEMMA ModMod ==
  ASSUME NEW d \in Nat \ {0}, NEW u \in Nat \ {0}, u % d = 0, NEW a \in Int
  PROVE  (a % u) % d = a % d
<1> DEFINE e == u \div d
           q == a \div u
           r == a % u
           k == r \div d
           s == r % d
<1>1. u = d * e /\ e \in Int
  BY ModDef
<1>2. r \in 0..(u-1) /\ a = u * q + r /\ q \in Int /\ r \in Int
  BY ModDef
<1>3. s \in 0..(d-1) /\ r = d * k + s /\ k \in Int
  BY <1>2, ModDef
<1> HIDE DEF e, q, r, k, s
<1>4. a = d * (e * q + k) + s /\ e * q + k \in Int
  BY <1>1, <1>2, <1>3
<1>5. a % d = s
  BY Zenon, <1>3, <1>4, ModUnique
<1> QED BY <1>5 DEF s, r

(* A number below d is its own remainder.                                    *)
LEMMA ModSmall ==
  ASSUME NEW d \in Nat \ {0}, NEW r \in 0..(d-1)
  PROVE  r % d = r
<1>1. r = d * 0 + r
  OBVIOUS
<1> QED BY <1>1, ModUnique

(* Two different numbers less than d apart have different remainders:        *)
(* entries that are in a ring together do not share a slot.                  *)
LEMMA ModNear ==
  ASSUME NEW d \in Nat \ {0}, NEW a \in Int, NEW b \in Int, a % d = b % d, a <= b, b < a + d
  PROVE  a = b
<1> DEFINE q == a \div d
           k == b \div d
           r == a % d
<1>1. r \in 0..(d-1) /\ a = d * q + r /\ q \in Int
  BY ModDef
<1>2. b = d * k + r /\ k \in Int
  BY ModDef
<1> HIDE DEF q, k, r
<1>3. ~(q < k) /\ ~(k < q)
  BY <1>1, <1>2, MulStep
<1> QED BY <1>1, <1>2, <1>3

-----------------------------------------------------------------------------
(* The rings.  The sizes of the rings and of their indices.                *)
LEMMA Sizes == NUM \in Nat \ {0} /\ IDXMOD \in Nat \ {0} /\ IDXMOD % NUM = 0 /\ NUM <= IDXMOD
<1>1. NUM \in Nat \ {0} /\ IDXMOD \in Nat \ {0} /\ IDXMOD % NUM = 0
  BY RingAssumption
<1>2. IDXMOD < NUM => IDXMOD % NUM = IDXMOD
  BY <1>1, ModSmall
<1> QED BY <1>1, <1>2

(* The slots of a ring are its descriptors' numbers.                       *)
LEMMA Slot ==
  ASSUME NEW a \in Int
  PROVE  a % NUM \in Desc
BY Sizes, ModDef DEF Desc

(* How many entries are pending, without the modulus.                      *)
LEMMA PendingIs ==
  ASSUME NEW h \in Index, NEW t \in Index
  PROVE  /\ Pending(h, t) \in Index
         /\ Pending(h, t) = IF h <= t THEN t - h ELSE t - h + IDXMOD
<1> DEFINE d == IDXMOD
           r == IF h <= t THEN t - h ELSE t - h + d
           q == IF h <= t THEN 1 ELSE 0
<1>1. d \in Nat \ {0}
  BY Sizes
<1>2. h \in Int /\ t \in Int /\ 0 <= h /\ h < d /\ 0 <= t /\ t < d
  BY <1>1 DEF Index
<1>3. r \in 0..(d-1) /\ q \in Int /\ t - h + d = d * q + r
  BY <1>1, <1>2
<1> HIDE DEF d, r, q
<1>4. (t - h + d) % d = r
  BY <1>1, <1>3, ModUnique
<1> QED BY <1>3, <1>4 DEF d, r, Pending, Index

(* The next value of an index.                                             *)
LEMMA NextIndex ==
  ASSUME NEW t \in Index
  PROVE  (t + 1) % IDXMOD \in Index /\ (t + 1) % IDXMOD = IF t = IDXMOD - 1 THEN 0 ELSE t + 1
<1> DEFINE d == IDXMOD
           r == IF t = d - 1 THEN 0 ELSE t + 1
           q == IF t = d - 1 THEN 1 ELSE 0
<1>1. d \in Nat \ {0}
  BY Sizes
<1>2. r \in 0..(d-1) /\ q \in Int /\ t + 1 = d * q + r
  BY <1>1 DEF Index
<1> HIDE DEF d, r, q
<1>3. (t + 1) % d = r
  BY <1>1, <1>2, ModUnique
<1> QED BY <1>2, <1>3 DEF d, r, Index

(* Producing adds one entry, consuming removes one.                        *)
LEMMA PendingSteps ==
  ASSUME NEW h \in Index, NEW t \in Index
  PROVE  /\ Pending(h, t) + 1 < NUM => Pending(h, (t + 1) % IDXMOD) = Pending(h, t) + 1
         /\ h # t => Pending((h + 1) % IDXMOD, t) = Pending(h, t) - 1 /\ Pending(h, t) > 0
         /\ h = t => Pending(h, t) = 0
<1> DEFINE tt == (t + 1) % IDXMOD
           hh == (h + 1) % IDXMOD
<1>1. /\ tt \in Index /\ tt = IF t = IDXMOD - 1 THEN 0 ELSE t + 1
      /\ hh \in Index /\ hh = IF h = IDXMOD - 1 THEN 0 ELSE h + 1
  BY NextIndex
<1> HIDE DEF tt, hh
<1>2. /\ Pending(h, t) = IF h <= t THEN t - h ELSE t - h + IDXMOD
      /\ Pending(h, tt) = IF h <= tt THEN tt - h ELSE tt - h + IDXMOD
      /\ Pending(hh, t) = IF hh <= t THEN t - hh ELSE t - hh + IDXMOD
  BY <1>1, PendingIs
<1> DEFINE P == Pending(h, t)
           Q == Pending(h, tt)
           R == Pending(hh, t)
           d == IDXMOD
           n == NUM
<1>3. d \in Nat /\ n \in Nat /\ n <= d
  BY Sizes
<1>4. /\ h \in Int /\ t \in Int /\ 0 <= h /\ h < d /\ 0 <= t /\ t < d
      /\ tt = (IF t = d - 1 THEN 0 ELSE t + 1) /\ hh = (IF h = d - 1 THEN 0 ELSE h + 1)
      /\ P = (IF h <= t THEN t - h ELSE t - h + d)
      /\ Q = (IF h <= tt THEN tt - h ELSE tt - h + d)
      /\ R = (IF hh <= t THEN t - hh ELSE t - hh + d)
  BY <1>1, <1>2, <1>3 DEF Index
<1> HIDE DEF P, Q, R, d, n
<1>5. /\ P + 1 < n => Q = P + 1
      /\ h # t => R = P - 1 /\ P > 0
      /\ h = t => P = 0
  BY <1>3, <1>4
<1> QED BY <1>5 DEF P, Q, R, tt, hh, n

(* The slot of the n-th entry: distinct entries have distinct slots, the   *)
(* producer's slot is that of the entry after the last, and an index that  *)
(* was stepped counts from there.                                          *)
LEMMA SlotsApart ==
  ASSUME NEW h \in Index, NEW m \in 0..(NUM - 1), NEW n \in 0..(NUM - 1), (h + m) % NUM = (h + n) % NUM
  PROVE  m = n
<1>1. h + m \in Int /\ h + n \in Int /\ m \in Int /\ n \in Int /\ h \in Int /\ NUM \in Nat \ {0}
  BY Sizes DEF Index
<1>2. CASE m <= n
  <2>1. h + m <= h + n /\ h + n < h + m + NUM
    BY <1>1, <1>2
  <2>2. h + m = h + n
    BY Zenon, <1>1, <2>1, ModNear
  <2> QED BY <1>1, <2>2
<1>3. CASE n <= m
  <2>1. h + n <= h + m /\ h + m < h + n + NUM
    BY <1>1, <1>3
  <2>2. h + n = h + m
    BY Zenon, <1>1, <2>1, ModNear
  <2> QED BY <1>1, <2>2
<1> QED BY <1>1, <1>2, <1>3

LEMMA SlotOfTail ==
  ASSUME NEW h \in Index, NEW t \in Index
  PROVE  t % NUM = (h + Pending(h, t)) % NUM
<1> DEFINE P == Pending(h, t)
           d == IDXMOD
           q == IF h <= t THEN 0 ELSE 1
<1>1. P \in Int /\ P = IF h <= t THEN t - h ELSE t - h + d
  BY Sizes, PendingIs DEF Index
<1>2. d \in Nat \ {0} /\ NUM \in Nat \ {0} /\ d % NUM = 0
  BY Sizes
<1> HIDE DEF P
<1>3. h \in Int /\ t \in 0..(d-1) /\ q \in Int /\ h + P = d * q + t /\ h + P \in Int
  BY <1>1, <1>2 DEF Index
<1> HIDE DEF d, q
<1>4. (h + P) % d = t
  BY Zenon, <1>2, <1>3, ModUnique
<1>5. ((h + P) % d) % NUM = (h + P) % NUM
  BY Zenon, <1>2, <1>3, ModMod
<1> QED BY <1>4, <1>5 DEF P

LEMMA SlotOfNext ==
  ASSUME NEW h \in Index, NEW n \in Nat
  PROVE  (((h + 1) % IDXMOD) + n) % NUM = (h + (n + 1)) % NUM
<1> DEFINE d == IDXMOD
           a == (h + 1) % d
<1>1. d \in Nat \ {0} /\ NUM \in Nat \ {0} /\ d % NUM = 0
  BY Sizes
<1>2. h \in Int /\ h + 1 \in Int /\ n \in Int
  BY <1>1 DEF Index
<1>3. a \in Int
  BY <1>1, <1>2, ModDef
<1>4. a % NUM = (h + 1) % NUM
  BY Zenon, <1>1, <1>2, ModMod
<1> HIDE DEF a, d
<1>5. (a + n) % NUM = ((a % NUM) + n) % NUM
  BY Zenon, <1>1, <1>2, <1>3, ModAdd
<1>6. (((h + 1) % NUM) + n) % NUM = ((h + 1) + n) % NUM
  BY Zenon, <1>1, <1>2, ModAdd
<1>7. (h + 1) + n = h + (n + 1)
  BY <1>2
<1> QED BY <1>4, <1>5, <1>6, <1>7 DEF a, d

(* A producer puts x into a ring with room for it.                         *)
LEMMA RingPut ==
  ASSUME NEW ring \in [Desc -> Desc], NEW h \in Index, NEW t \in Index, NEW x \in Desc,
         RingOK(ring, h, t), Pending(h, t) + 1 < NUM, x \notin Items(ring, h, t)
  PROVE  LET r == [ring EXCEPT ![t % NUM] = x]  u == (t + 1) % IDXMOD IN
         r \in [Desc -> Desc] /\ u \in Index /\ RingOK(r, h, u) /\ Items(r, h, u) = Items(ring, h, t) \cup {x}
<1> DEFINE r == [ring EXCEPT ![t % NUM] = x]
           u == (t + 1) % IDXMOD
           P == Pending(h, t)
<1>1. P \in Nat /\ NUM \in Nat /\ h \in Int /\ t \in Int
  BY Sizes, PendingIs DEF Index
<1>2. Pending(h, u) = P + 1 /\ u \in Index
  BY PendingSteps, NextIndex
<1>3. t % NUM = (h + P) % NUM /\ t % NUM \in Desc
  BY <1>1, SlotOfTail, Slot
<1>4. r \in [Desc -> Desc] /\ r[t % NUM] = x /\ \A s \in Desc : s # t % NUM => r[s] = ring[s]
  BY <1>3
<1> HIDE DEF r, u
<1>5. ASSUME NEW n \in 0..(P - 1) PROVE Entry(r, h, n) = Entry(ring, h, n)
  <2>1. n \in 0..(NUM - 1) /\ P \in 0..(NUM - 1) /\ n # P /\ h + n \in Int
    BY <1>1
  <2>2. (h + n) % NUM # t % NUM
    BY Zenon, <2>1, <1>3, SlotsApart
  <2>3. (h + n) % NUM \in Desc
    BY <2>1, Slot
  <2> QED BY <1>4, <2>2, <2>3 DEF Entry
<1>6. Entry(r, h, P) = x
  BY <1>3, <1>4 DEF Entry
<1>7. 0..((P + 1) - 1) = 0..(P - 1) \cup {P}
  BY <1>1
<1> HIDE DEF P
<1>8. \A n \in 0..(P - 1) : Entry(ring, h, n) # x
  BY Zenon DEF Items, P
<1>9. \A m, n \in 0..(P - 1) : Entry(ring, h, m) = Entry(ring, h, n) => m = n
  BY Zenon DEF RingOK, P
<1>10. \A m, n \in 0..(Pending(h, u) - 1) : Entry(r, h, m) = Entry(r, h, n) => m = n
  <2> SUFFICES ASSUME NEW m \in 0..(P - 1) \cup {P}, NEW n \in 0..(P - 1) \cup {P}, Entry(r, h, m) = Entry(r, h, n)
               PROVE  m = n
    BY Zenon, <1>2, <1>7
  <2>1. CASE m = P \/ n = P
    BY Zenon, <2>1, <1>5, <1>6, <1>8
  <2>2. CASE m # P /\ n # P
    BY Zenon, <2>2, <1>5, <1>9
  <2> QED BY Zenon, <2>1, <2>2
<1>11. Items(r, h, u) = {Entry(r, h, n) : n \in 0..(P - 1) \cup {P}}
  BY Zenon, <1>2, <1>7 DEF Items
<1>12. Items(ring, h, t) = {Entry(ring, h, n) : n \in 0..(P - 1)}
  BY Zenon DEF Items, P
<1>13. Items(r, h, u) = Items(ring, h, t) \cup {x}
  BY Zenon, <1>5, <1>6, <1>11, <1>12
<1>14. Pending(h, u) < NUM
  BY <1>2 DEF P
<1> QED BY Zenon, <1>2, <1>4, <1>10, <1>13, <1>14 DEF RingOK, r, u

(* A consumer takes the first entry of a ring that has one; what becomes   *)
(* of its slot does not matter.                                            *)
LEMMA RingTake ==
  ASSUME NEW ring \in [Desc -> Desc], NEW h \in Index, NEW t \in Index, RingOK(ring, h, t), h # t
  PROVE  LET r == [ring EXCEPT ![h % NUM] = 0]  g == (h + 1) % IDXMOD  x == ring[h % NUM] IN
         /\ r \in [Desc -> Desc] /\ g \in Index /\ RingOK(r, g, t)
         /\ x \in Desc /\ x \in Items(ring, h, t) /\ Items(r, g, t) = Items(ring, h, t) \ {x}
<1> DEFINE r == [ring EXCEPT ![h % NUM] = 0]
           g == (h + 1) % IDXMOD
           P == Pending(h, t)
           x == ring[h % NUM]
<1>1. P \in Nat /\ NUM \in Nat /\ h \in Int /\ t \in Int /\ P < NUM
  BY Sizes, PendingIs DEF Index, RingOK
<1>2. Pending(g, t) = P - 1 /\ g \in Index /\ P > 0
  BY PendingSteps, NextIndex
<1>3. h % NUM = (h + 0) % NUM /\ h % NUM \in Desc /\ 0 \in Desc
  <2>1. h % NUM = (h + 0) % NUM /\ h % NUM \in Desc
    BY <1>1, Slot
  <2>2. 0 \in Desc
    BY Sizes DEF Desc
  <2> QED BY <2>1, <2>2
<1>4. r \in [Desc -> Desc] /\ \A s \in Desc : s # h % NUM => r[s] = ring[s]
  BY <1>3
<1>5. x = Entry(ring, h, 0) /\ x \in Desc
  BY <1>3 DEF Entry
<1> HIDE DEF r, x
<1>6. ASSUME NEW n \in 0..(P - 2) PROVE Entry(r, g, n) = Entry(ring, h, n + 1)
  <2>1. n \in Nat /\ n + 1 \in 0..(NUM - 1) /\ 0 \in 0..(NUM - 1) /\ n + 1 # 0 /\ h + (n + 1) \in Int
    BY <1>1
  <2>2. (g + n) % NUM = (h + (n + 1)) % NUM
    BY <2>1, SlotOfNext
  <2> DEFINE m == n + 1
  <2>3. m \in 0..(NUM - 1) /\ 0 \in 0..(NUM - 1) /\ m # 0
    BY <2>1
  <2> HIDE DEF m
  <2>4. (h + m) % NUM # h % NUM
    BY Zenon, <2>3, <1>3, SlotsApart
  <2>5. (h + m) % NUM \in Desc
    BY <2>1, Slot DEF m
  <2> QED BY <1>4, <2>2, <2>4, <2>5 DEF Entry, m
<1> HIDE DEF g
<1>7. \A n \in 0..(P - 2) : n + 1 \in 0..(P - 1) /\ n + 1 # 0 /\ n \in Int
  BY <1>1
<1>8. \A k \in 0..(P - 1) : k # 0 => k - 1 \in 0..(P - 2) /\ (k - 1) + 1 = k
  BY <1>1
<1>9. 0 \in 0..(P - 1) /\ (P - 1) - 1 = P - 2
  BY <1>1, <1>2
<1>10. \A m, n \in 0..(P - 1) : Entry(ring, h, m) = Entry(ring, h, n) => m = n
  BY Zenon DEF RingOK
<1>11. Items(ring, h, t) = {Entry(ring, h, n) : n \in 0..(P - 1)}
  BY Zenon DEF Items
<1>12. Items(r, g, t) = {Entry(r, g, n) : n \in 0..(P - 2)}
  BY Zenon, <1>2, <1>9 DEF Items
<1> HIDE DEF P
<1>13. x \in Items(ring, h, t)
  BY Zenon, <1>5, <1>9, <1>11
<1>14. ASSUME NEW y \in Items(r, g, t) PROVE y \in Items(ring, h, t) \ {x}
  <2>1. PICK n \in 0..(P - 2) : y = Entry(r, g, n)
    BY Zenon, <1>12
  <2>2. y = Entry(ring, h, n + 1) /\ n + 1 \in 0..(P - 1) /\ n + 1 # 0
    BY Zenon, <2>1, <1>6, <1>7
  <2> QED BY Zenon, <2>2, <1>5, <1>9, <1>10, <1>11
<1>15. ASSUME NEW y \in Items(ring, h, t) \ {x} PROVE y \in Items(r, g, t)
  <2>1. PICK k \in 0..(P - 1) : y = Entry(ring, h, k)
    BY Zenon, <1>11
  <2>2. k # 0
    BY Zenon, <2>1, <1>5
  <2>3. k - 1 \in 0..(P - 2) /\ (k - 1) + 1 = k
    BY Zenon, <2>2, <1>8
  <2>4. y = Entry(r, g, k - 1)
    BY Zenon, <2>1, <2>3, <1>6
  <2> QED BY Zenon, <2>3, <2>4, <1>12
<1>16. ASSUME NEW m \in 0..(P - 2), NEW n \in 0..(P - 2), Entry(r, g, m) = Entry(r, g, n) PROVE m = n
  <2>1. m + 1 \in 0..(P - 1) /\ n + 1 \in 0..(P - 1) /\ m \in Int /\ n \in Int
    BY Zenon, <1>7
  <2>2. m + 1 = n + 1
    BY Zenon, <2>1, <1>6, <1>10, <1>16
  <2> QED BY <2>1, <2>2
<1>17. Pending(g, t) < NUM
  BY <1>1, <1>2
<1>18. RingOK(r, g, t)
  BY Zenon, <1>2, <1>9, <1>16, <1>17 DEF RingOK
<1>19. Items(r, g, t) = Items(ring, h, t) \ {x}
  BY <1>14, <1>15
<1> QED BY Zenon, <1>2, <1>4, <1>5, <1>13, <1>18, <1>19 DEF r, g, x

(* A ring has at most as many entries as the set that they are in.         *)
LEMMA RingBound ==
  ASSUME NEW ring \in [Desc -> Desc], NEW h \in Index, NEW t \in Index, RingOK(ring, h, t),
         NEW S, IsFiniteSet(S), Items(ring, h, t) \subseteq S
  PROVE  Pending(h, t) <= Cardinality(S)
<1> DEFINE P == Pending(h, t)
           D == 0..(P - 1)
           f == [n \in D |-> Entry(ring, h, n)]
<1>1. P \in Nat
  BY Sizes, PendingIs DEF Index
<1>2. \A n \in D : Entry(ring, h, n) \in S
  BY Zenon DEF Items
<1>3. \A m, n \in D : Entry(ring, h, m) = Entry(ring, h, n) => m = n
  BY Zenon DEF RingOK
<1> HIDE DEF D, P
<1>4. f \in Injection(D, S)
  BY <1>2, <1>3 DEF Injection, IsInjective
<1> HIDE DEF f
<1>5. Cardinality(D) <= Cardinality(S)
  BY Zenon, <1>4, FS_Injection
<1>6. Cardinality(D) = P
  <2>1. 0 \in Int /\ P - 1 \in Int
    BY <1>1
  <2>2. Cardinality(D) = IF 0 > P - 1 THEN 0 ELSE P - 1 - 0 + 1
    BY Zenon, <2>1, FS_Interval DEF D
  <2> QED BY <1>1, <2>2
<1> QED BY <1>5, <1>6 DEF P

(* A ring is empty exactly when the indices agree.                         *)
LEMMA RingEmpty ==
  ASSUME NEW ring, NEW h \in Index, Items(ring, h, h) # {}
  PROVE  FALSE
<1>1. Pending(h, h) = 0
  BY PendingSteps
<1>2. 0..(0 - 1) = {}
  OBVIOUS
<1> QED BY Zenon, <1>1, <1>2 DEF Items

-----------------------------------------------------------------------------
(* Processes.  Where sleepers wake up.                                     *)
LEMMA BackIs ==
  /\ Back(Free) = "rw"
  /\ \A b : Back(<<"lock", b>>) = "lock" /\ Back(<<"buf", b>>) = "wait"
  /\ \A c \in Chans : Back(c) \in {"rw", "lock", "wait"}
<1>1. Back(Free) = "rw"
  BY DEF Back, Free
<1>2. \A b : Back(<<"lock", b>>) = "lock" /\ Back(<<"buf", b>>) = "wait"
  BY DEF Back
<1>3. ASSUME NEW c \in Chans PROVE Back(c) \in {"rw", "lock", "wait"}
  <2>1. CASE c = Free
    BY <1>1, <2>1
  <2>2. CASE c \in {"lock", "buf"} \X Buf
    <3>1. c = <<"lock", c[2]>> \/ c = <<"buf", c[2]>>
      BY <2>2
    <3> QED BY <1>2, <3>1
  <2> QED BY <2>1, <2>2 DEF Chans
<1> QED BY <1>1, <1>2, <1>3

(* The fields of two places agree but for pc and chan.                     *)
SameFields(s, r) == s.op = r.op /\ s.blk = r.blk /\ s.b = r.b /\ s.write = r.write /\ s.i = r.i

(* A step leaves process q where it is: in the same place of the same      *)
(* call.  It may go to sleep there or wake up.                             *)
Same(q) == Place(q)' = Place(q) /\ SameFields(loc'[q], loc[q])
(* It did not fall asleep.                                                 *)
Slept(q) == loc'[q].pc = "sleep" => loc[q].pc = "sleep" /\ loc'[q].chan = loc[q].chan

(* wakeup() leaves everyone where they are, and none asleep on chan.       *)
LEMMA WakeupIs ==
  ASSUME NEW l \in [Proc -> LocType], NEW chan \in Chans, NEW q \in Proc
  PROVE  LET w == wakeup(l, chan) IN
         /\ w[q] \in LocType /\ PlaceIn(w, q) = PlaceIn(l, q) /\ SameFields(w[q], l[q])
         /\ w[q].pc = "sleep" => l[q].pc = "sleep" /\ w[q].chan = l[q].chan /\ l[q].chan # chan
<1> DEFINE w == wakeup(l, chan)
<1>1. Back(chan) \in Places /\ Back(chan) # "sleep"
  BY BackIs DEF Places
<1>2. CASE l[q].pc = "sleep" /\ l[q].chan = chan
  <2>1. w[q] = [l[q] EXCEPT !.pc = Back(chan)]
    BY <1>2 DEF wakeup
  <2> QED BY <1>1, <1>2, <2>1 DEF LocType, PlaceIn, SameFields
<1>3. CASE ~(l[q].pc = "sleep" /\ l[q].chan = chan)
  <2>1. w[q] = l[q]
    BY <1>3 DEF wakeup
  <2> QED BY <1>3, <2>1 DEF PlaceIn, SameFields
<1> QED BY <1>2, <1>3

LEMMA WakeupType ==
  ASSUME NEW l \in [Proc -> LocType], NEW chan \in Chans
  PROVE  wakeup(l, chan) \in [Proc -> LocType]
<1>1. \A q \in Proc : wakeup(l, chan)[q] \in LocType
  BY Zenon, WakeupIs
<1> HIDE DEF LocType
<1> QED BY <1>1 DEF wakeup

(* Who goes to sleep is at the test that follows sleep().                  *)
Dozes(w, l, p, chan) ==
  /\ w \in [Proc -> LocType] /\ (\A q \in Proc \ {p} : w[q] = l[q])
  /\ w[p].pc = "sleep" /\ w[p].chan = chan
  /\ PlaceIn(w, p) = Back(chan) /\ SameFields(w[p], l[p])

LEMMA AsleepIs ==
  ASSUME NEW l \in [Proc -> LocType], NEW p \in Proc, NEW chan \in Chans
  PROVE  Dozes(Asleep(l, p, chan), l, p, chan)
<1> USE Zenon
<1> DEFINE w == Asleep(l, p, chan)
           r == [[l[p] EXCEPT !.pc = "sleep"] EXCEPT !.chan = chan]
<1>1. w = [l EXCEPT ![p] = r]
  BY DEF Asleep
<1>2. r \in LocType /\ r.pc = "sleep" /\ r.chan = chan /\ SameFields(r, l[p])
  BY DEF LocType, SameFields
<1> HIDE DEF r, w, LocType, SameFields
<1>3. w \in [Proc -> LocType] /\ w[p] = r /\ (\A q \in Proc \ {p} : w[q] = l[q])
  BY <1>1, <1>2
<1>4. PlaceIn(w, p) = Back(chan)
  BY <1>2, <1>3 DEF PlaceIn
<1>5. Dozes(w, l, p, chan)
  BY <1>2, <1>3, <1>4 DEF Dozes
<1> QED BY <1>5 DEF w

(* Who did not change is the same.                                         *)
LEMMA UnchangedSame ==
  ASSUME NEW q \in Proc, loc'[q] = loc[q]
  PROVE  Same(q) /\ Slept(q)
BY DEF Same, Slept, Place, PlaceIn, SameFields

(* A step in which one process moves on.                                   *)
Moves(p, r) == loc' \in [Proc -> LocType] /\ loc'[p] = r /\ (\A q \in Proc \ {p} : Same(q) /\ Slept(q))

LEMMA MoveIs ==
  ASSUME TypeInv, NEW p \in Proc, NEW r \in LocType, loc' = [loc EXCEPT ![p] = r]
  PROVE  Moves(p, r)
<1>1. loc \in [Proc -> LocType]
  BY DEF TypeInv
<1>2. loc' \in [Proc -> LocType] /\ loc'[p] = r /\ \A q \in Proc \ {p} : loc'[q] = loc[q]
  BY <1>1
<1> QED BY Zenon, <1>2, UnchangedSame DEF Moves

(* The place of a process that is not asleep.                              *)
LEMMA Awake ==
  ASSUME NEW p \in Proc
  PROVE  /\ loc[p].pc # "sleep" => Place(p) = loc[p].pc
         /\ loc'[p].pc # "sleep" => Place(p)' = loc'[p].pc
BY DEF Place, PlaceIn

-----------------------------------------------------------------------------
(* What a step keeps.                                                      *)

SameBuf(c) == /\ buf'[c].blockno = buf[c].blockno /\ buf'[c].valid = buf[c].valid
              /\ buf'[c].lock = buf[c].lock /\ buf'[c].disk = buf[c].disk

(* A buffer that is locked is in use.                                      *)
LEMMA LockedInUse ==
  ASSUME TypeInv, PlaceInv, NEW b \in Buf, buf[b].lock # NULL
  PROVE  buf[b].lock \in Refs(b) /\ buf[b].lock \in Proc
<1>1. buf[b].lock \in Proc
  BY DEF TypeInv, BufType
<1>2. Place(buf[b].lock) \in Holds /\ loc[buf[b].lock].b = b
  BY Zenon, <1>1 DEF PlaceInv, BufOK
<1> QED BY <1>1, <1>2 DEF Refs, Holds

(* A block is in one buffer, and one process has it.                       *)
LEMMA OneHolder ==
  ASSUME PlaceInv, NEW p \in Proc, NEW q \in Proc, loc[p].blk = loc[q].blk
  PROVE  /\ Place(p) # "idle" /\ Place(q) # "idle" => loc[p].b = loc[q].b
         /\ Place(p) \in Holds /\ Place(q) \in Holds => p = q
<1>1. CASE Place(p) # "idle" /\ Place(q) # "idle"
  <2>1. /\ loc[p].b \in Buf /\ loc[p].blk \in Block /\ buf[loc[p].b].blockno = loc[p].blk
        /\ loc[q].b \in Buf /\ buf[loc[q].b].blockno = loc[q].blk
    BY Zenon, <1>1 DEF PlaceInv, PlaceOK
  <2>2. loc[p].blk # NoBlock
    BY <2>1, CacheAssumption DEF NoBlock
  <2>3. loc[p].b = loc[q].b
    <3>1. BufOK(loc[p].b)
      BY Zenon, <2>1 DEF PlaceInv
    <3> QED BY <2>1, <2>2, <3>1 DEF BufOK
  <2>4. Place(p) \in Holds /\ Place(q) \in Holds => buf[loc[p].b].lock = p /\ buf[loc[q].b].lock = q
    BY Zenon DEF PlaceInv, PlaceOK
  <2> QED BY Zenon, <2>3, <2>4
<1>2. Place(p) \in Holds => Place(p) # "idle"
  BY DEF Holds
<1>3. Place(q) \in Holds => Place(q) # "idle"
  BY Zenon DEF Holds
<1> QED BY <1>1, <1>2, <1>3

(* The invariant of a process that did not move, if its buffer keeps what  *)
(* it relies on.                                                           *)
LEMMA StaysOK ==
  ASSUME NEW q \in Proc, PlaceOK(q), Same(q),
         Place(q) # "idle" => buf'[loc[q].b].blockno = buf[loc[q].b].blockno,
         Place(q) \in Holds => /\ buf'[loc[q].b].lock = buf[loc[q].b].lock
                               /\ buf'[loc[q].b].valid = buf[loc[q].b].valid
  PROVE  PlaceOK(q)'
<1> DEFINE x == buf[loc[q].b]
           y == buf'[loc[q].b]
           s == loc[q]
           t == loc'[q]
           P == Place(q)
<1>1. Place(q)' = P /\ t.op = s.op /\ t.blk = s.blk /\ t.b = s.b /\ t.write = s.write
  BY DEF Same, SameFields
<1>2. P # "idle" => y.blockno = x.blockno
  OBVIOUS
<1>3. P \in Holds => y.lock = x.lock /\ y.valid = x.valid
  OBVIOUS
<1>4. /\ P \in Places /\ (P = "idle" => s.op = "none")
      /\ P # "idle" => s.b \in Buf /\ s.blk \in Block /\ s.op \in Ops /\ x.blockno = s.blk
      /\ P \in Holds => x.lock = q
      /\ P \in Holds \ InRw => x.valid
      /\ P \in InRw => (x.valid <=> s.write)
      /\ P \notin InRw => ~s.write
      /\ s.write => s.op \in {"write", "install"}
      /\ P = "unpin" => s.op = "install"
  BY DEF PlaceOK
<1>5. P \in InRw => P \in Holds
  BY DEF InRw, Holds
<1> HIDE DEF x, y, s, t, P
<1>6. /\ P \in Places /\ (P = "idle" => t.op = "none")
      /\ P # "idle" => t.b \in Buf /\ t.blk \in Block /\ t.op \in Ops /\ y.blockno = t.blk
      /\ P \in Holds => y.lock = q
      /\ P \in Holds \ InRw => y.valid
      /\ P \in InRw => (y.valid <=> t.write)
      /\ P \notin InRw => ~t.write
      /\ t.write => t.op \in {"write", "install"}
      /\ P = "unpin" => t.op = "install"
  BY Zenon, <1>1, <1>2, <1>3, <1>4, <1>5
<1> QED BY <1>1, <1>6 DEF PlaceOK, x, y, s, t, P

(* One process moves and one buffer changes.                               *)
PlaceStep(p, b) ==
  /\ \A q \in Proc \ {p} : Same(q)
  /\ \A c \in Buf \ {b} : SameBuf(c)
  /\ buf'[b].blockno = buf[b].blockno \/ Refs(b) = {}
  /\ (buf'[b].lock = buf[b].lock /\ buf'[b].valid = buf[b].valid) \/ buf[b].lock \in {p, NULL}
  /\ Place(p) # "idle" => loc[p].b = b
  /\ PlaceOK(p)' /\ BufOK(b)'

LEMMA PlaceKept ==
  ASSUME TypeInv, TypeInv', PlaceInv, NEW p \in Proc, NEW b \in Buf, PlaceStep(p, b)
  PROVE  PlaceInv'
<1> USE Zenon
<1>1. ASSUME NEW q \in Proc \ {p} PROVE PlaceOK(q)'
  <2>1. PlaceOK(q) /\ Same(q)
    BY DEF PlaceInv, PlaceStep
  <2>2. CASE Place(q) # "idle" /\ loc[q].b = b
    <3>1. q \in Refs(b)
      BY <2>2 DEF Refs
    <3>2. buf'[b].blockno = buf[b].blockno
      BY <3>1 DEF PlaceStep
    <3>3. Place(q) \in Holds => buf[b].lock = q /\ q # NULL
      BY <2>1, <2>2, CacheAssumption DEF PlaceOK
    <3>4. Place(q) \in Holds => buf'[b].lock = buf[b].lock /\ buf'[b].valid = buf[b].valid
      BY <3>3 DEF PlaceStep
    <3> QED BY <2>1, <2>2, <3>2, <3>4, StaysOK
  <2>3. CASE Place(q) # "idle" /\ loc[q].b # b
    <3>1. SameBuf(loc[q].b)
      BY <2>1, <2>3 DEF PlaceStep, PlaceOK
    <3> QED BY <2>1, <3>1, StaysOK DEF SameBuf
  <2>4. CASE Place(q) = "idle"
    <3>1. Place(q) \notin Holds
      BY <2>4 DEF Holds
    <3> QED BY <2>1, <2>4, <3>1, StaysOK
  <2> QED BY <2>2, <2>3, <2>4
<1>2. ASSUME NEW c \in Buf \ {b} PROVE BufOK(c)'
  <2>1. BufOK(c) /\ SameBuf(c) /\ BufOK(b)'
    BY DEF PlaceInv, PlaceStep
  <2>2. ASSUME NEW q \in Proc, buf[c].lock = q PROVE Same(q) /\ loc[q].b = c
    <3>1. Place(q) \in Holds /\ loc[q].b = c
      BY <2>1, <2>2 DEF BufOK
    <3>2. Place(q) # "idle"
      BY <3>1 DEF Holds
    <3>3. q # p
      BY <3>1, <3>2 DEF PlaceStep
    <3> QED BY <3>1, <3>3 DEF PlaceStep
  <2>3. ASSUME NEW q \in Proc, buf'[c].lock = q PROVE Place(q)' \in Holds /\ loc'[q].b = c
    <3>1. buf[c].lock = q
      BY <2>1, <2>3 DEF SameBuf
    <3>2. Place(q) \in Holds /\ loc[q].b = c /\ Same(q)
      BY <2>1, <2>2, <3>1 DEF BufOK
    <3> QED BY <3>2 DEF Same, SameFields
  <2>4. ASSUME buf'[c].disk PROVE \E q \in Proc : buf'[c].lock = q /\ Place(q)' = "wait"
    <3>1. PICK q \in Proc : buf[c].lock = q /\ Place(q) = "wait"
      BY <2>1, <2>4 DEF BufOK, SameBuf
    <3>2. Place(q)' = "wait" /\ buf'[c].lock = q
      BY <2>1, <2>2, <3>1 DEF Same, SameBuf
    <3> QED BY <3>2
  <2>5. buf'[c].valid => buf'[c].blockno \in Block
    BY <2>1 DEF SameBuf, BufOK
  <2>6. ASSUME NEW e \in Buf, c # e, buf'[c].blockno # NoBlock PROVE buf'[c].blockno # buf'[e].blockno
    <3>1. CASE e = b
      BY <3>1, <2>1, <2>6 DEF BufOK
    <3>2. CASE e # b
      <4>1. SameBuf(e)
        BY <3>2 DEF PlaceStep
      <4> QED BY <2>1, <2>6, <4>1 DEF SameBuf, BufOK
    <3> QED BY <3>1, <3>2
  <2> QED BY <2>3, <2>4, <2>5, <2>6 DEF BufOK
<1>3. PlaceOK(p)' /\ BufOK(b)'
  BY DEF PlaceStep
<1>4. \A q \in Proc : PlaceOK(q)'
  BY <1>1, <1>3
<1>5. \A c \in Buf : BufOK(c)'
  BY <1>2, <1>3
<1> QED BY <1>4, <1>5 DEF PlaceInv

-----------------------------------------------------------------------------
(* References: the processes that use each buffer, and what is pinned.     *)
SameRefs(c) == /\ \A q \in Proc : q \in Refs(c)' <=> q \in Refs(c)
               /\ buf'[c].refcnt = buf[c].refcnt
               /\ buf'[c].blockno \in pinned' <=> buf[c].blockno \in pinned

LEMMA RefsAre ==
  ASSUME NEW c, NEW q \in Proc
  PROVE  /\ q \in Refs(c) <=> Place(q) # "idle" /\ loc[q].b = c
         /\ q \in Refs(c)' <=> Place(q)' # "idle" /\ loc'[q].b = c
BY Zenon DEF Refs

LEMMA RefsFinite ==
  ASSUME NEW c
  PROVE  /\ Refs(c) \subseteq Proc /\ Refs(c)' \subseteq Proc /\ IsFiniteSet(Refs(c))
         /\ Cardinality(Refs(c)) \in Nat
<1>1. Refs(c) \subseteq Proc /\ Refs(c)' \subseteq Proc
  BY DEF Refs
<1>2. IsFiniteSet(Refs(c))
  BY <1>1, CacheAssumption, FS_Subset
<1> QED BY <1>1, <1>2, FS_CardinalityType

LEMMA RefKept ==
  ASSUME NEW c \in Buf, RefOK(c), SameRefs(c)
  PROVE  RefOK(c)'
<1> USE Zenon
<1>1. Refs(c)' = Refs(c)
  <2>1. Refs(c) \subseteq Proc /\ Refs(c)' \subseteq Proc
    BY RefsFinite
  <2>2. \A q \in Proc : q \in Refs(c)' <=> q \in Refs(c)
    BY DEF SameRefs
  <2> QED BY <2>1, <2>2
<1>2. Cardinality(Refs(c))' = Cardinality(Refs(c))
  BY <1>1
<1> QED BY <1>2 DEF SameRefs, RefOK

(* A process starts to use a buffer, or stops.                             *)
LEMMA RefsGrow ==
  ASSUME NEW c \in Buf, NEW p \in Proc, p \notin Refs(c), p \in Refs(c)',
         \A q \in Proc \ {p} : q \in Refs(c)' <=> q \in Refs(c)
  PROVE  Cardinality(Refs(c))' = Cardinality(Refs(c)) + 1
<1> USE Zenon
<1>1. Refs(c) \subseteq Proc /\ Refs(c)' \subseteq Proc /\ IsFiniteSet(Refs(c))
  BY RefsFinite
<1>2. Refs(c)' = Refs(c) \cup {p}
  BY <1>1
<1>3. Cardinality(Refs(c) \cup {p}) = Cardinality(Refs(c)) + 1
  BY <1>1, FS_AddElement
<1> QED BY <1>2, <1>3

LEMMA RefsShrink ==
  ASSUME NEW c \in Buf, NEW p \in Proc, p \in Refs(c), p \notin Refs(c)',
         \A q \in Proc \ {p} : q \in Refs(c)' <=> q \in Refs(c)
  PROVE  Cardinality(Refs(c))' = Cardinality(Refs(c)) - 1
<1> USE Zenon
<1>1. Refs(c) \subseteq Proc /\ Refs(c)' \subseteq Proc /\ IsFiniteSet(Refs(c))
  BY RefsFinite
<1>2. Refs(c)' = Refs(c) \ {p}
  BY <1>1
<1>3. Cardinality(Refs(c) \ {p}) = Cardinality(Refs(c)) - 1
  BY <1>1, FS_RemoveElement
<1> QED BY <1>2, <1>3

(* Its reference count follows, and that of a buffer whose block bunpin()  *)
(* unpins.                                                                 *)
Pinned(c) == buf[c].blockno \in pinned

LEMMA CountGrows ==
  ASSUME NEW c \in Buf, RefOK(c), Cardinality(Refs(c)) \in Nat, Pinned(c)' <=> Pinned(c),
         Cardinality(Refs(c))' = Cardinality(Refs(c)) + 1, buf'[c].refcnt = buf[c].refcnt + 1
  PROVE  RefOK(c)'
BY SMT DEF RefOK, Pinned

LEMMA CountShrinks ==
  ASSUME NEW c \in Buf, RefOK(c), Cardinality(Refs(c)) \in Nat, Pinned(c)' <=> Pinned(c),
         Cardinality(Refs(c))' = Cardinality(Refs(c)) - 1, buf'[c].refcnt = buf[c].refcnt - 1
  PROVE  RefOK(c)'
BY SMT DEF RefOK, Pinned

LEMMA CountUnpinned ==
  ASSUME NEW c \in Buf, RefOK(c), Cardinality(Refs(c)) \in Nat, Pinned(c), ~Pinned(c)',
         Cardinality(Refs(c))' = Cardinality(Refs(c)), buf'[c].refcnt = buf[c].refcnt - 1
  PROVE  RefOK(c)'
BY SMT DEF RefOK, Pinned

(* An unused buffer: nobody refers to it, and its block is not pinned.     *)
LEMMA UnusedIs ==
  ASSUME NEW c \in Buf, RefOK(c), buf[c].refcnt = 0
  PROVE  Refs(c) = {} /\ buf[c].blockno \notin pinned
<1>1. Cardinality(Refs(c)) \in Nat /\ IsFiniteSet(Refs(c))
  BY Zenon, RefsFinite
<1>2. Cardinality(Refs(c)) = 0 /\ buf[c].blockno \notin pinned
  BY <1>1 DEF RefOK
<1> QED BY Zenon, <1>1, <1>2, FS_EmptySet

(* Requests: those who wait go on waiting, and no request is made, done or *)
(* taken from the used ring.                                               *)
rings == <<avail, used, used_idx, lastAvail, inflight>>
ReqStep ==
  /\ UNCHANGED <<free, desc, ops, info>> /\ Out' = Out /\ Done' = Done
  /\ \A q \in Proc : Place(q)' = "wait" <=> Place(q) = "wait"
  /\ \A q \in Waiting : Same(q) /\ buf'[loc[q].b].disk = buf[loc[q].b].disk

LEMMA RingsKept ==
  ASSUME UNCHANGED rings
  PROVE  Offered' = Offered /\ Done' = Done /\ Out' = Out /\ inflight' = inflight /\ (RingInv => RingInv')
<1> USE Zenon
<1>1. avail' = avail /\ used' = used /\ used_idx' = used_idx /\ lastAvail' = lastAvail /\ inflight' = inflight
  BY DEF rings
<1>2. Offered' = Offered /\ Done' = Done
  BY <1>1 DEF Offered, Done
<1>3. Out' = Out
  BY <1>1, <1>2 DEF Out
<1> QED BY <1>1, <1>2, <1>3 DEF RingInv

LEMMA WaitingKept ==
  ASSUME \A q \in Proc : Place(q)' = "wait" <=> Place(q) = "wait"
  PROVE  Waiting' = Waiting
BY Zenon DEF Waiting

LEMMA ReqKept ==
  ASSUME ReqInv, ReqStep
  PROVE  ReqInv'
<1> USE Zenon
<1>1. Out' = Out /\ Done' = Done
  BY DEF ReqStep
<1>2. Waiting' = Waiting
  BY WaitingKept DEF ReqStep
<1>3. free' = free /\ desc' = desc /\ ops' = ops /\ info' = info
  BY DEF ReqStep
<1>4. \A q \in Waiting : SameFields(loc'[q], loc[q]) /\ buf'[loc[q].b].disk = buf[loc[q].b].disk
  BY DEF ReqStep, Same
<1>5. ASSUME NEW q \in Waiting PROVE ReqOK(q)'
  <2>1. ReqOK(q)
    BY DEF ReqInv
  <2>2. loc'[q].b = loc[q].b /\ loc'[q].i = loc[q].i /\ loc'[q].write = loc[q].write /\ loc'[q].blk = loc[q].blk
    BY <1>4 DEF SameFields
  <2>3. buf'[loc'[q].b].disk = buf[loc[q].b].disk
    BY <2>2, <1>4
  <2>4. ChainOK(q, loc[q].i, desc[loc[q].i].next, desc[desc[loc[q].i].next].next)'
    BY <2>1, <2>2, <1>3 DEF ReqOK, ChainOK
  <2> QED BY <2>1, <2>2, <2>3, <2>4, <1>1, <1>3 DEF ReqOK
<1>6. \A i : Chain(i)' = Chain(i)
  BY <1>3 DEF Chain
<1>7. \A q \in Waiting : loc'[q].i = loc[q].i
  BY <1>4 DEF SameFields
<1>8. ASSUME NEW p \in Waiting, NEW q \in Waiting, p # q PROVE Chain(loc[p].i)' \cap Chain(loc[q].i)' = {}
  <2>1. Chain(loc[p].i) \cap Chain(loc[q].i) = {}
    BY <1>8 DEF ReqInv
  <2>2. Chain(loc[p].i)' = Chain(loc[p].i) /\ Chain(loc[q].i)' = Chain(loc[q].i)
    BY <1>3, <1>7 DEF Chain
  <2> QED BY <2>1, <2>2
<1>9. \A i \in Out \cup Done : \E p \in Waiting : loc'[p].i = i
  BY <1>7 DEF ReqInv
<1> QED BY <1>1, <1>2, <1>5, <1>8, <1>9 DEF ReqInv

(* Data: nothing is stored or transferred.  A process that leaves its      *)
(* place has no write under way, and comes to none that waits for one.     *)
DataStep ==
  /\ UNCHANGED <<platter, content, pinned>> /\ Out' = Out
  /\ \A c \in Buf : /\ buf'[c].data = buf[c].data
                    /\ buf'[c].valid => buf[c].valid /\ buf'[c].blockno = buf[c].blockno
  /\ \A q \in Proc : Same(q) \/ (~loc[q].write /\ Place(q)' \notin {"unpin", "wait"})

LEMMA DataKept ==
  ASSUME PlaceInv, DataInv, DataStep
  PROVE  DataInv'
<1> USE Zenon
<1>1. platter' = platter /\ content' = content /\ pinned' = pinned /\ Out' = Out
  BY DEF DataStep
<1>2. \A q \in Proc : Same(q) \/ (~loc[q].write /\ Place(q)' \notin {"unpin", "wait"})
  BY DEF DataStep
<1>3. \A b \in Buf : buf'[b].valid => buf'[b].data = content'[buf'[b].blockno]
  BY <1>1 DEF DataStep, DataInv
<1>4. ASSUME NEW q \in Proc, Dirty(q) PROVE Dirty(q)' /\ loc'[q].blk = loc[q].blk
  <2>1. Same(q) /\ loc[q].write
    BY <1>2, <1>4 DEF Dirty
  <2> QED BY <2>1, <1>1, <1>4 DEF Same, SameFields, Dirty
<1>5. \A x : OnDisk(x)' <=> OnDisk(x)
  BY <1>1 DEF OnDisk
<1>6. ASSUME NEW x \in Block \ pinned', \A p \in Proc : loc'[p].blk = x => ~Dirty(p)' PROVE OnDisk(x)'
  <2>1. \A p \in Proc : loc[p].blk = x => ~Dirty(p)
    BY <1>4, <1>6
  <2> QED BY <2>1, <1>1, <1>5 DEF DataInv
<1>7. ASSUME NEW p \in Proc, Place(p)' = "unpin" PROVE OnDisk(loc[p].blk)'
  <2>1. Same(p)
    BY <1>2, <1>7
  <2>2. Place(p) = "unpin" /\ loc'[p].blk = loc[p].blk
    BY <2>1, <1>7 DEF Same, SameFields
  <2> QED BY <2>2, <1>1 DEF DataInv, OnDisk
<1>8. ASSUME NEW p \in Proc, Place(p)' = "wait", loc'[p].i \notin Out'
      PROVE  IF loc'[p].write THEN OnDisk(loc[p].blk)' ELSE buf'[loc'[p].b].data = content'[loc'[p].blk]
  <2>1. Same(p)
    BY <1>2, <1>8
  <2>2. Place(p) = "wait" /\ SameFields(loc'[p], loc[p])
    BY <2>1, <1>8 DEF Same
  <2>3. loc'[p].blk = loc[p].blk /\ loc'[p].b = loc[p].b /\ loc'[p].i = loc[p].i /\ loc'[p].write = loc[p].write
    BY <2>2 DEF SameFields
  <2>4. IF loc[p].write THEN OnDisk(loc[p].blk) ELSE buf[loc[p].b].data = content[loc[p].blk]
    BY <2>2, <2>3, <1>1, <1>8 DEF DataInv, Waiting
  <2>5. CASE loc[p].write
    BY <2>3, <2>4, <2>5, <1>1 DEF OnDisk
  <2>6. CASE ~loc[p].write
    <3>1. loc[p].b \in Buf
      BY <2>2 DEF PlaceInv, PlaceOK
    <3>2. buf'[loc[p].b].data = buf[loc[p].b].data
      BY <3>1 DEF DataStep
    <3> QED BY <2>3, <2>4, <2>6, <3>2, <1>1
  <2> QED BY <2>5, <2>6
<1> QED BY <1>3, <1>6, <1>7, <1>8 DEF DataInv, Waiting

(* Pins: a process goes on within its call, and the valid buffers of       *)
(* pinned blocks stay.                                                     *)
PinStep ==
  /\ pinned' = pinned
  /\ \A c \in Buf : buf[c].valid /\ buf[c].blockno \in pinned => buf'[c].valid /\ buf'[c].blockno = buf[c].blockno
  /\ \A q \in Proc : /\ loc'[q].op = loc[q].op /\ loc'[q].blk = loc[q].blk
                     /\ Place(q)' \in Early => Place(q) \in Early

LEMMA PinKept ==
  ASSUME PinInv, PinStep
  PROVE  PinInv'
<1> USE Zenon
<1>1. pinned' = pinned
  BY DEF PinStep
<1>2. ASSUME NEW x \in pinned PROVE \E b \in Buf : buf'[b].blockno = x /\ buf'[b].valid
  <2>1. PICK b \in Buf : buf[b].blockno = x /\ buf[b].valid
    BY DEF PinInv
  <2>2. buf'[b].blockno = x /\ buf'[b].valid
    BY <2>1 DEF PinStep
  <2> QED BY <2>2
<1>3. \A q \in Proc : /\ loc'[q].op = loc[q].op /\ loc'[q].blk = loc[q].blk
                      /\ Place(q)' \in Early => Place(q) \in Early
  BY DEF PinStep
<1>4. \A p \in Proc : loc'[p].op = "install" /\ Place(p)' \in Early => loc'[p].blk \in pinned
  BY <1>3 DEF PinInv
<1>5. ASSUME NEW p \in Proc, NEW q \in Proc, p # q, loc'[p].op = "install", loc'[q].op \in {"log_write", "install"}
      PROVE  loc'[q].blk # loc'[p].blk
  BY <1>3, <1>5 DEF PinInv
<1> QED BY <1>1, <1>2, <1>4, <1>5 DEF PinInv

(* Sleepers: whoever is asleep was, and what it waits for is not there.    *)
LEMMA AsleepInCall ==
  ASSUME TypeInv, PlaceInv, NEW q \in Proc, loc[q].pc = "sleep"
  PROVE  loc[q].b \in Buf
<1>1. loc[q].chan \in Chans
  BY DEF TypeInv, LocType
<1>2. Place(q) # "idle"
  BY <1>1, BackIs DEF Place, PlaceIn
<1> QED BY Zenon, <1>2 DEF PlaceInv, PlaceOK

SleepStep(q) ==
  /\ Same(q) /\ Slept(q)
  /\ loc'[q].chan = Free => Cardinality(free') < 3 \/ free' = free
  /\ \A c \in Buf : /\ loc'[q].chan = <<"lock", c>> => buf'[c].lock # NULL \/ buf'[c].lock = buf[c].lock
                    /\ loc'[q].chan = <<"buf", c>> => buf'[c].disk \/ buf'[c].disk = buf[c].disk

LEMMA SleepKept ==
  ASSUME TypeInv, PlaceInv, NEW q \in Proc, SleepOK(q), loc'[q].pc = "sleep" => SleepStep(q)
  PROVE  SleepOK(q)'
<1> USE Zenon
<1> SUFFICES ASSUME loc'[q].pc = "sleep" PROVE SleepOK(q)'
  BY DEF SleepOK
<1>1. loc[q].pc = "sleep" /\ loc'[q].chan = loc[q].chan /\ loc'[q].b = loc[q].b
  BY DEF SleepStep, Slept, Same, SameFields
<1>2. loc[q].b \in Buf
  BY <1>1, AsleepInCall
<1>3. CASE loc[q].chan = Free /\ Cardinality(free) < 3
  BY <1>1, <1>3 DEF SleepStep, SleepOK
<1>4. CASE loc[q].chan = <<"lock", loc[q].b>> /\ buf[loc[q].b].lock # NULL
  BY <1>1, <1>2, <1>4 DEF SleepStep, SleepOK
<1>5. CASE loc[q].chan = <<"buf", loc[q].b>> /\ buf[loc[q].b].disk
  BY <1>1, <1>2, <1>5 DEF SleepStep, SleepOK
<1> QED BY <1>1, <1>3, <1>4, <1>5 DEF SleepOK

-----------------------------------------------------------------------------
(* The actions of processes.  A step that does nothing but let processes   *)
(* sleep or wake up, where they are.                                       *)
Quiet ==
  /\ UNCHANGED <<buf, mru, free, desc, ops, info, platter, content, pinned>> /\ UNCHANGED rings
  /\ loc' \in [Proc -> LocType] /\ \A q \in Proc : Same(q)

LEMMA QuietKept ==
  ASSUME CoreInv, Quiet
  PROVE  CoreInv'
<1> USE Zenon
<1>1. /\ buf' = buf /\ mru' = mru /\ free' = free /\ desc' = desc /\ ops' = ops /\ info' = info
      /\ platter' = platter /\ content' = content /\ pinned' = pinned
  BY DEF Quiet
<1>2. UNCHANGED rings /\ loc' \in [Proc -> LocType] /\ \A q \in Proc : Same(q)
  BY DEF Quiet
<1>3. /\ avail' = avail /\ used' = used /\ used_idx' = used_idx /\ lastAvail' = lastAvail
      /\ inflight' = inflight
  BY <1>2 DEF rings
<1>4. TypeInv'
  BY <1>1, <1>2, <1>3 DEF TypeInv, CoreInv
<1>5. ASSUME NEW q \in Proc PROVE PlaceOK(q)'
  BY <1>1, <1>2, StaysOK DEF CoreInv, PlaceInv
<1>6. ASSUME NEW b \in Buf PROVE BufOK(b)'
  <2>1. BufOK(b)
    BY DEF CoreInv, PlaceInv
  <2>2. \A q \in Proc : Place(q)' = Place(q) /\ loc'[q].b = loc[q].b
    BY <1>2 DEF Same, SameFields
  <2> QED BY <1>1, <2>1, <2>2 DEF BufOK
<1>7. ASSUME NEW b \in Buf PROVE RefOK(b)'
  <2>1. \A q \in Proc : q \in Refs(b)' <=> q \in Refs(b)
    BY <1>2, RefsAre DEF Same, SameFields
  <2>2. SameRefs(b)
    BY <1>1, <2>1 DEF SameRefs
  <2> QED BY <2>2, RefKept DEF CoreInv, RefInv
<1>8. RingInv'
  BY <1>2, RingsKept DEF CoreInv
<1>9. ReqInv'
  <2>1. ReqStep
    BY <1>1, <1>2, RingsKept DEF ReqStep, Same, Waiting
  <2> QED BY <2>1, ReqKept DEF CoreInv
<1>10. DataInv'
  <2>1. DataStep
    BY <1>1, <1>2, RingsKept DEF DataStep
  <2> QED BY <2>1, DataKept DEF CoreInv
<1>11. PinInv'
  <2>1. PinStep
    BY <1>1, <1>2 DEF PinStep, Same, SameFields
  <2> QED BY <2>1, PinKept DEF CoreInv
<1> QED BY <1>4, <1>5, <1>6, <1>7, <1>8, <1>9, <1>10, <1>11 DEF CoreInv, PlaceInv, RefInv

LEMMA IdleIs == Idle.pc = "idle" /\ Idle.op = "none" /\ ~Idle.write
BY DEF Idle

LEMMA IdleType == Idle \in LocType
<1>1. 0 \in Desc
  BY Sizes DEF Desc
<1>2. Free \in Chans /\ "idle" \in Places
  BY DEF Chans, Places
<1> QED BY <1>1, <1>2 DEF LocType, Idle

(* bget() takes a buffer, found or recycled.                               *)
Taken(p, op, blk, b) ==
  /\ loc' = [loc EXCEPT ![p] = [Idle EXCEPT !.pc = "lock", !.op = op, !.blk = blk, !.b = b]]
  /\ UNCHANGED <<mru, free, desc, ops, info, platter, content, pinned, panicked>> /\ UNCHANGED rings
  /\ UNCHANGED <<irq, vdisk_lock>>
  /\ buf' \in [Buf -> BufType] /\ \A c \in Buf \ {b} : buf'[c] = buf[c]
  /\ buf'[b].blockno = blk /\ buf'[b].disk = buf[b].disk /\ buf'[b].lock = buf[b].lock
  /\ buf'[b].data = buf[b].data
  /\ \/ buf[b].blockno = blk /\ buf'[b].valid = buf[b].valid /\ buf'[b].refcnt = buf[b].refcnt + 1
     \/ Cached(blk) = {} /\ buf[b].refcnt = 0 /\ ~buf'[b].valid /\ buf'[b].refcnt = 1

LEMMA TakenMoves ==
  ASSUME TypeInv, NEW p \in Proc, NEW op \in Ops, NEW blk \in Block, NEW b \in Buf, Taken(p, op, blk, b)
  PROVE  /\ loc' \in [Proc -> LocType] /\ \A q \in Proc \ {p} : Same(q) /\ Slept(q)
         /\ Place(p)' = "lock" /\ loc'[p].pc = "lock"
         /\ loc'[p].op = op /\ loc'[p].blk = blk /\ loc'[p].b = b /\ ~loc'[p].write
<1> USE Zenon
<1> DEFINE r == [Idle EXCEPT !.pc = "lock", !.op = op, !.blk = blk, !.b = b]
<1>1. r \in LocType
  <2>1. "lock" \in Places
    BY DEF Places
  <2> QED BY <2>1, IdleType DEF LocType
<1>2. loc' = [loc EXCEPT ![p] = r]
  BY DEF Taken
<1>3. r.pc = "lock" /\ r.op = op /\ r.blk = blk /\ r.b = b /\ ~r.write
  BY DEF Idle
<1> HIDE DEF r
<1>4. Moves(p, r)
  BY <1>1, <1>2, MoveIs
<1>5. loc'[p] = r
  BY <1>4 DEF Moves
<1>6. Place(p)' = "lock"
  BY <1>3, <1>5, Awake
<1> QED BY <1>3, <1>4, <1>5, <1>6 DEF Moves

LEMMA TakenKept ==
  ASSUME DiskInv, NEW p \in Proc, NEW op \in Ops, NEW blk \in Block, NEW b \in Buf,
         At(p, "idle"), MayCall(op, blk), Taken(p, op, blk, b)
  PROVE  DiskInv'
<1> USE Zenon
<1>1. /\ TypeInv /\ PlaceInv /\ RefInv /\ RingInv /\ ReqInv /\ DataInv /\ PinInv /\ WakeInv /\ panicked = "no"
  BY DEF DiskInv, CoreInv
<1>2. /\ loc' \in [Proc -> LocType] /\ \A q \in Proc \ {p} : Same(q) /\ Slept(q)
      /\ Place(p)' = "lock" /\ loc'[p].pc = "lock"
      /\ loc'[p].op = op /\ loc'[p].blk = blk /\ loc'[p].b = b /\ ~loc'[p].write
  BY <1>1, TakenMoves
<1>3. Place(p) = "idle" /\ loc[p].op = "none" /\ ~loc[p].write
  <2>1. Place(p) = "idle"
    BY Awake DEF At
  <2> QED BY <2>1, <1>1 DEF PlaceInv, PlaceOK, InRw
<1>4. /\ mru' = mru /\ free' = free /\ desc' = desc /\ ops' = ops /\ info' = info
      /\ platter' = platter /\ content' = content /\ pinned' = pinned /\ panicked' = panicked
      /\ irq' = irq /\ vdisk_lock' = vdisk_lock
      /\ avail' = avail /\ used' = used /\ used_idx' = used_idx /\ lastAvail' = lastAvail
      /\ inflight' = inflight
  BY DEF Taken, rings
<1>5. UNCHANGED rings /\ buf' \in [Buf -> BufType] /\ \A c \in Buf \ {b} : buf'[c] = buf[c]
  BY DEF Taken
<1>6. TypeInv'
  BY <1>1, <1>2, <1>4, <1>5 DEF TypeInv
<1>7. /\ buf'[b].blockno = blk /\ buf'[b].disk = buf[b].disk /\ buf'[b].lock = buf[b].lock
      /\ buf'[b].data = buf[b].data
  BY DEF Taken
<1> DEFINE Hit == buf[b].blockno = blk /\ buf'[b].valid = buf[b].valid /\ buf'[b].refcnt = buf[b].refcnt + 1
           Miss == Cached(blk) = {} /\ buf[b].refcnt = 0 /\ ~buf'[b].valid /\ buf'[b].refcnt = 1
<1>8. Hit \/ Miss
  BY DEF Taken
<1>9. Miss => Refs(b) = {} /\ buf[b].blockno \notin pinned /\ buf[b].lock = NULL
  <2>1. Miss => Refs(b) = {} /\ buf[b].blockno \notin pinned
    BY <1>1, UnusedIs DEF RefInv
  <2> QED BY <1>1, <2>1, LockedInUse
<1>10. Miss => blk \notin pinned /\ \A c \in Buf : buf[c].blockno # blk
  BY <1>1 DEF Cached, PinInv
<1>11. PlaceInv'
  <2>1. PlaceOK(p)'
    BY <1>2, <1>7 DEF PlaceOK, Places, Holds, InRw
  <2>2. BufOK(b) /\ blk # NoBlock
    BY <1>1, CacheAssumption DEF PlaceInv, NoBlock
  <2>3. ASSUME NEW q \in Proc, buf'[b].lock = q PROVE Place(q)' \in Holds /\ loc'[q].b = b /\ Place(q)' = Place(q)
    <3>1. Place(q) \in Holds /\ loc[q].b = b
      BY <2>2, <2>3, <1>7 DEF BufOK
    <3>2. q # p
      BY <3>1, <1>3 DEF Holds
    <3> QED BY <3>1, <3>2, <1>2 DEF Same, SameFields
  <2>4. buf'[b].disk => \E q \in Proc : buf'[b].lock = q /\ Place(q)' = "wait"
    BY <2>2, <2>3, <1>7 DEF BufOK
  <2>5. ASSUME NEW c \in Buf, b # c PROVE buf'[b].blockno # buf'[c].blockno
    <3>1. CASE Hit
      BY <3>1, <2>2, <2>5, <1>5, <1>7 DEF BufOK
    <3>2. CASE Miss
      BY <3>2, <2>5, <1>5, <1>7, <1>10
    <3> QED BY <3>1, <3>2, <1>8
  <2>6. BufOK(b)'
    BY <2>3, <2>4, <2>5, <1>7 DEF BufOK
  <2>7. \A c \in Buf \ {b} : SameBuf(c)
    BY <1>5 DEF SameBuf
  <2>8. PlaceStep(p, b)
    BY <2>1, <2>6, <2>7, <1>2, <1>3, <1>7, <1>8, <1>9 DEF PlaceStep
  <2> QED BY <1>1, <1>6, <2>8, PlaceKept
<1>12. ASSUME NEW c \in Buf PROVE RefOK(c)'
  <2>1. \A q \in Proc \ {p} : q \in Refs(c)' <=> q \in Refs(c)
    BY <1>2, RefsAre DEF Same, SameFields
  <2>2. p \notin Refs(c) /\ (p \in Refs(c)' <=> c = b)
    <3>1. p \notin Refs(c)
      BY <1>3, RefsAre
    <3>2. Place(p)' # "idle"
      BY <1>2
    <3> QED BY <1>2, <3>1, <3>2, RefsAre
  <2>3. RefOK(c)
    BY <1>1 DEF RefInv
  <2>4. CASE c # b
    <3>1. SameRefs(c)
      BY <2>1, <2>2, <2>4, <1>4, <1>5 DEF SameRefs
    <3> QED BY <2>3, <3>1, RefKept
  <2>5. CASE c = b
    <3>1. Cardinality(Refs(b))' = Cardinality(Refs(b)) + 1
      BY <2>1, <2>2, <2>5, RefsGrow
    <3>2. Cardinality(Refs(b)) \in Nat
      BY RefsFinite
    <3>3. CASE Hit
      <4>1. (Pinned(b)' <=> Pinned(b)) /\ buf'[b].refcnt = buf[b].refcnt + 1
        BY <3>3, <1>4, <1>7 DEF Pinned
      <4> QED BY <4>1, <3>1, <3>2, <2>3, <2>5, CountGrows
    <3>4. CASE Miss
      <4>1. Cardinality(Refs(b)) = 0
        BY <3>4, <1>9, FS_EmptySet
      <4> QED BY SMTT(40), <3>1, <3>4, <4>1, <2>5, <1>4, <1>7, <1>10 DEF RefOK
    <3> QED BY <3>3, <3>4, <1>8
  <2> QED BY <2>4, <2>5
<1>13. RingInv'
  BY <1>1, <1>5, RingsKept
<1>14. \A c \in Buf : buf'[c].disk = buf[c].disk /\ buf'[c].data = buf[c].data
  BY <1>5, <1>7
<1>15. ReqInv'
  <2>1. \A q \in Proc : Place(q)' = "wait" <=> Place(q) = "wait"
    BY <1>2, <1>3 DEF Same
  <2>2. ASSUME NEW q \in Waiting PROVE Same(q) /\ buf'[loc[q].b].disk = buf[loc[q].b].disk
    <3>1. q \in Proc /\ q # p /\ loc[q].b \in Buf
      BY <1>1, <1>3 DEF Waiting, PlaceInv, PlaceOK
    <3> QED BY <3>1, <1>2, <1>14
  <2>3. ReqStep
    BY <2>1, <2>2, <1>4, <1>5, RingsKept DEF ReqStep
  <2> QED BY <2>3, <1>1, ReqKept
<1>16. DataInv'
  <2>1. Place(p)' \notin {"unpin", "wait"}
    BY <1>2
  <2>2. ASSUME NEW c \in Buf, buf'[c].valid PROVE buf[c].valid /\ buf'[c].blockno = buf[c].blockno
    BY <2>2, <1>5, <1>7, <1>8
  <2>3. DataStep
    BY <2>1, <2>2, <1>2, <1>3, <1>4, <1>5, <1>14, RingsKept DEF DataStep
  <2> QED BY <2>3, <1>1, DataKept
<1>17. PinInv'
  <2>1. ASSUME NEW x \in pinned' PROVE \E c \in Buf : buf'[c].blockno = x /\ buf'[c].valid
    <3>1. PICK c \in Buf : buf[c].blockno = x /\ buf[c].valid
      BY <1>1, <1>4 DEF PinInv
    <3>2. buf'[c].blockno = x /\ buf'[c].valid
      BY <3>1, <1>4, <1>5, <1>7, <1>8, <1>9
    <3> QED BY <3>2
  <2>2. /\ op = "install" => blk \in pinned
        /\ op \in {"log_write", "install"} => \A q \in Proc : loc[q].op = "install" => loc[q].blk # blk
        /\ op = "install" => \A q \in Proc : loc[q].op \in {"log_write", "install"} => loc[q].blk # blk
    BY DEF MayCall, Updating
  <2>3. \A q \in Proc \ {p} : loc'[q].op = loc[q].op /\ loc'[q].blk = loc[q].blk /\ Place(q)' = Place(q)
    BY <1>2 DEF Same, SameFields
  <2>4. \A q \in Proc : loc'[q].op = "install" /\ Place(q)' \in Early => loc'[q].blk \in pinned'
    BY <2>2, <2>3, <1>1, <1>2, <1>4 DEF PinInv
  <2>5. ASSUME NEW q \in Proc, NEW s \in Proc, q # s, loc'[q].op = "install",
               loc'[s].op \in {"log_write", "install"}
        PROVE  loc'[s].blk # loc'[q].blk
    <3>1. CASE q = p
      BY <3>1, <2>2, <2>3, <2>5, <1>2
    <3>2. CASE s = p
      BY <3>2, <2>2, <2>3, <2>5, <1>2
    <3>3. CASE q # p /\ s # p
      BY <3>3, <2>3, <2>5, <1>1 DEF PinInv
    <3> QED BY <3>1, <3>2, <3>3
  <2> QED BY <2>1, <2>4, <2>5 DEF PinInv
<1>18. WakeInv'
  <2>1. ASSUME NEW q \in Proc PROVE SleepOK(q)'
    <3>1. CASE q = p
      BY <3>1, <1>2 DEF SleepOK
    <3>2. CASE q # p
      <4>1. SleepStep(q)
        <5>1. \A c \in Buf : buf'[c].lock = buf[c].lock /\ buf'[c].disk = buf[c].disk
          BY <1>5, <1>7
        <5> QED BY <3>2, <5>1, <1>2, <1>4 DEF SleepStep
      <4> QED BY <4>1, <1>1, SleepKept DEF WakeInv
    <3> QED BY <3>1, <3>2
  <2> QED BY <2>1, <1>1, <1>4 DEF WakeInv
<1> QED BY <1>1, <1>4, <1>6, <1>11, <1>12, <1>13, <1>15, <1>16, <1>17, <1>18 DEF DiskInv, CoreInv, RefInv

(* The least element of a set of numbers, and the greatest of a bounded    *)
(* one: what the scans of alloc_desc() and bget() find.                    *)
LEMMA LowestOf ==
  ASSUME NEW S \in SUBSET Nat, S # {}
  PROVE  Lowest(S) \in S /\ \A y \in S : Lowest(S) <= y
<1> USE Zenon
<1> DEFINE R == OpToRel(<, Nat)
<1>1. IsWellFoundedOn(R, Nat)
  BY NatLessThanWellFounded, Zenon
<1>2. \A x, y \in Nat : x < y => <<x, y>> \in R
  BY DEF OpToRel
<1> HIDE DEF R
<1>3. PICK x \in S : \A y \in S : ~(<<y, x>> \in R)
  BY <1>1, WFMin, Zenon
<1>4. \A y \in S : ~(y < x)
  BY <1>2, <1>3, Zenon
<1>5. \A y \in S : x <= y
  BY SMTT(60), <1>4
<1> QED BY <1>5 DEF Lowest

LEMMA LruIs ==
  ASSUME TypeInv, Unused # {}
  PROVE  Lru \in Buf /\ buf[Lru].refcnt = 0
<1> DEFINE T == {NBUF - k : k \in Unused}
           n == Lowest(T)
<1>1. Unused \subseteq Buf /\ NBUF \in Nat
  BY CacheAssumption DEF Unused
<1>2. \A k \in Unused : k \in Nat /\ k <= NBUF
  BY <1>1 DEF Buf
<1>3. T \in SUBSET Nat /\ T # {}
  BY <1>1, <1>2
<1>4. n \in T /\ \A m \in T : n <= m
  BY Zenon, <1>3, LowestOf
<1>5. PICK k \in Unused : n = NBUF - k
  BY Zenon, <1>4
<1> HIDE DEF n
<1>6. ASSUME NEW j \in Unused PROVE j <= k
  <2>1. n <= NBUF - j
    BY Zenon, <1>4
  <2>2. j \in Nat /\ k \in Nat
    BY Zenon, <1>2
  <2> QED BY <2>1, <2>2, <1>1, <1>5
<1>7. \A j \in Unused : j <= k
  BY Zenon, <1>6
<1> DEFINE g == CHOOSE g \in Unused : \A j \in Unused : j <= g
<1>8. g \in Unused
  BY Zenon, <1>7
<1>9. Lru = mru[g]
  BY DEF Lru
<1> HIDE DEF g
<1> QED BY <1>8, <1>9 DEF Unused, TypeInv

(* A call of bread() begins.                                               *)
LEMMA CallKept ==
  ASSUME DiskInv, NEW p \in Proc, Call(p)
  PROVE  DiskInv'
<1>1. PICK c \in Calls : MayCall(c[1], c[2]) /\ BuffersSuffice(c[2]) /\ bget(p, c[1], c[2])
  BY Zenon DEF Call
<1> DEFINE op == c[1]
           blk == c[2]
<1>2. op \in Ops /\ blk \in Block
  BY CacheAssumption DEF Ops
<1> HIDE DEF op, blk
<1>3. MayCall(op, blk) /\ BuffersSuffice(blk) /\ bget(p, op, blk)
  BY Zenon, <1>1 DEF op, blk
<1>4. TypeInv /\ buf \in [Buf -> BufType]
  BY Zenon DEF DiskInv, CoreInv, TypeInv
<1> DEFINE Take(b, r) ==
             /\ buf' = [buf EXCEPT ![b] = r]
             /\ loc' = [loc EXCEPT ![p] = [Idle EXCEPT !.pc = "lock", !.op = op, !.blk = blk, !.b = b]]
             /\ UNCHANGED <<mru, disk, device, pinned, content, panicked>>
<1>5. /\ At(p, "idle")
      /\ \/ \E b \in Cached(blk) : Take(b, [buf[b] EXCEPT !.refcnt = @ + 1])
         \/ Cached(blk) = {} /\ Unused # {} /\ Take(Lru, Recycled(blk))
         \/ Cached(blk) = {} /\ Unused = {}
  BY Zenon, <1>3 DEF bget
<1>6. ~(Cached(blk) = {} /\ Unused = {})
  BY Zenon, <1>3 DEF BuffersSuffice
<1>7. ASSUME NEW b \in Cached(blk), Take(b, [buf[b] EXCEPT !.refcnt = @ + 1])
      PROVE  Taken(p, op, blk, b) /\ b \in Buf
  <2> DEFINE r == [buf[b] EXCEPT !.refcnt = @ + 1]
  <2>1. b \in Buf /\ buf[b].blockno = blk
    BY DEF Cached
  <2>2. buf[b] \in BufType
    BY <2>1, <1>4
  <2>3. /\ r \in BufType /\ r.blockno = buf[b].blockno /\ r.disk = buf[b].disk /\ r.lock = buf[b].lock
        /\ r.data = buf[b].data /\ r.valid = buf[b].valid /\ r.refcnt = buf[b].refcnt + 1
    BY <2>2 DEF BufType
  <2> HIDE DEF r, Take
  <2>4. Take(b, r)
    BY Zenon, <1>7 DEF r
  <2>5. buf' \in [Buf -> BufType] /\ buf'[b] = r /\ \A x \in Buf \ {b} : buf'[x] = buf[x]
    BY <2>1, <2>3, <2>4, <1>4 DEF Take
  <2>6. /\ loc' = [loc EXCEPT ![p] = [Idle EXCEPT !.pc = "lock", !.op = op, !.blk = blk, !.b = b]]
        /\ UNCHANGED <<mru, free, desc, ops, info, platter, content, pinned, panicked>> /\ UNCHANGED rings
        /\ UNCHANGED <<irq, vdisk_lock>>
    BY <2>4 DEF Take, disk, device, rings
  <2> QED BY Zenon, <2>1, <2>3, <2>5, <2>6 DEF Taken
<1>8. ASSUME Cached(blk) = {}, Unused # {}, Take(Lru, Recycled(blk))
      PROVE  Taken(p, op, blk, Lru) /\ Lru \in Buf
  <2> DEFINE b == Lru
             r == Recycled(blk)
  <2>1. b \in Buf /\ buf[b].refcnt = 0
    BY Zenon, <1>4, <1>8, LruIs
  <2>2. buf[b] \in BufType
    BY <2>1, <1>4
  <2> HIDE DEF b
  <2>3. /\ r \in BufType /\ r.blockno = blk /\ r.disk = buf[b].disk /\ r.lock = buf[b].lock
        /\ r.data = buf[b].data /\ ~r.valid /\ r.refcnt = 1
    <3>1. r = [buf[b] EXCEPT !.blockno = blk, !.valid = FALSE, !.refcnt = 1]
      BY Zenon DEF Recycled, b
    <3>2. r \in BufType
      <4> DEFINE r1 == [buf[b] EXCEPT !.blockno = blk]
                 r2 == [r1 EXCEPT !.valid = FALSE]
      <4>1. r1 \in BufType
        BY <2>2, <1>2 DEF BufType
      <4> HIDE DEF r1
      <4>2. r2 \in BufType
        BY Zenon, <4>1 DEF BufType
      <4> HIDE DEF r2
      <4>3. [r2 EXCEPT !.refcnt = 1] \in BufType
        BY <4>2 DEF BufType
      <4> QED BY <3>1, <4>3 DEF r1, r2
    <3>3. r.blockno = blk /\ r.valid = FALSE /\ r.refcnt = 1
      BY <2>2, <3>1 DEF BufType
    <3>4. r.disk = buf[b].disk /\ r.lock = buf[b].lock /\ r.data = buf[b].data
      BY <2>2, <3>1 DEF BufType
    <3> QED BY Zenon, <3>2, <3>3, <3>4
  <2> HIDE DEF r, Take
  <2>4. Take(b, r)
    BY Zenon, <1>8 DEF r, b
  <2>5. buf' \in [Buf -> BufType] /\ buf'[b] = r /\ \A x \in Buf \ {b} : buf'[x] = buf[x]
    BY <2>1, <2>3, <2>4, <1>4 DEF Take
  <2>6. /\ loc' = [loc EXCEPT ![p] = [Idle EXCEPT !.pc = "lock", !.op = op, !.blk = blk, !.b = b]]
        /\ UNCHANGED <<mru, free, desc, ops, info, platter, content, pinned, panicked>> /\ UNCHANGED rings
        /\ UNCHANGED <<irq, vdisk_lock>>
    BY <2>4 DEF Take, disk, device, rings
  <2>7. Taken(p, op, blk, b)
    BY Zenon, <2>1, <2>3, <2>5, <2>6, <1>8 DEF Taken
  <2> QED BY Zenon, <2>1, <2>7 DEF b
<1> QED BY Zenon, <1>2, <1>3, <1>5, <1>6, <1>7, <1>8, TakenKept

(* One process moves to place l of its call.                               *)
LEMMA GotoIs ==
  ASSUME TypeInv, NEW p \in Proc, NEW l \in Places, Goto(p, l)
  PROVE  /\ loc' \in [Proc -> LocType] /\ \A q \in Proc \ {p} : Same(q) /\ Slept(q)
         /\ Place(p)' = l /\ loc'[p].pc = l /\ SameFields(loc'[p], loc[p])
<1> DEFINE r == [loc[p] EXCEPT !.pc = l]
<1>1. loc \in [Proc -> LocType]
  BY DEF TypeInv
<1>2. r \in LocType /\ r.pc = l /\ SameFields(r, loc[p])
  BY <1>1 DEF LocType, SameFields
<1>3. loc' = [loc EXCEPT ![p] = r]
  BY DEF Goto
<1> HIDE DEF r
<1>4. Moves(p, r)
  BY Zenon, <1>2, <1>3, MoveIs
<1>5. l # "sleep"
  BY DEF Places
<1>6. Place(p)' = l
  BY Zenon, <1>2, <1>4, <1>5, Awake DEF Moves
<1> QED BY Zenon, <1>2, <1>4, <1>6 DEF Moves

(* One process moves and a channel is woken up.                            *)
LEMMA WokenIs ==
  ASSUME TypeInv, NEW p \in Proc, NEW m \in [Proc -> LocType], \A q \in Proc \ {p} : m[q] = loc[q],
         NEW chan \in Chans, loc' = wakeup(m, chan)
  PROVE  /\ loc' \in [Proc -> LocType]
         /\ \A q \in Proc \ {p} : Same(q) /\ Slept(q) /\ (loc'[q].pc = "sleep" => loc'[q].chan # chan)
         /\ Place(p)' = PlaceIn(m, p) /\ SameFields(loc'[p], m[p]) /\ (loc'[p].pc = "sleep" => m[p].pc = "sleep")
<1> USE Zenon
<1>1. loc' \in [Proc -> LocType]
  BY WakeupType
<1>2. ASSUME NEW q \in Proc
      PROVE  /\ PlaceIn(loc', q) = PlaceIn(m, q) /\ SameFields(loc'[q], m[q])
             /\ loc'[q].pc = "sleep" => m[q].pc = "sleep" /\ loc'[q].chan = m[q].chan /\ m[q].chan # chan
  BY ZenonT(40), WakeupIs
<1>3. ASSUME NEW q \in Proc \ {p} PROVE PlaceIn(m, q) = Place(q)
  BY DEF Place, PlaceIn
<1>4. \A q \in Proc : Place(q)' = PlaceIn(loc', q)
  BY DEF Place
<1>5. ASSUME NEW q \in Proc \ {p} PROVE Same(q) /\ Slept(q) /\ (loc'[q].pc = "sleep" => loc'[q].chan # chan)
  <2>1. m[q] = loc[q]
    OBVIOUS
  <2> QED BY <2>1, <1>2, <1>3, <1>4 DEF Same, Slept
<1> QED BY <1>1, <1>2, <1>4, <1>5

(* A process goes on in its call, from place k to place l, and may lock or *)
(* unlock its buffer; it has no request, before or after.                  *)
Onward(p, k, l) ==
  /\ UNCHANGED <<mru, free, desc, ops, info, platter, content, pinned>> /\ UNCHANGED rings
  /\ loc' \in [Proc -> LocType] /\ \A q \in Proc \ {p} : Same(q)
  /\ Place(p) = k /\ Place(p)' = l
  /\ k \in {"lock", "have", "release"} /\ l \in {"have", "rw", "release", "put"} /\ (l \in Early => k \in Early)
  /\ loc'[p].op = loc[p].op /\ loc'[p].blk = loc[p].blk /\ loc'[p].b = loc[p].b
  /\ buf' \in [Buf -> BufType] /\ \A c \in Buf \ {loc[p].b} : buf'[c] = buf[c]
  /\ \A c \in Buf : /\ buf'[c].blockno = buf[c].blockno /\ buf'[c].valid = buf[c].valid
                    /\ buf'[c].disk = buf[c].disk /\ buf'[c].refcnt = buf[c].refcnt
                    /\ buf'[c].data = buf[c].data
  /\ buf'[loc[p].b].lock = buf[loc[p].b].lock \/ buf[loc[p].b].lock \in {p, NULL}

LEMMA OnwardKept ==
  ASSUME CoreInv, NEW p \in Proc, NEW k, NEW l, Onward(p, k, l), PlaceOK(p)',
         \A q \in Proc : buf'[loc[p].b].lock = q => Place(q)' \in Holds /\ loc'[q].b = loc[p].b
  PROVE  CoreInv'
<1> USE Zenon
<1>0. PICK b \in Buf : b = loc[p].b
  BY DEF CoreInv, PlaceInv, PlaceOK, Onward
<1>1. TypeInv /\ PlaceInv /\ RefInv /\ RingInv /\ ReqInv /\ DataInv /\ PinInv
  BY DEF CoreInv
<1>2. /\ mru' = mru /\ free' = free /\ desc' = desc /\ ops' = ops /\ info' = info
      /\ platter' = platter /\ content' = content /\ pinned' = pinned
      /\ avail' = avail /\ used' = used /\ used_idx' = used_idx /\ lastAvail' = lastAvail
      /\ inflight' = inflight
  BY DEF Onward, rings
<1>3. /\ loc' \in [Proc -> LocType] /\ (\A q \in Proc \ {p} : Same(q)) /\ UNCHANGED rings
      /\ loc'[p].op = loc[p].op /\ loc'[p].blk = loc[p].blk /\ loc'[p].b = b
  BY <1>0 DEF Onward
<1>4. /\ Place(p) = k /\ Place(p)' = l /\ (l \in Early => k \in Early)
      /\ k \in {"lock", "have", "release"} /\ l \in {"have", "rw", "release", "put"}
  BY DEF Onward
<1>5. /\ buf' \in [Buf -> BufType] /\ \A c \in Buf \ {b} : buf'[c] = buf[c]
      /\ \A c \in Buf : /\ buf'[c].blockno = buf[c].blockno /\ buf'[c].valid = buf[c].valid
                        /\ buf'[c].disk = buf[c].disk /\ buf'[c].refcnt = buf[c].refcnt
                        /\ buf'[c].data = buf[c].data
  BY <1>0 DEF Onward
<1>6. TypeInv'
  BY <1>1, <1>2, <1>3, <1>5 DEF TypeInv
<1>7. ~loc[p].write
  BY <1>1, <1>4 DEF PlaceInv, PlaceOK, InRw
<1>8. k # "idle" /\ k # "wait" /\ l # "idle" /\ l # "wait" /\ l # "unpin"
  BY <1>4
<1>9. PlaceInv'
  <2>1. BufOK(b)
    BY <1>1, <1>7 DEF PlaceInv
  <2>2. \A q \in Proc : buf'[b].lock = q => Place(q)' \in Holds /\ loc'[q].b = b
    BY <1>0
  <2>3. ASSUME buf'[b].disk PROVE \E q \in Proc : buf'[b].lock = q /\ Place(q)' = "wait"
    <3>1. PICK q \in Proc : buf[b].lock = q /\ Place(q) = "wait"
      BY <2>1, <2>3, <1>5, <1>7 DEF BufOK
    <3>2. q # p
      BY <3>1, <1>4, <1>8
    <3>3. buf'[b].lock = buf[b].lock \/ buf[b].lock \in {p, NULL}
      BY <1>0 DEF Onward
    <3>4. q # NULL
      BY CacheAssumption
    <3>5. buf'[b].lock = q
      BY <3>1, <3>2, <3>3, <3>4
    <3>6. Place(q)' = "wait"
      BY <3>1, <3>2, <1>3 DEF Same
    <3> QED BY <3>5, <3>6
  <2>4. BufOK(b)'
    <3>1. \A c \in Buf : b # c /\ buf'[b].blockno # NoBlock => buf'[b].blockno # buf'[c].blockno
      BY <2>1, <1>5, <1>7 DEF BufOK
    <3>2. buf'[b].valid => buf'[b].blockno \in Block
      BY <2>1, <1>5, <1>7 DEF BufOK
    <3> QED BY <2>2, <2>3, <3>1, <3>2 DEF BufOK
  <2>5. \A c \in Buf \ {b} : SameBuf(c)
    BY <1>5 DEF SameBuf
  <2>6. buf'[b].lock = buf[b].lock \/ buf[b].lock \in {p, NULL}
    BY <1>0 DEF Onward
  <2>7. PlaceStep(p, b)
    BY <2>4, <2>5, <2>6, <1>0, <1>3, <1>5 DEF PlaceStep
  <2> QED BY <2>7, <1>1, <1>6, <1>7, PlaceKept
<1>10. ASSUME NEW c \in Buf PROVE RefOK(c)'
  <2>1. ASSUME NEW q \in Proc PROVE q \in Refs(c)' <=> q \in Refs(c)
    <3>1. CASE q = p
      BY <3>1, <1>3, <1>4, <1>0, <1>8, RefsAre
    <3>2. CASE q # p
      BY <3>2, <1>3, RefsAre DEF Same, SameFields
    <3> QED BY <3>1, <3>2
  <2>2. SameRefs(c)
    BY <2>1, <1>2, <1>5 DEF SameRefs
  <2> QED BY <2>2, <1>1, RefKept DEF RefInv
<1>11. RingInv'
  BY <1>1, <1>3, RingsKept
<1>12. ReqInv'
  <2>1. \A q \in Proc : Place(q)' = "wait" <=> Place(q) = "wait"
    BY <1>3, <1>4, <1>8 DEF Same
  <2>2. ASSUME NEW q \in Waiting PROVE Same(q) /\ buf'[loc[q].b].disk = buf[loc[q].b].disk
    <3>1. q \in Proc /\ Place(q) = "wait"
      BY DEF Waiting
    <3>2. q # p /\ loc[q].b \in Buf
      BY <3>1, <1>1, <1>4 DEF PlaceInv, PlaceOK
    <3> QED BY <3>1, <3>2, <1>3, <1>5
  <2>3. ReqStep
    BY <2>1, <2>2, <1>2, <1>3, RingsKept DEF ReqStep
  <2> QED BY <2>3, <1>1, ReqKept
<1>13. DataInv'
  <2>1. Place(p)' \notin {"unpin", "wait"}
    BY <1>4, <1>8
  <2>2. DataStep
    BY <2>1, <1>2, <1>3, <1>5, <1>7, RingsKept DEF DataStep
  <2> QED BY <2>2, <1>1, DataKept
<1>14. PinInv'
  <2>1. PinStep
    BY <1>2, <1>3, <1>4, <1>5 DEF PinStep, Same, SameFields
  <2> QED BY <2>1, <1>1, PinKept
<1> QED BY <1>6, <1>9, <1>10, <1>11, <1>12, <1>13, <1>14 DEF CoreInv, RefInv

(* acquiresleep().                                                         *)
LEMMA AcquireKept ==
  ASSUME DiskInv, NEW p \in Proc, acquiresleep(p)
  PROVE  DiskInv'
<1> USE Zenon
<1>1. CoreInv /\ WakeInv /\ panicked = "no" /\ TypeInv /\ PlaceInv
  BY DEF DiskInv, CoreInv
<1>2. /\ mru' = mru /\ free' = free /\ desc' = desc /\ ops' = ops /\ info' = info
      /\ platter' = platter /\ content' = content /\ pinned' = pinned /\ panicked' = panicked
      /\ irq' = irq /\ vdisk_lock' = vdisk_lock /\ UNCHANGED rings
      /\ used' = used /\ used_idx' = used_idx
  BY DEF acquiresleep, disk, device, rings
<1>3. Place(p) = "lock" /\ loc[p].pc = "lock"
  BY Awake DEF acquiresleep, At
<1>0. PICK b \in Buf : b = loc[p].b
  BY ZenonT(40), <1>1, <1>3 DEF PlaceInv, PlaceOK
<1>4. /\ ~loc[p].write /\ PlaceOK(p) /\ BufOK(b)
      /\ loc \in [Proc -> LocType] /\ buf \in [Buf -> BufType]
  BY <1>1, <1>3 DEF PlaceInv, PlaceOK, InRw, TypeInv
<1>5. CASE buf[b].lock # NULL
  <2>1. loc' = Asleep(loc, p, <<"lock", b>>) /\ buf' = buf
    BY <1>0, <1>5 DEF acquiresleep
  <2>2. <<"lock", b>> \in Chans
    BY DEF Chans
  <2>3. /\ loc' \in [Proc -> LocType] /\ (\A q \in Proc \ {p} : loc'[q] = loc[q])
        /\ loc'[p].pc = "sleep" /\ loc'[p].chan = <<"lock", b>>
        /\ PlaceIn(loc', p) = Back(<<"lock", b>>) /\ SameFields(loc'[p], loc[p])
    <3>1. Dozes(loc', loc, p, <<"lock", b>>)
      BY <2>1, <2>2, <1>4, AsleepIs
    <3> QED BY <3>1 DEF Dozes
  <2>4. Same(p)
    BY <2>3, <1>3, BackIs DEF Same, Place
  <2>5. \A q \in Proc \ {p} : Same(q) /\ Slept(q)
    BY <2>3, UnchangedSame
  <2>6. CoreInv'
    <3>1. Quiet
      BY <2>1, <2>3, <2>4, <2>5, <1>2 DEF Quiet
    <3> QED BY <3>1, <1>1, QuietKept
  <2>7. ASSUME NEW q \in Proc PROVE SleepOK(q)'
    <3>1. CASE q = p
      BY <3>1, <2>1, <2>3, <1>0, <1>5 DEF SleepOK, SameFields
    <3>2. CASE q # p
      <4>1. SleepStep(q)
        BY <3>2, <2>1, <2>5, <1>2 DEF SleepStep
      <4> QED BY <4>1, <1>1, SleepKept DEF WakeInv
    <3> QED BY <3>1, <3>2
  <2> QED BY <2>6, <2>7, <1>1, <1>2 DEF DiskInv, WakeInv
<1>6. CASE buf[b].lock = NULL
  <2> DEFINE l == IF buf[b].valid THEN "have" ELSE "rw"
             r == [buf[b] EXCEPT !.lock = p]
  <2>1. buf' = [buf EXCEPT ![b] = r] /\ Goto(p, l)
    BY <1>0, <1>6 DEF acquiresleep
  <2>2. l \in {"have", "rw"} /\ (buf[b].valid <=> l = "have")
    OBVIOUS
  <2>3. /\ r \in BufType /\ r.blockno = buf[b].blockno /\ r.valid = buf[b].valid /\ r.disk = buf[b].disk
        /\ r.refcnt = buf[b].refcnt /\ r.data = buf[b].data /\ r.lock = p
    BY <1>4 DEF BufType
  <2> HIDE DEF l, r
  <2>4. /\ buf' \in [Buf -> BufType] /\ \A c \in Buf \ {b} : buf'[c] = buf[c]
        /\ buf'[b] = r
    BY <2>1, <2>3, <1>4
  <2>5. \A c \in Buf : /\ buf'[c].blockno = buf[c].blockno /\ buf'[c].valid = buf[c].valid
                       /\ buf'[c].disk = buf[c].disk /\ buf'[c].refcnt = buf[c].refcnt
                       /\ buf'[c].data = buf[c].data
    BY <2>3, <2>4
  <2>6. l \in Places
    BY <2>2 DEF Places
  <2>7. /\ loc' \in [Proc -> LocType] /\ \A q \in Proc \ {p} : Same(q) /\ Slept(q)
        /\ Place(p)' = l /\ loc'[p].pc = l /\ SameFields(loc'[p], loc[p])
    BY <2>1, <2>6, <1>1, GotoIs
  <2>8. loc'[p].op = loc[p].op /\ loc'[p].blk = loc[p].blk /\ loc'[p].b = b /\ ~loc'[p].write
    BY <2>7, <1>0, <1>4 DEF SameFields
  <2>9. Onward(p, "lock", l)
    <3>1. l \in {"have", "rw", "release", "put"} /\ "lock" \in Early /\ "lock" \in {"lock", "have", "release"}
      BY <2>2 DEF Early
    <3> QED BY <2>4, <2>5, <2>7, <2>8, <3>1, <1>2, <1>3, <1>6, <1>0 DEF Onward
  <2>10. PlaceOK(p)'
    <3>1. loc[p].blk \in Block /\ loc[p].op \in Ops /\ buf[b].blockno = loc[p].blk
      BY <1>3, <1>0, <1>4 DEF PlaceOK
    <3>2. buf'[b].lock = p /\ buf'[b].blockno = loc[p].blk /\ buf'[b].valid = buf[b].valid
      BY <2>3, <2>4, <3>1
    <3> QED BY <2>2, <2>7, <2>8, <3>1, <3>2, <1>4 DEF PlaceOK, Places, Holds, InRw
  <2>11. l \in Holds
    BY <2>2 DEF Holds
  <2>12. \A q \in Proc : buf'[b].lock = q => Place(q)' \in Holds /\ loc'[q].b = b
    BY <2>3, <2>4, <2>7, <2>8, <2>11
  <2>13. CoreInv'
    BY <2>9, <2>10, <2>12, <1>1, <1>0, OnwardKept
  <2>14. ASSUME NEW q \in Proc PROVE SleepOK(q)'
    <3>1. CASE q = p
      BY <3>1, <2>2, <2>7 DEF SleepOK
    <3>2. CASE q # p
      <4>1. p # NULL
        BY CacheAssumption
      <4>2. \A c \in Buf : buf'[c].lock # NULL \/ buf'[c].lock = buf[c].lock
        BY <4>1, <2>3, <2>4
      <4>3. SleepStep(q)
        BY <3>2, <4>2, <2>5, <2>7, <1>2 DEF SleepStep
      <4> QED BY <4>3, <1>1, SleepKept DEF WakeInv
    <3> QED BY <3>1, <3>2
  <2> QED BY <2>13, <2>14, <1>1, <1>2 DEF DiskInv, WakeInv
<1> QED BY <1>5, <1>6

(* The process and its buffer, when it is in a call and not asleep.        *)
LEMMA InCall ==
  ASSUME DiskInv, NEW p \in Proc, NEW k \in Places \ {"idle"}, At(p, k)
  PROVE  /\ TypeInv /\ PlaceInv /\ RefInv /\ RingInv /\ ReqInv /\ DataInv /\ PinInv /\ CoreInv /\ WakeInv
         /\ loc \in [Proc -> LocType] /\ buf \in [Buf -> BufType]
         /\ Place(p) = k /\ PlaceOK(p)
         /\ loc[p].b \in Buf /\ loc[p].blk \in Block /\ loc[p].op \in Ops /\ buf[loc[p].b].blockno = loc[p].blk
<1> USE Zenon
<1>1. TypeInv /\ PlaceInv /\ RefInv /\ RingInv /\ ReqInv /\ DataInv /\ PinInv /\ CoreInv /\ WakeInv
  BY DEF DiskInv, CoreInv
<1>2. k # "sleep" /\ k # "idle"
  BY DEF Places
<1>3. Place(p) = k
  BY <1>2, Awake DEF At
<1>4. PlaceOK(p)
  BY <1>1 DEF PlaceInv
<1>5. loc[p].b \in Buf /\ loc[p].blk \in Block /\ loc[p].op \in Ops /\ buf[loc[p].b].blockno = loc[p].blk
  BY <1>2, <1>3, <1>4 DEF PlaceOK
<1> QED BY <1>1, <1>3, <1>4, <1>5 DEF TypeInv

(* A process sleeps on in virtio_disk_rw().                                *)
LEMMA WaitDoneKept ==
  ASSUME DiskInv, NEW p \in Proc, WaitDone(p)
  PROVE  DiskInv'
<1> USE Zenon
<1>1. /\ At(p, "wait") /\ buf[loc[p].b].disk
      /\ loc' = Asleep(loc, p, <<"buf", loc[p].b>>) /\ panicked' = panicked
      /\ UNCHANGED <<buf, mru, free, desc, ops, info, platter, content, pinned>> /\ UNCHANGED rings
      /\ buf' = buf /\ free' = free /\ used' = used /\ used_idx' = used_idx
      /\ irq' = irq /\ vdisk_lock' = vdisk_lock
  BY DEF WaitDone, disk, device, rings
<1>2. "wait" \in Places \ {"idle"}
  BY DEF Places
<1>3. /\ CoreInv /\ TypeInv /\ PlaceInv /\ WakeInv /\ loc \in [Proc -> LocType] /\ Place(p) = "wait" /\ loc[p].b \in Buf
  BY <1>1, <1>2, InCall
<1>4. PICK b \in Buf : b = loc[p].b
  BY <1>3
<1>5. <<"buf", b>> \in Chans
  BY DEF Chans
<1>6. Dozes(loc', loc, p, <<"buf", b>>)
  BY <1>1, <1>3, <1>4, <1>5, AsleepIs
<1>7. Same(p)
  BY <1>3, <1>6, BackIs DEF Same, Place, Dozes
<1>8. \A q \in Proc \ {p} : Same(q) /\ Slept(q)
  BY <1>6, UnchangedSame DEF Dozes
<1>9. CoreInv'
  <2>1. Quiet
    BY <1>1, <1>6, <1>7, <1>8 DEF Quiet, Dozes
  <2> QED BY <2>1, <1>3, QuietKept
<1>10. ASSUME NEW q \in Proc PROVE SleepOK(q)'
  <2>1. CASE q = p
    BY <2>1, <1>1, <1>4, <1>6 DEF SleepOK, SameFields, Dozes
  <2>2. CASE q # p
    <3>1. SleepStep(q)
      BY <2>2, <1>1, <1>8 DEF SleepStep
    <3> QED BY <3>1, <1>3, SleepKept DEF WakeInv
  <2> QED BY <2>1, <2>2
<1> QED BY <1>1, <1>3, <1>9, <1>10 DEF DiskInv, WakeInv

(* virtio_disk_rw() finds too few descriptors.                             *)
LEMMA NoDescriptorsKept ==
  ASSUME DiskInv, NEW p \in Proc, NoDescriptors(p)
  PROVE  DiskInv'
<1> USE Zenon
<1> DEFINE l == IF free = {} THEN loc ELSE wakeup(loc, Free)
<1>1. /\ At(p, "rw") /\ Cardinality(free) < 3
      /\ loc' = Asleep(l, p, Free) /\ panicked' = panicked
      /\ UNCHANGED <<buf, mru, free, desc, ops, info, platter, content, pinned>> /\ UNCHANGED rings
      /\ buf' = buf /\ free' = free /\ used' = used /\ used_idx' = used_idx
      /\ irq' = irq /\ vdisk_lock' = vdisk_lock
  BY DEF NoDescriptors, disk, device, rings
<1>2. "rw" \in Places \ {"idle"}
  BY DEF Places
<1>3. /\ CoreInv /\ TypeInv /\ PlaceInv /\ WakeInv /\ loc \in [Proc -> LocType] /\ Place(p) = "rw"
  BY <1>1, <1>2, InCall
<1>4. Free \in Chans
  BY DEF Chans
<1>5. /\ l \in [Proc -> LocType]
      /\ \A q \in Proc : /\ PlaceIn(l, q) = Place(q) /\ SameFields(l[q], loc[q])
                         /\ l[q].pc = "sleep" => loc[q].pc = "sleep" /\ l[q].chan = loc[q].chan
  <2>1. CASE free = {}
    BY <2>1, <1>3 DEF Place, SameFields
  <2>2. CASE free # {}
    <3>1. l = wakeup(loc, Free)
      BY <2>2
    <3>2. l \in [Proc -> LocType]
      BY <3>1, <1>3, <1>4, WakeupType
    <3> QED BY ZenonT(40), <3>1, <3>2, <1>3, <1>4, WakeupIs DEF Place
  <2> QED BY <2>1, <2>2
<1> HIDE DEF l
<1>6. Dozes(loc', l, p, Free)
  BY <1>1, <1>4, <1>5, AsleepIs
<1>7. Same(p)
  BY <1>3, <1>5, <1>6, BackIs DEF Same, SameFields, Place, Dozes
<1>8. ASSUME NEW q \in Proc \ {p} PROVE Same(q) /\ Slept(q)
  <2>1. loc'[q] = l[q]
    BY <1>6 DEF Dozes
  <2>2. Place(q)' = PlaceIn(l, q)
    BY <2>1 DEF Place, PlaceIn
  <2> QED BY <2>1, <2>2, <1>5 DEF Same, Slept
<1>9. CoreInv'
  <2>1. Quiet
    BY <1>1, <1>6, <1>7, <1>8 DEF Quiet, Dozes
  <2> QED BY <2>1, <1>3, QuietKept
<1>10. ASSUME NEW q \in Proc PROVE SleepOK(q)'
  <2>1. CASE q = p
    BY <2>1, <1>1, <1>6 DEF SleepOK, Dozes
  <2>2. CASE q # p
    <3>1. SleepStep(q)
      BY <2>2, <1>1, <1>8 DEF SleepStep
    <3> QED BY <3>1, <1>3, SleepKept DEF WakeInv
  <2> QED BY <2>1, <2>2
<1> QED BY <1>1, <1>3, <1>9, <1>10 DEF DiskInv, WakeInv

(* releasesleep() in brelse().                                             *)
LEMMA ReleaseKept ==
  ASSUME DiskInv, NEW p \in Proc, releasesleep(p)
  PROVE  DiskInv'
<1> USE Zenon
<1>1. At(p, "release") /\ "release" \in Places \ {"idle"}
  BY DEF releasesleep, Places
<1>2. /\ TypeInv /\ PlaceInv /\ CoreInv /\ WakeInv /\ loc \in [Proc -> LocType] /\ buf \in [Buf -> BufType]
      /\ Place(p) = "release" /\ PlaceOK(p)
      /\ loc[p].b \in Buf /\ loc[p].blk \in Block /\ loc[p].op \in Ops /\ buf[loc[p].b].blockno = loc[p].blk
  BY <1>1, InCall
<1>3. PICK b \in Buf : b = loc[p].b
  BY <1>2
<1>4. buf[b].lock = p /\ buf[b].valid /\ ~loc[p].write /\ holdingsleep(p)
  BY <1>2, <1>3 DEF PlaceOK, Holds, InRw, holdingsleep
<1> DEFINE m == [loc EXCEPT ![p].pc = "put"]
           r == [buf[b] EXCEPT !.lock = NULL]
<1>5. /\ buf' = [buf EXCEPT ![b] = r] /\ loc' = wakeup(m, <<"lock", b>>)
      /\ UNCHANGED <<mru, disk, device, pinned, content, panicked>>
  BY <1>3, <1>4 DEF releasesleep
<1>6. /\ UNCHANGED <<mru, free, desc, ops, info, platter, content, pinned>> /\ UNCHANGED rings
      /\ free' = free /\ used' = used /\ used_idx' = used_idx /\ panicked' = panicked
      /\ irq' = irq /\ vdisk_lock' = vdisk_lock
  BY <1>5 DEF disk, device, rings
<1>7. /\ r \in BufType /\ r.blockno = buf[b].blockno /\ r.valid = buf[b].valid /\ r.disk = buf[b].disk
      /\ r.refcnt = buf[b].refcnt /\ r.data = buf[b].data /\ r.lock = NULL
  BY <1>2 DEF BufType
<1>8. /\ m \in [Proc -> LocType] /\ (\A q \in Proc \ {p} : m[q] = loc[q])
      /\ m[p].pc = "put" /\ SameFields(m[p], loc[p])
  <2>1. "put" \in Places
    BY DEF Places
  <2> QED BY <2>1, <1>2 DEF LocType, SameFields
<1> HIDE DEF m, r
<1>9. <<"lock", b>> \in Chans
  BY SMTT(60) DEF Chans
<1>10. /\ loc' \in [Proc -> LocType]
       /\ \A q \in Proc \ {p} : Same(q) /\ Slept(q) /\ (loc'[q].pc = "sleep" => loc'[q].chan # <<"lock", b>>)
       /\ Place(p)' = PlaceIn(m, p) /\ SameFields(loc'[p], m[p]) /\ (loc'[p].pc = "sleep" => m[p].pc = "sleep")
  BY <1>2, <1>5, <1>8, <1>9, WokenIs
<1>11. Place(p)' = "put" /\ loc'[p].pc # "sleep"
  BY <1>8, <1>10 DEF PlaceIn
<1>12. loc'[p].op = loc[p].op /\ loc'[p].blk = loc[p].blk /\ loc'[p].b = b /\ ~loc'[p].write
  BY <1>3, <1>4, <1>8, <1>10 DEF SameFields
<1>13. buf' \in [Buf -> BufType] /\ buf'[b] = r /\ \A c \in Buf \ {b} : buf'[c] = buf[c]
  BY <1>2, <1>5, <1>7
<1>14. \A c \in Buf : /\ buf'[c].blockno = buf[c].blockno /\ buf'[c].valid = buf[c].valid
                      /\ buf'[c].disk = buf[c].disk /\ buf'[c].refcnt = buf[c].refcnt
                      /\ buf'[c].data = buf[c].data
  BY <1>7, <1>13
<1>15. Onward(p, "release", "put")
  <2>1. /\ "release" \in {"lock", "have", "release"} /\ "put" \in {"have", "rw", "release", "put"}
        /\ "put" \notin Early
    BY DEF Early
  <2> QED BY <2>1, <1>2, <1>3, <1>4, <1>6, <1>10, <1>11, <1>12, <1>13, <1>14 DEF Onward
<1>16. PlaceOK(p)'
  <2>1. buf'[b].blockno = loc[p].blk
    BY <1>2, <1>3, <1>14
  <2> QED BY ZenonT(40), <2>1, <1>2, <1>11, <1>12 DEF PlaceOK, Places, Holds, InRw
<1>17. \A q \in Proc : buf'[b].lock # q
  BY <1>7, <1>13, CacheAssumption
<1>18. CoreInv'
  BY <1>2, <1>3, <1>15, <1>16, <1>17, OnwardKept
<1>19. ASSUME NEW q \in Proc PROVE SleepOK(q)'
  <2>1. CASE q = p
    BY <2>1, <1>11 DEF SleepOK
  <2>2. CASE q # p
    <3>1. loc'[q].pc = "sleep" => SleepStep(q)
      <4>1. \A c \in Buf : loc'[q].pc = "sleep" /\ loc'[q].chan = <<"lock", c>> => buf'[c].lock = buf[c].lock
        BY <2>2, <1>10, <1>13
      <4> QED BY <4>1, <2>2, <1>6, <1>10, <1>14 DEF SleepStep
    <3> QED BY <3>1, <1>2, SleepKept DEF WakeInv
  <2> QED BY <2>1, <2>2
<1> QED BY <1>2, <1>6, <1>18, <1>19 DEF DiskInv, WakeInv

(* Sleepers when no lock, no flag and no descriptor changes hands.         *)
LEMMA SleepersKept ==
  ASSUME TypeInv, PlaceInv, WakeInv, NEW p \in Proc, loc'[p].pc # "sleep",
         \A q \in Proc \ {p} : Same(q) /\ Slept(q),
         \A c \in Buf : buf'[c].lock = buf[c].lock /\ buf'[c].disk = buf[c].disk,
         UNCHANGED <<free, used, used_idx, irq, vdisk_lock>>
  PROVE  WakeInv'
<1> USE Zenon
<1>1. free' = free /\ used' = used /\ used_idx' = used_idx /\ irq' = irq /\ vdisk_lock' = vdisk_lock
  OBVIOUS
<1>2. ASSUME NEW q \in Proc PROVE SleepOK(q)'
  <2>1. CASE q = p
    BY <2>1 DEF SleepOK
  <2>2. CASE q # p
    <3>1. SleepStep(q)
      BY <2>2, <1>1 DEF SleepStep
    <3> QED BY <3>1, SleepKept DEF WakeInv
  <2> QED BY <2>1, <2>2
<1>3. used_idx' # used'.idx => irq' \/ vdisk_lock' = "intr"
  BY SMTT(60), <1>1 DEF WakeInv
<1> QED BY <1>2, <1>3 DEF WakeInv

(* The process has a valid buffer, which it has locked and nobody else     *)
(* uses with the lock.                                                     *)
LEMMA HaveIs ==
  ASSUME PlaceInv, NEW p \in Proc, NEW b \in Buf, b = loc[p].b, Place(p) \in Holds
  PROVE  /\ buf[b].lock = p /\ BufOK(b)
         /\ \A c \in Buf \ {b} : buf[c].blockno # buf[b].blockno
         /\ \A q \in Proc : buf[b].lock = q => q = p
<1>1. PlaceOK(p) /\ BufOK(b) /\ Place(p) # "idle"
  BY DEF PlaceInv, Holds
<1>2. buf[b].lock = p /\ buf[b].blockno \in Block
  BY Zenon, <1>1 DEF PlaceOK
<1>3. buf[b].blockno # NoBlock
  BY <1>2, CacheAssumption DEF NoBlock
<1>4. \A c \in Buf \ {b} : buf[c].blockno # buf[b].blockno
  BY Zenon, <1>1, <1>3 DEF BufOK
<1> QED BY Zenon, <1>1, <1>2, <1>4

(* The buffer of a process that has it is not the disk's.                  *)
LEMMA HaveIdle ==
  ASSUME PlaceInv, NEW p \in Proc, NEW b \in Buf, b = loc[p].b, Place(p) \in Holds, Place(p) # "wait"
  PROVE  ~buf[b].disk
<1> USE Zenon
<1>1. BufOK(b) /\ \A q \in Proc : buf[b].lock = q => q = p
  BY HaveIs
<1> QED BY <1>1 DEF BufOK

(* The process goes on to place l of its call; w tells whether it then has *)
(* a write to do.                                                          *)
GoesOn(p, l, w) ==
  /\ loc' \in [Proc -> LocType] /\ (\A q \in Proc \ {p} : Same(q) /\ Slept(q))
  /\ Place(p)' = l /\ loc'[p].pc = l /\ loc'[p].write = w
  /\ loc'[p].op = loc[p].op /\ loc'[p].blk = loc[p].blk /\ loc'[p].b = loc[p].b

LEMMA GoesOnIs ==
  ASSUME TypeInv, NEW p \in Proc, NEW l \in Places
  PROVE  /\ Goto(p, l) => GoesOn(p, l, loc[p].write)
         /\ loc' = [loc EXCEPT ![p].pc = l, ![p].write = TRUE] => GoesOn(p, l, TRUE)
<1> USE Zenon
<1>1. Goto(p, l) => GoesOn(p, l, loc[p].write)
  BY GotoIs DEF GoesOn, SameFields
<1>2. ASSUME loc' = [loc EXCEPT ![p].pc = l, ![p].write = TRUE] PROVE GoesOn(p, l, TRUE)
  <2> DEFINE r == [[loc[p] EXCEPT !.pc = l] EXCEPT !.write = TRUE]
  <2>1. loc \in [Proc -> LocType]
    BY DEF TypeInv
  <2>2. /\ r \in LocType /\ r.pc = l /\ r.write = TRUE
        /\ r.op = loc[p].op /\ r.blk = loc[p].blk /\ r.b = loc[p].b
    BY <2>1 DEF LocType
  <2>3. loc' = [loc EXCEPT ![p] = r]
    BY <2>1, <1>2
  <2> HIDE DEF r
  <2>4. Moves(p, r)
    BY <2>2, <2>3, MoveIs
  <2>5. l # "sleep"
    BY DEF Places
  <2>6. Place(p)' = l
    BY <2>2, <2>4, <2>5, Awake DEF Moves
  <2> QED BY <2>2, <2>4, <2>6 DEF Moves, GoesOn
<1> QED BY <1>1, <1>2

(* A caller reads its buffer, or install_trans() writes it.                *)
LEMMA UseOnwardKept ==
  ASSUME DiskInv, NEW p \in Proc, At(p, "have"), NEW l \in {"release", "rw"}, NEW w \in BOOLEAN,
         l = "rw" <=> w, w => loc[p].op = "install", GoesOn(p, l, w),
         UNCHANGED <<buf, mru, disk, device, pinned, content, panicked>>
  PROVE  DiskInv'
<1> USE Zenon
<1>1. "have" \in Places \ {"idle"} /\ l \in Places /\ l # "sleep" /\ "have" \in Holds
  BY DEF Places, Holds
<1>2. /\ TypeInv /\ PlaceInv /\ CoreInv /\ WakeInv /\ loc \in [Proc -> LocType] /\ buf \in [Buf -> BufType]
      /\ Place(p) = "have" /\ PlaceOK(p)
      /\ loc[p].b \in Buf /\ loc[p].blk \in Block /\ loc[p].op \in Ops /\ buf[loc[p].b].blockno = loc[p].blk
  BY <1>1, InCall
<1>3. PICK b \in Buf : b = loc[p].b
  BY <1>2
<1>4. buf[b].valid /\ ~loc[p].write
  BY <1>2, <1>3 DEF PlaceOK, Holds, InRw
<1>5. buf[b].lock = p /\ \A q \in Proc : buf[b].lock = q => q = p
  BY ZenonT(40), <1>1, <1>2, <1>3, HaveIs
<1>9. /\ loc' \in [Proc -> LocType] /\ (\A q \in Proc \ {p} : Same(q) /\ Slept(q))
      /\ loc'[p].pc = l /\ loc'[p].write = w
      /\ loc'[p].op = loc[p].op /\ loc'[p].blk = loc[p].blk /\ loc'[p].b = b
  BY <1>3 DEF GoesOn
<1>10. Place(p)' = l
  BY DEF GoesOn
<1>11. /\ UNCHANGED <<mru, free, desc, ops, info, platter, content, pinned>> /\ UNCHANGED rings
       /\ UNCHANGED <<free, used, used_idx, irq, vdisk_lock>> /\ panicked' = panicked /\ buf' = buf
  BY DEF disk, device, rings
<1>12. Onward(p, "have", l)
  <2>1. "have" \in {"lock", "have", "release"} /\ l \in {"have", "rw", "release", "put"} /\ "have" \in Early
    BY DEF Early
  <2> QED BY <2>1, <1>2, <1>3, <1>9, <1>10, <1>11 DEF Onward
<1>13. PlaceOK(p)'
  <2>1. buf' = buf /\ buf[b].blockno = loc[p].blk
    BY <1>2, <1>3, <1>11
  <2>2. CASE l = "rw"
    BY <2>1, <2>2, <1>2, <1>4, <1>5, <1>9, <1>10 DEF PlaceOK, Places, Holds, InRw
  <2>3. CASE l = "release"
    BY ZenonT(40), <2>1, <2>3, <1>2, <1>4, <1>5, <1>9, <1>10 DEF PlaceOK, Places, Holds, InRw
  <2> QED BY <2>2, <2>3
<1>14. l \in Holds
  BY DEF Holds
<1>15. \A q \in Proc : buf'[b].lock = q => Place(q)' \in Holds /\ loc'[q].b = b
  BY <1>5, <1>9, <1>10, <1>11, <1>14
<1>16. CoreInv'
  BY <1>2, <1>3, <1>12, <1>13, <1>15, OnwardKept
<1>17. WakeInv'
  BY <1>1, <1>2, <1>9, <1>11, SleepersKept
<1> QED BY <1>11, <1>16, <1>17 DEF DiskInv

(* A caller stores d in its buffer, and goes on to write it to the disk    *)
(* (bwrite()) or leaves that to the log (log_write()).                     *)
Stored(p, b, d, l) ==
  /\ UNCHANGED <<mru, free, desc, ops, info, platter, panicked>> /\ UNCHANGED rings
  /\ UNCHANGED <<free, used, used_idx, irq, vdisk_lock>>
  /\ loc' \in [Proc -> LocType] /\ (\A q \in Proc \ {p} : Same(q) /\ Slept(q))
  /\ Place(p)' = l /\ loc'[p].pc = l
  /\ loc'[p].op = loc[p].op /\ loc'[p].blk = loc[p].blk /\ loc'[p].b = b
  /\ d \in Data /\ content' = [content EXCEPT ![loc[p].blk] = d]
  /\ buf' \in [Buf -> BufType] /\ (\A c \in Buf \ {b} : buf'[c] = buf[c])
  /\ buf'[b].blockno = buf[b].blockno /\ buf'[b].valid = buf[b].valid /\ buf'[b].disk = buf[b].disk
  /\ buf'[b].lock = buf[b].lock /\ buf'[b].data = d
  /\ \/ /\ l = "rw" /\ loc[p].op = "write" /\ loc'[p].write /\ pinned' = pinned
        /\ buf'[b].refcnt = buf[b].refcnt
     \/ /\ l = "release" /\ loc[p].op = "log_write" /\ ~loc'[p].write /\ pinned' = pinned \cup {loc[p].blk}
        /\ buf'[b].refcnt = IF loc[p].blk \in pinned THEN buf[b].refcnt ELSE buf[b].refcnt + 1

LEMMA StoredKept ==
  ASSUME DiskInv, NEW p \in Proc, At(p, "have"), NEW b \in Buf, b = loc[p].b, NEW d, NEW l, Stored(p, b, d, l)
  PROVE  DiskInv'
<1> USE Zenon
<1>1. "have" \in Places \ {"idle"} /\ "have" \in Holds
  BY DEF Places, Holds
<1>2. /\ TypeInv /\ PlaceInv /\ RefInv /\ RingInv /\ ReqInv /\ DataInv /\ PinInv /\ WakeInv
      /\ Place(p) = "have" /\ PlaceOK(p)
      /\ loc[p].blk \in Block /\ loc[p].op \in Ops /\ buf[b].blockno = loc[p].blk
  BY <1>1, InCall
<1> DEFINE blk == loc[p].blk
<1>3. /\ mru' = mru /\ free' = free /\ desc' = desc /\ ops' = ops /\ info' = info
      /\ platter' = platter /\ panicked' = panicked
      /\ avail' = avail /\ used' = used /\ used_idx' = used_idx /\ lastAvail' = lastAvail
      /\ inflight' = inflight
  BY DEF Stored, rings
<1>4. /\ loc' \in [Proc -> LocType] /\ (\A q \in Proc \ {p} : Same(q) /\ Slept(q))
      /\ Place(p)' = l /\ loc'[p].pc = l
      /\ loc'[p].op = loc[p].op /\ loc'[p].blk = loc[p].blk /\ loc'[p].b = b
      /\ UNCHANGED rings /\ UNCHANGED <<free, used, used_idx, irq, vdisk_lock>>
  BY DEF Stored
<1>5. /\ d \in Data /\ content' = [content EXCEPT ![blk] = d]
      /\ buf' \in [Buf -> BufType] /\ (\A c \in Buf \ {b} : buf'[c] = buf[c])
      /\ buf'[b].blockno = blk /\ buf'[b].valid = buf[b].valid /\ buf'[b].disk = buf[b].disk
      /\ buf'[b].lock = buf[b].lock /\ buf'[b].data = d
  BY <1>2 DEF Stored
<1>6. \/ /\ l = "rw" /\ loc[p].op = "write" /\ loc'[p].write /\ pinned' = pinned
         /\ buf'[b].refcnt = buf[b].refcnt
      \/ /\ l = "release" /\ loc[p].op = "log_write" /\ ~loc'[p].write /\ pinned' = pinned \cup {blk}
         /\ buf'[b].refcnt = IF blk \in pinned THEN buf[b].refcnt ELSE buf[b].refcnt + 1
  BY DEF Stored
<1> HIDE DEF blk
<1>7. /\ l \in {"rw", "release"} /\ l # "idle" /\ l # "wait" /\ l # "unpin" /\ l # "sleep" /\ l \in Holds
  BY <1>6 DEF Holds
<1>8. blk \in Block /\ buf[b].blockno = blk /\ loc'[p].blk = blk /\ blk = loc[p].blk
  BY <1>2, <1>4 DEF blk
<1>9. buf[b].valid /\ ~loc[p].write
  BY <1>2 DEF PlaceOK, Holds, InRw
<1>10. /\ buf[b].lock = p /\ BufOK(b) /\ ~buf[b].disk
       /\ \A c \in Buf \ {b} : buf[c].blockno # blk
       /\ \A q \in Proc : buf[b].lock = q => q = p
  <2>1. Place(p) \in Holds /\ Place(p) # "wait"
    BY <1>1, <1>2
  <2>2. ~buf[b].disk
    BY <2>1, <1>2, HaveIdle
  <2>3. /\ buf[b].lock = p /\ BufOK(b)
        /\ \A c \in Buf \ {b} : buf[c].blockno # buf[b].blockno
        /\ \A q \in Proc : buf[b].lock = q => q = p
    BY <2>1, <1>2, HaveIs
  <2> QED BY <2>2, <2>3, <1>8
<1>11. pinned' \in SUBSET Block
  BY <1>2, <1>6, <1>8 DEF TypeInv
<1>12. content' \in [Block -> Data] /\ content'[blk] = d /\ \A x \in Block \ {blk} : content'[x] = content[x]
  BY <1>2, <1>5, <1>8 DEF TypeInv
<1>13. TypeInv'
  BY <1>2, <1>3, <1>4, <1>5, <1>11, <1>12 DEF TypeInv
<1>14. PlaceInv'
  <2>1. PlaceOK(p)'
    <3>1. /\ buf'[b].valid /\ buf'[b].lock = p /\ buf'[b].blockno = loc'[p].blk /\ loc'[p].b = b
          /\ loc'[p].blk \in Block /\ loc'[p].op \in Ops
      BY <1>2, <1>4, <1>5, <1>8, <1>9, <1>10
    <3>2. CASE l = "rw"
      BY <3>1, <3>2, <1>4, <1>6 DEF PlaceOK, Places, Holds, InRw
    <3>3. CASE l = "release"
      BY <3>1, <3>3, <1>4, <1>6 DEF PlaceOK, Places, Holds, InRw
    <3> QED BY <3>2, <3>3, <1>7
  <2>2. BufOK(b)'
    <3>1. \A q \in Proc : buf'[b].lock = q => Place(q)' \in Holds /\ loc'[q].b = b
      BY <1>4, <1>5, <1>7, <1>10
    <3>2. ~buf'[b].disk
      BY <1>5, <1>10
    <3>3. \A c \in Buf : b # c => buf'[b].blockno # buf'[c].blockno
      BY <1>5, <1>8, <1>10
    <3>4. buf'[b].blockno \in Block
      BY <1>5, <1>8
    <3> QED BY <3>1, <3>2, <3>3, <3>4 DEF BufOK
  <2>3. \A c \in Buf \ {b} : SameBuf(c)
    BY <1>5 DEF SameBuf
  <2>4. PlaceStep(p, b)
    BY <2>1, <2>2, <2>3, <1>4, <1>5, <1>8 DEF PlaceStep
  <2> QED BY <2>4, <1>2, <1>13, PlaceKept
<1>15. ASSUME NEW c \in Buf PROVE RefOK(c)'
  <2>1. ASSUME NEW q \in Proc PROVE q \in Refs(c)' <=> q \in Refs(c)
    <3>1. CASE q = p
      <4>1. Place(p) # "idle"
        BY <1>2
      <4>2. Place(p)' # "idle" /\ loc'[p].b = loc[p].b
        BY <1>4, <1>7
      <4> QED BY <3>1, <4>1, <4>2, RefsAre
    <3>2. CASE q # p
      BY <3>2, <1>4, RefsAre DEF Same, SameFields
    <3> QED BY <3>1, <3>2
  <2>2. RefOK(c)
    BY <1>2 DEF RefInv
  <2>3. CASE c # b
    <3>1. buf'[c] = buf[c] /\ buf[c].blockno # blk
      BY <2>3, <1>5, <1>10
    <3>2. buf[c].blockno \in pinned' <=> buf[c].blockno \in pinned
      BY <3>1, <1>6
    <3>3. SameRefs(c)
      BY <2>1, <3>1, <3>2 DEF SameRefs
    <3> QED BY <3>3, <2>2, RefKept
  <2>4. CASE c = b
    <3>1. Refs(b)' = Refs(b)
      <4>1. Refs(b) \subseteq Proc /\ Refs(b)' \subseteq Proc
        BY RefsFinite
      <4> QED BY <4>1, <2>1, <2>4
    <3>2. Cardinality(Refs(b))' = Cardinality(Refs(b)) /\ Cardinality(Refs(b)) \in Nat
      BY <3>1, RefsFinite
    <3>3. buf[b].refcnt = Cardinality(Refs(b)) + (IF blk \in pinned THEN 1 ELSE 0)
      BY <2>2, <2>4, <1>8 DEF RefOK
    <3>4. buf'[b].refcnt = Cardinality(Refs(b)) + (IF blk \in pinned' THEN 1 ELSE 0)
      BY SMTT(60), <3>2, <3>3, <1>6
    <3> QED BY <3>2, <3>4, <2>4, <1>5 DEF RefOK
  <2> QED BY <2>3, <2>4
<1>16. RingInv' /\ Out' = Out
  BY <1>2, <1>4, RingsKept
<1>17. ReqInv'
  <2>1. \A q \in Proc : Place(q)' = "wait" <=> Place(q) = "wait"
    BY <1>2, <1>4, <1>7 DEF Same
  <2>2. ASSUME NEW q \in Waiting PROVE Same(q) /\ buf'[loc[q].b].disk = buf[loc[q].b].disk
    <3>1. q \in Proc /\ q # p /\ loc[q].b \in Buf
      BY <1>2 DEF Waiting, PlaceInv, PlaceOK
    <3> QED BY <3>1, <1>4, <1>5
  <2>3. ReqStep
    BY <2>1, <2>2, <1>3, <1>4, RingsKept DEF ReqStep
  <2> QED BY <2>3, <1>2, ReqKept
<1>18. DataInv'
  <2>1. ASSUME NEW c \in Buf, buf'[c].valid PROVE buf'[c].data = content'[buf'[c].blockno]
    <3>1. CASE c = b
      BY <3>1, <1>5, <1>12
    <3>2. CASE c # b
      <4>1. buf'[c] = buf[c] /\ buf[c].blockno # blk /\ buf[c].valid /\ BufOK(c)
        BY <2>1, <3>2, <1>2, <1>5, <1>10 DEF PlaceInv
      <4>2. buf[c].blockno \in Block \ {blk}
        BY <4>1 DEF BufOK
      <4> QED BY ZenonT(40), <4>1, <4>2, <1>2, <1>12 DEF DataInv
    <3> QED BY <3>1, <3>2
  <2>2. \A x \in Block \ {blk} : OnDisk(x)' <=> OnDisk(x)
    BY <1>3, <1>12 DEF OnDisk
  <2>3. ASSUME NEW q \in Proc \ {p}, Place(q) \in Holds PROVE loc[q].blk \in Block \ {blk}
    <3>1. loc[q].blk # blk
      BY <2>3, <1>1, <1>2, <1>8, OneHolder
    <3>2. Place(q) # "idle"
      BY <2>3 DEF Holds
    <3> QED BY <3>1, <3>2, <1>2 DEF PlaceInv, PlaceOK
  <2>4. ASSUME NEW x \in Block \ pinned', \A q \in Proc : loc'[q].blk = x => ~Dirty(q)' PROVE OnDisk(x)'
    <3>1. x # blk
      <4>1. CASE l = "rw"
        <5>1. Dirty(p)'
          BY <4>1, <1>4, <1>6 DEF Dirty
        <5> QED BY <5>1, <2>4, <1>8
      <4>2. CASE l = "release"
        BY <4>2, <2>4, <1>6
      <4> QED BY <4>1, <4>2, <1>6
    <3>2. x \in Block \ pinned
      BY <2>4, <1>6
    <3>3. \A q \in Proc : loc[q].blk = x => ~Dirty(q)
      <4>1. \A q \in Proc \ {p} : loc'[q].blk = loc[q].blk /\ (Dirty(q)' <=> Dirty(q))
        BY <1>4, <1>16 DEF Same, SameFields, Dirty
      <4> QED BY <4>1, <2>4, <1>9 DEF Dirty
    <3> QED BY <3>1, <3>2, <3>3, <2>2, <1>2 DEF DataInv
  <2>5. ASSUME NEW q \in Proc, Place(q)' = "unpin" PROVE OnDisk(loc[q].blk)'
    <3>1. q # p
      BY <2>5, <1>4, <1>7
    <3>2. Place(q) = "unpin" /\ loc'[q].blk = loc[q].blk
      BY <3>1, <2>5, <1>4 DEF Same, SameFields
    <3>3. loc[q].blk \in Block \ {blk}
      BY ZenonT(40), <3>1, <3>2, <2>3 DEF Holds
    <3>4. OnDisk(loc[q].blk)
      BY <3>2, <1>2 DEF DataInv
    <3> QED BY <3>2, <3>3, <3>4, <1>3, <1>12 DEF OnDisk
  <2>6. ASSUME NEW q \in Proc, Place(q)' = "wait", loc'[q].i \notin Out'
        PROVE  IF loc'[q].write THEN OnDisk(loc[q].blk)' ELSE buf'[loc'[q].b].data = content'[loc'[q].blk]
    <3>1. q # p
      BY <2>6, <1>4, <1>7
    <3>2. /\ Place(q) = "wait" /\ loc'[q].blk = loc[q].blk /\ loc'[q].b = loc[q].b /\ loc'[q].i = loc[q].i
          /\ loc'[q].write = loc[q].write
      BY <3>1, <2>6, <1>4 DEF Same, SameFields
    <3>3. loc[q].blk \in Block \ {blk}
      BY <3>1, <3>2, <2>3 DEF Holds
    <3>4. IF loc[q].write THEN OnDisk(loc[q].blk) ELSE buf[loc[q].b].data = content[loc[q].blk]
      BY ZenonT(40), <3>2, <2>6, <1>2, <1>16 DEF DataInv, Waiting
    <3>5. loc[q].b \in Buf /\ buf[loc[q].b].blockno = loc[q].blk
      BY <3>2, <1>2 DEF PlaceInv, PlaceOK
    <3>6. buf'[loc[q].b] = buf[loc[q].b]
      BY <3>3, <3>5, <1>5, <1>8
    <3>7. content'[loc[q].blk] = content[loc[q].blk] /\ (OnDisk(loc[q].blk)' <=> OnDisk(loc[q].blk))
      BY <3>2, <3>3, <1>3, <1>12 DEF OnDisk
    <3> QED BY <3>2, <3>4, <3>6, <3>7
  <2> QED BY <2>1, <2>4, <2>5, <2>6 DEF DataInv, Waiting
<1>19. PinInv'
  <2>1. ASSUME NEW x \in pinned' PROVE \E c \in Buf : buf'[c].blockno = x /\ buf'[c].valid
    <3>1. CASE x = blk
      BY <3>1, <1>5, <1>9
    <3>2. CASE x # blk
      <4>1. x \in pinned
        BY <2>1, <3>2, <1>6
      <4>2. PICK c \in Buf : buf[c].blockno = x /\ buf[c].valid
        BY <4>1, <1>2 DEF PinInv
      <4> QED BY <4>2, <3>2, <1>5, <1>8
    <3> QED BY <3>1, <3>2
  <2>2. \A q \in Proc : loc'[q].op = loc[q].op /\ loc'[q].blk = loc[q].blk
    BY <1>4 DEF Same, SameFields
  <2>3. pinned \subseteq pinned' /\ loc[p].op # "install"
    BY <1>6
  <2>4. \A q \in Proc : loc'[q].op = "install" /\ Place(q)' \in Early => loc'[q].blk \in pinned'
    BY ZenonT(40), <2>2, <2>3, <1>2, <1>4 DEF PinInv, Same
  <2>5. ASSUME NEW q \in Proc, NEW s \in Proc, q # s, loc'[q].op = "install",
               loc'[s].op \in {"log_write", "install"}
        PROVE  loc'[s].blk # loc'[q].blk
    <3>1. loc[q].op = "install" /\ loc[s].op \in {"log_write", "install"}
      BY <2>2, <2>5
    <3>2. loc[s].blk # loc[q].blk
      BY <3>1, <2>5, <1>2 DEF PinInv
    <3> QED BY <3>2, <2>2
  <2> QED BY <2>1, <2>4, <2>5 DEF PinInv
<1>20. WakeInv'
  <2>1. \A c \in Buf : buf'[c].lock = buf[c].lock /\ buf'[c].disk = buf[c].disk
    BY <1>5
  <2> QED BY <2>1, <1>2, <1>4, <1>7, SleepersKept
<1> QED BY <1>3, <1>13, <1>14, <1>15, <1>16, <1>17, <1>18, <1>19, <1>20 DEF DiskInv, CoreInv, RefInv

(* What callers of bread() do with the buffer.                             *)
LEMMA UseKept ==
  ASSUME DiskInv, NEW p \in Proc, Use(p)
  PROVE  DiskInv'
<1> USE Zenon
<1>1. At(p, "have") /\ "have" \in Places \ {"idle"} /\ "rw" \in Places /\ "release" \in Places
  BY DEF Use, Places
<1>2. /\ TypeInv /\ PlaceOK(p) /\ Place(p) = "have" /\ buf \in [Buf -> BufType]
      /\ loc[p].b \in Buf /\ loc[p].blk \in Block
  BY <1>1, InCall
<1>3. PICK b \in Buf : b = loc[p].b
  BY <1>2
<1>4. loc[p].write = FALSE
  <2>1. ~loc[p].write
    BY <1>2 DEF PlaceOK, InRw
  <2>2. loc[p].write \in BOOLEAN
    BY <1>2 DEF TypeInv, LocType
  <2> QED BY <2>1, <2>2
<1>5. UNCHANGED <<mru, disk, device, panicked>>
  BY DEF Use
<1>6. /\ UNCHANGED <<mru, free, desc, ops, info, platter, panicked>> /\ UNCHANGED rings
      /\ UNCHANGED <<free, used, used_idx, irq, vdisk_lock>>
  BY <1>5 DEF disk, device, rings
<1>7. CASE loc[p].op = "read" /\ Goto(p, "release") /\ UNCHANGED <<buf, content, pinned>>
  <2>1. GoesOn(p, "release", FALSE)
    BY <1>1, <1>2, <1>4, <1>7, GoesOnIs
  <2>2. UNCHANGED <<buf, mru, disk, device, pinned, content, panicked>>
    BY <1>5, <1>7
  <2> QED BY <2>1, <2>2, <1>1, UseOnwardKept
<1>8. CASE /\ loc[p].op = "install" /\ UNCHANGED <<buf, content, pinned>>
           /\ loc' = [loc EXCEPT ![p].pc = "rw", ![p].write = TRUE]
  <2>1. GoesOn(p, "rw", TRUE)
    BY <1>1, <1>2, <1>8, GoesOnIs
  <2>2. UNCHANGED <<buf, mru, disk, device, pinned, content, panicked>>
    BY <1>5, <1>8
  <2> QED BY <2>1, <2>2, <1>1, <1>8, UseOnwardKept
<1>9. ASSUME NEW d \in Data, loc[p].op = "write", UNCHANGED pinned,
             buf' = [buf EXCEPT ![b].data = d], content' = [content EXCEPT ![loc[p].blk] = d],
             loc' = [loc EXCEPT ![p].pc = "rw", ![p].write = TRUE]
      PROVE  DiskInv'
  <2>1. GoesOn(p, "rw", TRUE)
    BY <1>1, <1>2, <1>9, GoesOnIs
  <2> DEFINE r == [buf[b] EXCEPT !.data = d]
  <2>2. /\ r \in BufType /\ r.blockno = buf[b].blockno /\ r.valid = buf[b].valid /\ r.disk = buf[b].disk
        /\ r.lock = buf[b].lock /\ r.data = d /\ r.refcnt = buf[b].refcnt
    BY ZenonT(40), <1>2 DEF BufType
  <2>3. buf' = [buf EXCEPT ![b] = r]
    BY <1>2, <1>9
  <2> HIDE DEF r
  <2>4. buf' \in [Buf -> BufType] /\ buf'[b] = r /\ \A c \in Buf \ {b} : buf'[c] = buf[c]
    BY <1>2, <2>2, <2>3
  <2>5. Stored(p, b, d, "rw")
    BY <2>1, <2>2, <2>4, <1>3, <1>6, <1>9 DEF GoesOn, Stored
  <2> QED BY <2>5, <1>1, <1>3, StoredKept
<1>10. ASSUME NEW d \in Data, loc[p].op = "log_write", pinned' = pinned \cup {loc[p].blk}, Goto(p, "release"),
              buf' = [buf EXCEPT ![b].data = d, ![b].refcnt = IF loc[p].blk \in pinned THEN @ ELSE @ + 1],
              content' = [content EXCEPT ![loc[p].blk] = d]
       PROVE  DiskInv'
  <2>1. GoesOn(p, "release", FALSE)
    BY <1>1, <1>2, <1>4, <1>10, GoesOnIs
  <2> DEFINE n == IF loc[p].blk \in pinned THEN buf[b].refcnt ELSE buf[b].refcnt + 1
             r == [[buf[b] EXCEPT !.data = d] EXCEPT !.refcnt = n]
  <2>2. n \in Int
    BY SMTT(60), <1>2 DEF BufType
  <2>3. buf' = [buf EXCEPT ![b] = r]
    BY <1>2, <1>10 DEF BufType
  <2> HIDE DEF n
  <2>4. /\ r \in BufType /\ r.blockno = buf[b].blockno /\ r.valid = buf[b].valid /\ r.disk = buf[b].disk
        /\ r.lock = buf[b].lock /\ r.data = d /\ r.refcnt = n
    BY <1>2, <2>2 DEF BufType
  <2> HIDE DEF r
  <2>5. buf' \in [Buf -> BufType] /\ buf'[b] = r /\ \A c \in Buf \ {b} : buf'[c] = buf[c]
    BY <1>2, <2>3, <2>4
  <2>6. Stored(p, b, d, "release")
    BY <2>1, <2>4, <2>5, <1>3, <1>6, <1>10 DEF GoesOn, Stored, n
  <2> QED BY <2>6, <1>1, <1>3, StoredKept
<1> QED BY <1>3, <1>7, <1>8, <1>9, <1>10 DEF Use

(* bunpin(), at the end of install_trans()'s pass for a block.             *)
LEMMA UnpinKept ==
  ASSUME DiskInv, NEW p \in Proc, bunpin(p)
  PROVE  DiskInv'
<1> USE Zenon
<1>1. /\ At(p, "unpin") /\ "unpin" \in Places \ {"idle"} /\ "release" \in Places /\ "unpin" \in Holds
      /\ "unpin" \in Early
  BY DEF bunpin, Places, Holds, Early
<1>2. /\ TypeInv /\ PlaceInv /\ RefInv /\ RingInv /\ ReqInv /\ DataInv /\ PinInv /\ WakeInv
      /\ Place(p) = "unpin" /\ PlaceOK(p) /\ buf \in [Buf -> BufType]
      /\ loc[p].b \in Buf /\ loc[p].blk \in Block /\ loc[p].op \in Ops /\ buf[loc[p].b].blockno = loc[p].blk
  BY <1>1, InCall
<1>0. PICK b \in Buf, blk \in Block : b = loc[p].b /\ blk = loc[p].blk
  BY <1>2
<1>3. /\ mru' = mru /\ free' = free /\ desc' = desc /\ ops' = ops /\ info' = info
      /\ platter' = platter /\ content' = content /\ panicked' = panicked
      /\ avail' = avail /\ used' = used /\ used_idx' = used_idx /\ lastAvail' = lastAvail
      /\ inflight' = inflight /\ UNCHANGED rings /\ UNCHANGED <<free, used, used_idx, irq, vdisk_lock>>
  BY DEF bunpin, disk, device, rings
<1>4. Goto(p, "release") /\ pinned' = pinned \ {blk}
  BY <1>0 DEF bunpin
<1>5. GoesOn(p, "release", loc[p].write)
  BY <1>1, <1>2, <1>4, GoesOnIs
<1>6. /\ loc' \in [Proc -> LocType] /\ (\A q \in Proc \ {p} : Same(q) /\ Slept(q))
      /\ Place(p)' = "release" /\ loc'[p].pc = "release" /\ loc'[p].write = loc[p].write
      /\ loc'[p].op = loc[p].op /\ loc'[p].blk = blk /\ loc'[p].b = b
  BY <1>5, <1>0 DEF GoesOn
<1> DEFINE r == [buf[b] EXCEPT !.refcnt = @ - 1]
<1>7. /\ r \in BufType /\ r.blockno = buf[b].blockno /\ r.valid = buf[b].valid /\ r.disk = buf[b].disk
      /\ r.lock = buf[b].lock /\ r.data = buf[b].data /\ r.refcnt = buf[b].refcnt - 1
  BY SMTT(60), <1>2 DEF BufType
<1>8. buf' = [buf EXCEPT ![b] = r]
  BY <1>0, <1>2 DEF bunpin
<1> HIDE DEF r
<1>9. buf' \in [Buf -> BufType] /\ buf'[b] = r /\ \A c \in Buf \ {b} : buf'[c] = buf[c]
  BY <1>2, <1>7, <1>8
<1>10. \A c \in Buf : /\ buf'[c].blockno = buf[c].blockno /\ buf'[c].valid = buf[c].valid
                      /\ buf'[c].disk = buf[c].disk /\ buf'[c].lock = buf[c].lock
                      /\ buf'[c].data = buf[c].data
  BY <1>7, <1>9
<1>11. buf[b].valid /\ ~loc[p].write /\ loc[p].op = "install" /\ buf[b].blockno = blk
  BY <1>0, <1>2 DEF PlaceOK, Holds, InRw
<1>12. /\ buf[b].lock = p /\ BufOK(b)
       /\ \A c \in Buf \ {b} : buf[c].blockno # blk
       /\ \A q \in Proc : buf[b].lock = q => q = p
  <2>1. Place(p) \in Holds
    BY <1>1, <1>2
  <2>2. /\ buf[b].lock = p /\ BufOK(b)
        /\ \A c \in Buf \ {b} : buf[c].blockno # buf[b].blockno
        /\ \A q \in Proc : buf[b].lock = q => q = p
    BY <2>1, <1>0, <1>2, HaveIs
  <2> QED BY <2>2, <1>11
<1>13. blk \in pinned
  BY <1>0, <1>1, <1>2, <1>11 DEF PinInv
<1>14. TypeInv'
  <2>1. pinned' \in SUBSET Block
    BY <1>2, <1>4 DEF TypeInv
  <2> QED BY <2>1, <1>2, <1>3, <1>6, <1>9 DEF TypeInv
<1>15. PlaceInv'
  <2>1. PlaceOK(p)'
    <3>1. buf'[b].valid /\ buf'[b].lock = p /\ buf'[b].blockno = blk
      BY <1>10, <1>11, <1>12
    <3> QED BY <3>1, <1>2, <1>6, <1>11 DEF PlaceOK, Places, Holds, InRw
  <2>2. BufOK(b)'
    <3>1. ~buf[b].disk
      BY <1>0, <1>2, <1>1, HaveIdle
    <3>2. "release" \in Holds
      BY DEF Holds
    <3>3. \A q \in Proc : buf'[b].lock = q => Place(q)' \in Holds /\ loc'[q].b = b
      BY <3>2, <1>6, <1>10, <1>12
    <3>4. \A c \in Buf : b # c => buf'[b].blockno # buf'[c].blockno
      BY <1>10, <1>11, <1>12
    <3> QED BY <3>1, <3>3, <3>4, <1>10, <1>11 DEF BufOK
  <2>3. \A c \in Buf \ {b} : SameBuf(c)
    BY <1>9 DEF SameBuf
  <2>4. PlaceStep(p, b)
    BY <2>1, <2>2, <2>3, <1>0, <1>6, <1>10 DEF PlaceStep
  <2> QED BY <2>4, <1>2, <1>14, PlaceKept
<1>16. ASSUME NEW c \in Buf PROVE RefOK(c)'
  <2>1. ASSUME NEW q \in Proc PROVE q \in Refs(c)' <=> q \in Refs(c)
    <3>1. CASE q = p
      <4>1. Place(p) # "idle" /\ Place(p)' # "idle" /\ loc'[p].b = loc[p].b
        BY <1>0, <1>2, <1>6
      <4> QED BY <3>1, <4>1, RefsAre
    <3>2. CASE q # p
      BY <3>2, <1>6, RefsAre DEF Same, SameFields
    <3> QED BY <3>1, <3>2
  <2>2. RefOK(c)
    BY <1>2 DEF RefInv
  <2>3. CASE c # b
    <3>1. buf'[c] = buf[c] /\ buf[c].blockno # blk
      BY <2>3, <1>9, <1>12
    <3>2. buf[c].blockno \in pinned' <=> buf[c].blockno \in pinned
      BY <3>1, <1>4
    <3>3. SameRefs(c)
      BY <2>1, <3>1, <3>2 DEF SameRefs
    <3> QED BY <3>3, <2>2, RefKept
  <2>4. CASE c = b
    <3>1. Refs(b)' = Refs(b)
      <4>1. Refs(b) \subseteq Proc /\ Refs(b)' \subseteq Proc
        BY RefsFinite
      <4> QED BY <4>1, <2>1, <2>4
    <3>2. Cardinality(Refs(b))' = Cardinality(Refs(b)) /\ Cardinality(Refs(b)) \in Nat
      BY <3>1, RefsFinite
    <3>3. Pinned(b) /\ ~Pinned(b)'
      BY <1>4, <1>10, <1>11, <1>13 DEF Pinned
    <3>4. buf'[b].refcnt = buf[b].refcnt - 1
      BY <1>7, <1>9
    <3> QED BY <3>2, <3>3, <3>4, <2>2, <2>4, CountUnpinned
  <2> QED BY <2>3, <2>4
<1>17. RingInv' /\ Out' = Out
  BY <1>2, <1>3, RingsKept
<1>18. \A q \in Proc : Place(q)' = "wait" <=> Place(q) = "wait"
  BY <1>2, <1>6 DEF Same
<1>19. ReqInv'
  <2>1. ASSUME NEW q \in Waiting PROVE Same(q) /\ buf'[loc[q].b].disk = buf[loc[q].b].disk
    <3>1. q \in Proc /\ q # p /\ loc[q].b \in Buf
      BY <1>2 DEF Waiting, PlaceInv, PlaceOK
    <3> QED BY ZenonT(40), <3>1, <1>6, <1>10
  <2>2. ReqStep
    BY <2>1, <1>3, <1>18, RingsKept DEF ReqStep
  <2> QED BY <2>2, <1>2, ReqKept
<1>20. DataInv'
  <2>1. OnDisk(blk)
    BY <1>0, <1>2 DEF DataInv
  <2>2. \A x \in Block : OnDisk(x)' <=> OnDisk(x)
    BY <1>3 DEF OnDisk
  <2>3. ASSUME NEW c \in Buf, buf'[c].valid PROVE buf'[c].data = content'[buf'[c].blockno]
    BY <2>3, <1>2, <1>3, <1>10 DEF DataInv
  <2>4. ASSUME NEW x \in Block \ pinned', \A q \in Proc : loc'[q].blk = x => ~Dirty(q)' PROVE OnDisk(x)'
    <3>1. CASE x = blk
      BY <3>1, <2>1, <2>2
    <3>2. CASE x # blk
      <4>1. x \in Block \ pinned
        BY <2>4, <3>2, <1>4
      <4>2. \A q \in Proc \ {p} : loc'[q].blk = loc[q].blk /\ (Dirty(q)' <=> Dirty(q))
        BY <1>6, <1>17 DEF Same, SameFields, Dirty
      <4>3. \A q \in Proc : loc[q].blk = x => ~Dirty(q)
        BY <4>2, <2>4, <1>11 DEF Dirty
      <4> QED BY ZenonT(40), <4>1, <4>3, <2>2, <1>2 DEF DataInv
    <3> QED BY <3>1, <3>2
  <2>5. ASSUME NEW q \in Proc, Place(q)' = "unpin" PROVE OnDisk(loc[q].blk)'
    <3>1. q # p
      BY <2>5, <1>6
    <3>2. Place(q) = "unpin" /\ loc'[q].blk = loc[q].blk
      BY <3>1, <2>5, <1>6 DEF Same, SameFields
    <3>3. OnDisk(loc[q].blk)
      BY <3>2, <1>2 DEF DataInv
    <3> QED BY <3>2, <3>3, <1>3 DEF OnDisk
  <2>6. ASSUME NEW q \in Proc, Place(q)' = "wait", loc'[q].i \notin Out'
        PROVE  IF loc'[q].write THEN OnDisk(loc[q].blk)' ELSE buf'[loc'[q].b].data = content'[loc'[q].blk]
    <3>1. q # p
      BY <2>6, <1>6
    <3>2. /\ Place(q) = "wait" /\ loc'[q].blk = loc[q].blk /\ loc'[q].b = loc[q].b /\ loc'[q].i = loc[q].i
          /\ loc'[q].write = loc[q].write
      BY <3>1, <2>6, <1>6 DEF Same, SameFields
    <3>3. IF loc[q].write THEN OnDisk(loc[q].blk) ELSE buf[loc[q].b].data = content[loc[q].blk]
      BY <3>2, <2>6, <1>2, <1>17 DEF DataInv, Waiting
    <3>4. loc[q].b \in Buf
      BY <3>2, <1>2 DEF PlaceInv, PlaceOK
    <3>5. OnDisk(loc[q].blk)' <=> OnDisk(loc[q].blk)
      BY <3>2, <1>3 DEF OnDisk
    <3> QED BY ZenonT(40), <3>2, <3>3, <3>4, <3>5, <1>3, <1>10
  <2> QED BY <2>3, <2>4, <2>5, <2>6 DEF DataInv, Waiting
<1>21. PinInv'
  <2>1. ASSUME NEW x \in pinned' PROVE \E c \in Buf : buf'[c].blockno = x /\ buf'[c].valid
    <3>1. x \in pinned
      BY <1>4
    <3>2. PICK c \in Buf : buf[c].blockno = x /\ buf[c].valid
      BY <3>1, <1>2 DEF PinInv
    <3> QED BY <3>2, <1>10
  <2>2. \A q \in Proc : loc'[q].op = loc[q].op /\ loc'[q].blk = loc[q].blk
    BY <1>0, <1>6 DEF Same, SameFields
  <2>3. ASSUME NEW q \in Proc, loc'[q].op = "install", Place(q)' \in Early PROVE loc'[q].blk \in pinned'
    <3>1. q # p
      BY <2>3, <1>6 DEF Early
    <3>2. loc[q].op = "install" /\ Place(q) \in Early
      BY <3>1, <2>2, <2>3, <1>6 DEF Same
    <3>3. loc[q].blk \in pinned /\ loc[q].blk # blk
      BY <3>1, <3>2, <1>0, <1>2, <1>11 DEF PinInv
    <3> QED BY <3>3, <2>2, <1>4
  <2>4. ASSUME NEW q \in Proc, NEW s \in Proc, q # s, loc'[q].op = "install",
               loc'[s].op \in {"log_write", "install"}
        PROVE  loc'[s].blk # loc'[q].blk
    <3>1. loc[q].op = "install" /\ loc[s].op \in {"log_write", "install"}
      BY <2>2, <2>4
    <3>2. loc[s].blk # loc[q].blk
      BY <3>1, <2>4, <1>2 DEF PinInv
    <3> QED BY <3>2, <2>2
  <2> QED BY <2>1, <2>3, <2>4 DEF PinInv
<1>22. WakeInv'
  <2>1. loc'[p].pc # "sleep"
    BY <1>6
  <2> QED BY <2>1, <1>2, <1>3, <1>6, <1>10, SleepersKept
<1>23. panicked' = "no"
  BY <1>3 DEF DiskInv
<1> QED BY <1>14, <1>15, <1>16, <1>17, <1>19, <1>20, <1>21, <1>22, <1>23 DEF DiskInv, CoreInv, RefInv

(* brelse() drops the reference: its call is over, and the list of unused  *)
(* buffers still has every place of it filled.                             *)
LEMMA FrontType ==
  ASSUME TypeInv, NEW b \in Buf
  PROVE  ToFront(b) \in [Buf -> Buf]
<1> DEFINE k == CHOOSE k \in Buf : mru[k] = b
           f(i) == IF i = 1 THEN b ELSE IF i <= k THEN mru[i - 1] ELSE mru[i]
<1>1. ToFront(b) = [i \in Buf |-> f(i)]
  BY DEF ToFront
<1> HIDE DEF k
<1>2. ASSUME NEW i \in Buf PROVE f(i) \in Buf
  <2>1. mru \in [Buf -> Buf] /\ NBUF \in Nat
    BY CacheAssumption DEF TypeInv
  <2>2. i # 1 => i - 1 \in Buf
    BY <2>1 DEF Buf
  <2> QED BY Zenon, <2>1, <2>2
<1> QED BY Zenon, <1>1, <1>2

LEMMA PutKept ==
  ASSUME DiskInv, NEW p \in Proc, brelse(p)
  PROVE  DiskInv'
<1> USE Zenon
<1>1. At(p, "put") /\ "put" \in Places \ {"idle"} /\ "put" \notin Holds /\ "put" \notin InRw
  BY DEF brelse, Places, Holds, InRw
<1>2. /\ TypeInv /\ PlaceInv /\ RefInv /\ RingInv /\ ReqInv /\ DataInv /\ PinInv /\ WakeInv
      /\ Place(p) = "put" /\ PlaceOK(p) /\ buf \in [Buf -> BufType]
      /\ loc[p].b \in Buf /\ loc[p].blk \in Block /\ loc[p].op \in Ops /\ buf[loc[p].b].blockno = loc[p].blk
  BY <1>1, InCall
<1>0. PICK b \in Buf : b = loc[p].b
  BY <1>2
<1>3. /\ free' = free /\ desc' = desc /\ ops' = ops /\ info' = info
      /\ platter' = platter /\ content' = content /\ pinned' = pinned /\ panicked' = panicked
      /\ avail' = avail /\ used' = used /\ used_idx' = used_idx /\ lastAvail' = lastAvail
      /\ inflight' = inflight /\ UNCHANGED rings /\ UNCHANGED <<free, used, used_idx, irq, vdisk_lock>>
  BY DEF brelse, disk, device, rings
<1>4. mru' \in [Buf -> Buf]
  <2>1. mru' = ToFront(b) \/ mru' = mru
    BY <1>0 DEF brelse
  <2> QED BY <2>1, <1>2, FrontType DEF TypeInv
<1>5. Moves(p, Idle)
  <2>1. loc' = [loc EXCEPT ![p] = Idle]
    BY DEF brelse
  <2> QED BY <2>1, <1>2, IdleType, MoveIs
<1>6. /\ loc' \in [Proc -> LocType] /\ (\A q \in Proc \ {p} : Same(q) /\ Slept(q))
      /\ loc'[p] = Idle
  BY <1>5 DEF Moves
<1>7. loc'[p].pc = "idle" /\ loc'[p].op = "none" /\ ~loc'[p].write
  BY <1>6, IdleIs
<1>8. Place(p)' = "idle"
  BY <1>7, Awake
<1> DEFINE r == [buf[b] EXCEPT !.refcnt = @ - 1]
<1>9. /\ r \in BufType /\ r.blockno = buf[b].blockno /\ r.valid = buf[b].valid /\ r.disk = buf[b].disk
      /\ r.lock = buf[b].lock /\ r.data = buf[b].data /\ r.refcnt = buf[b].refcnt - 1
  BY SMTT(60), <1>2 DEF BufType
<1>10. buf' = [buf EXCEPT ![b] = r]
  BY <1>0, <1>2 DEF brelse
<1> HIDE DEF r
<1>11. buf' \in [Buf -> BufType] /\ buf'[b] = r /\ \A c \in Buf \ {b} : buf'[c] = buf[c]
  BY <1>2, <1>9, <1>10
<1>12. \A c \in Buf : /\ buf'[c].blockno = buf[c].blockno /\ buf'[c].valid = buf[c].valid
                      /\ buf'[c].disk = buf[c].disk /\ buf'[c].lock = buf[c].lock
                      /\ buf'[c].data = buf[c].data
  BY <1>9, <1>11
<1>13. ~loc[p].write
  BY <1>1, <1>2 DEF PlaceOK
<1>14. TypeInv'
  BY <1>2, <1>3, <1>4, <1>6, <1>11 DEF TypeInv
<1>15. PlaceInv'
  <2>1. PlaceOK(p)'
    BY <1>7, <1>8 DEF PlaceOK, Places, Holds, InRw
  <2>2. BufOK(b)'
    <3>1. BufOK(b)
      BY <1>2 DEF PlaceInv
    <3>2. ASSUME NEW q \in Proc, buf'[b].lock = q
          PROVE  Place(q)' \in Holds /\ loc'[q].b = b /\ Place(q)' = Place(q)
      <4>1. Place(q) \in Holds /\ loc[q].b = b
        BY <3>1, <3>2, <1>12 DEF BufOK
      <4>2. q # p
        BY <4>1, <1>1, <1>2
      <4> QED BY <4>1, <4>2, <1>6 DEF Same, SameFields
    <3>3. ASSUME buf'[b].disk PROVE \E q \in Proc : buf'[b].lock = q /\ Place(q)' = "wait"
      <4>1. PICK q \in Proc : buf[b].lock = q /\ Place(q) = "wait"
        BY <3>1, <3>3, <1>12 DEF BufOK
      <4>2. buf'[b].lock = q
        BY <4>1, <1>12
      <4> QED BY <4>1, <4>2, <3>2
    <3>4. \A c \in Buf : b # c /\ buf'[b].blockno # NoBlock => buf'[b].blockno # buf'[c].blockno
      BY <3>1, <1>12 DEF BufOK
    <3>5. buf'[b].valid => buf'[b].blockno \in Block
      BY <3>1, <1>12 DEF BufOK
    <3> QED BY <3>2, <3>3, <3>4, <3>5 DEF BufOK
  <2>3. \A c \in Buf \ {b} : SameBuf(c)
    BY <1>11 DEF SameBuf
  <2>4. PlaceStep(p, b)
    BY <2>1, <2>2, <2>3, <1>0, <1>6, <1>12 DEF PlaceStep
  <2> QED BY <2>4, <1>2, <1>14, PlaceKept
<1>16. ASSUME NEW c \in Buf PROVE RefOK(c)'
  <2>1. \A q \in Proc \ {p} : q \in Refs(c)' <=> q \in Refs(c)
    BY <1>6, RefsAre DEF Same, SameFields
  <2>2. p \notin Refs(c)' /\ (p \in Refs(c) <=> c = b)
    <3>1. Place(p) # "idle"
      BY <1>2
    <3> QED BY <3>1, <1>0, <1>8, RefsAre
  <2>3. RefOK(c)
    BY <1>2 DEF RefInv
  <2>4. CASE c # b
    <3>1. SameRefs(c)
      BY <2>1, <2>2, <2>4, <1>3, <1>11 DEF SameRefs
    <3> QED BY <2>3, <3>1, RefKept
  <2>5. CASE c = b
    <3>1. Cardinality(Refs(b))' = Cardinality(Refs(b)) - 1
      BY <2>1, <2>2, <2>5, RefsShrink
    <3>2. Cardinality(Refs(b)) \in Nat
      BY RefsFinite
    <3>3. (Pinned(b)' <=> Pinned(b)) /\ buf'[b].refcnt = buf[b].refcnt - 1
      BY <1>3, <1>9, <1>11 DEF Pinned
    <3> QED BY <3>1, <3>2, <3>3, <2>3, <2>5, CountShrinks
  <2> QED BY <2>4, <2>5
<1>17. RingInv'
  BY <1>2, <1>3, RingsKept
<1>18. ReqInv'
  <2>1. \A q \in Proc : Place(q)' = "wait" <=> Place(q) = "wait"
    BY <1>2, <1>6, <1>8 DEF Same
  <2>2. ASSUME NEW q \in Waiting PROVE Same(q) /\ buf'[loc[q].b].disk = buf[loc[q].b].disk
    <3>1. q \in Proc /\ q # p /\ loc[q].b \in Buf
      BY <1>2 DEF Waiting, PlaceInv, PlaceOK
    <3> QED BY ZenonT(40), <3>1, <1>6, <1>12
  <2>3. ReqStep
    BY <2>1, <2>2, <1>3, RingsKept DEF ReqStep
  <2> QED BY <2>3, <1>2, ReqKept
<1>19. DataInv'
  <2>1. Place(p)' \notin {"unpin", "wait"}
    BY <1>8
  <2>2. DataStep
    BY <2>1, <1>3, <1>6, <1>12, <1>13, RingsKept DEF DataStep
  <2> QED BY <2>2, <1>2, DataKept
<1>20. PinInv'
  <2>1. ASSUME NEW x \in pinned' PROVE \E c \in Buf : buf'[c].blockno = x /\ buf'[c].valid
    <3>1. PICK c \in Buf : buf[c].blockno = x /\ buf[c].valid
      BY <1>2, <1>3 DEF PinInv
    <3> QED BY <3>1, <1>12
  <2>2. \A q \in Proc \ {p} : loc'[q].op = loc[q].op /\ loc'[q].blk = loc[q].blk /\ Place(q)' = Place(q)
    BY <1>6 DEF Same, SameFields
  <2>3. "none" \notin {"log_write", "install"} /\ "none" # "install"
    OBVIOUS
  <2>4. \A q \in Proc : loc'[q].op = "install" /\ Place(q)' \in Early => loc'[q].blk \in pinned'
    BY <2>2, <2>3, <1>2, <1>3, <1>7 DEF PinInv
  <2>5. ASSUME NEW q \in Proc, NEW s \in Proc, q # s, loc'[q].op = "install",
               loc'[s].op \in {"log_write", "install"}
        PROVE  loc'[s].blk # loc'[q].blk
    <3>1. q # p /\ s # p
      BY <2>3, <2>5, <1>7
    <3> QED BY ZenonT(40), <3>1, <2>2, <2>5, <1>2 DEF PinInv
  <2> QED BY <2>1, <2>4, <2>5 DEF PinInv
<1>21. WakeInv'
  <2>1. loc'[p].pc # "sleep"
    BY <1>7
  <2> QED BY <2>1, <1>2, <1>3, <1>6, <1>12, SleepersKept
<1>22. panicked' = "no"
  BY <1>3 DEF DiskInv
<1> QED BY <1>14, <1>15, <1>16, <1>17, <1>18, <1>19, <1>20, <1>21, <1>22 DEF DiskInv, CoreInv, RefInv

=============================================================================
