-------------------------------- MODULE Disk --------------------------------
(***************************************************************************)
(* The buffer cache (bio.c) with its sleep-locks (sleeplock.c) on top of   *)
(* the virtio disk driver (virtio_disk.c) and the device.  A step is a     *)
(* section under bcache.lock, under the spin-lock of a sleep-lock or under *)
(* vdisk_lock; the interrupt handler keeps vdisk_lock over several steps,  *)
(* as the device fills the used ring beside it.                            *)
(***************************************************************************)
EXTENDS Integers, Sequences, FiniteSets

CONSTANTS
  Proc, Block, Data,
  NBUF,          \* buffers of the cache
  NUM,           \* descriptors, and entries of the two rings
  IDXMOD,        \* 2^16 in the code: the ring indices are uint16
  START,         \* the ring indices at the start, as earlier requests left them
  Calls,         \* bound: what processes ask for, as <<operation, block>>
  MAXCALLS,      \* bound: calls of a behaviour
  MAXPINS,       \* bound: blocks pinned by the log (its LOGSIZE)
  NULL

ASSUME RingAssumption ==
  /\ NUM \in Nat \ {0} /\ IDXMOD \in Nat \ {0} /\ IDXMOD % NUM = 0 /\ START \in 0..(IDXMOD - 1)
ASSUME CacheAssumption ==
  /\ NBUF \in Nat \ {0} /\ IsFiniteSet(Proc) /\ NULL \notin Proc /\ 0 \notin Block /\ Data # {}
  /\ Calls \subseteq {"read", "write", "log_write", "install"} \X Block

Buf == 1..NBUF
Desc == 0..(NUM - 1)
Free == <<"free", 0>>       \* the channel &disk.free[0]

VARIABLES
  buf,           \* the buffers
  mru,           \* the list of bcache, most recently used first
  free, desc, ops, info, avail, used, used_idx,      \* struct disk
  vdisk_lock,
  platter, lastAvail, inflight, irq,                 \* the device
  loc,           \* where each process is
  pinned,        \* blocks in the header of the log
  calls,         \* calls made so far
  content,       \* what was last stored in each block
  panicked

disk == <<free, desc, ops, info, avail, used, used_idx, vdisk_lock>>
device == <<platter, lastAvail, inflight, irq>>
vars == <<buf, mru, disk, device, loc, pinned, calls, content, panicked>>

NoBlock == 0
NoOp == [write |-> FALSE, blk |-> NoBlock]
NoInfo == [b |-> 0, ok |-> FALSE]
NoDesc == [addr |-> 0, next |-> 0, more |-> FALSE]
Idle == [pc |-> "idle", op |-> "none", blk |-> NoBlock, b |-> 0, write |-> FALSE, i |-> 0, chan |-> Free]

Zero == CHOOSE d \in Data : TRUE

(* binit() links the buffers in front of each other.                        *)
Init ==
  /\ buf = [b \in Buf |-> [blockno |-> NoBlock, valid |-> FALSE, disk |-> FALSE, refcnt |-> 0,
                           lock |-> NULL, data |-> Zero]]
  /\ mru = [k \in Buf |-> NBUF + 1 - k]
  /\ free = Desc /\ desc = [i \in Desc |-> NoDesc]
  /\ ops = [i \in Desc |-> NoOp]
  /\ info = [i \in Desc |-> NoInfo]
  /\ avail = [ring |-> [i \in Desc |-> 0], idx |-> START]
  /\ used = avail /\ used_idx = START /\ vdisk_lock = NULL
  /\ platter = [x \in Block |-> Zero] /\ lastAvail = START /\ inflight = {} /\ irq = FALSE
  /\ loc = [p \in Proc |-> Idle] /\ pinned = {} /\ calls = 0
  /\ content = [x \in Block |-> Zero] /\ panicked = "no"

At(p, l) == loc[p].pc = l
Goto(p, l) == loc' = [loc EXCEPT ![p].pc = l]
Panic(kind) == panicked' = kind /\ UNCHANGED <<buf, mru, disk, device, loc, pinned, calls, content>>

(* wakeup(): sleepers go back to the test they came from.                   *)
Back(chan) == CASE chan[1] = "lock" -> "lock" [] chan[1] = "buf" -> "wait" [] chan[1] = "free" -> "rw"
wakeup(l, chan) ==
  [p \in Proc |-> IF l[p].pc = "sleep" /\ l[p].chan = chan THEN [l[p] EXCEPT !.pc = Back(chan)] ELSE l[p]]
Asleep(l, p, chan) == [l EXCEPT ![p].pc = "sleep", ![p].chan = chan]

-----------------------------------------------------------------------------
(* The buffer cache.                                                        *)

Cached(blk) == {b \in Buf : buf[b].blockno = blk}
(* The unused buffers, by their place in the list; recycled from the end.   *)
Unused == {k \in Buf : buf[mru[k]].refcnt = 0}
Lru == mru[CHOOSE k \in Unused : \A j \in Unused : j <= k]

Recycled_KeepsValid(blk) == [buf[Lru] EXCEPT !.blockno = blk, !.refcnt = 1]
Recycled(blk) == [buf[Lru] EXCEPT !.blockno = blk, !.valid = FALSE, !.refcnt = 1]

(* bget() for the call <<op, blk>>, up to its acquiresleep().               *)
bget(p, op, blk) ==
  LET Take(b, r) == /\ buf' = [buf EXCEPT ![b] = r]
                    /\ loc' = [loc EXCEPT ![p] = [Idle EXCEPT !.pc = "lock", !.op = op, !.blk = blk, !.b = b]]
                    /\ calls' = calls + 1 /\ UNCHANGED <<mru, disk, device, pinned, content, panicked>>
  IN
  /\ At(p, "idle") /\ calls < MAXCALLS
  /\ \/ \E b \in Cached(blk) : Take(b, [buf[b] EXCEPT !.refcnt = @ + 1])
     \/ Cached(blk) = {} /\ Unused # {} /\ Take(Lru, Recycled(blk))
     \/ Cached(blk) = {} /\ Unused = {} /\ Panic("bget: no buffers")

(* acquiresleep(), and the rest of bread(): read the block unless valid.    *)
acquiresleep(p) ==
  LET b == loc[p].b IN
  /\ At(p, "lock") /\ UNCHANGED <<mru, disk, device, pinned, calls, content, panicked>>
  /\ IF buf[b].lock # NULL
     THEN loc' = Asleep(loc, p, <<"lock", b>>) /\ UNCHANGED buf
     ELSE /\ buf' = [buf EXCEPT ![b].lock = p]
          /\ Goto(p, IF buf[b].valid THEN "have" ELSE "rw")

holdingsleep(p) == buf[loc[p].b].lock = p

(* What callers do with the buffer that bread() returned: read it; change   *)
(* it and bwrite(); change it and log_write(), which pins it; bwrite() it   *)
(* for install_trans().                                                     *)
Use(p) ==
  LET b == loc[p].b  op == loc[p].op  blk == loc[p].blk
      Kept == UNCHANGED <<mru, disk, device, calls, panicked>>
  IN
  /\ At(p, "have")
  /\ \/ op = "read" /\ Goto(p, "release") /\ UNCHANGED <<buf, content, pinned>> /\ Kept
     \/ /\ op = "write"
        /\ \E d \in Data \ {buf[b].data} : buf' = [buf EXCEPT ![b].data = d] /\ content' = [content EXCEPT ![blk] = d]
        /\ loc' = [loc EXCEPT ![p].pc = "rw", ![p].write = TRUE] /\ UNCHANGED pinned /\ Kept
     \/ /\ op = "log_write" /\ pinned' = pinned \cup {blk} /\ Goto(p, "release") /\ Kept
        /\ \E d \in Data \ {buf[b].data} : /\ content' = [content EXCEPT ![blk] = d]
                           /\ buf' = [buf EXCEPT ![b].data = d,
                                                 ![b].refcnt = IF blk \in pinned THEN @ ELSE @ + 1]
     \/ /\ op = "install" /\ UNCHANGED <<buf, content, pinned>> /\ Kept
        /\ loc' = [loc EXCEPT ![p].pc = "rw", ![p].write = TRUE]

bunpin(p) ==
  /\ At(p, "unpin") /\ Goto(p, "release")
  /\ buf' = [buf EXCEPT ![loc[p].b].refcnt = @ - 1] /\ pinned' = pinned \ {loc[p].blk}
  /\ UNCHANGED <<mru, disk, device, calls, content, panicked>>

(* brelse(): releasesleep(), then drop the reference under bcache.lock.     *)
releasesleep(p) ==
  LET b == loc[p].b IN
  /\ At(p, "release")
  /\ IF ~holdingsleep(p) THEN Panic("brelse")
     ELSE /\ buf' = [buf EXCEPT ![b].lock = NULL]
          /\ loc' = wakeup([loc EXCEPT ![p].pc = "put"], <<"lock", b>>)
          /\ UNCHANGED <<mru, disk, device, pinned, calls, content, panicked>>

(* The list with b taken out and put in front.                              *)
ToFront(b) ==
  LET k == CHOOSE k \in Buf : mru[k] = b IN
  [i \in Buf |-> IF i = 1 THEN b ELSE IF i <= k THEN mru[i - 1] ELSE mru[i]]

brelse(p) ==
  LET b == loc[p].b IN
  /\ At(p, "put") /\ loc' = [loc EXCEPT ![p] = Idle]
  /\ buf' = [buf EXCEPT ![b].refcnt = @ - 1]
  /\ mru' = IF buf[b].refcnt = 1 THEN ToFront(b) ELSE mru
  /\ UNCHANGED <<disk, device, pinned, calls, content, panicked>>

-----------------------------------------------------------------------------
(* The driver.  What nobody will read again (a ring entry once consumed,    *)
(* the header and the status of a finished request) becomes 0, where the    *)
(* code leaves it: states that differ only there are one.                   *)

(* The descriptors that three calls of alloc_desc() take: the lowest.       *)
Lowest(S) == CHOOSE x \in S : \A y \in S : x <= y
alloc3_desc_NotTaken == <<Lowest(free), Lowest(free), Lowest(free)>>
alloc3_desc ==
  LET i == Lowest(free)  j == Lowest(free \ {i})  k == Lowest(free \ {i, j}) IN <<i, j, k>>

(* virtio_disk_rw(), up to its sleep().  Without three descriptors it gives *)
(* back what it had, which wakes the other sleepers.                        *)
NoDescriptors(p) ==
  LET l == IF free = {} THEN loc ELSE wakeup(loc, Free) IN
  /\ At(p, "rw") /\ vdisk_lock = NULL /\ Cardinality(free) < 3
  /\ loc' = Asleep(l, p, Free)
  /\ UNCHANGED <<buf, mru, disk, device, pinned, calls, content, panicked>>

virtio_disk_rw(p) ==
  LET b == loc[p].b  idx == alloc3_desc  i == idx[1] IN
  /\ At(p, "rw") /\ vdisk_lock = NULL /\ Cardinality(free) >= 3
  /\ free' = free \ {idx[1], idx[2], idx[3]}
  /\ ops' = [ops EXCEPT ![i] = [write |-> loc[p].write, blk |-> buf[b].blockno]]
  /\ desc' = [desc EXCEPT ![i] = [addr |-> i, next |-> idx[2], more |-> TRUE],
                          ![idx[2]] = [addr |-> b, next |-> idx[3], more |-> TRUE],
                          ![idx[3]] = [addr |-> i, next |-> 0, more |-> FALSE]]
  /\ info' = [info EXCEPT ![i] = [b |-> b, ok |-> FALSE]]
  /\ buf' = [buf EXCEPT ![b].disk = TRUE]
  /\ avail' = [ring |-> [avail.ring EXCEPT ![avail.idx % NUM] = i], idx |-> (avail.idx + 1) % IDXMOD]
  /\ loc' = Asleep([loc EXCEPT ![p].i = i], p, <<"buf", b>>)
  /\ UNCHANGED <<mru, used, used_idx, vdisk_lock, device, pinned, calls, content, panicked>>

(* The loop that waits for virtio_disk_intr().                              *)
WaitDone(p) ==
  /\ At(p, "wait") /\ vdisk_lock = NULL /\ buf[loc[p].b].disk
  /\ loc' = Asleep(loc, p, <<"buf", loc[p].b>>)
  /\ UNCHANGED <<buf, mru, disk, device, pinned, calls, content, panicked>>

(* free_chain() follows the descriptors while they have the flag.           *)
Chain(i) ==
  LET j == desc[i].next  k == desc[j].next IN
  {i} \cup (IF desc[i].more THEN {j} \cup (IF desc[j].more THEN {k} ELSE {}) ELSE {})

(* The request is done: bread() has a valid buffer, bwrite() returns.       *)
Finish(p) ==
  LET b == loc[p].b  i == loc[p].i  c == Chain(i) IN
  /\ At(p, "wait") /\ vdisk_lock = NULL /\ ~buf[b].disk
  /\ IF c \cap free # {} THEN Panic("free_desc 2")
     ELSE /\ free' = free \cup c
          /\ desc' = [j \in Desc |-> IF j \in c THEN NoDesc ELSE desc[j]]
          /\ info' = [info EXCEPT ![i] = NoInfo] /\ ops' = [ops EXCEPT ![i] = NoOp]
          /\ buf' = [buf EXCEPT ![b].valid = IF loc[p].write THEN @ ELSE TRUE]
          /\ loc' = wakeup([loc EXCEPT ![p].write = FALSE, ![p].i = 0,
                              ![p].pc = IF ~loc[p].write THEN "have"
                                        ELSE IF loc[p].op = "install" THEN "unpin" ELSE "release"], Free)
          /\ UNCHANGED <<mru, avail, used, used_idx, vdisk_lock, device, pinned, calls, content, panicked>>

-----------------------------------------------------------------------------
(* virtio_disk_intr(), on a hart of its own: acknowledge first, then take   *)
(* what the used ring has.                                                  *)
Acknowledge ==
  /\ irq /\ vdisk_lock = NULL /\ vdisk_lock' = "intr" /\ irq' = FALSE
  /\ UNCHANGED <<buf, mru, free, desc, ops, info, avail, used, used_idx,
                 platter, lastAvail, inflight, loc, pinned, calls, content, panicked>>

(* The flag of a buffer that the handler clears.                            *)
Completed == info[used.ring[used_idx % NUM]]

virtio_disk_intr ==
  /\ vdisk_lock = "intr" /\ used_idx # used.idx
  /\ IF ~Completed.ok THEN Panic("virtio_disk_intr status")
     ELSE /\ buf' = [buf EXCEPT ![Completed.b].disk = FALSE]
          /\ loc' = wakeup(loc, <<"buf", Completed.b>>)
          /\ used_idx' = (used_idx + 1) % IDXMOD /\ used' = [used EXCEPT !.ring[used_idx % NUM] = 0]
          /\ UNCHANGED <<mru, free, desc, ops, info, avail, vdisk_lock, device, pinned, calls, content, panicked>>

HandlerReturn_OneOnly ==
  /\ vdisk_lock = "intr" /\ vdisk_lock' = NULL
  /\ UNCHANGED <<buf, mru, free, desc, ops, info, avail, used, used_idx, device,
                 loc, pinned, calls, content, panicked>>
HandlerReturn ==
  /\ vdisk_lock = "intr" /\ used_idx = used.idx /\ vdisk_lock' = NULL
  /\ UNCHANGED <<buf, mru, free, desc, ops, info, avail, used, used_idx, device,
                 loc, pinned, calls, content, panicked>>

-----------------------------------------------------------------------------
(* The device: it takes chains from the available ring in order and is      *)
(* done with them in any order.                                             *)
DeviceFetch ==
  /\ lastAvail # avail.idx /\ lastAvail' = (lastAvail + 1) % IDXMOD
  /\ inflight' = inflight \cup {avail.ring[lastAvail % NUM]}
  /\ avail' = [avail EXCEPT !.ring[lastAvail % NUM] = 0]
  /\ UNCHANGED <<buf, mru, free, desc, ops, info, used, used_idx, vdisk_lock,
                 platter, irq, loc, pinned, calls, content, panicked>>

DeviceDone(i) ==
  LET op == ops[desc[i].addr]  j == desc[i].next  b == desc[j].addr  s == desc[desc[j].next].addr IN
  /\ i \in inflight /\ inflight' = inflight \ {i}
  /\ platter' = IF op.write THEN [platter EXCEPT ![op.blk] = buf[b].data] ELSE platter
  /\ buf' = IF op.write THEN buf ELSE [buf EXCEPT ![b].data = platter[op.blk]]
  /\ info' = [info EXCEPT ![s].ok = TRUE]
  /\ used' = [ring |-> [used.ring EXCEPT ![used.idx % NUM] = i], idx |-> (used.idx + 1) % IDXMOD]
  /\ irq' = TRUE
  /\ UNCHANGED <<mru, free, desc, ops, avail, used_idx, vdisk_lock, lastAvail, loc, pinned, calls, content, panicked>>

-----------------------------------------------------------------------------
(* The calls: commit() installs a block that no running operation updates,  *)
(* and the log has room for MAXPINS blocks.                                 *)
Updating(blk) == {p \in Proc : loc[p].blk = blk /\ loc[p].op \in {"log_write", "install"}}
MayCall(op, blk) ==
  CASE op = "install" -> blk \in pinned /\ Updating(blk) = {}
    [] op = "log_write" -> /\ \A p \in Updating(blk) : loc[p].op # "install"
                           /\ Cardinality(pinned \cup {blk}) <= MAXPINS
    [] OTHER -> TRUE

(* NBUF is chosen so that the buffers of running calls and the pinned ones  *)
(* fit.                                                                     *)
BuffersSuffice(blk) == Unused # {} \/ Cached(blk) # {}

Call(p) == \E c \in Calls : MayCall(c[1], c[2]) /\ BuffersSuffice(c[2]) /\ bget(p, c[1], c[2])

Work(p) ==
  \/ acquiresleep(p) \/ Use(p) \/ bunpin(p) \/ releasesleep(p) \/ brelse(p)
  \/ NoDescriptors(p) \/ virtio_disk_rw(p) \/ WaitDone(p) \/ Finish(p)

Handler == Acknowledge \/ virtio_disk_intr \/ HandlerReturn
Device == DeviceFetch \/ \E i \in Desc : DeviceDone(i)

Next == panicked = "no" /\ (Handler \/ Device \/ \E p \in Proc : Call(p) \/ Work(p))

Spec == Init /\ [][Next]_vars

-----------------------------------------------------------------------------
(* The cache gives one copy of a block, and it is the latest: a block is in *)
(* at most one buffer, one process has it, what bread() returns is what was *)
(* last stored, and a buffer that may be recycled has nothing the disk      *)
(* lacks.                                                                   *)
CacheCoherent ==
  /\ \A b, c \in Buf : b # c /\ buf[b].blockno # NoBlock => buf[b].blockno # buf[c].blockno
  /\ \A p \in Proc : At(p, "have") => /\ holdingsleep(p) /\ buf[loc[p].b].blockno = loc[p].blk
                                      /\ buf[loc[p].b].data = content[loc[p].blk]
  /\ \A b \in Buf : buf[b].refcnt = 0 /\ buf[b].valid => buf[b].data = platter[buf[b].blockno]

(* What the device may touch belongs to it: the descriptors of a chain it   *)
(* was given are allocated and in no other chain, and the buffer is locked  *)
(* by the process that waits and marked as the disk's.  None of the panics  *)
(* of bget(), brelse(), free_desc() and virtio_disk_intr() is reached.      *)
Given == {avail.ring[k] : k \in {(lastAvail + n) % NUM : n \in
            {m \in 0..(NUM - 1) : m < (avail.idx - lastAvail + IDXMOD) % IDXMOD}}} \cup inflight
DmaSafe ==
  /\ panicked = "no"
  /\ \A i \in Given :
       /\ Chain(i) \cap free = {} /\ Cardinality(Chain(i)) = 3
       /\ \E p \in Proc : /\ loc[p].i = i /\ loc[p].pc \in {"wait", "sleep"}
                          /\ info[i].b = loc[p].b /\ desc[desc[i].next].addr = loc[p].b
                          /\ buf[loc[p].b].lock = p /\ buf[loc[p].b].disk
  /\ \A i, j \in Given : i # j => Chain(i) \cap Chain(j) = {}

(* Whoever sleeps has something to wait for (descriptors, the disk, the     *)
(* holder of a buffer), and a completion that no handler has seen has an    *)
(* interrupt pending, or a handler that will look at the ring once more.    *)
NoLostWakeup ==
  /\ \A p \in Proc : loc[p].pc = "sleep" =>
       CASE loc[p].chan[1] = "free" -> Cardinality(free) < 3
         [] loc[p].chan[1] = "buf" -> buf[loc[p].b].disk
         [] loc[p].chan[1] = "lock" -> buf[loc[p].b].lock # NULL
  /\ used_idx # used.idx => irq \/ vdisk_lock = "intr"
=============================================================================
