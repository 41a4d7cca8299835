----------------------------- MODULE DiskProofs -----------------------------
(***************************************************************************)
(* Theorems about Disk: the cache gives the latest copy of a block, the    *)
(* device touches only what was handed to it, and no wakeup is lost.       *)
(* First, the steps of virtio_disk_rw(), of the interrupt handler and of   *)
(* the device keep the invariant of DiskBaseProofs.                        *)
(***************************************************************************)
EXTENDS DiskBaseProofs

-----------------------------------------------------------------------------
(* RingPut for the two rings.                                              *)
LEMMA AvailPut ==
  ASSUME NEW x \in Desc, avail.ring \in [Desc -> Desc], avail.idx \in Index, lastAvail \in Index,
         RingOK(avail.ring, lastAvail, avail.idx), Pending(lastAvail, avail.idx) + 1 < NUM,
         x \notin Items(avail.ring, lastAvail, avail.idx)
  PROVE  /\ [avail.ring EXCEPT ![avail.idx % NUM] = x] \in [Desc -> Desc] /\ (avail.idx + 1) % IDXMOD \in Index
         /\ RingOK([avail.ring EXCEPT ![avail.idx % NUM] = x], lastAvail, (avail.idx + 1) % IDXMOD)
         /\ Items([avail.ring EXCEPT ![avail.idx % NUM] = x], lastAvail, (avail.idx + 1) % IDXMOD)
              = Items(avail.ring, lastAvail, avail.idx) \cup {x}
BY SMTT(60), RingPut

LEMMA UsedPut ==
  ASSUME NEW x \in Desc, used.ring \in [Desc -> Desc], used.idx \in Index, used_idx \in Index,
         RingOK(used.ring, used_idx, used.idx), Pending(used_idx, used.idx) + 1 < NUM,
         x \notin Items(used.ring, used_idx, used.idx)
  PROVE  /\ [used.ring EXCEPT ![used.idx % NUM] = x] \in [Desc -> Desc] /\ (used.idx + 1) % IDXMOD \in Index
         /\ RingOK([used.ring EXCEPT ![used.idx % NUM] = x], used_idx, (used.idx + 1) % IDXMOD)
         /\ Items([used.ring EXCEPT ![used.idx % NUM] = x], used_idx, (used.idx + 1) % IDXMOD)
              = Items(used.ring, used_idx, used.idx) \cup {x}
BY SMTT(60), RingPut

(* The handler and the device.  The handler starts and returns.            *)
LEMMA AcknowledgeKept ==
  ASSUME DiskInv, Acknowledge \/ HandlerReturn
  PROVE  DiskInv'
<1> USE Zenon
<1>1. CoreInv /\ TypeInv /\ WakeInv
  BY DEF DiskInv, CoreInv
<1>2. /\ UNCHANGED <<buf, mru, free, desc, ops, info, platter, content, pinned>> /\ UNCHANGED rings
      /\ buf' = buf /\ free' = free /\ used' = used /\ used_idx' = used_idx /\ loc' = loc /\ panicked' = panicked
      /\ vdisk_lock' = "intr" \/ used_idx = used.idx
  BY DEF Acknowledge, HandlerReturn, device, rings
<1>3. loc' \in [Proc -> LocType] /\ \A q \in Proc : Same(q)
  BY <1>1, <1>2, UnchangedSame DEF TypeInv
<1>4. CoreInv'
  <2>1. Quiet
    BY <1>2, <1>3 DEF Quiet
  <2> QED BY <2>1, <1>1, QuietKept
<1>5. WakeInv'
  BY <1>1, <1>2 DEF WakeInv, SleepOK
<1> QED BY <1>2, <1>4, <1>5 DEF DiskInv

(* Two requests have no descriptor in common, so two that wait are not     *)
(* waiting for the same one, nor on the same buffer.                       *)
LEMMA OwnRequest ==
  ASSUME PlaceInv, ReqInv, NEW p \in Waiting, NEW q \in Waiting, loc[p].i = loc[q].i \/ loc[p].b = loc[q].b
  PROVE  p = q
<1>1. CASE loc[p].i = loc[q].i
  <2>1. loc[p].i \in Chain(loc[p].i) /\ loc[p].i \in Chain(loc[q].i)
    BY <1>1 DEF Chain
  <2>2. p # q => Chain(loc[p].i) \cap Chain(loc[q].i) = {}
    BY Zenon DEF ReqInv
  <2> QED BY <2>1, <2>2
<1>2. CASE loc[p].b = loc[q].b
  <2>1. p \in Proc /\ q \in Proc /\ PlaceOK(p) /\ PlaceOK(q) /\ Place(p) = "wait" /\ Place(q) = "wait"
    BY Zenon DEF Waiting, PlaceInv
  <2>2. "wait" \in Holds
    BY DEF Holds
  <2> QED BY Zenon, <2>1, <2>2, <1>2 DEF PlaceOK
<1> QED BY Zenon, <1>1, <1>2

(* The chain of a request, and its buffer.                                 *)
LEMMA RequestIs ==
  ASSUME TypeInv, PlaceInv, ReqInv, NEW p \in Waiting
  PROVE  /\ p \in Proc /\ Place(p) = "wait" /\ PlaceOK(p) /\ ReqOK(p)
         /\ loc[p].b \in Buf /\ loc[p].blk \in Block /\ loc[p].i \in Desc
         /\ buf[loc[p].b].lock = p /\ buf[loc[p].b].blockno = loc[p].blk
         /\ buf[loc[p].b].valid <=> loc[p].write
<1>1. p \in Proc /\ Place(p) = "wait" /\ PlaceOK(p) /\ ReqOK(p)
  BY Zenon DEF Waiting, PlaceInv, ReqInv
<1>2. loc[p].i \in Desc
  BY <1>1 DEF TypeInv, LocType
<1>3. "wait" \in Holds /\ "wait" \in InRw /\ "wait" # "idle"
  BY DEF Holds, InRw
<1> QED BY Zenon, <1>1, <1>2, <1>3 DEF PlaceOK

(* The handler takes a request from the used ring and wakes up the process *)
(* that waits for it.                                                      *)
LEMMA IntrKept ==
  ASSUME DiskInv, virtio_disk_intr
  PROVE  DiskInv'
<1> USE Zenon
<1>1. /\ TypeInv /\ PlaceInv /\ RefInv /\ RingInv /\ ReqInv /\ DataInv /\ PinInv /\ WakeInv /\ panicked = "no"
  BY DEF DiskInv, CoreInv
<1> DEFINE x == used.ring[used_idx % NUM]
           rng == [used.ring EXCEPT ![used_idx % NUM] = 0]
           u == (used_idx + 1) % IDXMOD
<1>2. /\ used \in RingType /\ used.ring \in [Desc -> Desc] /\ used.idx \in Index /\ used_idx \in Index
      /\ loc \in [Proc -> LocType] /\ buf \in [Buf -> BufType]
  BY <1>1 DEF TypeInv, RingType
<1>3. /\ rng \in [Desc -> Desc] /\ u \in Index /\ RingOK(rng, u, used.idx)
      /\ x \in Desc /\ x \in Done /\ Items(rng, u, used.idx) = Done \ {x}
  <2>1. RingOK(used.ring, used_idx, used.idx) /\ used_idx # used.idx
    BY <1>1 DEF RingInv, virtio_disk_intr
  <2> QED BY <2>1, <1>2, RingTake DEF Done
<1>4. PICK p \in Waiting : loc[p].i = x
  BY <1>1, <1>3 DEF ReqInv
<1>5. /\ p \in Proc /\ Place(p) = "wait" /\ PlaceOK(p) /\ ReqOK(p)
      /\ loc[p].b \in Buf /\ loc[p].blk \in Block /\ loc[p].i \in Desc
      /\ buf[loc[p].b].lock = p /\ buf[loc[p].b].blockno = loc[p].blk
      /\ buf[loc[p].b].valid <=> loc[p].write
  BY <1>1, RequestIs
<1>6. PICK b \in Buf : b = loc[p].b
  BY <1>5
<1>7. Completed.ok /\ Completed.b = b
  BY <1>3, <1>4, <1>5, <1>6 DEF Completed, ReqOK, ChainOK
<1>8. /\ buf' = [buf EXCEPT ![b].disk = FALSE] /\ loc' = wakeup(loc, <<"buf", b>>)
      /\ used_idx' = u /\ used' = [used EXCEPT !.ring[used_idx % NUM] = 0]
      /\ UNCHANGED <<mru, free, desc, ops, info, avail, vdisk_lock, device, pinned, content, panicked>>
      /\ vdisk_lock = "intr"
  BY <1>7 DEF virtio_disk_intr
<1>9. used' \in RingType /\ used'.ring = rng /\ used'.idx = used.idx
  BY <1>2, <1>3, <1>8 DEF RingType
<1> HIDE DEF x, rng, u
<1>10. /\ mru' = mru /\ free' = free /\ desc' = desc /\ ops' = ops /\ info' = info /\ avail' = avail
       /\ vdisk_lock' = vdisk_lock /\ pinned' = pinned /\ content' = content /\ panicked' = panicked
       /\ platter' = platter /\ lastAvail' = lastAvail /\ inflight' = inflight
       /\ UNCHANGED <<free, desc, ops, info>> /\ UNCHANGED <<platter, content, pinned>>
  BY <1>8 DEF device
<1>11. /\ Done' = Done \ {x} /\ Offered' = Offered /\ Out' = Out
  <2>1. Done' = Done \ {x}
    BY <1>3, <1>8, <1>9 DEF Done
  <2>2. Offered' = Offered
    BY <1>10 DEF Offered
  <2> QED BY <2>1, <2>2, <1>10 DEF Out
<1>12. RingInv'
  <2>1. RingOK(used.ring, used_idx, used.idx)'
    BY <1>3, <1>8, <1>9
  <2>2. RingOK(avail.ring, lastAvail, avail.idx)'
    BY <1>1, <1>10 DEF RingInv
  <2>3. Offered \cap inflight = {} /\ Out \cap Done = {}
    BY <1>1 DEF RingInv
  <2>4. (Offered \cap inflight)' = {} /\ (Out \cap Done)' = {}
    BY <2>3, <1>10, <1>11
  <2> QED BY <2>1, <2>2, <2>4 DEF RingInv
<1> DEFINE r == [buf[b] EXCEPT !.disk = FALSE]
<1>13. /\ r \in BufType /\ r.blockno = buf[b].blockno /\ r.valid = buf[b].valid /\ r.disk = FALSE
       /\ r.lock = buf[b].lock /\ r.data = buf[b].data /\ r.refcnt = buf[b].refcnt
  BY <1>2 DEF BufType
<1>14. buf' = [buf EXCEPT ![b] = r]
  BY <1>2, <1>8
<1> HIDE DEF r
<1>15. buf' \in [Buf -> BufType] /\ buf'[b] = r /\ \A c \in Buf \ {b} : buf'[c] = buf[c]
  BY <1>2, <1>13, <1>14
<1>16. \A c \in Buf : /\ buf'[c].blockno = buf[c].blockno /\ buf'[c].valid = buf[c].valid
                      /\ buf'[c].refcnt = buf[c].refcnt /\ buf'[c].lock = buf[c].lock
                      /\ buf'[c].data = buf[c].data
  BY <1>13, <1>15
<1>17. <<"buf", b>> \in Chans
  BY DEF Chans
<1>18. /\ loc' \in [Proc -> LocType]
       /\ \A q \in Proc : Same(q) /\ Slept(q) /\ (loc'[q].pc = "sleep" => loc'[q].chan # <<"buf", b>>)
  <2>1. loc' \in [Proc -> LocType]
    BY <1>2, <1>8, <1>17, WakeupType
  <2>2. ASSUME NEW q \in Proc
        PROVE  Same(q) /\ Slept(q) /\ (loc'[q].pc = "sleep" => loc'[q].chan # <<"buf", b>>)
    <3>1. /\ PlaceIn(loc', q) = PlaceIn(loc, q) /\ SameFields(loc'[q], loc[q])
          /\ loc'[q].pc = "sleep" => loc[q].pc = "sleep" /\ loc'[q].chan = loc[q].chan /\ loc[q].chan # <<"buf", b>>
      BY <1>2, <1>8, <1>17, WakeupIs
    <3> QED BY <3>1 DEF Same, Slept, Place
  <2> QED BY <2>1, <2>2
<1>19. TypeInv'
  BY <1>1, <1>3, <1>8, <1>9, <1>10, <1>15, <1>18 DEF TypeInv
<1>20. PlaceInv'
  <2>1. ASSUME NEW q \in Proc PROVE PlaceOK(q)'
    <3>1. PlaceOK(q) /\ Same(q)
      BY <1>1, <1>18 DEF PlaceInv
    <3>2. Place(q) # "idle" => loc[q].b \in Buf
      BY <3>1 DEF PlaceOK
    <3>3. Place(q) \in Holds => Place(q) # "idle"
      BY DEF Holds
    <3> QED BY <3>1, <3>2, <3>3, <1>16, StaysOK
  <2>2. ASSUME NEW c \in Buf PROVE BufOK(c)'
    <3>1. BufOK(c)
      BY <1>1 DEF PlaceInv
    <3>2. \A q \in Proc : Place(q)' = Place(q) /\ loc'[q].b = loc[q].b
      BY <1>18 DEF Same, SameFields
    <3>3. \A q \in Proc : buf'[c].lock = q => Place(q)' \in Holds /\ loc'[q].b = c
      BY <3>1, <3>2, <1>16 DEF BufOK
    <3>4. ASSUME buf'[c].disk PROVE \E q \in Proc : buf'[c].lock = q /\ Place(q)' = "wait"
      <4>1. c # b
        BY <3>4, <1>13, <1>15
      <4>2. PICK q \in Proc : buf[c].lock = q /\ Place(q) = "wait"
        BY <3>1, <3>4, <4>1, <1>15 DEF BufOK
      <4> QED BY <4>2, <3>2, <1>16
    <3>5. buf'[c].valid => buf'[c].blockno \in Block
      BY <3>1, <1>16 DEF BufOK
    <3>6. \A e \in Buf : c # e /\ buf'[c].blockno # NoBlock => buf'[c].blockno # buf'[e].blockno
      BY <3>1, <1>16 DEF BufOK
    <3> QED BY <3>3, <3>4, <3>5, <3>6 DEF BufOK
  <2> QED BY <2>1, <2>2 DEF PlaceInv
<1>21. ASSUME NEW c \in Buf PROVE RefOK(c)'
  <2>1. \A q \in Proc : q \in Refs(c)' <=> q \in Refs(c)
    BY <1>18, RefsAre DEF Same, SameFields
  <2>2. SameRefs(c)
    BY <2>1, <1>10, <1>16 DEF SameRefs
  <2> QED BY <2>2, <1>1, RefKept DEF RefInv
<1>22. Waiting' = Waiting
  BY <1>18, WaitingKept DEF Same
<1>23. ASSUME NEW q \in Waiting
       PROVE  /\ loc'[q].b = loc[q].b /\ loc'[q].i = loc[q].i /\ loc'[q].write = loc[q].write
              /\ loc'[q].blk = loc[q].blk
  BY <1>18 DEF Same, SameFields, Waiting
<1>24. ReqInv'
  <2>1. ASSUME NEW q \in Waiting PROVE ReqOK(q)'
    <3>1. ReqOK(q)
      BY <1>1 DEF ReqInv
    <3>2. ChainOK(q, loc[q].i, desc[loc[q].i].next, desc[desc[loc[q].i].next].next)'
      BY <3>1, <1>10, <1>23 DEF ReqOK, ChainOK
    <3>3. buf'[loc'[q].b].disk <=> loc'[q].i \in Out' \cup Done'
      <4>1. CASE q = p
        <5>1. ~buf'[b].disk /\ loc'[q].i = x /\ loc'[q].b = b
          BY <4>1, <1>4, <1>6, <1>13, <1>15, <1>23
        <5>2. x \notin Out
          BY <1>1, <1>3 DEF RingInv
        <5> QED BY <5>1, <5>2, <1>11
      <4>2. CASE q # p
        <5>1. loc[q].i # x /\ loc[q].b # b /\ loc[q].b \in Buf
          BY <4>2, <1>1, <1>4, <1>6, OwnRequest, RequestIs
        <5>2. buf'[loc'[q].b].disk = buf[loc[q].b].disk
          BY <5>1, <1>15, <1>23
        <5>3. buf[loc[q].b].disk <=> loc[q].i \in Out \cup Done
          BY <3>1 DEF ReqOK
        <5>4. loc[q].i \in Out \cup Done <=> loc[q].i \in Out' \cup Done'
          BY <5>1, <1>11
        <5> QED BY <5>2, <5>3, <5>4, <1>23
      <4> QED BY <4>1, <4>2
    <3>4. loc'[q].i \in Done' => info'[loc'[q].i].ok
      <4>1. loc'[q].i \in Done' => loc[q].i \in Done
        BY <1>11, <1>23
      <4> QED BY <3>1, <4>1, <1>10, <1>23 DEF ReqOK
    <3> QED BY <3>2, <3>3, <3>4 DEF ReqOK
  <2>2. ASSUME NEW s \in Waiting, NEW q \in Waiting, s # q PROVE (Chain(loc[s].i) \cap Chain(loc[q].i))' = {}
    <3>1. Chain(loc[s].i) \cap Chain(loc[q].i) = {}
      BY <2>2, <1>1 DEF ReqInv
    <3>2. Chain(loc[s].i)' = Chain(loc[s].i) /\ Chain(loc[q].i)' = Chain(loc[q].i)
      BY <1>10, <1>23 DEF Chain
    <3> QED BY <3>1, <3>2
  <2>3. ASSUME NEW i \in Out' \cup Done' PROVE \E q \in Waiting : loc'[q].i = i
    <3>1. i \in Out \cup Done
      BY <1>11
    <3> QED BY <3>1, <1>1, <1>23 DEF ReqInv
  <2> QED BY <2>1, <2>2, <2>3, <1>22 DEF ReqInv
<1>25. DataInv'
  <2>1. DataStep
    BY <1>10, <1>11, <1>16, <1>18 DEF DataStep
  <2> QED BY <2>1, <1>1, DataKept
<1>26. PinInv'
  <2>1. PinStep
    BY <1>10, <1>16, <1>18 DEF PinStep, Same, SameFields
  <2> QED BY <2>1, <1>1, PinKept
<1>27. WakeInv'
  <2>1. ASSUME NEW q \in Proc PROVE SleepOK(q)'
    <3>1. loc'[q].pc = "sleep" => SleepStep(q)
      <4>1. \A c \in Buf : loc'[q].pc = "sleep" /\ loc'[q].chan = <<"buf", c>> => buf'[c].disk = buf[c].disk
        BY <1>15, <1>18
      <4> QED BY <4>1, <1>10, <1>16, <1>18 DEF SleepStep
    <3> QED BY <3>1, <1>1, SleepKept DEF WakeInv
  <2> QED BY <2>1, <1>8, <1>10 DEF WakeInv
<1> QED BY <1>1, <1>10, <1>12, <1>19, <1>20, <1>21, <1>24, <1>25, <1>26, <1>27 DEF DiskInv, CoreInv, RefInv

-----------------------------------------------------------------------------
(* The device moves no process, and of the buffers it changes the data.    *)
DeviceStep ==
  /\ loc' = loc /\ pinned' = pinned /\ free' = free /\ desc' = desc /\ ops' = ops
  /\ \A c \in Buf : SameBuf(c) /\ buf'[c].refcnt = buf[c].refcnt

LEMMA DeviceKeeps ==
  ASSUME TypeInv, PlaceInv, RefInv, PinInv, WakeInv, DeviceStep
  PROVE  /\ PlaceInv' /\ RefInv' /\ PinInv' /\ (\A q \in Proc : Same(q) /\ SleepOK(q)')
         /\ Waiting' = Waiting
<1> USE Zenon
<1>1. loc' = loc /\ pinned' = pinned /\ free' = free
  BY DEF DeviceStep
<1>2. \A c \in Buf : /\ buf'[c].blockno = buf[c].blockno /\ buf'[c].valid = buf[c].valid
                     /\ buf'[c].lock = buf[c].lock /\ buf'[c].disk = buf[c].disk
                     /\ buf'[c].refcnt = buf[c].refcnt
  BY DEF DeviceStep, SameBuf
<1>3. \A q \in Proc : Same(q) /\ Slept(q)
  BY <1>1, UnchangedSame
<1>4. \A q \in Proc : Place(q)' = Place(q) /\ loc'[q].b = loc[q].b
  BY <1>3 DEF Same, SameFields
<1>5. ASSUME NEW q \in Proc PROVE PlaceOK(q)'
  <2>1. PlaceOK(q) /\ (Place(q) # "idle" => loc[q].b \in Buf)
    BY DEF PlaceInv, PlaceOK
  <2>2. Place(q) \in Holds => Place(q) # "idle"
    BY DEF Holds
  <2> QED BY <2>1, <2>2, <1>2, <1>3, StaysOK
<1>6. ASSUME NEW c \in Buf PROVE BufOK(c)'
  <2>1. BufOK(c)
    BY DEF PlaceInv
  <2>2. \A q \in Proc : buf'[c].lock = q => Place(q)' \in Holds /\ loc'[q].b = c
    BY <2>1, <1>2, <1>4 DEF BufOK
  <2>3. ASSUME buf'[c].disk PROVE \E q \in Proc : buf'[c].lock = q /\ Place(q)' = "wait"
    <3>1. PICK q \in Proc : buf[c].lock = q /\ Place(q) = "wait"
      BY <2>1, <2>3, <1>2 DEF BufOK
    <3> QED BY <3>1, <1>2, <1>4
  <2>4. buf'[c].valid => buf'[c].blockno \in Block
    BY <2>1, <1>2 DEF BufOK
  <2>5. \A e \in Buf : c # e /\ buf'[c].blockno # NoBlock => buf'[c].blockno # buf'[e].blockno
    BY <2>1, <1>2 DEF BufOK
  <2> QED BY <2>2, <2>3, <2>4, <2>5 DEF BufOK
<1>7. ASSUME NEW c \in Buf PROVE RefOK(c)'
  <2>1. \A q \in Proc : q \in Refs(c)' <=> q \in Refs(c)
    BY <1>4, RefsAre
  <2>2. SameRefs(c)
    BY <2>1, <1>1, <1>2 DEF SameRefs
  <2> QED BY <2>2, RefKept DEF RefInv
<1>8. PinInv'
  <2>1. PinStep
    BY <1>1, <1>2, <1>3 DEF PinStep, Same, SameFields
  <2> QED BY <2>1, PinKept
<1>9. ASSUME NEW q \in Proc PROVE SleepOK(q)'
  <2>1. SleepStep(q)
    BY <1>1, <1>2, <1>3 DEF SleepStep
  <2> QED BY <2>1, SleepKept DEF WakeInv
<1>10. Waiting' = Waiting
  BY <1>4, WaitingKept
<1> QED BY <1>3, <1>5, <1>6, <1>7, <1>8, <1>9, <1>10 DEF PlaceInv, RefInv

(* The device fetches a request.                                           *)
LEMMA FetchKept ==
  ASSUME DiskInv, DeviceFetch
  PROVE  DiskInv'
<1> USE Zenon
<1>1. /\ TypeInv /\ PlaceInv /\ RefInv /\ RingInv /\ ReqInv /\ DataInv /\ PinInv /\ WakeInv /\ panicked = "no"
  BY DEF DiskInv, CoreInv
<1> DEFINE x == avail.ring[lastAvail % NUM]
           rng == [avail.ring EXCEPT ![lastAvail % NUM] = 0]
           u == (lastAvail + 1) % IDXMOD
<1>2. /\ avail \in RingType /\ avail.ring \in [Desc -> Desc] /\ avail.idx \in Index /\ lastAvail \in Index
      /\ inflight \in SUBSET Desc
  BY <1>1 DEF TypeInv, RingType
<1>3. /\ rng \in [Desc -> Desc] /\ u \in Index /\ RingOK(rng, u, avail.idx)
      /\ x \in Desc /\ x \in Offered /\ Items(rng, u, avail.idx) = Offered \ {x}
  <2>1. RingOK(avail.ring, lastAvail, avail.idx) /\ lastAvail # avail.idx
    BY <1>1 DEF RingInv, DeviceFetch
  <2> QED BY <2>1, <1>2, RingTake DEF Offered
<1>4. /\ lastAvail' = u /\ inflight' = inflight \cup {x}
      /\ avail' = [avail EXCEPT !.ring[lastAvail % NUM] = 0]
      /\ buf' = buf /\ mru' = mru /\ free' = free /\ desc' = desc /\ ops' = ops /\ info' = info
      /\ used' = used /\ used_idx' = used_idx /\ vdisk_lock' = vdisk_lock /\ platter' = platter
      /\ irq' = irq /\ loc' = loc /\ pinned' = pinned /\ content' = content /\ panicked' = panicked
      /\ UNCHANGED <<free, desc, ops, info>> /\ UNCHANGED <<platter, content, pinned>>
  BY DEF DeviceFetch
<1>5. avail' \in RingType /\ avail'.ring = rng /\ avail'.idx = avail.idx
  BY <1>2, <1>3, <1>4 DEF RingType
<1> HIDE DEF x, rng, u
<1>6. Offered' = Offered \ {x} /\ Done' = Done
  BY <1>3, <1>4, <1>5 DEF Offered, Done
<1>7. Out' = Out
  <2>1. (Offered \ {x}) \cup (inflight \cup {x}) = Offered \cup inflight
    BY <1>3
  <2> QED BY <2>1, <1>4, <1>6 DEF Out
<1>8. RingInv'
  <2>1. RingOK(avail.ring, lastAvail, avail.idx)'
    BY <1>3, <1>4, <1>5
  <2>2. RingOK(used.ring, used_idx, used.idx)'
    BY <1>1, <1>4 DEF RingInv
  <2>3. (Offered \cap inflight)' = {}
    BY ZenonT(40), <1>1, <1>4, <1>6 DEF RingInv
  <2>4. (Out \cap Done)' = {}
    BY <1>1, <1>6, <1>7 DEF RingInv
  <2> QED BY <2>1, <2>2, <2>3, <2>4 DEF RingInv
<1>9. TypeInv'
  <2>1. inflight' \in SUBSET Desc
    BY <1>2, <1>3, <1>4
  <2> QED BY <2>1, <1>1, <1>3, <1>4, <1>5 DEF TypeInv
<1>10. DeviceStep
  BY <1>4 DEF DeviceStep, SameBuf
<1>11. /\ PlaceInv' /\ RefInv' /\ PinInv' /\ (\A q \in Proc : Same(q) /\ SleepOK(q)')
       /\ Waiting' = Waiting
  BY <1>1, <1>10, DeviceKeeps
<1>12. ReqInv'
  <2>1. ReqStep
    BY <1>4, <1>6, <1>7, <1>11 DEF ReqStep, Same, Waiting
  <2> QED BY <2>1, <1>1, ReqKept
<1>13. DataInv'
  <2>1. DataStep
    BY <1>4, <1>7, <1>11 DEF DataStep
  <2> QED BY <2>1, <1>1, DataKept
<1>14. WakeInv'
  BY <1>1, <1>4, <1>11 DEF WakeInv
<1> QED BY <1>1, <1>4, <1>8, <1>9, <1>11, <1>12, <1>13, <1>14 DEF DiskInv, CoreInv

(* The used ring has room for one more request: the requests in it are     *)
(* chains other than the one that the device is done with.                 *)
LEMMA DescIs == IsFiniteSet(Desc) /\ Cardinality(Desc) = NUM
<1>1. 0 \in Int /\ NUM - 1 \in Int
  BY Sizes
<1>2. IsFiniteSet(0..(NUM - 1)) /\ Cardinality(0..(NUM - 1)) = IF 0 > NUM - 1 THEN 0 ELSE (NUM - 1) - 0 + 1
  BY Zenon, <1>1, FS_Interval
<1> QED BY <1>2, Sizes DEF Desc

(* The three descriptors of a request.                                     *)
LEMMA ChainIs ==
  ASSUME NEW p, NEW i, NEW j, NEW k, ChainOK(p, i, j, k)
  PROVE  /\ Chain(i) = {i, j, k} /\ desc[i].addr = i /\ desc[i].next = j
         /\ desc[j].addr = loc[p].b /\ desc[j].next = k /\ desc[k].addr = i
         /\ ops[i].write = loc[p].write /\ ops[i].blk = loc[p].blk
<1>1. /\ desc[i].addr = i /\ desc[i].next = j /\ desc[i].more
      /\ desc[j].addr = loc[p].b /\ desc[j].next = k /\ desc[j].more /\ desc[k].addr = i
      /\ ops[i].write = loc[p].write /\ ops[i].blk = loc[p].blk
  BY DEF ChainOK
<1>2. Chain(i) = {i} \cup ({j} \cup {k})
  BY Zenon, <1>1 DEF Chain
<1>3. Chain(i) = {i, j, k}
  BY <1>2
<1> QED BY Zenon, <1>1, <1>3

LEMMA UsedRoom ==
  ASSUME TypeInv, RingInv, ReqInv, NEW p \in Waiting, loc[p].i \in Out
  PROVE  Pending(used_idx, used.idx) + 1 < NUM /\ loc[p].i \notin Done
<1>1. /\ used.ring \in [Desc -> Desc] /\ used.idx \in Index /\ used_idx \in Index
      /\ desc \in [Desc -> DescType] /\ loc[p].i \in Desc
  BY DEF TypeInv, RingType, LocType, Waiting
<1>2. loc[p].i \notin Done
  BY DEF RingInv
<1>3. PICK i \in Desc : i = loc[p].i
  BY Zenon, <1>1
<1>4. PICK j \in Desc : j = desc[i].next
  BY <1>1 DEF DescType
<1>5. i # j /\ i \in Chain(i) /\ j \in Chain(i)
  <2>0. PICK k : k = desc[j].next
    OBVIOUS
  <2>1. ChainOK(p, i, j, k)
    BY Zenon, <2>0, <1>3, <1>4 DEF ReqInv, ReqOK
  <2>2. Chain(i) = {i, j, k}
    BY <2>1, ChainIs
  <2> QED BY Zenon, <2>1, <2>2 DEF ChainOK
<1>6. Done \subseteq Desc \ {i, j}
  <2>1. ASSUME NEW d \in Done PROVE d \in Desc /\ d # i /\ d # j
    <3>1. PICK q \in Waiting : loc[q].i = d
      BY Zenon DEF ReqInv
    <3>2. q # p
      BY Zenon, <3>1, <1>2
    <3>3. Chain(loc[p].i) \cap Chain(loc[q].i) = {}
      BY Zenon, <3>2 DEF ReqInv
    <3>4. d \in Chain(loc[q].i)
      BY <3>1 DEF Chain
    <3>5. d \in Desc
      BY <3>1 DEF TypeInv, LocType, Waiting
    <3> QED BY <3>3, <3>4, <3>5, <1>3, <1>5
  <2> QED BY <2>1
<1>7. IsFiniteSet(Desc \ {i, j}) /\ Cardinality(Desc \ {i, j}) = NUM - 2
  <2>1. IsFiniteSet(Desc \ {i}) /\ Cardinality(Desc \ {i}) = NUM - 1
    BY Zenon, DescIs, FS_RemoveElement
  <2>2. j \in Desc \ {i}
    BY <1>5
  <2>3. IsFiniteSet((Desc \ {i}) \ {j}) /\ Cardinality((Desc \ {i}) \ {j}) = (NUM - 1) - 1
    BY Zenon, <2>1, <2>2, FS_RemoveElement
  <2>4. (Desc \ {i}) \ {j} = Desc \ {i, j}
    BY Zenon
  <2>5. (NUM - 1) - 1 = NUM - 2
    BY Sizes
  <2> QED BY Zenon, <2>3, <2>4, <2>5
<1>8. Pending(used_idx, used.idx) <= NUM - 2
  <2>1. RingOK(used.ring, used_idx, used.idx) /\ Items(used.ring, used_idx, used.idx) \subseteq Desc \ {i, j}
    BY Zenon, <1>6 DEF RingInv, Done
  <2>2. Pending(used_idx, used.idx) <= Cardinality(Desc \ {i, j})
    BY Zenon, <2>1, <1>1, <1>7, RingBound
  <2> QED BY Zenon, <2>2, <1>7
<1>9. Pending(used_idx, used.idx) \in Int
  BY <1>1, PendingIs DEF Index
<1> QED BY <1>2, <1>8, <1>9, Sizes

-----------------------------------------------------------------------------
(* The request that the device is done with, in terms of its process.      *)
DoneFor(p, b, i) ==
  /\ inflight' = inflight \ {i}
  /\ platter' = IF loc[p].write THEN [platter EXCEPT ![loc[p].blk] = buf[b].data] ELSE platter
  /\ buf' = IF loc[p].write THEN buf ELSE [buf EXCEPT ![b].data = platter[loc[p].blk]]
  /\ info' = [info EXCEPT ![i].ok = TRUE]
  /\ used' = [ring |-> [used.ring EXCEPT ![used.idx % NUM] = i], idx |-> (used.idx + 1) % IDXMOD]

LEMMA DoneIs ==
  ASSUME TypeInv, PlaceInv, RingInv, ReqInv, NEW i \in Desc, DeviceDone(i)
  PROVE  \E p \in Waiting : loc[p].i = i /\ i \in inflight /\ i \in Out /\ DoneFor(p, loc[p].b, i)
<1> USE Zenon
<1>1. i \in inflight /\ i \in Out
  BY DEF DeviceDone, Out
<1>2. PICK p \in Waiting : loc[p].i = i
  BY <1>1 DEF ReqInv
<1>3. PICK j : j = desc[i].next
  OBVIOUS
<1>4. PICK k : k = desc[j].next
  OBVIOUS
<1>5. ChainOK(p, i, j, k)
  BY <1>2, <1>3, <1>4 DEF ReqInv, ReqOK
<1>6. /\ desc[i].addr = i /\ desc[i].next = j /\ desc[j].addr = loc[p].b /\ desc[j].next = k /\ desc[k].addr = i
      /\ ops[i].write = loc[p].write /\ ops[i].blk = loc[p].blk
  BY SMTT(60), <1>5, ChainIs
<1>7. DoneFor(p, loc[p].b, i)
  BY <1>6 DEF DeviceDone, DoneFor
<1> QED BY <1>1, <1>2, <1>7

(* A block that is read from the disk was not changed since it was written *)
(* there: who changed it had it in a valid buffer, or has it still.        *)
LEMMA ReadsLatest ==
  ASSUME TypeInv, PlaceInv, ReqInv, DataInv, PinInv, NEW p \in Waiting, ~loc[p].write
  PROVE  platter[loc[p].blk] = content[loc[p].blk]
<1> USE Zenon
<1>1. /\ p \in Proc /\ Place(p) = "wait" /\ loc[p].b \in Buf /\ loc[p].blk \in Block
      /\ buf[loc[p].b].blockno = loc[p].blk /\ (buf[loc[p].b].valid <=> loc[p].write)
  BY RequestIs
<1>2. loc[p].blk # NoBlock
  BY <1>1, CacheAssumption DEF NoBlock
<1>3. loc[p].blk \notin pinned
  <2> SUFFICES ASSUME loc[p].blk \in pinned PROVE FALSE
    OBVIOUS
  <2>1. PICK c \in Buf : buf[c].blockno = loc[p].blk /\ buf[c].valid
    BY DEF PinInv
  <2>2. c # loc[p].b
    BY <2>1, <1>1
  <2>3. BufOK(c)
    BY DEF PlaceInv
  <2> QED BY <2>1, <2>2, <2>3, <1>1, <1>2 DEF BufOK
<1>4. ASSUME NEW q \in Proc, loc[q].blk = loc[p].blk, Dirty(q) PROVE FALSE
  <2>1. loc[q].write /\ PlaceOK(q)
    BY <1>4 DEF Dirty, PlaceInv
  <2>2. Place(q) \in InRw
    BY <2>1 DEF PlaceOK
  <2>3. Place(q) \in Holds /\ "wait" \in Holds
    BY <2>2 DEF InRw, Holds
  <2>4. q = p
    BY <2>3, <1>1, <1>4, OneHolder
  <2> QED BY <2>1, <2>4
<1> QED BY <1>1, <1>3, <1>4 DEF DataInv, OnDisk

LEMMA DoneKept ==
  ASSUME DiskInv, NEW n \in Desc, DeviceDone(n)
  PROVE  DiskInv'
<1> USE Zenon
<1>1. /\ TypeInv /\ PlaceInv /\ RefInv /\ RingInv /\ ReqInv /\ DataInv /\ PinInv /\ WakeInv /\ panicked = "no"
  BY DEF DiskInv, CoreInv
<1>2. PICK p \in Waiting : loc[p].i = n /\ n \in inflight /\ n \in Out /\ DoneFor(p, loc[p].b, n)
  BY <1>1, DoneIs
<1>3. /\ p \in Proc /\ Place(p) = "wait" /\ PlaceOK(p) /\ ReqOK(p)
      /\ loc[p].b \in Buf /\ loc[p].blk \in Block
      /\ buf[loc[p].b].lock = p /\ buf[loc[p].b].blockno = loc[p].blk
      /\ buf[loc[p].b].valid <=> loc[p].write
  BY <1>1, RequestIs
<1>4. PICK b \in Buf : b = loc[p].b
  BY <1>3
<1>5. PICK blk \in Block : blk = loc[p].blk
  BY <1>3
<1>6. PICK wr \in BOOLEAN : wr = loc[p].write
  BY <1>1, <1>3 DEF TypeInv, LocType
<1>7. /\ inflight' = inflight \ {n}
      /\ platter' = IF wr THEN [platter EXCEPT ![blk] = buf[b].data] ELSE platter
      /\ buf' = IF wr THEN buf ELSE [buf EXCEPT ![b].data = platter[blk]]
      /\ info' = [info EXCEPT ![n].ok = TRUE]
      /\ used' = [ring |-> [used.ring EXCEPT ![used.idx % NUM] = n], idx |-> (used.idx + 1) % IDXMOD]
  BY <1>2, <1>4, <1>5, <1>6 DEF DoneFor
<1>8. /\ mru' = mru /\ free' = free /\ desc' = desc /\ ops' = ops /\ avail' = avail
      /\ used_idx' = used_idx /\ vdisk_lock' = vdisk_lock /\ lastAvail' = lastAvail /\ irq' = TRUE
      /\ loc' = loc /\ pinned' = pinned /\ content' = content /\ panicked' = panicked
  BY DEF DeviceDone
<1>9. /\ buf \in [Buf -> BufType] /\ info \in [Desc -> InfoType] /\ platter \in [Block -> Data]
      /\ used.ring \in [Desc -> Desc] /\ used.idx \in Index /\ used_idx \in Index
      /\ inflight \in SUBSET Desc
  BY <1>1 DEF TypeInv, RingType
<1> DEFINE rng == [used.ring EXCEPT ![used.idx % NUM] = n]
           u == (used.idx + 1) % IDXMOD
<1>10. /\ rng \in [Desc -> Desc] /\ u \in Index /\ RingOK(rng, used_idx, u)
       /\ Items(rng, used_idx, u) = Done \cup {n}
  <2>1. Pending(used_idx, used.idx) + 1 < NUM /\ n \notin Items(used.ring, used_idx, used.idx)
    BY <1>1, <1>2, UsedRoom DEF Done
  <2>2. RingOK(used.ring, used_idx, used.idx)
    BY <1>1 DEF RingInv
  <2>3. /\ rng \in [Desc -> Desc] /\ u \in Index /\ RingOK(rng, used_idx, u)
        /\ Items(rng, used_idx, u) = Items(used.ring, used_idx, used.idx) \cup {n}
    BY <2>1, <2>2, <1>9, UsedPut
  <2> QED BY <2>3 DEF Done
<1>11. used' \in RingType /\ used'.ring = rng /\ used'.idx = u
  BY <1>7, <1>10 DEF RingType
<1> HIDE DEF rng, u
<1>12. n \notin Offered /\ n \notin Done
  BY <1>1, <1>2 DEF RingInv
<1>13. /\ Done' = Done \cup {n} /\ Offered' = Offered /\ Out' = Out \ {n}
  <2>1. Done' = Done \cup {n}
    BY <1>8, <1>10, <1>11 DEF Done
  <2>2. Offered' = Offered
    BY <1>8 DEF Offered
  <2>3. Offered \cup (inflight \ {n}) = (Offered \cup inflight) \ {n}
    BY <1>12
  <2> QED BY <2>1, <2>2, <2>3, <1>7 DEF Out
<1>14. RingInv'
  <2>1. RingOK(used.ring, used_idx, used.idx)'
    BY <1>8, <1>10, <1>11
  <2>2. RingOK(avail.ring, lastAvail, avail.idx)'
    BY <1>1, <1>8 DEF RingInv
  <2>3. (Offered \cap inflight)' = {}
    BY <1>1, <1>7, <1>13 DEF RingInv
  <2>4. (Out \cap Done)' = {}
    BY <1>1, <1>13 DEF RingInv
  <2> QED BY <2>1, <2>2, <2>3, <2>4 DEF RingInv
<1>15. /\ info' \in [Desc -> InfoType] /\ info'[n].ok
       /\ \A i \in Desc : info'[i].b = info[i].b /\ (i # n => info'[i] = info[i])
  BY <1>7, <1>9 DEF InfoType
<1>16. platter' \in [Block -> Data] /\ \A x \in Block \ {blk} : platter'[x] = platter[x]
  <2>1. buf[b].data \in Data
    BY <1>9 DEF BufType
  <2> QED BY <2>1, <1>7, <1>9
<1>17. /\ buf' \in [Buf -> BufType] /\ \A c \in Buf \ {b} : buf'[c] = buf[c]
       /\ wr => buf' = buf /\ platter'[blk] = buf[b].data
       /\ ~wr => buf'[b].data = platter[blk] /\ platter' = platter
       /\ SameBuf(b) /\ buf'[b].refcnt = buf[b].refcnt
  <2>1. CASE wr
    BY <2>1, <1>7, <1>9 DEF SameBuf
  <2>2. CASE ~wr
    <3> DEFINE r == [buf[b] EXCEPT !.data = platter[blk]]
    <3>1. platter[blk] \in Data
      BY <1>9
    <3>2. /\ r \in BufType /\ r.blockno = buf[b].blockno /\ r.valid = buf[b].valid /\ r.disk = buf[b].disk
          /\ r.lock = buf[b].lock /\ r.data = platter[blk] /\ r.refcnt = buf[b].refcnt
      BY <3>1, <1>9 DEF BufType
    <3>3. buf' = [buf EXCEPT ![b] = r] /\ platter' = platter
      BY <2>2, <1>7, <1>9
    <3> HIDE DEF r
    <3>4. buf' \in [Buf -> BufType] /\ buf'[b] = r /\ \A c \in Buf \ {b} : buf'[c] = buf[c]
      BY <3>2, <3>3, <1>9
    <3> QED BY <2>2, <3>2, <3>3, <3>4 DEF SameBuf
  <2> QED BY <2>1, <2>2, <1>6
<1>18. TypeInv'
  <2>1. inflight' \in SUBSET Desc
    BY <1>7, <1>9
  <2> QED BY <2>1, <1>1, <1>8, <1>11, <1>15, <1>16, <1>17 DEF TypeInv
<1>19. DeviceStep
  <2>1. \A c \in Buf : SameBuf(c) /\ buf'[c].refcnt = buf[c].refcnt
    BY <1>17 DEF SameBuf
  <2> QED BY <2>1, <1>8 DEF DeviceStep
<1>20. /\ PlaceInv' /\ RefInv' /\ PinInv' /\ (\A q \in Proc : Same(q) /\ SleepOK(q)')
       /\ Waiting' = Waiting
  BY <1>1, <1>19, DeviceKeeps
<1>21. ASSUME NEW q \in Waiting, q # p PROVE loc[q].i # n /\ loc[q].b # b /\ loc[q].b \in Buf /\ loc[q].i \in Desc
  BY <1>1, <1>2, <1>4, <1>21, OwnRequest, RequestIs
<1>22. ReqInv'
  <2>1. ASSUME NEW q \in Waiting PROVE ReqOK(q)'
    <3>1. ReqOK(q) /\ loc[q].i \in Desc /\ loc[q].b \in Buf
      BY <1>1, RequestIs
    <3>2. ChainOK(q, loc[q].i, desc[loc[q].i].next, desc[desc[loc[q].i].next].next)'
      BY <3>1, <1>8, <1>15 DEF ReqOK, ChainOK
    <3>3. buf'[loc[q].b].disk = buf[loc[q].b].disk
      BY <3>1, <1>19 DEF DeviceStep, SameBuf
    <3>4. loc[q].i \in Out' \cup Done' <=> loc[q].i \in Out \cup Done
      BY <1>2, <1>13
    <3>5. loc[q].i \in Done' => info'[loc[q].i].ok
      <4>1. CASE q = p
        BY <4>1, <1>2, <1>15
      <4>2. CASE q # p
        <5>1. loc[q].i # n
          BY <4>2, <1>21
        <5>2. loc[q].i \in Done' => loc[q].i \in Done
          BY <5>1, <1>13
        <5> QED BY <5>1, <5>2, <3>1, <1>15 DEF ReqOK
      <4> QED BY <4>1, <4>2
    <3> QED BY <3>1, <3>2, <3>3, <3>4, <3>5, <1>8 DEF ReqOK
  <2>2. ASSUME NEW s \in Waiting, NEW q \in Waiting, s # q PROVE (Chain(loc[s].i) \cap Chain(loc[q].i))' = {}
    <3>1. Chain(loc[s].i) \cap Chain(loc[q].i) = {}
      BY <2>2, <1>1 DEF ReqInv
    <3> QED BY <3>1, <1>8 DEF Chain
  <2>3. ASSUME NEW i \in Out' \cup Done' PROVE \E q \in Waiting : loc'[q].i = i
    <3>1. i \in Out \cup Done
      BY <1>2, <1>13
    <3> QED BY <3>1, <1>1, <1>8 DEF ReqInv
  <2> QED BY <2>1, <2>2, <2>3, <1>20 DEF ReqInv
<1>23. wr => OnDisk(blk)'
  <2>1. wr => buf[b].data = content[blk]
    BY <1>1, <1>3, <1>4, <1>5, <1>6 DEF DataInv
  <2> QED BY <2>1, <1>8, <1>17 DEF OnDisk
<1>24. ASSUME NEW x \in Block, OnDisk(x) PROVE OnDisk(x)'
  <2>1. CASE wr /\ x = blk
    BY <2>1, <1>23
  <2>2. CASE ~(wr /\ x = blk)
    <3>1. platter'[x] = platter[x]
      BY <2>2, <1>6, <1>16, <1>17
    <3> QED BY <3>1, <1>8, <1>24 DEF OnDisk
  <2> QED BY <2>1, <2>2
<1>25. DataInv'
  <2>1. ASSUME NEW c \in Buf, buf'[c].valid PROVE buf'[c].data = content'[buf'[c].blockno]
    <3>1. buf[c].valid /\ buf'[c].blockno = buf[c].blockno
      BY <2>1, <1>19 DEF DeviceStep, SameBuf
    <3>2. buf'[c].data = buf[c].data
      <4>1. CASE c = b
        BY <3>1, <4>1, <1>3, <1>4, <1>6, <1>17
      <4>2. CASE c # b
        BY <4>2, <1>17
      <4> QED BY <4>1, <4>2
    <3> QED BY <3>1, <3>2, <1>1, <1>8 DEF DataInv
  <2>2. ASSUME NEW x \in Block \ pinned', \A q \in Proc : loc'[q].blk = x => ~Dirty(q)' PROVE OnDisk(x)'
    <3>1. CASE wr /\ x = blk
      BY <3>1, <1>23
    <3>2. CASE ~(wr /\ x = blk)
      <4>1. ASSUME NEW q \in Proc, loc[q].blk = x, Dirty(q) PROVE FALSE
        <5>1. q # p
          BY <3>2, <4>1, <1>5, <1>6 DEF Dirty
        <5>2. Place(q) = "wait" => loc[q].i # n /\ loc[q].i \in Out
          BY <4>1, <5>1, <1>21 DEF Dirty, Waiting
        <5>3. Place(q) = "wait" => loc[q].i \in Out'
          BY <5>2, <1>13
        <5>4. Place(q)' = Place(q)
          BY <1>20 DEF Same
        <5>5. Dirty(q)'
          BY <4>1, <5>3, <5>4, <1>8 DEF Dirty
        <5> QED BY <4>1, <5>5, <2>2, <1>8
      <4>2. OnDisk(x)
        BY <4>1, <1>1, <1>8 DEF DataInv
      <4> QED BY <4>2, <1>24
    <3> QED BY <3>1, <3>2
  <2>3. ASSUME NEW q \in Proc, Place(q)' = "unpin" PROVE OnDisk(loc[q].blk)'
    <3>1. Place(q) = "unpin" /\ PlaceOK(q)
      BY <2>3, <1>1, <1>20 DEF Same, PlaceInv
    <3>2. loc[q].blk \in Block
      BY <3>1 DEF PlaceOK
    <3>3. PICK x \in Block : x = loc[q].blk
      BY <3>2
    <3>4. OnDisk(x)
      BY <3>1, <3>3, <1>1 DEF DataInv
    <3>5. OnDisk(x)'
      BY <3>4, <1>24
    <3> QED BY <3>3, <3>5, <1>8 DEF OnDisk
  <2>4. ASSUME NEW q \in Waiting, loc[q].i \notin Out'
        PROVE  IF loc[q].write THEN OnDisk(loc[q].blk)' ELSE buf'[loc[q].b].data = content'[loc[q].blk]
    <3>1. CASE q = p
      <4>1. CASE wr
        BY <3>1, <4>1, <1>5, <1>6, <1>8, <1>23 DEF OnDisk
      <4>2. CASE ~wr
        <5>1. platter[blk] = content[blk]
          BY <4>2, <1>1, <1>5, <1>6, ReadsLatest
        <5> QED BY <3>1, <4>2, <5>1, <1>4, <1>5, <1>6, <1>8, <1>17
      <4> QED BY <4>1, <4>2
    <3>2. CASE q # p
      <4>1. loc[q].i # n /\ loc[q].b # b /\ loc[q].b \in Buf /\ loc[q].blk \in Block
        BY <3>2, <1>1, <1>21, RequestIs
      <4>2. loc[q].i \notin Out
        BY <4>1, <2>4, <1>13
      <4>3. IF loc[q].write THEN OnDisk(loc[q].blk) ELSE buf[loc[q].b].data = content[loc[q].blk]
        BY <4>2, <1>1 DEF DataInv
      <4>4. CASE loc[q].write
        <5>1. PICK x \in Block : x = loc[q].blk
          BY <4>1
        <5>2. OnDisk(x)
          BY <4>3, <4>4, <5>1
        <5>3. OnDisk(x)'
          BY <5>2, <1>24
        <5> QED BY <4>4, <5>1, <5>3, <1>8 DEF OnDisk
      <4>5. CASE ~loc[q].write
        BY <4>1, <4>3, <4>5, <1>8, <1>17
      <4> QED BY <4>4, <4>5
    <3> QED BY <3>1, <3>2
  <2> QED BY <2>1, <2>2, <2>3, <2>4, <1>8, <1>20 DEF DataInv
<1>26. WakeInv'
  BY <1>8, <1>20 DEF WakeInv
<1> QED BY <1>1, <1>8, <1>14, <1>18, <1>20, <1>22, <1>25, <1>26 DEF DiskInv, CoreInv

-----------------------------------------------------------------------------
(* Three calls of alloc_desc() take three descriptors.                     *)
LEMMA FreeFinite ==
  ASSUME TypeInv
  PROVE  IsFiniteSet(free) /\ Cardinality(free) \in Nat /\ free \subseteq Desc /\ free \in SUBSET Nat
<1> USE Zenon
<1>1. free \in SUBSET Desc
  BY DEF TypeInv
<1>2. IsFiniteSet(free)
  BY <1>1, DescIs, FS_Subset
<1>3. Cardinality(free) \in Nat
  BY <1>2, FS_CardinalityType
<1>4. free \in SUBSET Nat
  BY SMTT(60), <1>1, Sizes DEF Desc
<1> QED BY <1>1, <1>2, <1>3, <1>4

LEMMA Allocated ==
  ASSUME TypeInv, Cardinality(free) >= 3
  PROVE  \E i, j, k \in free : i # j /\ i # k /\ j # k /\ alloc3_desc = <<i, j, k>>
<1> USE Zenon
<1>1. IsFiniteSet(free) /\ Cardinality(free) \in Nat /\ free \in SUBSET Nat
  BY FreeFinite
<1> DEFINE i == Lowest(free)
           j == Lowest(free \ {i})
           k == Lowest(free \ {i, j})
<1>2. i \in free
  <2>1. free # {}
    BY SMTT(60), <1>1, FS_EmptySet
  <2> QED BY <2>1, <1>1, LowestOf
<1> HIDE DEF i
<1>3. IsFiniteSet(free \ {i}) /\ Cardinality(free \ {i}) = Cardinality(free) - 1
  BY <1>1, <1>2, FS_RemoveElement
<1>4. j \in free \ {i}
  <2>1. Cardinality(free \ {i}) # 0
    BY SMTT(60), <1>1, <1>3
  <2>2. free \ {i} # {} /\ free \ {i} \in SUBSET Nat
    BY <1>1, <2>1, FS_EmptySet
  <2> QED BY <2>2, LowestOf
<1> HIDE DEF j
<1>5. (free \ {i}) \ {j} = free \ {i, j}
  OBVIOUS
<1>6. IsFiniteSet(free \ {i, j}) /\ Cardinality(free \ {i, j}) = Cardinality(free \ {i}) - 1
  BY <1>3, <1>4, <1>5, FS_RemoveElement
<1>7. k \in free \ {i, j}
  <2>1. Cardinality(free \ {i, j}) # 0
    BY SMTT(60), <1>1, <1>3, <1>6
  <2>2. free \ {i, j} # {} /\ free \ {i, j} \in SUBSET Nat
    BY <1>1, <2>1, FS_EmptySet
  <2> QED BY <2>2, LowestOf
<1>8. alloc3_desc = <<i, j, k>>
  BY DEF alloc3_desc, i, j, k
<1> HIDE DEF k
<1>9. i # j /\ i # k /\ j # k /\ j \in free /\ k \in free
  BY <1>4, <1>7
<1> QED BY <1>2, <1>8, <1>9

(* The chain of a request has no free descriptor.                          *)
LEMMA ChainTaken ==
  ASSUME ReqInv, NEW q \in Waiting
  PROVE  Chain(loc[q].i) \cap free = {} /\ loc[q].i \in Chain(loc[q].i)
<1>1. PICK i : i = loc[q].i
  OBVIOUS
<1>2. PICK j : j = desc[i].next
  OBVIOUS
<1>3. PICK k : k = desc[j].next
  OBVIOUS
<1>4. ChainOK(q, i, j, k)
  BY Zenon, <1>1, <1>2, <1>3 DEF ReqInv, ReqOK
<1>5. Chain(i) = {i, j, k}
  BY <1>4, ChainIs
<1>6. i \notin free /\ j \notin free /\ k \notin free
  BY Zenon, <1>4 DEF ChainOK
<1>7. {i, j, k} \cap free = {} /\ i \in {i, j, k}
  BY <1>6
<1> QED BY Zenon, <1>1, <1>5, <1>7

(* The requests of others than the process that moves stay as they are.    *)
ReqStays(q) ==
  /\ Same(q) /\ buf'[loc[q].b].disk = buf[loc[q].b].disk
  /\ \A d \in Chain(loc[q].i) : d \notin free' /\ desc'[d] = desc[d]
  /\ ops'[loc[q].i] = ops[loc[q].i] /\ info'[loc[q].i] = info[loc[q].i]
  /\ loc[q].i \in Out' <=> loc[q].i \in Out
  /\ Done' = Done

LEMMA ReqStaysOK ==
  ASSUME ReqInv, NEW q \in Waiting, ReqStays(q)
  PROVE  ReqOK(q)' /\ (Chain(loc[q].i))' = Chain(loc[q].i)
<1> USE Zenon
<1>1. PICK i : i = loc[q].i
  OBVIOUS
<1>2. PICK j : j = desc[i].next
  OBVIOUS
<1>3. PICK k : k = desc[j].next
  OBVIOUS
<1>4. ChainOK(q, i, j, k) /\ ReqOK(q)
  BY <1>1, <1>2, <1>3 DEF ReqInv, ReqOK
<1>5. Chain(i) = {i, j, k} /\ desc[i].next = j /\ desc[j].next = k
  BY SMTT(60), <1>4, ChainIs
<1>6. \A d \in {i, j, k} : d \notin free' /\ desc'[d] = desc[d]
  BY <1>1, <1>5 DEF ReqStays
<1>7. /\ i \notin free' /\ j \notin free' /\ k \notin free'
      /\ desc'[i] = desc[i] /\ desc'[j] = desc[j] /\ desc'[k] = desc[k]
  BY <1>6
<1>8. /\ loc'[q].i = i /\ loc'[q].b = loc[q].b /\ loc'[q].blk = loc[q].blk /\ loc'[q].write = loc[q].write
      /\ ops'[i] = ops[i] /\ info'[i] = info[i] /\ (i \in Out' <=> i \in Out) /\ Done' = Done
      /\ buf'[loc[q].b].disk = buf[loc[q].b].disk
  BY <1>1 DEF ReqStays, Same, SameFields
<1>9. ChainOK(q, i, j, k)'
  BY <1>4, <1>7, <1>8 DEF ChainOK
<1>10. desc'[loc'[q].i].next = j /\ desc'[j].next = k
  BY <1>5, <1>7, <1>8
<1>11. i \in Out' \cup Done' <=> i \in Out \cup Done
  BY <1>8
<1>12. ReqOK(q)'
  BY <1>1, <1>4, <1>8, <1>9, <1>10, <1>11 DEF ReqOK
<1>13. (Chain(loc[q].i))' = Chain(loc[q].i)
  BY <1>1, <1>5, <1>7, <1>8 DEF Chain
<1> QED BY <1>12, <1>13

(* The available ring has room for one more request.                       *)
LEMMA AvailRoom ==
  ASSUME TypeInv, RingInv, ReqInv, Cardinality(free) >= 3
  PROVE  /\ Pending(lastAvail, avail.idx) + 1 < NUM
         /\ \A i \in Out \cup Done : i \notin free
<1>1. /\ avail.ring \in [Desc -> Desc] /\ avail.idx \in Index /\ lastAvail \in Index
  BY DEF TypeInv, RingType
<1>2. ASSUME NEW i \in Out \cup Done PROVE i \in Desc \ free
  <2>1. PICK q \in Waiting : loc[q].i = i
    BY Zenon DEF ReqInv
  <2>2. i \in Desc
    BY <2>1 DEF TypeInv, LocType, Waiting
  <2>3. Chain(loc[q].i) \cap free = {} /\ loc[q].i \in Chain(loc[q].i)
    BY Zenon, ChainTaken
  <2> QED BY <2>1, <2>2, <2>3
<1>3. Offered \subseteq Desc \ free
  BY <1>2 DEF Out
<1>4. IsFiniteSet(Desc \ free) /\ Cardinality(Desc \ free) = NUM - Cardinality(free)
  <2>1. Desc \cap free = free
    BY FreeFinite
  <2> QED BY ZenonT(40), <2>1, DescIs, FS_Difference
<1>5. Pending(lastAvail, avail.idx) <= Cardinality(Desc \ free)
  BY Zenon, <1>1, <1>3, <1>4, RingBound DEF RingInv, Offered
<1>6. Pending(lastAvail, avail.idx) \in Int /\ Cardinality(free) \in Nat
  BY <1>1, PendingIs, FreeFinite DEF Index
<1>7. Pending(lastAvail, avail.idx) + 1 < NUM
  BY <1>4, <1>5, <1>6, Sizes
<1> QED BY <1>2, <1>7

-----------------------------------------------------------------------------
(* virtio_disk_rw() hands a request to the device, and sleeps.             *)
Submits(p, b, i, j, k) ==
  /\ free' = free \ {i, j, k}
  /\ ops' = [ops EXCEPT ![i] = [write |-> loc[p].write, blk |-> loc[p].blk]]
  /\ desc' = [desc EXCEPT ![i] = [addr |-> i, next |-> j, more |-> TRUE],
                          ![j] = [addr |-> b, next |-> k, more |-> TRUE],
                          ![k] = [addr |-> i, next |-> 0, more |-> FALSE]]
  /\ info' = [info EXCEPT ![i] = [b |-> b, ok |-> FALSE]]
  /\ buf' = [buf EXCEPT ![b].disk = TRUE]
  /\ avail' = [ring |-> [avail.ring EXCEPT ![avail.idx % NUM] = i], idx |-> (avail.idx + 1) % IDXMOD]
  /\ loc' = Asleep([loc EXCEPT ![p].i = i], p, <<"buf", b>>)
  /\ UNCHANGED <<mru, used, used_idx, vdisk_lock, device, pinned, content, panicked>>

LEMMA SubmitIs ==
  ASSUME TypeInv, NEW p \in Proc, buf[loc[p].b].blockno = loc[p].blk, virtio_disk_rw(p)
  PROVE  \E i, j, k \in free : i # j /\ i # k /\ j # k /\ Submits(p, loc[p].b, i, j, k)
<1>1. Cardinality(free) >= 3
  BY DEF virtio_disk_rw
<1>2. PICK i \in free, j \in free, k \in free : i # j /\ i # k /\ j # k /\ alloc3_desc = <<i, j, k>>
  BY Zenon, <1>1, Allocated
<1>3. alloc3_desc[1] = i /\ alloc3_desc[2] = j /\ alloc3_desc[3] = k
  BY <1>2
<1>4. Submits(p, loc[p].b, i, j, k)
  BY Zenon, <1>3 DEF virtio_disk_rw, Submits
<1> QED BY Zenon, <1>2, <1>4

(* Where the process then sleeps.                                          *)
LEMMA SubmitSleeps ==
  ASSUME TypeInv, NEW p \in Proc, NEW b \in Buf, NEW i \in Desc,
         loc' = Asleep([loc EXCEPT ![p].i = i], p, <<"buf", b>>)
  PROVE  /\ loc' \in [Proc -> LocType] /\ \A q \in Proc \ {p} : Same(q) /\ Slept(q)
         /\ Place(p)' = "wait" /\ loc'[p].chan = <<"buf", b>> /\ loc'[p].i = i
         /\ loc'[p].op = loc[p].op /\ loc'[p].blk = loc[p].blk /\ loc'[p].b = loc[p].b
         /\ loc'[p].write = loc[p].write
<1> DEFINE m == [loc EXCEPT ![p].i = i]
<1>1. loc \in [Proc -> LocType]
  BY DEF TypeInv
<1>2. /\ m \in [Proc -> LocType] /\ (\A q \in Proc \ {p} : m[q] = loc[q]) /\ m[p].i = i
      /\ m[p].op = loc[p].op /\ m[p].blk = loc[p].blk /\ m[p].b = loc[p].b /\ m[p].write = loc[p].write
  BY <1>1 DEF LocType
<1> HIDE DEF m
<1>3. <<"buf", b>> \in Chans
  BY DEF Chans
<1>4. Dozes(loc', m, p, <<"buf", b>>)
  <2>1. loc' = Asleep(m, p, <<"buf", b>>)
    BY DEF m
  <2> QED BY Zenon, <2>1, <1>2, <1>3, AsleepIs
<1>5. \A q \in Proc \ {p} : Same(q) /\ Slept(q)
  BY Zenon, <1>2, <1>4, UnchangedSame DEF Dozes
<1>6. Place(p)' = "wait"
  BY Zenon, <1>4, BackIs DEF Dozes, Place
<1> QED BY Zenon, <1>2, <1>4, <1>5, <1>6 DEF Dozes, SameFields

LEMMA RwKept ==
  ASSUME DiskInv, NEW p \in Proc, virtio_disk_rw(p)
  PROVE  DiskInv'
<1> USE Zenon
<1>1. At(p, "rw") /\ "rw" \in Places \ {"idle"} /\ Cardinality(free) >= 3
  BY DEF virtio_disk_rw, Places
<1>2. /\ TypeInv /\ PlaceInv /\ RefInv /\ RingInv /\ ReqInv /\ DataInv /\ PinInv /\ WakeInv
      /\ loc \in [Proc -> LocType] /\ buf \in [Buf -> BufType] /\ Place(p) = "rw" /\ PlaceOK(p)
      /\ loc[p].b \in Buf /\ loc[p].blk \in Block /\ loc[p].op \in Ops /\ buf[loc[p].b].blockno = loc[p].blk
  BY <1>1, InCall
<1>3. PICK b \in Buf : b = loc[p].b
  BY <1>2
<1>4. PICK i \in free, j \in free, k \in free : i # j /\ i # k /\ j # k /\ Submits(p, b, i, j, k)
  BY <1>2, <1>3, SubmitIs
<1>5. /\ i \in Desc /\ j \in Desc /\ k \in Desc /\ Cardinality(free) \in Nat
  BY <1>2, FreeFinite
<1>6. /\ free' = free \ {i, j, k} /\ buf' = [buf EXCEPT ![b].disk = TRUE]
      /\ ops' = [ops EXCEPT ![i] = [write |-> loc[p].write, blk |-> loc[p].blk]]
      /\ info' = [info EXCEPT ![i] = [b |-> b, ok |-> FALSE]]
      /\ avail' = [ring |-> [avail.ring EXCEPT ![avail.idx % NUM] = i], idx |-> (avail.idx + 1) % IDXMOD]
      /\ loc' = Asleep([loc EXCEPT ![p].i = i], p, <<"buf", b>>)
      /\ mru' = mru /\ used' = used /\ used_idx' = used_idx /\ vdisk_lock' = vdisk_lock
      /\ pinned' = pinned /\ content' = content /\ panicked' = panicked
      /\ platter' = platter /\ lastAvail' = lastAvail /\ inflight' = inflight /\ irq' = irq
  BY <1>4 DEF Submits, device
<1>7. /\ loc' \in [Proc -> LocType] /\ \A q \in Proc \ {p} : Same(q) /\ Slept(q)
      /\ Place(p)' = "wait" /\ loc'[p].chan = <<"buf", b>> /\ loc'[p].i = i
      /\ loc'[p].op = loc[p].op /\ loc'[p].blk = loc[p].blk /\ loc'[p].b = loc[p].b
      /\ loc'[p].write = loc[p].write
  BY <1>2, <1>5, <1>6, SubmitSleeps
<1> DEFINE r == [buf[b] EXCEPT !.disk = TRUE]
<1>8. /\ r \in BufType /\ r.blockno = buf[b].blockno /\ r.valid = buf[b].valid /\ r.disk
      /\ r.lock = buf[b].lock /\ r.data = buf[b].data /\ r.refcnt = buf[b].refcnt
  BY <1>2 DEF BufType
<1>9. buf' = [buf EXCEPT ![b] = r]
  BY <1>2, <1>6
<1> HIDE DEF r
<1>10. buf' \in [Buf -> BufType] /\ buf'[b] = r /\ \A c \in Buf \ {b} : buf'[c] = buf[c]
  BY <1>2, <1>8, <1>9
<1>11. \A c \in Buf : /\ buf'[c].blockno = buf[c].blockno /\ buf'[c].valid = buf[c].valid
                      /\ buf'[c].refcnt = buf[c].refcnt /\ buf'[c].lock = buf[c].lock
                      /\ buf'[c].data = buf[c].data
  BY <1>8, <1>10
<1>12. /\ desc' \in [Desc -> DescType]
       /\ desc'[i] = [addr |-> i, next |-> j, more |-> TRUE]
       /\ desc'[j] = [addr |-> b, next |-> k, more |-> TRUE]
       /\ desc'[k] = [addr |-> i, next |-> 0, more |-> FALSE]
       /\ \A d \in Desc \ {i, j, k} : desc'[d] = desc[d]
  <2> DEFINE x == [addr |-> i, next |-> j, more |-> TRUE]
             y == [addr |-> b, next |-> k, more |-> TRUE]
             z == [addr |-> i, next |-> 0, more |-> FALSE]
  <2>1. x \in DescType /\ y \in DescType /\ z \in DescType
    BY SMTT(60), <1>5, Sizes DEF DescType, Desc
  <2>2. desc' = [desc EXCEPT ![i] = x, ![j] = y, ![k] = z] /\ desc \in [Desc -> DescType]
    BY <1>2, <1>4 DEF Submits, TypeInv
  <2> HIDE DEF x, y, z
  <2>3. /\ desc' \in [Desc -> DescType] /\ desc'[i] = x /\ desc'[j] = y /\ desc'[k] = z
        /\ \A d \in Desc \ {i, j, k} : desc'[d] = desc[d]
    BY <2>1, <2>2, <1>4, <1>5
  <2> QED BY <2>3 DEF x, y, z
<1>13. /\ ops' \in [Desc -> OpType] /\ ops'[i] = [write |-> loc[p].write, blk |-> loc[p].blk]
       /\ \A d \in Desc \ {i} : ops'[d] = ops[d]
  <2>1. [write |-> loc[p].write, blk |-> loc[p].blk] \in OpType /\ ops \in [Desc -> OpType]
    BY <1>2 DEF OpType, TypeInv, LocType
  <2> QED BY <2>1, <1>5, <1>6
<1>14. /\ info' \in [Desc -> InfoType] /\ info'[i].b = b
       /\ \A d \in Desc \ {i} : info'[d] = info[d]
  <2>1. [b |-> b, ok |-> FALSE] \in InfoType /\ info \in [Desc -> InfoType]
    BY <1>2 DEF InfoType, TypeInv
  <2> QED BY <2>1, <1>5, <1>6
<1>15. /\ Pending(lastAvail, avail.idx) + 1 < NUM /\ \A d \in Out \cup Done : d \notin free
  BY <1>1, <1>2, AvailRoom
<1>16. i \notin Offered /\ i \notin inflight /\ i \notin Out /\ i \notin Done
  BY <1>15 DEF Out
<1> DEFINE rng == [avail.ring EXCEPT ![avail.idx % NUM] = i]
           u == (avail.idx + 1) % IDXMOD
<1>17. /\ rng \in [Desc -> Desc] /\ u \in Index /\ RingOK(rng, lastAvail, u)
       /\ Items(rng, lastAvail, u) = Items(avail.ring, lastAvail, avail.idx) \cup {i}
  <2>1. avail.ring \in [Desc -> Desc] /\ avail.idx \in Index /\ lastAvail \in Index
    BY <1>2 DEF TypeInv, RingType
  <2>2. RingOK(avail.ring, lastAvail, avail.idx) /\ i \notin Items(avail.ring, lastAvail, avail.idx)
    BY <1>2, <1>16 DEF RingInv, Offered
  <2> QED BY <2>1, <2>2, <1>5, <1>15, AvailPut
<1>18. avail' \in RingType /\ avail'.ring = rng /\ avail'.idx = u
  BY <1>6, <1>17 DEF RingType
<1> HIDE DEF rng, u
<1>19. Offered' = Offered \cup {i} /\ Done' = Done
  BY <1>6, <1>17, <1>18 DEF Offered, Done
<1>20. Out' = Out \cup {i}
  BY <1>6, <1>19 DEF Out
<1>21. RingInv'
  <2>1. RingOK(avail.ring, lastAvail, avail.idx)'
    BY <1>6, <1>17, <1>18
  <2>2. RingOK(used.ring, used_idx, used.idx)'
    BY <1>2, <1>6 DEF RingInv
  <2>3. (Offered \cap inflight)' = {}
    BY <1>2, <1>6, <1>16, <1>19 DEF RingInv
  <2>4. (Out \cap Done)' = {}
    BY <1>2, <1>16, <1>19, <1>20 DEF RingInv
  <2> QED BY <2>1, <2>2, <2>3, <2>4 DEF RingInv
<1>22. TypeInv'
  <2>1. free' \in SUBSET Desc
    BY <1>2, <1>6 DEF TypeInv
  <2> QED BY <2>1, <1>2, <1>6, <1>7, <1>10, <1>12, <1>13, <1>14, <1>18 DEF TypeInv
<1>23. buf[b].lock = p /\ BufOK(b) /\ (\A q \in Proc : buf[b].lock = q => q = p)
  <2>1. Place(p) \in Holds
    BY <1>2 DEF Holds
  <2> QED BY <2>1, <1>2, <1>3, HaveIs
<1>24. PlaceInv'
  <2>1. PlaceOK(p)'
    <3>1. /\ buf'[b].lock = p /\ buf'[b].blockno = loc[p].blk
          /\ buf'[b].valid <=> loc[p].write
      <4>1. Place(p) \in InRw
        BY <1>2 DEF InRw
      <4>2. buf[loc[p].b].valid <=> loc[p].write
        BY <4>1, <1>2 DEF PlaceOK
      <4> QED BY <4>2, <1>2, <1>3, <1>11, <1>23
    <3>2. loc[p].write => loc[p].op \in {"write", "install"}
      BY <1>2 DEF PlaceOK
    <3>3. "wait" \in Places /\ "wait" \in InRw /\ "wait" \in Holds /\ "wait" \notin Holds \ InRw
      BY DEF Places, InRw, Holds
    <3>4. "wait" # "idle" /\ "wait" # "unpin"
      OBVIOUS
    <3> QED BY <3>1, <3>2, <3>3, <3>4, <1>2, <1>3, <1>7 DEF PlaceOK
  <2>2. BufOK(b)'
    <3>1. "wait" \in Holds
      BY DEF Holds
    <3>2. \A q \in Proc : buf'[b].lock = q => Place(q)' \in Holds /\ loc'[q].b = b
      BY <3>1, <1>3, <1>7, <1>11, <1>23
    <3>3. \E q \in Proc : buf'[b].lock = q /\ Place(q)' = "wait"
      BY <1>7, <1>11, <1>23
    <3>4. buf'[b].valid => buf'[b].blockno \in Block
      BY <1>11, <1>23 DEF BufOK
    <3>5. \A c \in Buf : b # c /\ buf'[b].blockno # NoBlock => buf'[b].blockno # buf'[c].blockno
      BY <1>11, <1>23 DEF BufOK
    <3> QED BY <3>2, <3>3, <3>4, <3>5 DEF BufOK
  <2>3. \A c \in Buf \ {b} : SameBuf(c)
    BY <1>10 DEF SameBuf
  <2>4. PlaceStep(p, b)
    BY <2>1, <2>2, <2>3, <1>3, <1>7, <1>11 DEF PlaceStep
  <2> QED BY <2>4, <1>2, <1>22, PlaceKept
<1>25. ASSUME NEW c \in Buf PROVE RefOK(c)'
  <2>1. \A q \in Proc \ {p} : q \in Refs(c)' <=> q \in Refs(c)
    BY <1>7, RefsAre DEF Same, SameFields
  <2>2. p \in Refs(c)' <=> p \in Refs(c)
    <3>1. Place(p) # "idle" /\ Place(p)' # "idle"
      BY <1>2, <1>7
    <3> QED BY <3>1, <1>7, RefsAre
  <2>3. pinned' = pinned
    BY <1>6
  <2>4. SameRefs(c)
    BY <2>1, <2>2, <2>3, <1>11 DEF SameRefs
  <2> QED BY <2>4, <1>2, RefKept DEF RefInv
<1>26. ASSUME NEW q \in Waiting
       PROVE  /\ q # p /\ q \in Proc /\ Same(q) /\ Place(q)' = "wait" /\ loc'[q].i = loc[q].i
              /\ loc[q].i # i /\ loc[q].i \in Desc
              /\ ReqOK(q)' /\ (Chain(loc[q].i))' = Chain(loc[q].i) /\ Chain(loc[q].i) \cap free = {}
  <2>1. q \in Proc /\ loc[q].b \in Buf /\ loc[q].i \in Desc /\ buf[loc[q].b].lock = q /\ Place(q) = "wait"
    BY <1>2, RequestIs
  <2>2. q # p
    BY <2>1, <1>2
  <2>3. loc[q].b # b
    BY <2>1, <2>2, <1>23
  <2>4. Chain(loc[q].i) \cap free = {} /\ loc[q].i \in Chain(loc[q].i)
    BY <1>2, ChainTaken
  <2>5. loc[q].i # i
    BY <2>4
  <2>6. ASSUME NEW d \in Chain(loc[q].i) PROVE d \notin free' /\ desc'[d] = desc[d]
    <3>1. d \notin free /\ d \notin {i, j, k}
      BY <2>4
    <3>2. d \in Desc
      <4>1. desc \in [Desc -> DescType]
        BY <1>2 DEF TypeInv
      <4> QED BY <4>1, <2>1 DEF Chain, DescType
    <3> QED BY ZenonT(40), <3>1, <3>2, <1>6, <1>12
  <2>7. Same(q)
    BY <2>1, <2>2, <1>7
  <2>8. buf'[loc[q].b].disk = buf[loc[q].b].disk
    BY <2>1, <2>3, <1>10
  <2>9. ops'[loc[q].i] = ops[loc[q].i] /\ info'[loc[q].i] = info[loc[q].i]
    BY <2>1, <2>5, <1>13, <1>14
  <2>10. loc[q].i \in Out' <=> loc[q].i \in Out
    BY <2>5, <1>20
  <2>11. ReqStays(q)
    BY <2>6, <2>7, <2>8, <2>9, <2>10, <1>19 DEF ReqStays
  <2>12. ReqOK(q)' /\ (Chain(loc[q].i))' = Chain(loc[q].i)
    BY <2>11, <1>2, ReqStaysOK
  <2> QED BY <2>1, <2>2, <2>4, <2>5, <2>7, <2>12 DEF Same, SameFields
<1>27. Waiting' = Waiting \cup {p}
  <2>1. \A q \in Proc \ {p} : Place(q)' = Place(q)
    BY <1>7 DEF Same
  <2> QED BY <2>1, <1>7 DEF Waiting
<1>28. ReqOK(p)' /\ Chain(loc[p].i)' = {i, j, k}
  <2>1. ChainOK(p, i, j, k)'
    <3>1. i \notin free' /\ j \notin free' /\ k \notin free'
      BY <1>6
    <3>2. loc'[p].b = b
      BY <1>3, <1>7
    <3> QED BY <3>1, <3>2, <1>4, <1>7, <1>12, <1>13, <1>14 DEF ChainOK
  <2>2. /\ desc'[i].next = j /\ desc'[j].next = k /\ desc'[i].more /\ desc'[j].more
    BY SMTT(40), <1>12
  <2>3. i \in Out' /\ i \notin Done'
    BY <1>16, <1>19, <1>20
  <2>4. i \in Out' \cup Done'
    BY <2>3
  <2>5. ReqOK(p)'
    BY <2>1, <2>2, <2>3, <2>4, <1>3, <1>7, <1>8, <1>10 DEF ReqOK
  <2>6. Chain(loc[p].i)' = {i} \cup ({j} \cup {k})
    BY <2>2, <1>7 DEF Chain
  <2>7. {i} \cup ({j} \cup {k}) = {i, j, k}
    OBVIOUS
  <2> QED BY <2>5, <2>6, <2>7
<1>29. ReqInv'
  <2>1. \A q \in Waiting' : ReqOK(q)'
    BY <1>26, <1>27, <1>28
  <2>2. ASSUME NEW s \in Waiting, NEW q \in Waiting, s # q PROVE (Chain(loc[s].i) \cap Chain(loc[q].i))' = {}
    <3>1. Chain(loc[s].i) \cap Chain(loc[q].i) = {}
      BY <2>2, <1>2 DEF ReqInv
    <3>2. (Chain(loc[s].i))' = Chain(loc[s].i) /\ (Chain(loc[q].i))' = Chain(loc[q].i)
      BY <1>26
    <3> QED BY <3>1, <3>2
  <2>3. ASSUME NEW q \in Waiting
        PROVE  (Chain(loc[p].i) \cap Chain(loc[q].i))' = {} /\ (Chain(loc[q].i) \cap Chain(loc[p].i))' = {}
    <3>1. (Chain(loc[q].i))' \cap free = {}
      BY <1>26
    <3>2. (Chain(loc[p].i))' = {i, j, k}
      BY <1>28
    <3> QED BY <3>1, <3>2
  <2>4. \A s, q \in Waiting' : s # q => (Chain(loc[s].i) \cap Chain(loc[q].i))' = {}
    BY <2>2, <2>3, <1>27
  <2>5. ASSUME NEW d \in Out' \cup Done' PROVE \E q \in Waiting' : loc'[q].i = d
    <3>1. CASE d = i
      BY <3>1, <1>7, <1>27
    <3>2. CASE d # i
      <4>1. d \in Out \cup Done
        BY <3>2, <1>19, <1>20
      <4>2. PICK q \in Waiting : loc[q].i = d
        BY <4>1, <1>2 DEF ReqInv
      <4> QED BY <4>2, <1>26, <1>27
    <3> QED BY <3>1, <3>2
  <2> QED BY <2>1, <2>4, <2>5 DEF ReqInv
<1>30. DataInv'
  <2>1. \A c \in Buf : buf'[c].valid => buf'[c].data = content'[buf'[c].blockno]
    <3>1. content' = content
      BY <1>6
    <3> QED BY <3>1, <1>2, <1>11 DEF DataInv
  <2>2. \A x : OnDisk(x)' <=> OnDisk(x)
    BY <1>6 DEF OnDisk
  <2>3. ASSUME NEW q \in Proc, Dirty(q) PROVE Dirty(q)' /\ loc'[q].blk = loc[q].blk
    <3>1. CASE q = p
      <4>1. i \in Out'
        BY <1>20
      <4> QED BY <4>1, <3>1, <2>3, <1>7 DEF Dirty
    <3>2. CASE q # p
      <4>1. Place(q)' = Place(q) /\ loc'[q].i = loc[q].i /\ loc'[q].write = loc[q].write /\ loc'[q].blk = loc[q].blk
        BY <3>2, <1>7 DEF Same, SameFields
      <4>2. loc[q].i \in Out => loc[q].i \in Out'
        BY <1>20
      <4> QED BY <4>1, <4>2, <2>3 DEF Dirty
    <3> QED BY <3>1, <3>2
  <2>4. ASSUME NEW x \in Block \ pinned', \A q \in Proc : loc'[q].blk = x => ~Dirty(q)' PROVE OnDisk(x)'
    <3>1. \A q \in Proc : loc[q].blk = x => ~Dirty(q)
      BY <2>3, <2>4
    <3> QED BY <3>1, <2>2, <1>2, <1>6 DEF DataInv
  <2>5. ASSUME NEW q \in Proc, Place(q)' = "unpin" PROVE OnDisk(loc[q].blk)'
    <3>1. q # p
      BY <2>5, <1>7
    <3>2. Place(q) = "unpin" /\ loc'[q].blk = loc[q].blk
      BY <3>1, <2>5, <1>7 DEF Same, SameFields
    <3> QED BY <3>2, <1>2, <1>6 DEF DataInv, OnDisk
  <2>6. ASSUME NEW q \in Waiting', loc'[q].i \notin Out'
        PROVE  IF loc'[q].write THEN OnDisk(loc[q].blk)' ELSE buf'[loc'[q].b].data = content'[loc'[q].blk]
    <3>1. q # p
      BY <2>6, <1>7, <1>20
    <3>2. q \in Waiting
      BY <3>1, <1>27
    <3>3. /\ loc'[q].i = loc[q].i /\ loc'[q].write = loc[q].write /\ loc'[q].blk = loc[q].blk /\ loc'[q].b = loc[q].b
          /\ loc[q].b \in Buf
      BY <3>2, <1>2, <1>26, RequestIs DEF Same, SameFields
    <3>4. loc[q].i \notin Out
      BY <3>3, <2>6, <1>20
    <3>5. IF loc[q].write THEN OnDisk(loc[q].blk) ELSE buf[loc[q].b].data = content[loc[q].blk]
      BY <3>2, <3>4, <1>2 DEF DataInv
    <3>6. CASE loc[q].write
      BY <3>3, <3>5, <3>6, <1>6 DEF OnDisk
    <3>7. CASE ~loc[q].write
      BY <3>3, <3>5, <3>7, <1>6, <1>11
    <3> QED BY <3>6, <3>7
  <2> QED BY <2>1, <2>4, <2>5, <2>6 DEF DataInv
<1>31. PinInv'
  <2>1. "rw" \in Early
    BY DEF Early
  <2>2. \A q \in Proc : /\ loc'[q].op = loc[q].op /\ loc'[q].blk = loc[q].blk
                        /\ Place(q)' \in Early => Place(q) \in Early
    BY <2>1, <1>2, <1>7 DEF Same, SameFields
  <2>3. PinStep
    BY <2>2, <1>6, <1>11 DEF PinStep
  <2> QED BY <2>3, <1>2, PinKept
<1>32. WakeInv'
  <2>1. ASSUME NEW q \in Proc PROVE SleepOK(q)'
    <3>1. CASE q = p
      BY <3>1, <1>3, <1>7, <1>8, <1>10 DEF SleepOK
    <3>2. CASE q # p
      <4>1. loc[q].pc = "sleep" => loc[q].chan # Free
        <5>1. SleepOK(q)
          BY <1>2 DEF WakeInv
        <5>2. ~(Cardinality(free) < 3)
          BY SMTT(60), <1>1, <1>5
        <5>3. \A c : <<"lock", c>> # Free /\ <<"buf", c>> # Free
          BY DEF Free
        <5> QED BY <5>1, <5>2, <5>3 DEF SleepOK
      <4>2. \A c \in Buf : buf'[c].disk \/ buf'[c].disk = buf[c].disk
        BY <1>8, <1>10
      <4>3. loc'[q].pc = "sleep" => SleepStep(q)
        BY <4>1, <4>2, <3>2, <1>7, <1>11 DEF SleepStep, Slept
      <4> QED BY <4>3, <1>2, SleepKept DEF WakeInv
    <3> QED BY <3>1, <3>2
  <2> QED BY <2>1, <1>2, <1>6 DEF WakeInv
<1>33. panicked' = "no"
  BY <1>6 DEF DiskInv
<1> QED BY <1>21, <1>22, <1>24, <1>25, <1>29, <1>30, <1>31, <1>32, <1>33 DEF DiskInv, CoreInv, RefInv

-----------------------------------------------------------------------------
(* The request is done: its descriptors are free again.                    *)
Follows(p) == IF ~loc[p].write THEN "have" ELSE IF loc[p].op = "install" THEN "unpin" ELSE "release"

LEMMA FinishMoves ==
  ASSUME TypeInv, NEW p \in Proc, NEW k \in {"have", "unpin", "release"},
         loc' = wakeup([loc EXCEPT ![p].write = FALSE, ![p].i = 0, ![p].pc = k], Free)
  PROVE  /\ loc' \in [Proc -> LocType] /\ Place(p)' = k /\ loc'[p].pc # "sleep"
         /\ \A q \in Proc \ {p} : Same(q) /\ Slept(q) /\ (loc'[q].pc = "sleep" => loc'[q].chan # Free)
         /\ loc'[p].op = loc[p].op /\ loc'[p].blk = loc[p].blk /\ loc'[p].b = loc[p].b /\ ~loc'[p].write
<1> USE Zenon
<1> DEFINE r1 == [loc[p] EXCEPT !.write = FALSE]
           r2 == [r1 EXCEPT !.i = 0]
           r3 == [r2 EXCEPT !.pc = k]
           m == [loc EXCEPT ![p].write = FALSE, ![p].i = 0, ![p].pc = k]
<1>1. loc \in [Proc -> LocType] /\ 0 \in Desc /\ k \in Places /\ k # "sleep" /\ Free \in Chans
  BY SMTT(60), Sizes DEF TypeInv, Desc, Places, Chans
<1>2. m = [loc EXCEPT ![p] = r3]
  BY <1>1
<1>3. r1 \in LocType /\ ~r1.write /\ r1.op = loc[p].op /\ r1.blk = loc[p].blk /\ r1.b = loc[p].b
  BY <1>1 DEF LocType
<1> HIDE DEF m, r1
<1>4. r2 \in LocType /\ r2.write = r1.write /\ r2.op = r1.op /\ r2.blk = r1.blk /\ r2.b = r1.b
  BY <1>1, <1>3 DEF LocType
<1> HIDE DEF r2
<1>5. r3 \in LocType /\ r3.write = r2.write /\ r3.op = r2.op /\ r3.blk = r2.blk /\ r3.b = r2.b /\ r3.pc = k
  BY <1>1, <1>4 DEF LocType
<1> HIDE DEF r3
<1>6. m \in [Proc -> LocType] /\ m[p] = r3 /\ \A q \in Proc \ {p} : m[q] = loc[q]
  BY <1>1, <1>2, <1>5
<1>7. loc' = wakeup(m, Free)
  BY DEF m
<1>8. /\ loc' \in [Proc -> LocType]
      /\ \A q \in Proc \ {p} : Same(q) /\ Slept(q) /\ (loc'[q].pc = "sleep" => loc'[q].chan # Free)
      /\ Place(p)' = PlaceIn(m, p) /\ SameFields(loc'[p], m[p]) /\ (loc'[p].pc = "sleep" => m[p].pc = "sleep")
  BY <1>1, <1>6, <1>7, WokenIs
<1>9. PlaceIn(m, p) = k /\ loc'[p].pc # "sleep"
  BY <1>1, <1>5, <1>6, <1>8 DEF PlaceIn
<1> QED BY <1>3, <1>4, <1>5, <1>6, <1>8, <1>9 DEF SameFields

LEMMA FinishKept ==
  ASSUME DiskInv, NEW p \in Proc, Finish(p)
  PROVE  DiskInv'
<1> USE Zenon
<1>1. At(p, "wait") /\ "wait" \in Places \ {"idle"} /\ ~buf[loc[p].b].disk
  BY DEF Finish, Places
<1>2. /\ TypeInv /\ PlaceInv /\ RefInv /\ RingInv /\ ReqInv /\ DataInv /\ PinInv /\ WakeInv
      /\ loc \in [Proc -> LocType] /\ buf \in [Buf -> BufType] /\ Place(p) = "wait" /\ PlaceOK(p)
      /\ loc[p].b \in Buf /\ loc[p].blk \in Block /\ loc[p].op \in Ops /\ buf[loc[p].b].blockno = loc[p].blk
  BY <1>1, InCall
<1>3. PICK b \in Buf : b = loc[p].b
  BY <1>2
<1>4. p \in Waiting
  BY <1>2 DEF Waiting
<1>5. /\ ReqOK(p) /\ loc[p].i \in Desc /\ buf[b].lock = p /\ (buf[b].valid <=> loc[p].write) /\ BufOK(b)
  BY <1>2, <1>3, <1>4, RequestIs DEF PlaceInv
<1>6. PICK i \in Desc : i = loc[p].i
  BY <1>5
<1>7. i \notin Out /\ i \notin Done
  <2>1. i \notin Out \cup Done
    BY <1>1, <1>5, <1>6 DEF ReqOK
  <2> QED BY <2>1
<1>8. PICK C : C = Chain(i)
  OBVIOUS
<1>9. C \cap free = {} /\ C \subseteq Desc
  <2>1. C \cap free = {}
    BY <1>2, <1>4, <1>6, <1>8, ChainTaken
  <2>2. desc \in [Desc -> DescType]
    BY <1>2 DEF TypeInv
  <2> QED BY <2>1, <2>2, <1>8 DEF Chain, DescType
<1>10. /\ free' = free \cup C
       /\ desc' = [j \in Desc |-> IF j \in C THEN NoDesc ELSE desc[j]]
       /\ info' = [info EXCEPT ![i] = NoInfo] /\ ops' = [ops EXCEPT ![i] = NoOp]
       /\ buf' = [buf EXCEPT ![b].valid = IF loc[p].write THEN @ ELSE TRUE]
       /\ loc' = wakeup([loc EXCEPT ![p].write = FALSE, ![p].i = 0, ![p].pc = Follows(p)], Free)
       /\ UNCHANGED <<mru, avail, used, used_idx, vdisk_lock, device, pinned, content, panicked>>
  BY <1>3, <1>6, <1>8, <1>9 DEF Finish, Follows
<1>11. /\ mru' = mru /\ avail' = avail /\ used' = used /\ used_idx' = used_idx /\ vdisk_lock' = vdisk_lock
       /\ pinned' = pinned /\ content' = content /\ panicked' = panicked
       /\ platter' = platter /\ lastAvail' = lastAvail /\ inflight' = inflight /\ irq' = irq
       /\ UNCHANGED rings
  BY <1>10 DEF device, rings
<1>12. PICK k \in {"have", "unpin", "release"} : k = Follows(p)
  BY DEF Follows
<1>13. /\ loc' \in [Proc -> LocType] /\ Place(p)' = k /\ loc'[p].pc # "sleep"
       /\ \A q \in Proc \ {p} : Same(q) /\ Slept(q) /\ (loc'[q].pc = "sleep" => loc'[q].chan # Free)
       /\ loc'[p].op = loc[p].op /\ loc'[p].blk = loc[p].blk /\ loc'[p].b = loc[p].b /\ ~loc'[p].write
  BY <1>2, <1>10, <1>12, FinishMoves
<1>14. k \in Places /\ k \in Holds /\ k \notin InRw /\ k # "idle" /\ k # "wait"
  BY DEF Places, Holds, InRw
<1>15. k = "unpin" => loc[p].op = "install" /\ loc[p].write
  BY <1>12 DEF Follows
<1> DEFINE r == [buf[b] EXCEPT !.valid = TRUE]
<1>16. /\ r \in BufType /\ r.blockno = buf[b].blockno /\ r.valid = TRUE /\ r.disk = buf[b].disk
       /\ r.lock = buf[b].lock /\ r.data = buf[b].data /\ r.refcnt = buf[b].refcnt
  BY <1>2 DEF BufType
<1>17. buf' = [buf EXCEPT ![b] = r]
  <2> DEFINE v == IF loc[p].write THEN buf[b].valid ELSE TRUE
  <2>1. v = TRUE
    BY <1>2, <1>5 DEF BufType
  <2>2. buf' = [buf EXCEPT ![b].valid = v]
    BY <1>10
  <2> HIDE DEF v
  <2>3. buf' = [buf EXCEPT ![b].valid = TRUE]
    BY <2>1, <2>2
  <2> QED BY <2>3, <1>2
<1> HIDE DEF r
<1>18. buf' \in [Buf -> BufType] /\ buf'[b] = r /\ \A c \in Buf \ {b} : buf'[c] = buf[c]
  BY <1>2, <1>16, <1>17
<1>19. \A c \in Buf : /\ buf'[c].blockno = buf[c].blockno /\ buf'[c].disk = buf[c].disk
                      /\ buf'[c].refcnt = buf[c].refcnt /\ buf'[c].lock = buf[c].lock
                      /\ buf'[c].data = buf[c].data /\ (buf[c].valid => buf'[c].valid)
  BY <1>16, <1>18
<1>20. /\ desc' \in [Desc -> DescType] /\ \A d \in Desc \ C : desc'[d] = desc[d]
  <2>1. NoDesc \in DescType /\ desc \in [Desc -> DescType]
    BY SMTT(40), <1>2, Sizes DEF NoDesc, DescType, Desc, TypeInv
  <2> QED BY <2>1, <1>10
<1>21. /\ ops' \in [Desc -> OpType] /\ info' \in [Desc -> InfoType]
       /\ \A d \in Desc \ {i} : ops'[d] = ops[d] /\ info'[d] = info[d]
  <2>1. NoOp \in OpType /\ NoInfo \in InfoType /\ ops \in [Desc -> OpType] /\ info \in [Desc -> InfoType]
    BY <1>2 DEF NoOp, OpType, NoInfo, InfoType, TypeInv
  <2> QED BY <2>1, <1>10
<1>22. TypeInv'
  <2>1. free' \in SUBSET Desc
    BY <1>2, <1>9, <1>10 DEF TypeInv
  <2> QED BY <2>1, <1>2, <1>11, <1>13, <1>18, <1>20, <1>21 DEF TypeInv
<1>23. PlaceInv'
  <2>1. PlaceOK(p)'
    <3>1. buf'[b].lock = p /\ buf'[b].blockno = loc[p].blk /\ buf'[b].valid
      BY <1>2, <1>3, <1>5, <1>16, <1>18
    <3> QED BY <3>1, <1>2, <1>3, <1>13, <1>14, <1>15 DEF PlaceOK
  <2>2. BufOK(b)'
    <3>1. \A q \in Proc : buf'[b].lock = q => q = p
      BY <1>5, <1>19
    <3>2. \A q \in Proc : buf'[b].lock = q => Place(q)' \in Holds /\ loc'[q].b = b
      BY <3>1, <1>3, <1>13, <1>14
    <3>3. ~buf'[b].disk /\ buf'[b].blockno \in Block
      BY <1>1, <1>2, <1>3, <1>19
    <3>4. \A c \in Buf : b # c /\ buf'[b].blockno # NoBlock => buf'[b].blockno # buf'[c].blockno
      BY ZenonT(40), <1>5, <1>19 DEF BufOK
    <3> QED BY <3>2, <3>3, <3>4 DEF BufOK
  <2>3. \A c \in Buf \ {b} : SameBuf(c)
    BY <1>18 DEF SameBuf
  <2>4. buf[b].lock \in {p, NULL}
    BY <1>5
  <2>5. PlaceStep(p, b)
    BY <2>1, <2>2, <2>3, <2>4, <1>3, <1>13, <1>19 DEF PlaceStep
  <2> QED BY <2>5, <1>2, <1>22, PlaceKept
<1>24. ASSUME NEW c \in Buf PROVE RefOK(c)'
  <2>1. \A q \in Proc \ {p} : q \in Refs(c)' <=> q \in Refs(c)
    BY <1>13, RefsAre DEF Same, SameFields
  <2>2. p \in Refs(c)' <=> p \in Refs(c)
    <3>1. Place(p) # "idle" /\ Place(p)' # "idle"
      BY <1>2, <1>13, <1>14
    <3> QED BY <3>1, <1>13, RefsAre
  <2>3. SameRefs(c)
    BY <2>1, <2>2, <1>11, <1>19 DEF SameRefs
  <2> QED BY <2>3, <1>2, RefKept DEF RefInv
<1>25. RingInv' /\ Out' = Out /\ Done' = Done
  BY <1>2, <1>11, RingsKept
<1>26. Waiting' = Waiting \ {p}
  <2>1. \A q \in Proc \ {p} : Place(q)' = Place(q)
    BY <1>13 DEF Same
  <2> QED BY <2>1, <1>13, <1>14 DEF Waiting
<1>27. ASSUME NEW q \in Waiting \ {p}
       PROVE  /\ q \in Proc /\ Same(q) /\ loc'[q].i = loc[q].i /\ loc[q].b \in Buf
              /\ ReqOK(q)' /\ (Chain(loc[q].i))' = Chain(loc[q].i)
  <2>1. q \in Proc /\ loc[q].b \in Buf /\ loc[q].i \in Desc
    BY <1>2, RequestIs
  <2>2. Chain(loc[q].i) \cap free = {} /\ Chain(loc[q].i) \cap C = {} /\ loc[q].i \in Chain(loc[q].i)
    BY <1>2, <1>4, <1>6, <1>8, ChainTaken DEF ReqInv
  <2>3. loc[q].i # i
    BY <1>2, <1>4, <1>6, OwnRequest
  <2>4. ASSUME NEW d \in Chain(loc[q].i) PROVE d \notin free' /\ desc'[d] = desc[d]
    <3>1. d \notin free /\ d \notin C
      BY <2>2
    <3>2. d \in Desc
      <4>1. desc \in [Desc -> DescType]
        BY <1>2 DEF TypeInv
      <4> QED BY <4>1, <2>1 DEF Chain, DescType
    <3> QED BY ZenonT(40), <3>1, <3>2, <1>10, <1>20
  <2>5. Same(q)
    BY <2>1, <1>13
  <2>6. ReqStays(q)
    BY <2>1, <2>3, <2>4, <2>5, <1>19, <1>21, <1>25 DEF ReqStays
  <2>7. ReqOK(q)' /\ (Chain(loc[q].i))' = Chain(loc[q].i)
    BY <2>6, <1>2, ReqStaysOK
  <2> QED BY <2>1, <2>5, <2>7 DEF Same, SameFields
<1>28. ReqInv'
  <2>1. \A q \in Waiting' : ReqOK(q)'
    BY <1>26, <1>27
  <2>2. ASSUME NEW s \in Waiting', NEW q \in Waiting', s # q PROVE (Chain(loc[s].i) \cap Chain(loc[q].i))' = {}
    <3>1. Chain(loc[s].i) \cap Chain(loc[q].i) = {}
      BY <2>2, <1>2, <1>26 DEF ReqInv
    <3>2. (Chain(loc[s].i))' = Chain(loc[s].i) /\ (Chain(loc[q].i))' = Chain(loc[q].i)
      BY <1>26, <1>27
    <3> QED BY <3>1, <3>2
  <2>3. ASSUME NEW d \in Out' \cup Done' PROVE \E q \in Waiting' : loc'[q].i = d
    <3>1. d \in Out \cup Done /\ d # i
      BY <1>7, <1>25
    <3>2. PICK q \in Waiting : loc[q].i = d
      BY <3>1, <1>2 DEF ReqInv
    <3>3. q \in Waiting \ {p}
      BY <3>1, <3>2, <1>6
    <3> QED BY <3>2, <3>3, <1>26, <1>27
  <2> QED BY <2>1, <2>2, <2>3 DEF ReqInv
<1>29. IF loc[p].write THEN OnDisk(loc[p].blk) ELSE buf[b].data = content[loc[p].blk]
  BY <1>2, <1>3, <1>4, <1>6, <1>7 DEF DataInv
<1>30. DataInv'
  <2>1. ASSUME NEW c \in Buf, buf'[c].valid PROVE buf'[c].data = content'[buf'[c].blockno]
    <3>1. buf[c].valid => buf[c].data = content[buf[c].blockno]
      BY <1>2 DEF DataInv
    <3>2. CASE c # b
      BY <3>1, <3>2, <2>1, <1>11, <1>18
    <3>3. CASE c = b
      <4>1. buf[b].data = content[buf[b].blockno]
        BY <3>1, <3>3, <1>2, <1>3, <1>5, <1>29
      <4> QED BY <3>3, <4>1, <1>11, <1>19
    <3> QED BY <3>2, <3>3
  <2>2. \A x : OnDisk(x)' <=> OnDisk(x)
    BY <1>11 DEF OnDisk
  <2>3. ASSUME NEW q \in Proc, Dirty(q) PROVE Dirty(q)' /\ loc'[q].blk = loc[q].blk
    <3>1. q # p
      BY <2>3, <1>2, <1>6, <1>7 DEF Dirty
    <3>2. Place(q)' = Place(q) /\ loc'[q].i = loc[q].i /\ loc'[q].write = loc[q].write /\ loc'[q].blk = loc[q].blk
      BY <3>1, <1>13 DEF Same, SameFields
    <3> QED BY <3>2, <2>3, <1>25 DEF Dirty
  <2>4. ASSUME NEW x \in Block \ pinned', \A q \in Proc : loc'[q].blk = x => ~Dirty(q)' PROVE OnDisk(x)'
    <3>1. \A q \in Proc : loc[q].blk = x => ~Dirty(q)
      BY <2>3, <2>4
    <3> QED BY <3>1, <2>2, <1>2, <1>11 DEF DataInv
  <2>5. ASSUME NEW q \in Proc, Place(q)' = "unpin" PROVE OnDisk(loc[q].blk)'
    <3>1. OnDisk(loc[q].blk) /\ loc'[q].blk = loc[q].blk
      <4>1. CASE q = p
        BY <4>1, <2>5, <1>13, <1>15, <1>29
      <4>2. CASE q # p
        BY <4>2, <2>5, <1>2, <1>13 DEF Same, SameFields, DataInv
      <4> QED BY <4>1, <4>2
    <3> QED BY <3>1, <1>11 DEF OnDisk
  <2>6. ASSUME NEW q \in Waiting', loc'[q].i \notin Out'
        PROVE  IF loc'[q].write THEN OnDisk(loc[q].blk)' ELSE buf'[loc'[q].b].data = content'[loc'[q].blk]
    <3>1. q \in Waiting \ {p} /\ q \in Waiting
      BY <1>26
    <3>2. /\ loc'[q].i = loc[q].i /\ loc'[q].write = loc[q].write /\ loc'[q].blk = loc[q].blk /\ loc'[q].b = loc[q].b
          /\ loc[q].b \in Buf
      BY <3>1, <1>27 DEF Same, SameFields
    <3>3. IF loc[q].write THEN OnDisk(loc[q].blk) ELSE buf[loc[q].b].data = content[loc[q].blk]
      BY <3>1, <3>2, <2>6, <1>2, <1>25 DEF DataInv
    <3>4. CASE loc[q].write
      BY <3>2, <3>3, <3>4, <1>11 DEF OnDisk
    <3>5. CASE ~loc[q].write
      BY <3>2, <3>3, <3>5, <1>11, <1>19
    <3> QED BY <3>4, <3>5
  <2> QED BY <2>1, <2>4, <2>5, <2>6 DEF DataInv
<1>31. PinInv'
  <2>1. "wait" \in Early
    BY DEF Early
  <2>2. \A q \in Proc : /\ loc'[q].op = loc[q].op /\ loc'[q].blk = loc[q].blk
                        /\ Place(q)' \in Early => Place(q) \in Early
    BY <2>1, <1>2, <1>13 DEF Same, SameFields
  <2>3. PinStep
    BY <2>2, <1>11, <1>19 DEF PinStep
  <2> QED BY <2>3, <1>2, PinKept
<1>32. WakeInv'
  <2>1. ASSUME NEW q \in Proc PROVE SleepOK(q)'
    <3>1. CASE q = p
      BY <3>1, <1>13 DEF SleepOK
    <3>2. CASE q # p
      <4>1. loc'[q].pc = "sleep" => SleepStep(q)
        BY <3>2, <1>13, <1>19 DEF SleepStep
      <4> QED BY <4>1, <1>2, SleepKept DEF WakeInv
    <3> QED BY <3>1, <3>2
  <2> QED BY <2>1, <1>2, <1>11 DEF WakeInv
<1>33. panicked' = "no"
  BY <1>11 DEF DiskInv
<1> QED BY <1>22, <1>23, <1>24, <1>25, <1>28, <1>30, <1>31, <1>32, <1>33 DEF DiskInv, CoreInv, RefInv

-----------------------------------------------------------------------------
(* The invariant holds at the start, and every step keeps it.              *)
LEMMA InitType ==
  ASSUME Init
  PROVE  TypeInv
<1>1. Zero \in Data
  BY CacheAssumption DEF Zero
<1>2. START \in Index /\ 0 \in Desc
  BY SMTT(40), RingAssumption, Sizes DEF Index, Desc
<1>3. buf \in [Buf -> BufType]
  <2>1. [blockno |-> NoBlock, valid |-> FALSE, disk |-> FALSE, refcnt |-> 0, lock |-> NULL, data |-> Zero] \in BufType
    BY SMTT(40), <1>1 DEF BufType
  <2> QED BY <2>1 DEF Init
<1>4. mru \in [Buf -> Buf]
  BY CacheAssumption DEF Init, Buf
<1>5. desc \in [Desc -> DescType] /\ ops \in [Desc -> OpType] /\ info \in [Desc -> InfoType]
  <2>1. NoDesc \in DescType /\ NoOp \in OpType /\ NoInfo \in InfoType
    BY <1>2 DEF NoDesc, DescType, NoOp, OpType, NoInfo, InfoType
  <2> QED BY <2>1 DEF Init
<1>6. avail \in RingType /\ used \in RingType
  BY <1>2 DEF Init, RingType
<1>7. free \in SUBSET Desc /\ inflight \in SUBSET Desc /\ pinned \in SUBSET Block
  BY DEF Init
<1>8. platter \in [Block -> Data] /\ content \in [Block -> Data]
  BY <1>1 DEF Init
<1>9. loc \in [Proc -> LocType]
  BY IdleType DEF Init
<1>10. used_idx \in Index /\ lastAvail \in Index
  BY <1>2 DEF Init
<1> QED BY Zenon, <1>3, <1>4, <1>5, <1>6, <1>7, <1>8, <1>9, <1>10 DEF TypeInv

LEMMA InitKept ==
  ASSUME Init
  PROVE  DiskInv
<1>1. TypeInv
  BY Zenon, InitType
<1>2. ASSUME NEW p \in Proc
      PROVE  /\ loc[p] = Idle /\ Place(p) = "idle" /\ loc[p].pc = "idle" /\ loc[p].op = "none" /\ ~loc[p].write
             /\ loc[p].b = 0
  <2>1. loc[p] = Idle
    BY DEF Init
  <2>2. loc[p].pc = "idle" /\ loc[p].op = "none" /\ ~loc[p].write /\ loc[p].b = 0
    BY <2>1 DEF Idle
  <2>3. Place(p) = "idle"
    BY Zenon, <2>2, Awake
  <2> QED BY Zenon, <2>1, <2>2, <2>3
<1>3. ASSUME NEW b \in Buf
      PROVE  /\ buf[b].blockno = NoBlock /\ ~buf[b].valid /\ ~buf[b].disk /\ buf[b].refcnt = 0
             /\ buf[b].lock = NULL
  BY DEF Init
<1>4. PlaceInv
  <2>1. ASSUME NEW p \in Proc PROVE PlaceOK(p)
    BY <1>2 DEF PlaceOK, Places, Holds, InRw
  <2>2. ASSUME NEW b \in Buf PROVE BufOK(b)
    BY Zenon, <1>3, CacheAssumption DEF BufOK
  <2> QED BY Zenon, <2>1, <2>2 DEF PlaceInv
<1>5. RefInv
  <2>1. ASSUME NEW b \in Buf PROVE RefOK(b)
    <3>1. Refs(b) = {}
      BY Zenon, <1>2 DEF Refs
    <3>2. Cardinality(Refs(b)) = 0
      BY Zenon, <3>1, FS_EmptySet
    <3>3. buf[b].blockno \notin pinned
      BY DEF Init
    <3> QED BY <3>2, <3>3, <1>3 DEF RefOK
  <2> QED BY Zenon, <2>1 DEF RefInv
<1>6. Offered = {} /\ Done = {} /\ Out = {} /\ RingInv
  <2>1. /\ avail.idx = lastAvail /\ used.idx = used_idx /\ inflight = {}
    BY DEF Init
  <2>2. lastAvail \in Index /\ used_idx \in Index
    BY Zenon, <1>1 DEF TypeInv
  <2>3. Offered = {} /\ Done = {}
    BY Zenon, <2>1, <2>2, RingEmpty DEF Offered, Done
  <2>4. Pending(lastAvail, avail.idx) = 0 /\ Pending(used_idx, used.idx) = 0
    BY Zenon, <2>1, <2>2, PendingSteps
  <2>5. RingOK(avail.ring, lastAvail, avail.idx) /\ RingOK(used.ring, used_idx, used.idx)
    BY <2>4, Sizes DEF RingOK
  <2>6. Out = {}
    BY <2>1, <2>3 DEF Out
  <2>7. Offered \cap inflight = {} /\ Out \cap Done = {}
    BY <2>1, <2>6
  <2> QED BY Zenon, <2>3, <2>5, <2>6, <2>7 DEF RingInv
<1>7. Waiting = {}
  <2>1. "idle" # "wait"
    OBVIOUS
  <2> QED BY Zenon, <2>1, <1>2 DEF Waiting
<1>8. ReqInv
  <2>1. Out \cup Done = {}
    BY <1>6
  <2> QED BY Zenon, <2>1, <1>7 DEF ReqInv
<1>9. DataInv
  <2>1. \A x \in Block : OnDisk(x)
    BY DEF Init, OnDisk
  <2>2. "idle" # "unpin"
    OBVIOUS
  <2> QED BY Zenon, <2>1, <2>2, <1>2, <1>3, <1>7 DEF DataInv
<1>10. PinInv
  <2>1. pinned = {}
    BY DEF Init
  <2>2. "none" # "install"
    OBVIOUS
  <2> QED BY Zenon, <2>1, <2>2, <1>2 DEF PinInv
<1>11. WakeInv
  <2>1. "idle" # "sleep" /\ used_idx = used.idx
    BY DEF Init
  <2> QED BY Zenon, <2>1, <1>2 DEF WakeInv, SleepOK
<1>12. panicked = "no"
  BY DEF Init
<1> QED BY Zenon, <1>1, <1>4, <1>5, <1>6, <1>8, <1>9, <1>10, <1>11, <1>12 DEF DiskInv, CoreInv

LEMMA StutterKept ==
  ASSUME DiskInv, UNCHANGED vars
  PROVE  DiskInv'
<1> USE Zenon
<1>1. CoreInv /\ TypeInv /\ WakeInv /\ panicked = "no"
  BY DEF DiskInv, CoreInv
<1>2. /\ UNCHANGED <<buf, mru, free, desc, ops, info, platter, content, pinned>> /\ UNCHANGED rings
      /\ buf' = buf /\ free' = free /\ used' = used /\ used_idx' = used_idx /\ loc' = loc /\ panicked' = panicked
      /\ irq' = irq /\ vdisk_lock' = vdisk_lock
  BY DEF vars, disk, device, rings
<1>3. loc' \in [Proc -> LocType] /\ \A q \in Proc : Same(q)
  BY <1>1, <1>2, UnchangedSame DEF TypeInv
<1>4. CoreInv'
  <2>1. Quiet
    BY <1>2, <1>3 DEF Quiet
  <2> QED BY <2>1, <1>1, QuietKept
<1>5. WakeInv'
  BY <1>1, <1>2 DEF WakeInv, SleepOK
<1> QED BY <1>1, <1>2, <1>4, <1>5 DEF DiskInv

LEMMA NextKept ==
  ASSUME DiskInv, [Next]_vars
  PROVE  DiskInv'
<1> USE Zenon
<1>1. CASE UNCHANGED vars
  BY <1>1, StutterKept
<1>2. CASE Handler
  BY <1>2, AcknowledgeKept, IntrKept DEF Handler
<1>3. CASE Device
  BY <1>3, FetchKept, DoneKept DEF Device
<1>4. ASSUME NEW p \in Proc, Call(p) PROVE DiskInv'
  BY <1>4, CallKept
<1>5. ASSUME NEW p \in Proc, Work(p) PROVE DiskInv'
  BY <1>5, AcquireKept, UseKept, UnpinKept, ReleaseKept, PutKept, NoDescriptorsKept, RwKept,
     WaitDoneKept, FinishKept DEF Work
<1> QED BY <1>1, <1>2, <1>3, <1>4, <1>5 DEF Next

(* The inductive invariant of the cache, the driver and the device: types, *)
(* places and locks, reference counts, the two rings, the chain of every   *)
(* request, the data, the log's pins, and what sleepers wait for.          *)
THEOREM DiskInvariant == Spec => []DiskInv
<1> USE Zenon
<1>1. Init => DiskInv
  BY InitKept
<1>2. DiskInv /\ [Next]_vars => DiskInv'
  BY NextKept
<1> QED BY <1>1, <1>2, PTL DEF Spec

(* bio.c keeps one copy of a block and bread() returns what was last       *)
(* stored in it; a buffer that bget() may recycle has nothing the disk     *)
(* lacks.                                                                  *)
THEOREM CacheCoherence == Spec => []CacheCoherent
<1> USE Zenon
<1>1. DiskInv => CacheCoherent
  <2> SUFFICES ASSUME DiskInv PROVE CacheCoherent
    OBVIOUS
  <2>1. /\ TypeInv /\ PlaceInv /\ RefInv /\ RingInv /\ ReqInv /\ DataInv /\ PinInv
    BY DEF DiskInv, CoreInv
  <2>2. \A b, c \in Buf : b # c /\ buf[b].blockno # NoBlock => buf[b].blockno # buf[c].blockno
    BY <2>1 DEF PlaceInv, BufOK
  <2>3. ASSUME NEW p \in Proc, At(p, "have")
        PROVE  /\ holdingsleep(p) /\ buf[loc[p].b].blockno = loc[p].blk
               /\ buf[loc[p].b].data = content[loc[p].blk]
    <3>1. Place(p) = "have" /\ PlaceOK(p)
      BY <2>1, <2>3, Awake DEF At, PlaceInv
    <3>2. /\ loc[p].b \in Buf /\ buf[loc[p].b].blockno = loc[p].blk /\ buf[loc[p].b].lock = p
          /\ buf[loc[p].b].valid
      BY <3>1 DEF PlaceOK, Holds, InRw
    <3> QED BY <3>2, <2>1 DEF DataInv, holdingsleep
  <2>4. ASSUME NEW b \in Buf, buf[b].refcnt = 0, buf[b].valid PROVE buf[b].data = platter[buf[b].blockno]
    <3>1. Refs(b) = {} /\ buf[b].blockno \notin pinned /\ BufOK(b)
      BY <2>1, <2>4, UnusedIs DEF RefInv, PlaceInv
    <3>2. PICK x \in Block : x = buf[b].blockno
      BY <2>4, <3>1 DEF BufOK
    <3>3. ASSUME NEW p \in Proc, loc[p].blk = x, Dirty(p) PROVE FALSE
      <4>1. loc[p].write /\ PlaceOK(p)
        BY <3>3, <2>1 DEF Dirty, PlaceInv
      <4>2. Place(p) # "idle"
        BY <4>1 DEF PlaceOK, InRw
      <4>3. loc[p].b \in Buf /\ buf[loc[p].b].blockno = x
        BY <3>3, <4>1, <4>2 DEF PlaceOK
      <4>4. x # NoBlock
        BY CacheAssumption DEF NoBlock
      <4>5. loc[p].b = b
        BY <2>2, <3>2, <4>3, <4>4
      <4> QED BY <3>1, <4>2, <4>5 DEF Refs
    <3>4. OnDisk(x)
      BY <2>1, <3>1, <3>2, <3>3 DEF DataInv
    <3> QED BY <2>1, <2>4, <3>2, <3>4 DEF DataInv, OnDisk
  <2> QED BY <2>2, <2>3, <2>4 DEF CacheCoherent
<1> QED BY <1>1, DiskInvariant, PTL

(* The device touches only the chains that virtio_disk_rw() gave it: they  *)
(* are allocated, apart, and each belongs to a process that waits with the *)
(* buffer locked; and bio.c and virtio_disk.c reach none of their panics.  *)
THEOREM DmaSafety == Spec => []DmaSafe
<1> USE Zenon
<1>1. DiskInv => DmaSafe
  <2> SUFFICES ASSUME DiskInv PROVE DmaSafe
    BY SMTT(60)
  <2>1. /\ TypeInv /\ PlaceInv /\ RingInv /\ ReqInv /\ panicked = "no"
    BY DEF DiskInv, CoreInv
  <2>2. Given \subseteq Out
    <3>1. lastAvail \in Index /\ avail.idx \in Index
      BY <2>1 DEF TypeInv, RingType
    <3>2. PICK P \in Int : P = Pending(lastAvail, avail.idx)
      BY SMTT(60), <3>1, PendingIs DEF Index
    <3>3. ASSUME NEW i \in Given PROVE i \in Out
      <4>1. CASE i \in inflight
        BY <4>1 DEF Out
      <4>2. CASE i \notin inflight
        <5>1. PICK n \in 0..(NUM - 1) : n < P /\ i = avail.ring[(lastAvail + n) % NUM]
          BY <3>2, <4>2 DEF Given, Pending
        <5>2. n \in 0..(P - 1)
          BY SMTT(60), <5>1
        <5> QED BY <3>2, <5>1, <5>2 DEF Out, Offered, Items, Entry
      <4> QED BY <4>1, <4>2
    <3> QED BY <3>3
  <2>3. ASSUME NEW i \in Given
        PROVE  \E p \in Waiting : loc[p].i = i /\ i \in Out
    <3>1. i \in Out /\ i \in Out \cup Done
      BY <2>2
    <3> QED BY <2>1, <3>1 DEF ReqInv
  <2>4. ASSUME NEW i \in Given
        PROVE  /\ Chain(i) \cap free = {} /\ Cardinality(Chain(i)) = 3
               /\ \E p \in Proc : /\ loc[p].i = i /\ loc[p].pc \in {"wait", "sleep"}
                                  /\ info[i].b = loc[p].b /\ desc[desc[i].next].addr = loc[p].b
                                  /\ buf[loc[p].b].lock = p /\ buf[loc[p].b].disk
    <3>1. PICK p \in Waiting : loc[p].i = i /\ i \in Out
      BY <2>3
    <3>2. Chain(i) \cap free = {}
      BY <2>1, <3>1, ChainTaken
    <3>3. PICK j : j = desc[i].next
      OBVIOUS
    <3>4. PICK k : k = desc[j].next
      OBVIOUS
    <3>5. ChainOK(p, i, j, k) /\ ReqOK(p)
      BY <2>1, <3>1, <3>3, <3>4 DEF ReqInv, ReqOK
    <3>6. Chain(i) = {i, j, k} /\ desc[j].addr = loc[p].b
      BY SMTT(60), <3>5, ChainIs
    <3>7. i # j /\ i # k /\ j # k /\ info[i].b = loc[p].b
      BY <3>5 DEF ChainOK
    <3>8. Cardinality(Chain(i)) = 3
      <4>1. IsFiniteSet({i}) /\ Cardinality({i}) = 1
        BY FS_Singleton
      <4>2. IsFiniteSet({i} \cup {j}) /\ Cardinality({i} \cup {j}) = 1 + 1
        <5>1. j \notin {i}
          BY <3>7
        <5> QED BY <4>1, <5>1, FS_AddElement
      <4>3. Cardinality(({i} \cup {j}) \cup {k}) = (1 + 1) + 1
        <5>1. k \notin {i} \cup {j}
          BY <3>7
        <5> QED BY <4>2, <5>1, FS_AddElement
      <4>4. ({i} \cup {j}) \cup {k} = {i, j, k}
        OBVIOUS
      <4>5. Cardinality({i, j, k}) = (1 + 1) + 1
        BY <4>3, <4>4
      <4> QED BY SMTT(60), <4>5, <3>6
    <3>9. /\ p \in Proc /\ Place(p) = "wait" /\ buf[loc[p].b].lock = p
      BY <2>1, RequestIs
    <3>10. loc[p].pc \in {"wait", "sleep"}
      BY <3>9 DEF Place, PlaceIn
    <3>11. buf[loc[p].b].disk
      <4>1. loc[p].i \in Out \cup Done
        BY <3>1
      <4> QED BY <3>5, <4>1 DEF ReqOK
    <3> QED BY <3>1, <3>2, <3>3, <3>6, <3>7, <3>8, <3>9, <3>10, <3>11
  <2>5. ASSUME NEW i \in Given, NEW j \in Given, i # j PROVE Chain(i) \cap Chain(j) = {}
    <3>1. PICK p \in Waiting : loc[p].i = i
      BY <2>3
    <3>2. PICK q \in Waiting : loc[q].i = j
      BY <2>3
    <3>3. p # q
      BY <2>5, <3>1, <3>2
    <3>4. Chain(loc[p].i) \cap Chain(loc[q].i) = {}
      BY <2>1, <3>3 DEF ReqInv
    <3> QED BY <3>1, <3>2, <3>4
  <2> QED BY <2>1, <2>4, <2>5 DEF DmaSafe
<1> QED BY <1>1, DiskInvariant, PTL

(* Whoever sleeps in acquiresleep() or virtio_disk_rw() has something to   *)
(* wait for, and no completion goes without an interrupt or a handler that *)
(* looks at the used ring again.                                           *)
THEOREM NoWakeupLost == Spec => []NoLostWakeup
<1>1. DiskInv => NoLostWakeup
  <2> SUFFICES ASSUME DiskInv PROVE NoLostWakeup
    OBVIOUS
  <2>1. WakeInv
    BY Zenon DEF DiskInv
  <2>2. ASSUME NEW p \in Proc, loc[p].pc = "sleep"
        PROVE  CASE loc[p].chan[1] = "free" -> Cardinality(free) < 3
                 [] loc[p].chan[1] = "buf" -> buf[loc[p].b].disk
                 [] loc[p].chan[1] = "lock" -> buf[loc[p].b].lock # NULL
    <3>1. CASE loc[p].chan = Free /\ Cardinality(free) < 3
      <4>1. loc[p].chan[1] = "free"
        BY <3>1 DEF Free
      <4> QED BY <4>1, <3>1
    <3>2. CASE loc[p].chan = <<"lock", loc[p].b>> /\ buf[loc[p].b].lock # NULL
      <4>1. loc[p].chan[1] = "lock"
        BY <3>2
      <4> QED BY <4>1, <3>2
    <3>3. CASE loc[p].chan = <<"buf", loc[p].b>> /\ buf[loc[p].b].disk
      <4>1. loc[p].chan[1] = "buf"
        BY <3>3
      <4> QED BY <4>1, <3>3
    <3>4. SleepOK(p)
      BY Zenon, <2>1 DEF WakeInv
    <3> QED BY Zenon, <2>2, <3>1, <3>2, <3>3, <3>4 DEF SleepOK
  <2> QED BY Zenon, <2>1, <2>2 DEF WakeInv, NoLostWakeup
<1> QED BY <1>1, DiskInvariant, PTL

=============================================================================
