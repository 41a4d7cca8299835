----------------------------- MODULE FilesProofs -----------------------------
(***************************************************************************)
(* Proofs about Files, for any number of processes, files, pipes and       *)
(* bytes: pipes deliver in order although their counters wrap around, and  *)
(* writes through a shared file are not lost.  Both hold for all of Spec,  *)
(* in which the reference counts may be wrong.                             *)
(***************************************************************************)
EXTENDS Files, FiniteSetTheorems, WellFoundedInduction, TLAPS

(* The types of struct file that the calls here meet, a struct file and a    *)
(* struct pipe.                                                              *)
FileTypes == {"FD_NONE", "FD_PIPE", "FD_INODE"}
FileType == [ref : Int, type : FileTypes, pipe : Pipe \cup {NULL}, readable : BOOLEAN, writable : BOOLEAN, off : Nat]
PipeType == [used : BOOLEAN, data : [0..(PIPESIZE - 1) -> Nat], nread : Nat, nwrite : Nat,
             readopen : BOOLEAN, writeopen : BOOLEAN]
(* Where a process may be in its calls, and its locals there.                *)
Labels == {"unused", "user", "close", "last", "pipe", "exit", "read", "write", "sleep_r", "sleep_w", "mmap", "munmap",
           "fork", "forkmap", "embryo"}
AtType == [pc : Labels, todo : Seq(File), ff : FileType, f : File \cup {NULL}, n : Nat, ref : Int,
           np : Proc \cup {NULL}, exiting : BOOLEAN]

(* The types of the variables.                                               *)
TypeInv ==
  /\ file \in [File -> FileType] /\ ofile \in [Proc -> [Fd -> File \cup {NULL}]] /\ map \in [Proc -> File \cup {NULL}]
  /\ pipe \in [Pipe -> PipeType] /\ sent \in [Pipe -> Nat] /\ received \in [Pipe -> Nat]
  /\ data \in Seq(Proc) /\ wrote \in [Proc -> Nat] /\ opened \in BOOLEAN
  /\ at \in [Proc -> AtType]

(* The places in which a process works on the file f of its frame.           *)
OnFile == {"pipe", "read", "write", "sleep_r", "sleep_w", "mmap", "munmap", "fork", "forkmap"}
(* A struct file of type FD_PIPE has a pipe.                                 *)
OnPipe(e) == e.type = "FD_PIPE" => e.pipe \in Pipe
(* What a process needs at its place: fileclose() has a file to close, the   *)
(* other calls a file to work on, and the copy ff that fileclose() made of a *)
(* pipe's file names that pipe.                                              *)
AtOK(r) ==
  /\ OnPipe(r.ff) /\ (r.pc = "close" => r.todo # <<>>)
  /\ r.pc \in OnFile => r.f \in File

(* Files and frames of processes name the pipes and files they need.         *)
PlaceInv == (\A f \in File : OnPipe(file[f])) /\ (\A p \in Proc : AtOK(at[p]))

(* Pipe pi holds the bytes that were sent and not yet received, each at its  *)
(* place modulo PIPESIZE, and nread and nwrite are the totals modulo the     *)
(* width of uint.  A free pipe has no bytes and no open end.                 *)
Buffered(pi) ==
  /\ pipe[pi].nread = received[pi] % UINT /\ pipe[pi].nwrite = sent[pi] % UINT
  /\ received[pi] <= sent[pi] /\ sent[pi] <= received[pi] + PIPESIZE
  /\ \A m \in (received[pi] + 1)..sent[pi] : pipe[pi].data[(m - 1) % PIPESIZE] = m
  /\ ~pipe[pi].used => sent[pi] = 0 /\ received[pi] = 0 /\ ~pipe[pi].readopen /\ ~pipe[pi].writeopen

(* At most one struct file is open on the inode, at the end of it: a write   *)
(* through any descriptor appends, because all descriptors share that file's *)
(* offset.                                                                   *)
InodeInv ==
  /\ ~opened => data = <<>> /\ \A f \in File : file[f].type # "FD_INODE"
  /\ \A f, g \in File : file[f].type = "FD_INODE" /\ file[g].type = "FD_INODE" => f = g
  /\ \A f \in File : file[f].type = "FD_INODE" => file[f].off = Len(data)

(* The inductive invariant.  Neither theorem below is inductive alone: order *)
(* in the buffer needs the counters, and that no write is lost needs the     *)
(* shared offset.                                                            *)
FilesInv == TypeInv /\ PlaceInv /\ (\A pi \in Pipe : Buffered(pi)) /\ InodeInv /\ SharedWritesKept

-----------------------------------------------------------------------------
(* Arithmetic modulo d, in the forms that the buffer's indices need: what %  *)
(* computes.                                                                 *)
LEMMA ModDef ==
  ASSUME NEW a \in Int, NEW d \in Nat \ {0}
  PROVE  a % d \in 0..(d-1) /\ a = d * (a \div d) + (a % d) /\ a \div d \in Int
OBVIOUS

(* Multiples of d are at least d apart.                                      *)
LEMMA MulStep ==
  ASSUME NEW d \in Nat \ {0}, NEW q \in Int, NEW r \in Int, q < r
  PROVE  d * q + d <= d * r
OBVIOUS

(* Quotient and remainder are unique.                                        *)
LEMMA ModUnique ==
  ASSUME NEW d \in Nat \ {0}, NEW q \in Int, NEW r \in 0..(d-1)
  PROVE  (d * q + r) % d = r
<1> DEFINE a == d * q + r
           k == a \div d
           s == a % d
<1>1. a \in Int /\ r \in Int /\ d \in Int
  OBVIOUS
<1> HIDE DEF a
<1>2. s \in 0..(d-1) /\ a = d * k + s /\ k \in Int
  BY <1>1, ModDef
<1> HIDE DEF k, s
<1>3. ~(q < k)
  BY <1>2, MulStep DEF a
<1>4. ~(k < q)
  BY <1>2, MulStep DEF a
<1>5. k = q
  BY <1>2, <1>3, <1>4
<1>6. s = r
  BY <1>2, <1>5 DEF a
<1> QED BY <1>6 DEF s, a

(* A summand may be reduced first.                                           *)
LEMMA ModAdd ==
  ASSUME NEW d \in Nat \ {0}, NEW a \in Int, NEW b \in Int
  PROVE  ((a % d) + b) % d = (a + b) % d
<1> DEFINE q == a \div d
           r == a % d
<1>1. r \in 0..(d-1) /\ a = d * q + r /\ q \in Int
  BY ModDef
<1> HIDE DEF q, r
<1> DEFINE c == r + b
           k == c \div d
           s == c % d
<1>2. c \in Int
  BY <1>1
<1>3. s \in 0..(d-1) /\ c = d * k + s /\ k \in Int
  BY Zenon, <1>2, ModDef
<1> HIDE DEF k, s
<1>4. a + b = d * (q + k) + s /\ q + k \in Int
  BY <1>1, <1>3
<1>5. (a + b) % d = s
  BY Zenon, <1>3, <1>4, ModUnique
<1> QED BY <1>5 DEF s, r

(* Reducing modulo a multiple of d first does not change the remainder.      *)
LEMMA ModMod ==
  ASSUME NEW d \in Nat \ {0}, NEW u \in Nat \ {0}, u % d = 0, NEW a \in Int
  PROVE  (a % u) % d = a % d
<1> DEFINE e == u \div d
           q == a \div u
           r == a % u
           k == r \div d
           s == r % d
<1>1. u = d * e /\ e \in Int
  BY ModDef
<1>2. r \in 0..(u-1) /\ a = u * q + r /\ q \in Int /\ r \in Int
  BY ModDef
<1>3. s \in 0..(d-1) /\ r = d * k + s /\ k \in Int
  BY <1>2, ModDef
<1> HIDE DEF e, q, r, k, s
<1>4. a = d * (e * q + k) + s /\ e * q + k \in Int
  BY <1>1, <1>2, <1>3
<1>5. a % d = s
  BY Zenon, <1>3, <1>4, ModUnique
<1> QED BY <1>5 DEF s, r

(* A number below d is its own remainder.                                    *)
LEMMA ModSmall ==
  ASSUME NEW d \in Nat \ {0}, NEW r \in 0..(d-1)
  PROVE  r % d = r
<1>1. r = d * 0 + r
  OBVIOUS
<1> QED BY <1>1, ModUnique

(* Two different numbers less than d apart have different remainders: bytes  *)
(* that are in the buffer together do not share a slot.                      *)
LEMMA ModNear ==
  ASSUME NEW d \in Nat \ {0}, NEW a \in Int, NEW b \in Int, a % d = b % d, a <= b, b < a + d
  PROVE  a = b
<1> DEFINE q == a \div d
           k == b \div d
           r == a % d
<1>1. r \in 0..(d-1) /\ a = d * q + r /\ q \in Int
  BY ModDef
<1>2. b = d * k + r /\ k \in Int
  BY ModDef
<1> HIDE DEF q, k, r
<1>3. ~(q < k) /\ ~(k < q)
  BY <1>1, <1>2, MulStep
<1> QED BY <1>1, <1>2, <1>3

(* The difference of two reduced counters is the difference of the counters, *)
(* if that is less than d: nwrite - nread survives wrap-around.              *)
LEMMA ModDiff ==
  ASSUME NEW d \in Nat \ {0}, NEW a \in Int, NEW b \in Int, a - b \in 0..(d-1)
  PROVE  ((a % d) - (b % d)) % d = a - b
<1> DEFINE k == b \div d
           r == b % d
<1>1. r \in 0..(d-1) /\ b = d * k + r /\ k \in Int
  BY ModDef
<1> HIDE DEF k, r
<1> DEFINE c == 0 - r
<1>2. c \in Int /\ a % d \in Int
  BY <1>1, ModDef
<1> HIDE DEF c
<1>3. ((a % d) + c) % d = (a + c) % d
  BY Zenon, <1>2, ModAdd
<1>4. a + c = d * k + (a - b) /\ (a % d) + c = (a % d) - r
  BY <1>1, <1>2 DEF c
<1>5. (a + c) % d = a - b
  BY Zenon, <1>1, <1>4, ModUnique
<1> QED BY <1>3, <1>4, <1>5 DEF r

-----------------------------------------------------------------------------
(* The first element of a set of numbers, as the scans of filealloc() and    *)
(* fdalloc() find it.                                                        *)
LEMMA LeastOf ==
  ASSUME NEW S \in SUBSET Nat, S # {}
  PROVE  Least(S) \in S
<1> DEFINE R == OpToRel(<, Nat)
<1>1. IsWellFoundedOn(R, Nat)
  BY NatLessThanWellFounded, Zenon
<1>2. \A x, y \in Nat : x < y => <<x, y>> \in R
  BY DEF OpToRel
<1> HIDE DEF R
<1>3. PICK x \in S : \A y \in S : ~(<<y, x>> \in R)
  BY <1>1, WFMin, Zenon
<1>4. \A y \in S : ~(y < x)
  BY <1>2, <1>3, Zenon
<1>5. \A y \in S : x <= y
  BY <1>4
<1> QED BY Zenon, <1>5 DEF Least

(* The sizes of the buffer and of its counters.                              *)
LEMMA Bounds == UINT \in Nat \ {0} /\ PIPESIZE \in Nat \ {0} /\ UINT % PIPESIZE = 0 /\ PIPESIZE < UINT
BY FilesAssumption

(* nwrite - nread in unsigned arithmetic is the number of bytes in the       *)
(* buffer.                                                                   *)
LEMMA CountIs ==
  ASSUME TypeInv, NEW pi \in Pipe, Buffered(pi)
  PROVE  Count(pi) = sent[pi] - received[pi] /\ Count(pi) \in 0..PIPESIZE
<1>1. sent[pi] \in Int /\ received[pi] \in Int /\ sent[pi] - received[pi] \in 0..(UINT - 1) /\ UINT \in Nat \ {0}
  BY FilesAssumption DEF TypeInv, Buffered
<1>2. ((sent[pi] % UINT) - (received[pi] % UINT)) % UINT = sent[pi] - received[pi]
  BY <1>1, ModDiff
<1>3. Count(pi) = sent[pi] - received[pi]
  BY <1>2 DEF Count, Buffered
<1> QED BY <1>3, FilesAssumption DEF TypeInv, Buffered

(* The slot of the byte j after a counter, also after the counter has        *)
(* wrapped around.                                                           *)
LEMMA IndexIs ==
  ASSUME NEW a \in Int, NEW j \in Int
  PROVE  Index((a % UINT) + j) = (a + j) % PIPESIZE
<1>0. a + j \in Int
  OBVIOUS
<1>1. ((a % UINT) + j) % UINT = (a + j) % UINT
  BY Bounds, ModAdd, Zenon
<1>2. ((a + j) % UINT) % PIPESIZE = (a + j) % PIPESIZE
  BY <1>0, Bounds, ModMod, Zenon
<1> QED BY <1>1, <1>2 DEF Index

(* An index modulo PIPESIZE is inside the buffer.                            *)
LEMMA SlotIn ==
  ASSUME NEW a \in Int
  PROVE  a % PIPESIZE \in 0..(PIPESIZE - 1)
BY ModDef, FilesAssumption

(* What k iterations of pipewrite()'s loop leave in the pipe: the bytes that *)
(* were there, the k new ones after them, and nwrite moved on by k.          *)
LEMMA PutIs ==
  ASSUME TypeInv, NEW pi \in Pipe, Buffered(pi), NEW k \in Nat, k <= Room(pi), NEW c, c = Put(pi, k)
  PROVE  /\ c \in PipeType /\ c.nwrite = (sent[pi] + k) % UINT /\ c.nread = pipe[pi].nread
         /\ c.used = pipe[pi].used /\ c.readopen = pipe[pi].readopen /\ c.writeopen = pipe[pi].writeopen
         /\ sent[pi] + k <= received[pi] + PIPESIZE
         /\ \A m \in (received[pi] + 1)..(sent[pi] + k) : c.data[(m - 1) % PIPESIZE] = m
<1> DEFINE s == sent[pi]
           r == received[pi]
           b == pipe[pi].data
           Latest(x) == {j \in 0..(k - 1) : Index(pipe[pi].nwrite + j) = x}
           nb == [x \in DOMAIN b |-> IF Latest(x) = {} THEN b[x] ELSE s + 1 + Greatest(Latest(x))]
<1>1. s \in Nat /\ r \in Nat /\ b \in [0..(PIPESIZE - 1) -> Nat] /\ r <= s /\ s + k <= r + PIPESIZE
  <2>1. s \in Nat /\ r \in Nat /\ b \in [0..(PIPESIZE - 1) -> Nat] /\ r <= s
    BY DEF TypeInv, PipeType, Buffered
  <2>2. k <= PIPESIZE - (s - r)
    BY CountIs DEF Room
  <2>3. PIPESIZE \in Nat
    BY Zenon, Bounds
  <2> HIDE DEF s, r, b, Latest, nb
  <2> QED BY <2>1, <2>2, <2>3
<1>2. pipe[pi].nwrite = s % UINT /\ (\A m \in (r + 1)..s : b[(m - 1) % PIPESIZE] = m)
  BY DEF Buffered
<1>3. pipe[pi] \in PipeType
  BY DEF TypeInv
<1>4. c = [pipe[pi] EXCEPT !.nwrite = (@ + k) % UINT, !.data = nb]
  BY <1>3, Zenon DEF Put
<1> HIDE DEF s, r, b
<1>5. \A x : Latest(x) = {j \in 0..(k - 1) : (s + j) % PIPESIZE = x}
  <2>1. \A j \in 0..(k - 1) : Index((s % UINT) + j) = (s + j) % PIPESIZE
    BY <1>1, IndexIs
  <2> QED BY <1>2, <2>1, Zenon
<1>6. ASSUME NEW j \in 0..(k - 1) PROVE Greatest(Latest((s + j) % PIPESIZE)) = j /\ j \in Latest((s + j) % PIPESIZE)
  <2>1. \A i \in 0..(k - 1) : (s + i) % PIPESIZE = (s + j) % PIPESIZE => i = j
    <3> SUFFICES ASSUME NEW i \in 0..(k - 1), (s + i) % PIPESIZE = (s + j) % PIPESIZE PROVE i = j
      OBVIOUS
    <3>1. s + i \in Int /\ s + j \in Int /\ s + j < s + i + PIPESIZE /\ s + i < s + j + PIPESIZE
      BY <1>1, Bounds
    <3>2. CASE s + i <= s + j
      <4>1. s + i = s + j
        BY <3>1, <3>2, Bounds, ModNear, Zenon
      <4> QED BY <1>1, <4>1
    <3>3. CASE s + j <= s + i
      <4>1. s + j = s + i
        BY <3>1, <3>3, Bounds, ModNear, Zenon
      <4> QED BY <1>1, <4>1
    <3> QED BY <3>1, <3>2, <3>3
  <2>2. Latest((s + j) % PIPESIZE) = {j}
    BY Zenon, <1>5, <2>1
  <2>3. Greatest({j}) = j
    BY DEF Greatest
  <2> QED BY <2>2, <2>3
<1> HIDE DEF Latest
<1>7. nb \in [0..(PIPESIZE - 1) -> Nat]
  <2> SUFFICES ASSUME NEW x \in 0..(PIPESIZE - 1), Latest(x) # {}
               PROVE  s + 1 + Greatest(Latest(x)) \in Nat
    BY <1>1
  <2>1. PICK j \in 0..(k - 1) : (s + j) % PIPESIZE = x
    BY <1>5
  <2>2. Greatest(Latest(x)) = j
    BY <1>6, <2>1
  <2> QED BY <1>1, <2>2
<1>8. \A m \in (r + 1)..(s + k) : nb[(m - 1) % PIPESIZE] = m
  <2> SUFFICES ASSUME NEW m \in (r + 1)..(s + k) PROVE nb[(m - 1) % PIPESIZE] = m
    OBVIOUS
  <2> DEFINE x == (m - 1) % PIPESIZE
  <2>1. x \in 0..(PIPESIZE - 1) /\ m - 1 \in Int /\ m \in Int
    <3>1. m - 1 \in Int /\ m \in Int
      BY <1>1
    <3> QED BY <3>1, SlotIn, Zenon
  <2>2. CASE m <= s
    <3>1. Latest(x) = {}
      <4> SUFFICES ASSUME NEW j \in 0..(k - 1), (s + j) % PIPESIZE = (m - 1) % PIPESIZE PROVE FALSE
        BY <1>5
      <4>1. m - 1 <= s + j /\ s + j < m - 1 + PIPESIZE /\ s + j \in Int /\ m - 1 # s + j
        BY <1>1, <2>2, FilesAssumption
      <4> QED BY Zenon, <2>1, <4>1, ModNear, FilesAssumption
    <3>2. b[x] = m
      BY <1>1, <1>2, <2>2
    <3> HIDE DEF x
    <3>3. nb[x] = m
      BY <1>1, <2>1, <3>1, <3>2
    <3> QED BY <3>3 DEF x
  <2>3. CASE m > s
    <3> DEFINE j == m - 1 - s
    <3>1. j \in 0..(k - 1) /\ s + j = m - 1
      BY <1>1, <2>3
    <3> HIDE DEF j
    <3>2. Greatest(Latest(x)) = j /\ Latest(x) # {}
      BY <1>6, <3>1
    <3> HIDE DEF x
    <3>3. nb[x] = s + 1 + j
      BY <1>1, <2>1, <3>2
    <3>4. s + 1 + j = m
      BY <1>1, <2>1 DEF j
    <3> QED BY <3>3, <3>4 DEF x
  <2> QED BY <1>1, <2>1, <2>2, <2>3
<1> HIDE DEF nb
<1>9. c.data = nb /\ c.nwrite = (pipe[pi].nwrite + k) % UINT /\ c.nread = pipe[pi].nread
      /\ c.used = pipe[pi].used /\ c.readopen = pipe[pi].readopen /\ c.writeopen = pipe[pi].writeopen
  BY <1>3, <1>4 DEF PipeType
<1>10. (pipe[pi].nwrite + k) % UINT = (s + k) % UINT /\ (s + k) % UINT \in Nat
  <2>1. s + k \in Int /\ s \in Int /\ k \in Int
    BY <1>1
  <2>2. ((s % UINT) + k) % UINT = (s + k) % UINT
    BY <2>1, Bounds, ModAdd, Zenon
  <2>3. (s + k) % UINT \in 0..(UINT - 1)
    BY <2>1, Bounds, ModDef, Zenon
  <2> QED BY <1>2, <2>2, <2>3, Bounds
<1>11. c \in PipeType
  BY <1>3, <1>4, <1>7, <1>10, ZenonT(40) DEF PipeType
<1> QED BY <1>1, <1>8, <1>9, <1>10, <1>11 DEF s, r

-----------------------------------------------------------------------------
(* The places and file types, for the provers.                               *)
LEMMA Words ==
  /\ "unused" \in Labels /\ "user" \in Labels /\ "close" \in Labels /\ "last" \in Labels /\ "pipe" \in Labels
  /\ "exit" \in Labels /\ "read" \in Labels /\ "write" \in Labels /\ "sleep_r" \in Labels /\ "sleep_w" \in Labels
  /\ "mmap" \in Labels /\ "munmap" \in Labels /\ "fork" \in Labels /\ "forkmap" \in Labels /\ "embryo" \in Labels
  /\ "FD_NONE" \in FileTypes /\ "FD_PIPE" \in FileTypes /\ "FD_INODE" \in FileTypes
BY DEF Labels, FileTypes

(* The initial values of files, pipes and frames are of their types.         *)
LEMMA Blank ==
  /\ NoFile \in FileType /\ NoFile.type = "FD_NONE" /\ NoFile.off = 0
  /\ NoPipe \in PipeType /\ NoPipe.nread = 0 /\ NoPipe.nwrite = 0 /\ ~NoPipe.used /\ ~NoPipe.readopen /\ ~NoPipe.writeopen
  /\ User \in AtType /\ AtOK(User) /\ Gone \in AtType /\ AtOK(Gone) /\ Embryo \in AtType /\ AtOK(Embryo)
<1>1. NoFile \in FileType /\ NoFile.type = "FD_NONE" /\ NoFile.off = 0
  BY Words DEF NoFile, FileType
<1>2. NoPipe \in PipeType /\ NoPipe.nread = 0 /\ NoPipe.nwrite = 0 /\ ~NoPipe.used /\ ~NoPipe.readopen /\ ~NoPipe.writeopen
  BY Bounds DEF NoPipe, PipeType
<1>3. User \in AtType /\ User.pc = "user" /\ User.ff = NoFile
  BY <1>1, Words DEF User, AtType
<1>4. Gone \in AtType /\ Gone.pc = "unused" /\ Gone.ff = NoFile
  BY <1>3, Words DEF Gone, AtType
<1>5. Embryo \in AtType /\ Embryo.pc = "embryo" /\ Embryo.ff = NoFile
  BY <1>3, Words DEF Embryo, AtType
<1> QED BY <1>1, <1>2, <1>3, <1>4, <1>5 DEF AtOK, OnPipe, OnFile

(* A step that does not touch the pipes keeps what they hold.                *)
LEMMA SamePipes ==
  ASSUME FilesInv, UNCHANGED pipes
  PROVE  /\ \A pi \in Pipe : Buffered(pi)'
         /\ pipe' \in [Pipe -> PipeType] /\ sent' \in [Pipe -> Nat] /\ received' \in [Pipe -> Nat]
BY DEF FilesInv, TypeInv, Buffered, pipes

(* A step that does not touch the inode, nor the offset of the file open on  *)
(* it, keeps its invariant.                                                  *)
LEMMA SameInode ==
  ASSUME FilesInv, UNCHANGED inode,
         \A f \in File : file'[f].type = "FD_INODE" => file[f].type = "FD_INODE" /\ file'[f].off = file[f].off
  PROVE  InodeInv' /\ SharedWritesKept' /\ data' \in Seq(Proc) /\ wrote' \in [Proc -> Nat] /\ opened' \in BOOLEAN
<1>1. data' = data /\ wrote' = wrote /\ opened' = opened
  BY DEF inode
<1>2. InodeInv'
  BY <1>1 DEF FilesInv, InodeInv
<1>3. SharedWritesKept'
  BY <1>1 DEF FilesInv, SharedWritesKept
<1> QED BY <1>1, <1>2, <1>3 DEF FilesInv, TypeInv

(* A process that moves to a legal place leaves all at legal places.         *)
LEMMA GotoOK ==
  ASSUME FilesInv, NEW p \in Proc, NEW r \in AtType, AtOK(r), Goto(p, r)
  PROVE  at' \in [Proc -> AtType] /\ \A q \in Proc : AtOK(at'[q])
<1>1. at' = [at EXCEPT ![p] = r] /\ at \in [Proc -> AtType] /\ \A q \in Proc : AtOK(at[q])
  BY DEF Goto, FilesInv, TypeInv, PlaceInv
<1>2. \A q \in Proc : at'[q] = IF q = p THEN r ELSE at[q]
  BY <1>1
<1> QED BY <1>1, <1>2

(* The same for two processes, the parent and the child of fork().           *)
LEMMA TwoMove ==
  ASSUME FilesInv, NEW x, NEW y, NEW r \in AtType, AtOK(r), NEW t \in AtType, AtOK(t),
         at' = [at EXCEPT ![x] = r, ![y] = t]
  PROVE  at' \in [Proc -> AtType] /\ \A q \in Proc : AtOK(at'[q])
<1>1. at \in [Proc -> AtType] /\ \A q \in Proc : AtOK(at[q])
  BY DEF FilesInv, TypeInv, PlaceInv
<1>2. at' \in [Proc -> AtType] /\ \A q \in Proc : at'[q] \in {at[q], r, t}
  BY <1>1, Zenon
<1> QED BY <1>1, <1>2

(* A change of one file's reference count changes nothing that the invariant *)
(* depends on.                                                               *)
LEMMA RefOnly ==
  ASSUME FilesInv, NEW f \in File, NEW n \in Int, file' = [file EXCEPT ![f].ref = n]
  PROVE  /\ file' \in [File -> FileType] /\ \A g \in File : OnPipe(file'[g])
         /\ \A g \in File : file'[g].type = file[g].type /\ file'[g].off = file[g].off
<1>1. file \in [File -> FileType] /\ file[f] \in FileType
  BY DEF FilesInv, TypeInv
<1>2. file' \in [File -> FileType]
  BY <1>1 DEF FileType
<1>3. \A g \in File : file'[g].type = file[g].type /\ file'[g].off = file[g].off /\ file'[g].pipe = file[g].pipe
  BY <1>1 DEF FileType
<1> QED BY <1>2, <1>3 DEF FilesInv, PlaceInv, OnPipe

(* filealloc() returns a file with count 0, and fdalloc() a free descriptor, *)
(* if there is one.                                                          *)
LEMMA SlotsIn ==
  ASSUME FilesInv, NEW p \in Proc
  PROVE  /\ FreeFiles # {} => Least(FreeFiles) \in File /\ file[Least(FreeFiles)].ref = 0
         /\ \A S \in SUBSET Fd : S # {} => Least(S) \in S
<1>1. File \subseteq Nat /\ Fd \subseteq Nat
  BY FilesAssumption DEF File, Fd
<1>2. FreeFiles \in SUBSET Nat
  BY Zenon, <1>1 DEF FreeFiles
<1>3. FreeFiles # {} => Least(FreeFiles) \in FreeFiles
  BY <1>2, LeastOf, Zenon
<1>4. \A S \in SUBSET Fd : S # {} => Least(S) \in S
  BY <1>1, LeastOf, Zenon
<1> QED BY <1>3, <1>4 DEF FreeFiles

(* What every action shows: the types of the tables, and where processes are. *)
LEMMA Together ==
  ASSUME file' \in [File -> FileType], \A f \in File : OnPipe(file'[f]),
         ofile' \in [Proc -> [Fd -> File \cup {NULL}]], map' \in [Proc -> File \cup {NULL}],
         at' \in [Proc -> AtType], \A q \in Proc : AtOK(at'[q]),
         \A pi \in Pipe : Buffered(pi)', pipe' \in [Pipe -> PipeType], sent' \in [Pipe -> Nat], received' \in [Pipe -> Nat],
         InodeInv', SharedWritesKept', data' \in Seq(Proc), wrote' \in [Proc -> Nat], opened' \in BOOLEAN
  PROVE  FilesInv'
BY Zenon DEF FilesInv, TypeInv, PlaceInv

(* A step that leaves the pipes and the inode alone. *)
LEMMA Tables ==
  ASSUME FilesInv, UNCHANGED pipes, UNCHANGED inode,
         file' \in [File -> FileType], \A f \in File : OnPipe(file'[f]),
         \A f \in File : file'[f].type = "FD_INODE" => file[f].type = "FD_INODE" /\ file'[f].off = file[f].off,
         ofile' \in [Proc -> [Fd -> File \cup {NULL}]], map' \in [Proc -> File \cup {NULL}],
         at' \in [Proc -> AtType], \A q \in Proc : AtOK(at'[q])
  PROVE  FilesInv'
BY SamePipes, SameInode, Together

(* A step that changes nothing but where a process is. *)
LEMMA Moves ==
  ASSUME FilesInv, UNCHANGED tables, UNCHANGED pipes, UNCHANGED inode,
         at' \in [Proc -> AtType], \A q \in Proc : AtOK(at'[q])
  PROVE  FilesInv'
<1>1. /\ file' = file /\ ofile' = ofile /\ map' = map
      /\ file \in [File -> FileType] /\ ofile \in [Proc -> [Fd -> File \cup {NULL}]] /\ map \in [Proc -> File \cup {NULL}]
      /\ \A f \in File : OnPipe(file[f])
  BY DEF tables, FilesInv, TypeInv, PlaceInv
<1> QED BY <1>1, Tables

(* sys_dup().                                                                *)
LEMMA DupStep ==
  ASSUME FilesInv, NEW p \in Proc, NEW d \in Fd, dup(p, d)
  PROVE  FilesInv'
<1>1. ofile[p][d] \in File /\ file[ofile[p][d]].ref + 1 \in Int
  BY DEF dup, FilesInv, TypeInv, FileType
<1>2. Least(FreeFds(p)) \in Fd
  BY SlotsIn DEF FreeFds, dup
<1>3. /\ file' \in [File -> FileType] /\ \A g \in File : OnPipe(file'[g])
      /\ \A g \in File : file'[g].type = file[g].type /\ file'[g].off = file[g].off
  BY Zenon, <1>1, RefOnly DEF dup
<1>4. ofile' \in [Proc -> [Fd -> File \cup {NULL}]]
  BY <1>1, <1>2 DEF dup, FilesInv, TypeInv
<1>5. UNCHANGED pipes /\ UNCHANGED inode /\ map' = map /\ at' = at
  BY DEF dup
<1> QED BY <1>3, <1>4, <1>5, Tables DEF FilesInv, TypeInv, PlaceInv

(* A process sets out to close the files of a list.                          *)
LEMMA ClosingOK ==
  ASSUME NEW l \in Seq(File), l # <<>>
  PROVE  [User EXCEPT !.pc = "close", !.todo = l] \in AtType /\ AtOK([User EXCEPT !.pc = "close", !.todo = l])
<1> DEFINE r == [User EXCEPT !.pc = "close", !.todo = l]
<1>1. r \in AtType /\ r.pc = "close" /\ r.todo = l /\ r.ff = User.ff
  BY Blank, Words, Zenon DEF AtType
<1> HIDE DEF r
<1>2. AtOK(r)
  BY <1>1, Blank DEF AtOK, OnFile
<1> QED BY <1>1, <1>2 DEF r

(* sys_open(): the first one gets the file of the inode, at offset 0 of an   *)
(* empty inode.                                                              *)
LEMMA OpenStep ==
  ASSUME FilesInv, NEW p \in Proc, open(p)
  PROVE  FilesInv'
<1> DEFINE g == Least(FreeFiles)
           e == [NoFile EXCEPT !.ref = 1, !.type = "FD_INODE", !.writable = TRUE, !.readable = TRUE]
<1>1. g \in File
  BY SlotsIn DEF open
<1>2. UNCHANGED pipes /\ data' = data /\ wrote' = wrote /\ map' = map /\ ~opened
  BY DEF open
<1>3. 1 \in Int
  OBVIOUS
<1>4. CASE FreeFds(p) # {}
  <2>1. Least(FreeFds(p)) \in Fd
    BY <1>4, SlotsIn DEF FreeFds
  <2>2. e \in FileType /\ e.type = "FD_INODE" /\ e.off = NoFile.off
    BY <1>3, Blank, Words, Zenon DEF FileType
  <2>3. /\ file' = [file EXCEPT ![g] = e] /\ ofile' = [ofile EXCEPT ![p][Least(FreeFds(p))] = g]
        /\ opened' = TRUE /\ at' = at
    BY Zenon, <1>4 DEF open
  <2> HIDE DEF g, e
  <2>4. file' \in [File -> FileType] /\ \A f \in File : file'[f] = IF f = g THEN e ELSE file[f]
    BY <1>1, <2>2, <2>3 DEF FilesInv, TypeInv
  <2>5. \A f \in File : OnPipe(file'[f])
    BY <2>2, <2>4 DEF OnPipe, FilesInv, PlaceInv
  <2>6. ofile' \in [Proc -> [Fd -> File \cup {NULL}]]
    BY <1>1, <2>1, <2>3 DEF FilesInv, TypeInv
  <2>7. InodeInv'
    <3>1. data = <<>> /\ \A f \in File : file[f].type # "FD_INODE"
      BY <1>2 DEF FilesInv, InodeInv
    <3> QED BY <1>2, <2>2, <2>3, <2>4, <3>1, Blank DEF InodeInv
  <2>8. SharedWritesKept'
    BY <1>2 DEF FilesInv, SharedWritesKept
  <2>9. opened' \in BOOLEAN
    BY <2>3, Zenon
  <2> QED BY <1>2, <2>3, <2>4, <2>5, <2>6, <2>7, <2>8, <2>9, SamePipes, Together DEF FilesInv, TypeInv, PlaceInv
<1>5. CASE FreeFds(p) = {}
  <2>1. /\ file' = [file EXCEPT ![g].ref = 1] /\ ofile' = ofile /\ opened' = opened
        /\ Goto(p, [User EXCEPT !.pc = "close", !.todo = <<g>>])
    BY Zenon, <1>5 DEF open
  <2>2. <<g>> \in Seq(File) /\ <<g>> # <<>>
    BY <1>1
  <2> HIDE DEF g
  <2>3. /\ file' \in [File -> FileType] /\ \A f \in File : OnPipe(file'[f])
        /\ \A f \in File : file'[f].type = file[f].type /\ file'[f].off = file[f].off
    BY Zenon, <1>1, <1>3, <2>1, RefOnly
  <2>4. at' \in [Proc -> AtType] /\ \A q \in Proc : AtOK(at'[q])
    BY Zenon, <2>1, <2>2, ClosingOK, GotoOK
  <2>5. UNCHANGED inode
    BY <1>2, <2>1 DEF inode
  <2> QED BY Zenon, <1>2, <2>1, <2>3, <2>4, <2>5, Tables DEF FilesInv, TypeInv
<1> QED BY <1>4, <1>5

(* A descriptor is cleared and its file is next for fileclose(), as in       *)
(* sys_close() and exit().                                                   *)
LEMMA CloseStep ==
  ASSUME FilesInv, NEW p \in Proc, NEW f \in File, NEW b \in BOOLEAN, NEW d \in Fd,
         ofile' = [ofile EXCEPT ![p][d] = NULL], UNCHANGED <<file, map, pipes, inode>>,
         Goto(p, [User EXCEPT !.pc = "close", !.todo = <<f>>, !.exiting = b])
  PROVE  FilesInv'
<1> DEFINE r == [User EXCEPT !.pc = "close", !.todo = <<f>>, !.exiting = b]
<1>1. <<f>> \in Seq(File)
  OBVIOUS
<1>2. r \in AtType
  BY <1>1, Blank, Words, Zenon DEF AtType
<1>3. r.pc = "close" /\ r.todo = <<f>> /\ r.ff = User.ff
  BY Blank, Zenon DEF AtType
<1> HIDE DEF r
<1>4. AtOK(r)
  BY <1>3, Blank DEF AtOK, OnFile
<1>5. at' \in [Proc -> AtType] /\ \A q \in Proc : AtOK(at'[q])
  BY <1>2, <1>4, GotoOK DEF r
<1>6. ofile' \in [Proc -> [Fd -> File \cup {NULL}]]
  BY DEF FilesInv, TypeInv
<1> QED BY <1>5, <1>6, Tables DEF FilesInv, TypeInv, PlaceInv

(* sys_close().                                                              *)
LEMMA SysCloseStep ==
  ASSUME FilesInv, NEW p \in Proc, NEW d \in Fd, close(p, d)
  PROVE  FilesInv'
<1> DEFINE r == [User EXCEPT !.pc = "close", !.todo = <<ofile[p][d]>>]
<1>1. ofile[p][d] \in File
  BY DEF close, FilesInv, TypeInv
<1>2. User \in AtType /\ User.exiting = FALSE
  BY Blank, Zenon DEF User
<1>3. r = [User EXCEPT !.pc = "close", !.todo = <<ofile[p][d]>>, !.exiting = FALSE]
  BY <1>2, Zenon DEF AtType
<1>4. FALSE \in BOOLEAN
  OBVIOUS
<1>5. /\ ofile' = [ofile EXCEPT ![p][d] = NULL] /\ UNCHANGED <<file, map, pipes, inode>>
      /\ Goto(p, [User EXCEPT !.pc = "close", !.todo = <<ofile[p][d]>>, !.exiting = FALSE])
  BY <1>3, Zenon DEF close
<1> QED BY <1>1, <1>4, <1>5, CloseStep, Zenon

(* After fileclose() a process goes on with the next file, to exit() or to   *)
(* user space.                                                               *)
LEMMA ResumeOK ==
  ASSUME NEW r \in AtType, OnPipe(r.ff)
  PROVE  Resume(r) \in AtType /\ AtOK(Resume(r))
<1>1. CASE r.todo # <<>>
  <2> DEFINE c == [r EXCEPT !.pc = "close"]
  <2>1. c \in AtType
    BY Words, Zenon DEF AtType
  <2>2. c.pc = "close" /\ c.todo = r.todo /\ c.ff = r.ff
    BY Zenon DEF AtType
  <2>3. AtOK(c)
    BY <1>1, <2>2 DEF AtOK, OnFile
  <2> QED BY <1>1, <2>1, <2>3 DEF Resume
<1>2. CASE r.todo = <<>> /\ r.exiting
  <2> DEFINE c == [User EXCEPT !.pc = "exit", !.exiting = TRUE]
  <2>1. c \in AtType
    BY Blank, Words, Zenon DEF AtType
  <2>2. c.pc = "exit" /\ c.ff = User.ff
    BY Blank, Zenon DEF AtType
  <2>3. AtOK(c)
    BY <2>2, Blank DEF AtOK, OnFile
  <2> QED BY <1>2, <2>1, <2>3, Zenon DEF Resume
<1>3. CASE r.todo = <<>> /\ ~r.exiting
  BY <1>3, Blank, Zenon DEF Resume
<1> QED BY <1>1, <1>2, <1>3

(* fileclose() under ftable.lock: the count goes down, and the last one      *)
(* clears the file.                                                          *)
LEMMA FilecloseStep ==
  ASSUME FilesInv, NEW p \in Proc, fileclose(p)
  PROVE  FilesInv'
<1> DEFINE f == Head(at[p].todo)
           rest == [at[p] EXCEPT !.todo = Tail(@)]
<1>1. at[p] \in AtType /\ at[p].todo \in Seq(File) /\ at[p].todo # <<>> /\ AtOK(at[p])
  BY DEF fileclose, FilesInv, TypeInv, PlaceInv, AtType, AtOK
<1>2. f \in File /\ Tail(at[p].todo) \in Seq(File)
  BY <1>1
<1>3. rest \in AtType /\ rest.ff = at[p].ff
  BY Zenon, <1>1, <1>2 DEF AtType
<1>4. file[f] \in FileType /\ OnPipe(file[f]) /\ file[f].ref - 1 \in Int
  BY <1>2 DEF FilesInv, TypeInv, PlaceInv, FileType
<1>5. UNCHANGED <<ofile, map, pipes, inode>>
  BY DEF fileclose
<1>6. CASE LastRef(f)
  <2> DEFINE r == [rest EXCEPT !.pc = "last", !.ff = file[f]]
  <2>1. file' = [file EXCEPT ![f] = NoFile] /\ Goto(p, r)
    BY <1>6 DEF fileclose
  <2>2. r \in AtType /\ r.pc = "last" /\ r.ff = file[f]
    BY <1>3, <1>4, Words, Zenon DEF AtType
  <2> HIDE DEF r, rest
  <2>3. AtOK(r)
    BY <1>4, <2>2 DEF AtOK, OnFile
  <2>4. at' \in [Proc -> AtType] /\ \A q \in Proc : AtOK(at'[q])
    BY <2>1, <2>2, <2>3, GotoOK
  <2> HIDE DEF f
  <2>5. file' \in [File -> FileType] /\ \A g \in File : file'[g] = IF g = f THEN NoFile ELSE file[g]
    BY <1>2, <2>1, Blank DEF FilesInv, TypeInv
  <2>6. \A g \in File : /\ OnPipe(file'[g])
                        /\ file'[g].type = "FD_INODE" => file[g].type = "FD_INODE" /\ file'[g].off = file[g].off
    BY <2>5, Blank DEF OnPipe, FilesInv, PlaceInv
  <2> QED BY <1>5, <2>4, <2>5, <2>6, Tables DEF FilesInv, TypeInv
<1>7. CASE ~LastRef(f)
  <2>1. file' = [file EXCEPT ![f].ref = file[f].ref - 1] /\ Goto(p, Resume(rest))
    BY <1>7 DEF fileclose
  <2>2. at' \in [Proc -> AtType] /\ \A q \in Proc : AtOK(at'[q])
    <3>1. Resume(rest) \in AtType /\ AtOK(Resume(rest))
      BY Zenon, <1>1, <1>3, ResumeOK DEF AtOK
    <3> HIDE DEF rest
    <3> QED BY <2>1, <3>1, GotoOK
  <2> HIDE DEF f, rest
  <2>3. /\ file' \in [File -> FileType] /\ \A g \in File : OnPipe(file'[g])
        /\ \A g \in File : file'[g].type = file[g].type /\ file'[g].off = file[g].off
    BY Zenon, <1>2, <1>4, <2>1, RefOnly
  <2> QED BY Zenon, <1>5, <2>2, <2>3, Tables DEF FilesInv, TypeInv
<1> QED BY <1>6, <1>7

(* wakeup() moves sleepers from sleep() back to the loop they are in.        *)
LEMMA WokenOK ==
  ASSUME NEW pp \in [Proc -> AtType], \A q \in Proc : AtOK(pp[q]), NEW pi,
         NEW w, w = WakeReaders(pp, pi) \/ w = WakeWriters(pp, pi)
  PROVE  w \in [Proc -> AtType] /\ \A q \in Proc : AtOK(w[q])
<1>1. ASSUME NEW l, NEW k, (l = "sleep_r" /\ k = "read") \/ (l = "sleep_w" /\ k = "write"), w = Woken(pp, pi, l, k)
      PROVE  w \in [Proc -> AtType] /\ \A q \in Proc : AtOK(w[q])
  <2>1. \A q \in Proc : /\ [pp[q] EXCEPT !.pc = k] \in AtType
                        /\ pp[q].pc = l => AtOK([pp[q] EXCEPT !.pc = k])
    <3> TAKE q \in Proc
    <3> DEFINE c == [pp[q] EXCEPT !.pc = k]
    <3>1. c \in AtType /\ c.pc = k /\ c.ff = pp[q].ff /\ c.f = pp[q].f
      BY Zenon, <1>1, Words DEF AtType
    <3> QED BY <1>1, <3>1 DEF AtOK, OnFile
  <2>2. \A q \in Proc : w[q] = pp[q] \/ (pp[q].pc = l /\ w[q] = [pp[q] EXCEPT !.pc = k])
    BY <1>1, Zenon DEF Woken
  <2>3. w = [q \in Proc |-> w[q]]
    BY <1>1, Zenon DEF Woken
  <2>4. \A q \in Proc : w[q] \in AtType /\ AtOK(w[q])
    BY Zenon, <2>1, <2>2
  <2> QED BY <2>3, <2>4, Zenon
<1> QED BY <1>1, Zenon DEF WakeReaders, WakeWriters

(* sys_pipe() begins: filealloc() of the file for reading.                   *)
LEMMA SysPipeStep ==
  ASSUME FilesInv, NEW p \in Proc, sys_pipe(p)
  PROVE  FilesInv'
<1> DEFINE g == Least(FreeFiles)
           r == [User EXCEPT !.pc = "pipe", !.f = g]
<1>1. g \in File
  BY SlotsIn DEF sys_pipe
<1>2. r \in AtType /\ r.pc = "pipe" /\ r.f = g /\ r.ff = User.ff
  BY <1>1, Blank, Words, Zenon DEF AtType
<1>3. file' = [file EXCEPT ![g].ref = 1] /\ Goto(p, r) /\ UNCHANGED <<ofile, map, pipes, inode>>
  BY DEF sys_pipe
<1> HIDE DEF g, r
<1>4. AtOK(r)
  BY <1>1, <1>2, Blank DEF AtOK
<1>5. at' \in [Proc -> AtType] /\ \A q \in Proc : AtOK(at'[q])
  BY <1>2, <1>3, <1>4, GotoOK
<1>6. /\ file' \in [File -> FileType] /\ \A f \in File : OnPipe(file'[f])
      /\ \A f \in File : file'[f].type = file[f].type /\ file'[f].off = file[f].off
  <2>1. 1 \in Int
    OBVIOUS
  <2> QED BY <1>1, <1>3, <2>1, RefOnly, Zenon
<1> QED BY Zenon, <1>3, <1>5, <1>6, Tables DEF FilesInv, TypeInv

(* One pipe changes: the new contents and counters must agree. *)
LEMMA OnePipe ==
  ASSUME FilesInv, NEW pi \in Pipe, NEW c \in PipeType, NEW s \in Nat, NEW r \in Nat,
         pipe' = [pipe EXCEPT ![pi] = c], sent' = [sent EXCEPT ![pi] = s], received' = [received EXCEPT ![pi] = r],
         c.nread = r % UINT, c.nwrite = s % UINT, r <= s, s <= r + PIPESIZE,
         \A m \in (r + 1)..s : c.data[(m - 1) % PIPESIZE] = m,
         ~c.used => s = 0 /\ r = 0 /\ ~c.readopen /\ ~c.writeopen
  PROVE  /\ \A q \in Pipe : Buffered(q)'
         /\ pipe' \in [Pipe -> PipeType] /\ sent' \in [Pipe -> Nat] /\ received' \in [Pipe -> Nat]
<1>1. pipe' \in [Pipe -> PipeType] /\ sent' \in [Pipe -> Nat] /\ received' \in [Pipe -> Nat]
  BY DEF FilesInv, TypeInv
<1>2. pipe'[pi] = c /\ sent'[pi] = s /\ received'[pi] = r
  BY DEF FilesInv, TypeInv
<1>3. \A q \in Pipe \ {pi} : pipe'[q] = pipe[q] /\ sent'[q] = sent[q] /\ received'[q] = received[q]
  BY DEF FilesInv, TypeInv
<1>4. Buffered(pi)'
  BY <1>2 DEF Buffered
<1>5. \A q \in Pipe \ {pi} : Buffered(q)'
  BY <1>3 DEF FilesInv, Buffered
<1> QED BY <1>1, <1>4, <1>5

(* pipeclose() closes one end, and frees the pipe if the other is closed     *)
(* too.                                                                      *)
LEMMA ClosedOK ==
  ASSUME FilesInv, NEW pi \in Pipe, NEW b, NEW c, c = ClosedPipe(pi, b),
         pipe' = [pipe EXCEPT ![pi] = c], sent' = [sent EXCEPT ![pi] = IF ~c.used THEN 0 ELSE @],
         received' = [received EXCEPT ![pi] = IF ~c.used THEN 0 ELSE @]
  PROVE  /\ \A q \in Pipe : Buffered(q)'
         /\ pipe' \in [Pipe -> PipeType] /\ sent' \in [Pipe -> Nat] /\ received' \in [Pipe -> Nat]
<1> DEFINE o == pipe[pi]
           w == [o EXCEPT !.writeopen = FALSE]
           v == [o EXCEPT !.readopen = FALSE]
<1>1. o \in PipeType /\ Buffered(pi) /\ sent[pi] \in Nat /\ received[pi] \in Nat
  BY DEF FilesInv, TypeInv
<1>2. c = NoPipe \/ (c = w /\ (w.readopen \/ w.writeopen)) \/ (c = v /\ (v.readopen \/ v.writeopen))
  BY Zenon DEF ClosedPipe
<1> HIDE DEF o
<1>3. /\ w \in PipeType /\ w.nread = o.nread /\ w.nwrite = o.nwrite /\ w.data = o.data /\ w.used = o.used
      /\ ~w.writeopen /\ w.readopen = o.readopen
  BY <1>1, Zenon DEF PipeType
<1>4. /\ v \in PipeType /\ v.nread = o.nread /\ v.nwrite = o.nwrite /\ v.data = o.data /\ v.used = o.used
      /\ ~v.readopen /\ v.writeopen = o.writeopen
  BY <1>1, Zenon DEF PipeType
<1> HIDE DEF w, v
<1>5. CASE c = NoPipe
  <2>1. 0 % UINT = 0 /\ 0 \in Nat
    BY Bounds
  <2>2. /\ sent' = [sent EXCEPT ![pi] = 0] /\ received' = [received EXCEPT ![pi] = 0]
        /\ c \in PipeType /\ c.nread = 0 /\ c.nwrite = 0 /\ ~c.readopen /\ ~c.writeopen
    BY <1>5, Blank, Zenon
  <2>3. 0 <= 0 /\ 0 <= 0 + PIPESIZE /\ \A m \in (0 + 1)..0 : c.data[(m - 1) % PIPESIZE] = m
    BY Bounds
  <2>4. c.nread = 0 % UINT /\ c.nwrite = 0 % UINT
    BY <2>1, <2>2
  <2> QED BY <2>1, <2>2, <2>3, <2>4, OnePipe, Zenon
<1>6. CASE c # NoPipe
  <2>1. /\ c \in PipeType /\ c.nread = o.nread /\ c.nwrite = o.nwrite /\ c.data = o.data /\ c.used = o.used
        /\ o.readopen \/ o.writeopen
    <3>1. CASE c = w /\ (w.readopen \/ w.writeopen)
      BY <1>3, <3>1, Zenon
    <3>2. CASE c = v /\ (v.readopen \/ v.writeopen)
      BY <1>4, <3>2, Zenon
    <3> QED BY <1>2, <1>6, <3>1, <3>2, Zenon
  <2>2. c.used
    BY <1>1, <2>1, Zenon DEF Buffered, o
  <2>3. sent' = [sent EXCEPT ![pi] = sent[pi]] /\ received' = [received EXCEPT ![pi] = received[pi]]
    BY <2>2, Zenon
  <2>4. /\ c.nread = received[pi] % UINT /\ c.nwrite = sent[pi] % UINT
        /\ received[pi] <= sent[pi] /\ sent[pi] <= received[pi] + PIPESIZE
        /\ \A m \in (received[pi] + 1)..sent[pi] : c.data[(m - 1) % PIPESIZE] = m
    BY <1>1, <2>1, Zenon DEF Buffered, o
  <2> QED BY Zenon, <1>1, <2>1, <2>2, <2>3, <2>4, OnePipe
<1> QED BY <1>5, <1>6

(* pipeclose() as a step, with the wakeup of the other end.                  *)
LEMMA PipecloseStep ==
  ASSUME FilesInv, NEW p \in Proc, pipeclose(p)
  PROVE  FilesInv'
<1> DEFINE ff == at[p].ff
           pi == ff.pipe
           r == [at[p] EXCEPT !.ff = NoFile]
           back == [at EXCEPT ![p] = Resume([@ EXCEPT !.ff = NoFile])]
<1>1. at[p] \in AtType /\ ff \in FileType /\ OnPipe(ff) /\ at \in [Proc -> AtType]
  BY DEF FilesInv, TypeInv, PlaceInv, AtType, AtOK
<1>2. r \in AtType /\ r.ff = NoFile
  BY Zenon, <1>1, Blank DEF AtType
<1>3. back = [at EXCEPT ![p] = Resume(r)]
  OBVIOUS
<1>4. back \in [Proc -> AtType] /\ \A q \in Proc : AtOK(back[q])
  <2>1. Resume(r) \in AtType /\ AtOK(Resume(r))
    BY Zenon, <1>2, ResumeOK, Blank DEF OnPipe
  <2> HIDE DEF r, back
  <2>2. back \in [Proc -> AtType] /\ \A q \in Proc : back[q] = IF q = p THEN Resume(r) ELSE at[q]
    BY <1>1, <1>3, <2>1
  <2> QED BY <2>1, <2>2 DEF FilesInv, PlaceInv
<1>5. UNCHANGED tables /\ UNCHANGED inode
  BY DEF pipeclose
<1>6. CASE ff.type # "FD_PIPE"
  <2>1. at' = back /\ UNCHANGED pipes
    BY <1>6, Zenon DEF pipeclose
  <2> HIDE DEF back
  <2> QED BY <1>4, <1>5, <2>1, Moves
<1>7. CASE ff.type = "FD_PIPE"
  <2>1. PICK i \in Pipe : i = pi
    BY <1>1, <1>7 DEF OnPipe
  <2>2. /\ pipe' = [pipe EXCEPT ![i] = ClosedPipe(i, ff.writable)] /\ at' = WakeOnClose(back, i, ff.writable)
        /\ sent' = [sent EXCEPT ![i] = IF ~pipe'[i].used THEN 0 ELSE @]
        /\ received' = [received EXCEPT ![i] = IF ~pipe'[i].used THEN 0 ELSE @]
    BY <1>7, <2>1, Zenon DEF pipeclose
  <2>3. at' \in [Proc -> AtType] /\ \A q \in Proc : AtOK(at'[q])
    <3>1. at' = WakeReaders(back, i) \/ at' = WakeWriters(back, i)
      BY <2>2, Zenon DEF WakeOnClose
    <3> HIDE DEF back
    <3> QED BY <1>4, <3>1, WokenOK, Zenon
  <2>4. pipe'[i] = ClosedPipe(i, ff.writable)
    BY <2>2 DEF FilesInv, TypeInv
  <2>5. /\ \A q \in Pipe : Buffered(q)'
        /\ pipe' \in [Pipe -> PipeType] /\ sent' \in [Pipe -> Nat] /\ received' \in [Pipe -> Nat]
    <3> HIDE DEF ff
    <3> QED BY <2>2, <2>4, ClosedOK, Zenon
  <2>6. file' = file /\ ofile' = ofile /\ map' = map
    BY <1>5 DEF tables
  <2> QED BY Zenon, <1>5, <2>3, <2>5, <2>6, SameInode, Together DEF FilesInv, TypeInv, PlaceInv
<1> QED BY <1>6, <1>7

(* The rest of pipealloc() and of sys_pipe(), with each of their failures.   *)
LEMMA PipeallocStep ==
  ASSUME FilesInv, NEW p \in Proc, NEW pi \in Pipe, NEW stored \in BOOLEAN, pipealloc(p, pi, stored)
  PROVE  FilesInv'
<1> DEFINE rf == at[p].f
           wf == Least(FreeFiles)
           ok == Cardinality(FreeFds(p)) >= 2 /\ stored
           fd0 == Least(FreeFds(p))
           fd1 == Least(FreeFds(p) \ {fd0})
           end == [NoFile EXCEPT !.ref = 1, !.type = "FD_PIPE", !.pipe = pi]
           re == [end EXCEPT !.readable = TRUE]
           we == [end EXCEPT !.writable = TRUE]
           np == [NoPipe EXCEPT !.used = TRUE, !.readopen = TRUE, !.writeopen = TRUE]
           Closing(s) == [User EXCEPT !.pc = "close", !.todo = s]
<1>1. rf \in File /\ UNCHANGED <<map, sent, received, inode>>
  BY DEF pipealloc, FilesInv, PlaceInv, AtOK, OnFile
<1>2. ASSUME NEW s \in Seq(File), s # <<>> PROVE Closing(s) \in AtType /\ AtOK(Closing(s))
  <2>1. /\ Closing(s) \in AtType /\ Closing(s).pc = "close" /\ Closing(s).todo = s
        /\ Closing(s).ff = User.ff
    BY <1>2, Blank, Words, Zenon DEF AtType
  <2> HIDE DEF Closing
  <2> QED BY <1>2, <2>1, Blank DEF AtOK, OnFile
<1>3. CASE FreeFiles = {}
  <2>1. Goto(p, Closing(<<rf>>)) /\ UNCHANGED <<file, ofile, pipe>>
    BY <1>3, Zenon DEF pipealloc
  <2>2. <<rf>> \in Seq(File) /\ <<rf>> # <<>>
    BY <1>1
  <2>3. at' \in [Proc -> AtType] /\ \A q \in Proc : AtOK(at'[q])
    <3>1. Closing(<<rf>>) \in AtType /\ AtOK(Closing(<<rf>>))
      BY <1>2, <2>2, Zenon
    <3> HIDE DEF Closing, rf
    <3> QED BY <2>1, <3>1, GotoOK, Zenon
  <2> QED BY <1>1, <2>1, <2>3, Moves DEF tables, pipes
<1>4. CASE FreeFiles # {}
  <2>1. wf \in File /\ file[wf].ref = 0
    BY <1>4, SlotsIn
  <2>2. /\ file' = [file EXCEPT ![rf] = re, ![wf] = we] /\ pipe' = [pipe EXCEPT ![pi] = np]
        /\ ofile' = IF ok THEN [ofile EXCEPT ![p][fd0] = rf, ![p][fd1] = wf] ELSE ofile
        /\ Goto(p, IF ok THEN User ELSE Closing(<<rf, wf>>)) /\ ~pipe[pi].used
    BY <1>4, Zenon DEF pipealloc
  <2>3. 1 \in Int /\ <<rf, wf>> \in Seq(File) /\ <<rf, wf>> # <<>>
    BY <1>1, <2>1
  <2>4. end \in FileType /\ end.type = "FD_PIPE" /\ end.pipe = pi
    BY <2>3, Blank, Words, Zenon DEF FileType
  <2> HIDE DEF end
  <2>5. /\ re \in FileType /\ re.type = "FD_PIPE" /\ re.pipe = pi
        /\ we \in FileType /\ we.type = "FD_PIPE" /\ we.pipe = pi
    BY <2>4, Zenon DEF FileType
  <2>6. at' \in [Proc -> AtType] /\ \A q \in Proc : AtOK(at'[q])
    <3>1. Closing(<<rf, wf>>) \in AtType /\ AtOK(Closing(<<rf, wf>>))
      BY <1>2, <2>3, Zenon
    <3> HIDE DEF Closing, rf, wf, ok
    <3>2. CASE ok
      BY <2>2, <3>2, GotoOK, Blank, Zenon
    <3>3. CASE ~ok
      BY <2>2, <3>1, <3>3, GotoOK, Zenon
    <3> QED BY <3>2, <3>3
  <2>7. ofile' \in [Proc -> [Fd -> File \cup {NULL}]]
    <3>1. CASE ok
      <4>1. ofile' = [[ofile EXCEPT ![p][fd0] = rf] EXCEPT ![p][fd1] = wf]
        BY <2>2, <3>1, Zenon
      <4> HIDE DEF fd0, fd1, rf, wf
      <4>2. [ofile EXCEPT ![p][fd0] = rf] \in [Proc -> [Fd -> File \cup {NULL}]]
        BY Zenon, <1>1 DEF FilesInv, TypeInv
      <4> QED BY Zenon, <2>1, <4>1, <4>2
    <3>2. CASE ~ok
      BY <2>2, <3>2, Zenon DEF FilesInv, TypeInv
    <3> QED BY <3>1, <3>2
  <2> HIDE DEF rf, wf, re, we
  <2>8. file' \in [File -> FileType] /\ \A g \in File : file'[g] \in {file[g], re, we} /\ (g \in {rf, wf} => file'[g] \in {re, we})
    BY Zenon, <1>1, <2>1, <2>2, <2>5 DEF FilesInv, TypeInv
  <2>9. \A g \in File : /\ OnPipe(file'[g])
                        /\ file'[g].type = "FD_INODE" => file[g].type = "FD_INODE" /\ file'[g].off = file[g].off
    BY <2>5, <2>8 DEF OnPipe, FilesInv, PlaceInv
  <2>10. np \in PipeType /\ np.nread = 0 /\ np.nwrite = 0 /\ np.used
    BY Blank, Zenon DEF PipeType
  <2> HIDE DEF np
  <2>11. /\ \A q \in Pipe : Buffered(q)'
         /\ pipe' \in [Pipe -> PipeType] /\ sent' \in [Pipe -> Nat] /\ received' \in [Pipe -> Nat]
    <3>1. sent[pi] = 0 /\ received[pi] = 0 /\ sent \in [Pipe -> Nat] /\ received \in [Pipe -> Nat]
      BY <2>2 DEF FilesInv, TypeInv, Buffered
    <3>2. sent' = [sent EXCEPT ![pi] = 0] /\ received' = [received EXCEPT ![pi] = 0]
      BY <1>1, <3>1
    <3>3. 0 \in Nat /\ 0 % UINT = 0 /\ 0 <= 0 /\ 0 <= 0 + PIPESIZE /\ \A m \in (0 + 1)..0 : np.data[(m - 1) % PIPESIZE] = m
      BY Bounds
    <3>4. np.nread = 0 % UINT /\ np.nwrite = 0 % UINT
      BY <2>10, <3>3
    <3> QED BY <2>2, <2>10, <3>2, <3>3, <3>4, OnePipe, Zenon
  <2>12. map' = map /\ UNCHANGED inode
    BY <1>1
  <2> QED BY Zenon, <2>6, <2>7, <2>8, <2>9, <2>11, <2>12, SameInode, Together DEF FilesInv, TypeInv
<1> QED BY <1>3, <1>4

(* fork() duplicates every open file.                                        *)
LEMMA ForkStep ==
  ASSUME FilesInv, NEW p \in Proc, NEW np \in Proc, fork(p, np)
  PROVE  FilesInv'
<1>1. \A f \in File : Uses(p, f) \in Nat
  <2>1. IsFiniteSet(Fd)
    BY FilesAssumption, FS_Interval DEF Fd
  <2> QED BY <2>1, FS_Subset, FS_CardinalityType DEF Uses
<1>2. /\ file' = [f \in File |-> [file[f] EXCEPT !.ref = @ + Uses(p, f)]] /\ ofile' = [ofile EXCEPT ![np] = ofile[p]]
      /\ UNCHANGED <<map, pipes, inode>>
  BY DEF fork
<1>3. at' \in [Proc -> AtType] /\ \A q \in Proc : AtOK(at'[q])
  <2>1. CASE map[p] = NULL
    BY <2>1, GotoOK, Blank, Zenon DEF fork, Goto
  <2>2. CASE map[p] # NULL
    <3> DEFINE r == [User EXCEPT !.pc = "fork", !.f = map[p], !.np = np]
    <3>1. map[p] \in File
      BY <2>2 DEF FilesInv, TypeInv
    <3>2. r \in AtType /\ r.pc = "fork" /\ r.f = map[p] /\ r.ff = User.ff
      BY <3>1, Blank, Words, Zenon DEF AtType
    <3>3. at' = [at EXCEPT ![np] = Embryo, ![p] = r]
      BY <2>2, Zenon DEF fork
    <3> HIDE DEF r
    <3>4. AtOK(r)
      BY <3>1, <3>2, Blank DEF AtOK, OnFile
    <3> QED BY <3>2, <3>3, <3>4, TwoMove, Blank, Zenon
  <2> QED BY <2>1, <2>2
<1>4. \A f \in File : /\ file'[f] \in FileType /\ file'[f].type = file[f].type /\ file'[f].off = file[f].off
                      /\ file'[f].pipe = file[f].pipe
  <2> TAKE f \in File
  <2>1. file[f] \in FileType /\ file[f].ref + Uses(p, f) \in Int
    BY <1>1 DEF FilesInv, TypeInv, FileType
  <2>2. file'[f] = [file[f] EXCEPT !.ref = file[f].ref + Uses(p, f)]
    BY <1>2
  <2> QED BY <2>1, <2>2 DEF FileType
<1>5. file' \in [File -> FileType]
  BY <1>2, <1>4
<1>6. \A f \in File : OnPipe(file'[f])
  BY <1>4 DEF OnPipe, FilesInv, PlaceInv
<1>7. ofile' \in [Proc -> [Fd -> File \cup {NULL}]]
  BY <1>2 DEF FilesInv, TypeInv
<1> QED BY <1>2, <1>3, <1>4, <1>5, <1>6, <1>7, Tables DEF FilesInv, TypeInv

(* exit() sets out to close every open file.                                 *)
LEMMA ExitStep ==
  ASSUME FilesInv, NEW p \in Proc, exit(p)
  PROVE  FilesInv'
<1> DEFINE Open == {d \in Fd : ofile[p][d] # NULL}
           d == Least(Open)
<1>1. CASE Open = {}
  <2>1. Goto(p, Gone) /\ UNCHANGED <<file, ofile, map, pipes, inode>>
    BY <1>1, Zenon DEF exit
  <2> QED BY <2>1, GotoOK, Blank, Moves DEF tables
<1>2. CASE Open # {}
  <2>1. /\ ofile' = [ofile EXCEPT ![p][d] = NULL] /\ UNCHANGED <<file, map, pipes, inode>>
        /\ Goto(p, [User EXCEPT !.pc = "close", !.todo = <<ofile[p][d]>>, !.exiting = TRUE])
    BY <1>2, Zenon DEF exit
  <2>2. d \in Open
    BY <1>2, SlotsIn
  <2>3. d \in Fd /\ ofile[p][d] \in File /\ TRUE \in BOOLEAN
    BY <2>2 DEF FilesInv, TypeInv
  <2> HIDE DEF d
  <2> QED BY <2>1, <2>3, CloseStep, Zenon
<1> QED BY <1>1, <1>2

(* sys_read() and sys_write() enter fileread() and filewrite().              *)
LEMMA CallStep ==
  ASSUME FilesInv, NEW p \in Proc, NEW d \in Fd, NEW n \in Nat, sys_read(p, d, n) \/ sys_write(p, d, n)
  PROVE  FilesInv'
<1>1. PICK l \in {"read", "write"} : Goto(p, [User EXCEPT !.pc = l, !.f = ofile[p][d], !.n = n])
  BY Zenon DEF sys_read, sys_write
<1>2. ofile[p][d] \in File /\ UNCHANGED <<tables, pipes, inode>>
  BY DEF sys_read, sys_write, FilesInv, TypeInv
<1> DEFINE r == [User EXCEPT !.pc = l, !.f = ofile[p][d], !.n = n]
<1>3. l \in Labels
  BY Words
<1>4. r \in AtType /\ r.f = ofile[p][d] /\ r.ff = User.ff /\ r.pc = l
  BY <1>2, <1>3, Blank, Zenon DEF AtType
<1> HIDE DEF r
<1>5. AtOK(r)
  BY <1>2, <1>4, Blank DEF AtOK
<1>6. at' \in [Proc -> AtType] /\ \A q \in Proc : AtOK(at'[q])
  BY <1>1, <1>4, <1>5, GotoOK DEF r
<1> QED BY <1>2, <1>6, Moves

(* kill() marks a process and wakes it ...                                   *)
LEMMA WakingStep ==
  ASSUME FilesInv, NEW p \in Proc, NEW q \in Proc, kill(p, q), at' # at
  PROVE  FilesInv'
<1>1. at[q] \in AtType /\ AtOK(at[q]) /\ at[q].pc \in {"read", "write", "sleep_r", "sleep_w"}
  BY DEF kill, FilesInv, TypeInv, PlaceInv
<1>2. PICK l \in {"read", "write"} : at' = [at EXCEPT ![q] = [at[q] EXCEPT !.pc = l]]
  <2> DEFINE l == IF at[q].pc = "sleep_r" THEN "read" ELSE IF at[q].pc = "sleep_w" THEN "write" ELSE at[q].pc
  <2>1. at' = [at EXCEPT ![q] = [at[q] EXCEPT !.pc = l]]
    BY <1>1 DEF kill
  <2>2. l \in {"read", "write"}
    BY <1>1
  <2> HIDE DEF l
  <2> QED BY Zenon, <2>1, <2>2
<1> DEFINE r == [at[q] EXCEPT !.pc = l]
<1>3. l \in Labels
  BY Words
<1>4. r \in AtType /\ r.f = at[q].f /\ r.ff = at[q].ff /\ r.pc = l
  BY <1>1, <1>3, Zenon DEF AtType
<1> HIDE DEF r
<1>5. AtOK(r)
  BY <1>1, <1>4 DEF AtOK, OnFile
<1>6. at' \in [Proc -> AtType] /\ \A s \in Proc : AtOK(at'[s])
  BY Zenon, <1>2, <1>4, <1>5, GotoOK DEF r, Goto
<1>7. UNCHANGED <<tables, pipes, inode>>
  BY DEF kill
<1> QED BY <1>6, <1>7, Moves

(* ... or comes too early for that.                                          *)
LEMMA KillStep ==
  ASSUME FilesInv, NEW p \in Proc, NEW q \in Proc, kill(p, q)
  PROVE  FilesInv'
<1>1. UNCHANGED <<tables, pipes, inode>>
  BY DEF kill
<1>2. CASE at' = at
  BY <1>1, <1>2, Moves DEF FilesInv, TypeInv, PlaceInv
<1> QED BY <1>2, WakingStep

(* mmap(), munmap() and fork() load a reference count without ftable.lock.   *)
LEMMA LoadStep ==
  ASSUME FilesInv, NEW p \in Proc, (\E d \in Fd : mmap_load(p, d)) \/ munmap_load(p) \/ fork_load(p)
  PROVE  FilesInv'
<1>1. PICK r0 \in AtType, l \in {"mmap", "munmap", "forkmap"}, f \in File :
        OnPipe(r0.ff) /\ load(p, [r0 EXCEPT !.pc = l], f)
  <2>1. ASSUME NEW d \in Fd, mmap_load(p, d)
        PROVE  ofile[p][d] \in File /\ load(p, [User EXCEPT !.pc = "mmap"], ofile[p][d])
    <3>1. ofile[p] \in [Fd -> File \cup {NULL}] /\ ofile[p][d] # NULL
      BY Zenon, <2>1 DEF mmap_load, FilesInv, TypeInv
    <3>2. load(p, [User EXCEPT !.pc = "mmap"], ofile[p][d])
      BY <2>1, Zenon DEF mmap_load
    <3> QED BY <3>1, <3>2
  <2>2. ASSUME munmap_load(p)
        PROVE  map[p] \in File /\ load(p, [at[p] EXCEPT !.pc = "munmap"], map[p])
    <3>1. map \in [Proc -> File \cup {NULL}] /\ map[p] # NULL
      BY Zenon, <2>2 DEF munmap_load, FilesInv, TypeInv
    <3>2. load(p, [at[p] EXCEPT !.pc = "munmap"], map[p])
      BY <2>2, Zenon DEF munmap_load
    <3> QED BY <3>1, <3>2
  <2>3. ASSUME fork_load(p)
        PROVE  at[p].f \in File /\ load(p, [at[p] EXCEPT !.pc = "forkmap"], at[p].f)
    <3>1. AtOK(at[p]) /\ at[p].pc = "fork"
      BY Zenon, <2>3 DEF fork_load, FilesInv, PlaceInv
    <3>2. load(p, [at[p] EXCEPT !.pc = "forkmap"], at[p].f)
      BY <2>3, Zenon DEF fork_load
    <3> QED BY <3>1, <3>2 DEF AtOK, OnFile
  <2>4. User \in AtType /\ OnPipe(User.ff) /\ at[p] \in AtType /\ OnPipe(at[p].ff)
    BY Blank, Zenon DEF FilesInv, TypeInv, PlaceInv, AtOK
  <2> QED BY <2>1, <2>2, <2>3, <2>4, Zenon
<1>2. UNCHANGED <<tables, pipes, inode>>
  BY Zenon DEF mmap_load, munmap_load, fork_load
<1> DEFINE s == [r0 EXCEPT !.pc = l]
           r == [s EXCEPT !.f = f, !.ref = file[f].ref]
<1>3. l \in Labels /\ file[f].ref \in Int
  BY Words DEF FilesInv, TypeInv, FileType
<1>4. s \in AtType /\ s.ff = r0.ff /\ s.pc = l
  BY <1>3, Zenon DEF AtType
<1>5. Goto(p, r)
  BY <1>1, Zenon DEF load
<1> HIDE DEF s
<1>6. r \in AtType /\ r.f = f /\ r.ff = s.ff /\ r.pc = s.pc
  BY <1>3, <1>4, Zenon DEF AtType
<1> HIDE DEF r
<1>7. AtOK(r)
  BY <1>1, <1>4, <1>6 DEF AtOK
<1>8. at' \in [Proc -> AtType] /\ \A q \in Proc : AtOK(at'[q])
  BY <1>5, <1>6, <1>7, GotoOK
<1> QED BY <1>2, <1>8, Moves

(* They store the count, whatever it has become meanwhile.                   *)
LEMMA StoreStep ==
  ASSUME FilesInv, NEW p \in Proc, mmap_store(p) \/ munmap_store(p) \/ fork_store(p)
  PROVE  FilesInv'
<1>1. at[p].f \in File /\ at[p] \in AtType /\ OnPipe(at[p].ff) /\ at[p].ref \in Int
  BY Zenon DEF mmap_store, munmap_store, fork_store, FilesInv, TypeInv, PlaceInv, AtOK, OnFile, AtType
<1>2. PICK n \in Int : file' = [file EXCEPT ![at[p].f].ref = n]
  <2>1. at[p].ref + 1 \in Int /\ at[p].ref - 1 \in Int
    BY <1>1
  <2> QED BY <2>1, Zenon DEF mmap_store, munmap_store, fork_store, store
<1>3. map' \in [Proc -> File \cup {NULL}] /\ UNCHANGED <<ofile, pipes, inode>>
  BY Zenon, <1>1 DEF mmap_store, munmap_store, fork_store, FilesInv, TypeInv
<1>4. /\ file' \in [File -> FileType] /\ \A f \in File : OnPipe(file'[f])
      /\ \A f \in File : file'[f].type = file[f].type /\ file'[f].off = file[f].off
  BY <1>1, <1>2, RefOnly, Zenon
<1>5. at' \in [Proc -> AtType] /\ \A q \in Proc : AtOK(at'[q])
  <2>1. Resume(at[p]) \in AtType /\ AtOK(Resume(at[p]))
    BY <1>1, ResumeOK, Zenon
  <2>2. Goto(p, User) \/ Goto(p, Resume(at[p])) \/ at' = [at EXCEPT ![p] = User, ![at[p].np] = User]
    BY Zenon DEF mmap_store, munmap_store, fork_store
  <2> QED BY <2>1, <2>2, Blank, GotoOK, TwoMove, Zenon
<1> QED BY <1>3, <1>4, <1>5, Tables DEF FilesInv, TypeInv

(* A reduced counter moved on by k is the total moved on by k, reduced.      *)
LEMMA ModOfSum ==
  ASSUME NEW s \in Nat, NEW k \in Nat
  PROVE  ((s % UINT) + k) % UINT = (s + k) % UINT /\ (s + k) % UINT \in Nat
<1>1. s \in Int /\ k \in Int /\ s + k \in Int
  OBVIOUS
<1>2. ((s % UINT) + k) % UINT = (s + k) % UINT
  BY <1>1, Bounds, ModAdd, Zenon
<1>3. (s + k) % UINT \in 0..(UINT - 1)
  BY <1>1, Bounds, ModDef, Zenon
<1> QED BY <1>2, <1>3, Bounds

(* The bytes that pipewrite() copies into the buffer. *)
LEMMA PutStep ==
  ASSUME FilesInv, NEW pi \in Pipe, NEW k \in Nat, k <= Room(pi), pipe[pi].readopen,
         pipe' = [pipe EXCEPT ![pi] = Put(pi, k)], sent' = [sent EXCEPT ![pi] = @ + k], received' = received
  PROVE  /\ \A q \in Pipe : Buffered(q)'
         /\ pipe' \in [Pipe -> PipeType] /\ sent' \in [Pipe -> Nat] /\ received' \in [Pipe -> Nat]
<1> DEFINE c == Put(pi, k)
<1>1. Buffered(pi) /\ TypeInv
  BY DEF FilesInv
<1>2. /\ c \in PipeType /\ c.nwrite = (sent[pi] + k) % UINT /\ c.nread = pipe[pi].nread
      /\ c.used = pipe[pi].used /\ sent[pi] + k <= received[pi] + PIPESIZE
      /\ \A m \in (received[pi] + 1)..(sent[pi] + k) : c.data[(m - 1) % PIPESIZE] = m
  <2> HIDE DEF c
  <2>1. c = Put(pi, k)
    BY DEF c
  <2> QED BY <1>1, <2>1, PutIs, ZenonT(40)
<1> HIDE DEF c
<1>3. sent[pi] \in Nat /\ received[pi] \in Nat /\ received \in [Pipe -> Nat] /\ received[pi] <= sent[pi]
  BY Zenon, <1>1 DEF TypeInv, Buffered
<1>4. sent[pi] + k \in Nat /\ received[pi] <= sent[pi] + k
  BY <1>3
<1>5. received' = [received EXCEPT ![pi] = received[pi]]
  BY <1>3
<1>6. pipe[pi].used /\ c.nread = received[pi] % UINT
  BY Zenon, <1>1, <1>2 DEF Buffered
<1> QED BY <1>2, <1>3, <1>4, <1>5, <1>6, OnePipe, Zenon DEF c

(* pipewrite(): it fails, or copies bytes and returns, or fills the buffer   *)
(* and sleeps.                                                               *)
LEMMA PipewriteStep ==
  ASSUME FilesInv, NEW p \in Proc, NEW k \in Nat, pipewrite(p, k)
  PROVE  FilesInv'
<1>1. /\ at[p] \in AtType /\ OnPipe(at[p].ff) /\ at[p].f \in File /\ file[at[p].f].pipe \in Pipe /\ at[p].n \in Nat
      /\ at[p].pc = "write" /\ at \in [Proc -> AtType] /\ \A q \in Proc : AtOK(at[q])
  BY Zenon DEF pipewrite, At, FilesInv, TypeInv, PlaceInv, AtOK, OnFile, OnPipe, AtType
<1>2. PICK pi \in Pipe : pi = file[at[p].f].pipe
  BY <1>1
<1> DEFINE most == Lesser(at[p].n, Room(pi))
           asleep == k = most /\ at[p].n > most
           w == WakeReaders(at, pi)
<1>3. UNCHANGED tables /\ UNCHANGED inode /\ received' = received
  BY Zenon DEF pipewrite
<1>4. CASE ~pipe[pi].readopen \/ p \in killed
  <2>1. Goto(p, User) /\ UNCHANGED <<pipe, sent>>
    BY <1>2, <1>4, Zenon DEF pipewrite
  <2> QED BY <1>3, <2>1, GotoOK, Blank, Moves DEF pipes
<1>5. CASE ~(~pipe[pi].readopen \/ p \in killed)
  <2>1. /\ k <= most /\ pipe' = [pipe EXCEPT ![pi] = Put(pi, k)] /\ sent' = [sent EXCEPT ![pi] = @ + k]
        /\ at' = [w EXCEPT ![p] = IF asleep THEN [at[p] EXCEPT !.pc = "sleep_w", !.n = at[p].n - k] ELSE User]
    BY <1>2, <1>5, Zenon DEF pipewrite
  <2>2. Count(pi) \in Int /\ PIPESIZE \in Int
    BY CountIs, Bounds DEF FilesInv
  <2>3. k <= Room(pi) /\ k <= at[p].n
    BY <1>1, <2>1, <2>2 DEF Lesser, Room
  <2>4. /\ \A q \in Pipe : Buffered(q)'
        /\ pipe' \in [Pipe -> PipeType] /\ sent' \in [Pipe -> Nat] /\ received' \in [Pipe -> Nat]
    BY Zenon, <1>3, <1>5, <2>1, <2>3, PutStep
  <2>5. w \in [Proc -> AtType] /\ \A q \in Proc : AtOK(w[q])
    BY <1>1, WokenOK, Zenon
  <2> DEFINE r == [at[p] EXCEPT !.pc = "sleep_w", !.n = at[p].n - k]
             t == IF asleep THEN r ELSE User
  <2>7. at' = [w EXCEPT ![p] = t]
    BY <2>1
  <2>8. at[p].n - k \in Nat
    BY <1>1, <2>3
  <2>9. r \in AtType /\ r.pc = "sleep_w" /\ r.f = at[p].f /\ r.ff = at[p].ff
    BY <1>1, <2>8, Words, Zenon DEF AtType
  <2> HIDE DEF r, w
  <2>10. AtOK(r)
    BY <1>1, <2>9 DEF AtOK, OnFile
  <2>11. t \in AtType /\ AtOK(t)
    BY <2>9, <2>10, Blank, Zenon
  <2> HIDE DEF t
  <2>12. at' \in [Proc -> AtType] /\ \A q \in Proc : at'[q] = IF q = p THEN t ELSE w[q]
    BY <2>5, <2>7, <2>11
  <2>13. \A q \in Proc : AtOK(at'[q])
    BY <2>5, <2>11, <2>12
  <2>14. file' = file /\ ofile' = ofile /\ map' = map
    BY <1>3 DEF tables
  <2> QED BY Zenon, <1>3, <2>4, <2>12, <2>13, <2>14, SameInode, Together DEF FilesInv, TypeInv, PlaceInv
<1> QED BY Zenon, <1>4, <1>5

(* pipewrite() when kill() arrives in the middle of its loop.                *)
LEMMA PipewriteKilledStep ==
  ASSUME FilesInv, NEW p \in Proc, NEW k \in Nat, pipewrite_killed(p, k)
  PROVE  FilesInv'
<1>1. file[at[p].f].pipe \in Pipe
  BY Zenon DEF pipewrite_killed, At, FilesInv, TypeInv, PlaceInv, AtOK, OnFile, OnPipe
<1>2. PICK pi \in Pipe : pi = file[at[p].f].pipe
  BY <1>1
<1>3. /\ UNCHANGED tables /\ UNCHANGED inode /\ received' = received /\ Goto(p, User) /\ pipe[pi].readopen /\ k <= Room(pi)
      /\ pipe' = [pipe EXCEPT ![pi] = Put(pi, k)] /\ sent' = [sent EXCEPT ![pi] = @ + k]
  BY <1>2, Zenon DEF pipewrite_killed
<1>4. /\ \A q \in Pipe : Buffered(q)'
      /\ pipe' \in [Pipe -> PipeType] /\ sent' \in [Pipe -> Nat] /\ received' \in [Pipe -> Nat]
  BY Zenon, <1>3, PutStep
<1>5. at' \in [Proc -> AtType] /\ \A q \in Proc : AtOK(at'[q])
  BY <1>3, GotoOK, Blank
<1>6. file' = file /\ ofile' = ofile /\ map' = map
  BY <1>3 DEF tables
<1> QED BY Zenon, <1>3, <1>4, <1>5, <1>6, SameInode, Together DEF FilesInv, TypeInv, PlaceInv

(* piperead(): it sleeps or fails on an empty pipe, or takes bytes and wakes *)
(* the writers.                                                              *)
LEMMA PipereadStep ==
  ASSUME FilesInv, NEW p \in Proc, NEW k \in Nat, piperead(p, k)
  PROVE  FilesInv'
<1>1. /\ at[p] \in AtType /\ OnPipe(at[p].ff) /\ at[p].f \in File /\ file[at[p].f].pipe \in Pipe /\ at[p].n \in Nat
      /\ at[p].pc = "read" /\ at \in [Proc -> AtType] /\ \A q \in Proc : AtOK(at[q])
  BY Zenon DEF piperead, At, FilesInv, TypeInv, PlaceInv, AtOK, OnFile, OnPipe, AtType
<1>2. PICK pi \in Pipe : pi = file[at[p].f].pipe
  BY <1>1
<1>3. UNCHANGED tables /\ UNCHANGED inode /\ sent' = sent /\ file' = file /\ ofile' = ofile /\ map' = map
  BY Zenon DEF piperead, tables
<1>4. CASE Count(pi) = 0 /\ pipe[pi].writeopen
  <2> DEFINE r == [at[p] EXCEPT !.pc = "sleep_r"]
  <2>1. (Goto(p, User) \/ Goto(p, r)) /\ UNCHANGED <<pipe, received>>
    BY <1>2, <1>4, Zenon DEF piperead
  <2>2. r \in AtType /\ r.pc = "sleep_r" /\ r.f = at[p].f /\ r.ff = at[p].ff
    BY <1>1, Words, ZenonT(40) DEF AtType
  <2> HIDE DEF r
  <2>3. AtOK(r)
    BY <1>1, <2>2 DEF AtOK, OnFile
  <2>4. at' \in [Proc -> AtType] /\ \A q \in Proc : AtOK(at'[q])
    BY <2>1, <2>2, <2>3, GotoOK, Blank, Zenon
  <2> QED BY <1>3, <2>1, <2>4, Moves DEF pipes
<1>5. CASE ~(Count(pi) = 0 /\ pipe[pi].writeopen)
  <2> DEFINE w == WakeWriters(at, pi)
             c == [pipe[pi] EXCEPT !.nread = (received[pi] + k) % UINT]
  <2>1. /\ k <= Lesser(at[p].n, Count(pi)) /\ pipe' = [pipe EXCEPT ![pi].nread = (@ + k) % UINT]
        /\ received' = [received EXCEPT ![pi] = @ + k] /\ at' = [w EXCEPT ![p] = User]
    BY <1>2, <1>5, Zenon DEF piperead
  <2>2. /\ Buffered(pi) /\ pipe[pi] \in PipeType /\ sent[pi] \in Nat /\ received[pi] \in Nat /\ pipe \in [Pipe -> PipeType]
        /\ sent \in [Pipe -> Nat] /\ Count(pi) = sent[pi] - received[pi]
    BY CountIs DEF FilesInv, TypeInv
  <2>3. k <= sent[pi] - received[pi]
    BY <1>1, <2>1, <2>2 DEF Lesser
  <2>4. /\ (pipe[pi].nread + k) % UINT = (received[pi] + k) % UINT /\ (received[pi] + k) % UINT \in Nat
    BY ZenonT(40), <2>2, ModOfSum DEF Buffered
  <2>5. pipe' = [pipe EXCEPT ![pi] = c]
    BY Zenon, <2>1, <2>2, <2>4
  <2>6. /\ c \in PipeType /\ c.nread = (received[pi] + k) % UINT /\ c.nwrite = pipe[pi].nwrite /\ c.data = pipe[pi].data
        /\ c.used = pipe[pi].used /\ c.readopen = pipe[pi].readopen /\ c.writeopen = pipe[pi].writeopen
    BY <2>2, <2>4, ZenonT(40) DEF PipeType
  <2> HIDE DEF c
  <2>7. /\ received[pi] + k \in Nat /\ received[pi] + k <= sent[pi] /\ sent[pi] <= received[pi] + k + PIPESIZE
        /\ \A m \in (received[pi] + k + 1)..sent[pi] : m \in (received[pi] + 1)..sent[pi]
    BY <2>2, <2>3, Bounds DEF Buffered
  <2>8. /\ \A m \in (received[pi] + k + 1)..sent[pi] : c.data[(m - 1) % PIPESIZE] = m
        /\ c.nwrite = sent[pi] % UINT
    BY <2>2, <2>6, <2>7, ZenonT(40) DEF Buffered
  <2>9. ~c.used => sent[pi] = 0 /\ received[pi] + k = 0 /\ ~c.readopen /\ ~c.writeopen
    <3> SUFFICES ASSUME ~c.used PROVE sent[pi] = 0 /\ received[pi] + k = 0 /\ ~c.readopen /\ ~c.writeopen
      OBVIOUS
    <3>1. sent[pi] = 0 /\ received[pi] = 0 /\ ~c.readopen /\ ~c.writeopen
      BY <2>2, <2>6, Zenon DEF Buffered
    <3> QED BY <2>3, <3>1
  <2>10. sent' = [sent EXCEPT ![pi] = sent[pi]]
    BY <1>3, <2>2
  <2>11. /\ \A q \in Pipe : Buffered(q)'
         /\ pipe' \in [Pipe -> PipeType] /\ sent' \in [Pipe -> Nat] /\ received' \in [Pipe -> Nat]
    BY <2>1, <2>2, <2>5, <2>6, <2>7, <2>8, <2>9, <2>10, OnePipe, Zenon
  <2>12. w \in [Proc -> AtType] /\ \A q \in Proc : AtOK(w[q])
    BY <1>1, WokenOK, Zenon
  <2> HIDE DEF w
  <2>13. at' \in [Proc -> AtType] /\ \A q \in Proc : at'[q] = IF q = p THEN User ELSE w[q]
    BY <2>1, <2>12, Blank
  <2>14. \A q \in Proc : AtOK(at'[q])
    BY <2>12, <2>13, Blank
  <2> QED BY Zenon, <1>3, <2>11, <2>13, <2>14, SameInode, Together DEF FilesInv, TypeInv, PlaceInv
<1> QED BY <1>4, <1>5

(* A change of one file's offset changes nothing else that the invariant     *)
(* depends on.                                                               *)
LEMMA OffOnly ==
  ASSUME FilesInv, NEW f \in File, NEW n \in Nat, file' = [file EXCEPT ![f].off = n]
  PROVE  /\ file' \in [File -> FileType] /\ \A g \in File : OnPipe(file'[g])
         /\ \A g \in File : file'[g].type = file[g].type /\ file'[g].off = IF g = f THEN n ELSE file[g].off
<1>1. file \in [File -> FileType] /\ file[f] \in FileType
  BY DEF FilesInv, TypeInv
<1> DEFINE e == [file[f] EXCEPT !.off = n]
<1>2. e \in FileType /\ e.type = file[f].type /\ e.pipe = file[f].pipe /\ e.off = n
  BY <1>1, Zenon DEF FileType
<1>3. file' = [file EXCEPT ![f] = e]
  BY <1>1
<1> HIDE DEF e
<1>4. file' \in [File -> FileType] /\ \A g \in File : file'[g] = IF g = f THEN e ELSE file[g]
  BY <1>1, <1>2, <1>3
<1>5. \A g \in File : OnPipe(file[g])
  BY DEF FilesInv, PlaceInv
<1> QED BY <1>2, <1>4, <1>5 DEF OnPipe

(* fileread() from the inode: the shared offset is at the end, so it reads   *)
(* nothing and stays there.                                                  *)
LEMMA FilereadStep ==
  ASSUME FilesInv, NEW p \in Proc, fileread(p)
  PROVE  FilesInv'
<1>1. at[p].f \in File /\ at[p].n \in Nat /\ file[at[p].f].type = "FD_INODE" /\ file[at[p].f].off = Len(data) /\ Len(data) \in Nat
  <2>1. at[p] \in AtType /\ AtOK(at[p]) /\ at[p].pc = "read" /\ file[at[p].f].type = "FD_INODE" /\ data \in Seq(Proc)
    BY DEF fileread, At, FilesInv, TypeInv, PlaceInv
  <2>2. at[p].f \in File /\ at[p].n \in Nat /\ Len(data) \in Nat
    BY <2>1 DEF AtOK, OnFile, AtType
  <2> QED BY <2>1, <2>2 DEF FilesInv, InodeInv
<1>2. PICK f \in File : f = at[p].f
  BY <1>1
<1>3. Lesser(file[f].off + at[p].n, Len(data)) = Len(data)
  BY <1>1, <1>2 DEF Lesser
<1>4. /\ UNCHANGED pipes /\ UNCHANGED inode /\ Goto(p, User) /\ ofile' = ofile /\ map' = map
      /\ file' = [file EXCEPT ![f].off = Len(data)]
  BY Zenon, <1>2, <1>3 DEF fileread
<1>5. /\ file' \in [File -> FileType] /\ \A g \in File : OnPipe(file'[g])
      /\ \A g \in File : file'[g].type = file[g].type /\ file'[g].off = IF g = f THEN Len(data) ELSE file[g].off
  BY ZenonT(40), <1>1, <1>4, OffOnly
<1>6. at' \in [Proc -> AtType] /\ \A q \in Proc : AtOK(at'[q])
  BY <1>4, GotoOK, Blank
<1>7. ofile' \in [Proc -> [Fd -> File \cup {NULL}]] /\ map' \in [Proc -> File \cup {NULL}]
  BY <1>4 DEF FilesInv, TypeInv
<1>8. \A g \in File : file'[g].type = "FD_INODE" => file[g].type = "FD_INODE" /\ file'[g].off = file[g].off
  BY Zenon, <1>1, <1>2, <1>5
<1> QED BY Zenon, <1>4, <1>5, <1>6, <1>7, <1>8, Tables

(* writei() at the end of the inode appends the bytes, and all of them are   *)
(* the writer's.                                                             *)
LEMMA Appended ==
  ASSUME FilesInv, NEW p \in Proc, NEW n \in Nat, data' = writei(p, Len(data), n), wrote' = [wrote EXCEPT ![p] = @ + n]
  PROVE  data' \in Seq(Proc) /\ Len(data') = Len(data) + n /\ wrote' \in [Proc -> Nat] /\ SharedWritesKept'
<1> DEFINE L == Len(data)
           Old(q) == {x \in DOMAIN data : data[x] = q}
           New(q) == {x \in DOMAIN data' : data'[x] = q}
           Added == (L + 1)..(L + n)
<1>1. /\ data \in Seq(Proc) /\ L \in Nat /\ DOMAIN data = 1..L /\ wrote \in [Proc -> Nat]
      /\ \A q \in Proc : wrote[q] = Cardinality(Old(q))
  BY DEF FilesInv, TypeInv, SharedWritesKept
<1>2. data' = [x \in 1..(L + n) |-> IF x > L THEN p ELSE data[x]]
  BY <1>1 DEF writei
<1>3. data' \in Seq(Proc) /\ Len(data') = L + n /\ DOMAIN data' = 1..(L + n)
  BY <1>1, <1>2
<1>4. wrote' \in [Proc -> Nat] /\ \A q \in Proc : wrote'[q] = IF q = p THEN wrote[q] + n ELSE wrote[q]
  BY <1>1
<1>5. IsFiniteSet(Added) /\ Cardinality(Added) = n
  <2>1. L + 1 \in Int /\ L + n \in Int
    BY <1>1
  <2>2. IsFiniteSet(Added) /\ Cardinality(Added) = IF L + 1 > L + n THEN 0 ELSE (L + n) - (L + 1) + 1
    <3> HIDE DEF L
    <3> QED BY <2>1, FS_Interval
  <2> QED BY <1>1, <2>2
<1>6. ASSUME NEW q \in Proc PROVE wrote'[q] = Cardinality(New(q))
  <2>1. IsFiniteSet(1..L)
    BY <1>1, FS_Interval
  <2>2. IsFiniteSet(Old(q)) /\ Cardinality(Old(q)) \in Nat
    BY <1>1, <2>1, FS_Subset, FS_CardinalityType
  <2>3. CASE q # p
    <3>1. New(q) = Old(q)
      BY <1>1, <1>2, <1>3, <2>3
    <3> QED BY <1>1, <1>4, <2>3, <3>1
  <2>4. CASE q = p
    <3>1. New(q) = Old(q) \cup Added /\ Old(q) \cap Added = {}
      BY <1>1, <1>2, <1>3, <2>4
    <3>2. Cardinality(New(q)) = Cardinality(Old(q)) + Cardinality(Added) - Cardinality(Old(q) \cap Added)
      BY Zenon, <1>5, <2>2, <3>1, FS_Union
    <3>3. Cardinality(New(q)) = Cardinality(Old(q)) + n
      <4>1. Cardinality(Old(q) \cap Added) = 0
        BY Zenon, <3>1, FS_EmptySet
      <4> HIDE DEF Old, New, Added
      <4> QED BY <1>5, <2>2, <3>2, <4>1
    <3> QED BY <1>1, <1>4, <2>4, <3>3
  <2> QED BY <2>3, <2>4
<1> QED BY <1>3, <1>4, <1>6 DEF SharedWritesKept

(* filewrite() to the inode: one chunk or a part of it, under the inode's    *)
(* lock, or the file is full.                                                *)
LEMMA FilewriteStep ==
  ASSUME FilesInv, NEW p \in Proc, NEW m \in Nat, filewrite(p, m)
  PROVE  FilesInv'
<1>1. /\ at[p] \in AtType /\ at[p].f \in File /\ at[p].n \in Nat /\ file[at[p].f].type = "FD_INODE"
      /\ file[at[p].f].off = Len(data) /\ Len(data) \in Nat /\ AtOK(at[p]) /\ opened /\ opened \in BOOLEAN
  BY DEF filewrite, At, FilesInv, TypeInv, PlaceInv, AtOK, OnFile, AtType, InodeInv
<1>2. PICK f \in File : f = at[p].f
  BY <1>1
<1>3. UNCHANGED pipes /\ ofile' = ofile /\ map' = map /\ opened' = opened
  BY DEF filewrite
<1> DEFINE n1 == Lesser(at[p].n, MAXCHUNK)
<1>4. n1 \in Nat /\ at[p].n - n1 \in Nat
  BY <1>1, FilesAssumption DEF Lesser
<1>5. CASE file[f].off + n1 > MAXFILESIZE
  <2>1. Goto(p, User) /\ file' = file /\ data' = data /\ wrote' = wrote
    BY <1>2, <1>5 DEF filewrite
  <2>2. UNCHANGED tables /\ UNCHANGED inode
    BY <1>3, <2>1 DEF tables, inode
  <2> QED BY <1>3, <2>1, <2>2, GotoOK, Blank, Moves
<1>6. CASE ~(file[f].off + n1 > MAXFILESIZE)
  <2> DEFINE r == [at[p] EXCEPT !.n = at[p].n - n1]
             t == IF m < n1 \/ at[p].n = n1 THEN User ELSE r
  <2>1. /\ data' = writei(p, file[f].off, m) /\ wrote' = [wrote EXCEPT ![p] = @ + m]
        /\ file' = [file EXCEPT ![f].off = MovedOffset(f, m)] /\ Goto(p, t)
    BY <1>2, <1>6 DEF filewrite
  <2>2. r \in AtType /\ r.pc = at[p].pc /\ r.f = at[p].f /\ r.ff = at[p].ff /\ r.todo = at[p].todo
    BY <1>1, <1>4, ZenonT(40) DEF AtType
  <2> HIDE DEF r, n1
  <2>3. AtOK(r)
    BY <1>1, <2>2 DEF AtOK
  <2>4. t \in AtType /\ AtOK(t)
    BY <2>2, <2>3, Blank, Zenon
  <2>5. at' \in [Proc -> AtType] /\ \A q \in Proc : AtOK(at'[q])
    BY <2>1, <2>4, GotoOK
  <2>6. MovedOffset(f, m) = Len(data) + m /\ Len(data) + m \in Nat /\ data' = writei(p, Len(data), m)
    BY <1>1, <1>2, <1>4, <2>1 DEF MovedOffset
  <2>7. data' \in Seq(Proc) /\ Len(data') = Len(data) + m /\ wrote' \in [Proc -> Nat] /\ SharedWritesKept'
    BY Zenon, <1>4, <2>1, <2>6, Appended
  <2>8. /\ file' \in [File -> FileType] /\ \A g \in File : OnPipe(file'[g])
        /\ \A g \in File : file'[g].type = file[g].type /\ file'[g].off = IF g = f THEN Len(data) + m ELSE file[g].off
    BY ZenonT(40), <2>1, <2>6, OffOnly
  <2>9. InodeInv'
    <3>1. opened'
      BY <1>1, <1>3
    <3>2. \A g, h \in File : file[g].type = "FD_INODE" /\ file[h].type = "FD_INODE" => g = h
      BY DEF FilesInv, InodeInv
    <3> QED BY Zenon, <1>1, <1>2, <2>7, <2>8, <3>1, <3>2 DEF InodeInv
  <2>10. /\ \A pi \in Pipe : Buffered(pi)'
         /\ pipe' \in [Pipe -> PipeType] /\ sent' \in [Pipe -> Nat] /\ received' \in [Pipe -> Nat]
    BY <1>3, SamePipes
  <2>11. opened' \in BOOLEAN /\ ofile' \in [Proc -> [Fd -> File \cup {NULL}]] /\ map' \in [Proc -> File \cup {NULL}]
    BY <1>1, <1>3, Zenon DEF FilesInv, TypeInv
  <2> QED BY Zenon, <2>5, <2>7, <2>8, <2>9, <2>10, <2>11, Together
<1> QED BY <1>5, <1>6

(* The invariant holds at boot.                                              *)
LEMMA FilesInit == Init => FilesInv
<1> SUFFICES ASSUME Init PROVE FilesInv
  OBVIOUS
<1>1. NoFile \in FileType /\ OnPipe(NoFile) /\ NoFile.type # "FD_INODE"
  BY Blank DEF OnPipe
<1>2. NoPipe \in PipeType /\ ~NoPipe.used /\ ~NoPipe.readopen /\ ~NoPipe.writeopen /\ NoPipe.nread = 0 /\ NoPipe.nwrite = 0
  BY Blank
<1>3. User \in AtType /\ AtOK(User) /\ Gone \in AtType /\ AtOK(Gone)
  BY Blank
<1>4. TypeInv
  <2>1. file \in [File -> FileType] /\ ofile \in [Proc -> [Fd -> File \cup {NULL}]] /\ map \in [Proc -> File \cup {NULL}]
    BY <1>1 DEF Init
  <2>2. pipe \in [Pipe -> PipeType] /\ sent \in [Pipe -> Nat] /\ received \in [Pipe -> Nat]
    BY <1>2 DEF Init
  <2>3. data \in Seq(Proc) /\ wrote \in [Proc -> Nat]
    BY DEF Init
  <2>4. opened \in BOOLEAN
    BY Zenon DEF Init
  <2>5. at \in [Proc -> AtType]
    BY <1>3 DEF Init
  <2> QED BY <2>1, <2>2, <2>3, <2>4, <2>5 DEF TypeInv
<1>5. PlaceInv
  BY <1>1, <1>3 DEF Init, PlaceInv
<1>6. ASSUME NEW pi \in Pipe PROVE Buffered(pi)
  <2>1. pipe[pi] = NoPipe /\ sent[pi] = 0 /\ received[pi] = 0
    BY DEF Init
  <2>2. 0 % UINT = 0
    BY FilesAssumption
  <2> QED BY <1>2, <2>1, <2>2, FilesAssumption DEF Buffered
<1>7. InodeInv
  BY <1>1 DEF Init, InodeInv
<1>8. SharedWritesKept
  <2>1. ASSUME NEW p \in Proc PROVE {x \in DOMAIN data : data[x] = p} = {} /\ wrote[p] = 0
    BY DEF Init
  <2> QED BY <2>1, FS_EmptySet DEF SharedWritesKept
<1> QED BY <1>4, <1>5, <1>6, <1>7, <1>8 DEF FilesInv

(* Every step keeps the invariant.                                           *)
LEMMA FilesNext == FilesInv /\ [Next]_vars => FilesInv'
<1> SUFFICES ASSUME FilesInv, [Next]_vars PROVE FilesInv'
  OBVIOUS
<1>1. CASE Next
  <2>1. PICK p \in Proc : Step(p)
    BY <1>1, Zenon DEF Next
  <2>2. 0..PIPESIZE \subseteq Nat /\ 1..PIPESIZE \subseteq Nat /\ 0..MAXCHUNK \subseteq Nat
    BY FilesAssumption
  <2>3. CASE \E d \in Fd : dup(p, d) \/ close(p, d) \/ mmap_load(p, d)
    BY <2>3, DupStep, SysCloseStep, LoadStep, Zenon
  <2>4. CASE \E d \in Fd, n \in Sizes : sys_read(p, d, n) \/ sys_write(p, d, n)
    BY <2>4, CallStep, FilesAssumption, Zenon
  <2>5. CASE open(p) \/ sys_pipe(p) \/ exit(p) \/ munmap_load(p) \/ fork_load(p)
    BY <2>5, OpenStep, SysPipeStep, ExitStep, LoadStep, Zenon
  <2>6. CASE \E q \in Proc : fork(p, q) \/ kill(p, q)
    BY <2>6, ForkStep, KillStep, Zenon
  <2>7. CASE \E pi \in Pipe, stored \in BOOLEAN : pipealloc(p, pi, stored)
    BY <2>7, PipeallocStep, Zenon
  <2>8. CASE fileclose(p) \/ pipeclose(p)
    BY <2>8, FilecloseStep, PipecloseStep, Zenon
  <2>9. CASE \E k \in 0..PIPESIZE : pipewrite(p, k) \/ piperead(p, k)
    BY <2>2, <2>9, PipewriteStep, PipereadStep
  <2>10. CASE \E k \in 1..PIPESIZE : pipewrite_killed(p, k)
    BY Zenon, <2>2, <2>10, PipewriteKilledStep
  <2>11. CASE \E r \in 0..MAXCHUNK : filewrite(p, r)
    BY Zenon, <2>2, <2>11, FilewriteStep
  <2>12. CASE fileread(p) \/ mmap_store(p) \/ munmap_store(p) \/ fork_store(p)
    BY <2>12, FilereadStep, StoreStep, Zenon
  <2> QED BY <2>1, <2>3, <2>4, <2>5, <2>6, <2>7, <2>8, <2>9, <2>10, <2>11, <2>12, Zenon DEF Step
<1>2. CASE UNCHANGED vars
  <2>1. UNCHANGED tables /\ UNCHANGED pipes /\ UNCHANGED inode /\ at' = at
    BY <1>2 DEF vars
  <2> QED BY <2>1, Moves DEF FilesInv, TypeInv, PlaceInv
<1> QED BY <1>1, <1>2

(* The invariant holds in every state, with any number of processes, files,  *)
(* pipes and sizes, with racing mmap() and with kill() at any point.         *)
THEOREM FilesInvariant == Spec => []FilesInv
BY FilesInit, FilesNext, PTL DEF Spec

(* Pipes deliver bytes in order: what the buffer holds between piperead()    *)
(* and pipewrite() is exactly what was written and not yet read, in order,   *)
(* for any number of readers and writers, after any number of bytes, also    *)
(* when nread and nwrite have wrapped around, and after pipes are closed and *)
(* reused.                                                                   *)
THEOREM PipesOrdered == Spec => []PipeInOrder
<1>1. FilesInv => PipeInOrder
  <2> SUFFICES ASSUME FilesInv, NEW pi \in Pipe
               PROVE  /\ sent[pi] - received[pi] = Count(pi) /\ Count(pi) <= PIPESIZE
                      /\ \A j \in 1..Count(pi) : pipe[pi].data[Index(pipe[pi].nread + j - 1)] = received[pi] + j
    BY DEF PipeInOrder
  <2>1. /\ Count(pi) = sent[pi] - received[pi] /\ Count(pi) \in 0..PIPESIZE /\ Buffered(pi)
        /\ sent[pi] \in Nat /\ received[pi] \in Nat
    BY CountIs DEF FilesInv, TypeInv
  <2>2. ASSUME NEW j \in 1..Count(pi)
        PROVE  pipe[pi].data[Index(pipe[pi].nread + j - 1)] = received[pi] + j
    <3>1. received[pi] \in Int /\ j - 1 \in Int /\ received[pi] + j \in (received[pi] + 1)..sent[pi]
      BY <2>1
    <3>2. pipe[pi].data[(received[pi] + j - 1) % PIPESIZE] = received[pi] + j
      <4>1. \A m \in (received[pi] + 1)..sent[pi] : pipe[pi].data[(m - 1) % PIPESIZE] = m
        BY <2>1 DEF Buffered
      <4> QED BY <3>1, <4>1
    <3>3. Index((received[pi] % UINT) + (j - 1)) = (received[pi] + (j - 1)) % PIPESIZE
      BY <3>1, IndexIs, Zenon
    <3>4. received[pi] % UINT \in Int
      <4>1. received[pi] % UINT \in 0..(UINT - 1)
        BY Zenon, <3>1, Bounds, ModDef
      <4> QED BY <4>1
    <3>5. pipe[pi].nread + j - 1 = (received[pi] % UINT) + (j - 1) /\ received[pi] + j - 1 = received[pi] + (j - 1)
      BY <2>1, <3>1, <3>4 DEF Buffered
    <3> QED BY <3>2, <3>3, <3>5
  <2> QED BY <2>1, <2>2, FilesAssumption
<1> QED BY <1>1, FilesInvariant, PTL

(* Writes through a shared struct file are not lost: every byte that a       *)
(* filewrite() wrote is in the inode, whoever wrote between its chunks.      *)
THEOREM WritesKept == Spec => []SharedWritesKept
BY FilesInvariant, PTL DEF FilesInv
=============================================================================
