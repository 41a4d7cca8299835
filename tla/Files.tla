-------------------------------- MODULE Files --------------------------------
(***************************************************************************)
(* Open files and pipes: file.c, pipe.c and the descriptor calls of        *)
(* sysfile.c.  A section under ftable.lock, pi->lock or ilock() is one     *)
(* step; descriptors are private to a process.  mmap(), munmap() and fork()*)
(* change f->ref of a mapped file without ftable.lock: a load and a store, *)
(* with other processes in between.  Memory for a pipe is taken to suffice *)
(* (see Mem).                                                              *)
(***************************************************************************)
EXTENDS Integers, Sequences, FiniteSets, FiniteSetsExt

CONSTANTS
  Proc,
  Root,          \* the process that exists at first
  NFILE, NOFILE,
  Pipe,          \* pages that may hold a struct pipe
  PIPESIZE,
  UINT,          \* 2^32: nread and nwrite count modulo this
  MAXCHUNK,      \* bytes that filewrite() writes in one transaction
  MAXFILESIZE,   \* where writei() fails
  Sizes,         \* bound: arguments n of read() and write()
  MAXCALLS,      \* bound: calls of a behaviour
  NULL

File == 1..NFILE
Fd == 1..NOFILE

ASSUME FilesAssumption ==
  /\ NFILE \in Nat /\ NOFILE \in Nat /\ MAXFILESIZE \in Nat /\ Sizes \subseteq Nat /\ MAXCHUNK \in Nat \ {0}
  /\ PIPESIZE \in Nat \ {0} /\ UINT \in Nat /\ PIPESIZE < UINT /\ UINT % PIPESIZE = 0
  /\ Root \in Proc

VARIABLES
  file,      \* ftable.file[]
  ofile,     \* p->ofile[]
  map,       \* the file that a vma of the process refers to, if any (bound: one)
  pipe,      \* struct pipe
  sent, received,  \* history: bytes put into and taken out of each pipe
  silent,    \* history: pipes with bytes that no wakeup() has followed
  lost,      \* history: has a store to f->ref overwritten another update?
  data,      \* the bytes of the one regular file: who wrote them
  wrote,     \* history: bytes of each process that filewrite() has written
  opened,    \* has the file been opened?  (bound: once)
  at,        \* where each process is, and its locals
  killed, calls, panicked

tables == <<file, ofile, map>>
inode == <<data, wrote, opened>>
pipes == <<pipe, sent, received>>
vars == <<tables, pipes, silent, lost, inode, at, killed, calls, panicked>>

NoFile == [ref |-> 0, type |-> "FD_NONE", pipe |-> NULL, readable |-> FALSE, writable |-> FALSE, off |-> 0]
NoPipe == [used |-> FALSE, data |-> [i \in 0..(PIPESIZE - 1) |-> 0], nread |-> 0, nwrite |-> 0,
           readopen |-> FALSE, writeopen |-> FALSE]

(* pc and locals: the files still to be closed, the copy ff of a file just  *)
(* freed, the file of a call, the bytes left to read or write, a value of   *)
(* f->ref, the child of fork(); and whether the process is in exit().       *)
User == [pc |-> "user", todo |-> <<>>, ff |-> NoFile, f |-> NULL, n |-> 0, ref |-> 0, np |-> NULL, exiting |-> FALSE]
Gone == [User EXCEPT !.pc = "unused"]
Embryo == [User EXCEPT !.pc = "embryo"]

Init ==
  /\ file = [f \in File |-> NoFile] /\ ofile = [p \in Proc |-> [d \in Fd |-> NULL]] /\ map = [p \in Proc |-> NULL]
  /\ pipe = [i \in Pipe |-> NoPipe] /\ sent = [i \in Pipe |-> 0] /\ received = [i \in Pipe |-> 0]
  /\ data = <<>> /\ wrote = [p \in Proc |-> 0] /\ opened = FALSE
  /\ at = [p \in Proc |-> IF p = Root THEN User ELSE Gone]
  /\ silent = {} /\ lost = FALSE /\ killed = {} /\ calls = 0 /\ panicked = FALSE

-----------------------------------------------------------------------------
Least(S) == CHOOSE x \in S : \A y \in S : x <= y
Greatest(S) == CHOOSE x \in S : \A y \in S : x >= y
Lesser(a, b) == IF a < b THEN a ELSE b

(* A system call starts; a killed process only exits.                       *)
Call(p) == at[p].pc = "user" /\ p \notin killed /\ calls < MAXCALLS /\ calls' = calls + 1 /\ UNCHANGED killed
Goto(p, r) == at' = [at EXCEPT ![p] = r]
Keep == UNCHANGED <<calls, killed>>
Plain == UNCHANGED <<silent, lost>>

FreeFiles == {f \in File : file[f].ref = 0}
FreeFds(p) == {d \in Fd : ofile[p][d] = NULL}

(* sys_dup(): fdalloc() and filedup(), which panics if ref < 1.             *)
dup(p, d) ==
  LET f == ofile[p][d] IN
  /\ Call(p) /\ f # NULL /\ FreeFds(p) # {}
  /\ ofile' = [ofile EXCEPT ![p][Least(FreeFds(p))] = f]
  /\ file' = [file EXCEPT ![f].ref = @ + 1]
  /\ panicked' = (file[f].ref < 1)
  /\ Plain /\ UNCHANGED <<map, pipes, inode, at>>

(* sys_open() of the regular file; create() and namei() are in Fs.  When    *)
(* there is no descriptor left, the new struct file is closed again.        *)
open(p) ==
  LET f == Least(FreeFiles) IN
  /\ Call(p) /\ ~opened /\ FreeFiles # {} /\ Plain
  /\ \/ /\ FreeFds(p) # {}
        /\ file' = [file EXCEPT ![f] = [NoFile EXCEPT !.ref = 1, !.type = "FD_INODE", !.writable = TRUE, !.readable = TRUE]]
        /\ ofile' = [ofile EXCEPT ![p][Least(FreeFds(p))] = f]
        /\ opened' = TRUE /\ UNCHANGED at
     \/ /\ FreeFds(p) = {} /\ file' = [file EXCEPT ![f].ref = 1]
        /\ Goto(p, [User EXCEPT !.pc = "close", !.todo = <<f>>]) /\ UNCHANGED <<ofile, opened>>
  /\ UNCHANGED <<map, pipes, data, wrote, panicked>>

(* sys_close(): the descriptor, then fileclose().                           *)
close(p, d) ==
  /\ Call(p) /\ ofile[p][d] # NULL
  /\ ofile' = [ofile EXCEPT ![p][d] = NULL]
  /\ Goto(p, [User EXCEPT !.pc = "close", !.todo = <<ofile[p][d]>>])
  /\ Plain /\ UNCHANGED <<file, map, pipes, inode, panicked>>

(* After a close: the next one, the next descriptor of exit(), or the end.  *)
Resume(r) ==
  IF r.todo # <<>> THEN [r EXCEPT !.pc = "close"]
  ELSE IF r.exiting THEN [User EXCEPT !.pc = "exit", !.exiting = TRUE] ELSE User

(* fileclose() of the next file, under ftable.lock.                         *)
LastRef_OneLeft(f) == file[f].ref <= 2
LastRef(f) == file[f].ref = 1
fileclose(p) ==
  LET f == Head(at[p].todo)  rest == [at[p] EXCEPT !.todo = Tail(@)] IN
  /\ at[p].pc = "close"
  /\ panicked' = (file[f].ref < 1)
  /\ IF LastRef(f)
     THEN file' = [file EXCEPT ![f] = NoFile] /\ Goto(p, [rest EXCEPT !.pc = "last", !.ff = file[f]])
     ELSE file' = [file EXCEPT ![f].ref = @ - 1] /\ Goto(p, Resume(rest))
  /\ Keep /\ Plain /\ UNCHANGED <<ofile, map, pipes, inode>>

(* wakeup() of the processes asleep on a channel: they try again.           *)
Woken(pp, pi, pc, again) ==
  [q \in Proc |-> IF pp[q].pc = pc /\ file[pp[q].f].pipe = pi THEN [pp[q] EXCEPT !.pc = again] ELSE pp[q]]
WakeReaders(pp, pi) == Woken(pp, pi, "sleep_r", "read")
WakeWriters(pp, pi) == Woken(pp, pi, "sleep_w", "write")

(* pipeclose(), or iput() of the inode.                                     *)
ClosedPipe(pi, writable) ==
  LET c == IF writable THEN [pipe[pi] EXCEPT !.writeopen = FALSE] ELSE [pipe[pi] EXCEPT !.readopen = FALSE] IN
  IF c.readopen \/ c.writeopen THEN c ELSE NoPipe
WakeOnClose_Other(pp, pi, writable) == IF writable THEN WakeWriters(pp, pi) ELSE WakeReaders(pp, pi)
WakeOnClose(pp, pi, writable) == IF writable THEN WakeReaders(pp, pi) ELSE WakeWriters(pp, pi)
pipeclose(p) ==
  LET ff == at[p].ff  pi == ff.pipe  back == [at EXCEPT ![p] = Resume([@ EXCEPT !.ff = NoFile])] IN
  /\ at[p].pc = "last"
  /\ IF ff.type = "FD_PIPE"
     THEN /\ pipe' = [pipe EXCEPT ![pi] = ClosedPipe(pi, ff.writable)]
          /\ at' = WakeOnClose(back, pi, ff.writable)
          /\ LET gone == ~pipe'[pi].used IN
             /\ sent' = [sent EXCEPT ![pi] = IF gone THEN 0 ELSE @]
             /\ received' = [received EXCEPT ![pi] = IF gone THEN 0 ELSE @]
             /\ silent' = IF gone \/ ff.writable THEN silent \ {pi} ELSE silent
     ELSE at' = back /\ UNCHANGED <<pipes, silent>>
  /\ Keep /\ UNCHANGED <<tables, lost, inode, panicked>>

(* sys_pipe(): pipealloc() takes two files one after the other ...          *)
sys_pipe(p) ==
  /\ Call(p) /\ FreeFiles # {}
  /\ file' = [file EXCEPT ![Least(FreeFiles)].ref = 1]
  /\ Goto(p, [User EXCEPT !.pc = "pipe", !.f = Least(FreeFiles)])
  /\ Plain /\ UNCHANGED <<ofile, map, pipes, inode, panicked>>

(* ... and gives the first back if there is no second.  With both, a pipe   *)
(* is set up and two descriptors are taken; if there are none, or their     *)
(* numbers cannot be stored in user memory, both files are closed again.    *)
pipealloc(p, pi, stored) ==
  LET rf == at[p].f  wf == Least(FreeFiles)
      ok == Cardinality(FreeFds(p)) >= 2 /\ stored
      fd0 == Least(FreeFds(p))  fd1 == Least(FreeFds(p) \ {fd0})
      end == [NoFile EXCEPT !.ref = 1, !.type = "FD_PIPE", !.pipe = pi]
  IN
  /\ at[p].pc = "pipe" /\ ~pipe[pi].used
  /\ IF FreeFiles = {} THEN Goto(p, [User EXCEPT !.pc = "close", !.todo = <<rf>>]) /\ UNCHANGED <<file, ofile, pipe>>
     ELSE /\ file' = [file EXCEPT ![rf] = [end EXCEPT !.readable = TRUE], ![wf] = [end EXCEPT !.writable = TRUE]]
          /\ pipe' = [pipe EXCEPT ![pi] = [NoPipe EXCEPT !.used = TRUE, !.readopen = TRUE, !.writeopen = TRUE]]
          /\ ofile' = IF ok THEN [ofile EXCEPT ![p][fd0] = rf, ![p][fd1] = wf] ELSE ofile
          /\ Goto(p, IF ok THEN User ELSE [User EXCEPT !.pc = "close", !.todo = <<rf, wf>>])
  /\ Keep /\ Plain /\ UNCHANGED <<map, sent, received, inode, panicked>>

(* fork(): filedup() of every descriptor.  The parent's own references keep *)
(* the counts positive meanwhile, so this is one step.  What the parent has *)
(* mapped is counted afterwards, in fork_load() and fork_store() below; a   *)
(* struct vma for the copy is taken to be free (see Vma).                   *)
Uses(p, f) == Cardinality({d \in Fd : ofile[p][d] = f})
fork(p, np) ==
  /\ Call(p) /\ at[np].pc = "unused"
  /\ file' = [f \in File |-> [file[f] EXCEPT !.ref = @ + Uses(p, f)]]
  /\ ofile' = [ofile EXCEPT ![np] = ofile[p]]
  /\ at' = IF map[p] = NULL THEN [at EXCEPT ![np] = User]
           ELSE [at EXCEPT ![np] = Embryo, ![p] = [User EXCEPT !.pc = "fork", !.f = map[p], !.np = np]]
  /\ Plain /\ UNCHANGED <<map, pipes, inode, panicked>>

(* exit(): close every descriptor, in order, then munmap() what is mapped.  *)
exit(p) ==
  LET Open == {d \in Fd : ofile[p][d] # NULL}  d == Least(Open) IN
  /\ at[p].pc \in {"user", "exit"} /\ (Open = {} => map[p] = NULL)
  /\ IF Open = {} THEN Goto(p, Gone) /\ killed' = killed \ {p} /\ UNCHANGED ofile
     ELSE /\ ofile' = [ofile EXCEPT ![p][d] = NULL]
          /\ Goto(p, [User EXCEPT !.pc = "close", !.todo = <<ofile[p][d]>>, !.exiting = TRUE]) /\ UNCHANGED killed
  /\ Plain /\ UNCHANGED <<file, map, pipes, inode, calls, panicked>>

-----------------------------------------------------------------------------
(* sys_read() and sys_write(): argfd() and the mode of the file.            *)
sys_read(p, d, n) ==
  /\ Call(p) /\ ofile[p][d] # NULL /\ file[ofile[p][d]].readable
  /\ Goto(p, [User EXCEPT !.pc = "read", !.f = ofile[p][d], !.n = n])
  /\ Plain /\ UNCHANGED <<tables, pipes, inode, panicked>>

sys_write(p, d, n) ==
  /\ Call(p) /\ ofile[p][d] # NULL /\ file[ofile[p][d]].writable
  /\ Goto(p, [User EXCEPT !.pc = "write", !.f = ofile[p][d], !.n = n])
  /\ Plain /\ UNCHANGED <<tables, pipes, inode, panicked>>

At(p, pc, type) == at[p].pc = pc /\ file[at[p].f].type = type

(* pipewrite(), from the top or from sleep(): as many bytes as fit, or      *)
(* fewer if copyin() fails at one of them.  A byte is its own number.       *)
Count(pi) == (pipe[pi].nwrite - pipe[pi].nread) % UINT
Room_OneMore(pi) == PIPESIZE + 1 - Count(pi)
Room(pi) == PIPESIZE - Count(pi)

Index(n) == (n % UINT) % PIPESIZE
Put(pi, k) ==
  LET Latest(x) == {j \in 0..(k - 1) : Index(pipe[pi].nwrite + j) = x} IN
  [pipe[pi] EXCEPT !.nwrite = (@ + k) % UINT,
                   !.data = [x \in DOMAIN @ |-> IF Latest(x) = {} THEN @[x] ELSE sent[pi] + 1 + Greatest(Latest(x))]]

pipewrite(p, k) ==
  LET pi == file[at[p].f].pipe  most == Lesser(at[p].n, Room(pi))
      asleep == k = most /\ at[p].n > most
  IN
  /\ At(p, "write", "FD_PIPE") /\ Keep /\ UNCHANGED <<tables, lost, inode, received>>
  /\ panicked' = ~pipe[pi].used
  /\ IF ~pipe[pi].readopen \/ p \in killed
     THEN k = 0 /\ Goto(p, User) /\ UNCHANGED <<pipe, sent, silent>>
     ELSE /\ k <= most
          /\ pipe' = [pipe EXCEPT ![pi] = Put(pi, k)] /\ sent' = [sent EXCEPT ![pi] = @ + k]
          /\ silent' = silent \ {pi}
          /\ at' = [WakeReaders(at, pi) EXCEPT ![p] = IF asleep THEN [at[p] EXCEPT !.pc = "sleep_w", !.n = at[p].n - k] ELSE User]

(* pipewrite() looks at killed before each byte, and kill() does not take   *)
(* pi->lock: a process killed after k bytes returns without a wakeup().     *)
pipewrite_killed(p, k) ==
  LET pi == file[at[p].f].pipe IN
  /\ At(p, "write", "FD_PIPE") /\ pipe[pi].readopen /\ p \notin killed /\ k <= Room(pi) /\ k < at[p].n
  /\ calls < MAXCALLS /\ calls' = calls + 1 /\ killed' = killed \cup {p}
  /\ pipe' = [pipe EXCEPT ![pi] = Put(pi, k)] /\ sent' = [sent EXCEPT ![pi] = @ + k]
  /\ silent' = silent \cup {pi}
  /\ Goto(p, User) /\ UNCHANGED <<tables, lost, inode, received, panicked>>

(* piperead(): sleep while there is nothing to read and somebody may write. *)
(* The byte at which copyout() fails is gone from the pipe.                 *)
piperead(p, k) ==
  LET pi == file[at[p].f].pipe  most == Lesser(at[p].n, Count(pi)) IN
  /\ At(p, "read", "FD_PIPE") /\ Keep /\ Plain /\ UNCHANGED <<tables, inode, sent>>
  /\ panicked' = ~pipe[pi].used
  /\ IF Count(pi) = 0 /\ pipe[pi].writeopen
     THEN /\ k = 0 /\ Goto(p, IF p \in killed THEN User ELSE [at[p] EXCEPT !.pc = "sleep_r"])
          /\ UNCHANGED <<pipe, received>>
     ELSE /\ k <= most /\ (k = 0 => most = 0)
          /\ pipe' = [pipe EXCEPT ![pi].nread = (@ + k) % UINT] /\ received' = [received EXCEPT ![pi] = @ + k]
          /\ at' = [WakeWriters(at, pi) EXCEPT ![p] = User]

(* fileread() and filewrite() of an inode: the offset is read and moved     *)
(* while the inode is locked.  A long write takes several transactions and  *)
(* ends at the first that fails.                                            *)
fileread(p) ==
  LET f == at[p].f IN
  /\ At(p, "read", "FD_INODE") /\ Goto(p, User)
  /\ file' = [file EXCEPT ![f].off = Lesser(@ + at[p].n, Len(data))]
  /\ Keep /\ Plain /\ UNCHANGED <<ofile, map, pipes, inode, panicked>>

writei(p, off, n) ==
  [x \in 1..(IF Len(data) > off + n THEN Len(data) ELSE off + n) |-> IF x > off /\ x <= off + n THEN p ELSE data[x]]
MovedOffset_Kept(f, r) == file[f].off
MovedOffset(f, r) == file[f].off + r
(* One chunk: writei() refuses it, or writes r bytes of it, fewer than all  *)
(* when copying from user memory fails.  Only a whole chunk is followed by  *)
(* another.                                                                 *)
filewrite(p, r) ==
  LET f == at[p].f  n1 == Lesser(at[p].n, MAXCHUNK) IN
  /\ At(p, "write", "FD_INODE") /\ r <= n1
  /\ IF file[f].off + n1 > MAXFILESIZE THEN r = 0 /\ Goto(p, User) /\ UNCHANGED <<file, data, wrote>>
     ELSE /\ data' = writei(p, file[f].off, r) /\ wrote' = [wrote EXCEPT ![p] = @ + r]
          /\ file' = [file EXCEPT ![f].off = MovedOffset(f, r)]
          /\ Goto(p, IF r < n1 \/ at[p].n = n1 THEN User ELSE [at[p] EXCEPT !.n = @ - n1])
  /\ Keep /\ Plain /\ UNCHANGED <<ofile, map, pipes, opened, panicked>>

(* kill() marks a process and ends its sleep.  It does not take pi->lock:   *)
(* a victim that has looked at the mark and not yet got p->lock in sleep()  *)
(* sleeps all the same.  Only read() and write() look at the mark before    *)
(* they return, so other victims are left out.                              *)
kill(p, q) ==
  /\ at[p].pc = "user" /\ p \notin killed /\ calls < MAXCALLS /\ calls' = calls + 1
  /\ at[q].pc \in {"read", "write", "sleep_r", "sleep_w"} /\ q \notin killed /\ killed' = killed \cup {q}
  /\ \/ at' = [at EXCEPT ![q].pc = IF @ = "sleep_r" THEN "read" ELSE IF @ = "sleep_w" THEN "write" ELSE @]
     \/ at[q].pc \in {"sleep_r", "sleep_w"} /\ UNCHANGED at
  /\ Plain /\ UNCHANGED <<tables, pipes, inode, panicked>>

(* The changes of f->ref by mmap(), munmap() and fork(), without            *)
(* ftable.lock: munmap() and fork() have vmaslock, mmap() has neither.  The *)
(* rest of these calls is in Vma.                                           *)
load(p, r, f) == Goto(p, [r EXCEPT !.f = f, !.ref = file[f].ref])
store(f, old, new) == file' = [file EXCEPT ![f].ref = new] /\ lost' = (lost \/ file[f].ref # old)
VmasLockFree == \A q \in Proc : at[q].pc \notin {"munmap", "forkmap"}

mmap_load(p, d) ==
  /\ Call(p) /\ map[p] = NULL /\ ofile[p][d] # NULL /\ file[ofile[p][d]].type = "FD_INODE"
  /\ load(p, [User EXCEPT !.pc = "mmap"], ofile[p][d])
  /\ Plain /\ UNCHANGED <<tables, pipes, inode, panicked>>

mmap_store(p) ==
  /\ at[p].pc = "mmap" /\ Goto(p, User)
  /\ store(at[p].f, at[p].ref, at[p].ref + 1) /\ map' = [map EXCEPT ![p] = at[p].f]
  /\ Keep /\ UNCHANGED <<ofile, pipes, silent, inode, panicked>>

munmap_load(p) ==
  /\ map[p] # NULL /\ (at[p].pc = "user" \/ (at[p].pc = "exit" /\ FreeFds(p) = Fd)) /\ VmasLockFree
  /\ load(p, [at[p] EXCEPT !.pc = "munmap"], map[p])
  /\ Keep /\ Plain /\ UNCHANGED <<tables, pipes, inode, panicked>>

munmap_store(p) ==
  /\ at[p].pc = "munmap" /\ Goto(p, Resume(at[p]))
  /\ store(at[p].f, at[p].ref, at[p].ref - 1) /\ map' = [map EXCEPT ![p] = NULL]
  /\ Keep /\ UNCHANGED <<ofile, pipes, silent, inode, panicked>>

fork_load(p) ==
  /\ at[p].pc = "fork" /\ VmasLockFree
  /\ load(p, [at[p] EXCEPT !.pc = "forkmap"], at[p].f)
  /\ Keep /\ Plain /\ UNCHANGED <<tables, pipes, inode, panicked>>

fork_store(p) ==
  LET np == at[p].np IN
  /\ at[p].pc = "forkmap" /\ at' = [at EXCEPT ![p] = User, ![np] = User]
  /\ store(at[p].f, at[p].ref, at[p].ref + 1) /\ map' = [map EXCEPT ![np] = at[p].f]
  /\ Keep /\ UNCHANGED <<ofile, pipes, silent, inode, panicked>>

Step(p) ==
  \/ \E d \in Fd : dup(p, d) \/ close(p, d) \/ mmap_load(p, d)
  \/ \E d \in Fd, n \in Sizes : sys_read(p, d, n) \/ sys_write(p, d, n)
  \/ open(p) \/ sys_pipe(p) \/ exit(p) \/ munmap_load(p) \/ fork_load(p)
  \/ \E q \in Proc : fork(p, q) \/ kill(p, q)
  \/ \E pi \in Pipe, stored \in BOOLEAN : pipealloc(p, pi, stored)
  \/ fileclose(p) \/ pipeclose(p)
  \/ \E k \in 0..PIPESIZE : pipewrite(p, k) \/ piperead(p, k)
  \/ \E k \in 1..PIPESIZE : pipewrite_killed(p, k)
  \/ \E r \in 0..MAXCHUNK : filewrite(p, r)
  \/ fileread(p) \/ mmap_store(p) \/ munmap_store(p) \/ fork_store(p)

Next == ~panicked /\ \E p \in Proc : Step(p)
Spec == Init /\ [][Next]_vars

-----------------------------------------------------------------------------
Occurs(seq, f) == Cardinality({i \in DOMAIN seq : seq[i] = f})
Holds(p, f) ==
  Uses(p, f) + Occurs(at[p].todo, f)
    + (IF map[p] = f THEN 1 ELSE 0) + (IF at[p].pc = "pipe" /\ at[p].f = f THEN 1 ELSE 0)

(* f->ref is the number of descriptors, mappings and calls in progress that *)
(* hold the file.                                                           *)
RefsExact == \A f \in File : file[f].ref = MapThenSumSet(LAMBDA p : Holds(p, f), Proc)

(* A pipe exists as long as a file for it does, each end is open as long as *)
(* its file (or the close of it) is, and no call works on a freed pipe.     *)
Ends(pi) == {e \in {file[f] : f \in File} \cup {at[p].ff : p \in Proc} : e.type = "FD_PIPE" /\ e.pipe = pi}
PipesAlive ==
  /\ ~panicked
  /\ \A pi \in Pipe :
       /\ pipe[pi].readopen = (\E e \in Ends(pi) : e.readable)
       /\ pipe[pi].writeopen = (\E e \in Ends(pi) : e.writable)
       /\ pipe[pi].used = (Ends(pi) # {})

(* Files and pipes live as long as something refers to them: fork, dup,     *)
(* pipe with all its failures, close, exit, mmap and munmap keep f->ref     *)
(* exact, so that fileclose() frees a file once, and in time.  The one      *)
(* thing that breaks this is an update of f->ref that falls between the     *)
(* load and the store of another one in mmap(), munmap() or fork().         *)
LifetimesExact == ~lost => RefsExact /\ PipesAlive

(* What is in the buffer is what was written and not yet read, in order,    *)
(* also after nread and nwrite have wrapped around and with several readers *)
(* and writers.                                                             *)
PipeInOrder ==
  \A pi \in Pipe :
    /\ sent[pi] - received[pi] = Count(pi) /\ Count(pi) <= PIPESIZE
    /\ \A j \in 1..Count(pi) : pipe[pi].data[Index(pipe[pi].nread + j - 1)] = received[pi] + j

(* A process asleep in piperead() or pipewrite() has reason to: nothing to  *)
(* read and a writer left, or no room and a reader left.  The one exception *)
(* is a reader that sleeps beside bytes of a writer that was killed in the  *)
(* middle of pipewrite() and returned without a wakeup(); whoever writes or *)
(* closes next wakes it.  That a sleeper is not killed is not claimed.      *)
NoLostWakeup ==
  ~lost => \A p \in Proc :
    LET pi == file[at[p].f].pipe IN
    /\ at[p].pc = "sleep_r" => (Count(pi) = 0 \/ pi \in silent) /\ pipe[pi].writeopen
    /\ at[p].pc = "sleep_w" => Room(pi) = 0 /\ pipe[pi].readopen

(* Processes that share a struct file never overwrite one another's bytes:  *)
(* all that filewrite() wrote is in the file, whoever wrote when.           *)
SharedWritesKept == \A p \in Proc : wrote[p] = Cardinality({x \in DOMAIN data : data[x] = p})
=============================================================================
