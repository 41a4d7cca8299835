--------------------------------- MODULE Fs ---------------------------------
(***************************************************************************)
(* Inodes, directories and path names: fs.c, and the calls of sysfile.c    *)
(* that change them.  Processes run calls inside transactions of the log,  *)
(* which appears as what it implements: when the last running operation    *)
(* ends, all changes become durable at once.  A step is what a process     *)
(* does while it holds one set of inode locks.                             *)
(***************************************************************************)
EXTENDS Integers, Sequences, FiniteSetsExt, Relation

CONSTANTS
  Proc,
  Name,          \* names of directory entries other than "." and ".."
  NINODES,       \* inodes on disk, numbered from 1
  NINODE,        \* entries of itable
  NBLOCK,        \* data blocks on disk
  MAXFILE,       \* blocks of a file
  Calls,         \* bound: the calls that processes make
  MAXCALLS,      \* bound: calls of a behaviour
  MAXCRASHES,    \* bound: power failures
  Disks,         \* file systems that the machine may start with
  NULL

ROOTINO == 1
Inum == 1..NINODES
Block == 1..NBLOCK

VARIABLES
  disk,          \* dinodes, directory contents and bitmap, as the buffer cache has them
  durable,       \* the same, as recovery finds them after a power failure
  itable,        \* in-memory inodes, by inode number
  cwd, ofile,    \* what a process keeps: p->cwd, and one open file
  loc,           \* where each process is in its call
  outstanding,   \* running operations
  calls, crashes, panicked

vars == <<disk, durable, itable, cwd, ofile, loc, outstanding, calls, crashes, panicked>>

Type == {"FREE", "T_DIR", "T_FILE", "T_DEVICE"}
Dinode == [type : Type, nlink : Nat, addrs : SUBSET Block]
Inode == [ref : Nat, valid : BOOLEAN, lock : Proc \cup {NULL},
          type : Type, nlink : Int, addrs : SUBSET Block]

FreeDinode == [type |-> "FREE", nlink |-> 0, addrs |-> {}]
NoInode == [ref |-> 0, valid |-> FALSE, lock |-> NULL, type |-> "FREE", nlink |-> 0, addrs |-> {}]

(* A directory: its entries, 0 for a free one, and "..".                    *)
Entry == Inum \cup {0}
NoEntries == [n \in Name |-> 0]
Dir == [ents : [Name -> Entry], up : Entry]
NoDir == [ents |-> NoEntries, up |-> 0]

(* stray is history: the inodes that create() or link() entered into a      *)
(* directory which had been removed.                                        *)
Disk == [dinode : [Inum -> Dinode], dir : [Inum -> Dir], used : SUBSET Block, stray : SUBSET Inum]

NoFile == [ip |-> 0, writable |-> FALSE]
Idle == [pc |-> "idle", call |-> NULL, rest |-> <<>>, cur |-> 0, name |-> "", ip |-> 0, dp |-> 0,
         puts |-> <<>>, freeing |-> "no"]

(* What mkfs leaves: a root directory.                                      *)
EmptyDisk ==
  [dinode |-> [i \in Inum |-> IF i = ROOTINO THEN [type |-> "T_DIR", nlink |-> 1, addrs |-> {1}]
                              ELSE FreeDinode],
   dir |-> [i \in Inum |-> IF i = ROOTINO THEN [NoDir EXCEPT !.up = ROOTINO] ELSE NoDir],
   used |-> {1}, stray |-> {}]

(* A system that has just started: every process is in the root directory.  *)
BootTable ==
  [i \in Inum |-> IF i = ROOTINO THEN [NoInode EXCEPT !.ref = Cardinality(Proc)] ELSE NoInode]

Init ==
  /\ disk \in Disks /\ durable = disk /\ itable = BootTable
  /\ cwd = [p \in Proc |-> ROOTINO] /\ ofile = [p \in Proc |-> NoFile] /\ loc = [p \in Proc |-> Idle]
  /\ outstanding = 0 /\ calls = 0 /\ crashes = 0 /\ panicked = "no"

-----------------------------------------------------------------------------
(* The inode layer, as functions of the table t and the disk d.             *)

iget(t, i) ==
  IF t[i].ref > 0 THEN [t EXCEPT ![i].ref = @ + 1] ELSE [t EXCEPT ![i] = [NoInode EXCEPT !.ref = 1]]
TableFull(i) == itable[i].ref = 0 /\ Cardinality({j \in Inum : itable[j].ref > 0}) >= NINODE

idup(t, i) == [t EXCEPT ![i].ref = @ + 1]

(* ilock() when the lock is free, by process p.                             *)
MayLock(i) == itable[i].lock = NULL
Load(i) ==
  LET d == disk.dinode[i] IN
  IF itable[i].valid THEN itable[i]
  ELSE [itable[i] EXCEPT !.valid = TRUE, !.type = d.type, !.nlink = d.nlink, !.addrs = d.addrs]
LockPanics(i) == itable[i].ref < 1 \/ Load(i).type = "FREE"
WhyLockPanics(i) == IF itable[i].ref < 1 THEN "ilock" ELSE "ilock: no type"
ilock(t, p, i) == [t EXCEPT ![i] = [Load(i) EXCEPT !.lock = p]]
iunlock(t, i) == [t EXCEPT ![i].lock = NULL]

iupdate(d, i, ip) ==
  [d EXCEPT !.dinode[i] = [type |-> ip.type, nlink |-> ip.nlink, addrs |-> ip.addrs]]

FreeInums == {i \in Inum : disk.dinode[i].type = "FREE"}
FreeBlocks == Block \ disk.used
Least(S) == CHOOSE x \in S : \A y \in S : x <= y

ialloc(d, i, type) ==
  [d EXCEPT !.dinode[i] = [FreeDinode EXCEPT !.type = type], !.dir[i] = NoDir, !.stray = @ \ {i}]
balloc(d, b) == [d EXCEPT !.used = @ \cup {b}]

(* bfree() of a block that is not in use panics.                            *)
BadFree(ip) == ~(ip.addrs \subseteq disk.used)

(* itrunc() of inode i, whose in-memory copy is ip, with its iupdate().     *)
Truncated_KeepsAddrs(ip) == ip
Truncated(ip) == [ip EXCEPT !.addrs = {}]
itrunc(d, i, ip) == iupdate([d EXCEPT !.used = @ \ ip.addrs, !.dir[i] = NoDir], i, Truncated(ip))

dirlookup(d, i, n) == IF n = "." THEN i ELSE IF n = ".." THEN d.dir[i].up ELSE d.dir[i].ents[n]

(* The directory entries that name inode i; a removed directory has none.   *)
Dirs(d) == {j \in Inum : d.dinode[j].type = "T_DIR"}
Entries(d, i) == {e \in Dirs(d) \X Name : d.dir[e[1]].ents[e[2]] = i}
Removed(d, i) == i # ROOTINO /\ Entries(d, i) = {}

dirlink(d, i, n, j) == [d EXCEPT !.dir[i].ents[n] = j, !.stray = IF Removed(d, i) THEN @ \cup {j} ELSE @]
dirunlink(d, i, n) == [d EXCEPT !.dir[i].ents[n] = 0]
isdirempty(i) == disk.dir[i].ents = NoEntries

-----------------------------------------------------------------------------
(* Control.                                                                 *)

At(p, l) == loc[p].pc = l /\ loc[p].puts = <<>>
Goto(p, l) == loc' = [loc EXCEPT ![p].pc = l]

Quiet == UNCHANGED <<durable, cwd, ofile, outstanding, calls, crashes, panicked>>
Panic(kind) == panicked' = kind /\ UNCHANGED <<disk, durable, itable, cwd, ofile, loc, outstanding, calls, crashes>>

(* iput().  When it frees the inode it does so in four steps:               *)
(* acquiresleep() under itable.lock; truncate and mark free on disk; unlock;*)
(* and, under itable.lock again, drop the reference without another look.   *)
Last_AnyRef(i) == itable[i].valid /\ itable[i].nlink = 0
Last(i) == itable[i].ref = 1 /\ itable[i].valid /\ itable[i].nlink = 0

iput(p) ==
  LET i == Head(loc[p].puts)
      Phase(l) == loc' = [loc EXCEPT ![p].freeing = l]
  IN
  /\ loc[p].puts # <<>>
  /\ \/ /\ (loc[p].freeing = "no" /\ ~Last(i)) \/ loc[p].freeing = "drop"
        /\ itable' = [itable EXCEPT ![i].ref = @ - 1]
        /\ loc' = [loc EXCEPT ![p].puts = Tail(@), ![p].freeing = "no"] /\ UNCHANGED disk /\ Quiet
     \/ /\ loc[p].freeing = "no" /\ Last(i) /\ MayLock(i) /\ Phase("trunc")
        /\ itable' = [itable EXCEPT ![i].lock = p] /\ UNCHANGED disk /\ Quiet
     \/ loc[p].freeing = "trunc" /\ BadFree(itable[i]) /\ Panic("bfree")
     \/ /\ loc[p].freeing = "trunc" /\ ~BadFree(itable[i]) /\ Phase("unlock") /\ Quiet
        /\ disk' = iupdate(itrunc(disk, i, itable[i]), i, FreeDinode)
        /\ itable' = [itable EXCEPT ![i].type = "FREE", ![i].addrs = {}]
     \/ /\ loc[p].freeing = "unlock" /\ Phase("drop")
        /\ itable' = [itable EXCEPT ![i].valid = FALSE, ![i].lock = NULL] /\ UNCHANGED disk /\ Quiet

-----------------------------------------------------------------------------
(* Path names.                                                              *)

(* namex() starts at the root or at the working directory.                  *)
Start(p, path) == IF path.abs THEN ROOTINO ELSE cwd[p]
RefStart(t, p, path) == IF path.abs THEN iget(t, ROOTINO) ELSE idup(t, cwd[p])

(* Which inode the call at l wants: the parent, or the one the path names.  *)
Walking == {"open", "chdir", "link", "link_new", "unlink", "create"}
Parent(l) == l \in {"link_new", "unlink", "create"}
(* sys_link() takes back the link it counted when the new path is bad.      *)
FailTo(l) == IF l = "link_new" THEN "link_bad" ELSE "end"

(* One element of the path.                                                 *)
namex(p) ==
  LET l == loc[p].pc  i == loc[p].cur  rest == loc[p].rest  n == Head(rest)
      next == dirlookup(disk, i, n)
      found == Load(i).type = "T_DIR" /\ next # 0
      t == iunlock(ilock(itable, p, i), i)
  IN
  /\ loc[p].puts = <<>> /\ l \in Walking /\ rest # <<>> /\ MayLock(i)
  /\ ~(Parent(l) /\ Len(rest) = 1 /\ Load(i).type = "T_DIR")
  /\ IF LockPanics(i) THEN Panic(WhyLockPanics(i))
     ELSE IF found /\ TableFull(next) THEN Panic("full")
     ELSE /\ Quiet /\ UNCHANGED disk
          /\ itable' = IF found THEN iget(t, next) ELSE t
          /\ IF found
             THEN loc' = [loc EXCEPT ![p].cur = next, ![p].rest = Tail(rest), ![p].puts = <<i>>]
             ELSE loc' = [loc EXCEPT ![p].pc = FailTo(l), ![p].rest = <<>>, ![p].cur = 0, ![p].puts = <<i>>]

(* namex() is at its result: locked by the caller in the same step.         *)
Arrived(p, l) ==
  /\ At(p, l) /\ MayLock(loc[p].cur)
  /\ IF Parent(l) THEN Len(loc[p].rest) = 1 /\ Load(loc[p].cur).type = "T_DIR" ELSE loc[p].rest = <<>>

(* A path without a name has no parent.                                     *)
NoParent(p) ==
  /\ loc[p].puts = <<>> /\ Parent(loc[p].pc) /\ loc[p].rest = <<>> /\ Quiet
  /\ loc' = [loc EXCEPT ![p].pc = FailTo(loc[p].pc), ![p].cur = 0, ![p].puts = <<loc[p].cur>>]
  /\ UNCHANGED <<disk, itable>>

(* The end of a step that has the inode i locked and unlocks it.            *)
UnlockPut_Leaks(p, i, l) ==
  itable' = iunlock(ilock(itable, p, i), i) /\ loc' = [loc EXCEPT ![p].pc = l, ![p].cur = 0, ![p].rest = <<>>]
UnlockPut(p, i, l) == /\ itable' = iunlock(ilock(itable, p, i), i)
                      /\ loc' = [loc EXCEPT ![p].pc = l, ![p].puts = <<i>>, ![p].cur = 0, ![p].rest = <<>>]

-----------------------------------------------------------------------------
(* begin_op() and the start of a call: [op, path, new, mode].               *)
FirstPc(op) == IF op \in {"mkdir", "mknod", "creat"} THEN "create" ELSE op

Begin(p, call) ==
  /\ At(p, "idle") /\ calls < MAXCALLS /\ calls' = calls + 1 /\ outstanding' = outstanding + 1
  /\ UNCHANGED <<disk, durable, cwd, crashes>>
  /\ \/ /\ call.op = "close" /\ ofile[p] # NoFile                     \* fileclose()
        /\ ofile' = [ofile EXCEPT ![p] = NoFile]
        /\ loc' = [loc EXCEPT ![p].pc = "end", ![p].puts = <<ofile[p].ip>>]
        /\ UNCHANGED <<itable, panicked>>
     \/ /\ call.op = "write" /\ ofile[p].writable /\ itable[ofile[p].ip].type = "T_FILE"
        /\ Goto(p, "write") /\ UNCHANGED <<itable, ofile, panicked>>
     \/ /\ call.op \notin {"close", "write"} /\ TableFull(Start(p, call.path)) /\ panicked' = "full"
        /\ UNCHANGED <<itable, ofile, loc>>
     \/ /\ call.op \notin {"close", "write"} /\ ~TableFull(Start(p, call.path))
        /\ itable' = RefStart(itable, p, call.path)
        /\ loc' = [loc EXCEPT ![p].pc = FirstPc(call.op), ![p].rest = call.path.elems,
                              ![p].cur = Start(p, call.path), ![p].call = call]
        /\ UNCHANGED <<ofile, panicked>>

(* end_op(): the last one commits.                                          *)
end_op(p) ==
  /\ At(p, "end") /\ outstanding' = outstanding - 1
  /\ durable' = IF outstanding = 1 THEN disk ELSE durable
  /\ loc' = [loc EXCEPT ![p] = Idle]
  /\ UNCHANGED <<disk, itable, cwd, ofile, calls, crashes, panicked>>

(* The rest of sys_open() with the inode i locked.  The device may have no  *)
(* driver, or no struct file may be free.                                   *)
OpenLocked(p, i, t) ==
  LET ip == t[i]
      trunc == loc[p].call.mode = "O_TRUNC" /\ ip.type = "T_FILE"
      Fail == /\ itable' = iunlock(t, i)
              /\ loc' = [loc EXCEPT ![p].pc = "end", ![p].puts = <<i>>, ![p].cur = 0]
              /\ UNCHANGED <<disk, ofile>>
      Kept == UNCHANGED <<durable, cwd, outstanding, calls, crashes, panicked>>
      f == [ip |-> i, writable |-> loc[p].call.mode # "O_RDONLY"]
  IN
  \/ Fail /\ Kept
  \/ ofile[p] = NoFile /\ trunc /\ BadFree(ip) /\ Panic("bfree")
  \/ /\ ofile[p] = NoFile /\ ~(trunc /\ BadFree(ip)) /\ Kept
     /\ ofile' = [ofile EXCEPT ![p] = f]
     /\ itable' = iunlock(IF trunc THEN [t EXCEPT ![i] = Truncated(@)] ELSE t, i)
     /\ disk' = IF trunc THEN itrunc(disk, i, ip) ELSE disk
     /\ loc' = [loc EXCEPT ![p].pc = "end", ![p].cur = 0]

sys_open(p) ==
  LET i == loc[p].cur IN
  /\ Arrived(p, "open") /\ ~LockPanics(i)
  /\ IF Load(i).type = "T_DIR" /\ loc[p].call.mode # "O_RDONLY"
     THEN UnlockPut(p, i, "end") /\ UNCHANGED disk /\ Quiet
     ELSE OpenLocked(p, i, ilock(itable, p, i))

OpenCreated(p) == At(p, "created") /\ loc[p].call.op = "creat" /\ OpenLocked(p, loc[p].cur, itable)

(* mkdir() and mknod() are done with what create() made.                    *)
MadeNode(p) ==
  /\ At(p, "created") /\ loc[p].call.op \in {"mkdir", "mknod"} /\ Quiet /\ UNCHANGED disk
  /\ itable' = iunlock(itable, loc[p].cur)
  /\ loc' = [loc EXCEPT ![p].pc = "end", ![p].puts = <<loc[p].cur>>, ![p].cur = 0]

sys_chdir(p) ==
  LET i == loc[p].cur IN
  /\ Arrived(p, "chdir") /\ ~LockPanics(i) /\ UNCHANGED disk
  /\ IF Load(i).type # "T_DIR"
     THEN UnlockPut(p, i, "end") /\ Quiet
     ELSE /\ itable' = iunlock(ilock(itable, p, i), i)
          /\ loc' = [loc EXCEPT ![p].pc = "end", ![p].puts = <<cwd[p]>>, ![p].cur = 0]
          /\ cwd' = [cwd EXCEPT ![p] = i]
          /\ UNCHANGED <<durable, ofile, outstanding, calls, crashes, panicked>>

(* filewrite(): one block more, whose content may not arrive.               *)
filewrite(p) ==
  LET i == ofile[p].ip  b == Least(FreeBlocks)  ip == [Load(i) EXCEPT !.addrs = @ \cup {b}] IN
  /\ At(p, "write") /\ MayLock(i) /\ ~LockPanics(i)
  /\ IF Cardinality(Load(i).addrs) >= MAXFILE
     THEN Goto(p, "end") /\ UNCHANGED <<disk, itable>> /\ Quiet
     ELSE IF FreeBlocks = {} THEN Panic("full")
     ELSE /\ disk' = iupdate(balloc(disk, b), i, ip)
          /\ itable' = [itable EXCEPT ![i] = ip]
          /\ Goto(p, "end") /\ Quiet

-----------------------------------------------------------------------------
(* create(): the parent dp is locked; the name exists, or an inode is       *)
(* allocated and then locked too.                                           *)
NodeType(op) == CASE op = "mkdir" -> "T_DIR" [] op = "mknod" -> "T_DEVICE" [] op = "creat" -> "T_FILE"

CreateLookup(p) ==
  LET dp == loc[p].cur  n == Head(loc[p].rest)  ip == dirlookup(disk, dp, n)
      new == Least(FreeInums)  t == ilock(itable, p, dp)
  IN
  /\ Arrived(p, "create") /\ ~LockPanics(dp)
  /\ IF (ip = 0 /\ FreeInums = {}) \/ TableFull(IF ip = 0 THEN new ELSE ip) THEN Panic("full")
     ELSE IF ip # 0
     THEN /\ itable' = iget(iunlock(t, dp), ip)
          /\ loc' = [loc EXCEPT ![p].pc = "create_exists", ![p].cur = ip, ![p].rest = <<>>, ![p].puts = <<dp>>]
          /\ Quiet /\ UNCHANGED disk
     ELSE /\ disk' = ialloc(disk, new, NodeType(loc[p].call.op))
          /\ itable' = iget(t, new)
          /\ loc' = [loc EXCEPT ![p].pc = "create_node", ![p].cur = new, ![p].dp = dp, ![p].name = n,
                                ![p].rest = <<>>]
          /\ Quiet

CreateExists(p) ==
  LET i == loc[p].cur IN
  /\ At(p, "create_exists") /\ MayLock(i) /\ ~LockPanics(i) /\ Quiet /\ UNCHANGED disk
  /\ IF loc[p].call.op = "creat" /\ Load(i).type \in {"T_FILE", "T_DEVICE"}
     THEN itable' = ilock(itable, p, i) /\ Goto(p, "created")
     ELSE UnlockPut(p, i, "end")

CreateNode(p) ==
  LET i == loc[p].cur  dp == loc[p].dp  isdir == loc[p].call.op = "mkdir"  b == Least(FreeBlocks)
      ip == [Load(i) EXCEPT !.nlink = 1, !.lock = p, !.addrs = IF isdir THEN {b} ELSE @]
      dip == [itable[dp] EXCEPT !.nlink = IF isdir THEN @ + 1 ELSE @]
      dots == IF isdir THEN [balloc(disk, b) EXCEPT !.dir[i].up = dp] ELSE disk
  IN
  /\ At(p, "create_node") /\ MayLock(i) /\ ~LockPanics(i)
  /\ IF isdir /\ FreeBlocks = {} THEN Panic("full")
     ELSE /\ disk' = dirlink(iupdate(iupdate(dots, i, ip), dp, dip), dp, loc[p].name, i)
          /\ itable' = iunlock([itable EXCEPT ![i] = ip, ![dp] = dip], dp)
          /\ loc' = [loc EXCEPT ![p].pc = "created", ![p].dp = 0, ![p].name = "", ![p].puts = <<dp>>]
          /\ Quiet

-----------------------------------------------------------------------------
(* sys_link(): count the link, then enter it in the new directory.          *)
sys_link(p) ==
  LET i == loc[p].cur  t == ilock(itable, p, i)  ip == [t[i] EXCEPT !.nlink = @ + 1, !.lock = NULL]
      new == loc[p].call.new
  IN
  /\ Arrived(p, "link") /\ ~LockPanics(i)
  /\ IF t[i].type = "T_DIR" THEN UnlockPut(p, i, "end") /\ UNCHANGED disk /\ Quiet
     ELSE IF TableFull(Start(p, new)) THEN Panic("full")
     ELSE /\ disk' = iupdate(disk, i, ip)
          /\ itable' = RefStart([t EXCEPT ![i] = ip], p, new)
          /\ loc' = [loc EXCEPT ![p].pc = "link_new", ![p].ip = i, ![p].rest = new.elems,
                                ![p].cur = Start(p, new)]
          /\ Quiet

(* When the name is taken, dirlink() puts the inode it found before         *)
(* sys_link() unlocks the directory.                                        *)
LinkNew(p) ==
  LET dp == loc[p].cur  n == Head(loc[p].rest)  ip == loc[p].ip  old == dirlookup(disk, dp, n)
      t == ilock(itable, p, dp)
  IN
  /\ Arrived(p, "link_new") /\ ~LockPanics(dp)
  /\ IF old # 0 /\ TableFull(old) THEN Panic("full")
     ELSE IF old # 0
     THEN /\ itable' = iget(t, old)
          /\ loc' = [loc EXCEPT ![p].pc = "bad", ![p].cur = 0, ![p].rest = <<>>, ![p].dp = dp, ![p].puts = <<old>>]
          /\ UNCHANGED disk /\ Quiet
     ELSE /\ itable' = iunlock(t, dp)
          /\ disk' = dirlink(disk, dp, n, ip)
          /\ loc' = [loc EXCEPT ![p].pc = "end", ![p].cur = 0, ![p].rest = <<>>, ![p].ip = 0, ![p].puts = <<dp, ip>>]
          /\ Quiet

(* The way out of sys_link() and sys_unlink() that still has the parent     *)
(* locked: iunlockput() of it, and then link() takes back its count.        *)
UnlockParent(p) ==
  LET dp == loc[p].dp IN
  /\ At(p, "bad") /\ Quiet /\ UNCHANGED disk
  /\ itable' = iunlock(itable, dp)
  /\ loc' = [loc EXCEPT ![p].pc = IF loc[p].ip = 0 THEN "end" ELSE "link_bad", ![p].dp = 0, ![p].puts = <<dp>>]

LinkBad(p) ==
  LET i == loc[p].ip  ip == [Load(i) EXCEPT !.nlink = @ - 1] IN
  /\ At(p, "link_bad") /\ MayLock(i) /\ ~LockPanics(i) /\ Quiet
  /\ disk' = iupdate(disk, i, ip) /\ itable' = [itable EXCEPT ![i] = ip]
  /\ loc' = [loc EXCEPT ![p].pc = "end", ![p].puts = <<i>>, ![p].ip = 0]

-----------------------------------------------------------------------------
(* sys_unlink(): parent, then child, both locked.                           *)
sys_unlink(p) ==
  LET dp == loc[p].cur  n == Head(loc[p].rest)  ip == dirlookup(disk, dp, n) IN
  /\ Arrived(p, "unlink") /\ ~LockPanics(dp)
  /\ IF n \in {".", ".."} \/ ip = 0
     THEN UnlockPut(p, dp, "end") /\ UNCHANGED disk /\ Quiet
     ELSE IF TableFull(ip) THEN Panic("full")
     ELSE /\ itable' = iget(ilock(itable, p, dp), ip)
          /\ loc' = [loc EXCEPT ![p].pc = "unlink_node", ![p].cur = ip, ![p].dp = dp, ![p].name = n,
                                ![p].rest = <<>>]
          /\ UNCHANGED disk /\ Quiet

UnlinkNode(p) ==
  LET i == loc[p].cur  dp == loc[p].dp  t == ilock(itable, p, i)  isdir == t[i].type = "T_DIR"
      dip == [t[dp] EXCEPT !.nlink = IF isdir THEN @ - 1 ELSE @, !.lock = NULL]
  IN
  /\ At(p, "unlink_node") /\ MayLock(i) /\ ~LockPanics(i)
  /\ IF t[i].nlink < 1 THEN Panic("unlink: nlink < 1")
     ELSE IF isdir /\ ~isdirempty(i)
     THEN /\ itable' = iunlock(t, i)
          /\ loc' = [loc EXCEPT ![p] = [Idle EXCEPT !.pc = "bad", !.dp = dp, !.puts = <<i>>]]
          /\ UNCHANGED disk /\ Quiet
     ELSE /\ disk' = iupdate(dirunlink(disk, dp, loc[p].name), dp, dip)
          /\ itable' = [t EXCEPT ![dp] = dip]
          /\ loc' = [loc EXCEPT ![p] = [Idle EXCEPT !.pc = "unlinked", !.cur = i, !.puts = <<dp>>]]
          /\ Quiet

Unlinked(p) ==
  LET i == loc[p].cur  ip == [itable[i] EXCEPT !.nlink = @ - 1, !.lock = NULL] IN
  /\ At(p, "unlinked") /\ Quiet
  /\ disk' = iupdate(disk, i, ip) /\ itable' = [itable EXCEPT ![i] = ip]
  /\ loc' = [loc EXCEPT ![p].pc = "end", ![p].puts = <<i>>, ![p].cur = 0]

-----------------------------------------------------------------------------
(* The inode whose lock the next step of p takes, 0 for none.               *)
Wants(p) ==
  IF loc[p].puts # <<>>
  THEN IF loc[p].freeing = "no" /\ Last(Head(loc[p].puts)) THEN Head(loc[p].puts) ELSE 0
  ELSE CASE loc[p].pc \in Walking \cup {"create_exists", "create_node", "unlink_node"} -> loc[p].cur
         [] loc[p].pc = "link_bad" -> loc[p].ip
         [] loc[p].pc = "write" -> ofile[p].ip
         [] OTHER -> 0

(* ilock() of an inode that is not referenced or not allocated.             *)
BadLock(p) ==
  LET i == Wants(p) IN
  /\ loc[p].puts = <<>> /\ i \in Inum /\ MayLock(i) /\ LockPanics(i) /\ Panic(WhyLockPanics(i))

Step(p) ==
  \/ iput(p) \/ namex(p) \/ NoParent(p) \/ end_op(p)
  \/ sys_open(p) \/ OpenCreated(p) \/ MadeNode(p) \/ sys_chdir(p) \/ filewrite(p)
  \/ CreateLookup(p) \/ CreateExists(p) \/ CreateNode(p)
  \/ sys_link(p) \/ LinkNew(p) \/ UnlockParent(p) \/ LinkBad(p)
  \/ sys_unlink(p) \/ UnlinkNode(p) \/ Unlinked(p)
  \/ BadLock(p)

(* Power failure and reboot.                                                *)
Crash ==
  /\ crashes < MAXCRASHES /\ crashes' = crashes + 1
  /\ disk' = durable /\ itable' = BootTable
  /\ cwd' = [p \in Proc |-> ROOTINO] /\ ofile' = [p \in Proc |-> NoFile] /\ loc' = [p \in Proc |-> Idle]
  /\ outstanding' = 0 /\ panicked' = "no" /\ UNCHANGED <<durable, calls>>

Next ==
  \/ panicked = "no" /\ \E p \in Proc : Step(p) \/ \E call \in Calls : Begin(p, call)
  \/ Crash

Spec == Init /\ [][Next]_vars

-----------------------------------------------------------------------------
(* What of the file system refers to inode i on disk d: entries of          *)
(* directories, and the ".." of the directories that have an entry.         *)
Links(d, i) ==
  Cardinality(Entries(d, i)) + Cardinality({j \in Dirs(d) : Entries(d, j) # {} /\ d.dir[j].up = i})
  + (IF i = ROOTINO THEN 1 ELSE 0)

(* What a power failure leaves is consistent, whatever calls were under     *)
(* way: link counts are exact, no entry names a free inode, and the bitmap  *)
(* has exactly the blocks of the inodes, each block in one inode.  create() *)
(* and sys_link() do not look whether the directory still has a link: what  *)
(* they enter into a removed one loses that entry when iput() frees the     *)
(* directory.  Such a stray inode, and no other, may count links too many.  *)
DiskConsistent ==
  LET d == durable  live == {i \in Inum : d.dinode[i].type # "FREE"} IN
  /\ \A i \in live \ d.stray : d.dinode[i].nlink = Links(d, i)
  /\ \A i \in live : d.dinode[i].nlink >= Links(d, i)
  /\ \A i \in Inum \ live : Links(d, i) = 0
  /\ d.used = UNION {d.dinode[i].addrs : i \in live}
  /\ \A i, j \in live : i # j => d.dinode[i].addrs \cap d.dinode[j].addrs = {}

(* The reference counts of itable count the working directories, the open   *)
(* files and the inodes that running calls hold, so that no entry is        *)
(* recycled in use and none is kept for ever: ilock() never meets an inode  *)
(* without a reference, unlink() always a link that it can take away, and   *)
(* itrunc() only blocks in use.  That the inode behind a reference is       *)
(* allocated is not claimed: the ".." of a removed directory may name a     *)
(* freed inode.                                                             *)
Holds(p, i) ==
  Cardinality({f \in {"cur", "ip", "dp"} : loc[p][f] = i})
  + Cardinality({k \in 1..Len(loc[p].puts) : loc[p].puts[k] = i})
  + (IF cwd[p] = i THEN 1 ELSE 0) + (IF ofile[p].ip = i THEN 1 ELSE 0)

RefsExact ==
  /\ panicked \in {"no", "full", "ilock: no type"}
  /\ \A i \in Inum : itable[i].ref = MapThenSumSet(LAMBDA p : Holds(p, i), Proc)

(* Calls that lock several inodes do not wait for each other in a circle,   *)
(* and iput() never waits for the lock of an inode it is about to free      *)
(* ("this acquiresleep() won't block (or deadlock)", fs.c).                 *)
WaitsFor(p, q) == Wants(p) # 0 /\ itable[Wants(p)].lock = q

LocksOrdered ==
  /\ \A p \in Proc : ~TransitiveClosure([e \in Proc \X Proc |-> WaitsFor(e[1], e[2])], Proc)[p, p]
  /\ \A p \in Proc : loc[p].puts # <<>> /\ Wants(p) # 0 => itable[Wants(p)].lock = NULL
=============================================================================
