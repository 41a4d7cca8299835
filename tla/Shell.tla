-------------------------------- MODULE Shell --------------------------------
(***************************************************************************)
(* The shell, user/sh.c: how a line becomes a tree of commands, and how    *)
(* runcmd() turns the tree into processes, pipes and waits.  A line is a   *)
(* sequence of characters; any letter is "a" and any blank is " ".  The    *)
(* programs that commands run are external: some read their input to the   *)
(* end, some do not.                                                       *)
(***************************************************************************)
EXTENDS Integers, Sequences, FiniteSets, SequencesExt

CONSTANTS
  Lines,     \* bound: the lines typed
  MAXARGS,
  NOFILE,    \* descriptors of a process, enough for the lines typed
  NPROC      \* processes that fork() can make

VARIABLES
  buf,       \* the line
  parsed,    \* what parsecmd() makes of it
  shell,     \* where main() is: "getcmd", "wait", "prompt" again, or "exited"
  proc,      \* the processes of the command
  failed     \* has a fork() failed?

vars == <<buf, parsed, shell, proc, failed>>
-----------------------------------------------------------------------------
(* gettoken() from position s of line b: the kind of token, where it begins *)
(* and ends, and where the next one begins.  The line ends with "nul".      *)
Symbols == {"<", "|", ">", "&", ";", "(", ")"}
At(b, s) == IF s <= Len(b) THEN b[s] ELSE "nul"
First(b, s, stops) == CHOOSE t \in s..(Len(b) + 1) : (t > Len(b) \/ b[t] \in stops) /\ \A u \in s..(t - 1) : b[u] \notin stops
SkipBlanks(b, s) == First(b, s, ToSet(b) \ {" "})

TokenAt(b, q) ==
  LET c == At(b, q)
      append == c = ">" /\ At(b, q + 1) = ">"
      eq == IF c = "nul" THEN q
            ELSE IF append THEN q + 2
            ELSE IF c \in Symbols THEN q + 1
            ELSE First(b, q, {" "} \cup Symbols)
  IN [tok |-> IF append THEN "+" ELSE c, q |-> q, eq |-> eq, s |-> SkipBlanks(b, eq)]
gettoken(b, s) == TokenAt(b, SkipBlanks(b, s))

peek(b, s, toks) == At(b, SkipBlanks(b, s)) \in toks

(* The parse functions return whether they succeed, where they stopped, and *)
(* the tree.  A word is the pair of its ends.  An operator ...After goes on *)
(* with the result of the function that was called first.                   *)
execcmd(argv) == [type |-> "EXEC", argv |-> argv]
redircmd(cmd, file, fd) == [type |-> "REDIR", cmd |-> cmd, file |-> file, fd |-> fd]
pipecmd(left, right) == [type |-> "PIPE", left |-> left, right |-> right]
listcmd(left, right) == [type |-> "LIST", left |-> left, right |-> right]
backcmd(cmd) == [type |-> "BACK", cmd |-> cmd]

Result(s, cmd) == [ok |-> TRUE, s |-> s, cmd |-> cmd]
Syntax == [ok |-> FALSE, s |-> 0, cmd |-> execcmd(<<>>)]

(* parseredirs(): here the tree is the sequence of redirections so far; the *)
(* last one of them becomes the outermost node.                             *)
Wrapped(cmd, redirs) == FoldLeft(LAMBDA c, r : redircmd(c, r.file, r.fd), cmd, redirs)

RECURSIVE parseredirs(_, _, _)
parseredirs(b, s, redirs) ==
  LET op == gettoken(b, s)  word == gettoken(b, op.s) IN
  IF ~peek(b, s, {"<", ">"}) THEN Result(SkipBlanks(b, s), redirs)
  ELSE IF word.tok # "a" THEN Syntax
  ELSE parseredirs(b, word.s, Append(redirs, [file |-> <<word.q, word.eq>>, fd |-> IF op.tok = "<" THEN 0 ELSE 1]))

(* The loop of parseexec().                                                 *)
RECURSIVE Arguments(_, _, _, _)
Arguments(b, s, argv, redirs) ==
  LET word == gettoken(b, s)  args == Append(argv, <<word.q, word.eq>>)
      r == parseredirs(b, word.s, redirs)
  IN
  IF peek(b, s, {"|", ")", "&", ";"}) \/ word.tok = "nul"
  THEN Result(SkipBlanks(b, s), Wrapped(execcmd(argv), redirs))
  ELSE IF word.tok # "a" \/ Len(args) >= MAXARGS \/ ~r.ok THEN Syntax
  ELSE Arguments(b, r.s, args, r.cmd)

RECURSIVE parseline(_, _)

BlockAfter(b, line) ==
  LET r == parseredirs(b, gettoken(b, line.s).s, <<>>) IN
  IF ~line.ok THEN line
  ELSE IF ~peek(b, line.s, {")"}) \/ ~r.ok THEN Syntax
  ELSE Result(r.s, Wrapped(line.cmd, r.cmd))
parseblock(b, s) == BlockAfter(b, parseline(b, gettoken(b, s).s))

ExecAfter(b, r) == IF r.ok THEN Arguments(b, r.s, <<>>, r.cmd) ELSE Syntax
parseexec(b, s) == IF peek(b, s, {"("}) THEN parseblock(b, s) ELSE ExecAfter(b, parseredirs(b, s, <<>>))

RECURSIVE parsepipe(_, _)
PipeAfter(b, left) ==
  LET right == parsepipe(b, gettoken(b, left.s).s) IN
  IF ~left.ok \/ ~peek(b, left.s, {"|"}) THEN left
  ELSE IF right.ok THEN Result(right.s, pipecmd(left.cmd, right.cmd)) ELSE Syntax
parsepipe(b, s) == PipeAfter(b, parseexec(b, s))

RECURSIVE Backs(_, _)
Backs(b, r) == IF r.ok /\ peek(b, r.s, {"&"}) THEN Backs(b, Result(gettoken(b, r.s).s, backcmd(r.cmd))) ELSE r

LineAfter(b, left) ==
  LET right == parseline(b, gettoken(b, left.s).s) IN
  IF ~left.ok \/ ~peek(b, left.s, {";"}) THEN left
  ELSE IF right.ok THEN Result(right.s, listcmd(left.cmd, right.cmd)) ELSE Syntax
parseline(b, s) == LineAfter(b, Backs(b, parsepipe(b, s)))

NoLeftovers(b, r) == IF r.ok /\ SkipBlanks(b, r.s) <= Len(b) THEN Syntax ELSE r
parsecmd_Leftovers(b) == parseline(b, 1)
parsecmd(b) == NoLeftovers(b, parseline(b, 1))

(* nulterminate(): the positions of the line that become 0.                 *)
RECURSIVE nulterminate(_)
nulterminate(cmd) ==
  CASE cmd.type = "EXEC" -> {w[2] : w \in ToSet(cmd.argv)}
    [] cmd.type = "REDIR" -> nulterminate(cmd.cmd) \cup {cmd.file[2]}
    [] cmd.type \in {"PIPE", "LIST"} -> nulterminate(cmd.left) \cup nulterminate(cmd.right)
    [] cmd.type = "BACK" -> nulterminate(cmd.cmd)

-----------------------------------------------------------------------------
(* The processes.  A descriptor is the terminal, a file or an end of a      *)
(* pipe, which is named after the process that made it.                     *)
Proc == 1..NPROC
Init_ == 0            \* the process init, which adopts orphans
Main == NPROC + 1     \* the shell itself
Object(kind, id) == [kind |-> kind, id |-> id]
None == Object("none", 0)
Fds == [d \in 0..(NOFILE - 1) |-> IF d <= 2 THEN Object("tty", 0) ELSE None]
Unused == [pc |-> "unused", cmd |-> execcmd(<<>>), fd |-> [d \in 0..(NOFILE - 1) |-> None], p |-> <<0, 0>>,
           parent |-> Init_, bg |-> FALSE]

Init ==
  /\ buf \in Lines /\ parsed = parsecmd(buf) /\ shell = "getcmd"
  /\ proc = [p \in Proc |-> Unused] /\ failed = FALSE

LowestFree(fd) == CHOOSE d \in DOMAIN fd : fd[d] = None /\ \A e \in 0..(d - 1) : fd[e] # None
closeFd(fd, d) == [fd EXCEPT ![d] = None]
newFd(fd, o) == [fd EXCEPT ![LowestFree(fd)] = o]

(* exit(): a process whose parent is gone is reaped by init.                *)
Exited(pr, p) ==
  [q \in Proc |->
     IF q = p THEN [Unused EXCEPT !.pc = IF pr[p].parent = Init_ THEN "gone" ELSE "zombie", !.parent = pr[p].parent]
     ELSE IF pr[q].parent = p THEN [pr[q] EXCEPT !.parent = Init_, !.pc = IF @ = "zombie" THEN "gone" ELSE @]
     ELSE pr[q]]

(* fork1(): the child runs cmd with descriptors fd; the parent goes on at   *)
(* pc.  It panics if there is no process left.                              *)
fork1(p, cmd, fd, bg, pc) ==
  LET free == {q \in Proc : proc[q].pc = "unused"}  c == CHOOSE q \in free : \A r \in free : q <= r IN
  IF free = {} THEN proc' = Exited(proc, p) /\ failed' = TRUE
  ELSE /\ proc' = [proc EXCEPT ![p].pc = pc,
                               ![c] = [Unused EXCEPT !.pc = "run", !.cmd = cmd, !.fd = fd, !.parent = p, !.bg = bg]]
       /\ UNCHANGED failed

Keep == UNCHANGED <<buf, parsed, shell>>
Runs(p, type) == proc[p].pc = "run" /\ proc[p].cmd.type = type /\ Keep
exit(p) == proc' = Exited(proc, p) /\ UNCHANGED failed

(* runcmd(), one action for each type of command; exec() or open() may fail. *)
runcmd_exec(p) ==
  /\ Runs(p, "EXEC")
  /\ \/ exit(p)
     \/ /\ proc[p].cmd.argv # <<>> /\ UNCHANGED failed
        /\ \E kind \in {"reads", "ignores"} : proc' = [proc EXCEPT ![p].pc = kind]

runcmd_redir(p) ==
  LET cmd == proc[p].cmd  fd == closeFd(proc[p].fd, cmd.fd) IN
  /\ Runs(p, "REDIR")
  /\ \/ exit(p)
     \/ /\ proc' = [proc EXCEPT ![p].fd = newFd(fd, Object("file", 0)), ![p].cmd = cmd.cmd]
        /\ UNCHANGED failed

runcmd_list(p) == Runs(p, "LIST") /\ fork1(p, proc[p].cmd.left, proc[p].fd, proc[p].bg, "list")

runcmd_back(p) ==
  \/ Runs(p, "BACK") /\ fork1(p, proc[p].cmd.cmd, proc[p].fd, TRUE, "exit")
  \/ proc[p].pc = "exit" /\ Keep /\ exit(p)

runcmd_pipe(p) ==
  LET r == LowestFree(proc[p].fd)  fd == newFd(proc[p].fd, Object("r", p))  w == LowestFree(fd) IN
  /\ Runs(p, "PIPE")
  /\ \/ exit(p)                                                       \* panic("pipe")
     \/ /\ proc' = [proc EXCEPT ![p].fd = newFd(fd, Object("w", p)), ![p].p = <<r, w>>, ![p].pc = "left"]
        /\ UNCHANGED failed

(* What the two children do before they go on, and the parent.              *)
Dup(fd, std, end) == newFd(closeFd(fd, std), fd[end])
CloseBoth_ReadOnly(fd, p) == closeFd(fd, p[1])
CloseBoth(fd, p) == closeFd(closeFd(fd, p[1]), p[2])

runcmd_left(p) ==
  LET me == proc[p] IN
  /\ me.pc = "left" /\ Keep
  /\ fork1(p, me.cmd.left, CloseBoth(Dup(me.fd, 1, me.p[2]), me.p), me.bg, "right")

runcmd_right(p) ==
  LET me == proc[p] IN
  /\ me.pc = "right" /\ Keep
  /\ fork1(p, me.cmd.right, CloseBoth(Dup(me.fd, 0, me.p[1]), me.p), me.bg, "parent")

runcmd_parent(p) ==
  /\ proc[p].pc = "parent" /\ Keep /\ UNCHANGED failed
  /\ proc' = [proc EXCEPT ![p].fd = CloseBoth(@, proc[p].p), ![p].pc = "wait1"]

(* wait() for a child, of PIPE or of LIST, which then runs its right side.  *)
AfterWait_Once(me) == IF me.pc = "list" THEN [me EXCEPT !.pc = "run", !.cmd = me.cmd.right] ELSE [me EXCEPT !.pc = "exit"]
AfterWait(me) ==
  CASE me.pc = "list" -> [me EXCEPT !.pc = "run", !.cmd = me.cmd.right]
    [] me.pc = "wait1" -> [me EXCEPT !.pc = "wait2"]
    [] me.pc = "wait2" -> [me EXCEPT !.pc = "exit"]

runcmd_wait(p) ==
  \E c \in Proc :
    /\ proc[p].pc \in {"list", "wait1", "wait2"} /\ Keep /\ UNCHANGED failed
    /\ proc[c].parent = p /\ proc[c].pc = "zombie"
    /\ proc' = [proc EXCEPT ![p] = AfterWait(@), ![c].pc = "gone"]

(* A program ends when it has its input, or wants none, and its output is   *)
(* read, or nobody can read it any more.                                    *)
Held(kind, id) == \E q \in Proc, d \in 0..(NOFILE - 1) : proc[q].fd[d] = Object(kind, id)
program(p) ==
  LET in == proc[p].fd[0]  out == proc[p].fd[1] IN
  /\ proc[p].pc \in {"reads", "ignores"} /\ Keep
  /\ (in.kind = "r" /\ proc[p].pc = "reads") => ~Held("w", in.id)
  /\ (out.kind = "w" /\ Held("r", out.id)) =>
       \E q \in Proc : proc[q].pc = "reads" /\ proc[q].fd[0] = Object("r", out.id)
  /\ exit(p)

(* main(): fork1(), parsecmd() in the child, where a syntax error is a      *)
(* panic, and wait().  When fork() fails, the shell itself panics.          *)
main_fork ==
  /\ shell = "getcmd" /\ UNCHANGED <<buf, parsed>>
  /\ \/ /\ shell' = "wait" /\ UNCHANGED failed
        /\ proc' = [proc EXCEPT ![1] = [Unused EXCEPT !.pc = IF parsed.ok THEN "run" ELSE "zombie", !.cmd = parsed.cmd,
                                                      !.fd = Fds, !.parent = Main]]
     \/ shell' = "exited" /\ failed' = TRUE /\ UNCHANGED proc

main_wait ==
  /\ shell = "wait" /\ proc[1].pc = "zombie" /\ shell' = "prompt"
  /\ proc' = [proc EXCEPT ![1].pc = "gone"] /\ UNCHANGED <<buf, parsed, failed>>

Step(p) ==
  \/ runcmd_exec(p) \/ runcmd_redir(p) \/ runcmd_list(p) \/ runcmd_back(p) \/ runcmd_pipe(p) \/ runcmd_left(p)
  \/ runcmd_right(p) \/ runcmd_parent(p) \/ runcmd_wait(p) \/ program(p)

Next == main_fork \/ main_wait \/ \E p \in Proc : Step(p)
Spec == Init /\ [][Next]_vars
FairSpec == Spec /\ WF_vars(main_fork \/ main_wait) /\ \A p \in Proc : WF_vars(Step(p))

-----------------------------------------------------------------------------
(* The grammar, as a definition to compare the parser with: a sequence of   *)
(* tokens is a line if it can be split in some way into a line.             *)
Cut(w, i, j) == SubSeq(w, i, j)
Redirs(w) == Len(w) % 2 = 0 /\ \A i \in DOMAIN w : w[i] \in (IF i % 2 = 1 THEN {"<", ">"} ELSE {"a"})
Simple(w) ==
  /\ \A i \in DOMAIN w : w[i] = "a" \/ (w[i] \in {"<", ">"} /\ i < Len(w) /\ w[i + 1] = "a")
  /\ Cardinality({i \in DOMAIN w : w[i] = "a" /\ (i = 1 \/ w[i - 1] = "a")}) < MAXARGS

RECURSIVE IsLine(_)
IsBlock(w) ==
  \E k \in DOMAIN w : k > 1 /\ w[1] = "(" /\ w[k] = ")" /\ IsLine(Cut(w, 2, k - 1)) /\ Redirs(Cut(w, k + 1, Len(w)))
RECURSIVE IsPipe(_)
IsPipe(w) ==
  \/ Simple(w) \/ IsBlock(w)
  \/ \E k \in DOMAIN w : w[k] = "|" /\ IsPipe(Cut(w, 1, k - 1)) /\ IsPipe(Cut(w, k + 1, Len(w)))
IsLine(w) ==
  \/ IsPipe(w)
  \/ w # <<>> /\ w[Len(w)] = "&" /\ IsLine(Cut(w, 1, Len(w) - 1))
  \/ \E k \in DOMAIN w : w[k] = ";" /\ IsLine(Cut(w, 1, k - 1)) /\ IsLine(Cut(w, k + 1, Len(w)))

(* The words of a line, and its tokens (">>" is one) by their kind.         *)
Words(b) ==
  {<<i, j>> \in (1..Len(b)) \X (2..(Len(b) + 1)) :
     i < j /\ (\A k \in i..(j - 1) : b[k] = "a") /\ At(b, j) # "a" /\ (i = 1 \/ b[i - 1] # "a")}
SecondOfPair(b, i) == Cardinality({k \in 1..(i - 1) : \A m \in k..i : b[m] = ">"}) % 2 = 1
Tokens(b) ==
  LET starts == {i \in DOMAIN b : \/ \E w \in Words(b) : w[1] = i
                                  \/ b[i] \in Symbols /\ ~SecondOfPair(b, i)}
      ordered == SelectSeq([i \in DOMAIN b |-> i], LAMBDA i : i \in starts)
  IN [i \in DOMAIN ordered |-> b[ordered[i]]]

RECURSIVE WordsOf(_)
WordsOf(cmd) ==
  CASE cmd.type = "EXEC" -> cmd.argv
    [] cmd.type = "REDIR" -> Append(WordsOf(cmd.cmd), cmd.file)
    [] cmd.type \in {"PIPE", "LIST"} -> WordsOf(cmd.left) \o WordsOf(cmd.right)
    [] cmd.type = "BACK" -> WordsOf(cmd.cmd)

(* parsecmd() accepts exactly the lines of the grammar; the tree has every  *)
(* word of the line once; and nulterminate() ends each word and cuts none,  *)
(* although words share the buffer with the symbols that follow them.       *)
ParseExact ==
  shell = "getcmd" =>
    LET r == parsed  words == WordsOf(r.cmd)  nul == nulterminate(r.cmd) \cup {Len(buf) + 1} IN
    /\ r.ok = IsLine(Tokens(buf))
    /\ r.ok => /\ ToSet(words) = Words(buf) /\ Len(words) = Cardinality(Words(buf))
              /\ \A w \in Words(buf) : w[2] \in nul /\ \A k \in w[1]..(w[2] - 1) : k \notin nul

(* The prompt comes back only when everything that was not sent to the      *)
(* background has ended, unless a fork() failed.                            *)
ForegroundFirst ==
  shell = "prompt" /\ ~failed => \A p \in Proc : proc[p].pc \in {"unused", "zombie", "gone"} \/ proc[p].bg

(* The prompt does come back: no process keeps an end of a pipe open that   *)
(* another waits to see closed.  Only when the fork1() of the shell itself  *)
(* fails does the shell end instead.                                        *)
PromptReturns == <>(shell \in {"prompt", "exited"})
=============================================================================
