-------------------------------- MODULE MCFs --------------------------------
(***************************************************************************)
(* Small instances of Fs for TLC.                                          *)
(***************************************************************************)
EXTENDS Fs, TLC

Root(s) == [abs |-> TRUE, elems |-> s]
Here(s) == [abs |-> FALSE, elems |-> s]
Call(op, path) == [op |-> op, path |-> path, new |-> path, mode |-> "O_RDWR"]

AllCalls ==
  {Call("creat", Root(<<"a">>)), Call("creat", Root(<<"a", "b">>)),
   [Call("open", Root(<<"a">>)) EXCEPT !.mode = "O_TRUNC"],
   [Call("open", Here(<<"b">>)) EXCEPT !.mode = "O_RDONLY"],
   Call("mkdir", Root(<<"a">>)), Call("mknod", Root(<<"b">>)),
   Call("unlink", Root(<<"a">>)), Call("unlink", Root(<<"a", "b">>)), Call("unlink", Root(<<>>)),
   [Call("link", Root(<<"a">>)) EXCEPT !.new = Root(<<"b">>)],
   Call("chdir", Root(<<"a">>)), Call("chdir", Root(<<"a", "b">>)), Call("chdir", Here(<<"..">>)),
   Call("write", NULL), Call("close", NULL)}

(* What an earlier run may have left: directories /a and /a/b.              *)
NestedDisk ==
  LET dirnode(n, b) == [type |-> "T_DIR", nlink |-> n, addrs |-> {b}] IN
  [EmptyDisk EXCEPT !.dinode = [i \in Inum |-> CASE i = 1 -> dirnode(2, 1) [] i = 2 -> dirnode(2, 2) [] i = 3 -> dirnode(1, 3)
                                                [] OTHER -> FreeDinode],
                    !.dir[1].ents["a"] = 2, !.dir[2] = [ents |-> [NoEntries EXCEPT !["b"] = 3], up |-> 1],
                    !.dir[3].up = 2, !.used = {1, 2, 3}]
StartDisks == {EmptyDisk, NestedDisk}

ProcSymmetry == Permutations(Proc)
=============================================================================
