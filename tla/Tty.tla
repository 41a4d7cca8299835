--------------------------------- MODULE Tty ---------------------------------
(***************************************************************************)
(* What the console promises to programs that read it: a line under        *)
(* editing, and the input that is ready to be read.                        *)
(***************************************************************************)
EXTENDS Integers, Sequences

CONSTANTS
  Letter,        \* ordinary characters; the others are below
  SIZE           \* characters the console keeps

VARIABLES ready, line

Ends == {"newline", "C-d"}       \* these end a line

Init == ready = <<>> /\ line = <<>>

(* A character joins the line, which becomes ready when it is complete or   *)
(* nothing more fits; what does not fit is lost.                            *)
Type(c) ==
  LET full == Len(ready) + Len(line) + 1 = SIZE  new == Append(line, c) IN
  /\ Len(ready) + Len(line) < SIZE
  /\ IF c \in Ends \/ full THEN ready' = ready \o new /\ line' = <<>>
     ELSE line' = new /\ UNCHANGED ready

Erase == line # <<>> /\ line' = SubSeq(line, 1, Len(line) - 1) /\ UNCHANGED ready
Kill == line' = <<>> /\ UNCHANGED ready

(* A read takes at most one line, in order, and takes an end-of-file mark   *)
(* only by itself.                                                          *)
Read ==
  \E k \in 1..Len(ready) :
    /\ \A i \in 1..(k - 1) : ready[i] \notin Ends
    /\ ready[k] = "C-d" => k = 1
    /\ ready' = SubSeq(ready, k + 1, Len(ready)) /\ UNCHANGED line

Next == Erase \/ Kill \/ Read \/ \E c \in Letter \cup Ends : Type(c)

Spec == Init /\ [][Next]_<<ready, line>>
=============================================================================
