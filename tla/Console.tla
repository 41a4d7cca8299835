------------------------------- MODULE Console -------------------------------
(***************************************************************************)
(* Console and UART: console.c, uart.c, the locking of printf.c, and the   *)
(* PLIC as devintr() uses it.  Programs write through the transmit buffer, *)
(* printf() and the echo write straight to the device, one program reads,  *)
(* and the interrupt handler runs on whichever hart claims the interrupt.  *)
(*                                                                         *)
(* A character in the transmit buffer is its number in the order of        *)
(* acceptance; one that uartputc_sync() sends is Sync.                     *)
(***************************************************************************)
EXTENDS Integers, Sequences

CONSTANTS
  Writer,                 \* programs in consolewrite()
  Typed,                  \* bound: what is typed
  INPUT_BUF,
  UART_TX_BUF_SIZE,
  FIFO,                   \* characters in the transmitter of the UART
  UINT,                   \* 2^32 (cons.r, w, e) and 2^64 (uart_tx_r, w) in the code
  START,                  \* the indices at the start, as earlier traffic left them
  MAXREAD,                \* bound: bytes a read() asks for
  Traffic,                \* bound: how much is typed, written, printed and read
  NULL

ASSUME WidthAssumption == UINT % INPUT_BUF = 0 /\ UINT % UART_TX_BUF_SIZE = 0

VARIABLES
  cons,                   \* buf and the indices r, w, e
  tx,                     \* uart_tx_buf and the indices r, w
  cons_lock, uart_tx_lock, pr_lock,
  pc,                     \* where writers, "printf", "reader" and "intr" are
  echo,                   \* characters the handler still has to echo
  want,                   \* what the reader asked for, and what is left of it
  killed,                 \* the reader was killed
  rx, fifo, next, lost,   \* the UART: received, to be sent, number sent next, overrun
  pend, claimed,          \* the PLIC
  left                    \* what may still be typed, written, printed, read

device == <<rx, fifo, next, lost, pend, claimed>>
vars == <<cons, tx, cons_lock, uart_tx_lock, pr_lock, pc, echo, want, killed, device, left>>

Sync == -1
Thread == Writer \cup {"printf", "reader", "intr"}

Init ==
  /\ cons = [buf |-> [i \in 0..(INPUT_BUF - 1) |-> NULL], r |-> START, w |-> START, e |-> START]
  /\ tx = [buf |-> [i \in 0..(UART_TX_BUF_SIZE - 1) |-> 0], r |-> START, w |-> START]
  /\ cons_lock = NULL /\ uart_tx_lock = NULL /\ pr_lock = NULL
  /\ pc = [t \in Thread |-> "idle"] /\ echo = 0 /\ want = [target |-> 0, n |-> 0] /\ killed = FALSE
  /\ rx = <<>> /\ fifo = <<>> /\ next = START /\ lost = FALSE /\ pend = FALSE /\ claimed = FALSE
  /\ left \in Traffic

Plus(a, b) == (a + b) % UINT
Minus(a, b) == (a - b + UINT) % UINT
Spend(kind) == left[kind] > 0 /\ left' = [left EXCEPT ![kind] = @ - 1]
Goto(t, l) == pc' = [pc EXCEPT ![t] = l]
(* wakeup(&uart_tx_r) and wakeup(&cons.r).                                  *)
WakeWriters(q) == [t \in Thread |-> IF q[t] = "tx_sleep" THEN "putc" ELSE q[t]]
WakeReader(q) == IF q["reader"] = "read_sleep" THEN [q EXCEPT !["reader"] = "read"] ELSE q

-----------------------------------------------------------------------------
(* The UART.  It says LSR_TX_IDLE when it has nothing to send, and has room *)
(* for FIFO characters since uartinit() enables the queues.                 *)
FifoSize_Disabled == 1
FifoSize == FIFO
Idle == fifo = <<>>
WriteTHR(c) ==
  IF Len(fifo) < FifoSize THEN fifo' = Append(fifo, c) /\ UNCHANGED lost
  ELSE lost' = TRUE /\ UNCHANGED fifo

(* One character leaves; an interrupt when that was the last.               *)
Transmit ==
  /\ fifo # <<>> /\ fifo' = Tail(fifo)
  /\ next' = IF Head(fifo) = Sync THEN next ELSE Plus(next, 1)
  /\ pend' = (pend \/ Len(fifo) = 1)
  /\ UNCHANGED <<cons, tx, cons_lock, uart_tx_lock, pr_lock, pc, echo, want, killed, rx, lost, claimed, left>>

Receive(c) ==
  /\ rx = <<>> /\ rx' = <<c>> /\ pend' = TRUE /\ Spend("typed")
  /\ UNCHANGED <<cons, tx, cons_lock, uart_tx_lock, pr_lock, pc, echo, want, killed, fifo, next, lost, claimed>>

-----------------------------------------------------------------------------
(* uartputc_sync(): wait until the UART is idle, then write.  No lock.      *)
SyncPoll(t) == /\ pc[t] = "poll" /\ Idle /\ Goto(t, "sync")
               /\ UNCHANGED <<cons, tx, cons_lock, uart_tx_lock, pr_lock, echo, want, killed, device, left>>
SyncPut(t, l) == pc[t] = "sync" /\ WriteTHR(Sync) /\ Goto(t, l)

(* printf() of one character, under pr.lock.                                *)
printf ==
  \/ /\ pc["printf"] = "idle" /\ pr_lock = NULL /\ pr_lock' = "printf" /\ Goto("printf", "poll")
     /\ Spend("printed") /\ UNCHANGED <<cons, tx, cons_lock, uart_tx_lock, echo, want, killed, device>>
  \/ SyncPoll("printf")
  \/ /\ SyncPut("printf", "idle") /\ pr_lock' = NULL
     /\ UNCHANGED <<cons, tx, cons_lock, uart_tx_lock, echo, want, killed, rx, next, pend, claimed, left>>

-----------------------------------------------------------------------------
(* uartstart(), by a thread that holds uart_tx_lock and goes on at l.       *)
Full == tx.w = Plus(tx.r, UART_TX_BUF_SIZE)

WakeAfterSend_Missing(q) == q
WakeAfterSend(q) == WakeWriters(q)

uartstart(t, l) ==
  \/ /\ pc[t] = "start" /\ (tx.w = tx.r \/ ~Idle)
     /\ uart_tx_lock' = NULL /\ Goto(t, l)
     /\ UNCHANGED <<cons, tx, cons_lock, pr_lock, echo, want, killed, device, left>>
  \/ /\ pc[t] = "start" /\ tx.w # tx.r /\ Idle /\ Goto(t, "thr")
     /\ UNCHANGED <<cons, tx, cons_lock, uart_tx_lock, pr_lock, echo, want, killed, device, left>>
  \/ /\ pc[t] = "thr" /\ WriteTHR(tx.buf[tx.r % UART_TX_BUF_SIZE])
     /\ tx' = [tx EXCEPT !.r = Plus(@, 1)]
     /\ pc' = WakeAfterSend([pc EXCEPT ![t] = "start"])
     /\ UNCHANGED <<cons, cons_lock, uart_tx_lock, pr_lock, echo, want, killed, rx, next, pend, claimed, left>>

(* uartputc(), called by consolewrite(), or again at its loop.              *)
PutcFrom(t) == (pc[t] = "idle" /\ Spend("written")) \/ (pc[t] = "putc" /\ UNCHANGED left)

uartputc(t) ==
  \/ /\ PutcFrom(t) /\ uart_tx_lock = NULL /\ Full /\ Goto(t, "tx_sleep")
     /\ UNCHANGED <<cons, tx, cons_lock, uart_tx_lock, pr_lock, echo, want, killed, device>>
  \/ /\ PutcFrom(t) /\ uart_tx_lock = NULL /\ ~Full /\ uart_tx_lock' = t /\ Goto(t, "start")
     /\ tx' = [tx EXCEPT !.buf[tx.w % UART_TX_BUF_SIZE] = tx.w, !.w = Plus(@, 1)]
     /\ UNCHANGED <<cons, cons_lock, pr_lock, echo, want, killed, device>>
  \/ uartstart(t, "idle")

-----------------------------------------------------------------------------
(* consoleintr(c) with cons.lock held: the new state of cons, what is       *)
(* echoed (consputc() erases with three characters), and whether the reader *)
(* is woken.                                                                *)
Edited == Minus(cons.e, cons.w)
Char(c) == IF c = "return" THEN "newline" ELSE c
At(i) == cons.buf[i % INPUT_BUF]

(* Characters that "kill line" takes away: those after the last newline.    *)
Killed ==
  LET Stops == {k \in 1..Edited : At(Minus(cons.e, k)) = "newline"} IN
  IF Stops = {} THEN Edited ELSE (CHOOSE k \in Stops : \A j \in Stops : k <= j) - 1

HasRoom(c) == Minus(cons.e, cons.r) < INPUT_BUF

Stored(c) ==
  LET e == Plus(cons.e, 1)
      done == Char(c) \in {"newline", "C-d"} \/ e = Plus(cons.r, INPUT_BUF)
  IN [cons EXCEPT !.buf[cons.e % INPUT_BUF] = Char(c), !.e = e, !.w = IF done THEN e ELSE @]

(* The reader is woken when a line or the buffer is full.                   *)
Wakes_NewlineOnly(c) == Char(c) = "newline"
Wakes(c) == Stored(c).w # cons.w

consoleintr(c) ==
  /\ cons_lock = NULL /\ cons_lock' = "intr"
  /\ CASE c = "C-u" -> /\ cons' = [cons EXCEPT !.e = Minus(@, Killed)] /\ echo' = 3 * Killed
                       /\ Goto("intr", IF Killed = 0 THEN "unlock" ELSE "poll")
       [] c = "C-h" -> /\ cons' = IF Edited = 0 THEN cons ELSE [cons EXCEPT !.e = Minus(@, 1)]
                       /\ echo' = IF Edited = 0 THEN 0 ELSE 3
                       /\ Goto("intr", IF Edited = 0 THEN "unlock" ELSE "poll")
       [] c = "C-p" -> UNCHANGED <<cons, echo>> /\ Goto("intr", "procdump")
       [] OTHER -> /\ cons' = IF HasRoom(c) THEN Stored(c) ELSE cons
                   /\ echo' = IF HasRoom(c) THEN 1 ELSE 0
                   /\ LET q == [pc EXCEPT !["intr"] = IF HasRoom(c) THEN "poll" ELSE "unlock"] IN
                      pc' = IF HasRoom(c) /\ Wakes(c) THEN WakeReader(q) ELSE q

(* devintr() and uartintr(): claim, take characters until there are none,   *)
(* start the transmitter, complete.                                         *)
uartintr ==
  \/ /\ pc["intr"] = "idle" /\ pend /\ ~claimed /\ pend' = FALSE /\ claimed' = TRUE /\ Goto("intr", "getc")
     /\ UNCHANGED <<cons, tx, cons_lock, uart_tx_lock, pr_lock, echo, want, killed, rx, fifo, next, lost, left>>
  \/ /\ pc["intr"] = "getc" /\ rx # <<>> /\ consoleintr(Head(rx)) /\ rx' = <<>>
     /\ UNCHANGED <<tx, uart_tx_lock, pr_lock, want, killed, fifo, next, lost, pend, claimed, left>>
  \/ /\ pc["intr"] = "procdump" /\ pr_lock = NULL /\ echo' = 1 /\ Goto("intr", "poll")
     /\ UNCHANGED <<cons, tx, cons_lock, uart_tx_lock, pr_lock, want, killed, device, left>>
  \/ SyncPoll("intr")
  \/ /\ SyncPut("intr", IF echo = 1 THEN "unlock" ELSE "poll") /\ echo' = echo - 1
     /\ UNCHANGED <<cons, tx, cons_lock, uart_tx_lock, pr_lock, want, killed, rx, next, pend, claimed, left>>
  \/ /\ pc["intr"] = "unlock" /\ cons_lock' = NULL /\ Goto("intr", "getc")
     /\ UNCHANGED <<cons, tx, uart_tx_lock, pr_lock, echo, want, killed, device, left>>
  \/ /\ pc["intr"] = "getc" /\ rx = <<>> /\ uart_tx_lock = NULL /\ uart_tx_lock' = "intr" /\ Goto("intr", "start")
     /\ UNCHANGED <<cons, tx, cons_lock, pr_lock, echo, want, killed, device, left>>
  \/ uartstart("intr", "complete")
  \/ /\ pc["intr"] = "complete" /\ claimed' = FALSE /\ Goto("intr", "idle")
     /\ UNCHANGED <<cons, tx, cons_lock, uart_tx_lock, pr_lock, echo, want, killed, rx, fifo, next, lost, pend, left>>

-----------------------------------------------------------------------------
(* consoleread(): what is ready, up to the first byte that ends the read.   *)
(* A bad address ends it after any byte.                                    *)
Ready == [i \in 1..Minus(cons.w, cons.r) |-> At(Plus(cons.r, i - 1))]
Line == [i \in 1..Edited |-> At(Plus(cons.w, i - 1))]

(* How many bytes the read takes if it ends at byte k: an end-of-file mark  *)
(* after other bytes stays for the next read.                               *)
Consumed_SwallowsEof(k) == k
Consumed(k) == IF Ready[k] = "C-d" /\ want.n - (k - 1) < want.target THEN k - 1 ELSE k

EndsRead(k) == Ready[k] \in {"newline", "C-d"} \/ k = want.n

consoleread ==
  LET K == {k \in 1..Len(Ready) : EndsRead(k)}
      first == CHOOSE k \in K : \A j \in K : k <= j
      Return(k) == /\ cons' = [cons EXCEPT !.r = Plus(@, k)] /\ Goto("reader", "idle")
                   /\ want' = [target |-> 0, n |-> 0] /\ killed' = FALSE
  IN
  \/ /\ pc["reader"] = "idle" /\ Goto("reader", "read")
     /\ \E n \in 1..MAXREAD : want' = [target |-> n, n |-> n]
     /\ Spend("read") /\ UNCHANGED <<cons, tx, cons_lock, uart_tx_lock, pr_lock, echo, killed, device>>
  \/ /\ pc["reader"] = "read" /\ cons_lock = NULL
     /\ UNCHANGED <<tx, cons_lock, uart_tx_lock, pr_lock, echo, device, left>>
     /\ \/ K # {} /\ Return(Consumed(first))
        \/ \E k \in 1..Len(Ready) :                            \* either_copyout() fails at byte k
             (\A j \in K : j >= k) /\ Ready[k] # "C-d" /\ Return(k)
        \/ K = {} /\ killed /\ Return(Len(Ready))
        \/ /\ K = {} /\ ~killed /\ cons' = [cons EXCEPT !.r = cons.w] /\ UNCHANGED killed
           /\ want' = [want EXCEPT !.n = @ - Len(Ready)] /\ Goto("reader", "read_sleep")

(* kill() of the reader while it sleeps; a killed process returns and is    *)
(* gone, and another one reads.                                             *)
kill ==
  /\ pc["reader"] = "read_sleep" /\ killed' = TRUE /\ pc' = WakeReader(pc)
  /\ UNCHANGED <<cons, tx, cons_lock, uart_tx_lock, pr_lock, echo, want, device, left>>

-----------------------------------------------------------------------------
Next ==
  \/ printf \/ uartintr \/ consoleread \/ kill \/ Transmit
  \/ \E t \in Writer : uartputc(t)
  \/ \E c \in Typed : Receive(c)

(* The UART sends, harts take interrupts and processes that hold or wait    *)
(* for a spin-lock go on; nobody has to call printf(), write or read.       *)
Fairness ==
  /\ WF_vars(Transmit) /\ SF_vars(uartintr)
  /\ \A t \in Writer : SF_vars(pc[t] # "idle" /\ uartputc(t))
  /\ SF_vars(pc["printf"] # "idle" /\ printf) /\ SF_vars(pc["reader"] # "idle" /\ consoleread)

Spec == Init /\ [][Next]_vars /\ Fairness

-----------------------------------------------------------------------------
(* Output is complete and in order: what is in the UART and in the transmit *)
(* buffer are the characters that were accepted and not sent yet, and no    *)
(* write to THR finds the UART full, though uartputc_sync() takes no lock.  *)
Buffered == SelectSeq(fifo, LAMBDA c : c # Sync)
OutputInOrder ==
  LET pending == Buffered \o [i \in 1..Minus(tx.w, tx.r) |-> tx.buf[Plus(tx.r, i - 1) % UART_TX_BUF_SIZE]] IN
  /\ ~lost /\ Len(pending) = Minus(tx.w, next)
  /\ \A i \in 1..Len(pending) : pending[i] = Plus(next, i - 1)

(* Nobody sleeps for nothing: a sleeping reader has no input, a sleeping    *)
(* writer a full buffer, and buffered output has an interrupt to come (the  *)
(* UART is sending, or one is pending or being handled) or a thread that is *)
(* in uartstart().                                                          *)
NoLostWakeup ==
  /\ pc["reader"] = "read_sleep" => cons.r = cons.w
  /\ \A t \in Writer : pc[t] = "tx_sleep" => Full
  /\ tx.r # tx.w => fifo # <<>> \/ pend \/ claimed \/ uart_tx_lock # NULL

(* Input is what Tty promises: a line under editing, and ready lines.       *)
LineInput == INSTANCE Tty WITH Letter <- Typed \ {"newline", "C-d", "C-u", "C-h", "C-p", "return"},
                               SIZE <- INPUT_BUF, ready <- Ready, line <- Line
InputAsTyped == LineInput!Spec

(* A writer that found the buffer full is woken.                            *)
WritersWoken == \A t \in Writer : pc[t] = "tx_sleep" ~> pc[t] # "tx_sleep"
=============================================================================
