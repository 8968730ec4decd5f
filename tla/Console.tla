------------------------------- MODULE Console -------------------------------
(***************************************************************************)
(* The console: kernel/console.c and the serial port's driver              *)
(* kernel/uart.c.  uartintr() passes typed characters to consoleintr(),    *)
(* which edits the line and hands it to the readers; writers put           *)
(* characters in a ring that uartstart(), called by them and by            *)
(* uartintr(), sends.                                                      *)
(*                                                                         *)
(* Sections under cons.lock and under uart_tx_lock are steps.  uartstart() *)
(* sends one character in one step: the transmit register is then full.    *)
(* Characters are "x", a newline and the control characters the code       *)
(* knows; what a process writes is shown as the process.  The indices are  *)
(* unsigned integers and counted modulo WRAP, a multiple of the sizes of   *)
(* the buffers.  A slot outside cons.r..cons.e, or outside uart_tx_r..     *)
(* uart_tx_w, is not read before it is rewritten; it is shown empty.       *)
(***************************************************************************)
EXTENDS Integers, Sequences

CONSTANTS
    Readers, Writers,   \* processes
    Keys,               \* what is typed
    Sizes,              \* arguments n of consoleread and consolewrite
    INPUT_BUF_SIZE, UART_TX_BUF_SIZE,
    WRAP,               \* indices are counted modulo WRAP
    NONE

(* The indices wrap at a multiple of both sizes that is larger than them.  *)
ASSUME ConsoleAssumption ==
    /\ INPUT_BUF_SIZE \in Nat \ {0} /\ UART_TX_BUF_SIZE \in Nat \ {0} /\ WRAP \in Nat
    /\ INPUT_BUF_SIZE < WRAP /\ WRAP % INPUT_BUF_SIZE = 0
    /\ UART_TX_BUF_SIZE < WRAP /\ WRAP % UART_TX_BUF_SIZE = 0
    /\ Sizes \subseteq Nat \ {0}

VARIABLES
    cons,       \* cons.buf, cons.r, cons.w and cons.e
    reader,     \* consoleread() of each process
    tx,         \* uart_tx_buf (buf), uart_tx_w (w) and uart_tx_r (r)
    writer,     \* consolewrite() of each process
    thr,        \* the transmit register holds a character
    irq,        \* the port's interrupt for an empty transmit register
    intr,       \* uartintr(): "idle", or before its uartstart(): "input" when
                \* it has passed on a typed character, "start" when it has not
    ready,      \* history: input that was handed over and not read yet
    line,       \* history: the line as it has been typed and edited
    sent        \* history: output accepted by uartputc() and not sent yet

input == <<cons, reader, ready, line>>
output == <<tx, writer, sent>>
vars == <<input, output, thr, irq, intr>>

Plus(i, k) == (i + k + WRAP) % WRAP
Slot(i) == i % INPUT_BUF_SIZE
TxSlot(i) == i % UART_TX_BUF_SIZE
Out == [at |-> "idle"]

-----------------------------------------------------------------------------
(* consoleintr() for the typed character c.  The echo waits for the        *)
(* transmit register.                                                      *)
Echo == ~thr /\ thr' = TRUE /\ irq' = FALSE

WakeReaders == reader' = [p \in Readers |->
    IF reader[p].at = "asleep" THEN [reader[p] EXCEPT !.at = "run"] ELSE reader[p]]

KillLine ==
    /\ IF cons.e # cons.w THEN Echo ELSE UNCHANGED <<thr, irq>>
    /\ cons' = [cons EXCEPT !.e = cons.w,
                !.buf = [i \in DOMAIN @ |->
                    IF \E k \in 1..Plus(cons.e, -cons.w) : i = Slot(Plus(cons.e, -k)) THEN NONE ELSE @[i]]]
    /\ line' = <<>>
    /\ UNCHANGED <<reader, ready>>

(* Backspace or Delete.                                                    *)
Backspace ==
    /\ Echo
    /\ cons' = [cons EXCEPT !.e = Plus(@, -1), !.buf[Slot(Plus(cons.e, -1))] = NONE]
    /\ line' = SubSeq(line, 1, Len(line) - 1)
    /\ UNCHANGED <<reader, ready>>

(* Mutated form: readers are not woken when the buffer is full.            *)
Insert_FullSleeps(c) ==
    /\ Echo
    /\ LET e == Plus(cons.e, 1)
           commit == c \in {"nl", "^D"} \/ Plus(e, -cons.r) = INPUT_BUF_SIZE
       IN  /\ cons' = [cons EXCEPT !.buf[Slot(cons.e)] = c, !.e = e, !.w = IF commit THEN e ELSE @]
           /\ IF commit
              THEN /\ ready' = ready \o line \o <<c>> /\ line' = <<>>
                   /\ IF c \in {"nl", "^D"} THEN WakeReaders ELSE UNCHANGED reader
              ELSE line' = Append(line, c) /\ UNCHANGED <<ready, reader>>

Insert(c) ==
    /\ Echo
    /\ LET e == Plus(cons.e, 1)
           commit == c \in {"nl", "^D"} \/ Plus(e, -cons.r) = INPUT_BUF_SIZE
       IN  /\ cons' = [cons EXCEPT !.buf[Slot(cons.e)] = c, !.e = e, !.w = IF commit THEN e ELSE @]
           /\ IF commit
              THEN ready' = ready \o line \o <<c>> /\ line' = <<>> /\ WakeReaders
              ELSE line' = Append(line, c) /\ UNCHANGED <<ready, reader>>

consoleintr(c) ==
    /\ intr = "idle"
    /\ CASE c = "^U" -> KillLine
         [] c = "^H" /\ cons.e # cons.w -> Backspace
         [] c \notin {"^U", "^H"} /\ Plus(cons.e, -cons.r) < INPUT_BUF_SIZE -> Insert(c)
         [] OTHER -> UNCHANGED <<input, thr, irq>>
    /\ intr' = "input"
    /\ UNCHANGED output

-----------------------------------------------------------------------------
(* consoleread(), from one sleep() to the next.                            *)
consoleread(p, n) ==
    /\ reader[p] = Out
    /\ reader' = [reader EXCEPT ![p] = [at |-> "run", n |-> n, target |-> n]]
    /\ UNCHANGED <<cons, ready, line, output, thr, irq, intr>>

(* Takes k characters from the buffer.                                     *)
Take(k) ==
    /\ cons' = [cons EXCEPT !.r = Plus(@, k),
                !.buf = [i \in DOMAIN @ |->
                    IF \E j \in 0..(k - 1) : i = Slot(Plus(cons.r, j)) THEN NONE ELSE @[i]]]
    /\ ready' = SubSeq(ready, k + 1, Len(ready))

(* A newline or ^D ends the call; a ^D is left for the next call when      *)
(* something has been read.  A failing copyout loses the character.  Here  *)
(* i characters are in front of the first that ends the call, or i is all. *)
Stop(i) == cons.buf[Slot(Plus(cons.r, i))] \in {"nl", "^D"}

ReadSome(p) ==
    LET n == reader[p].n
        avail == Plus(cons.w, -cons.r)
    IN  /\ reader[p].at \in {"run", "killed"} /\ avail > 0
        /\ \E i \in 0..avail :
              /\ \A j \in 0..(i - 1) : ~Stop(j)
              /\ i < avail => Stop(i)
              /\ \/ /\ i >= n
                    /\ Take(n) /\ reader' = [reader EXCEPT ![p] = Out]
                 \/ /\ i < n /\ i < avail
                    /\ Take(IF cons.buf[Slot(Plus(cons.r, i))] = "^D" /\ n - i < reader[p].target
                            THEN i ELSE i + 1)
                    /\ reader' = [reader EXCEPT ![p] = Out]
                 \/ /\ i < n /\ i = avail
                    /\ Take(avail)
                    /\ reader' = [reader EXCEPT ![p] = IF @.at = "killed" THEN Out
                                                       ELSE [@ EXCEPT !.at = "asleep", !.n = n - i]]
                 \/ \E bad \in 0..(i - 1) :
                       bad < n /\ Take(bad + 1) /\ reader' = [reader EXCEPT ![p] = Out]
        /\ UNCHANGED <<line, output, thr, irq, intr>>

ReadSleeps(p) ==
    /\ reader[p].at \in {"run", "killed"} /\ cons.r = cons.w
    /\ reader' = [reader EXCEPT ![p] = IF @.at = "killed" THEN Out ELSE [@ EXCEPT !.at = "asleep"]]
    /\ UNCHANGED <<cons, ready, line, output, thr, irq, intr>>

kill(p) ==
    /\ reader[p].at \in {"run", "asleep"}
    /\ reader' = [reader EXCEPT ![p].at = "killed"]
    /\ UNCHANGED <<cons, ready, line, output, thr, irq, intr>>

-----------------------------------------------------------------------------
(* uartstart(), on the ring t: nothing to send, which reads the interrupt  *)
(* away; register full; or the next character goes out and the writers     *)
(* that wait for room wake up.                                             *)
uartstart(t, s, ws) ==
    IF t.w = t.r \/ thr
    THEN /\ tx' = t /\ sent' = s /\ writer' = ws
         /\ irq' = (irq /\ t.w # t.r)
         /\ UNCHANGED thr
    ELSE /\ tx' = [t EXCEPT !.r = Plus(@, 1), !.buf[TxSlot(t.r)] = NONE]
         /\ sent' = Tail(s)
         /\ thr' = TRUE /\ irq' = FALSE
         /\ writer' = [p \in Writers |-> IF ws[p].at = "asleep" THEN [ws[p] EXCEPT !.at = "run"] ELSE ws[p]]

consolewrite(p, n) ==
    /\ writer[p] = Out
    /\ writer' = [writer EXCEPT ![p] = [at |-> "run", n |-> n]]
    /\ UNCHANGED <<input, tx, sent, thr, irq, intr>>

(* uartputc(): room, or sleep.  Mutated form: the ring is thought to have  *)
(* one slot more.                                                          *)
Full_OffByOne == tx.w = Plus(tx.r, UART_TX_BUF_SIZE + 1)
Full == tx.w = Plus(tx.r, UART_TX_BUF_SIZE)

uartputc(p) ==
    /\ writer[p].at = "run" /\ ~Full
    /\ uartstart([tx EXCEPT !.buf[TxSlot(tx.w)] = p, !.w = Plus(@, 1)], Append(sent, p),
                 [writer EXCEPT ![p] = IF @.n = 1 THEN Out ELSE [@ EXCEPT !.n = writer[p].n - 1]])
    /\ UNCHANGED <<input, intr>>

PutcSleeps(p) ==
    /\ writer[p].at = "run" /\ Full
    /\ writer' = [writer EXCEPT ![p].at = "asleep"]
    /\ UNCHANGED <<input, tx, sent, thr, irq, intr>>

(* consolewrite() stops at an address it cannot read.                      *)
WriteBad(p) ==
    /\ writer[p].at = "run"
    /\ writer' = [writer EXCEPT ![p] = Out]
    /\ UNCHANGED <<input, tx, sent, thr, irq, intr>>

(* uartintr(): an interrupt without input, and the end of every one.       *)
uartintr ==
    /\ intr = "idle" /\ irq
    /\ intr' = "start"
    /\ UNCHANGED <<input, output, thr, irq>>

(* Mutated form: output is left to the writers.                            *)
uartintr_Ends_InputOnly ==
    /\ intr # "idle"
    /\ irq' = FALSE
    /\ intr' = "idle"
    /\ UNCHANGED <<input, output, thr>>

uartintr_Ends ==
    /\ intr # "idle"
    /\ uartstart(tx, sent, writer)
    /\ intr' = "idle"
    /\ UNCHANGED input

(* The port has sent what was in the transmit register.                    *)
Sent ==
    /\ thr
    /\ thr' = FALSE /\ irq' = TRUE
    /\ UNCHANGED <<input, output, intr>>

-----------------------------------------------------------------------------
(* consoleinit() and uartinit().                                           *)
Init ==
    /\ cons = [buf |-> [i \in 0..(INPUT_BUF_SIZE - 1) |-> NONE], r |-> 0, w |-> 0, e |-> 0]
    /\ tx = [buf |-> [i \in 0..(UART_TX_BUF_SIZE - 1) |-> NONE], r |-> 0, w |-> 0]
    /\ reader = [p \in Readers |-> Out] /\ writer = [p \in Writers |-> Out]
    /\ thr = FALSE /\ irq = FALSE /\ intr = "idle"
    /\ ready = <<>> /\ line = <<>> /\ sent = <<>>

Driver == uartintr \/ uartintr_Ends
Read(p) == ReadSome(p) \/ ReadSleeps(p)
Write(p) == uartputc(p) \/ PutcSleeps(p)

Next ==
    \/ \E c \in Keys : consoleintr(c)
    \/ \E p \in Readers : kill(p) \/ Read(p) \/ \E n \in Sizes : consoleread(p, n)
    \/ \E p \in Writers : WriteBad(p) \/ Write(p) \/ \E n \in Sizes : consolewrite(p, n)
    \/ Driver
    \/ Sent

(* The port sends and interrupts are taken.                                *)
Fairness == WF_vars(Driver \/ Sent)

Spec == Init /\ [][Next]_vars /\ Fairness

-----------------------------------------------------------------------------
Filled(b, r, n, size) == [i \in 1..n |-> b[Plus(r, i - 1) % size]]

(* cons.buf holds the input that was handed over, then the line being      *)
(* edited, and the transmit ring what was accepted and not sent, in order  *)
(* and without loss, however the indices wrap: erasing never reaches what  *)
(* readers may have (consoleintr()), and writers never overtake            *)
(* uartstart().  A full input buffer belongs to the readers.               *)
TextInOrder ==
    /\ Plus(cons.w, -cons.r) = Len(ready) /\ Plus(cons.e, -cons.w) = Len(line)
    /\ Len(ready) + Len(line) <= INPUT_BUF_SIZE
    /\ Filled(cons.buf, cons.r, Len(ready) + Len(line), INPUT_BUF_SIZE) = ready \o line
    /\ Len(ready) + Len(line) = INPUT_BUF_SIZE => line = <<>>
    /\ Plus(tx.w, -tx.r) = Len(sent) /\ Len(sent) <= UART_TX_BUF_SIZE
    /\ Filled(tx.buf, tx.r, Len(sent), UART_TX_BUF_SIZE) = sent

(* A reader sleeps only while there is nothing to read, and a writer only  *)
(* while the ring is full (consoleread() and uartputc()).                  *)
SleepersHaveReason ==
    /\ \A p \in Readers : reader[p].at = "asleep" => cons.r = cons.w
    /\ \A p \in Writers : writer[p].at = "asleep" => Full

(* What uartputc() has accepted is sent once nobody types: with output     *)
(* waiting, the port always has a character or an interrupt to come        *)
(* (uartstart()), even when an echo has taken the register in between.     *)
OutputDrains ==
    <>[](intr # "input") => []<>(sent = <<>>) \/ []<><<tx'.r # tx.r>>_vars
=============================================================================
