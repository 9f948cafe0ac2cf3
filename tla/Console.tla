------------------------------ MODULE Console -------------------------------
(***************************************************************************)
(* The console: consoleread(), consolewrite() and consoleintr()            *)
(* (console.c) over the UART driver (uart.c), with its interrupt through   *)
(* the PLIC (plic.c, devintr() of trap.c) and with the kernel's printf()   *)
(* and panic() (printf.c), which write to the same device.                 *)
(*                                                                         *)
(* The actors are threads in a system call or in printf(), and the hart    *)
(* that serves the UART's interrupt.  An actor is a stack of places, the   *)
(* innermost first.  An actor that holds a spin lock, has called           *)
(* push_off() or handles an interrupt keeps interrupts off on the hart it  *)
(* runs on, so there are at most NHart of these at a time; Trap has the    *)
(* details of spin locks.  Reading LSR and writing THR are separate steps. *)
(*                                                                         *)
(* A definition placed just before another one of its kind and named for   *)
(* what it gets wrong is a fault the properties are tested against.        *)
(***************************************************************************)
EXTENDS Integers, Sequences, SequencesExt, FiniteSets

CONSTANTS
    Writer, Reader, Printer,  \* threads that write(), read() and printf()
    Faulty,                   \* threads whose buffer in user space may be unmapped
    NHart,
    INPUT_BUF_SIZE, UART_TX_BUF_SIZE,
    WRAP,                     \* the range of the indices: 2^32 and 2^64 in the code
    Used,                     \* characters that have gone through both rings before
    Text,                     \* what a writer writes
    MaxRead,                  \* how many characters a reader asks for
    Reads,                    \* how many times it asks
    Killable,                 \* threads that another process may kill
    Scenarios,                \* pairs: the threads that take part, and what is typed
    None

ASSUME ConsoleAssumption ==
    /\ NHart \in Nat \ {0} /\ INPUT_BUF_SIZE \in Nat \ {0} /\ UART_TX_BUF_SIZE \in Nat \ {0}
    /\ WRAP % INPUT_BUF_SIZE = 0 /\ WRAP % UART_TX_BUF_SIZE = 0
    /\ WRAP > INPUT_BUF_SIZE /\ WRAP > UART_TX_BUF_SIZE
    /\ Used \in Nat /\ MaxRead \in Nat /\ Reads \in Nat

Thread  == Writer \cup Reader \cup Printer
Intr    == "intr"              \* the handler of the UART's interrupt
Actor   == Thread \cup {Intr}
Lock    == {"cons", "uart_tx", "pr"}

NL  == "\n"
EOF == "^D"

VARIABLES
    stack,                 \* per actor: where it is
    noff,                  \* per actor: its push_off()s not yet popped
    lk,                    \* who holds each lock
    i,                     \* per writer: i of consolewrite()
    ch,                    \* c of uartintr() and consoleintr()
    got, reads,            \* per reader: what this consoleread() has stored (<<EOF>>: it
                           \* returns 0 for ^D), and the calls left
    killed,
    buf, r, w, e,          \* cons
    uart_tx_buf, uart_tx_w, uart_tx_r,
    thr, rx,               \* the UART: bytes waiting to be sent, bytes received
    irq,                   \* the PLIC: the interrupt is pending, being served
    typing,                \* what is still to be typed
    locking, panicked      \* pr.locking

consvars == <<buf, r, w, e>>
txvars   == <<uart_tx_buf, uart_tx_w, uart_tx_r>>
devvars  == <<thr, rx, irq, typing>>
readvars == <<got, reads, killed>>
prvars   == <<locking, panicked>>
cpuvars  == <<noff, lk>>
local    == <<i, ch>>
vars     == <<stack, cpuvars, local, readvars, consvars, txvars, devvars, prvars>>

Init ==
    /\ \E s \in Scenarios :
          /\ stack = [a \in Actor |-> IF a \notin s[1] THEN <<>>
                                      ELSE IF a \in Writer THEN <<"consolewrite">>
                                      ELSE IF a \in Reader THEN <<"read">> ELSE <<"kernel">>]
          /\ typing = s[2]
    /\ noff = [a \in Actor |-> 0]
    /\ lk = [l \in Lock |-> None]
    /\ i = [t \in Writer |-> 1] /\ ch = "NUL"
    /\ got = [t \in Reader |-> <<>>] /\ reads = [t \in Reader |-> Reads]
    /\ killed = {}
    /\ buf = [k \in 0 .. INPUT_BUF_SIZE - 1 |-> NL]
    /\ r = Used % WRAP /\ w = r /\ e = r
    /\ uart_tx_buf = [k \in 0 .. UART_TX_BUF_SIZE - 1 |-> Text[1]]
    /\ uart_tx_w = Used % WRAP /\ uart_tx_r = uart_tx_w
    /\ thr = 0 /\ rx = <<>> /\ irq = [pending |-> FALSE, served |-> FALSE]
    /\ locking = TRUE /\ panicked = FALSE

(***************************************************************************)
(* Calls, locks and interrupts.                                            *)
(***************************************************************************)
At(a, place) == stack[a] # <<>> /\ Head(stack[a]) = place
Goto(a, places) == stack' = [stack EXCEPT ![a] = places \o Tail(@)]

\* wakeup(chan) by an actor that goes on at places.
GotoWaking(a, places, asleep, woken) ==
    stack' = [b \in Actor |-> IF b = a THEN places \o Tail(stack[a])
                              ELSE IF At(b, asleep) THEN <<woken>> \o Tail(stack[b])
                              ELSE stack[b]]

Off == {a \in Actor : noff[a] > 0}
CanPushOff(a) == noff[a] > 0 \/ Cardinality(Off) < NHart

acquire(a, l) ==
    /\ CanPushOff(a) /\ lk[l] = None
    /\ lk' = [lk EXCEPT ![l] = a] /\ noff' = [noff EXCEPT ![a] = @ + 1]

release(a, l) ==
    lk' = [lk EXCEPT ![l] = None] /\ noff' = [noff EXCEPT ![a] = @ - 1]

(***************************************************************************)
(* kill() by some other process: of a thread asleep or not.                *)
(***************************************************************************)
kill(t) ==
    /\ t \notin killed /\ killed' = killed \cup {t}
    /\ stack' = [stack EXCEPT ![t] = IF At(t, "asleep_r") THEN <<"woken_r">> \o Tail(@)
                                     ELSE IF At(t, "asleep_tx") THEN <<"woken_tx">> \o Tail(@)
                                     ELSE @]
    /\ UNCHANGED <<cpuvars, local, got, reads, consvars, txvars, devvars, prvars>>

(***************************************************************************)
(* The UART sends, with an interrupt when it runs empty, and receives.     *)
(* The PLIC keeps an interrupt that comes while one is being served.       *)
(***************************************************************************)
Transmit ==
    /\ thr > 0 /\ thr' = thr - 1
    /\ irq' = [irq EXCEPT !.pending = @ \/ thr = 1]
    /\ UNCHANGED <<stack, cpuvars, local, readvars, consvars, txvars, rx, typing, prvars>>

Receive ==
    /\ typing # <<>> /\ typing' = Tail(typing)
    /\ rx' = Append(rx, Head(typing)) /\ irq' = [irq EXCEPT !.pending = TRUE]
    /\ UNCHANGED <<stack, cpuvars, local, readvars, consvars, txvars, thr, prvars>>

(***************************************************************************)
(* uartputc_sync(): wait for the UART to be idle, and write to it.         *)
(***************************************************************************)
\* The UART cannot take another byte.
NeverBusy == FALSE
Busy == thr > 0

uartputc_sync(a) ==
    /\ At(a, "uartputc_sync") /\ CanPushOff(a) /\ noff' = [noff EXCEPT ![a] = @ + 1]
    /\ IF panicked THEN Goto(a, <<"spin">>) ELSE ~Busy /\ Goto(a, <<"sync_write">>)
    /\ UNCHANGED <<lk, local, readvars, consvars, txvars, devvars, prvars>>

sync_write(a) ==
    /\ At(a, "sync_write") /\ thr' = thr + 1
    /\ noff' = [noff EXCEPT ![a] = @ - 1]
    /\ Goto(a, <<>>)
    /\ UNCHANGED <<lk, local, readvars, consvars, txvars, rx, irq, typing, prvars>>

\* consputc(): the places a call adds to the stack.
Echo  == <<"uartputc_sync">>
Rub   == <<"uartputc_sync", "uartputc_sync", "uartputc_sync">>

(***************************************************************************)
(* uartstart(): called with uart_tx_lock held, which its callers release.  *)
(***************************************************************************)
TxFullLate == uart_tx_w = (uart_tx_r + UART_TX_BUF_SIZE + 1) % WRAP
TxFull == uart_tx_w = (uart_tx_r + UART_TX_BUF_SIZE) % WRAP

WakeNobody(a) == Goto(a, <<"uartstart_write", "uartstart">>)
WakeWriters(a) == GotoWaking(a, <<"uartstart_write", "uartstart">>, "asleep_tx", "woken_tx")

uartstart(a) ==
    /\ At(a, "uartstart")
    /\ IF uart_tx_w = uart_tx_r \/ Busy
       THEN release(a, "uart_tx") /\ Goto(a, <<>>) /\ UNCHANGED uart_tx_r
       ELSE uart_tx_r' = (uart_tx_r + 1) % WRAP /\ WakeWriters(a) /\ UNCHANGED cpuvars
    /\ UNCHANGED <<local, readvars, consvars, uart_tx_buf, uart_tx_w, devvars, prvars>>

uartstart_write(a) ==
    /\ At(a, "uartstart_write") /\ thr' = thr + 1 /\ Goto(a, <<>>)
    /\ UNCHANGED <<cpuvars, local, readvars, consvars, txvars, rx, irq, typing, prvars>>

(***************************************************************************)
(* consolewrite() and uartputc().                                          *)
(***************************************************************************)
consolewrite(t) ==
    /\ At(t, "consolewrite")
    /\ \/ i[t] <= Len(Text) /\ Goto(t, <<"uartputc", "consolewrite">>)
       \/ i[t] > Len(Text) /\ Goto(t, <<>>)
       \/ t \in Faulty /\ Goto(t, <<>>)
    /\ UNCHANGED <<cpuvars, local, readvars, consvars, txvars, devvars, prvars>>

uartputc(t) ==
    /\ \/ At(t, "uartputc") /\ Goto(t, IF panicked THEN <<"spin">> ELSE <<"uartputc_put">>)
       \/ At(t, "woken_tx") /\ Goto(t, <<"uartputc_put">>)
    /\ acquire(t, "uart_tx")
    /\ UNCHANGED <<local, readvars, consvars, txvars, devvars, prvars>>

uartputc_put(t) ==
    /\ At(t, "uartputc_put")
    /\ \/ /\ TxFull /\ release(t, "uart_tx") /\ Goto(t, <<"asleep_tx">>)
          /\ UNCHANGED <<local, txvars>>
       \/ /\ ~TxFull
          /\ uart_tx_buf' = [uart_tx_buf EXCEPT ![uart_tx_w % UART_TX_BUF_SIZE] = Text[i[t]]]
          /\ uart_tx_w' = (uart_tx_w + 1) % WRAP
          /\ i' = [i EXCEPT ![t] = @ + 1] /\ UNCHANGED ch
          /\ Goto(t, <<"uartstart">>)
          /\ UNCHANGED <<cpuvars, uart_tx_r>>
    /\ UNCHANGED <<readvars, consvars, devvars, prvars>>

(***************************************************************************)
(* consoleread(): under cons.lock, one character at a time.                *)
(***************************************************************************)
read(t) ==
    /\ At(t, "read") /\ reads[t] > 0
    /\ reads' = [reads EXCEPT ![t] = @ - 1] /\ got' = [got EXCEPT ![t] = <<>>]
    /\ acquire(t, "cons") /\ Goto(t, <<"consoleread", "cons_release", "read">>)
    /\ UNCHANGED <<local, killed, consvars, txvars, devvars, prvars>>

\* "Save ^D for next time" when this read has something to return.
EofTaken(t) == r' = (r + 1) % WRAP /\ UNCHANGED got
EofSaved(t) ==
    IF got[t] # <<>> THEN UNCHANGED <<r, got>>
    ELSE r' = (r + 1) % WRAP /\ got' = [got EXCEPT ![t] = <<EOF>>]

consoleread(t) ==
    /\ At(t, "consoleread")
    /\ LET c == buf[r % INPUT_BUF_SIZE]
       IN \/ /\ Len(got[t]) = MaxRead /\ Goto(t, <<>>) /\ UNCHANGED <<r, got>>
          \/ /\ Len(got[t]) < MaxRead /\ r = w
             /\ Goto(t, IF t \in killed THEN <<>> ELSE <<"sleep_r">>)
             /\ UNCHANGED <<r, got>>
          \/ /\ Len(got[t]) < MaxRead /\ r # w /\ c = EOF
             /\ EofSaved(t) /\ Goto(t, <<>>)
          \/ /\ Len(got[t]) < MaxRead /\ r # w /\ c # EOF
             /\ r' = (r + 1) % WRAP /\ got' = [got EXCEPT ![t] = Append(@, c)]
             /\ Goto(t, IF c = NL THEN <<>> ELSE <<"consoleread">>)
          \/ /\ Len(got[t]) < MaxRead /\ r # w /\ c # EOF /\ t \in Faulty
             /\ r' = (r + 1) % WRAP /\ Goto(t, <<>>) /\ UNCHANGED got
    /\ UNCHANGED <<cpuvars, local, reads, killed, buf, w, e, txvars, devvars, prvars>>

sleep_r(t) ==
    /\ At(t, "sleep_r") /\ release(t, "cons") /\ Goto(t, <<"asleep_r">>)
    /\ UNCHANGED <<local, readvars, consvars, txvars, devvars, prvars>>

woken_r(t) ==
    /\ At(t, "woken_r") /\ acquire(t, "cons") /\ Goto(t, <<"consoleread">>)
    /\ UNCHANGED <<local, readvars, consvars, txvars, devvars, prvars>>

(***************************************************************************)
(* The interrupt: devintr(), uartintr() and consoleintr().                 *)
(***************************************************************************)
\* A hart with interrupts on takes the external interrupt and claims it.  (Another
\* hart that takes it too claims nothing and returns.)
devintr ==
    /\ irq.pending /\ ~irq.served /\ irq' = [pending |-> FALSE, served |-> TRUE]
    /\ CanPushOff(Intr) /\ noff' = [noff EXCEPT ![Intr] = 1]
    /\ stack' = [stack EXCEPT ![Intr] = <<"uartintr", "plic_complete">>]
    /\ UNCHANGED <<lk, local, readvars, consvars, txvars, thr, rx, typing, prvars>>

plic_complete ==
    /\ At(Intr, "plic_complete") /\ irq' = [irq EXCEPT !.served = FALSE]
    /\ noff' = [noff EXCEPT ![Intr] = 0] /\ ch' = "NUL"
    /\ Goto(Intr, <<>>)
    /\ UNCHANGED <<lk, i, readvars, consvars, txvars, thr, rx, typing, prvars>>

\* uartgetc() until it returns -1; then the transmit buffer.
AfterInput == <<>>
AfterReceive == <<"uartintr_tx">>

uartintr ==
    /\ At(Intr, "uartintr")
    /\ IF rx # <<>>
       THEN /\ ch' = Head(rx) /\ rx' = Tail(rx)
            /\ Goto(Intr, <<"consoleintr", "uartintr">>)
       ELSE Goto(Intr, AfterReceive) /\ UNCHANGED <<ch, rx>>
    /\ UNCHANGED <<cpuvars, i, readvars, consvars, txvars, thr, irq, typing, prvars>>

uartintr_tx ==
    /\ At(Intr, "uartintr_tx") /\ acquire(Intr, "uart_tx") /\ Goto(Intr, <<"uartstart">>)
    /\ UNCHANGED <<local, readvars, consvars, txvars, devvars, prvars>>

\* The character before the edit index may be erased.
EraseAny == e # r
Erasable == e # w
Before(k) == (k - 1) % WRAP
Filled == (e - r) % WRAP

consoleintr ==
    /\ At(Intr, "consoleintr") /\ acquire(Intr, "cons")
    /\ LET c == ch
       IN \/ /\ c = "^P" /\ Goto(Intr, <<"printf", "cons_release">>) /\ UNCHANGED <<ch, e>>
          \/ /\ c = "^U" /\ Goto(Intr, <<"kill_line", "cons_release">>) /\ UNCHANGED <<ch, e>>
          \/ /\ c = "^H"
             /\ IF Erasable THEN e' = Before(e) /\ Goto(Intr, Rub \o <<"cons_release">>)
                            ELSE Goto(Intr, <<"cons_release">>) /\ UNCHANGED e
             /\ UNCHANGED ch
          \/ /\ c \notin {"^P", "^U", "^H"}
             /\ IF c # "NUL" /\ Filled < INPUT_BUF_SIZE
                THEN /\ ch' = IF c = "\r" THEN NL ELSE c
                     /\ Goto(Intr, Echo \o <<"store", "cons_release">>)
                ELSE Goto(Intr, <<"cons_release">>) /\ UNCHANGED ch
             /\ UNCHANGED e
    /\ UNCHANGED <<i, readvars, buf, r, w, txvars, devvars, prvars>>

kill_line ==
    /\ At(Intr, "kill_line")
    /\ IF Erasable /\ buf[Before(e) % INPUT_BUF_SIZE] # NL
       THEN e' = Before(e) /\ Goto(Intr, Rub \o <<"kill_line">>)
       ELSE Goto(Intr, <<>>) /\ UNCHANGED e
    /\ UNCHANGED <<cpuvars, local, readvars, buf, r, w, txvars, devvars, prvars>>

store ==
    /\ At(Intr, "store")
    /\ LET c == ch
       IN /\ buf' = [buf EXCEPT ![e % INPUT_BUF_SIZE] = c]
          /\ e' = (e + 1) % WRAP
          /\ IF c \in {NL, EOF} \/ Filled + 1 = INPUT_BUF_SIZE
             THEN w' = e' /\ GotoWaking(Intr, <<>>, "asleep_r", "woken_r")
             ELSE Goto(Intr, <<>>) /\ UNCHANGED w
    /\ UNCHANGED <<cpuvars, local, readvars, r, txvars, devvars, prvars>>

cons_release(a) ==
    /\ At(a, "cons_release") /\ release(a, "cons") /\ Goto(a, <<>>)
    /\ UNCHANGED <<local, readvars, consvars, txvars, devvars, prvars>>

(***************************************************************************)
(* printf() of one character, and panic().                                 *)
(***************************************************************************)
kernel(t) ==
    /\ At(t, "kernel") /\ (Goto(t, <<"printf">>) \/ Goto(t, <<"panic">>))
    /\ UNCHANGED <<cpuvars, local, readvars, consvars, txvars, devvars, prvars>>

printf(a) ==
    /\ At(a, "printf") /\ Goto(a, IF locking THEN <<"printf_lock">> ELSE <<"printf_put">>)
    /\ UNCHANGED <<cpuvars, local, readvars, consvars, txvars, devvars, prvars>>

printf_lock(a) ==
    /\ At(a, "printf_lock") /\ acquire(a, "pr") /\ Goto(a, <<"printf_put", "pr_release">>)
    /\ UNCHANGED <<local, readvars, consvars, txvars, devvars, prvars>>

\* A printing thread may find that it cannot go on, and panic: fmt is 0, or a trap.
printf_put(a) ==
    /\ At(a, "printf_put")
    /\ Goto(a, Echo) \/ (a \in Printer /\ locking /\ Goto(a, <<"panic">>))
    /\ UNCHANGED <<cpuvars, local, readvars, consvars, txvars, devvars, prvars>>

pr_release(a) ==
    /\ At(a, "pr_release") /\ release(a, "pr") /\ Goto(a, <<>>)
    /\ UNCHANGED <<local, readvars, consvars, txvars, devvars, prvars>>

StillLocking == UNCHANGED locking
StopLocking == locking' = FALSE

panic(a) ==
    /\ At(a, "panic") /\ StopLocking /\ Goto(a, <<"printf", "panicked">>)
    /\ UNCHANGED <<cpuvars, local, readvars, consvars, txvars, devvars, panicked>>

set_panicked(a) ==
    /\ At(a, "panicked") /\ panicked' = TRUE /\ Goto(a, <<"spin">>)
    /\ UNCHANGED <<cpuvars, local, readvars, consvars, txvars, devvars, locking>>

WriterStep(t) == consolewrite(t) \/ uartputc(t) \/ uartputc_put(t)
ReaderStep(t) == read(t) \/ consoleread(t) \/ sleep_r(t) \/ woken_r(t)
IntrStep == uartintr \/ uartintr_tx \/ consoleintr \/ kill_line \/ store \/ plic_complete
PrintStep(a) == printf(a) \/ printf_lock(a) \/ printf_put(a) \/ pr_release(a) \/ panic(a) \/ set_panicked(a)
UartStep(a) ==
    \/ uartputc_sync(a) \/ sync_write(a)
    \/ uartstart(a) \/ uartstart_write(a) \/ cons_release(a)

Step(a) ==
    \/ a \in Writer /\ WriterStep(a)
    \/ a \in Reader /\ ReaderStep(a)
    \/ a \in Printer /\ kernel(a)
    \/ a = Intr /\ IntrStep
    \/ PrintStep(a) \/ UartStep(a)

Next ==
    \/ Transmit \/ Receive
    \/ \E t \in Killable : kill(t)
    \/ devintr
    \/ \E a \in Actor : Step(a)

\* The UART sends, a pending interrupt is taken, and who can go on does.
Fairness ==
    /\ WF_vars(Transmit) /\ WF_vars(devintr)
    /\ \A a \in Actor : WF_vars(Step(a))

Spec == Init /\ [][Next]_vars /\ Fairness

(***************************************************************************)
(* Properties.                                                             *)
(***************************************************************************)
Between(ring, size, from, to) ==
    [k \in 1 .. (to - from) % WRAP |-> ring[((from + k - 1) % WRAP) % size]]

Terminal == INSTANCE Tty WITH
    Char <- {"a", NL, EOF}, Size <- INPUT_BUF_SIZE,
    line <- Between(buf, INPUT_BUF_SIZE, w, e), ready <- Between(buf, INPUT_BUF_SIZE, r, w)

\* cons.buf with its three indices is a terminal: readers see complete lines only, in
\* the order typed and each once, erasing never reaches what is ready, and ^D gives
\* some reader a read of 0 bytes even if it ends a read that has characters (console.c).
InputIsTty == Terminal!Spec

Pending == Between(uart_tx_buf, UART_TX_BUF_SIZE, uart_tx_r, uart_tx_w)

TxQueue == INSTANCE Fifo WITH
    Byte <- Range(Text), Size <- UART_TX_BUF_SIZE, exists <- TRUE, queue <- Pending

\* What consolewrite() puts into uart_tx_buf, uartstart() takes in that order, whoever
\* calls it, also when the indices wrap (uart.c).
OutputIsFifo == [][TxQueue!Get \/ \E c \in Range(Text) : TxQueue!Put(c)]_Pending

\* uartputc_sync() does not take uart_tx_lock, so several harts may have found the UART
\* idle before one of them writes to it.  It never holds more bytes than there are
\* harts, which its FIFO of 16 bytes can take (NCPU is 8): no byte is lost.
NoOverrun == thr <= NHart

\* Nobody sleeps on &cons.r when a line is ready, nor on &uart_tx_r when there is room:
\* the wakeup()s of consoleintr() and uartstart() reach every sleeper.
SleepersHaveReason ==
    \A t \in Thread : /\ At(t, "asleep_r") => r = w
                     /\ At(t, "asleep_tx") => TxFull

\* Every write() to the console ends, unless the kernel panics: for what is left in
\* uart_tx_buf when uartstart() finds the UART busy, with the echo of a character or
\* with a printf(), an interrupt comes.
WriterFinishes == \A t \in Writer : <>(stack[t] = <<>> \/ panicked)

\* Whoever panics gets to stop the other harts' output, also when it holds pr.lock
\* itself or the holder of pr.lock panics (panic() sets pr.locking to 0).
PanicGetsOut == \A t \in Printer : At(t, "panic") ~> panicked
=============================================================================
