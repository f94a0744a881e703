-------------------------------- MODULE Uart --------------------------------
(***************************************************************************)
(* kernel/uart.c: the transmit buffer that consolewrite fills, the UART    *)
(* and its interrupt, and the echo, which goes to the UART directly.       *)
(*                                                                         *)
(* uart_tx_lock is held by a process at "start"; every other critical      *)
(* section is one step.  The UART's FIFOs are enabled (uartinit), so a     *)
(* byte written by one hart after another hart saw LSR_TX_IDLE is queued   *)
(* and not lost: looking at LSR and writing THR are one step.  The indices *)
(* wrap at TxMod, a multiple of the buffer's size as 2^64 is.              *)
(***************************************************************************)
EXTENDS Integers, Sequences

CONSTANTS
  Writer,                  \* processes that write the console
  Out,                     \* characters they write
  NoChar,                    \* no character
  UART_TX_BUF_SIZE, TxMod,
  Echoes                   \* numbers of characters consoleintr echoes

ASSUME UartAssumption ==
  /\ UART_TX_BUF_SIZE \in Nat \ {0} /\ TxMod > UART_TX_BUF_SIZE
  /\ TxMod % UART_TX_BUF_SIZE = 0
  /\ Echoes \subseteq Nat /\ NoChar \notin Out \cup {"echo"}

VARIABLES
  uart_tx_buf, uart_tx_w, uart_tx_r,
  thr, rhr, irq,     \* the UART: holding register, input waiting, interrupt pending
  ipc, echo,         \* uartintr: where it is, characters left to echo
  upc                \* where each writer is

ring     == <<uart_tx_buf, uart_tx_w, uart_tx_r>>
uart     == <<thr, rhr, irq>>
handler  == <<ipc, echo>>
uartVars == <<ring, uart, handler, upc>>

UartTypeOK ==
  /\ uart_tx_buf \in [0 .. UART_TX_BUF_SIZE - 1 -> Out]
  /\ {uart_tx_w, uart_tx_r} \subseteq 0 .. TxMod - 1
  /\ thr \in Out \cup {"echo", NoChar} /\ rhr \in BOOLEAN /\ irq \in BOOLEAN
  /\ ipc \in {"off", "getc", "echo", "start"} /\ echo \in Nat
  /\ upc \in [Writer -> {"user", "put", "sleep", "start"}]

UartInit ==
  /\ \E c \in Out : uart_tx_buf = [i \in 0 .. UART_TX_BUF_SIZE - 1 |-> c]
  /\ uart_tx_w = 0 /\ uart_tx_r = 0
  /\ thr = NoChar /\ rhr = FALSE /\ irq = FALSE
  /\ ipc = "off" /\ echo = 0
  /\ upc = [p \in Writer |-> "user"]

-----------------------------------------------------------------------------
(* The device.                                                               *)

Transmit ==
  /\ thr # NoChar
  /\ thr' = NoChar /\ irq' = TRUE
  /\ UNCHANGED <<ring, rhr, handler, upc>>

Receive ==
  /\ ~rhr
  /\ rhr' = TRUE /\ irq' = TRUE
  /\ UNCHANGED <<ring, thr, handler, upc>>

-----------------------------------------------------------------------------
(* write() to the console.                                                   *)

WakeWaiting(f) == [p \in Writer |-> IF f[p] = "sleep" THEN "put" ELSE f[p]]

\* Mutation: uartstart leaves the character in the buffer.
StartTwice(f) ==
  IF uart_tx_w = uart_tx_r \/ thr # NoChar
  THEN upc' = f /\ UNCHANGED <<uart_tx_r, thr>>
  ELSE /\ upc' = WakeWaiting(f)
       /\ thr' = uart_tx_buf[uart_tx_r % UART_TX_BUF_SIZE]
       /\ UNCHANGED uart_tx_r

\* A turn of the loop that writes THR fills it, and the next one returns: one
\* character at most.
uartstart(f) ==
  IF uart_tx_w = uart_tx_r \/ thr # NoChar
  THEN upc' = f /\ UNCHANGED <<uart_tx_r, thr>>
  ELSE /\ upc' = WakeWaiting(f)
       /\ uart_tx_r' = (uart_tx_r + 1) % TxMod
       /\ thr' = uart_tx_buf[uart_tx_r % UART_TX_BUF_SIZE]

TxUnlocked == \A p \in Writer : upc[p] # "start"
TxFull     == uart_tx_w = (uart_tx_r + UART_TX_BUF_SIZE) % TxMod

\* consolewrite has a character for uartputc, or ends (all written, or copyin
\* failed).
ConsoleWrite(p) ==
  /\ upc[p] \in {"user", "put"}
  /\ upc' = [upc EXCEPT ![p] = IF @ = "user" THEN "put" ELSE "user"]
  /\ UNCHANGED <<ring, uart, handler>>

PutSleep(p) ==
  /\ upc[p] = "put" /\ TxUnlocked /\ TxFull
  /\ upc' = [upc EXCEPT ![p] = "sleep"]
  /\ UNCHANGED <<ring, uart, handler>>

uartputc(p, c) ==
  /\ upc[p] = "put" /\ TxUnlocked /\ ~TxFull
  /\ uart_tx_buf' = [uart_tx_buf EXCEPT ![uart_tx_w % UART_TX_BUF_SIZE] = c]
  /\ uart_tx_w' = (uart_tx_w + 1) % TxMod
  /\ upc' = [upc EXCEPT ![p] = "start"]
  /\ UNCHANGED <<uart_tx_r, uart, handler>>

\* The end of uartputc, and the next iteration of consolewrite.
PutStart(p) ==
  /\ upc[p] = "start"
  /\ uartstart([upc EXCEPT ![p] = "put"])
  /\ UNCHANGED <<uart_tx_buf, uart_tx_w, rhr, irq, handler>>

\* kill makes a sleeping process runnable, and uartputc looks again.
PutKilled(p) ==
  /\ upc[p] = "sleep"
  /\ upc' = [upc EXCEPT ![p] = "put"]
  /\ UNCHANGED <<ring, uart, handler>>

-----------------------------------------------------------------------------
(* uartintr.                                                                 *)

Interrupt ==
  /\ irq /\ ipc = "off"
  /\ irq' = FALSE /\ ipc' = "getc"
  /\ UNCHANGED <<ring, thr, rhr, echo, upc>>

\* uartgetc, and what consoleintr makes of the character (see Console).
uartgetc ==
  /\ ipc = "getc"
  /\ \/ ~rhr /\ ipc' = "start" /\ UNCHANGED echo
     \/ rhr /\ ipc' = "echo" /\ echo' \in Echoes
  /\ rhr' = FALSE
  /\ UNCHANGED <<ring, thr, irq, upc>>

\* The echo spins until THR is empty.
uartputc_sync ==
  /\ ipc = "echo" /\ echo > 0 /\ thr = NoChar
  /\ thr' = "echo" /\ echo' = echo - 1
  /\ UNCHANGED <<ring, rhr, irq, ipc, upc>>

Echoed ==
  /\ ipc = "echo" /\ echo = 0
  /\ ipc' = "getc"
  /\ UNCHANGED <<ring, uart, echo, upc>>

\* Mutation: the handler only looks for input.
EndIntrOnly == UNCHANGED <<upc, uart_tx_r, thr>>

SendBuffered == uartstart(upc)

IntrEnd ==
  /\ ipc = "start" /\ TxUnlocked
  /\ SendBuffered
  /\ ipc' = "off"
  /\ UNCHANGED <<uart_tx_buf, uart_tx_w, rhr, irq, echo>>

uartintr == Interrupt \/ uartgetc \/ uartputc_sync \/ Echoed \/ IntrEnd

UartNext ==
  \/ Transmit \/ Receive \/ uartintr
  \/ \E p \in Writer : \/ ConsoleWrite(p) \/ PutSleep(p) \/ PutStart(p) \/ PutKilled(p)
                       \/ \E c \in Out : uartputc(p, c)

-----------------------------------------------------------------------------
Waiting ==
  [k \in 1 .. (uart_tx_w - uart_tx_r) % TxMod |->
     uart_tx_buf[(uart_tx_r + k - 1) % UART_TX_BUF_SIZE]]

\* The characters of write() that are not yet on the line: the one in THR, unless
\* that is an echo, and those in the buffer.
Unsent == (IF thr \in Out THEN <<thr>> ELSE <<>>) \o Waiting

Sending == INSTANCE Fifo WITH
  Item <- Out, Capacity <- UART_TX_BUF_SIZE + 1, queue <- Unsent, readopen <- TRUE, writeopen <- TRUE

\* uartputc and uartstart, called from both halves of the driver, pass the
\* characters of write() to the UART once each and in order: what uartputc takes
\* joins the end of a queue whose head the UART transmits, and uartstart, which
\* moves it from the buffer to THR between echoes, changes nothing of it.
OutputIsFifo == Sending!Spec

\* Output does not stall: while characters wait in uart_tx_buf the UART is
\* sending one, its interrupt is pending or being handled, or uartputc is about
\* to start it.
NeverStalls == Waiting # <<>> => thr # NoChar \/ irq \/ ipc # "off" \/ ~TxUnlocked

\* A writer sleeps in uartputc only while the buffer is full: each character that
\* uartstart sends, from either half of the driver, wakes it.
WritersSleepOnFull == \A p \in Writer : upc[p] = "sleep" => TxFull

\* Output flows: characters in the buffer are on their way and writers sleep only
\* for room, whichever half of the driver acts.
OutputFlows == UartTypeOK /\ NeverStalls /\ WritersSleepOnFull
=============================================================================
