----------------------------- MODULE MCDevices -----------------------------
(***************************************************************************)
(* The disk driver, the buffer cache, the UART and the console for TLC.    *)
(* The modules share no variables (what Bio assumes of the driver, DiskIO, *)
(* Virtio is shown to implement), so each is explored on its own: part,    *)
(* fixed at the start, says which one moves.                               *)
(***************************************************************************)
EXTENDS Bio, Virtio, Uart, Console, TLC

VARIABLE part

\* The processes are not told apart.
Users == Permutations(User)

allVars == <<part, bioVars, virtioVars, uartVars, consVars>>

\* A part that rests has one initial state.
AllInit ==
  /\ part \in {"bio", "virtio", "uart", "console"}
  /\ BioInit /\ VirtioInit /\ UartInit /\ ConsoleInit
  /\ part # "bio" => \A k \in Blk : disk[k] = Max(Val)
  /\ part # "virtio" => NUM = Max(Sizes) /\ \A c \in Caller : sector[c] = Max(Datum)
  /\ part # "uart" => \A i \in DOMAIN uart_tx_buf : uart_tx_buf[i] = "a"

BioMoves     == part = "bio" /\ BioNext /\ UNCHANGED <<part, virtioVars, uartVars, consVars>>
VirtioMoves  == part = "virtio" /\ VirtioNext /\ UNCHANGED <<part, bioVars, uartVars, consVars>>
UartMoves    == part = "uart" /\ UartNext /\ UNCHANGED <<part, bioVars, virtioVars, consVars>>
ConsoleMoves == part = "console" /\ ConsoleNext /\ UNCHANGED <<part, bioVars, virtioVars, uartVars>>

\* After a panic nothing moves.
Halted == Panicked /\ UNCHANGED allVars

AllSpec == AllInit /\ [][BioMoves \/ VirtioMoves \/ UartMoves \/ ConsoleMoves \/ Halted]_allVars
=============================================================================
