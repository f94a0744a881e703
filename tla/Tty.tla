-------------------------------- MODULE Tty --------------------------------
(***************************************************************************)
(* What the console's input promises: a line is edited until it is ended;  *)
(* then it can no longer be changed, and readers take it byte by byte.     *)
(***************************************************************************)
EXTENDS Integers, Sequences, SequencesExt

CONSTANTS
  Char, LineEnd,   \* characters, and those that end a line
  Size             \* ended and unended characters held at most

VARIABLES ready, line

Init == ready = <<>> /\ line = <<>>

Type(c) ==
  LET n == Len(ready) + Len(line) + 1 IN
  /\ n <= Size
  /\ \/ (c \in LineEnd \/ n = Size) /\ ready' = ready \o line \o <<c>> /\ line' = <<>>
     \/ c \notin LineEnd /\ n < Size /\ line' = Append(line, c) /\ UNCHANGED ready

Erase == line # <<>> /\ line' = Front(line) /\ UNCHANGED ready

KillLine == line' = <<>> /\ UNCHANGED ready

Take == ready # <<>> /\ ready' = Tail(ready) /\ UNCHANGED line

Next == KillLine \/ Erase \/ Take \/ \E c \in Char : Type(c)

Spec == Init /\ [][Next]_<<ready, line>>
=============================================================================
