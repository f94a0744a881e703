------------------------------ MODULE Console ------------------------------
(***************************************************************************)
(* Line input of kernel/console.c: consoleintr, called by the UART's       *)
(* interrupt handler for each key, and consoleread.  The unsigned indices  *)
(* wrap at ConsMod, a multiple of the buffer's size as 2^32 is.            *)
(***************************************************************************)
EXTENDS Integers, Sequences

CONSTANTS
  Reader,          \* processes that read the console
  Intr, Free,      \* the interrupt handler; nobody
  INPUT_BUF_SIZE, ConsMod,
  ReadCounts,      \* values of n in consoleread
  Keys             \* keys that are typed

ASSUME ConsoleAssumption ==
  /\ {Intr, Free} \cap Reader = {} /\ Intr # Free
  /\ INPUT_BUF_SIZE \in Nat \ {0} /\ ConsMod > INPUT_BUF_SIZE
  /\ ConsMod % INPUT_BUF_SIZE = 0
  /\ ReadCounts \subseteq Nat \ {0}

\* A letter, and the characters that consoleread tells apart.  ^P, which only
\* prints, is like NUL.
Chars == {"x", "nl", "^D"}

VARIABLES
  cbuf, r, w, e,      \* cons
  clock,              \* the owner of cons.lock
  cpc, left, got,     \* a call: where it is, n, and whether n < target
  marked,             \* killed processes
  missed              \* history: those killed on their way to sleep

cons     == <<cbuf, r, w, e>>
consVars == <<cons, clock, cpc, left, got, marked, missed>>

ConsoleTypeOK ==
  /\ cbuf \in [0 .. INPUT_BUF_SIZE - 1 -> Chars]
  /\ {r, w, e} \subseteq 0 .. ConsMod - 1
  /\ clock \in Reader \cup {Intr, Free}
  /\ cpc \in [Reader -> {"user", "read", "tosleep", "sleep", "lock"}]
  /\ left \in [Reader -> ReadCounts \cup (0 .. INPUT_BUF_SIZE)] /\ got \in [Reader -> BOOLEAN]
  /\ missed \subseteq marked /\ marked \subseteq Reader

ConsoleInit ==
  /\ cbuf = [i \in 0 .. INPUT_BUF_SIZE - 1 |-> "x"] /\ r = 0 /\ w = 0 /\ e = 0
  /\ clock = Free
  /\ cpc = [p \in Reader |-> "user"]
  /\ left = [p \in Reader |-> 0] /\ got = [p \in Reader |-> FALSE]
  /\ marked = {} /\ missed = {}

Plus(i, n) == (i + n) % ConsMod
Span(i, j) == (j - i) % ConsMod
At(i)      == cbuf[i % INPUT_BUF_SIZE]

-----------------------------------------------------------------------------
WakeReading(f) == [p \in Reader |-> IF f[p] = "sleep" THEN "lock" ELSE f[p]]

EndsLine(c, edit) == c \in {"nl", "^D"} \/ Span(r, edit) = INPUT_BUF_SIZE

\* Mutation: the line ends without a wakeup.
LineEndedQuietly(edit) == w' = edit /\ UNCHANGED cpc

LineEnded(edit) == w' = edit /\ cpc' = WakeReading(cpc)

NoSpace == Span(r, e) >= INPUT_BUF_SIZE

\* The default case of consoleintr.
Store(c) ==
  /\ ~NoSpace
  /\ cbuf' = [cbuf EXCEPT ![e % INPUT_BUF_SIZE] = c]
  /\ e' = Plus(e, 1)
  /\ \/ EndsLine(c, e') /\ LineEnded(e')
     \/ ~EndsLine(c, e') /\ UNCHANGED <<w, cpc>>

\* ^U: the characters back to a newline, at most to w.
OnLine ==
  LET line == {n \in 0 .. Span(w, e) : \A i \in 1 .. n : At(Plus(e, -i)) # "nl"}
  IN  CHOOSE n \in line : \A m \in line : m <= n

\* Mutation: backspace erases as long as there is anything to read.
EraseTooMuch == IF e = r THEN 0 ELSE 1

EraseOne == IF e = w THEN 0 ELSE 1

Erase(n) == e' = Plus(e, -n) /\ UNCHANGED <<cbuf, w, cpc>>

\* consoleintr, which keeps cons.lock while it echoes.
consoleintr(k) ==
  /\ clock = Free /\ clock' = Intr
  /\ CASE k = "^U" -> Erase(OnLine)
       [] k = "^H" -> Erase(EraseOne)
       [] k = "nul" -> Erase(0)
       [] OTHER -> Store(IF k = "cr" THEN "nl" ELSE k) \/ (NoSpace /\ Erase(0))
  /\ UNCHANGED <<r, left, got, marked, missed>>

EchoEnd ==
  /\ clock = Intr /\ clock' = Free
  /\ UNCHANGED <<cons, cpc, left, got, marked, missed>>

-----------------------------------------------------------------------------
consoleread(p, n) ==
  /\ cpc[p] = "user" /\ p \notin marked /\ clock = Free
  /\ clock' = p
  /\ cpc' = [cpc EXCEPT ![p] = "read"]
  /\ left' = [left EXCEPT ![p] = n]
  /\ UNCHANGED <<cons, got, marked, missed>>

Woken(p) ==
  /\ cpc[p] = "lock" /\ clock = Free
  /\ clock' = p
  /\ cpc' = [cpc EXCEPT ![p] = "read"]
  /\ UNCHANGED <<cons, left, got, marked, missed>>

\* consoleread returns.
Returns(p) ==
  /\ clock' = Free
  /\ cpc' = [cpc EXCEPT ![p] = "user"]
  /\ left' = [left EXCEPT ![p] = 0] /\ got' = [got EXCEPT ![p] = FALSE]

\* Nothing to read: give up when killed, else call sleep() ...
NoLine(p) ==
  /\ cpc[p] = "read" /\ r = w
  /\ \/ p \in marked /\ Returns(p)
     \/ /\ p \notin marked
        /\ cpc' = [cpc EXCEPT ![p] = "tosleep"]
        /\ UNCHANGED <<clock, left, got>>
  /\ UNCHANGED <<cons, marked, missed>>

\* ... which releases cons.lock once it holds p->lock.
SleepOnLine(p) ==
  /\ cpc[p] = "tosleep"
  /\ cpc' = [cpc EXCEPT ![p] = "sleep"] /\ clock' = Free
  /\ UNCHANGED <<cons, left, got, marked, missed>>

AfterEof(p) == IF got[p] THEN r ELSE Plus(r, 1)

\* ^D is left for the next call if this one has bytes to return.
TakeEof(p) ==
  /\ cpc[p] = "read" /\ r # w /\ At(r) = "^D"
  /\ r' = AfterEof(p)
  /\ Returns(p)
  /\ UNCHANGED <<cbuf, w, e, marked, missed>>

\* A byte is taken; the call ends with the line, with n, or when
\* either_copyout fails.
TakeByte(p) ==
  /\ cpc[p] = "read" /\ r # w /\ At(r) # "^D"
  /\ r' = Plus(r, 1)
  /\ \/ Returns(p)
     \/ /\ left[p] > 1 /\ At(r) # "nl"
        /\ left' = [left EXCEPT ![p] = @ - 1] /\ got' = [got EXCEPT ![p] = TRUE]
        /\ UNCHANGED <<clock, cpc>>
  /\ UNCHANGED <<cbuf, w, e, marked, missed>>

WakeKilled(p) == cpc' = [cpc EXCEPT ![p] = IF @ = "sleep" THEN "lock" ELSE @]

\* kill takes p->lock only: it may come between killed() and sleep().
ConsoleKill(p) ==
  /\ p \notin marked
  /\ marked' = marked \cup {p}
  /\ missed' = IF cpc[p] = "tosleep" THEN missed \cup {p} ELSE missed
  /\ WakeKilled(p)
  /\ UNCHANGED <<cons, clock, left, got>>

\* A killed process exits on its way to user space, and a new one takes its place.
Replaced(p) ==
  /\ p \in marked /\ cpc[p] = "user"
  /\ marked' = marked \ {p} /\ missed' = missed \ {p}
  /\ UNCHANGED <<cons, clock, cpc, left, got>>

Reading(p) == NoLine(p) \/ SleepOnLine(p) \/ TakeEof(p) \/ TakeByte(p)

ConsoleNext ==
  \/ \E k \in Keys : consoleintr(k)
  \/ EchoEnd
  \/ \E p \in Reader : \/ \E n \in ReadCounts : consoleread(p, n)
                       \/ Woken(p) \/ Reading(p) \/ ConsoleKill(p) \/ Replaced(p)

-----------------------------------------------------------------------------
Between(i, j) == [k \in 1 .. Span(i, j) |-> At(Plus(i, k - 1))]

Lines == INSTANCE Tty WITH
  Char <- Chars, LineEnd <- {"nl", "^D"}, Size <- INPUT_BUF_SIZE,
  ready <- Between(r, w), line <- Between(w, e)

\* "Save ^D for next time, to make sure caller gets a 0-byte result": a ^D leaves
\* the buffer only in a call that returns no bytes.
EofGivesZero == [][\A p \in Reader : TakeEof(p) /\ r' # r => ~got[p]]_consVars

\* The three indices of cons.buf implement line editing: erasing never reaches
\* an ended line or one being read, nothing is overwritten or lost when the
\* indices wrap, and a full buffer ends the line so that readers can empty it.
InputIsLines == Lines!Spec /\ EofGivesZero

\* A reader never sleeps through the end of a line, whichever way that falls between
\* its look at r and w and its sleep; nor through its own kill, except one that falls
\* between killed() and sleep(): then it sleeps on until the next line.
ReaderSleepsOnNothing ==
  \A p \in Reader : cpc[p] = "sleep" => r = w /\ (p \in marked => p \in missed)

\* No reader is left asleep: r and w tell the truth while it sleeps.
ReadersServed == ConsoleTypeOK /\ ReaderSleepsOnNothing
=============================================================================
