------------------------------ MODULE MCSched ------------------------------
(***************************************************************************)
(* The schedulers and the spinlocks for TLC.  Mlfq, Sched and Spinlock are *)
(* models of different builds or of different variables, so each is        *)
(* explored on its own: part, fixed at the start, says which one moves.    *)
(***************************************************************************)
EXTENDS Mlfq, Sched, Spinlock, TLC

VARIABLE part

\* The harts of Sched are not told apart.
Harts == Permutations(CPU)

\* set_priority is given a number below 0, which get_dynamic_priority makes the worst.
PriorityArgs == {-20}

allVars == <<part, vars, schedVars, spinVars>>

\* A part that rests has one initial state.
AllInit ==
  /\ part \in {"mlfq", "sched", "spinlock"}
  /\ Init /\ SchedInit /\ SpinInit
  /\ part # "sched" => build = "FCFS"
  /\ part # "spinlock" => \A c \in Context : frame[c] = "sys"

\* Bound: the clock interrupts a PBS hart until ticks has reached MaxTicks.
UntilMaxTicks == inclk = Nobody /\ inclk' # Nobody => now < MaxTicks

MlfqMoves  == part = "mlfq" /\ Next /\ UNCHANGED <<part, schedVars, spinVars>>
SchedMoves == part = "sched" /\ SchedNext /\ UntilMaxTicks /\ UNCHANGED <<part, vars, spinVars>>
SpinMoves  == part = "spinlock" /\ SpinNext /\ UNCHANGED <<part, vars, schedVars>>

\* After a panic of the MLFQ scheduler, or past the end of its rows, nothing moves;
\* nor do harts that take two spinlocks in opposite orders, which Spinlock leaves
\* to its callers.
Stuck ==
  /\ \/ part = "mlfq" /\ ~Up
     \/ part = "spinlock" /\ \A h \in Hart : spin[running[h]] # NoLock
  /\ UNCHANGED allVars

AllSpec == AllInit /\ [][MlfqMoves \/ SchedMoves \/ SpinMoves \/ Stuck]_allVars
=============================================================================
