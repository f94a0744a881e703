------------------------------- MODULE MCLive -------------------------------
(***************************************************************************)
(* Log, Alarm and Ticks for TLC.  They share no state, so each is explored *)
(* on its own: part, fixed at the start, says which one moves.             *)
(***************************************************************************)
EXTENDS Log, Alarm, Ticks, FiniteSetsExt

VARIABLE part

A0Values == {-1, 0, 7}
AlarmIntervals == {-1, 0, 1, 2}

liveVars == <<part, vars, alarmVars, ticksVars>>

\* A part that rests has one initial state.
LiveInit ==
  /\ part \in {"log", "alarm", "ticks"}
  /\ Init /\ AlarmInit /\ TicksInit
  /\ part # "log" => \A b \in Block : home[b] = Max(Val)
  /\ part # "alarm" => regs.pc = (CHOOSE m \in Main : TRUE) /\ alarm_trap = regs

\* Bound: ticks wraps at the first tick, and the clock stops before it wraps again.
WrapsOnce == ticks # ticks' => ticks' # TickMod - 1

LogMoves   == part = "log" /\ Next /\ UNCHANGED <<part, alarmVars, ticksVars>>
AlarmMoves == part = "alarm" /\ AlarmNext /\ UNCHANGED <<part, vars, ticksVars>>
TicksMoves == part = "ticks" /\ TicksNext /\ WrapsOnce /\ UNCHANGED <<part, vars, alarmVars>>

\* A machine that has panicked, and a process that has exited, do nothing more.
Rests == UNCHANGED liveVars

\* A part that rests is asked for nothing: in its initial state only Recovery and
\* Timer could be taken.
AllLive ==
  /\ LiveInit /\ [][LogMoves \/ AlarmMoves \/ TicksMoves \/ Rests]_liveVars
  /\ CallFairness /\ WF_vars(part = "log" /\ Recovery)
  /\ WF_alarmVars(part = "alarm" /\ Timer)
=============================================================================
