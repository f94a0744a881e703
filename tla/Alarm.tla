------------------------------- MODULE Alarm -------------------------------
(***************************************************************************)
(* sigalarm and sigreturn: one process, the timer interrupts it takes in   *)
(* user mode (usertrap), and the two system calls (sysproc.c).             *)
(*                                                                         *)
(* The user registers are a record: pc, the place in the program, which is *)
(* in the main program or in the handler, and a0, the register that holds  *)
(* the result of a system call.  frames records the contexts that alarms   *)
(* have interrupted, innermost first.                                      *)
(***************************************************************************)
EXTENDS Integers, Sequences

CONSTANTS
  Main, Handler,  \* places in the main program and in the alarm handler
  entry,          \* the handler's first instruction
  A0,            \* values of a0
  Intervals,      \* arguments of sigalarm
  MaxCalls        \* bound on the calls of sigalarm a program makes

ASSUME PlaceAssumption == Main \cap Handler = {} /\ entry \in Handler /\ Main # {}
ASSUME ValAssumption == {0, -1} \subseteq A0
ASSUME IntervalAssumption == Intervals \subseteq Int
ASSUME CallsAssumption == MaxCalls \in Nat

VARIABLES
  max_alarm_ticks, alarm_ticks, alarm_trap,   \* fields of struct proc
  regs,      \* the user registers (p->trapframe while in the kernel)
  frames,    \* history: contexts interrupted by alarms and not resumed
  rearmed,   \* history: a handler that has not returned called sigalarm
  calls,     \* calls of sigalarm so far
  killed,
  state      \* "run" or "exited"

alarmVars == <<max_alarm_ticks, alarm_ticks, alarm_trap, regs, frames, rearmed, calls, killed, state>>

Registers == [pc : Main \cup Handler, a0 : A0]

AlarmTypeOK ==
  /\ max_alarm_ticks \in Intervals \cup {-1}
  /\ alarm_ticks \in {-1, 0} \cup 1 .. max_alarm_ticks - 1
  /\ alarm_trap \in Registers
  /\ regs \in Registers
  /\ frames \in Seq(Registers)
  /\ rearmed \in BOOLEAN
  /\ calls \in 0 .. MaxCalls
  /\ killed \in BOOLEAN
  /\ state \in {"run", "exited"}

\* allocproc; alarm_trap holds what its last user left there.
AlarmInit ==
  /\ max_alarm_ticks = -1 /\ alarm_ticks = -1
  /\ alarm_trap \in [pc : Main, a0 : {0}]
  /\ regs \in [pc : Main, a0 : {0}]
  /\ frames = <<>> /\ rearmed = FALSE
  /\ calls = 0
  /\ killed = FALSE /\ state = "run"

alarm == <<max_alarm_ticks, alarm_ticks, alarm_trap>>

\* A user instruction: main code stays in main, the handler in the handler.
Instruction ==
  /\ state = "run"
  /\ \E r \in Registers : (r.pc \in Main <=> regs.pc \in Main) /\ regs' = r
  /\ UNCHANGED <<alarm, frames, rearmed, calls, killed, state>>

\* Mutation: ticks are counted while the handler runs.
AlwaysCounted == IF max_alarm_ticks >= 1 THEN alarm_ticks + 1 ELSE alarm_ticks

\* alarm_ticks after the increment of usertrap.
Counted == IF max_alarm_ticks >= 1 /\ alarm_ticks > -1 THEN alarm_ticks + 1 ELSE alarm_ticks

Due == max_alarm_ticks >= 1 /\ Counted = max_alarm_ticks

\* Mutation: the context is saved after epc is set.
SavedLate == [regs EXCEPT !.pc = entry]

Saved == regs

\* Mutation: the clock does not look at killed.
ExitNever == FALSE

ExitIfKilled == killed

\* A timer interrupt that makes the alarm go off: save the registers, jump to the
\* handler, and return to user mode at once.
Fire ==
  /\ state = "run" /\ Due
  /\ alarm_ticks' = -1
  /\ alarm_trap' = Saved
  /\ regs' = [regs EXCEPT !.pc = entry]
  /\ frames' = <<regs>> \o frames
  /\ UNCHANGED <<max_alarm_ticks, rearmed, calls, killed, state>>

\* Any other timer interrupt: yield, and exit if killed.
Tick ==
  /\ state = "run" /\ ~Due
  /\ alarm_ticks' = Counted
  /\ state' = IF ExitIfKilled THEN "exited" ELSE "run"
  /\ UNCHANGED <<max_alarm_ticks, alarm_trap, regs, frames, rearmed, calls, killed>>

\* The check for killed before and after a system call.
Syscall == state = "run" /\ ~killed

\* sigalarm(n, f).
Sigalarm(n) ==
  /\ Syscall /\ calls < MaxCalls
  /\ calls' = calls + 1
  /\ \/ /\ n >= 0
        /\ alarm_ticks' = 0 /\ max_alarm_ticks' = n
        /\ regs' = [regs EXCEPT !.a0 = 0]
        /\ rearmed' = (rearmed \/ frames # <<>>)
     \/ /\ n < 0
        /\ regs' = [regs EXCEPT !.a0 = -1]
        /\ UNCHANGED <<alarm_ticks, max_alarm_ticks, rearmed>>
  /\ UNCHANGED <<alarm_trap, frames, killed, state>>

\* sigreturn restores the saved registers; syscall() then stores its result in
\* a0.
SigreturnDone ==
  /\ Syscall /\ alarm_ticks = -1
  /\ alarm_ticks' = 0
  /\ regs' = [alarm_trap EXCEPT !.a0 = 0]
  /\ frames' = IF frames = <<>> THEN <<>> ELSE Tail(frames)
  /\ rearmed' = (rearmed /\ Len(frames) > 1)
  /\ UNCHANGED <<max_alarm_ticks, alarm_trap, calls, killed, state>>

SigreturnFails ==
  /\ Syscall /\ alarm_ticks # -1
  /\ regs' = [regs EXCEPT !.a0 = -1]
  /\ UNCHANGED <<alarm, frames, rearmed, calls, killed, state>>

\* A system call by a process that has been killed.
ExitKilled ==
  /\ state = "run" /\ killed
  /\ state' = "exited"
  /\ UNCHANGED <<alarm, regs, frames, rearmed, calls, killed>>

Kill ==
  /\ state = "run"
  /\ killed' = TRUE
  /\ UNCHANGED <<alarm, regs, frames, rearmed, calls, state>>

Timer == Fire \/ Tick

AlarmNext ==
  \/ Instruction
  \/ Timer
  \/ \E n \in Intervals : Sigalarm(n)
  \/ SigreturnDone \/ SigreturnFails
  \/ ExitKilled
  \/ Kill

AlarmSpec == AlarmInit /\ [][AlarmNext]_alarmVars

\* The clock keeps ticking.
AlarmLiveSpec == AlarmSpec /\ WF_alarmVars(Timer)

-----------------------------------------------------------------------------
\* While a handler runs the alarm is off, unless a handler itself called
\* sigalarm: the kernel does not reenter it.
OffInHandler == frames # <<>> /\ ~rearmed => alarm_ticks = -1

\* A successful sigreturn in a handler resumes the place that this handler's
\* alarm interrupted, however handlers nest.
ResumesWhereInterrupted ==
  [][SigreturnDone /\ frames # <<>> => regs'.pc = Head(frames).pc]_alarmVars

\* A killed process exits although an alarm that goes off returns to user mode
\* without looking at killed.
KilledExits == killed ~> state = "exited"

\* An alarm that is set goes off ("calls function f after every n ticks of CPU
\* time") unless the program turns it off or exits.
AlarmGoesOff ==
  max_alarm_ticks >= 1 /\ alarm_ticks > -1
    ~> alarm_ticks = -1 \/ max_alarm_ticks <= 0 \/ state = "exited"

\* "all registers holding the same values they held when the interrupt
\* occurred", a0 among them.
AllRegistersRestored == [][SigreturnDone /\ frames # <<>> => regs' = Head(frames)]_alarmVars

\* The kernel never reenters a handler, and the count stays within the interval,
\* whatever values sigalarm is given and wherever the ticks fall.
AlarmSafe == AlarmTypeOK /\ OffInHandler

\* Ticks are served: a killed process exits, and an alarm that is set goes off,
\* although each of the two paths of usertrap skips the other.
TicksServed == KilledExits /\ AlarmGoesOff
=============================================================================
