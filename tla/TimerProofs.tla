---------------------------- MODULE TimerProofs ----------------------------
(***************************************************************************)
(* Proofs about the two handlers of a timer interrupt: usertrap with the   *)
(* alarm of a process (Alarm), and clockintr with the sleepers and the     *)
(* accounting of the table (Ticks), for every interval, every number of    *)
(* processes and every width of the tick counter.                          *)
(***************************************************************************)
EXTENDS Alarm, Ticks, TLAPS

-----------------------------------------------------------------------------
(* Alarm *)

\* The inductive invariant.  Handlers nest only where one of them has called
\* sigalarm, and while the alarm is off alarm_trap is the innermost context.
AInv ==
  /\ AlarmTypeOK
  /\ OffInHandler
  /\ Len(frames) > 1 => rearmed
  /\ alarm_ticks = -1 /\ frames # <<>> => alarm_trap = Head(frames)

\* A register file stays one when its pc or its a0 is overwritten.
LEMMA RegistersUpdate ==
  ASSUME NEW r \in Registers
  PROVE  /\ [r EXCEPT !.pc = entry] \in Registers
         /\ \A v \in {0, -1} : /\ [r EXCEPT !.a0 = v] \in Registers
                               /\ [r EXCEPT !.a0 = v].pc = r.pc
BY PlaceAssumption, ValAssumption DEF Registers

\* What the stack of interrupted contexts is after a push and after a pop.
LEMMA FramesUpdate ==
  ASSUME NEW f \in Seq(Registers), NEW r \in Registers
  PROVE  /\ <<r>> \o f \in Seq(Registers) /\ <<r>> \o f # <<>> /\ Head(<<r>> \o f) = r
         /\ Len(<<r>> \o f) > 1 => f # <<>>
         /\ f # <<>> => /\ Tail(f) \in Seq(Registers) /\ Head(f) \in Registers
                        /\ Tail(f) # <<>> => Len(f) > 1
                        /\ Len(Tail(f)) > 1 => Len(f) > 1
         /\ Len(f) > 1 => f # <<>>
<1>1. /\ <<r>> \o f \in Seq(Registers) /\ <<r>> \o f # <<>> /\ Head(<<r>> \o f) = r
      /\ Len(<<r>> \o f) = 1 + Len(f)
  OBVIOUS
<1>2. f # <<>> => Tail(f) \in Seq(Registers) /\ Head(f) \in Registers /\ Len(Tail(f)) = Len(f) - 1
  OBVIOUS
<1>3. (f = <<>> <=> Len(f) = 0) /\ Len(f) \in Nat
  OBVIOUS
<1>4. \A g \in Seq(Registers) : (g = <<>> <=> Len(g) = 0) /\ Len(g) \in Nat
  OBVIOUS
<1> QED BY <1>1, <1>2, <1>3, <1>4

\* The increment of usertrap: it stops below the interval unless the alarm is due,
\* and an alarm that is off stays off and is never due.
LEMMA CountedRange ==
  ASSUME AlarmTypeOK
  PROVE  /\ ~Due => Counted \in {-1, 0} \cup 1 .. max_alarm_ticks - 1
         /\ Counted = -1 <=> alarm_ticks = -1
         /\ Due => alarm_ticks # -1
<1>1. max_alarm_ticks \in Int /\ alarm_ticks \in {-1, 0} \cup 1 .. max_alarm_ticks - 1
  BY IntervalAssumption DEF AlarmTypeOK
<1> QED BY <1>1 DEF Due, Counted

\* It holds initially.
LEMMA AlarmInitially == AlarmInit => AInv
<1> SUFFICES ASSUME AlarmInit PROVE AInv OBVIOUS
<1>1. alarm_trap \in Registers /\ regs \in Registers
  BY ValAssumption DEF AlarmInit, Registers
<1>2. calls \in 0 .. MaxCalls BY CallsAssumption DEF AlarmInit
<1>3. frames \in Seq(Registers) /\ frames = <<>> /\ Len(frames) = 0 BY DEF AlarmInit
<1>4. alarm_ticks \in {-1, 0} \cup 1 .. max_alarm_ticks - 1 /\ max_alarm_ticks \in Intervals \cup {-1}
  BY Zenon DEF AlarmInit
<1>5. AlarmTypeOK BY Zenon, <1>1, <1>2, <1>3, <1>4 DEF AlarmInit, AlarmTypeOK
<1>6. ~(Len(frames) > 1) BY <1>3
<1> QED BY Zenon, <1>3, <1>5, <1>6 DEF AInv, OffInHandler

\* Every step preserves it.
LEMMA AlarmStep == AInv /\ [AlarmNext]_alarmVars => AInv'
<1> SUFFICES ASSUME AInv, [AlarmNext]_alarmVars PROVE AInv' OBVIOUS
<1> USE DEF alarm
<1>t. /\ AlarmTypeOK /\ regs \in Registers /\ alarm_trap \in Registers /\ frames \in Seq(Registers)
      /\ rearmed \in BOOLEAN /\ killed \in BOOLEAN /\ state \in {"run", "exited"}
  BY Zenon DEF AInv, AlarmTypeOK
<1>s. ASSUME UNCHANGED <<max_alarm_ticks, alarm_ticks, alarm_trap, frames, rearmed, calls>>,
             regs' \in Registers, killed' \in BOOLEAN, state' \in {"run", "exited"}
      PROVE  AInv'
  BY Zenon, <1>s DEF AInv, AlarmTypeOK, OffInHandler
<1>1. CASE Instruction
  BY Zenon, <1>1, <1>s, <1>t DEF Instruction
<1>2. CASE Fire
  <2>1. /\ <<regs>> \o frames \in Seq(Registers) /\ <<regs>> \o frames # <<>>
        /\ Head(<<regs>> \o frames) = regs
        /\ Len(<<regs>> \o frames) > 1 => frames # <<>>
    BY Zenon, <1>t, FramesUpdate
  <2>2. alarm_ticks # -1 BY Zenon, <1>2, <1>t, CountedRange DEF Fire
  <2>3. frames # <<>> => rearmed BY Zenon, <2>2 DEF AInv, OffInHandler
  <2>4. [regs EXCEPT !.pc = entry] \in Registers BY Zenon, <1>t, RegistersUpdate
  <2>5. AlarmTypeOK' BY Zenon, <1>2, <1>t, <2>1, <2>4 DEF Fire, Saved, AlarmTypeOK
  <2> QED BY Zenon, <1>2, <2>1, <2>3, <2>5 DEF Fire, Saved, AInv, OffInHandler
<1>3. CASE Tick
  <2>1. /\ Counted \in {-1, 0} \cup 1 .. max_alarm_ticks - 1 /\ (Counted = -1 <=> alarm_ticks = -1)
    BY Zenon, <1>3, <1>t, CountedRange DEF Tick
  <2>2. state' \in {"run", "exited"} BY Zenon, <1>3 DEF Tick
  <2>3. AlarmTypeOK' BY Zenon, <1>3, <1>t, <2>1, <2>2 DEF Tick, AlarmTypeOK
  <2> QED BY Zenon, <1>3, <2>1, <2>3 DEF Tick, AInv, OffInHandler
<1>4. ASSUME NEW n \in Intervals, Sigalarm(n) PROVE AInv'
  <2>1. /\ [regs EXCEPT !.a0 = 0] \in Registers /\ [regs EXCEPT !.a0 = -1] \in Registers
    BY Zenon, <1>t, RegistersUpdate
  <2>2. calls' \in 0 .. MaxCalls
    <3>1. calls \in 0 .. MaxCalls /\ calls < MaxCalls /\ calls' = calls + 1
      BY Zenon, <1>4 DEF Sigalarm, AInv, AlarmTypeOK
    <3> QED BY <3>1, CallsAssumption
  <2>3. CASE n >= 0 /\ alarm_ticks' = 0
    <3>1. /\ max_alarm_ticks' = n /\ regs' = [regs EXCEPT !.a0 = 0]
          /\ rearmed' = (rearmed \/ frames # <<>>)
      <4>1. ~(n < 0) BY <2>3, IntervalAssumption
      <4> QED BY Zenon, <1>4, <4>1 DEF Sigalarm
    <3>2. AlarmTypeOK' BY Zenon, <1>4, <1>t, <2>1, <2>2, <2>3, <3>1 DEF Sigalarm, AlarmTypeOK
    <3>3. Len(frames) > 1 => frames # <<>> BY Zenon, <1>t, FramesUpdate
    <3>4. alarm_ticks' # -1 BY <2>3
    <3> QED BY Zenon, <1>4, <3>1, <3>2, <3>3, <3>4 DEF Sigalarm, AInv, OffInHandler
  <2>4. CASE regs' = [regs EXCEPT !.a0 = -1] /\ UNCHANGED <<alarm_ticks, max_alarm_ticks, rearmed>>
    <3>1. AlarmTypeOK' BY Zenon, <1>4, <1>t, <2>1, <2>2, <2>4 DEF Sigalarm, AlarmTypeOK
    <3> QED BY Zenon, <1>4, <2>4, <3>1 DEF Sigalarm, AInv, OffInHandler
  <2> QED BY Zenon, <1>4, <2>3, <2>4 DEF Sigalarm
<1>5. CASE SigreturnDone
  <2>1. [alarm_trap EXCEPT !.a0 = 0] \in Registers BY Zenon, <1>t, RegistersUpdate
  <2>2. frames # <<>> => /\ Tail(frames) \in Seq(Registers)
                         /\ Tail(frames) # <<>> => Len(frames) > 1
                         /\ Len(Tail(frames)) > 1 => Len(frames) > 1
    BY Zenon, <1>t, FramesUpdate
  <2>3. ~(Len(<<>>) > 1) OBVIOUS
  <2>4. /\ frames' \in Seq(Registers)
        /\ frames' # <<>> => Len(frames) > 1
        /\ Len(frames') > 1 => Len(frames) > 1
    <3>1. CASE frames = <<>> BY Zenon, <1>5, <1>t, <3>1, <2>3 DEF SigreturnDone
    <3>2. CASE frames # <<>> BY Zenon, <1>5, <3>2, <2>2 DEF SigreturnDone
    <3> QED BY Zenon, <3>1, <3>2
  <2>5. AlarmTypeOK' BY Zenon, <1>5, <1>t, <2>1, <2>4 DEF SigreturnDone, AlarmTypeOK
  <2>6. alarm_ticks' # -1 BY <1>5 DEF SigreturnDone
  <2> QED BY Zenon, <1>5, <2>4, <2>5, <2>6 DEF SigreturnDone, AInv, OffInHandler
<1>6. CASE SigreturnFails
  <2>1. [regs EXCEPT !.a0 = -1] \in Registers BY Zenon, <1>t, RegistersUpdate
  <2> QED BY Zenon, <1>6, <1>s, <1>t, <2>1 DEF SigreturnFails
<1>7. CASE ExitKilled BY Zenon, <1>7, <1>s, <1>t DEF ExitKilled
<1>8. CASE Kill BY Zenon, <1>8, <1>s, <1>t DEF Kill
<1>9. CASE UNCHANGED alarmVars BY Zenon, <1>9, <1>s, <1>t DEF alarmVars
<1> QED BY Zenon, <1>1, <1>2, <1>3, <1>4, <1>5, <1>6, <1>7, <1>8, <1>9 DEF AlarmNext, Timer

\* The kernel never reenters a handler by itself and the count of ticks stays
\* below the interval (usertrap, sys_sigalarm, sys_sigreturn).
THEOREM AlarmIsSafe == AlarmSpec => []AlarmSafe
<1>1. AInv => AlarmSafe BY Zenon DEF AInv, AlarmSafe
<1> QED BY AlarmInitially, AlarmStep, <1>1, PTL DEF AlarmSpec

\* sigreturn goes back to the place that the innermost alarm interrupted, also when
\* handlers that called sigalarm are themselves interrupted by alarms.
THEOREM HandlersResume == AlarmSpec => ResumesWhereInterrupted
<1>1. ASSUME AInv, SigreturnDone, frames # <<>> PROVE regs'.pc = Head(frames).pc
  <2>1. alarm_trap = Head(frames) /\ alarm_trap \in Registers
    BY Zenon, <1>1 DEF AInv, SigreturnDone, AlarmTypeOK
  <2>2. [alarm_trap EXCEPT !.a0 = 0].pc = alarm_trap.pc BY Zenon, <2>1, RegistersUpdate
  <2> QED BY Zenon, <1>1, <2>1, <2>2 DEF SigreturnDone
<1>2. AInv => [SigreturnDone /\ frames # <<>> => regs'.pc = Head(frames).pc]_alarmVars
  BY Zenon, <1>1
<1> QED BY AlarmInitially, AlarmStep, <1>2, PTL DEF AlarmSpec, ResumesWhereInterrupted

-----------------------------------------------------------------------------
(* Ticks *)

\* Age(p) is how many ticks ago allocproc set p->ctime, Waited(p) how many ticks
\* ago sys_sleep read ticks0, both in the arithmetic of a uint.
Age(p)    == Uint(ticks - tctime[p])
Waited(p) == Uint(ticks - ticks0[p])
Lived(p)  == Uint(etime[p] - tctime[p])

\* update_time has yet to come to slot p in this interrupt.
Ahead(p) == clk = "update" /\ clkAt <= p

TaskStates == {"UNUSED", "USED", "RUNNABLE", "RUNNING", "SLEEPING", "ZOMBIE"}

TickTypes ==
  /\ TicksTypeOK
  /\ clk \in {"idle", "update", "wakeup"}
  /\ ticks0 \in [Task -> 0 .. TickMod - 1] /\ tctime \in [Task -> 0 .. TickMod - 1]
  /\ etime \in [Task -> 0 .. TickMod - 1]
  /\ tn \in [Task -> Int] /\ tret \in [Task -> {0, -1}]
  /\ tkilled \in [Task -> BOOLEAN] /\ slept \in [Task -> Nat] /\ missed \in [Task -> BOOLEAN]

\* A process that lives was created at most MaxLife ticks ago, and has run for at
\* most that long, plus the tick that update_time may have given it already.
Accounted(p) ==
  /\ Alive(p) => /\ Age(p) <= MaxLife
                 /\ rtime[p] <= Age(p) + 1
                 /\ Ahead(p) => rtime[p] <= Age(p)
  /\ tst[p] = "UNUSED" => rtime[p] = 0
  /\ tst[p] = "ZOMBIE" => rtime[p] <= Lived(p) + 1

\* In sys_sleep the ticks that have passed are the ones the subtraction gives:
\* the counter cannot have gone all the way round in the life of a process.
InSleep(p) ==
  /\ tpc[p] # "user" => Alive(p) /\ slept[p] = Waited(p) /\ slept[p] <= Age(p)
  /\ tpc[p] = "returned" /\ tret[p] = 0 => slept[p] >= Uint(tn[p])

\* On its way to sleep a process keeps tickslock, so that no tick comes between the
\* test and the sleep; a kill may.
GoesToSleep(p) ==
  tpc[p] = "tosleep" => /\ tickslock = p /\ tst[p] = "RUNNING"
                        /\ NotYetOver(p) /\ (tkilled[p] => missed[p])

\* A sleeper has been looked at by wakeup since the last tick, or will be.
SleepsRightly(p) ==
  tst[p] = "SLEEPING" => /\ tpc[p] = "asleep"
                         /\ clk = "idle" => NotYetOver(p) /\ (tkilled[p] => missed[p])
                         /\ clk = "wakeup" => p >= clkAt

\* The inductive invariant; the handler holds tickslock from end to end.
TInv ==
  /\ TickTypes
  /\ clk # "idle" <=> tickslock = -1
  /\ \A p \in Task : Accounted(p) /\ InSleep(p) /\ GoesToSleep(p) /\ SleepsRightly(p)

\* Subtraction and increment of values of type uint.
LEMMA UintRange == \A x \in Int : Uint(x) \in 0 .. TickMod - 1
<1>1. TickMod \in Nat \ {0} BY TicksAssumption
<1> QED BY <1>1 DEF Uint

\* A value in range is itself.
LEMMA UintSmall == \A x \in 0 .. TickMod - 1 : Uint(x) = x
<1>1. TickMod \in Nat \ {0} BY TicksAssumption
<1> QED BY <1>1 DEF Uint

\* The difference of two values of type uint.
LEMMA UintMinus ==
  ASSUME NEW x \in 0 .. TickMod - 1, NEW y \in 0 .. TickMod - 1
  PROVE  Uint(x - y) = IF x >= y THEN x - y ELSE x - y + TickMod
<1>1. TickMod \in Nat \ {0} BY TicksAssumption
<1>2. CASE x >= y BY <1>1, <1>2 DEF Uint
<1>3. CASE x < y
  <2>1. (x - y) % TickMod = (x - y + TickMod) % TickMod BY <1>1
  <2>2. (x - y + TickMod) % TickMod = x - y + TickMod BY <1>1, <1>3
  <2> QED BY <1>3, <2>1, <2>2 DEF Uint
<1> QED BY <1>2, <1>3

\* One more tick is one more tick of distance, short of a whole round.
LEMMA UintNext ==
  ASSUME NEW x \in 0 .. TickMod - 1, NEW y \in 0 .. TickMod - 1, Uint(x - y) < TickMod - 1
  PROVE  Uint(Uint(x + 1) - y) = Uint(x - y) + 1
<1>1. TickMod \in Nat \ {0} BY TicksAssumption
<1>2. Uint(x + 1) = IF x = TickMod - 1 THEN 0 ELSE x + 1 BY <1>1 DEF Uint
<1>3. Uint(x + 1) \in 0 .. TickMod - 1 BY <1>1, <1>2
<1>4. Uint(x - y) = IF x >= y THEN x - y ELSE x - y + TickMod BY Zenon, UintMinus
<1>5. Uint(Uint(x + 1) - y) = IF Uint(x + 1) >= y THEN Uint(x + 1) - y ELSE Uint(x + 1) - y + TickMod
  BY Zenon, <1>3, UintMinus
<1> HIDE DEF Uint
<1> QED BY <1>1, <1>2, <1>4, <1>5

\* The fields of task q.
TaskView(q) == <<tst[q], tpc[q], ticks0[q], tn[q], tret[q], tkilled[q], rtime[q], tctime[q], etime[q],
                 slept[q], missed[q]>>

\* What holds of one task.
TaskInv(p) == Accounted(p) /\ InSleep(p) /\ GoesToSleep(p) /\ SleepsRightly(p)

\* What a step of another process leaves alone.
LEMMA TaskFrame ==
  ASSUME NEW q \in Task, TaskInv(q), UNCHANGED <<ticks, clk, clkAt>>, UNCHANGED TaskView(q),
         tickslock = q => tickslock' = q
  PROVE  TaskInv(q)'
<1>1. /\ tst'[q] = tst[q] /\ tpc'[q] = tpc[q] /\ ticks0'[q] = ticks0[q] /\ tn'[q] = tn[q]
      /\ tret'[q] = tret[q] /\ tkilled'[q] = tkilled[q] /\ rtime'[q] = rtime[q]
      /\ tctime'[q] = tctime[q] /\ etime'[q] = etime[q] /\ slept'[q] = slept[q]
      /\ missed'[q] = missed[q]
  BY Zenon DEF TaskView
<1>2. Accounted(q)' BY Zenon, <1>1 DEF TaskInv, Accounted, Alive, Age, Ahead, Lived
<1>3. InSleep(q)' BY Zenon, <1>1 DEF TaskInv, InSleep, Alive, Age, Waited
<1>4. SleepsRightly(q)' BY Zenon, <1>1 DEF TaskInv, SleepsRightly, NotYetOver
<1>5. GoesToSleep(q)' BY Zenon, <1>1 DEF TaskInv, GoesToSleep, NotYetOver
<1> QED BY Zenon, <1>2, <1>3, <1>4, <1>5 DEF TaskInv

\* A step of process p alone preserves the invariant if p's own part is.
LEMMA TaskStep ==
  ASSUME TInv, TickTypes', NEW p \in Task, TaskInv(p)', UNCHANGED <<ticks, clk, clkAt>>,
         tickslock' = -1 <=> tickslock = -1, tickslock' = tickslock \/ tickslock \in {0, p},
         \A q \in Task \ {p} : UNCHANGED TaskView(q)
  PROVE  TInv'
<1>1. \A q \in Task : TaskInv(q) BY Zenon DEF TInv, TaskInv
<1>2. ASSUME NEW q \in Task PROVE TaskInv(q)'
  <2>1. CASE q = p BY Zenon, <2>1
  <2>2. CASE q # p
    <3>1. UNCHANGED TaskView(q) BY Zenon, <2>2
    <3>2. q # 0 BY DEF Task
    <3>3. tickslock = q => tickslock' = q BY Zenon, <2>2, <3>2
    <3> QED BY Zenon, <1>1, <3>1, <3>3, TaskFrame
  <2> QED BY Zenon, <2>1, <2>2
<1> QED BY Zenon, <1>2 DEF TInv, TaskInv

\* The types of one task.
LEMMA TaskTypes ==
  ASSUME TInv, NEW p \in Task
  PROVE  /\ tst[p] \in TaskStates /\ tpc[p] \in {"user", "check", "tosleep", "asleep", "returned"}
         /\ ticks0[p] \in 0 .. TickMod - 1 /\ tctime[p] \in 0 .. TickMod - 1
         /\ etime[p] \in 0 .. TickMod - 1 /\ tn[p] \in Int /\ tret[p] \in {0, -1}
         /\ tkilled[p] \in BOOLEAN /\ slept[p] \in Nat /\ rtime[p] \in 0 .. MaxLife + 1
         /\ ticks \in 0 .. TickMod - 1 /\ TaskInv(p) /\ clkAt \in Task /\ missed[p] \in BOOLEAN
  BY Zenon DEF TInv, TickTypes, TicksTypeOK, TaskStates, TaskInv

\* No tick has passed between a reading of the counter and itself.
LEMMA NoTimeYet == ASSUME TInv PROVE Uint(ticks - ticks) = 0
<1>1. ticks \in 0 .. TickMod - 1 BY Zenon DEF TInv, TickTypes, TicksTypeOK
<1>2. Uint(ticks - ticks) = IF ticks >= ticks THEN ticks - ticks ELSE ticks - ticks + TickMod
  BY Zenon, <1>1, UintMinus
<1> QED BY <1>1, <1>2, TicksAssumption

\* The ranges of the differences.
LEMMA Distances ==
  ASSUME TInv, NEW p \in Task
  PROVE  /\ Age(p) \in 0 .. TickMod - 1 /\ Waited(p) \in 0 .. TickMod - 1
         /\ Lived(p) \in 0 .. TickMod - 1 /\ Uint(tn[p]) \in 0 .. TickMod - 1
<1>1. /\ ticks0[p] \in 0 .. TickMod - 1 /\ tctime[p] \in 0 .. TickMod - 1
      /\ etime[p] \in 0 .. TickMod - 1 /\ tn[p] \in Int /\ ticks \in 0 .. TickMod - 1
  BY Zenon, TaskTypes
<1>2. ticks - tctime[p] \in Int /\ ticks - ticks0[p] \in Int /\ etime[p] - tctime[p] \in Int
  BY <1>1
<1> QED BY Zenon, <1>1, <1>2, UintRange DEF Age, Waited, Lived

\* It holds initially.
LEMMA TicksInitially == TicksInit => TInv
<1> SUFFICES ASSUME TicksInit PROVE TInv OBVIOUS
<1>1. 0 \in 0 .. TickMod - 1 /\ TickMod - 1 \in 0 .. TickMod - 1 /\ 1 \in Task
      /\ 0 \in 0 .. MaxLife + 1 /\ 0 \in Nat /\ 0 \in Int /\ 0 # -1
  BY TicksAssumption DEF Task
<1>2. TickTypes
  BY Zenon, <1>1 DEF TicksInit, TickTypes, TicksTypeOK
<1>3. ASSUME NEW p \in Task PROVE TaskInv(p)
  BY Zenon, <1>3 DEF TicksInit, TaskInv, Accounted, InSleep, GoesToSleep, SleepsRightly, Alive
<1> QED BY Zenon, <1>1, <1>2, <1>3 DEF TicksInit, TInv, TaskInv

\* sys_sleep begins.
LEMMA SysSleepKeeps ==
  ASSUME TInv, NEW p \in Task, NEW n \in SleepArgs, SysSleep(p, n)
  PROVE  TInv'
<1> USE DEF SysSleep, Moves
<1>1. 0 \in Nat /\ n \in Int /\ p # -1 /\ p # 0 /\ tickslock # -1
  <2>1. n \in Int /\ p \in Int /\ p >= 1 BY TicksAssumption DEF Task
  <2>2. tickslock = 0 BY Zenon
  <2> QED BY <2>1, <2>2
<1>2. ticks \in 0 .. TickMod - 1 /\ TickTypes BY Zenon, TaskTypes DEF TInv
<1>3. TickTypes' BY Zenon, <1>1, <1>2 DEF TickTypes, TicksTypeOK, task
<1>4. /\ tst[p] = "RUNNING" /\ ticks0'[p] = ticks /\ slept'[p] = 0 /\ tpc'[p] = "check"
      /\ TaskInv(p)
  BY Zenon, <1>2, TaskTypes DEF TickTypes, TicksTypeOK
<1>5. Accounted(p)' BY Zenon, <1>4 DEF TaskInv, Accounted, Alive, Age, Ahead, Lived
<1>6. Alive(p)' /\ Waited(p)' = Uint(ticks - ticks) /\ Age(p)' = Age(p)
  BY Zenon, <1>4 DEF Alive, Waited, Age
<1>7. 0 <= Age(p) BY Distances
<1>8. InSleep(p)' BY Zenon, <1>4, <1>6, <1>7, NoTimeYet DEF InSleep
<1>9. SleepsRightly(p)' /\ GoesToSleep(p)' BY Zenon, <1>4 DEF SleepsRightly, GoesToSleep
<1>10. TaskInv(p)' BY Zenon, <1>5, <1>8, <1>9 DEF TaskInv
<1>11. \A q \in Task \ {p} : UNCHANGED TaskView(q)
  BY Zenon, <1>2 DEF TaskView, TickTypes, TicksTypeOK
<1>12. (tickslock' = -1 <=> tickslock = -1) /\ tickslock = 0 BY Zenon, <1>1
<1>13. UNCHANGED <<ticks, clk, clkAt>> BY Zenon
<1> QED BY Zenon, <1>3, <1>10, <1>11, <1>12, <1>13, TaskStep

\* The test of sys_sleep's loop.
LEMMA SleepCheckKeeps ==
  ASSUME TInv, NEW p \in Task, SleepCheck(p)
  PROVE  TInv'
<1> USE DEF SleepCheck, Moves
<1>1. p # -1 /\ tickslock = p /\ 0 # -1
  <2>1. p \in Int /\ p >= 1 BY DEF Task
  <2> QED BY <2>1
<1>2. TickTypes BY Zenon DEF TInv
<1>3. TickTypes' BY Zenon, <1>1, <1>2 DEF TickTypes, TicksTypeOK, task
<1>4. /\ tst[p] = "RUNNING" /\ tpc[p] = "check" /\ TaskInv(p) /\ clk = "idle"
  BY Zenon, <1>1, TaskTypes DEF TInv
<1>5. UNCHANGED <<ticks, clk, clkAt>> /\ UNCHANGED <<tst, ticks0, tn, tkilled, rtime, tctime, etime, slept, missed>>
  BY Zenon
<1>6. (NotYetOver(p)' <=> NotYetOver(p)) BY Zenon, <1>5 DEF NotYetOver
<1>7. Alive(p) /\ slept[p] = Waited(p) /\ slept[p] <= Age(p)
  BY Zenon, <1>4 DEF TaskInv, InSleep
<1>8. ASSUME NotYetOver(p), ~tkilled[p] PROVE TaskInv(p)'
  <2>1. tst'[p] = "RUNNING" /\ tpc'[p] = "tosleep" /\ tickslock' = p
    BY Zenon, <1>1, <1>2, <1>4, <1>8 DEF TickTypes, TicksTypeOK
  <2>2. Accounted(p)'
    BY Zenon, <1>4, <1>5, <2>1 DEF TaskInv, Accounted, Alive, Age, Ahead, Lived
  <2>3. InSleep(p)' BY Zenon, <1>5, <1>7, <2>1 DEF InSleep, Alive, Age, Waited
  <2>4. SleepsRightly(p)' BY Zenon, <2>1 DEF SleepsRightly
  <2>5. GoesToSleep(p)' BY Zenon, <1>5, <1>6, <1>8, <2>1 DEF GoesToSleep
  <2> QED BY Zenon, <2>2, <2>3, <2>4, <2>5 DEF TaskInv
<1>9. ASSUME ~NotYetOver(p) \/ tkilled[p] PROVE TaskInv(p)'
  <2>0. /\ tst' = tst /\ tpc' = [tpc EXCEPT ![p] = "returned"]
        /\ tret' = [tret EXCEPT ![p] = IF NotYetOver(p) THEN -1 ELSE 0]
    BY Zenon, <1>9
  <2>1. /\ tst'[p] = "RUNNING" /\ tpc'[p] = "returned"
        /\ tret'[p] = IF NotYetOver(p) THEN -1 ELSE 0
    BY Zenon, <1>2, <1>4, <2>0 DEF TickTypes, TicksTypeOK
  <2>2. Accounted(p)'
    BY Zenon, <1>4, <1>5, <2>1 DEF TaskInv, Accounted, Alive, Age, Ahead, Lived
  <2>3. ~NotYetOver(p) => slept[p] >= Uint(tn[p])
    <3>1. Waited(p) \in 0 .. TickMod - 1 /\ Uint(tn[p]) \in 0 .. TickMod - 1 BY Zenon, Distances
    <3>2. ~NotYetOver(p) => ~(Waited(p) < Uint(tn[p])) BY Zenon DEF NotYetOver, Waited
    <3> HIDE DEF Waited
    <3> QED BY <1>7, <3>1, <3>2
  <2>4. tret'[p] = 0 => ~NotYetOver(p) BY <2>1
  <2>5. InSleep(p)' BY Zenon, <1>5, <1>7, <2>1, <2>3, <2>4 DEF InSleep, Alive, Age, Waited
  <2>6. SleepsRightly(p)' /\ GoesToSleep(p)' BY Zenon, <2>1 DEF SleepsRightly, GoesToSleep
  <2> QED BY Zenon, <2>2, <2>5, <2>6 DEF TaskInv
<1>10. TaskInv(p)' BY Zenon, <1>8, <1>9
<1>11. \A q \in Task \ {p} : UNCHANGED TaskView(q)
  BY Zenon, <1>2, <1>5 DEF TaskView, TickTypes, TicksTypeOK
<1>12. tickslock' = -1 <=> tickslock = -1 BY Zenon, <1>1
<1> QED BY Zenon, <1>3, <1>5, <1>10, <1>11, <1>12, TaskStep

\* sleep(): the state changes before tickslock is given up, under p->lock.
LEMMA SleepEnterKeeps ==
  ASSUME TInv, NEW p \in Task, SleepEnter(p)
  PROVE  TInv'
<1> USE DEF SleepEnter, Moves
<1>1. p # -1 /\ 0 # -1
  <2>1. p \in Int /\ p >= 1 BY DEF Task
  <2> QED BY <2>1
<1>2. TickTypes BY Zenon DEF TInv
<1>3. tpc[p] = "tosleep" /\ TaskInv(p) BY Zenon, TaskTypes
<1>4. tickslock = p /\ NotYetOver(p) /\ (tkilled[p] => missed[p])
  BY Zenon, <1>3 DEF TaskInv, GoesToSleep
<1>5. clk = "idle" /\ tst[p] = "RUNNING" BY Zenon, <1>1, <1>4 DEF TInv
<1>6. tst'[p] = "SLEEPING" /\ tpc'[p] = "asleep" /\ tickslock' = 0
  BY Zenon, <1>2 DEF TickTypes, TicksTypeOK
<1>7. UNCHANGED <<ticks, clk, clkAt>> /\ UNCHANGED <<tret, ticks0, tn, tkilled, rtime, tctime, etime, slept, missed>>
  BY Zenon
<1>8. TickTypes' BY Zenon, <1>2, <1>7 DEF TickTypes, TicksTypeOK
<1>9. NotYetOver(p)' <=> NotYetOver(p) BY Zenon, <1>7 DEF NotYetOver
<1>10. Accounted(p)'
  BY Zenon, <1>3, <1>5, <1>6, <1>7 DEF TaskInv, Accounted, Alive, Age, Ahead, Lived
<1>11. InSleep(p)' BY Zenon, <1>3, <1>6, <1>7 DEF TaskInv, InSleep, Alive, Age, Waited
<1>12. SleepsRightly(p)' BY Zenon, <1>4, <1>5, <1>6, <1>7, <1>9 DEF SleepsRightly
<1>13. GoesToSleep(p)' BY Zenon, <1>6 DEF GoesToSleep
<1>14. TaskInv(p)' BY Zenon, <1>10, <1>11, <1>12, <1>13 DEF TaskInv
<1>15. \A q \in Task \ {p} : UNCHANGED TaskView(q)
  BY Zenon, <1>2, <1>7 DEF TaskView, TickTypes, TicksTypeOK
<1>16. (tickslock' = -1 <=> tickslock = -1) /\ tickslock = p BY Zenon, <1>1, <1>4, <1>6
<1> QED BY Zenon, <1>7, <1>8, <1>14, <1>15, <1>16, TaskStep

\* sleep() takes tickslock again.
LEMMA SleepBackKeeps ==
  ASSUME TInv, NEW p \in Task, SleepBack(p)
  PROVE  TInv'
<1> USE DEF SleepBack, Moves
<1>1. p # -1 /\ 0 # -1
  <2>1. p \in Int /\ p >= 1 BY DEF Task
  <2> QED BY <2>1
<1>2. TickTypes BY Zenon DEF TInv
<1>3. TickTypes' BY Zenon, <1>1, <1>2 DEF TickTypes, TicksTypeOK, task
<1>4. tst[p] = "RUNNING" /\ tpc[p] = "asleep" /\ tpc'[p] = "check" /\ TaskInv(p)
  BY Zenon, <1>2, TaskTypes DEF TickTypes, TicksTypeOK
<1>5. UNCHANGED <<ticks, clk, clkAt>>
      /\ UNCHANGED <<tst, tret, ticks0, tn, tkilled, rtime, tctime, etime, slept, missed>>
  BY Zenon
<1>6. Accounted(p)' BY Zenon, <1>4, <1>5 DEF TaskInv, Accounted, Alive, Age, Ahead, Lived
<1>7. InSleep(p)' BY Zenon, <1>4, <1>5 DEF TaskInv, InSleep, Alive, Age, Waited
<1>8. SleepsRightly(p)' /\ GoesToSleep(p)' BY Zenon, <1>4, <1>5 DEF SleepsRightly, GoesToSleep
<1>9. TaskInv(p)' BY Zenon, <1>6, <1>7, <1>8 DEF TaskInv
<1>10. \A q \in Task \ {p} : UNCHANGED TaskView(q)
  BY Zenon, <1>2, <1>5 DEF TaskView, TickTypes, TicksTypeOK
<1>11. (tickslock' = -1 <=> tickslock = -1) /\ tickslock = 0 BY Zenon, <1>1
<1> QED BY Zenon, <1>3, <1>5, <1>9, <1>10, <1>11, TaskStep

\* The return from sys_sleep; a killed process exits.
LEMMA SleepReturnKeeps ==
  ASSUME TInv, NEW p \in Task, SleepReturn(p)
  PROVE  TInv'
<1> USE DEF SleepReturn, Moves, EndTime
<1>1. 0 \in 0 .. TickMod - 1 /\ 0 \in Nat /\ 0 \in Int BY TicksAssumption
<1>2. TickTypes /\ ticks \in 0 .. TickMod - 1 BY Zenon DEF TInv, TickTypes, TicksTypeOK
<1>3. /\ tst' \in [Task -> TaskStates] /\ etime' \in [Task -> 0 .. TickMod - 1]
      /\ tst'[p] \in {"RUNNING", "ZOMBIE"}
      /\ tst'[p] = "ZOMBIE" => etime'[p] = ticks
      /\ \A q \in Task \ {p} : tst'[q] = tst[q] /\ etime'[q] = etime[q]
  <2>1. CASE tkilled[p] BY Zenon, <2>1, <1>2 DEF TickTypes, TicksTypeOK, TaskStates
  <2>2. CASE ~tkilled[p] BY Zenon, <2>2, <1>2 DEF TickTypes, TicksTypeOK, TaskStates
  <2> QED BY Zenon, <2>1, <2>2
<1>4. TickTypes' BY Zenon, <1>1, <1>2, <1>3 DEF TickTypes, TicksTypeOK, TaskStates
<1>5. tst[p] = "RUNNING" /\ tpc'[p] = "user" /\ TaskInv(p)
  BY Zenon, <1>2, TaskTypes DEF TickTypes, TicksTypeOK
<1>6. UNCHANGED <<ticks, clk, clkAt, tickslock, tkilled, rtime, tctime, missed>> BY Zenon
<1>7. Alive(p) BY Zenon, <1>5 DEF Alive
<1>8. Age(p)' = Age(p) /\ (Ahead(p)' <=> Ahead(p)) BY Zenon, <1>6 DEF Age, Ahead
<1>9. tst'[p] = "ZOMBIE" => Lived(p)' = Age(p) BY Zenon, <1>3, <1>6 DEF Age, Lived
<1>10. Accounted(p)' BY Zenon, <1>3, <1>5, <1>6, <1>7, <1>8, <1>9 DEF TaskInv, Accounted
<1>11. InSleep(p)' /\ GoesToSleep(p)' /\ SleepsRightly(p)'
  BY Zenon, <1>3, <1>5 DEF InSleep, GoesToSleep, SleepsRightly
<1>12. TaskInv(p)' BY Zenon, <1>10, <1>11 DEF TaskInv
<1>13. \A q \in Task \ {p} : UNCHANGED TaskView(q)
  BY Zenon, <1>2, <1>3, <1>6 DEF TaskView, TickTypes, TicksTypeOK
<1> QED BY Zenon, <1>4, <1>6, <1>12, <1>13, TaskStep

\* allocproc: the new process is no tick old.
LEMMA AllocTaskKeeps ==
  ASSUME TInv, NEW p \in Task, AllocTask(p)
  PROVE  TInv'
<1> USE DEF AllocTask
<1>1. TickTypes /\ ticks \in 0 .. TickMod - 1 BY Zenon DEF TInv, TickTypes, TicksTypeOK
<1>2. TickTypes' BY Zenon, <1>1 DEF TickTypes, TicksTypeOK
<1>3. /\ tst[p] = "UNUSED" /\ tst'[p] = "USED" /\ tctime'[p] = ticks /\ TaskInv(p)
  BY Zenon, <1>1, TaskTypes DEF TickTypes, TicksTypeOK
<1>4. UNCHANGED <<ticks, clk, clkAt, tickslock, tpc, ticks0, tn, tret, tkilled, rtime, etime, slept,
                 missed>>
  BY Zenon
<1>5. rtime[p] = 0 BY Zenon, <1>3 DEF TaskInv, Accounted
<1>6. Age(p)' = 0 BY Zenon, <1>3, <1>4, NoTimeYet DEF Age
<1>7. 0 <= MaxLife /\ 0 <= 0 + 1 /\ 0 <= 0 BY TicksAssumption
<1>8. Accounted(p)' BY Zenon, <1>3, <1>4, <1>5, <1>6, <1>7 DEF Accounted
<1>9. tpc[p] = "user" BY Zenon, <1>3 DEF TaskInv, InSleep, Alive
<1>10. InSleep(p)' /\ GoesToSleep(p)' /\ SleepsRightly(p)'
  BY Zenon, <1>3, <1>4, <1>9 DEF InSleep, GoesToSleep, SleepsRightly
<1>11. TaskInv(p)' BY Zenon, <1>8, <1>10 DEF TaskInv
<1>12. \A q \in Task \ {p} : UNCHANGED TaskView(q)
  BY Zenon, <1>1, <1>4 DEF TaskView, TickTypes, TicksTypeOK
<1> QED BY Zenon, <1>2, <1>4, <1>11, <1>12, TaskStep

\* A change of state between living states, none of them SLEEPING.
LEMMA SetStateKeeps ==
  ASSUME TInv, NEW p \in Task, NEW from \in {"USED", "RUNNABLE", "RUNNING"},
         NEW to \in {"RUNNABLE", "RUNNING"}, SetState(p, from, to),
         from = "RUNNING" => tickslock # p
  PROVE  TInv'
<1> USE DEF SetState
<1>1. TickTypes BY Zenon DEF TInv
<1>2. TickTypes' BY Zenon, <1>1 DEF TickTypes, TicksTypeOK
<1>3. /\ tst[p] \in {"USED", "RUNNABLE", "RUNNING"} /\ tst'[p] \in {"RUNNABLE", "RUNNING"}
      /\ TaskInv(p)
  BY Zenon, <1>1, TaskTypes DEF TickTypes, TicksTypeOK
<1>4. /\ UNCHANGED <<ticks, clk, clkAt, tickslock>>
      /\ UNCHANGED <<tpc, ticks0, tn, tret, tkilled, rtime, tctime, etime, slept, missed>>
  BY Zenon
<1>5. Alive(p) /\ Alive(p)' /\ tst'[p] \notin {"UNUSED", "ZOMBIE", "SLEEPING"}
  BY Zenon, <1>3 DEF Alive
<1>6. Accounted(p)' BY Zenon, <1>3, <1>4, <1>5 DEF TaskInv, Accounted, Age, Ahead
<1>7. InSleep(p)' BY Zenon, <1>3, <1>4, <1>5 DEF TaskInv, InSleep, Age, Waited
<1>80. tpc[p] # "tosleep" BY Zenon, <1>3 DEF TaskInv, GoesToSleep
<1>8. SleepsRightly(p)' /\ GoesToSleep(p)'
  BY Zenon, <1>4, <1>5, <1>80 DEF SleepsRightly, GoesToSleep
<1>9. TaskInv(p)' BY Zenon, <1>6, <1>7, <1>8 DEF TaskInv
<1>10. \A q \in Task \ {p} : UNCHANGED TaskView(q)
  BY Zenon, <1>1, <1>4 DEF TaskView, TickTypes, TicksTypeOK
<1> QED BY Zenon, <1>2, <1>4, <1>9, <1>10, TaskStep

\* exit.
LEMMA ExitTaskKeeps ==
  ASSUME TInv, NEW p \in Task, ExitTask(p)
  PROVE  TInv'
<1> USE DEF ExitTask, Moves, EndTime
<1>1. TickTypes /\ ticks \in 0 .. TickMod - 1 BY Zenon DEF TInv, TickTypes, TicksTypeOK
<1>2. TickTypes' BY Zenon, <1>1 DEF TickTypes, TicksTypeOK
<1>3. /\ tst[p] = "RUNNING" /\ tpc[p] = "user" /\ tst'[p] = "ZOMBIE" /\ etime'[p] = ticks
      /\ TaskInv(p)
  BY Zenon, <1>1, TaskTypes DEF TickTypes, TicksTypeOK
<1>4. UNCHANGED <<ticks, clk, clkAt, tickslock, tpc, ticks0, tn, tret, tkilled, rtime, tctime, slept,
                 missed>>
  BY Zenon
<1>5. Lived(p)' = Age(p) BY Zenon, <1>3, <1>4 DEF Age, Lived
<1>6. Accounted(p)' BY Zenon, <1>3, <1>4, <1>5 DEF TaskInv, Accounted, Alive
<1>7. InSleep(p)' /\ GoesToSleep(p)' /\ SleepsRightly(p)'
  BY Zenon, <1>3, <1>4 DEF InSleep, GoesToSleep, SleepsRightly
<1>8. TaskInv(p)' BY Zenon, <1>6, <1>7 DEF TaskInv
<1>9. \A q \in Task \ {p} : UNCHANGED TaskView(q)
  BY Zenon, <1>1, <1>4 DEF TaskView, TickTypes, TicksTypeOK
<1> QED BY Zenon, <1>2, <1>4, <1>8, <1>9, TaskStep

\* kill: a sleeper is made RUNNABLE; one on its way to sleep has missed it.
LEMMA KillTaskKeeps ==
  ASSUME TInv, NEW p \in Task, KillTask(p)
  PROVE  TInv'
<1> USE DEF KillTask
<1>1. TickTypes BY Zenon DEF TInv
<1>2. /\ tst' \in [Task -> TaskStates] /\ tst'[p] # "SLEEPING" /\ tst'[p] \notin {"UNUSED", "ZOMBIE"}
      /\ tst[p] = "RUNNING" => tst'[p] = "RUNNING"
      /\ \A q \in Task \ {p} : tst'[q] = tst[q]
  <2>1. CASE tst[p] = "SLEEPING" BY Zenon, <1>1, <2>1 DEF TickTypes, TicksTypeOK, TaskStates
  <2>2. CASE tst[p] # "SLEEPING"
    BY Zenon, <1>1, <2>2 DEF TickTypes, TicksTypeOK, TaskStates, Alive
  <2> QED BY Zenon, <2>1, <2>2
<1>3. TickTypes' BY Zenon, <1>1, <1>2 DEF TickTypes, TicksTypeOK, TaskStates
<1>4. Alive(p) /\ Alive(p)' /\ TaskInv(p) BY Zenon, <1>2, TaskTypes DEF Alive
<1>5. /\ UNCHANGED <<ticks, clk, clkAt, tickslock>>
      /\ UNCHANGED <<tpc, ticks0, tn, tret, rtime, tctime, etime, slept>>
  BY Zenon
<1>6. Accounted(p)' BY Zenon, <1>2, <1>4, <1>5 DEF TaskInv, Accounted, Age, Ahead
<1>7. InSleep(p)' BY Zenon, <1>4, <1>5 DEF TaskInv, InSleep, Age, Waited
<1>81. missed'[p] = (tpc[p] = "tosleep") BY Zenon, <1>1 DEF TickTypes
<1>82. NotYetOver(p)' <=> NotYetOver(p) BY Zenon, <1>5 DEF NotYetOver
<1>83. GoesToSleep(p)' BY Zenon, <1>2, <1>4, <1>5, <1>81, <1>82 DEF TaskInv, GoesToSleep
<1>8. SleepsRightly(p)' /\ GoesToSleep(p)' BY Zenon, <1>2, <1>83 DEF SleepsRightly
<1>9. TaskInv(p)' BY Zenon, <1>6, <1>7, <1>8 DEF TaskInv
<1>10. \A q \in Task \ {p} : UNCHANGED TaskView(q)
  BY Zenon, <1>1, <1>2, <1>5 DEF TaskView, TickTypes, TicksTypeOK
<1> QED BY Zenon, <1>3, <1>5, <1>9, <1>10, TaskStep

\* waitx and freeproc.
LEMMA ReapTaskKeeps ==
  ASSUME TInv, NEW p \in Task, ReapTask(p)
  PROVE  TInv'
<1> USE DEF ReapTask
<1>1. 0 \in 0 .. TickMod - 1 /\ 0 \in 0 .. MaxLife + 1 BY TicksAssumption
<1>2. TickTypes BY Zenon DEF TInv
<1>3. TickTypes' BY Zenon, <1>1, <1>2 DEF TickTypes, TicksTypeOK
<1>4. tst[p] = "ZOMBIE" /\ tst'[p] = "UNUSED" /\ rtime'[p] = 0 /\ TaskInv(p)
  BY Zenon, <1>2, TaskTypes DEF TickTypes, TicksTypeOK
<1>5. tpc'[p] = "user" BY Zenon, <1>4 DEF TaskInv, InSleep, Alive
<1>6. TaskInv(p)'
  BY Zenon, <1>4, <1>5 DEF TaskInv, Accounted, InSleep, GoesToSleep, SleepsRightly, Alive
<1>7. UNCHANGED <<ticks, clk, clkAt, tickslock>> BY Zenon
<1>8. \A q \in Task \ {p} : UNCHANGED TaskView(q)
  BY Zenon, <1>2 DEF TaskView, TickTypes, TicksTypeOK
<1> QED BY Zenon, <1>3, <1>6, <1>7, <1>8, TaskStep

-----------------------------------------------------------------------------
(* clockintr *)

\* A new tick: each living process is one tick older and has waited one more.
LEMMA ClockBeginKeeps ==
  ASSUME TInv, NEW u \in Task \cup {0}, ClockBegin(u)
  PROVE  TInv'
<1> USE DEF ClockBegin
<1>0. TickMod \in Nat \ {0} /\ MaxLife \in Nat /\ MaxLife < TickMod - 1 /\ 1 \in Task
  BY TicksAssumption DEF Task
<1>1. TickTypes /\ ticks \in 0 .. TickMod - 1 BY Zenon DEF TInv, TickTypes, TicksTypeOK
<1>2. ticks' \in 0 .. TickMod - 1
  <2>1. ticks + 1 \in Int BY <1>1
  <2> QED BY Zenon, <2>1, UintRange
<1>3. \A q \in Task : slept'[q] = IF tpc[q] = "user" \/ slept[q] = MaxWait THEN slept[q] ELSE slept[q] + 1
  BY Zenon
<1>4. slept' \in [Task -> Nat]
  <2>1. \A q \in Task : slept[q] \in Nat BY Zenon, <1>1 DEF TickTypes
  <2>2. \A q \in Task :
          (IF tpc[q] = "user" \/ slept[q] = MaxWait THEN slept[q] ELSE slept[q] + 1) \in Nat
    BY <2>1
  <2> QED BY Zenon, <2>2
<1>5. TickTypes' BY Zenon, <1>0, <1>1, <1>2, <1>4 DEF TickTypes, TicksTypeOK
<1>6. ASSUME NEW q \in Task PROVE TaskInv(q)'
  <2>1. /\ ticks0[q] \in 0 .. TickMod - 1 /\ tctime[q] \in 0 .. TickMod - 1 /\ slept[q] \in Nat
        /\ rtime[q] \in 0 .. MaxLife + 1 /\ TaskInv(q)
    BY Zenon, TaskTypes
  <2>2. /\ Age(q) \in 0 .. TickMod - 1 /\ Waited(q) \in 0 .. TickMod - 1 /\ Uint(tn[q]) \in 0 .. TickMod - 1
    BY Zenon, Distances
  <2>3. /\ UNCHANGED <<tst, tpc, ticks0, tn, tret, tkilled, rtime, tctime, etime>>
        /\ clk' = "update" /\ clkAt' = 1 /\ ticks' = Uint(ticks + 1)
    BY Zenon
  <2>4. Alive(q) => Age(q) < MaxLife BY Zenon DEF Age
  <2>5. Alive(q) => Age(q)' = Age(q) + 1
    <3>1. Alive(q) => Age(q) < TickMod - 1 BY <1>0, <2>2, <2>4
    <3> QED BY Zenon, <1>1, <2>1, <2>3, <3>1, UintNext DEF Age
  <2>6. Accounted(q)'
    <3> DEFINE a == Age(q)
               r == rtime[q]
    <3>1. Alive(q) => r <= a + 1 /\ a < MaxLife BY Zenon, <2>1, <2>4 DEF TaskInv, Accounted
    <3>2. a \in Nat /\ r \in Nat BY <1>0, <2>1, <2>2
    <3> HIDE DEF a, r
    <3>3. Alive(q) => a + 1 <= MaxLife /\ r <= a + 1 /\ r <= (a + 1) + 1 BY <1>0, <3>1, <3>2
    <3>4. Alive(q) => /\ Age(q)' <= MaxLife /\ rtime[q] <= Age(q)' /\ rtime[q] <= Age(q)' + 1
      BY Zenon, <2>5, <3>3 DEF a, r
    <3>5. (Alive(q)' <=> Alive(q)) /\ Lived(q)' = Lived(q) BY Zenon, <2>3 DEF Alive, Lived
    <3> QED BY Zenon, <2>1, <2>3, <3>4, <3>5 DEF TaskInv, Accounted
  <2>7. InSleep(q)'
    <3>1. CASE tpc[q] = "user" BY Zenon, <2>3, <3>1 DEF InSleep
    <3>2. CASE tpc[q] # "user"
      <4> DEFINE a == Age(q)
                 w == Waited(q)
                 n == Uint(tn[q])
                 s == slept[q]
      <4>1. Alive(q) /\ s = w /\ s <= a /\ a < MaxLife
        BY Zenon, <2>1, <2>4, <3>2 DEF TaskInv, InSleep
      <4>2. a \in Nat /\ w \in Nat /\ s \in Nat /\ n \in Nat BY <1>0, <2>1, <2>2
      <4> HIDE DEF a, w, s, n
      <4>3. s # MaxLife + 1 /\ s + 1 = w + 1 /\ s + 1 <= a + 1 /\ w < TickMod - 1 /\ (s >= n => s + 1 >= n)
        BY <1>0, <4>1, <4>2
      <4>4. slept'[q] = slept[q] + 1 BY Zenon, <1>3, <3>2, <4>3 DEF s, MaxWait
      <4>5. Waited(q)' = Waited(q) + 1
        BY Zenon, <1>1, <2>1, <2>3, <4>3, UintNext DEF Waited, w
      <4>6. slept'[q] = Waited(q)' /\ slept'[q] <= Age(q)' /\ Alive(q)'
        BY Zenon, <2>3, <2>5, <4>1, <4>3, <4>4, <4>5 DEF s, w, a, Alive
      <4>7. tpc[q] = "returned" /\ tret[q] = 0 => slept'[q] >= Uint(tn[q])
        BY Zenon, <2>1, <4>3, <4>4 DEF TaskInv, InSleep, s, n
      <4> QED BY Zenon, <2>3, <4>6, <4>7 DEF InSleep
    <3> QED BY Zenon, <3>1, <3>2
  <2>8. SleepsRightly(q)' BY Zenon, <2>1, <2>3 DEF TaskInv, SleepsRightly
  <2>9. q # 0 /\ tickslock = 0 BY DEF Task
  <2>10. GoesToSleep(q)' BY Zenon, <2>1, <2>3, <2>9 DEF TaskInv, GoesToSleep
  <2> QED BY Zenon, <2>6, <2>7, <2>8, <2>10 DEF TaskInv
<1>7. clk' # "idle" /\ tickslock' = -1 BY Zenon
<1> QED BY Zenon, <1>5, <1>6, <1>7 DEF TInv, TaskInv

\* The handler has tickslock, so nobody is on the way to sleep.
LEMMA NobodyGoes ==
  ASSUME TInv, clk # "idle", NEW q \in Task
  PROVE  tpc[q] # "tosleep"
<1>1. tickslock = -1 /\ TaskInv(q) BY Zenon, TaskTypes DEF TInv
<1>2. q # -1 BY DEF Task
<1> QED BY Zenon, <1>1, <1>2 DEF TaskInv, GoesToSleep

\* One slot of update_time: a RUNNING process is charged one tick.
LEMMA UpdateSlotKeeps ==
  ASSUME TInv, UpdateSlot
  PROVE  TInv'
<1> USE DEF UpdateSlot
<1>0. TickMod \in Nat \ {0} /\ MaxLife \in Nat /\ MaxLife + 1 < TickMod /\ NTASK \in Nat \ {0}
  BY TicksAssumption
<1>1. TickTypes /\ clkAt \in Task BY Zenon DEF TInv, TickTypes, TicksTypeOK
<1>2. /\ clkAt' \in Task
      /\ clkAt < NTASK => clkAt' = clkAt + 1 /\ clk' = "update"
      /\ ~(clkAt < NTASK) => clkAt' = 1 /\ clk' = "wakeup"
  <2>1. clk' = IF clkAt < NTASK THEN clk ELSE "wakeup" BY Zenon DEF NextSlot
  <2>2. clkAt' = IF clkAt < NTASK THEN clkAt + 1 ELSE 1 BY Zenon DEF NextSlot
  <2>3. clkAt' \in Task BY <1>0, <1>1, <2>2 DEF Task
  <2> QED BY Zenon, <2>1, <2>2, <2>3
<1>3. UNCHANGED <<ticks, tickslock, tst, tpc, ticks0, tn, tret, tkilled, tctime, etime, slept, missed>>
      /\ clk = "update" /\ clk' \in {"update", "wakeup"}
  BY Zenon, <1>2
<1>4. ASSUME tst[clkAt] = "RUNNING"
      PROVE  /\ rtime' = [rtime EXCEPT ![clkAt] = rtime[clkAt] + 1]
             /\ rtime[clkAt] + 1 <= Age(clkAt) + 1 /\ rtime[clkAt] + 1 \in 0 .. MaxLife + 1
  <2> DEFINE a == Age(clkAt)
             r == rtime[clkAt]
  <2>1. r \in 0 .. MaxLife + 1 /\ a \in 0 .. TickMod - 1 BY Zenon, <1>1, TaskTypes, Distances
  <2>2. clkAt <= clkAt BY <1>1 DEF Task
  <2>3. r <= a /\ a <= MaxLife
    BY Zenon, <1>1, <1>3, <1>4, <2>2, TaskTypes DEF TaskInv, Accounted, Alive, Ahead
  <2>4. rtime' = [rtime EXCEPT ![clkAt] = Uint(r + 1)] BY Zenon, <1>4
  <2> HIDE DEF a, r
  <2>5. r + 1 \in 0 .. TickMod - 1 /\ r + 1 <= a + 1 /\ r + 1 \in 0 .. MaxLife + 1
    BY <1>0, <2>1, <2>3
  <2>6. Uint(r + 1) = r + 1 BY Zenon, <2>5, UintSmall
  <2> QED BY Zenon, <2>4, <2>5, <2>6 DEF a, r
<1>5. rtime' \in [Task -> 0 .. MaxLife + 1]
  <2>1. rtime \in [Task -> 0 .. MaxLife + 1] BY Zenon, <1>1 DEF TickTypes, TicksTypeOK
  <2>2. CASE tst[clkAt] = "RUNNING" BY Zenon, <1>4, <2>1, <2>2
  <2>3. CASE tst[clkAt] # "RUNNING" BY Zenon, <2>1, <2>3
  <2> QED BY Zenon, <2>2, <2>3
<1>6. TickTypes' BY Zenon, <1>1, <1>2, <1>3, <1>5 DEF TickTypes, TicksTypeOK
<1>7. ASSUME NEW q \in Task PROVE TaskInv(q)'
  <2>0. q \in Int BY DEF Task
  <2>1. TaskInv(q) /\ q \in Int BY Zenon, <2>0, TaskTypes
  <2>2. InSleep(q)' BY Zenon, <1>3, <2>1 DEF TaskInv, InSleep, Alive, Age, Waited
  <2>30. q >= 1 BY DEF Task
  <2>31. clk' = "wakeup" => clkAt' = 1 BY Zenon, <1>2
  <2>32. tpc[q] # "tosleep" BY Zenon, <1>3, NobodyGoes
  <2>3. SleepsRightly(q)' /\ GoesToSleep(q)'
    BY Zenon, <1>3, <2>1, <2>30, <2>31, <2>32 DEF TaskInv, SleepsRightly, GoesToSleep
  <2>4. Accounted(q)'
    <3>1. Ahead(q)' => Ahead(q) /\ q # clkAt
      <4>1. clkAt + 1 <= q => clkAt <= q /\ q # clkAt BY <1>1, <2>1 DEF Task
      <4> QED BY Zenon, <1>2, <1>3, <4>1 DEF Ahead
    <3>2. /\ (Alive(q)' <=> Alive(q)) /\ Age(q)' = Age(q) /\ Lived(q)' = Lived(q)
      BY Zenon, <1>3 DEF Alive, Age, Lived
    <3>3. CASE q = clkAt /\ tst[clkAt] = "RUNNING"
      <4>1. rtime'[q] <= Age(q) + 1
        BY Zenon, <1>1, <1>4, <3>3 DEF TickTypes, TicksTypeOK
      <4> QED BY Zenon, <1>3, <2>1, <3>1, <3>2, <3>3, <4>1 DEF TaskInv, Accounted
    <3>4. CASE ~(q = clkAt /\ tst[clkAt] = "RUNNING")
      <4>1. rtime'[q] = rtime[q] BY Zenon, <1>1, <3>4 DEF TickTypes, TicksTypeOK
      <4> QED BY Zenon, <1>3, <2>1, <3>1, <3>2, <4>1 DEF TaskInv, Accounted
    <3> QED BY Zenon, <3>3, <3>4
  <2> QED BY Zenon, <2>2, <2>3, <2>4 DEF TaskInv
<1> QED BY Zenon, <1>3, <1>6, <1>7 DEF TInv, TaskInv

\* One slot of wakeup: it has looked at every slot when tickslock is given up.
LEMMA WakeTaskKeeps ==
  ASSUME TInv, WakeTask
  PROVE  TInv'
<1>0. NTASK \in Nat \ {0} BY TicksAssumption
<1>1. TickTypes /\ clkAt \in Task BY Zenon DEF TInv, TickTypes, TicksTypeOK
<1>2. /\ UNCHANGED <<ticks, tpc, ticks0, tn, tret, tkilled, rtime, tctime, etime, slept, missed>>
      /\ clk = "wakeup"
      /\ tst' = IF tst[clkAt] = "SLEEPING" THEN [tst EXCEPT ![clkAt] = "RUNNABLE"] ELSE tst
      /\ tickslock' = IF clkAt < NTASK THEN tickslock ELSE 0
      /\ clk' = IF clkAt < NTASK THEN clk ELSE "idle"
      /\ clkAt' = IF clkAt < NTASK THEN clkAt + 1 ELSE 1
  BY Zenon DEF WakeTask, SleepsOnTicks, NextSlot
<1>3. clkAt' \in Task BY <1>0, <1>1, <1>2 DEF Task
<1>4. tst' \in [Task -> TaskStates] BY Zenon, <1>1, <1>2 DEF TickTypes, TicksTypeOK, TaskStates
<1>5. TickTypes'
  <2>1. clk' \in {"idle", "update", "wakeup"} BY Zenon, <1>2
  <2>2. tickslock' \in Task \cup {0, -1} BY Zenon, <1>1, <1>2 DEF TickTypes, TicksTypeOK
  <2> QED BY Zenon, <1>1, <1>2, <1>3, <1>4, <2>1, <2>2 DEF TickTypes, TicksTypeOK, TaskStates
<1>6. ASSUME NEW q \in Task PROVE TaskInv(q)'
  <2>1. TaskInv(q) /\ tpc[q] # "tosleep" BY Zenon, <1>2, TaskTypes, NobodyGoes
  <2>2. \/ tst'[q] = tst[q] /\ (tst[q] = "SLEEPING" => q # clkAt)
        \/ tst[q] = "SLEEPING" /\ tst'[q] = "RUNNABLE"
    BY Zenon, <1>1, <1>2 DEF TickTypes, TicksTypeOK
  <2>3. q >= clkAt /\ q # clkAt => clkAt < NTASK /\ q >= clkAt + 1 BY <1>0, <1>1 DEF Task
  <2>4. tst'[q] = "SLEEPING" => q >= clkAt /\ q # clkAt /\ tpc[q] = "asleep"
    BY Zenon, <1>2, <2>1, <2>2 DEF TaskInv, SleepsRightly
  <2>5. tst'[q] = "SLEEPING" => clk' = "wakeup" /\ q >= clkAt' BY Zenon, <1>2, <2>3, <2>4
  <2>6. SleepsRightly(q)' /\ GoesToSleep(q)'
    BY Zenon, <1>2, <2>1, <2>4, <2>5 DEF SleepsRightly, GoesToSleep
  <2>7. Alive(q)' <=> Alive(q) BY Zenon, <2>2 DEF Alive
  <2>8. Age(q)' = Age(q) /\ Lived(q)' = Lived(q) /\ Waited(q)' = Waited(q) /\ ~Ahead(q)'
    BY Zenon, <1>2 DEF Age, Lived, Waited, Ahead
  <2>9. InSleep(q)' BY Zenon, <1>2, <2>1, <2>7, <2>8 DEF TaskInv, InSleep
  <2>10. Accounted(q)' BY Zenon, <1>2, <2>1, <2>2, <2>7, <2>8 DEF TaskInv, Accounted
  <2> QED BY Zenon, <2>6, <2>9, <2>10 DEF TaskInv
<1>7. clk' # "idle" <=> tickslock' = -1
  <2>1. 0 # -1 OBVIOUS
  <2>2. tickslock = -1 BY Zenon, <1>2 DEF TInv
  <2> QED BY Zenon, <1>2, <2>1, <2>2
<1> QED BY Zenon, <1>5, <1>6, <1>7 DEF TInv, TaskInv

-----------------------------------------------------------------------------
\* Every step preserves the invariant.
LEMMA TicksStep == TInv /\ [TicksNext]_ticksVars => TInv'
<1> SUFFICES ASSUME TInv, [TicksNext]_ticksVars PROVE TInv' OBVIOUS
<1>1. ASSUME NEW p \in Task \cup {0}, ClockBegin(p) PROVE TInv' BY Zenon, <1>1, ClockBeginKeeps
<1>2. CASE ClockStep BY Zenon, <1>2, UpdateSlotKeeps, WakeTaskKeeps DEF ClockStep
<1>3. ASSUME NEW p \in Task, NEW n \in SleepArgs, SysSleep(p, n) PROVE TInv'
  BY Zenon, <1>3, SysSleepKeeps
<1>4. ASSUME NEW p \in Task, SleepCheck(p) \/ SleepEnter(p) \/ SleepBack(p) \/ SleepReturn(p) PROVE TInv'
  BY Zenon, <1>4, SleepCheckKeeps, SleepEnterKeeps, SleepBackKeeps, SleepReturnKeeps
<1>5. ASSUME NEW p \in Task, ForkEnd(p) \/ Dispatch(p) \/ Preempt(p) PROVE TInv'
  BY Zenon, <1>5, SetStateKeeps DEF ForkEnd, Dispatch, Preempt
<1>6. ASSUME NEW p \in Task, AllocTask(p) \/ ExitTask(p) \/ KillTask(p) \/ ReapTask(p) PROVE TInv'
  BY Zenon, <1>6, AllocTaskKeeps, ExitTaskKeeps, KillTaskKeeps, ReapTaskKeeps
<1>7. CASE UNCHANGED ticksVars
  <2>1. UNCHANGED <<ticks, clk, clkAt, tickslock, task>> BY Zenon, <1>7 DEF ticksVars
  <2>2. TickTypes' BY Zenon, <2>1 DEF TInv, TickTypes, TicksTypeOK, task
  <2>3. ASSUME NEW q \in Task PROVE TaskInv(q)'
    <3>1. TaskInv(q) BY Zenon, TaskTypes
    <3>2. UNCHANGED TaskView(q) BY Zenon, <2>1 DEF TaskView, task
    <3>3. tickslock = q => tickslock' = q BY Zenon, <2>1
    <3> QED BY Zenon, <2>1, <3>1, <3>2, <3>3, TaskFrame
  <2> QED BY Zenon, <2>1, <2>2, <2>3 DEF TInv, TaskInv
<1> QED BY Zenon, <1>1, <1>2, <1>3, <1>4, <1>5, <1>6, <1>7 DEF TicksNext

\* Neither the handler's walk through the table nor the wrap of ticks makes a sleep
\* end early or late, or a running time longer than the life it was measured in;
\* a killed process sleeps on only if the kill fell between killed() and sleep(),
\* and up to the next tick.
THEOREM ClockIsSafe == TicksSpec => []ClockSafe
<1>1. TInv => ClockSafe
  <2> SUFFICES ASSUME TInv PROVE ClockSafe OBVIOUS
  <2>1. TicksTypeOK BY Zenon DEF TInv, TickTypes
  <2>2. SleptEnough BY Zenon DEF TInv, InSleep, SleptEnough
  <2>3. NobodyOversleeps BY Zenon DEF TInv, SleepsRightly, NobodyOversleeps
  <2>4. RtimeWithinLife BY Zenon DEF TInv, Accounted, RtimeWithinLife, Lived
  <2> QED BY Zenon, <2>1, <2>2, <2>3, <2>4 DEF ClockSafe
<1> QED BY TicksInitially, TicksStep, <1>1, PTL DEF TicksSpec
=============================================================================
