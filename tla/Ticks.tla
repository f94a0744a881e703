-------------------------------- MODULE Ticks --------------------------------
(***************************************************************************)
(* The clock: clockintr and devintr in kernel/trap.c, update_time and      *)
(* waitx's accounting in proc.c, and sys_sleep in sysproc.c.  The handler  *)
(* runs on hart 0 and takes one process lock at a time, while the other    *)
(* harts create, run and end processes.                                    *)
(*                                                                         *)
(* ticks is a uint and wraps at TickMod, which stands for 2^32.  The clock *)
(* does not tick while a process is MaxLife ticks old or more, so that the *)
(* times of a process stay below TickMod.                                  *)
(***************************************************************************)
EXTENDS Integers

CONSTANTS NTASK, TickMod, MaxLife, SleepArgs

ASSUME TicksAssumption ==
  /\ NTASK \in Nat \ {0} /\ TickMod \in Nat
  /\ MaxLife \in Nat /\ MaxLife + 1 < TickMod
  /\ SleepArgs \subseteq Int

VARIABLES
  ticks,
  clk, clkAt,              \* clockintr: phase and slot of its loop
  under,                   \* the process hart 0 was running, 0 for its scheduler
  tickslock,               \* 0 free, else the process that holds it; -1: clockintr
  tst, tpc,                \* p->state; where its system call is
  ticks0, tn, tret,        \* sys_sleep: ticks0, its argument, its last result
  tkilled,
  rtime, tctime, etime,
  slept,                   \* history: ticks since the call of sys_sleep
  missed                   \* history: killed since the last tick, on its way to sleep

task == <<tst, tpc, ticks0, tn, tret, tkilled, rtime, tctime, etime, slept, missed>>
ticksVars == <<ticks, clk, clkAt, under, tickslock, task>>

Task == 1 .. NTASK
Uint(x) == x % TickMod
MaxWait == MaxLife + 1

TicksInit ==
  /\ ticks = TickMod - 1
  /\ clk = "idle" /\ clkAt = 1 /\ under = 0 /\ tickslock = 0
  /\ tst = [p \in Task |-> "UNUSED"] /\ tpc = [p \in Task |-> "user"]
  /\ ticks0 = [p \in Task |-> 0] /\ tn = [p \in Task |-> 0] /\ tret = [p \in Task |-> 0]
  /\ tkilled = [p \in Task |-> FALSE]
  /\ rtime = [p \in Task |-> 0] /\ tctime = [p \in Task |-> 0] /\ etime = [p \in Task |-> 0]
  /\ slept = [p \in Task |-> 0] /\ missed = [p \in Task |-> FALSE]

Moves(p) == tst[p] = "RUNNING" /\ ~(clk # "idle" /\ under = p)
Alive(p) == tst[p] \notin {"UNUSED", "ZOMBIE"}

-----------------------------------------------------------------------------
(* clockintr                                                                 *)

\* The timer interrupts process p of hart 0, or its scheduler; tickslock is
\* taken and ticks moves on.  A process that holds tickslock has interrupts off.
ClockBegin(p) ==
  /\ clk = "idle" /\ tickslock = 0
  /\ p # 0 => tst[p] = "RUNNING"
  /\ \A q \in Task : Alive(q) => Uint(ticks - tctime[q]) < MaxLife
  /\ ticks' = Uint(ticks + 1)
  /\ tickslock' = -1 /\ clk' = "update" /\ clkAt' = 1 /\ under' = p
  /\ slept' = [q \in Task |-> IF tpc[q] = "user" \/ slept[q] = MaxWait THEN slept[q] ELSE slept[q] + 1]
  /\ missed' = [q \in Task |-> FALSE]
  /\ UNCHANGED <<tst, tpc, ticks0, tn, tret, tkilled, rtime, tctime, etime>>

\* The handler goes on with the next slot, or from one loop to what comes after it.
NextSlot(after) ==
  /\ clk' = IF clkAt < NTASK THEN clk ELSE after
  /\ clkAt' = IF clkAt < NTASK THEN clkAt + 1 ELSE 1

\* update_time, one slot.
UpdateSlot ==
  /\ clk = "update"
  /\ rtime' = IF tst[clkAt] = "RUNNING" THEN [rtime EXCEPT ![clkAt] = Uint(@ + 1)] ELSE rtime
  /\ NextSlot("wakeup")
  /\ UNCHANGED <<ticks, under, tickslock, tst, tpc, ticks0, tn, tret, tkilled, tctime, etime, slept, missed>>

\* Mutation: wakeup stops one slot early.
AllButLast(p) == p < NTASK /\ tst[p] = "SLEEPING"

SleepsOnTicks(p) == tst[p] = "SLEEPING"

\* wakeup(&ticks), one slot, and after the last one release(&tickslock).
WakeTask ==
  /\ clk = "wakeup"
  /\ tst' = IF SleepsOnTicks(clkAt) THEN [tst EXCEPT ![clkAt] = "RUNNABLE"] ELSE tst
  /\ NextSlot("idle")
  /\ tickslock' = IF clkAt < NTASK THEN tickslock ELSE 0
  /\ under' = IF clkAt < NTASK THEN under ELSE 0
  /\ UNCHANGED <<ticks, tpc, ticks0, tn, tret, tkilled, rtime, tctime, etime, slept, missed>>

-----------------------------------------------------------------------------
(* sys_sleep                                                                 *)

\* "ticks - ticks0 < n" in unsigned arithmetic.
NotYetOver(p) == Uint(ticks - ticks0[p]) < Uint(tn[p])

SysSleep(p, n) ==
  /\ Moves(p) /\ tpc[p] = "user" /\ tickslock = 0
  /\ tickslock' = p
  /\ ticks0' = [ticks0 EXCEPT ![p] = ticks] /\ tn' = [tn EXCEPT ![p] = n]
  /\ slept' = [slept EXCEPT ![p] = 0]
  /\ tpc' = [tpc EXCEPT ![p] = "check"]
  /\ UNCHANGED <<ticks, clk, clkAt, under, tst, tret, tkilled, rtime, tctime, etime, missed>>

\* The loop's test, and killed() if the time is not over.
SleepCheck(p) ==
  /\ Moves(p) /\ tpc[p] = "check" /\ tickslock = p
  /\ \/ /\ NotYetOver(p) /\ ~tkilled[p]
        /\ tpc' = [tpc EXCEPT ![p] = "tosleep"]
        /\ UNCHANGED <<tickslock, tret>>
     \/ /\ ~NotYetOver(p) \/ tkilled[p]
        /\ tpc' = [tpc EXCEPT ![p] = "returned"]
        /\ tret' = [tret EXCEPT ![p] = IF NotYetOver(p) THEN -1 ELSE 0]
        /\ tickslock' = 0
  /\ UNCHANGED <<ticks, clk, clkAt, under, tst, ticks0, tn, tkilled, rtime, tctime, etime, slept, missed>>

\* sleep() gives up tickslock only once it holds p->lock, which wakeup and kill need.
SleepEnter(p) ==
  /\ Moves(p) /\ tpc[p] = "tosleep"
  /\ tst' = [tst EXCEPT ![p] = "SLEEPING"] /\ tpc' = [tpc EXCEPT ![p] = "asleep"]
  /\ tickslock' = 0
  /\ UNCHANGED <<ticks, clk, clkAt, under, ticks0, tn, tret, tkilled, rtime, tctime, etime, slept, missed>>

\* sleep() takes tickslock again.
SleepBack(p) ==
  /\ Moves(p) /\ tpc[p] = "asleep" /\ tickslock = 0
  /\ tickslock' = p
  /\ tpc' = [tpc EXCEPT ![p] = "check"]
  /\ UNCHANGED <<ticks, clk, clkAt, under, tst, ticks0, tn, tret, tkilled, rtime, tctime, etime, slept, missed>>

\* exit: etime = ticks, read without tickslock.
EndTime(p) == [etime EXCEPT ![p] = ticks]

\* usertrap: the call is over, a killed process exits.
SleepReturn(p) ==
  /\ Moves(p) /\ tpc[p] = "returned"
  /\ tpc' = [tpc EXCEPT ![p] = "user"]
  /\ ticks0' = [ticks0 EXCEPT ![p] = 0] /\ tn' = [tn EXCEPT ![p] = 0]
  /\ tret' = [tret EXCEPT ![p] = 0] /\ slept' = [slept EXCEPT ![p] = 0]
  /\ IF tkilled[p] THEN tst' = [tst EXCEPT ![p] = "ZOMBIE"] /\ etime' = EndTime(p)
                   ELSE UNCHANGED <<tst, etime>>
  /\ UNCHANGED <<ticks, clk, clkAt, under, tickslock, tkilled, rtime, tctime, missed>>

-----------------------------------------------------------------------------
(* The life of a process                                                     *)

\* allocproc: ctime = ticks, read without tickslock; then fork's last step.
AllocTask(p) ==
  /\ tst[p] = "UNUSED"
  /\ tst' = [tst EXCEPT ![p] = "USED"]
  /\ tctime' = [tctime EXCEPT ![p] = ticks]
  /\ UNCHANGED <<ticks, clk, clkAt, under, tickslock, tpc, ticks0, tn, tret, tkilled, rtime, etime, slept, missed>>

SetState(p, from, to) ==
  /\ tst[p] = from
  /\ tst' = [tst EXCEPT ![p] = to]
  /\ UNCHANGED <<ticks, clk, clkAt, under, tickslock, tpc, ticks0, tn, tret, tkilled, rtime, tctime, etime, slept, missed>>

ForkEnd(p)  == SetState(p, "USED", "RUNNABLE")
Dispatch(p) == SetState(p, "RUNNABLE", "RUNNING")
Preempt(p)  == Moves(p) /\ tickslock # p /\ SetState(p, "RUNNING", "RUNNABLE")

ExitTask(p) ==
  /\ Moves(p) /\ tpc[p] = "user"
  /\ tst' = [tst EXCEPT ![p] = "ZOMBIE"]
  /\ etime' = EndTime(p)
  /\ UNCHANGED <<ticks, clk, clkAt, under, tickslock, tpc, ticks0, tn, tret, tkilled, rtime, tctime, slept, missed>>

\* kill takes p->lock only: it may come between the killed() of sys_sleep and its sleep().
KillTask(p) ==
  /\ Alive(p) /\ ~tkilled[p]
  /\ tkilled' = [tkilled EXCEPT ![p] = TRUE]
  /\ tst' = IF tst[p] = "SLEEPING" THEN [tst EXCEPT ![p] = "RUNNABLE"] ELSE tst
  /\ missed' = [missed EXCEPT ![p] = tpc[p] = "tosleep"]
  /\ UNCHANGED <<ticks, clk, clkAt, under, tickslock, tpc, ticks0, tn, tret, rtime, tctime, etime, slept>>

\* waitx: the times are reported and freeproc resets the slot.
ReapTask(p) ==
  /\ tst[p] = "ZOMBIE"
  /\ tst' = [tst EXCEPT ![p] = "UNUSED"]
  /\ tkilled' = [tkilled EXCEPT ![p] = FALSE] /\ missed' = [missed EXCEPT ![p] = FALSE]
  /\ rtime' = [rtime EXCEPT ![p] = 0] /\ etime' = [etime EXCEPT ![p] = 0]
  /\ tctime' = [tctime EXCEPT ![p] = 0]     \* until allocproc sets it
  /\ UNCHANGED <<ticks, clk, clkAt, under, tickslock, tpc, ticks0, tn, tret, slept>>

ClockStep == UpdateSlot \/ WakeTask

TicksNext ==
  \/ \E p \in Task \cup {0} : ClockBegin(p)
  \/ ClockStep
  \/ \E p \in Task :
       \/ \E n \in SleepArgs : SysSleep(p, n)
       \/ SleepCheck(p) \/ SleepEnter(p) \/ SleepBack(p) \/ SleepReturn(p)
       \/ AllocTask(p) \/ ForkEnd(p) \/ Dispatch(p) \/ Preempt(p) \/ ExitTask(p) \/ KillTask(p) \/ ReapTask(p)

TicksSpec == TicksInit /\ [][TicksNext]_ticksVars

-----------------------------------------------------------------------------
TicksTypeOK ==
  /\ ticks \in 0 .. TickMod - 1 /\ clkAt \in Task /\ tickslock \in Task \cup {0, -1}
  /\ tst \in [Task -> {"UNUSED", "USED", "RUNNABLE", "RUNNING", "SLEEPING", "ZOMBIE"}]
  /\ tpc \in [Task -> {"user", "check", "tosleep", "asleep", "returned"}]
  /\ rtime \in [Task -> 0 .. MaxLife + 1]

\* sleep(n) returns 0 only after n ticks, though ticks wraps around in between.
SleptEnough ==
  \A p \in Task : tpc[p] = "returned" /\ tret[p] = 0 => slept[p] >= Uint(tn[p])

\* Between two interrupts nobody sleeps on ticks whose time is over: tickslock
\* orders sys_sleep's test before or after the whole handler.  A killed process
\* sleeps only if the kill fell between killed() and sleep(), and only up to the
\* next tick.
NobodyOversleeps ==
  \A p \in Task : clk = "idle" /\ tst[p] = "SLEEPING" => NotYetOver(p) /\ (tkilled[p] => missed[p])

\* The running time that waitx reports of a process is at most one tick more than
\* the time it lived: ctime and etime are read without tickslock while update_time
\* is on its way through the table.  (By that one tick wtime can fall to -1.)
RtimeWithinLife ==
  \A p \in Task : tst[p] = "ZOMBIE" => rtime[p] <= Uint(etime[p] - tctime[p]) + 1

\* Neither the handler's walk through the table nor the wrap of ticks makes a
\* sleep end early or late, or a process's times inconsistent.
ClockSafe == TicksTypeOK /\ SleptEnough /\ NobodyOversleeps /\ RtimeWithinLife
=============================================================================
