------------------------------ MODULE Spinlock ------------------------------
(***************************************************************************)
(* kernel/spinlock.c with sched(), yield() and sleep() of proc.c: spin-    *)
(* locks, the nesting of push_off and pop_off, interrupts that arrive in   *)
(* the kernel, and kernel threads that move from hart to hart.             *)
(*                                                                         *)
(* A context is the kernel thread of a process or a hart's scheduler, and  *)
(* a hart stands for its scheduler.  A process's p->lock is named by its   *)
(* thread.                                                                 *)
(***************************************************************************)
EXTENDS Integers, FiniteSets

CONSTANTS
  Hart, Thread,
  Lock,          \* locks that both system calls and interrupt handlers take
  NoLock, NoHart

ASSUME SpinAssumption ==
  /\ Thread \cap (Hart \cup Lock \cup {NoLock}) = {} /\ Hart \cap Lock = {}
  /\ NoHart \notin Hart /\ NoLock \notin Lock

VARIABLES
  running,             \* the context each hart runs
  sie, noff, intena,   \* interrupts enabled; struct cpu
  owner,               \* lk->cpu of a locked lock
  frame,               \* "sys", or "trap" while kerneltrap runs on top of it
  had,                 \* the locks of the code that kerneltrap interrupted
  spin,                \* the lock a context spins for in acquire
  spc, saved           \* threads: in or around sched(), and its local intena

spinVars == <<running, sie, noff, intena, owner, frame, had, spin, spc, saved>>

Context == Thread \cup Hart
AllLocks == Lock \cup Thread

\* The harts are in scheduler(); the threads are runnable, some of them
\* preempted in kerneltrap.
SpinInit ==
  /\ running = [h \in Hart |-> h]
  /\ sie = [h \in Hart |-> TRUE] /\ noff = [h \in Hart |-> 0] /\ intena = [h \in Hart |-> TRUE]
  /\ owner = [l \in AllLocks |-> NoHart]
  /\ frame \in [Context -> {"sys", "trap"}] /\ \A h \in Hart : frame[h] = "sys"
  /\ had = [c \in Context |-> {}] /\ spin = [c \in Context |-> NoLock]
  /\ spc = [t \in Thread |-> "out"]
  /\ saved = [t \in Thread |-> frame[t] = "sys"]

\* Mutation: push_off leaves interrupts on.
PushOn(h) ==
  /\ UNCHANGED sie
  /\ intena' = [intena EXCEPT ![h] = IF noff[h] = 0 THEN sie[h] ELSE @]
  /\ noff' = [noff EXCEPT ![h] = @ + 1]

push_off(h) ==
  /\ sie' = [sie EXCEPT ![h] = FALSE]
  /\ intena' = [intena EXCEPT ![h] = IF noff[h] = 0 THEN sie[h] ELSE @]
  /\ noff' = [noff EXCEPT ![h] = @ + 1]

pop_off(h) ==
  /\ noff' = [noff EXCEPT ![h] = @ - 1]
  /\ sie' = [sie EXCEPT ![h] = noff[h] = 1 /\ intena[h]]
  /\ UNCHANGED intena

Holds(h)  == {l \in AllLocks : owner[l] = h}
Idle(c)   == spin[c] = NoLock /\ (c \in Thread => spc[c] = "run")

\* What a context takes: the scheduler the p->locks; a system call any lock, its own
\* p->lock (killed) and those of others (wakeup, wait, kill) among them; a handler the
\* same, those of the code it interrupted too.
MayTake(h, c, l) ==
  /\ l \notin Holds(h) \ had[c]
  /\ c \in Thread \/ frame[c] = "trap" \/ l \in Thread

\* acquire up to the loop.
AcquireBegin(h, l) ==
  LET c == running[h] IN
  /\ Idle(c) /\ MayTake(h, c, l)
  /\ push_off(h)
  /\ spin' = [spin EXCEPT ![c] = l]
  /\ UNCHANGED <<running, owner, frame, had, spc, saved>>

\* yield(), and sleep() and exit(), which are called with one lock held: acquire of
\* p->lock.
ToSched(h) ==
  LET c == running[h] IN
  /\ c \in Thread /\ Idle(c)
  /\ Holds(h) = {} \/ (frame[c] = "sys" /\ \E lk \in Lock : Holds(h) = {lk})
  /\ push_off(h)
  /\ spin' = [spin EXCEPT ![c] = c]
  /\ spc' = [spc EXCEPT ![c] = "tosched"]
  /\ UNCHANGED <<running, owner, frame, had, saved>>

\* The swap that finds the lock free.
AcquireEnd(h) ==
  LET c == running[h] IN
  /\ spin[c] # NoLock /\ owner[spin[c]] = NoHart
  /\ owner' = [owner EXCEPT ![spin[c]] = h]
  /\ spin' = [spin EXCEPT ![c] = NoLock]
  /\ UNCHANGED <<running, sie, noff, intena, frame, had, spc, saved>>

\* release, and the scheduler's release of the process that just stopped.
Release(h, l) ==
  LET c == running[h] IN
  /\ owner[l] = h
  /\ Idle(c) \/ (l = c /\ spc[c] = "release")
  /\ owner' = [owner EXCEPT ![l] = NoHart]
  /\ pop_off(h)
  /\ spc' = IF l = c THEN [spc EXCEPT ![c] = "run"] ELSE spc
  /\ UNCHANGED <<running, intena, frame, had, spin, saved>>

\* Mutation: sleep and exit keep the lock they were called with.
KeepsLock(h) == {}

Others(h) == Holds(h) \ {running[h]}

\* sleep and exit give up their lock once they have p->lock; yield has none.
GiveUpLock(h) ==
  LET c == running[h] IN
  /\ c \in Thread /\ spc[c] = "tosched" /\ spin[c] = NoLock
  /\ \/ \E lk \in Others(h) : owner' = [owner EXCEPT ![lk] = NoHart] /\ pop_off(h)
     \/ Others(h) = {} /\ UNCHANGED <<owner, sie, noff, intena>>
  /\ spc' = [spc EXCEPT ![c] = "sched"]
  /\ UNCHANGED <<running, frame, had, spin, saved>>

\* sched() saves intena and switches to the scheduler.
Sched(h) ==
  LET c == running[h] IN
  /\ c \in Thread /\ spc[c] = "sched"
  /\ saved' = [saved EXCEPT ![c] = intena[h]]
  /\ spc' = [spc EXCEPT ![c] = "out"]
  /\ running' = [running EXCEPT ![h] = h]
  /\ UNCHANGED <<sie, noff, intena, owner, frame, had, spin>>

\* The scheduler, holding its lock and no other, switches to a thread.
SwitchTo(h, t) ==
  /\ running[h] = h /\ Idle(h) /\ frame[h] = "sys" /\ Holds(h) = {t} /\ spc[t] = "out"
  /\ running' = [running EXCEPT ![h] = t]
  /\ spc' = [spc EXCEPT ![t] = "in"]
  /\ UNCHANGED <<sie, noff, intena, owner, frame, had, spin, saved>>

\* Mutation: sched() leaves the intena of whoever ran on this hart before.
KeepIntena(h, t) == UNCHANGED intena

RestoreIntena(h, t) == intena' = [intena EXCEPT ![h] = saved[t]]

\* The thread is back in sched().
SchedBack(h) ==
  LET c == running[h] IN
  /\ c \in Thread /\ spc[c] = "in"
  /\ RestoreIntena(h, c)
  /\ spc' = [spc EXCEPT ![c] = "release"]
  /\ UNCHANGED <<running, sie, noff, owner, frame, had, spin, saved>>

\* scheduler() starts over.
IntrOn(h) ==
  /\ running[h] = h /\ Idle(h) /\ frame[h] = "sys" /\ Holds(h) = {} /\ ~sie[h]
  /\ sie' = [sie EXCEPT ![h] = TRUE]
  /\ UNCHANGED <<running, noff, intena, owner, frame, had, spin, spc, saved>>

\* An interrupt in the kernel; the hardware turns interrupts off.
KernelTrap(h) ==
  /\ sie[h]
  /\ frame' = [frame EXCEPT ![running[h]] = "trap"]
  /\ had' = [had EXCEPT ![running[h]] = Holds(h)]
  /\ sie' = [sie EXCEPT ![h] = FALSE]
  /\ UNCHANGED <<running, noff, intena, owner, spin, spc, saved>>

\* kerneltrap restores sstatus and returns.
TrapReturn(h) ==
  LET c == running[h] IN
  /\ frame[c] = "trap" /\ Idle(c) /\ Holds(h) \subseteq had[c]
  /\ frame' = [frame EXCEPT ![c] = "sys"] /\ had' = [had EXCEPT ![c] = {}]
  /\ sie' = [sie EXCEPT ![h] = TRUE]
  /\ UNCHANGED <<running, noff, intena, owner, spin, spc, saved>>

SpinNext ==
  \E h \in Hart :
    \/ \E l \in AllLocks : AcquireBegin(h, l) \/ Release(h, l)
    \/ \E t \in Thread : SwitchTo(h, t)
    \/ AcquireEnd(h) \/ ToSched(h) \/ GiveUpLock(h) \/ Sched(h) \/ SchedBack(h)
    \/ IntrOn(h) \/ KernelTrap(h) \/ TrapReturn(h)

SpinSpec == SpinInit /\ [][SpinNext]_spinVars

-----------------------------------------------------------------------------
\* "if interrupts are initially off, then push_off, pop_off leaves them off", and
\* on if they were on, although a thread may be switched out on one hart and in
\* on another between the two: outside all locks, a thread in a system call runs
\* with interrupts on, and one in kerneltrap with interrupts off.
InterruptsRestored ==
  \A h \in Hart :
    LET c == running[h] IN
    c \in Thread /\ Idle(c) /\ Holds(h) = {} => (sie[h] <=> frame[c] = "sys")

\* Interrupts are off while a lock is held or waited for, so no handler spins for
\* a lock that the code it interrupted holds ("to avoid deadlock").
NoSelfDeadlock ==
  \A h \in Hart :
    /\ Holds(h) # {} \/ spin[running[h]] # NoLock => ~sie[h]
    /\ spin[running[h]] \notin Holds(h)

\* noff counts the locks a hart holds and the one it spins for, across context
\* switches too: pop_off never finds it 0.
NoffExact ==
  \A h \in Hart :
    noff[h] = Cardinality(Holds(h)) + (IF spin[running[h]] = NoLock THEN 0 ELSE 1)

\* None of sched()'s panics: however yield, sleep and exit came there, the thread
\* has its p->lock and no other ("sched locks"), and interrupts are off.
SchedReady ==
  \A h \in Hart :
    LET c == running[h] IN
    c \in Thread /\ spc[c] = "sched" => Holds(h) = {c} /\ noff[h] = 1 /\ ~sie[h]

\* push_off and pop_off nest: a thread leaves its outermost critical section with
\* interrupts as it entered it and calls sched() one level deep, because noff is
\* exactly the number of its locks.
NestingExact == NoffExact /\ InterruptsRestored /\ SchedReady
=============================================================================
