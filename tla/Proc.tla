-------------------------------- MODULE Proc --------------------------------
(***************************************************************************)
(* The process table of kernel/proc.c: fork, exit, wait, kill, sleep,      *)
(* wakeup, yield, sched and scheduler, with one spinlock per process slot  *)
(* (p->lock) and the global wait_lock.  Which RUNNABLE process a scheduler *)
(* takes is left open, so that the module covers the RR, FCFS, PBS and LBS *)
(* builds, which all lock the slot and test RUNNABLE before they switch.   *)
(*                                                                         *)
(* A CPU executes either its scheduler thread or the kernel/user thread of *)
(* one process.  One action is one critical section: the code between two  *)
(* lock operations that another CPU could observe.  Memory, files and      *)
(* exit statuses are left out; an allocation may fail at any call.         *)
(***************************************************************************)
EXTENDS Integers, FiniteSets

CONSTANTS
  NPROC,      \* size of the process table
  CPU,        \* the set of harts
  NoCPU,      \* the holder of a lock that is free
  RR,         \* TRUE in the RR build: traps yield in the kernel as well
  KillArgs,   \* pids that programs pass to kill()
  MaxPid      \* bound on nextpid: programs stop forking when it is reached

ASSUME NprocAssumption == NPROC \in Nat \ {0}
ASSUME CpuAssumption == NoCPU \notin CPU
ASSUME RRAssumption == RR \in BOOLEAN
ASSUME KillAssumption == KillArgs \subseteq Nat
ASSUME MaxPidAssumption == MaxPid \in Nat

VARIABLES
  state, chan, killed, pid, parent,   \* fields of struct proc
  nextpid,
  plock, wait_lock,                   \* the CPU holding each spinlock
  cproc,      \* struct cpu's proc: the process this CPU is running
  cpc,        \* where the CPU is: in the scheduler, running, or back from swtch
  pc,         \* where the process's thread is
  ctx,        \* where it continues once it is switched back in ("user" when dead)
  idx,        \* the loop variable of its table scan
  arg,        \* np in fork, the pid given to kill
  havekids,   \* local of wait
  panicked

table == <<state, chan, killed, pid, parent, nextpid>>
locks == <<plock, wait_lock>>
cpus  == <<cproc, cpc>>
local == <<idx, arg, havekids>>
vars  == <<table, locks, cpus, local, pc, ctx, panicked>>

Slots    == 0 .. NPROC - 1
initproc == 0
None     == -1

\* The values of a loop variable over the table.
ScanRange == 0 .. NPROC

States  == {"UNUSED", "USED", "SLEEPING", "RUNNABLE", "RUNNING", "ZOMBIE"}

\* Control points of a process at which it holds no spinlock and interrupts
\* are on, so that kerneltrap may yield there.
Preemptible == {"fork", "fork_parent", "fork_runnable", "exit", "wait",
                "wait_again", "kill", "sysret"}

ControlPoints == Preemptible \cup
  {"user", "timer", "fork_copy", "exit_reparent", "exit_wakeinit",
   "exit_wakeparent", "exit_zombie", "wait_scan", "wait_sleep", "sleep",
   "sched", "swtched"}

ResumePoints == Preemptible \cup {"user", "timer", "zombie"}

TypeOK ==
  /\ state \in [Slots -> States]
  /\ chan \in [Slots -> Slots \cup {None}]
  /\ killed \in [Slots -> {0, 1}]
  /\ pid \in [Slots -> Nat]
  /\ parent \in [Slots -> Slots \cup {None}]
  /\ nextpid \in Nat \ {0}
  /\ plock \in [Slots -> CPU \cup {NoCPU}]
  /\ wait_lock \in CPU \cup {NoCPU}
  /\ cproc \in [CPU -> Slots \cup {None}]
  /\ cpc \in [CPU -> {"scan", "run", "back"}]
  /\ pc \in [Slots -> ControlPoints]
  /\ ctx \in [Slots -> ResumePoints]
  /\ idx \in [Slots -> ScanRange]
  /\ arg \in [Slots -> Nat]
  /\ havekids \in [Slots -> {0, 1}]
  /\ panicked \in BOOLEAN

-----------------------------------------------------------------------------
\* userinit has made the first process RUNNABLE; every hart is about to enter
\* the scheduler.
Init ==
  /\ state = [p \in Slots |-> IF p = initproc THEN "RUNNABLE" ELSE "UNUSED"]
  /\ chan = [p \in Slots |-> None]
  /\ killed = [p \in Slots |-> 0]
  /\ pid = [p \in Slots |-> IF p = initproc THEN 1 ELSE 0]
  /\ parent = [p \in Slots |-> None]
  /\ nextpid = 2
  /\ plock = [p \in Slots |-> NoCPU]
  /\ wait_lock = NoCPU
  /\ cproc = [c \in CPU |-> None]
  /\ cpc = [c \in CPU |-> "scan"]
  /\ pc = [p \in Slots |-> "swtched"]
  /\ ctx = [p \in Slots |-> "user"]
  /\ idx = [p \in Slots |-> 0]
  /\ arg = [p \in Slots |-> 0]
  /\ havekids = [p \in Slots |-> 0]
  /\ panicked = FALSE

\* CPU c is executing process p, on p's kernel stack or in user space.
Runs(c, p) == cpc[c] = "run" /\ cproc[c] = p

At(c, p, l) == Runs(c, p) /\ pc[p] = l

Goto(p, l) == pc' = [pc EXCEPT ![p] = l]

\* acquire() completes only when the lock is free: while it is not, the CPU
\* spins, which is a stuttering step.
Free(p) == plock[p] = NoCPU

-----------------------------------------------------------------------------
(* scheduler, swtch and sched *)

\* The scheduler locks the slot of a process that is RUNNABLE and switches to
\* it with the lock still held.
SchedPick(c, p) ==
  /\ cpc[c] = "scan"
  /\ Free(p)
  /\ state[p] = "RUNNABLE"
  /\ state' = [state EXCEPT ![p] = "RUNNING"]
  /\ plock' = [plock EXCEPT ![p] = c]
  /\ cproc' = [cproc EXCEPT ![c] = p]
  /\ cpc' = [cpc EXCEPT ![c] = "run"]
  /\ UNCHANGED <<chan, killed, pid, parent, nextpid, wait_lock, local, pc, ctx,
                 panicked>>

\* The process switched back: the scheduler clears c->proc and releases the
\* lock that the process acquired before it called sched.
SchedReturn(c) ==
  /\ cpc[c] = "back"
  /\ plock' = [plock EXCEPT ![cproc[c]] = NoCPU]
  /\ cproc' = [cproc EXCEPT ![c] = None]
  /\ cpc' = [cpc EXCEPT ![c] = "scan"]
  /\ UNCHANGED <<table, wait_lock, local, pc, ctx, panicked>>

\* sched(): save the context and continue on the CPU's scheduler stack.
Swtch(c, p) ==
  /\ At(c, p, "sched")
  /\ Goto(p, "swtched")
  /\ cpc' = [cpc EXCEPT ![c] = "back"]
  /\ UNCHANGED <<table, locks, cproc, local, ctx, panicked>>

\* The tail of yield, of sleep and of forkret: the process is back on a CPU
\* and releases the lock that the scheduler acquired; sleep also clears chan.
Resume(c, p) ==
  /\ At(c, p, "swtched")
  /\ plock' = [plock EXCEPT ![p] = NoCPU]
  /\ chan' = IF ctx[p] = "wait_again" THEN [chan EXCEPT ![p] = None] ELSE chan
  /\ Goto(p, ctx[p])
  /\ ctx' = [ctx EXCEPT ![p] = "user"]
  /\ UNCHANGED <<state, killed, pid, parent, nextpid, wait_lock, cpus, local,
                 panicked>>

\* Mutation: yield without acquire(&p->lock).
YieldNoLock(c, p) == UNCHANGED plock

YieldLock(c, p) == Free(p) /\ plock' = [plock EXCEPT ![p] = c]

\* yield() up to sched(); the process will continue at l.
DoYield(c, p, l) ==
  /\ YieldLock(c, p)
  /\ state' = [state EXCEPT ![p] = "RUNNABLE"]
  /\ ctx' = [ctx EXCEPT ![p] = l]
  /\ Goto(p, "sched")
  /\ UNCHANGED <<chan, killed, pid, parent, nextpid, wait_lock, cpus, local,
                 panicked>>

\* A timer interrupt from user space: usertrap yields once at once and once
\* more, under RR, after the check of killed.
UserTimer(c, p) == At(c, p, "user") /\ DoYield(c, p, "timer")

\* A timer interrupt in the kernel while interrupts are on; kerneltrap yields
\* in the RR build only.
KernelTimer(c, p) ==
  /\ RR
  /\ \E l \in Preemptible : At(c, p, l) /\ DoYield(c, p, l)

\* The end of usertrap after a timer interrupt.
TimerEnd(c, p) ==
  /\ At(c, p, "timer")
  /\ Free(p)
  /\ IF killed[p] = 1
     THEN Goto(p, "exit") /\ UNCHANGED <<table, locks, cpus, local, ctx, panicked>>
     ELSE IF RR THEN DoYield(c, p, "user")
     ELSE Goto(p, "user") /\ UNCHANGED <<table, locks, cpus, local, ctx, panicked>>

-----------------------------------------------------------------------------
(* system call entry and return *)

\* usertrap: a killed process exits instead of entering the call.
Enter(c, p, call) ==
  /\ At(c, p, "user")
  /\ Free(p)
  /\ Goto(p, IF killed[p] = 1 THEN "exit" ELSE call)
  /\ idx' = [idx EXCEPT ![p] = 0]
  /\ UNCHANGED <<table, locks, cpus, havekids, ctx, panicked>>

\* Processes inside allocproc: each of them may still take a pid.
Allocating == {q \in Slots : "fork" \in {pc[q], ctx[q]}}

Syscall(c, p) ==
  \E call \in {"fork", "exit", "wait"} :
    /\ call = "fork" => nextpid + Cardinality(Allocating) < MaxPid
    /\ Enter(c, p, call)
    /\ UNCHANGED arg

SysKill(c, p) ==
  \E k \in KillArgs :
    /\ Enter(c, p, "kill")
    /\ arg' = IF killed[p] = 1 THEN arg ELSE [arg EXCEPT ![p] = k]

\* usertrap after the call: exit if killed meanwhile, else back to user space.
SysRet(c, p) ==
  /\ At(c, p, "sysret")
  /\ Free(p)
  /\ Goto(p, IF killed[p] = 1 THEN "exit" ELSE "user")
  /\ UNCHANGED <<table, locks, cpus, local, ctx, panicked>>

\* The locals of a call are dead once it is over.
Return(p) ==
  /\ Goto(p, "sysret")
  /\ idx' = [idx EXCEPT ![p] = 0]
  /\ arg' = [arg EXCEPT ![p] = 0]
  /\ havekids' = [havekids EXCEPT ![p] = 0]

-----------------------------------------------------------------------------
(* fork *)

\* allocproc: one slot of the scan for an UNUSED one, which stays locked.
ForkScan(c, p) ==
  LET q == idx[p] IN
  /\ At(c, p, "fork")
  /\ q < NPROC
  /\ Free(q)
  /\ \/ /\ state[q] # "UNUSED"
        /\ idx' = [idx EXCEPT ![p] = q + 1]
        /\ UNCHANGED <<state, pid, nextpid, plock, arg, pc, ctx>>
     \/ /\ state[q] = "UNUSED"
        /\ state' = [state EXCEPT ![q] = "USED"]
        /\ pid' = [pid EXCEPT ![q] = nextpid]
        /\ nextpid' = nextpid + 1
        /\ plock' = [plock EXCEPT ![q] = c]
        /\ arg' = [arg EXCEPT ![p] = q]
        /\ pc' = [pc EXCEPT ![p] = "fork_copy", ![q] = "swtched"]
        /\ ctx' = [ctx EXCEPT ![q] = "user"]
        /\ UNCHANGED idx
  /\ UNCHANGED <<chan, killed, parent, wait_lock, cpus, havekids, panicked>>

\* No slot is free.
ForkFull(c, p) ==
  /\ At(c, p, "fork")
  /\ idx[p] = NPROC
  /\ Return(p)
  /\ UNCHANGED <<table, locks, cpus, ctx, panicked>>

\* Mutation: freeproc leaves p->killed as it is.
KeepKilled(q) == killed

ClearKilled(q) == [killed EXCEPT ![q] = 0]

\* freeproc(q), called with q's lock held.
FreeProc(q) ==
  /\ state' = [state EXCEPT ![q] = "UNUSED"]
  /\ pid' = [pid EXCEPT ![q] = 0]
  /\ parent' = [parent EXCEPT ![q] = None]
  /\ chan' = [chan EXCEPT ![q] = None]
  /\ killed' = ClearKilled(q)

\* The trapframe, the page table or the copy of the memory cannot be allocated.
ForkFail(c, p) ==
  /\ At(c, p, "fork_copy")
  /\ FreeProc(arg[p])
  /\ plock' = [plock EXCEPT ![arg[p]] = NoCPU]
  /\ Return(p)
  /\ UNCHANGED <<nextpid, wait_lock, cpus, ctx, panicked>>

\* The copy is made; fork lets the child's lock go before it takes wait_lock.
ForkCopied(c, p) ==
  /\ At(c, p, "fork_copy")
  /\ plock' = [plock EXCEPT ![arg[p]] = NoCPU]
  /\ Goto(p, "fork_parent")
  /\ UNCHANGED <<table, wait_lock, cpus, local, ctx, panicked>>

ForkParent(c, p) ==
  /\ At(c, p, "fork_parent")
  /\ wait_lock = NoCPU
  /\ parent' = [parent EXCEPT ![arg[p]] = p]
  /\ Goto(p, "fork_runnable")
  /\ UNCHANGED <<state, chan, killed, pid, nextpid, locks, cpus, local, ctx,
                 panicked>>

ForkRunnable(c, p) ==
  /\ At(c, p, "fork_runnable")
  /\ Free(arg[p])
  /\ state' = [state EXCEPT ![arg[p]] = "RUNNABLE"]
  /\ Return(p)
  /\ UNCHANGED <<chan, killed, pid, parent, nextpid, locks, cpus, ctx, panicked>>

-----------------------------------------------------------------------------
(* exit *)

\* exit() by init is a kernel panic.
ExitInit(c, p) ==
  /\ At(c, p, "exit")
  /\ p = initproc
  /\ panicked' = TRUE
  /\ UNCHANGED <<table, locks, cpus, local, pc, ctx>>

ExitLock(c, p) ==
  /\ At(c, p, "exit")
  /\ p # initproc
  /\ wait_lock = NoCPU
  /\ wait_lock' = c
  /\ Goto(p, "exit_reparent")
  /\ UNCHANGED <<table, plock, cpus, local, ctx, panicked>>

Children(p) == {q \in Slots : parent[q] = p}

Adopted(p) == [q \in Slots |-> IF q \in Children(p) THEN initproc ELSE parent[q]]

\* Mutation: the children are given to init, which is not woken.
WakeNobody(p) == "exit_wakeparent"

AfterAdoption(p) ==
  IF Children(p) = {} THEN "exit_wakeparent" ELSE "exit_wakeinit"

\* reparent(p).  The loop's accesses to parent are all under wait_lock, and its
\* calls of wakeup(initproc) after the first one find init awake already, so
\* that one pass over the table stands for them.
Reparent(c, p) ==
  /\ At(c, p, "exit_reparent")
  /\ parent' = Adopted(p)
  /\ Goto(p, AfterAdoption(p))
  /\ idx' = [idx EXCEPT ![p] = 0]
  /\ UNCHANGED <<state, chan, killed, pid, nextpid, locks, cpus, arg, havekids,
                 ctx, panicked>>

\* The state of slot q after wakeup(ch) has looked at it.
Woken(q, ch) ==
  IF state[q] = "SLEEPING" /\ chan[q] = ch THEN "RUNNABLE" ELSE state[q]

\* One slot of wakeup(ch); p is myproc() and is skipped.
WakeSlot(p, ch) ==
  LET q == idx[p] IN
  /\ q < NPROC
  /\ q # p => Free(q)
  /\ state' = IF q = p THEN state ELSE [state EXCEPT ![q] = Woken(q, ch)]
  /\ idx' = [idx EXCEPT ![p] = q + 1]
  /\ UNCHANGED pc

WakeDone(p, l) ==
  /\ idx[p] = NPROC
  /\ idx' = [idx EXCEPT ![p] = 0]
  /\ Goto(p, l)
  /\ UNCHANGED state

WakeInit(c, p) ==
  /\ At(c, p, "exit_wakeinit")
  /\ WakeSlot(p, initproc) \/ WakeDone(p, "exit_wakeparent")
  /\ UNCHANGED <<chan, killed, pid, parent, nextpid, locks, cpus, arg, havekids,
                 ctx, panicked>>

\* Mutation: exit wakes sleepers on its own slot instead of the parent's.
OwnChannel(p) == p

ParentChannel(p) == parent[p]

WakeParent(c, p) ==
  /\ At(c, p, "exit_wakeparent")
  /\ WakeSlot(p, ParentChannel(p)) \/ WakeDone(p, "exit_zombie")
  /\ UNCHANGED <<chan, killed, pid, parent, nextpid, locks, cpus, arg, havekids,
                 ctx, panicked>>

\* Mutation: wait_lock is still held when exit calls sched.
ExitHoldsOn == UNCHANGED wait_lock

ExitRelease == wait_lock' = NoCPU

\* From acquire(&p->lock) to release(&wait_lock); sched() follows.
ExitZombie(c, p) ==
  /\ At(c, p, "exit_zombie")
  /\ Free(p)
  /\ plock' = [plock EXCEPT ![p] = c]
  /\ state' = [state EXCEPT ![p] = "ZOMBIE"]
  /\ ExitRelease
  /\ ctx' = [ctx EXCEPT ![p] = "zombie"]
  /\ Goto(p, "sched")
  /\ UNCHANGED <<chan, killed, pid, parent, nextpid, cpus, local, panicked>>

-----------------------------------------------------------------------------
(* wait and sleep *)

\* acquire(&wait_lock), at the start of wait and at the end of sleep.
WaitLock(c, p) ==
  /\ At(c, p, "wait") \/ At(c, p, "wait_again")
  /\ wait_lock = NoCPU
  /\ wait_lock' = c
  /\ idx' = [idx EXCEPT ![p] = 0]
  /\ havekids' = [havekids EXCEPT ![p] = 0]
  /\ Goto(p, "wait_scan")
  /\ UNCHANGED <<table, plock, cpus, arg, ctx, panicked>>

\* q is the first child of p from slot i on; the scan skips the slots before it.
FirstKid(p, i, q) ==
  q >= i /\ parent[q] = p /\ \A r \in i .. q - 1 : parent[r] # p

NoKid(p, i) == \A q \in Slots : q >= i => parent[q] # p

\* The scan is at child q, which it locks; the child is a zombie or not.
WaitAt(c, p, q) == At(c, p, "wait_scan") /\ FirstKid(p, idx[p], q) /\ Free(q)

\* Mutation: the scan steps over a slot.
SkipTwo(q) == q + 2

NextSlot(q) == q + 1

\* A child that has not exited: go on with the scan.
WaitSkip(c, p) ==
  \E q \in Slots :
    /\ WaitAt(c, p, q)
    /\ state[q] # "ZOMBIE"
    /\ havekids' = [havekids EXCEPT ![p] = 1]
    /\ idx' = [idx EXCEPT ![p] = NextSlot(q)]
    /\ UNCHANGED <<table, locks, cpus, arg, pc, ctx, panicked>>

\* A zombie child: free its slot and return its pid.
WaitReap(c, p) ==
  \E q \in Slots :
    /\ WaitAt(c, p, q)
    /\ state[q] = "ZOMBIE"
    /\ FreeProc(q)
    /\ wait_lock' = NoCPU
    /\ Return(p)
    /\ UNCHANGED <<nextpid, plock, cpus, ctx, panicked>>

\* A zombie child whose status cannot be copied out: it stays a zombie.
WaitBadAddr(c, p) ==
  /\ \E q \in Slots : WaitAt(c, p, q) /\ state[q] = "ZOMBIE"
  /\ wait_lock' = NoCPU
  /\ Return(p)
  /\ UNCHANGED <<table, plock, cpus, ctx, panicked>>

\* Mutation: wait does not look at killed.
GiveUpChildless(p) == havekids[p] = 0

GiveUp(p) == havekids[p] = 0 \/ killed[p] = 1

\* The scan is over: give up without children or when killed, else sleep.
WaitEnd(c, p) ==
  /\ At(c, p, "wait_scan")
  /\ NoKid(p, idx[p])
  /\ havekids[p] = 1 => Free(p)
  /\ IF GiveUp(p)
     THEN wait_lock' = NoCPU /\ Return(p)
     ELSE Goto(p, "wait_sleep") /\ UNCHANGED <<wait_lock, local>>
  /\ UNCHANGED <<table, plock, cpus, ctx, panicked>>

\* sleep(): p->lock is acquired before lk is released ...
SleepLock(c, p) ==
  /\ At(c, p, "wait_sleep")
  /\ Free(p)
  /\ plock' = [plock EXCEPT ![p] = c]
  /\ Goto(p, "sleep")
  /\ UNCHANGED <<table, wait_lock, cpus, local, ctx, panicked>>

\* ... so that a wakeup after the release finds the process asleep.
Sleep(c, p) ==
  /\ At(c, p, "sleep")
  /\ wait_lock' = NoCPU
  /\ chan' = [chan EXCEPT ![p] = p]
  /\ state' = [state EXCEPT ![p] = "SLEEPING"]
  /\ ctx' = [ctx EXCEPT ![p] = "wait_again"]
  /\ Goto(p, "sched")
  /\ UNCHANGED <<killed, pid, parent, nextpid, plock, cpus, local, panicked>>

-----------------------------------------------------------------------------
(* kill *)

\* The state of a slot after kill.
KillState(q) == IF state[q] = "SLEEPING" THEN "RUNNABLE" ELSE state[q]

\* One slot of the scan; the first one with this pid is the victim.
KillScan(c, p) ==
  LET q == idx[p] IN
  /\ At(c, p, "kill")
  /\ q < NPROC
  /\ Free(q)
  /\ IF pid[q] = arg[p]
     THEN /\ killed' = [killed EXCEPT ![q] = 1]
          /\ state' = [state EXCEPT ![q] = KillState(q)]
          /\ Return(p)
     ELSE /\ idx' = [idx EXCEPT ![p] = q + 1]
          /\ UNCHANGED <<killed, state, pc, arg, havekids>>
  /\ UNCHANGED <<chan, pid, parent, nextpid, locks, cpus, ctx, panicked>>

KillNone(c, p) ==
  /\ At(c, p, "kill")
  /\ idx[p] = NPROC
  /\ Return(p)
  /\ UNCHANGED <<table, locks, cpus, ctx, panicked>>

-----------------------------------------------------------------------------
\* What a process does in the kernel, apart from switching.
KernelStep(c, p) ==
  \/ TimerEnd(c, p) \/ SysRet(c, p)
  \/ ForkScan(c, p) \/ ForkFull(c, p) \/ ForkFail(c, p) \/ ForkCopied(c, p)
  \/ ForkParent(c, p) \/ ForkRunnable(c, p)
  \/ ExitInit(c, p) \/ ExitLock(c, p) \/ Reparent(c, p)
  \/ WakeInit(c, p) \/ WakeParent(c, p) \/ ExitZombie(c, p)
  \/ WaitLock(c, p) \/ WaitSkip(c, p) \/ WaitReap(c, p) \/ WaitBadAddr(c, p)
  \/ WaitEnd(c, p) \/ SleepLock(c, p) \/ Sleep(c, p)
  \/ KillScan(c, p) \/ KillNone(c, p)

\* A process enters the kernel, or the timer makes it leave the CPU.
Trap(c, p) ==
  Syscall(c, p) \/ SysKill(c, p) \/ UserTimer(c, p) \/ KernelTimer(c, p)

\* After a panic every hart spins for ever.
Next ==
  /\ ~panicked
  /\ \E c \in CPU :
       \/ SchedReturn(c)
       \/ \E p \in Slots :
            SchedPick(c, p) \/ Swtch(c, p) \/ Resume(c, p)
            \/ Trap(c, p) \/ KernelStep(c, p)

Spec == Init /\ [][Next]_vars

\* A hart keeps executing; the timer keeps interrupting user code; a lock that
\* is free again and again is acquired in the end, also by a process that is
\* preempted meanwhile; and the round-robin scan comes to every RUNNABLE slot.
Fairness ==
  /\ WF_vars(~panicked /\ \E c \in CPU :
       SchedReturn(c) \/ \E p \in Slots : Swtch(c, p) \/ Resume(c, p))
  /\ \A c \in CPU : SF_vars(~panicked /\ \E p \in Slots : UserTimer(c, p))
  /\ \A p \in Slots :
       /\ SF_vars(~panicked /\ \E c \in CPU : KernelStep(c, p))
       /\ SF_vars(~panicked /\ \E c \in CPU : SchedPick(c, p))

LiveSpec == Spec /\ Fairness

-----------------------------------------------------------------------------
(* Properties *)

\* No two CPUs execute on the kernel stack of one process (swtch hands p->lock
\* over so that a process is never picked before it has left its stack).
OneStack ==
  \A c, d \in CPU : \A p \in Slots :
    (c # d /\ Runs(c, p)) => ~Runs(d, p)

\* A slot whose lock is free is RUNNING exactly when some CPU executes it.
RunningIsRun ==
  \A p \in Slots :
    Free(p) => (state[p] = "RUNNING" <=> \E c \in CPU : Runs(c, p))

\* The preconditions that sched() checks and panics on: p->lock is held, it is
\* the only lock this CPU holds (noff = 1), and the state has been changed.
SchedPanics ==
  \A c \in CPU, p \in Slots :
    At(c, p, "sched") =>
      /\ plock[p] = c
      /\ wait_lock # c
      /\ \A q \in Slots \ {p} : plock[q] # c
      /\ state[p] # "RUNNING"

\* No wakeup is lost between exit and wait: while wait_lock is free, a process
\* that sleeps in wait has no zombie child.
NoLostWakeup ==
  wait_lock = NoCPU =>
    \A p, q \in Slots :
      (state[p] = "SLEEPING" /\ parent[q] = p) => state[q] # "ZOMBIE"

\* While wait_lock is free, the parent of every process is alive: exit has
\* given the children of a zombie to init, so that somebody can reap them.
ParentAlive ==
  wait_lock = NoCPU =>
    \A q \in Slots :
      parent[q] # None => state[parent[q]] \in {"RUNNING", "RUNNABLE", "SLEEPING"}

\* "Kill the process with the given pid": a process in a used slot is marked
\* killed only if its own pid was given to kill, not because of an earlier
\* owner of the slot.
OnlyKilledIfAsked ==
  \A p \in Slots : (state[p] # "UNUSED" /\ killed[p] = 1) => pid[p] \in KillArgs

\* A process inside wait (running, preempted or asleep) with a zombie child.
InWait(p) ==
  \/ pc[p] \in {"wait", "wait_scan", "wait_sleep", "sleep"}
  \/ pc[p] \in {"sched", "swtched"} /\ ctx[p] \in {"wait", "wait_again"}
  \/ pc[p] = "wait_again"

ZombieKid(p) == \E q \in Slots : parent[q] = p /\ state[q] = "ZOMBIE"

\* A process that is in wait while it has a zombie child comes back from wait.
WaitReturns ==
  \A p \in Slots :
    (InWait(p) /\ ZombieKid(p)) ~> (panicked \/ ~InWait(p))

\* kill of a process asleep in wait makes it exit, also when its children never
\* do: it wakes, sees killed, leaves wait and exits on its way to user space.
KilledSleeperExits ==
  \A p \in Slots \ {initproc} :
    (state[p] = "RUNNABLE" /\ ctx[p] = "wait_again" /\ killed[p] = 1)
      ~> (panicked \/ state[p] \in {"ZOMBIE", "UNUSED"})

\* The hand-over of p->lock across swtch is enough: two CPUs never execute on one
\* kernel stack, and RUNNING says truly whether a process is on one.
Exclusive == OneStack /\ RunningIsRun

\* No zombie is forgotten: whatever order parents and children exit in, each process
\* has a live parent, and none sleeps in wait while it has a zombie to collect.
ChildrenCollected == ParentAlive /\ NoLostWakeup
=============================================================================
