-------------------------------- MODULE Sched --------------------------------
(***************************************************************************)
(* The FCFS, PBS and LBS builds of scheduler() in kernel/proc.c on several *)
(* harts, with the locks of the process table: one step per process that   *)
(* the scan visits.  A process runs until it sleeps, exits or yields, in   *)
(* set_priority or because a timer interrupt finds it in user mode: the    *)
(* yield() of usertrap's device branch is compiled into every build.  fork,*)
(* wait and wakeup, whose locking Proc models, are one step each here.     *)
(*                                                                         *)
(* rtime is kept as "has run for a tick", all that the integer division of *)
(* get_dynamic_priority leaves of it; sched_ct stops at MaxCt, ticks at    *)
(* MaxTicks; random() is any number.                                       *)
(***************************************************************************)
EXTENDS Integers, FiniteSets, FiniteSetsExt

CONSTANTS
  CPU,          \* harts
  NSLOT,        \* slots of the process table
  Nobody,
  Builds,       \* subset of {"FCFS", "PBS", "LBS"}
  Priorities,   \* arguments of set_priority
  TicketNums,   \* arguments of settickets
  MaxCt, MaxTicks

ASSUME SchedAssumption ==
  /\ NSLOT \in Nat \ {0} /\ MaxCt \in Nat /\ MaxTicks \in Nat
  /\ TicketNums \subseteq Nat \ {0} /\ Priorities \subseteq Int /\ Nobody \notin CPU
  /\ Builds \subseteq {"FCFS", "PBS", "LBS"}

Slot == 1 .. NSLOT

VARIABLES
  build,
  st, plock,               \* p->state, the hart that holds p->lock
  ctime, ran, sp, ct,      \* p->ctime, p->rtime > 0, static_priority, sched_ct
  tickets,
  hpc, hat, hmin, hval,    \* a hart: phase, scan position, minproc or
                           \* p_least_time, min_priority or min_ticks
  now,                     \* ticks
  inclk, uat               \* clockintr: the hart it runs on, the next slot of update_time

ptable == <<ctime, ran, sp, ct, tickets>>
hart   == <<hpc, hat, hmin, hval>>
clock  == <<now, inclk, uat>>
schedVars == <<build, st, plock, ptable, hart, clock>>

None == 0     \* no process
Unset == 1000 \* flag == 0: no RUNNABLE process seen in this scan

SchedInit ==
  /\ build \in Builds
  /\ st = [s \in Slot |-> IF s = 1 THEN "RUNNABLE" ELSE "UNUSED"]
  /\ plock = [s \in Slot |-> Nobody]
  /\ ctime = [s \in Slot |-> 0] /\ ran = [s \in Slot |-> FALSE]
  /\ sp = [s \in Slot |-> IF s = 1 THEN 60 ELSE 0] /\ ct = [s \in Slot |-> 0]
  /\ tickets = [s \in Slot |-> 1]
  /\ hpc = [c \in CPU |-> "scan"] /\ hat = [c \in CPU |-> 1]
  /\ hmin = [c \in CPU |-> IF build = "FCFS" THEN 1 ELSE None]
  /\ hval = [c \in CPU |-> Unset]
  /\ now = 0 /\ inclk = Nobody /\ uat = 1

Held(c, s) == [plock EXCEPT ![s] = c]
Released(s) == [plock EXCEPT ![s] = Nobody]
Free(s) == plock[s] = Nobody

-----------------------------------------------------------------------------
(* PBS: the lock of the best process so far is kept through the scan.        *)

\* get_dynamic_priority: niceness is 5 before the first tick and 0 after it.  The
\* difference is a uint64, so what is below 0 is large.
DP(s) ==
  LET d == IF ran[s] THEN sp[s] + 5 ELSE sp[s] IN IF d \in 0 .. 100 THEN d ELSE 100

\* The comparisons of the scan, with min_priority as it is: that of the first.
Better(c, s) ==
  LET m == hmin[c] IN
  \/ m = None
  \/ /\ DP(s) = hval[c]
     /\ ct[s] < ct[m] \/ (ct[s] = ct[m] /\ ctime[s] < ctime[m])
  \/ DP(s) < hval[c]

\* Mutation: the lock of the best so far is not kept.
NotKept(c, s) == plock

NewMin(c, s) ==
  IF hmin[c] = None THEN Held(c, s) ELSE [Held(c, s) EXCEPT ![hmin[c]] = Nobody]

PbsScan(c) ==
  LET s == hat[c] IN
  /\ build = "PBS" /\ hpc[c] = "scan" /\ s <= NSLOT
  /\ Free(s)
  /\ hat' = [hat EXCEPT ![c] = s + 1]
  /\ \/ /\ st[s] = "RUNNABLE" /\ Better(c, s)
        /\ plock' = NewMin(c, s)
        /\ hmin' = [hmin EXCEPT ![c] = s]
        /\ hval' = IF hmin[c] = None THEN [hval EXCEPT ![c] = DP(s)] ELSE hval
     \/ /\ ~(st[s] = "RUNNABLE" /\ Better(c, s))
        /\ UNCHANGED <<plock, hmin, hval>>
  /\ UNCHANGED <<build, st, ptable, hpc, clock>>

Rescan(c) ==
  /\ hat' = [hat EXCEPT ![c] = 1]
  /\ hmin' = IF build = "FCFS" THEN hmin ELSE [hmin EXCEPT ![c] = None]
  /\ hval' = [hval EXCEPT ![c] = Unset]

\* The end of the scan: run minproc, or start again.
PbsSwitch(c) ==
  LET m == hmin[c] IN
  /\ build = "PBS" /\ hpc[c] = "scan" /\ hat[c] > NSLOT
  /\ \/ /\ m # None
        /\ st' = [st EXCEPT ![m] = "RUNNING"]
        /\ ct' = [ct EXCEPT ![m] = Min({@ + 1, MaxCt})]
        /\ hpc' = [hpc EXCEPT ![c] = "swtch"]
        /\ UNCHANGED <<hat, hmin, hval>>
     \/ /\ m = None
        /\ Rescan(c)
        /\ UNCHANGED <<st, ct, hpc>>
  /\ UNCHANGED <<build, plock, ctime, ran, sp, tickets, clock>>

-----------------------------------------------------------------------------
(* FCFS: the state is read without the lock; then p_least_time is tried.     *)

FcfsLook(c) ==
  LET s == hat[c] IN
  /\ build = "FCFS" /\ hpc[c] = "scan" /\ s <= NSLOT
  /\ \/ /\ st[s] = "RUNNABLE" /\ ctime[s] < hval[c]
        /\ hmin' = [hmin EXCEPT ![c] = s] /\ hval' = [hval EXCEPT ![c] = ctime[s]]
     \/ ~(st[s] = "RUNNABLE" /\ ctime[s] < hval[c]) /\ UNCHANGED <<hmin, hval>>
  /\ hpc' = [hpc EXCEPT ![c] = "try"]
  /\ UNCHANGED <<build, st, plock, ptable, hat, clock>>

\* Mutation: the state read without the lock is trusted.
Trusting(s) == TRUE

StillRunnable(s) == st[s] = "RUNNABLE"

FcfsTry(c) ==
  LET m == hmin[c]  go == StillRunnable(m) IN
  /\ build = "FCFS" /\ hpc[c] = "try" /\ Free(m)
  /\ st' = IF go THEN [st EXCEPT ![m] = "RUNNING"] ELSE st
  /\ plock' = IF go THEN Held(c, m) ELSE plock
  /\ hpc' = [hpc EXCEPT ![c] = IF go THEN "swtch" ELSE "scan"]
  /\ hat' = [hat EXCEPT ![c] = @ + 1]
  /\ UNCHANGED <<build, ptable, hmin, hval, clock>>

-----------------------------------------------------------------------------
(* LBS: every RUNNABLE process the scan meets draws a ticket.                *)

totalTickets ==
  FoldSet(LAMBDA s, t : t + tickets[s], 0, {s \in Slot : st[s] = "RUNNABLE"})

\* random() % total_tickets is below p->tickets: p runs.
LbsScan(c) ==
  LET s == hat[c] IN
  /\ build = "LBS" /\ hpc[c] = "scan" /\ s <= NSLOT /\ Free(s)
  /\ hat' = [hat EXCEPT ![c] = s + 1]
  /\ \/ /\ st[s] = "RUNNABLE"
        /\ \E allot \in 0 .. totalTickets - 1 : allot < tickets[s]
        /\ st' = [st EXCEPT ![s] = "RUNNING"]
        /\ plock' = Held(c, s)
        /\ hmin' = [hmin EXCEPT ![c] = s]
        /\ hpc' = [hpc EXCEPT ![c] = "swtch"]
     \/ /\ st[s] = "RUNNABLE" => \E allot \in 0 .. totalTickets - 1 : allot >= tickets[s]
        /\ UNCHANGED <<st, plock, hmin, hpc>>
  /\ UNCHANGED <<build, ptable, hval, clock>>

\* The end of a scan.
ScanEnd(c) ==
  /\ build # "PBS" /\ hpc[c] = "scan" /\ hat[c] > NSLOT
  /\ Rescan(c)
  /\ UNCHANGED <<build, st, plock, ptable, hpc, clock>>

-----------------------------------------------------------------------------
(* The process that runs on a hart.                                          *)

\* After swtch the process releases its lock.
RunBegin(c) ==
  /\ hpc[c] = "swtch"
  /\ plock' = Released(hmin[c])
  /\ hpc' = [hpc EXCEPT ![c] = "run"]
  /\ UNCHANGED <<build, st, ptable, hat, hmin, hval, clock>>

\* sleep, exit and yield lock the process, change its state and switch back; a
\* timer interrupt in user mode may yield at any time.
GiveUp(c, s2) ==
  LET m == hmin[c] IN
  /\ hpc[c] = "run" \/ (hpc[c] = "yield" /\ s2 = "RUNNABLE")
  /\ Free(m)
  /\ m = 1 => s2 # "ZOMBIE"                       \* init does not exit
  /\ plock' = Held(c, m)
  /\ st' = [st EXCEPT ![m] = s2]
  /\ hpc' = [hpc EXCEPT ![c] = "back"]
  /\ UNCHANGED <<build, ptable, hat, hmin, hval, clock>>

\* Mutation: the scheduler does not release the lock it gets back.
StillHeld(s) == plock

LockBack(s) == Released(s)

\* The scheduler gets the CPU back and releases the lock; PBS starts a new scan.
SwitchBack(c) ==
  /\ hpc[c] = "back"
  /\ plock' = LockBack(hmin[c])
  /\ hpc' = [hpc EXCEPT ![c] = "scan"]
  /\ \/ build = "PBS" /\ Rescan(c)
     \/ build # "PBS" /\ UNCHANGED <<hat, hmin, hval>>
  /\ UNCHANGED <<build, st, ptable, clock>>

\* fork: allocproc takes the first free slot; the child is younger than its parent.
ForkProc(c) ==
  LET free == {s \in Slot : st[s] = "UNUSED"}  s == Min(free) IN
  /\ hpc[c] = "run" /\ free # {} /\ Free(s)
  /\ st' = [st EXCEPT ![s] = "RUNNABLE"]
  /\ ctime' = [ctime EXCEPT ![s] = now] /\ ran' = [ran EXCEPT ![s] = FALSE]
  /\ sp' = [sp EXCEPT ![s] = 60]
  /\ tickets' = [tickets EXCEPT ![s] = tickets[hmin[c]]]
  /\ UNCHANGED <<build, plock, ct, hart, clock>>

\* wait: freeproc of a zombie.
ReapProc(c, s) ==
  /\ hpc[c] = "run" /\ st[s] = "ZOMBIE" /\ Free(s)
  /\ st' = [st EXCEPT ![s] = "UNUSED"]
  /\ ct' = [ct EXCEPT ![s] = 0] /\ ran' = [ran EXCEPT ![s] = FALSE]
  /\ sp' = [sp EXCEPT ![s] = 0]
  /\ UNCHANGED <<build, plock, ctime, tickets, hart, clock>>

\* wakeup, from a process or an interrupt.
WakeProc(s) ==
  /\ st[s] = "SLEEPING" /\ Free(s)
  /\ st' = [st EXCEPT ![s] = "RUNNABLE"]
  /\ UNCHANGED <<build, plock, ptable, hart, clock>>

\* clockintr interrupts a hart, which holds no lock then and stands still ...
ClockTick(c) ==
  /\ inclk = Nobody /\ \A s \in Slot : plock[s] # c
  /\ inclk' = IF build = "PBS" THEN c ELSE Nobody
  /\ now' = Min({now + 1, MaxTicks})
  /\ UNCHANGED <<build, st, plock, ptable, hart, uat>>

\* ... while update_time takes one process lock after the other.  What it counts
\* only PBS reads.
UpdateTime ==
  /\ inclk # Nobody /\ Free(uat)
  /\ ran' = [ran EXCEPT ![uat] = @ \/ st[uat] = "RUNNING"]
  /\ inclk' = IF uat = NSLOT THEN Nobody ELSE inclk
  /\ uat' = IF uat = NSLOT THEN 1 ELSE uat + 1
  /\ UNCHANGED <<build, st, plock, ctime, sp, ct, tickets, hart, now>>

\* set_static_priority returns after the first slot of the table, that of init.
SetPriority(c, n, pid) ==
  LET old == IF hmin[c] # 1 \/ pid = 1 THEN sp[1] ELSE 0 IN
  /\ hpc[c] = "run" /\ Free(1)
  /\ sp' = IF pid = 1 THEN [sp EXCEPT ![1] = n] ELSE sp
  /\ ran' = IF pid = 1 THEN [ran EXCEPT ![1] = FALSE] ELSE ran
  /\ hpc' = IF n < old THEN [hpc EXCEPT ![c] = "yield"] ELSE hpc
  /\ UNCHANGED <<build, st, plock, ctime, ct, tickets, hat, hmin, hval, clock>>

settickets(c, n) ==
  /\ hpc[c] = "run"
  /\ tickets' = [tickets EXCEPT ![hmin[c]] = n]
  /\ UNCHANGED <<build, st, plock, ctime, ran, sp, ct, hart, clock>>

Scan(c) ==
  PbsScan(c) \/ PbsSwitch(c) \/ FcfsLook(c) \/ FcfsTry(c) \/ LbsScan(c) \/ ScanEnd(c)

SchedNext ==
  \/ \E c \in CPU \ {inclk} :
       \/ Scan(c) \/ RunBegin(c) \/ SwitchBack(c) \/ ForkProc(c) \/ ClockTick(c)
       \/ \E s2 \in {"SLEEPING", "ZOMBIE", "RUNNABLE"} : GiveUp(c, s2)
       \/ \E s \in Slot : ReapProc(c, s)
       \/ \E n \in Priorities, pid \in Slot : build = "PBS" /\ SetPriority(c, n, pid)
       \/ \E n \in TicketNums : build = "LBS" /\ settickets(c, n)
  \/ \E s \in Slot : WakeProc(s)
  \/ UpdateTime

SchedSpec == SchedInit /\ [][SchedNext]_schedVars

-----------------------------------------------------------------------------
OnHart(c) == hpc[c] \in {"swtch", "run", "yield"}

\* A RUNNING process runs on exactly one hart and a hart runs a RUNNING process,
\* though FCFS chooses on a state it read without the lock and PBS holds a choice
\* through a scan.
RunsOnOneHart ==
  /\ \A s \in Slot : st[s] = "RUNNING" <=> \E c \in CPU : OnHart(c) /\ hmin[c] = s
  /\ \A c, d \in CPU : c # d /\ OnHart(c) /\ OnHart(d) => hmin[c] # hmin[d]

\* The process locks a hart holds between two steps: that of minproc in a PBS scan
\* and that of the process it switches to or from.  None is left behind, so no
\* process is out of reach of the schedulers, wakeup and kill.
SchedLocksExact ==
  \A s \in Slot, c \in CPU :
    plock[s] = c <=> /\ hmin[c] = s
                     /\ hpc[c] \in {"swtch", "back"} \/ (build = "PBS" /\ hpc[c] = "scan")

\* What a PBS hart has chosen so far stands until it switches: the process stays
\* RUNNABLE, whatever the other harts, wakeup and the clock do, and its dynamic
\* priority stays at least as good as that of the first RUNNABLE process it met.
PbsChoiceStands ==
  \A c \in CPU : build = "PBS" /\ hpc[c] = "scan" /\ hmin[c] # None =>
    st[hmin[c]] = "RUNNABLE" /\ DP(hmin[c]) <= hval[c]
=============================================================================
