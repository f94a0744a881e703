----------------------------- MODULE ProcProofs -----------------------------
(***************************************************************************)
(* Proofs about Proc: type correctness, the exclusion that p->lock gives   *)
(* across swtch (OneStack, RunningIsRun) and the lock discipline that      *)
(* sched() checks at run time (SchedPanics), for every number of slots and *)
(* CPUs.                                                                   *)
(***************************************************************************)
EXTENDS Proc, TLAPS

\* Control points at which a process holds wait_lock.
HoldsWait == {"exit_reparent", "exit_wakeinit", "exit_wakeparent", "exit_zombie",
              "wait_scan", "wait_sleep", "sleep"}

\* Control points at which a process holds its own p->lock.
HoldsOwn == {"sched", "swtched", "sleep"}

\* c->proc is set exactly while the CPU has not come back to its scan.
CpuInv == \A c \in CPU : cproc[c] = None <=> cpc[c] = "scan"

\* No process is the c->proc of two CPUs.
OneCpu == \A c, d \in CPU : (c # d /\ cproc[c] # None) => cproc[c] # cproc[d]

\* What holds of the process a CPU runs, and of the one it has just left.
RunInv ==
  \A c \in CPU : \A p \in Slots :
    cproc[c] = p =>
      /\ cpc[c] = "back" => pc[p] = "swtched"
      /\ state[p] = "RUNNING" <=> (cpc[c] = "run" /\ pc[p] # "sched")
      /\ (cpc[c] = "back" \/ pc[p] \in HoldsOwn) => plock[p] = c

\* A process that is no CPU's c->proc is off its stack and not RUNNING.
OffInv ==
  \A p \in Slots :
    (\A c \in CPU : cproc[c] # p) => pc[p] = "swtched" /\ state[p] # "RUNNING"

\* Who can hold p->lock: the CPU that runs p, or one whose process builds p.
LockInv ==
  \A c \in CPU : \A q \in Slots :
    plock[q] = c =>
      \/ cproc[c] = q /\ (cpc[c] = "back" \/ pc[q] \in HoldsOwn)
      \/ \E p \in Slots : At(c, p, "fork_copy") /\ arg[p] = q

\* The process is between allocproc and the end of fork; arg is the child.
Building(p) ==
  \/ pc[p] \in {"fork_copy", "fork_parent", "fork_runnable"}
  \/ pc[p] \in {"sched", "swtched"} /\ ctx[p] \in {"fork_parent", "fork_runnable"}

ForkInv ==
  \A p \in Slots : Building(p) =>
    /\ arg[p] \in Slots
    /\ state[arg[p]] = "USED"
    /\ \A r \in Slots : (r # p /\ Building(r)) => arg[r] # arg[p]

\* The child is locked while its memory is copied.
CopyInv ==
  \A c \in CPU : \A p \in Slots :
    At(c, p, "fork_copy") => plock[arg[p]] = c

WaitInv ==
  /\ \A c \in CPU : \A p \in Slots :
       (cproc[c] = p /\ pc[p] \in HoldsWait) => wait_lock = c
  /\ \A c \in CPU :
       wait_lock = c => \E p \in Slots : Runs(c, p) /\ pc[p] \in HoldsWait

\* Only a zombie, or the free slot it left, would come back to the panic at
\* the end of exit.
CtxInv ==
  \A p \in Slots :
    /\ ctx[p] = "zombie" => pc[p] \in {"sched", "swtched"} /\ state[p] \in {"ZOMBIE", "UNUSED"}
    /\ pc[p] \notin {"sched", "swtched"} => ctx[p] = "user"

\* The control invariant: inductive together with TypeOK.
Ctl == /\ CpuInv /\ OneCpu /\ RunInv /\ OffInv /\ LockInv
       /\ ForkInv /\ CopyInv /\ WaitInv /\ CtxInv

\* The types of the variables of Ctl.
CtlType ==
  /\ state \in [Slots -> States]
  /\ pc \in [Slots -> ControlPoints]
  /\ ctx \in [Slots -> ResumePoints]
  /\ plock \in [Slots -> CPU \cup {NoCPU}]
  /\ wait_lock \in CPU \cup {NoCPU}
  /\ cproc \in [CPU -> Slots \cup {None}]
  /\ cpc \in [CPU -> {"scan", "run", "back"}]

\* Control points at which a process holds some p->lock.
HoldsPlock == HoldsOwn \cup {"fork_copy"}

\* What most kernel steps of p on c do to the variables of Ctl: p moves to l
\* without touching its own lock, gains or gives up wait_lock as the control
\* points say, and may put the unlocked slot q in state s.
Move(c, p, l, q, s) ==
  /\ Runs(c, p)
  /\ pc[p] \notin HoldsPlock
  /\ l \notin HoldsPlock
  /\ pc' = [pc EXCEPT ![p] = l]
  /\ UNCHANGED <<ctx, plock, cproc, cpc>>
  /\ l \in HoldsWait => (pc[p] \in HoldsWait \/ wait_lock = NoCPU)
  /\ wait_lock' = IF l \in HoldsWait THEN c
                  ELSE IF pc[p] \in HoldsWait THEN NoCPU ELSE wait_lock
  /\ state' = [state EXCEPT ![q] = s]
  /\ s # state[q] =>
       /\ Free(q)
       /\ state[q] # "RUNNING" /\ s # "RUNNING"
       /\ state[q] # "UNUSED"
       /\ state[q] = "ZOMBIE" => s = "UNUSED"
       /\ state[q] = "USED" =>
            pc[p] = "fork_runnable" /\ arg[p] = q /\ l = "sysret"
  /\ l \in {"fork_parent", "fork_runnable"} =>
       pc[p] \in {"fork_parent", "fork_runnable"} /\ arg'[p] = arg[p]
  /\ \A r \in Slots \ {p} : arg'[r] = arg[r]

\* A kernel step that keeps its own lock discipline (most of fork, exit, wait and
\* kill) preserves the control invariant.
LEMMA MoveLemma ==
  ASSUME TypeOK, TypeOK', Ctl, NEW c \in CPU, NEW p \in Slots, NEW l \in ControlPoints,
         NEW q \in Slots, NEW s \in States, Move(c, p, l, q, s)
  PROVE  Ctl'
<1>t. CtlType /\ CtlType'
  BY Zenon DEF TypeOK, CtlType
<1> USE DEF CtlType
<1>1. CpuInv'
  BY Zenon DEF Ctl, Move, CpuInv
<1>2. OneCpu'
  BY Zenon DEF Ctl, Move, OneCpu
<1>3. RunInv'
  BY <1>t, CpuAssumption DEF Ctl, Move, RunInv, OneCpu, CpuInv, Runs, Free, HoldsPlock,
     HoldsOwn, Slots, None
<1>4. OffInv'
  BY Zenon, <1>t, CpuAssumption DEF Ctl, Move, OffInv, Runs
<1>5. LockInv'
  BY <1>t, CpuAssumption DEF Ctl, Move, LockInv, OneCpu, Runs, At, HoldsPlock, HoldsOwn
<1>6. ForkInv'
  BY <1>t DEF Ctl, Move, ForkInv, Building, HoldsPlock, HoldsOwn
<1>7. CopyInv'
  BY <1>t DEF Ctl, Move, CopyInv, Runs, At, HoldsPlock, HoldsOwn
<1>8. WaitInv'
  BY <1>t, CpuAssumption DEF Ctl, Move, WaitInv, OneCpu, Runs, Slots, None
<1>9. CtxInv'
  BY <1>t DEF Ctl, Move, CtxInv, HoldsPlock, HoldsOwn
<1> QED
  BY Zenon, <1>1, <1>2, <1>3, <1>4, <1>5, <1>6, <1>7, <1>8, <1>9 DEF Ctl

\* Control points without any spinlock at which p builds nobody, and those at
\* which wait_lock is the only one.
Plain == {"user", "timer", "fork", "exit", "wait", "wait_again", "kill", "sysret"}
Waiting == {"exit_reparent", "exit_wakeinit", "exit_wakeparent", "exit_zombie",
            "wait_scan", "wait_sleep"}

\* A step of p on c that changes neither locks nor states.
Quiet(c, p, l) ==
  /\ Runs(c, p)
  /\ (pc[p] \in Plain /\ l \in Plain) \/ (pc[p] \in Waiting /\ l \in Waiting)
  /\ pc' = [pc EXCEPT ![p] = l]
  /\ UNCHANGED <<state, ctx, plock, wait_lock, cproc, cpc>>
  /\ \A r \in Slots \ {p} : arg'[r] = arg[r]

\* A step of fork, exit, wait or kill that only moves on preserves the control
\* invariant.
LEMMA QuietLemma ==
  ASSUME TypeOK, TypeOK', Ctl, NEW c \in CPU, NEW p \in Slots, NEW l, Quiet(c, p, l)
  PROVE  Ctl'
<1>1. l \in ControlPoints /\ state[p] \in States /\ state' = [state EXCEPT ![p] = state[p]]
  BY Zenon DEF Quiet, Plain, Waiting, ControlPoints, Preemptible, TypeOK
<1>2. pc[p] \in Waiting => wait_lock = c
  BY DEF Quiet, Runs, Ctl, WaitInv, HoldsWait, Waiting
<1>3. /\ pc[p] \notin HoldsPlock /\ l \notin HoldsPlock
      /\ l \notin {"fork_parent", "fork_runnable"}
      /\ l \in HoldsWait <=> pc[p] \in Waiting
      /\ pc[p] \in HoldsWait <=> pc[p] \in Waiting
  BY Zenon DEF Quiet, Plain, Waiting, HoldsPlock, HoldsOwn, HoldsWait
<1>4. Move(c, p, l, p, state[p])
  BY <1>1, <1>2, <1>3, Zenon DEF Quiet, Move
<1> QED
  BY Zenon, <1>1, <1>4, MoveLemma

\* What yield, sleep and exit do before sched(): p, whose lock is free or
\* already its own, is put in state s, holding only p->lock, to continue at l.
Block(c, p, l, s) ==
  /\ Runs(c, p)
  /\ (pc[p] \notin HoldsPlock /\ Free(p)) \/ pc[p] = "sleep"
  /\ pc' = [pc EXCEPT ![p] = "sched"]
  /\ ctx' = [ctx EXCEPT ![p] = l]
  /\ plock' = [plock EXCEPT ![p] = c]
  /\ state' = [state EXCEPT ![p] = s]
  /\ wait_lock' = IF pc[p] \in HoldsWait THEN NoCPU ELSE wait_lock
  /\ l = "zombie" => s = "ZOMBIE"
  /\ (pc[p] \in {"fork_parent", "fork_runnable"} \/ l \in {"fork_parent", "fork_runnable"})
       => l = pc[p]
  /\ UNCHANGED <<cproc, cpc, arg>>

\* Giving up the CPU (yield, sleep, exit up to sched) preserves it: p->lock is
\* taken before the state changes.
LEMMA BlockLemma ==
  ASSUME TypeOK, TypeOK', Ctl, NEW c \in CPU, NEW p \in Slots,
         NEW l \in ResumePoints, NEW s \in {"RUNNABLE", "SLEEPING", "ZOMBIE"},
         Block(c, p, l, s)
  PROVE  Ctl'
<1>t. CtlType /\ CtlType'
  BY Zenon DEF TypeOK, CtlType
<1> USE DEF CtlType, Block
<1>1. CpuInv'
  BY Zenon, <1>t, CpuAssumption DEF Ctl, CpuInv
<1>2. OneCpu'
  BY <1>t, CpuAssumption DEF Ctl, OneCpu, CpuInv, RunInv, Free, Slots, None, HoldsOwn
<1>3. RunInv'
  BY <1>t, CpuAssumption DEF Ctl, RunInv, OneCpu, CpuInv, OffInv, Runs, Free, HoldsPlock,
     HoldsOwn, Slots, None
<1>4. OffInv'
  BY Zenon, <1>t, CpuAssumption DEF Ctl, OffInv, Runs, OneCpu, Slots, None
<1>5. LockInv'
  BY <1>t, CpuAssumption DEF Ctl, LockInv, OneCpu, Runs, At, HoldsPlock, HoldsOwn
<1>6. ForkInv'
  BY <1>t, CpuAssumption DEF Ctl, ForkInv, RunInv, OffInv, Building, Runs, HoldsPlock, HoldsOwn
<1>7. CopyInv'
  BY <1>t, CpuAssumption DEF Ctl, CopyInv, LockInv, Runs, At, HoldsPlock, HoldsOwn, ForkInv,
     Building, RunInv, Free
<1>8. WaitInv'
  BY <1>t, CpuAssumption DEF Ctl, WaitInv, OneCpu, OffInv, Runs, Slots, None, HoldsWait
<1>9. CtxInv'
  BY <1>t, CpuAssumption DEF Ctl, CtxInv, RunInv, HoldsPlock, HoldsOwn
<1> QED
  BY Zenon, <1>1, <1>2, <1>3, <1>4, <1>5, <1>6, <1>7, <1>8, <1>9 DEF Ctl

\* sleep's acquire of p->lock, while lk is still held, preserves it.
LEMMA SleepLockLemma ==
  ASSUME TypeOK, TypeOK', Ctl, NEW c \in CPU, NEW p \in Slots,
         SleepLock(c, p)
  PROVE  Ctl'
<1>t. CtlType /\ CtlType'
  BY Zenon DEF TypeOK, CtlType
<1> USE DEF CtlType, SleepLock, At, Goto, table, cpus, local
<1>1. CpuInv'
  BY Zenon, <1>t, CpuAssumption DEF Ctl, CpuInv
<1>2. OneCpu'
  BY <1>t, CpuAssumption DEF Ctl, OneCpu, CpuInv, RunInv, Free, Slots, None, HoldsOwn
<1>3. RunInv'
  BY <1>t, CpuAssumption DEF Ctl, RunInv, OneCpu, CpuInv, OffInv, Runs, Free, HoldsPlock,
     HoldsOwn, Slots, None
<1>4. OffInv'
  BY Zenon, <1>t, CpuAssumption DEF Ctl, OffInv, Runs, OneCpu, Slots, None
<1>5. LockInv'
  BY <1>t, CpuAssumption DEF Ctl, LockInv, OneCpu, Runs, At, HoldsPlock, HoldsOwn
<1>6. ForkInv'
  BY <1>t, CpuAssumption DEF Ctl, ForkInv, RunInv, OffInv, Building, Runs, HoldsPlock, HoldsOwn
<1>7. CopyInv'
  BY <1>t, CpuAssumption DEF Ctl, CopyInv, LockInv, Runs, At, HoldsPlock, HoldsOwn, Free
<1>8. WaitInv'
  BY <1>t, CpuAssumption DEF Ctl, WaitInv, OneCpu, OffInv, Runs, Slots, None, HoldsWait
<1>9. CtxInv'
  BY <1>t, CpuAssumption DEF Ctl, CtxInv, RunInv, HoldsPlock, HoldsOwn
<1> QED
  BY Zenon, <1>1, <1>2, <1>3, <1>4, <1>5, <1>6, <1>7, <1>8, <1>9 DEF Ctl

\* The switch from a process to its CPU's scheduler (sched) preserves it: p->lock
\* stays held across swtch.
LEMMA SwtchLemma ==
  ASSUME TypeOK, TypeOK', Ctl, NEW c \in CPU, NEW p \in Slots,
         Swtch(c, p)
  PROVE  Ctl'
<1>t. CtlType /\ CtlType'
  BY Zenon DEF TypeOK, CtlType
<1> USE DEF CtlType, Swtch, At, Goto, table, locks, local
<1>1. CpuInv'
  BY Zenon, <1>t, CpuAssumption DEF Ctl, CpuInv, Runs, Slots, None
<1>2. OneCpu'
  BY <1>t, CpuAssumption DEF Ctl, OneCpu, CpuInv, RunInv, Free, Slots, None, HoldsOwn
<1>3. RunInv'
  BY <1>t, CpuAssumption DEF Ctl, RunInv, OneCpu, CpuInv, OffInv, Runs, Free, HoldsPlock,
     HoldsOwn, Slots, None
<1>4. OffInv'
  BY Zenon, <1>t, CpuAssumption DEF Ctl, OffInv, Runs, OneCpu, Slots, None
<1>5. LockInv'
  BY <1>t, CpuAssumption DEF Ctl, LockInv, OneCpu, Runs, At, HoldsPlock, HoldsOwn
<1>6. ForkInv'
  BY <1>t, CpuAssumption DEF Ctl, ForkInv, RunInv, OffInv, Building, Runs, HoldsPlock, HoldsOwn
<1>7. CopyInv'
  BY <1>t, CpuAssumption DEF Ctl, CopyInv, LockInv, Runs, At, HoldsPlock, HoldsOwn
<1>8. WaitInv'
  BY <1>t, CpuAssumption DEF Ctl, WaitInv, OneCpu, OffInv, Runs, Slots, None, HoldsWait
<1>9. CtxInv'
  BY <1>t, CpuAssumption DEF Ctl, CtxInv, RunInv, HoldsPlock, HoldsOwn
<1> QED
  BY Zenon, <1>1, <1>2, <1>3, <1>4, <1>5, <1>6, <1>7, <1>8, <1>9 DEF Ctl

\* The first step of a process that the scheduler switched to, which releases
\* p->lock, preserves it.
LEMMA ResumeLemma ==
  ASSUME TypeOK, TypeOK', Ctl, NEW c \in CPU, NEW p \in Slots,
         Resume(c, p)
  PROVE  Ctl'
<1>t. CtlType /\ CtlType'
  BY Zenon DEF TypeOK, CtlType
<1> USE DEF CtlType, Resume, At, Goto, cpus, local
<1>1. CpuInv'
  BY Zenon, <1>t, CpuAssumption DEF Ctl, CpuInv
<1>2. OneCpu'
  BY <1>t, CpuAssumption DEF Ctl, OneCpu, CpuInv, RunInv, Free, Slots, None, HoldsOwn
<1>3. RunInv'
  BY <1>t, CpuAssumption DEF Ctl, RunInv, OneCpu, CpuInv, OffInv, Runs, Free, HoldsPlock,
     HoldsOwn, Slots, None, ResumePoints, Preemptible
<1>4. OffInv'
  BY Zenon, <1>t, CpuAssumption DEF Ctl, OffInv, Runs, OneCpu, Slots, None
<1>5. LockInv'
  BY <1>t, CpuAssumption DEF Ctl, LockInv, OneCpu, Runs, At, HoldsPlock, HoldsOwn
<1>6. ForkInv'
  BY <1>t, CpuAssumption, SMTT(30) DEF Ctl, ForkInv, RunInv, OffInv, Building, Runs,
     HoldsPlock, HoldsOwn, ResumePoints, Preemptible
<1>7. CopyInv'
  BY <1>t, CpuAssumption, SMTT(30) DEF Ctl, CopyInv, LockInv, Runs, At, HoldsPlock, HoldsOwn,
     ResumePoints, Preemptible, RunInv, ForkInv, Building
<1>8. WaitInv'
  BY <1>t, CpuAssumption DEF Ctl, WaitInv, OneCpu, OffInv, Runs, Slots, None, HoldsWait,
     ResumePoints, Preemptible
<1>9. CtxInv'
  BY <1>t, CpuAssumption DEF Ctl, CtxInv, RunInv, HoldsPlock, HoldsOwn
<1> QED
  BY Zenon, <1>1, <1>2, <1>3, <1>4, <1>5, <1>6, <1>7, <1>8, <1>9 DEF Ctl

\* The scheduler's choice of a RUNNABLE process preserves it.
LEMMA SchedPickLemma ==
  ASSUME TypeOK, TypeOK', Ctl, NEW c \in CPU, NEW p \in Slots,
         SchedPick(c, p)
  PROVE  Ctl'
<1>t. CtlType /\ CtlType'
  BY Zenon DEF TypeOK, CtlType
<1> USE DEF CtlType, SchedPick, local
<1>a. cproc[c] = None
  BY Zenon DEF Ctl, CpuInv
<1>b. \A d \in CPU : cproc[d] # p
  BY <1>t, CpuAssumption DEF Ctl, RunInv, CpuInv, Free, HoldsOwn, Slots, None
<1>0. cproc[c] = None /\ (\A d \in CPU : cproc[d] # p) /\ pc[p] = "swtched"
  BY <1>a, <1>b, Zenon DEF Ctl, OffInv
<1>1. CpuInv'
  BY <1>0, <1>t, CpuAssumption, Zenon DEF Ctl, CpuInv, Slots, None
<1>2. OneCpu'
  BY <1>0, <1>t, CpuAssumption, SMTT(30) DEF Ctl, OneCpu, CpuInv, RunInv, Free, Slots, None,
     HoldsOwn, OffInv
<1>3. RunInv'
  BY <1>0, <1>t, CpuAssumption, SMTT(30) DEF Ctl, RunInv, OneCpu, CpuInv, OffInv, Runs, Free,
     HoldsPlock, HoldsOwn, Slots, None, LockInv
<1>4. OffInv'
  BY <1>0, <1>t, CpuAssumption, SMTT(30) DEF Ctl, OffInv, Runs, OneCpu, Slots, None, CpuInv
<1>5. LockInv'
  BY <1>0, <1>t, CpuAssumption DEF Ctl, LockInv, OneCpu, Runs, At, HoldsPlock, HoldsOwn,
     CpuInv, Free, Slots, None
<1>6. ForkInv'
  BY <1>t, CpuAssumption DEF Ctl, ForkInv, RunInv, OffInv, Building, Runs, HoldsPlock, HoldsOwn
<1>7. CopyInv'
  BY <1>0, <1>t, CpuAssumption DEF Ctl, CopyInv, LockInv, Runs, At, HoldsPlock, HoldsOwn,
     Free, CpuInv
<1>8. WaitInv'
  BY <1>0, <1>t, CpuAssumption DEF Ctl, WaitInv, OneCpu, OffInv, Runs, Slots, None, HoldsWait,
     CpuInv
<1>9. CtxInv'
  BY <1>t, CpuAssumption DEF Ctl, CtxInv, RunInv, HoldsPlock, HoldsOwn
<1> QED
  BY Zenon, <1>1, <1>2, <1>3, <1>4, <1>5, <1>6, <1>7, <1>8, <1>9 DEF Ctl

\* fork's error path (freeproc of the new slot) preserves it.
LEMMA ForkFailLemma ==
  ASSUME TypeOK, TypeOK', Ctl, NEW c \in CPU, NEW p \in Slots,
         ForkFail(c, p)
  PROVE  Ctl'
<1>t. CtlType /\ CtlType'
  BY Zenon DEF TypeOK, CtlType
<1> USE DEF CtlType, ForkFail, FreeProc, ClearKilled, Return, At, Goto, cpus
<1>1. CpuInv'
  BY <1>t, CpuAssumption, Zenon DEF Ctl, CpuInv
<1>2. OneCpu'
  BY <1>t, CpuAssumption DEF Ctl, OneCpu, CpuInv, RunInv, Free, Slots, None, HoldsOwn
<1>3. RunInv'
  BY <1>t, CpuAssumption DEF Ctl, RunInv, OneCpu, CpuInv, OffInv, Runs, Free, HoldsPlock,
     HoldsOwn, Slots, None, ForkInv, CopyInv, Building, At
<1>4. OffInv'
  BY <1>t, CpuAssumption, Zenon DEF Ctl, OffInv, Runs, OneCpu, Slots, None
<1>5. LockInv'
  BY <1>t, CpuAssumption DEF Ctl, LockInv, OneCpu, Runs, At, HoldsPlock, HoldsOwn
<1>6. ForkInv'
  BY <1>t, CpuAssumption DEF Ctl, ForkInv, RunInv, OffInv, Building, Runs, HoldsPlock, HoldsOwn
<1>7. CopyInv'
  BY <1>t, CpuAssumption DEF Ctl, CopyInv, LockInv, Runs, At, HoldsPlock, HoldsOwn
<1>8. WaitInv'
  BY <1>t, CpuAssumption DEF Ctl, WaitInv, OneCpu, OffInv, Runs, Slots, None, HoldsWait
<1>9. CtxInv'
  BY <1>t, CpuAssumption DEF Ctl, CtxInv, RunInv, HoldsPlock, HoldsOwn
<1> QED
  BY <1>1, <1>2, <1>3, <1>4, <1>5, <1>6, <1>7, <1>8, <1>9, Zenon DEF Ctl

\* fork's release of the child's lock before it takes wait_lock preserves it.
LEMMA ForkCopiedLemma ==
  ASSUME TypeOK, TypeOK', Ctl, NEW c \in CPU, NEW p \in Slots,
         ForkCopied(c, p)
  PROVE  Ctl'
<1>t. CtlType /\ CtlType'
  BY Zenon DEF TypeOK, CtlType
<1> USE DEF CtlType, ForkCopied, At, Goto, table, cpus, local
<1>1. CpuInv'
  BY <1>t, CpuAssumption, Zenon DEF Ctl, CpuInv
<1>2. OneCpu'
  BY <1>t, CpuAssumption DEF Ctl, OneCpu, CpuInv, RunInv, Free, Slots, None, HoldsOwn
<1>3. RunInv'
  BY <1>t, CpuAssumption DEF Ctl, RunInv, OneCpu, CpuInv, OffInv, Runs, Free, HoldsPlock,
     HoldsOwn, Slots, None, ForkInv, CopyInv, Building, At
<1>4. OffInv'
  BY <1>t, CpuAssumption, Zenon DEF Ctl, OffInv, Runs, OneCpu, Slots, None
<1>5. LockInv'
  BY <1>t, CpuAssumption DEF Ctl, LockInv, OneCpu, Runs, At, HoldsPlock, HoldsOwn
<1>6. ForkInv'
  BY <1>t, CpuAssumption DEF Ctl, ForkInv, RunInv, OffInv, Building, Runs, HoldsPlock, HoldsOwn
<1>7. CopyInv'
  BY <1>t, CpuAssumption DEF Ctl, CopyInv, LockInv, Runs, At, HoldsPlock, HoldsOwn
<1>8. WaitInv'
  BY <1>t, CpuAssumption DEF Ctl, WaitInv, OneCpu, OffInv, Runs, Slots, None, HoldsWait
<1>9. CtxInv'
  BY <1>t, CpuAssumption DEF Ctl, CtxInv, RunInv, HoldsPlock, HoldsOwn
<1> QED
  BY <1>1, <1>2, <1>3, <1>4, <1>5, <1>6, <1>7, <1>8, <1>9, Zenon DEF Ctl

\* The scheduler's release of p->lock after swtch comes back preserves it.
LEMMA SchedReturnLemma ==
  ASSUME TypeOK, TypeOK', Ctl, NEW c \in CPU, SchedReturn(c)
  PROVE  Ctl'
<1>t. CtlType /\ CtlType'
  BY Zenon DEF TypeOK, CtlType
<1> USE DEF CtlType, SchedReturn, table, local
<1>1. CpuInv'
  BY Zenon, <1>t, CpuAssumption DEF Ctl, CpuInv
<1>2. OneCpu'
  BY <1>t, CpuAssumption DEF Ctl, OneCpu, CpuInv, RunInv, Free, Slots, None, HoldsOwn
<1>3. RunInv'
  BY <1>t, CpuAssumption DEF Ctl, RunInv, OneCpu, CpuInv, OffInv, Runs, Free, HoldsPlock,
     HoldsOwn, Slots, None
<1>4. OffInv'
  BY <1>t, CpuAssumption DEF Ctl, OffInv, Runs, OneCpu, Slots, None, RunInv, CpuInv
<1>5. LockInv'
  BY <1>t, CpuAssumption DEF Ctl, LockInv, OneCpu, Runs, At, HoldsPlock, HoldsOwn
<1>6. ForkInv'
  BY <1>t, CpuAssumption DEF Ctl, ForkInv, RunInv, OffInv, Building, Runs, HoldsPlock, HoldsOwn
<1>7. CopyInv'
  BY <1>t, CpuAssumption DEF Ctl, CopyInv, LockInv, Runs, At, HoldsPlock, HoldsOwn, RunInv,
     ForkInv, Building, CpuInv, OneCpu
<1>8. WaitInv'
  BY <1>t, CpuAssumption DEF Ctl, WaitInv, OneCpu, OffInv, Runs, Slots, None, HoldsWait
<1>9. CtxInv'
  BY <1>t, CpuAssumption, Zenon DEF Ctl, CtxInv, RunInv, HoldsPlock, HoldsOwn
<1> QED
  BY <1>1, <1>2, <1>3, <1>4, <1>5, <1>6, <1>7, <1>8, <1>9, Zenon DEF Ctl

\* What allocproc does with the UNUSED slot q that it finds.
Alloc(c, p, q) ==
  /\ At(c, p, "fork")
  /\ Free(q)
  /\ state[q] = "UNUSED"
  /\ state' = [state EXCEPT ![q] = "USED"]
  /\ plock' = [plock EXCEPT ![q] = c]
  /\ arg' = [arg EXCEPT ![p] = q]
  /\ pc' = [pc EXCEPT ![p] = "fork_copy", ![q] = "swtched"]
  /\ ctx' = [ctx EXCEPT ![q] = "user"]
  /\ UNCHANGED <<wait_lock, cproc, cpc>>

\* allocproc preserves it: the slot it takes was nobody's.
LEMMA AllocLemma ==
  ASSUME TypeOK, TypeOK', Ctl, NEW c \in CPU, NEW p \in Slots,
         NEW q \in Slots, Alloc(c, p, q)
  PROVE  Ctl'
<1>t. CtlType /\ CtlType'
  BY Zenon DEF TypeOK, CtlType
<1> USE DEF CtlType, Alloc, At
<1>a. p # q /\ arg \in [Slots -> Nat]
  BY Zenon DEF Ctl, RunInv, Runs, TypeOK
<1>b. \A d \in CPU : cproc[d] # q
  BY <1>t, CpuAssumption DEF Ctl, RunInv, CpuInv, Free, HoldsOwn, Slots, None
<1>c. pc[q] = "swtched"
  BY Zenon, <1>b DEF Ctl, OffInv
<1>1. CpuInv'
  BY <1>t, <1>a, <1>b, <1>c, CpuAssumption, Zenon DEF Ctl, CpuInv
<1>2. OneCpu'
  BY <1>t, <1>a, <1>b, <1>c, CpuAssumption DEF Ctl, OneCpu, CpuInv, RunInv, Free, Slots, None,
     HoldsOwn
<1>3. RunInv'
  BY <1>t, <1>a, <1>b, <1>c, CpuAssumption DEF Ctl, RunInv, OneCpu, CpuInv, OffInv, Runs,
     Free, HoldsPlock, HoldsOwn, Slots, None
<1>4. OffInv'
  BY <1>t, <1>a, <1>b, <1>c, CpuAssumption, Zenon DEF Ctl, OffInv, Runs, OneCpu, Slots, None
<1>5. LockInv'
  BY <1>t, <1>a, <1>b, <1>c, CpuAssumption DEF Ctl, LockInv, OneCpu, Runs, At, HoldsPlock,
     HoldsOwn
<1>6. ForkInv'
  BY <1>t, <1>a, <1>b, <1>c, CpuAssumption DEF Ctl, ForkInv, RunInv, OffInv, Building, Runs,
     HoldsPlock, HoldsOwn
<1>7. CopyInv'
  BY <1>t, <1>a, <1>b, <1>c, CpuAssumption, SMTT(30) DEF Ctl, CopyInv, ForkInv, Building,
     Free, OneCpu, Slots, None, LockInv, Runs, At, HoldsPlock, HoldsOwn
<1>8. WaitInv'
  BY <1>t, <1>a, <1>b, <1>c, CpuAssumption DEF Ctl, WaitInv, OneCpu, OffInv, Runs, Slots,
     None, HoldsWait
<1>9. CtxInv'
  BY <1>t, <1>a, <1>b, <1>c, CpuAssumption DEF Ctl, CtxInv, RunInv, HoldsPlock, HoldsOwn
<1> QED
  BY <1>1, <1>2, <1>3, <1>4, <1>5, <1>6, <1>7, <1>8, <1>9, Zenon DEF Ctl

-----------------------------------------------------------------------------
\* Every step keeps the types; fork, Resume and the scans need Ctl for it.
LEMMA TypeStep ==
  ASSUME TypeOK, Ctl, NEW c \in CPU, NEW p \in Slots
  PROVE  (SchedPick(c, p) \/ Swtch(c, p) \/ Resume(c, p) \/ Trap(c, p) \/ KernelStep(c, p))
         => TypeOK'
<1>a. /\ 0 \in Slots /\ 0 \in ScanRange
      /\ \A q \in Slots : q \in Nat /\ q + 1 \in ScanRange
      /\ \A i \in ScanRange : i < NPROC => i \in Slots
      /\ KillArgs \subseteq Nat
  BY NprocAssumption, KillAssumption DEF Slots, ScanRange
<1> USE <1>a DEF TypeOK, States, ControlPoints, Preemptible, ResumePoints
<1>1. ASSUME SchedPick(c, p) PROVE TypeOK'
  BY <1>1, Zenon DEF SchedPick, table, locks, cpus, local, At, Runs, Goto
<1>2. ASSUME Swtch(c, p) PROVE TypeOK'
  BY <1>2, Zenon DEF Swtch, table, locks, cpus, local, At, Runs, Goto
<1>3. ASSUME Resume(c, p) PROVE TypeOK'
  BY <1>3, SMTT(30) DEF Resume, table, locks, cpus, local, At, Runs, Goto, CtxInv, RunInv, Ctl
<1>4. ASSUME UserTimer(c, p) PROVE TypeOK'
  BY <1>4, Zenon DEF UserTimer, table, locks, cpus, local, At, Runs, Goto, DoYield, YieldLock
<1>5. ASSUME KernelTimer(c, p) PROVE TypeOK'
  BY <1>5 DEF KernelTimer, table, locks, cpus, local, At, Runs, Goto, DoYield, YieldLock
<1>6. ASSUME TimerEnd(c, p) PROVE TypeOK'
  BY <1>6, SMTT(30) DEF TimerEnd, table, locks, cpus, local, At, Runs, Goto, DoYield, YieldLock
<1>7. ASSUME Syscall(c, p) PROVE TypeOK'
  BY <1>7 DEF Syscall, table, locks, cpus, local, At, Runs, Goto, Enter
<1>8. ASSUME SysKill(c, p) PROVE TypeOK'
  BY <1>8 DEF SysKill, table, locks, cpus, local, At, Runs, Goto, Enter
<1>9. ASSUME SysRet(c, p) PROVE TypeOK'
  BY <1>9, Zenon DEF SysRet, table, locks, cpus, local, At, Runs, Goto
<1>10. ASSUME ForkScan(c, p) PROVE TypeOK'
  BY <1>10, SMTT(30) DEF ForkScan, table, locks, cpus, local, At, Runs, Goto
<1>11. ASSUME ForkFull(c, p) PROVE TypeOK'
  BY <1>11, Zenon DEF ForkFull, table, locks, cpus, local, At, Runs, Goto, Return
<1>12. ASSUME ForkFail(c, p) PROVE TypeOK'
  BY <1>12, Zenon DEF ForkFail, table, locks, cpus, local, At, Runs, Goto, FreeProc,
     ClearKilled, Return, ForkInv, Building, Ctl
<1>13. ASSUME ForkCopied(c, p) PROVE TypeOK'
  BY <1>13, Zenon DEF ForkCopied, table, locks, cpus, local, At, Runs, Goto, ForkInv,
     Building, Ctl
<1>14. ASSUME ForkParent(c, p) PROVE TypeOK'
  BY <1>14, Zenon DEF ForkParent, table, locks, cpus, local, At, Runs, Goto, ForkInv,
     Building, Ctl
<1>15. ASSUME ForkRunnable(c, p) PROVE TypeOK'
  BY <1>15, Zenon DEF ForkRunnable, table, locks, cpus, local, At, Runs, Goto, Return,
     ForkInv, Building, Ctl
<1>16. ASSUME ExitInit(c, p) PROVE TypeOK'
  BY <1>16, Zenon DEF ExitInit, table, locks, cpus, local, At, Runs, Goto
<1>17. ASSUME ExitLock(c, p) PROVE TypeOK'
  BY <1>17, Zenon DEF ExitLock, table, locks, cpus, local, At, Runs, Goto
<1>18. ASSUME Reparent(c, p) PROVE TypeOK'
  BY <1>18, Zenon DEF Reparent, table, locks, cpus, local, At, Runs, Goto, initproc, Adopted,
     AfterAdoption, Children
<1>19. ASSUME WakeInit(c, p) PROVE TypeOK'
  BY <1>19, SMTT(30) DEF WakeInit, table, locks, cpus, local, At, Runs, Goto, WakeSlot,
     WakeDone, Woken, initproc
<1>20. ASSUME WakeParent(c, p) PROVE TypeOK'
  BY <1>20, SMTT(30) DEF WakeParent, table, locks, cpus, local, At, Runs, Goto, WakeSlot,
     WakeDone, Woken, ParentChannel
<1>21. ASSUME ExitZombie(c, p) PROVE TypeOK'
  BY <1>21, Zenon DEF ExitZombie, ExitRelease, table, locks, cpus, local, At, Runs, Goto
<1>22. ASSUME WaitLock(c, p) PROVE TypeOK'
  BY <1>22, Zenon DEF WaitLock, table, locks, cpus, local, At, Runs, Goto
<1>23. ASSUME WaitSkip(c, p) PROVE TypeOK'
  BY <1>23 DEF WaitSkip, NextSlot, table, locks, cpus, local, At, Runs, Goto, WaitAt
<1>24. ASSUME WaitReap(c, p) PROVE TypeOK'
  BY <1>24, SMTT(30) DEF WaitReap, table, locks, cpus, local, At, Runs, Goto, FreeProc,
     ClearKilled, Return, WaitAt
<1>25. ASSUME WaitBadAddr(c, p) PROVE TypeOK'
  BY <1>25, Zenon DEF WaitBadAddr, table, locks, cpus, local, At, Runs, Goto, Return
<1>26. ASSUME WaitEnd(c, p) PROVE TypeOK'
  BY <1>26, SMTT(30) DEF WaitEnd, GiveUp, table, locks, cpus, local, At, Runs, Goto, Return
<1>27. ASSUME SleepLock(c, p) PROVE TypeOK'
  BY <1>27, Zenon DEF SleepLock, table, locks, cpus, local, At, Runs, Goto
<1>28. ASSUME Sleep(c, p) PROVE TypeOK'
  BY <1>28, Zenon DEF Sleep, table, locks, cpus, local, At, Runs, Goto
<1>29. ASSUME KillScan(c, p) PROVE TypeOK'
  <2>1. idx[p] \in Slots
    BY <1>29, Zenon DEF KillScan
  <2>2. CASE pid[idx[p]] = arg[p]
    <3>1. /\ state' = [state EXCEPT ![idx[p]] = KillState(idx[p])]
          /\ killed' = [killed EXCEPT ![idx[p]] = 1]
          /\ Return(p)
          /\ UNCHANGED <<chan, pid, parent, nextpid, locks, cpus, ctx, panicked>>
      BY <1>29, <2>2, Zenon DEF KillScan
    <3>2. state' \in [Slots -> States]
      BY <2>1, <3>1, Zenon DEF KillState
    <3> QED
      BY <2>1, <3>1, <3>2, Zenon DEF locks, cpus, Goto, Return
  <2>3. CASE pid[idx[p]] # arg[p]
    BY <1>29, <2>1, <2>3 DEF KillScan, locks, cpus
  <2> QED
    BY <2>2, <2>3, Zenon
<1>30. ASSUME KillNone(c, p) PROVE TypeOK'
  BY <1>30, Zenon DEF KillNone, table, locks, cpus, local, At, Runs, Goto, Return
<1> QED
  BY <1>1, <1>2, <1>3, <1>4, <1>5, <1>6, <1>7, <1>8, <1>9, <1>10, <1>11, <1>12, <1>13, <1>14,
     <1>15, <1>16, <1>17, <1>18, <1>19, <1>20, <1>21, <1>22, <1>23, <1>24, <1>25, <1>26, <1>27,
     <1>28, <1>29, <1>30, ZenonT(60) DEF Trap, KernelStep

\* Every step of a process keeps the control invariant: most of them are a Move
\* or a Block.
LEMMA CtlStep ==
  ASSUME TypeOK, TypeOK', Ctl, NEW c \in CPU, NEW p \in Slots,
         SchedPick(c, p) \/ Swtch(c, p) \/ Resume(c, p) \/ Trap(c, p) \/ KernelStep(c, p)
  PROVE  Ctl'
<1>r. \A i \in ScanRange : i < NPROC => i \in Slots
  BY NprocAssumption DEF Slots, ScanRange
<1>a. /\ \A i \in ScanRange : i < NPROC => i \in Slots
      /\ state \in [Slots -> States] /\ pc \in [Slots -> ControlPoints]
      /\ wait_lock \in CPU \cup {NoCPU} /\ arg \in [Slots -> Nat]
      /\ idx \in [Slots -> ScanRange]
      /\ ctx \in [Slots -> ResumePoints]
  BY <1>r, Zenon DEF TypeOK
<1>q. ASSUME NEW l, Quiet(c, p, l) PROVE Ctl'
  BY Zenon, <1>q, QuietLemma
<1>m. ASSUME NEW l \in ControlPoints, NEW q \in Slots, NEW s \in States, Move(c, p, l, q, s)
      PROVE  Ctl'
  BY Zenon, <1>m, MoveLemma
<1>b. ASSUME NEW l \in ResumePoints, NEW s \in {"RUNNABLE", "SLEEPING", "ZOMBIE"},
             Block(c, p, l, s)
      PROVE  Ctl'
  BY Zenon, <1>b, BlockLemma
<1>1. ASSUME SchedPick(c, p) PROVE Ctl'
  BY Zenon, <1>1, SchedPickLemma
<1>2. ASSUME Swtch(c, p) PROVE Ctl'
  BY Zenon, <1>2, SwtchLemma
<1>3. ASSUME Resume(c, p) PROVE Ctl'
  BY Zenon, <1>3, ResumeLemma
<1>4. ASSUME UserTimer(c, p) PROVE Ctl'
  <2>1. Block(c, p, "timer", "RUNNABLE")
    BY <1>4, <1>a, Zenon DEF UserTimer, DoYield, YieldLock, Block, At, Goto, table, locks,
       cpus, local, HoldsWait, HoldsPlock, HoldsOwn
  <2> QED
    BY Zenon, <2>1, <1>b DEF ResumePoints, Preemptible
<1>5. ASSUME KernelTimer(c, p) PROVE Ctl'
  <2>1. pc[p] \in Preemptible /\ Block(c, p, pc[p], "RUNNABLE")
    BY <1>5, <1>a, Zenon DEF KernelTimer, DoYield, YieldLock, Preemptible, Block, At, Goto,
       table, locks, cpus, local, HoldsWait, HoldsPlock, HoldsOwn
  <2> QED
    BY Zenon, <2>1, <1>b DEF ResumePoints
<1>6. ASSUME TimerEnd(c, p) PROVE Ctl'
  <2>1. CASE killed[p] = 1
    <3>1. Quiet(c, p, "exit")
      BY <1>6, <2>1, Zenon DEF TimerEnd, Quiet, Plain, Waiting, At, Goto, table, locks, cpus,
         local
    <3> QED
      BY Zenon, <3>1, <1>q
  <2>2. CASE killed[p] # 1 /\ RR
    <3>1. Block(c, p, "user", "RUNNABLE")
      BY <1>6, <2>2, <1>a, Zenon DEF TimerEnd, DoYield, YieldLock, Block, At, Goto, table,
         locks, cpus, local, HoldsWait, HoldsPlock, HoldsOwn
    <3> QED
      BY Zenon, <3>1, <1>b DEF ResumePoints
  <2>3. CASE killed[p] # 1 /\ ~RR
    <3>1. Quiet(c, p, "user")
      BY <1>6, <2>3, Zenon DEF TimerEnd, Quiet, Plain, Waiting, At, Goto, table, locks, cpus,
         local
    <3> QED
      BY Zenon, <3>1, <1>q
  <2> QED
    BY Zenon, <2>1, <2>2, <2>3
<1>7. ASSUME Syscall(c, p) PROVE Ctl'
  <2>1. PICK call \in {"fork", "exit", "wait"} : Enter(c, p, call) /\ UNCHANGED arg
    BY Zenon, <1>7 DEF Syscall
  <2>2. Quiet(c, p, IF killed[p] = 1 THEN "exit" ELSE call)
    BY <2>1, Zenon DEF Enter, Quiet, Plain, Waiting, At, Goto, table, locks, cpus, local
  <2> QED
    BY Zenon, <2>2, <1>q
<1>8. ASSUME SysKill(c, p) PROVE Ctl'
  <2>1. PICK k \in KillArgs : /\ Enter(c, p, "kill")
                              /\ arg' = IF killed[p] = 1 THEN arg ELSE [arg EXCEPT ![p] = k]
    BY <1>8, Zenon DEF SysKill
  <2>2. \A r \in Slots \ {p} : arg'[r] = arg[r]
    BY <2>1, <1>a, Zenon
  <2>3. Quiet(c, p, IF killed[p] = 1 THEN "exit" ELSE "kill")
    BY <2>1, <2>2, Zenon DEF Enter, Quiet, Plain, Waiting, At, Goto, table, locks, cpus, local
  <2> QED
    BY Zenon, <2>3, <1>q
<1>9. ASSUME SysRet(c, p) PROVE Ctl'
  <2>1. Quiet(c, p, IF killed[p] = 1 THEN "exit" ELSE "user")
    BY <1>9, Zenon DEF SysRet, Quiet, Plain, Waiting, At, Goto, table, locks, cpus, local
  <2> QED
    BY Zenon, <2>1, <1>q
<1>10. ASSUME ForkScan(c, p) PROVE Ctl'
  <2>1. idx[p] \in Slots
    BY <1>10, <1>a, Zenon DEF ForkScan
  <2>2. CASE state[idx[p]] # "UNUSED"
    <3>1. /\ Runs(c, p) /\ pc[p] = "fork"
          /\ UNCHANGED <<state, pc, ctx, plock, wait_lock, cproc, cpc, arg>>
      BY <1>10, <2>2, Zenon DEF ForkScan, At, cpus
    <3>2. Quiet(c, p, "fork")
      BY <3>1, <1>a, Zenon DEF Quiet, Plain
    <3> QED
      BY Zenon, <3>2, <1>q
  <2>3. CASE state[idx[p]] = "UNUSED"
    <3>1. Alloc(c, p, idx[p])
      BY <1>10, <2>3, Zenon DEF ForkScan, Alloc, cpus
    <3> QED
      BY <3>1, <2>1, AllocLemma, Zenon
  <2> QED
    BY <2>2, <2>3, Zenon
<1>11. ASSUME ForkFull(c, p) PROVE Ctl'
  <2>1. \A r \in Slots \ {p} : arg'[r] = arg[r]
    BY <1>11, <1>a, Zenon DEF ForkFull, Return
  <2>2. Quiet(c, p, "sysret")
    BY <1>11, <2>1, Zenon DEF ForkFull, Return, Quiet, Plain, Waiting, At, Goto, table, locks,
       cpus, local
  <2> QED
    BY Zenon, <2>2, <1>q
<1>12. ASSUME ForkFail(c, p) PROVE Ctl'
  BY <1>12, ForkFailLemma, Zenon
<1>13. ASSUME ForkCopied(c, p) PROVE Ctl'
  BY Zenon, <1>13, ForkCopiedLemma
<1>14. ASSUME ForkParent(c, p) PROVE Ctl'
  <2>1. Move(c, p, "fork_runnable", p, state[p])
    BY <1>14, <1>a, Zenon DEF ForkParent, Move, At, Goto, table, locks, cpus, local,
       HoldsWait, HoldsPlock, HoldsOwn
  <2> QED
    BY <2>1, <1>a, <1>m, Zenon DEF ControlPoints, Preemptible, States
<1>15. ASSUME ForkRunnable(c, p) PROVE Ctl'
  <2>1. arg[p] \in Slots /\ state[arg[p]] = "USED"
    BY <1>15, Zenon DEF ForkRunnable, At, Ctl, ForkInv, Building
  <2>2. Move(c, p, "sysret", arg[p], "RUNNABLE")
    BY <1>15, <2>1, <1>a, Zenon DEF ForkRunnable, Return, Move, At, Goto, table, locks, cpus,
       local, HoldsWait, HoldsPlock, HoldsOwn
  <2> QED
    BY <2>1, <2>2, <1>m, Zenon DEF ControlPoints, Preemptible, States
<1>16. ASSUME ExitInit(c, p) PROVE Ctl'
  <2>1. Quiet(c, p, "exit")
    BY <1>16, <1>a, Zenon DEF ExitInit, Quiet, Plain, Waiting, At, Goto, table, locks, cpus,
       local
  <2> QED
    BY Zenon, <2>1, <1>q
<1>17. ASSUME ExitLock(c, p) PROVE Ctl'
  <2>1. Move(c, p, "exit_reparent", p, state[p])
    BY <1>17, <1>a, Zenon DEF ExitLock, Move, At, Goto, table, locks, cpus, local, HoldsWait,
       HoldsPlock, HoldsOwn
  <2> QED
    BY <2>1, <1>a, <1>m, Zenon DEF ControlPoints, Preemptible, States
<1>18. ASSUME Reparent(c, p) PROVE Ctl'
  <2>1. Quiet(c, p, AfterAdoption(p))
    BY <1>18, Zenon DEF Reparent, AfterAdoption, Quiet, Plain, Waiting, At, Goto, table,
       locks, cpus, local
  <2> QED
    BY Zenon, <2>1, <1>q
<1>19. ASSUME WakeInit(c, p) PROVE Ctl'
  <2>0. wait_lock = c
    BY <1>19, Zenon DEF WakeInit, At, Runs, Ctl, WaitInv, HoldsWait
  <2>1. CASE WakeSlot(p, initproc) /\ idx[p] # p
    <3>1. idx[p] \in Slots /\ Woken(idx[p], initproc) \in States
      BY <2>1, <1>a, Zenon DEF WakeSlot, Woken, States
    <3>2. Move(c, p, "exit_wakeinit", idx[p], Woken(idx[p], initproc))
      BY <1>19, <2>0, <2>1, <1>a, Zenon DEF WakeInit, WakeSlot, Woken, Move, At, Goto, table,
         locks, cpus, local, HoldsWait, HoldsPlock, HoldsOwn
    <3> QED
      BY <3>1, <3>2, <1>m, Zenon DEF ControlPoints
  <2>2. CASE WakeSlot(p, initproc) /\ idx[p] = p
    <3>1. Quiet(c, p, "exit_wakeinit")
      BY <1>19, <2>2, <1>a, Zenon DEF WakeInit, WakeSlot, Quiet, Plain, Waiting, At, Goto,
         table, locks, cpus, local
    <3> QED
      BY Zenon, <3>1, <1>q
  <2>3. CASE WakeDone(p, "exit_wakeparent")
    <3>1. Quiet(c, p, "exit_wakeparent")
      BY <1>19, <2>3, Zenon DEF WakeInit, WakeDone, Quiet, Plain, Waiting, At, Goto, table,
         locks, cpus, local
    <3> QED
      BY Zenon, <3>1, <1>q
  <2> QED
    BY <1>19, <2>1, <2>2, <2>3, Zenon DEF WakeInit
<1>20. ASSUME WakeParent(c, p) PROVE Ctl'
  <2>0. wait_lock = c
    BY <1>20, Zenon DEF WakeParent, At, Runs, Ctl, WaitInv, HoldsWait
  <2>1. CASE WakeSlot(p, ParentChannel(p)) /\ idx[p] # p
    <3>1. idx[p] \in Slots /\ Woken(idx[p], ParentChannel(p)) \in States
      BY <2>1, <1>a, Zenon DEF WakeSlot, Woken, States
    <3>2. Move(c, p, "exit_wakeparent", idx[p], Woken(idx[p], ParentChannel(p)))
      BY <1>20, <2>0, <2>1, <1>a, Zenon DEF WakeParent, WakeSlot, Woken, Move, At, Goto,
         table, locks, cpus, local, HoldsWait, HoldsPlock, HoldsOwn
    <3> QED
      BY <3>1, <3>2, <1>m, Zenon DEF ControlPoints
  <2>2. CASE WakeSlot(p, ParentChannel(p)) /\ idx[p] = p
    <3>1. Quiet(c, p, "exit_wakeparent")
      BY <1>20, <2>2, <1>a, Zenon DEF WakeParent, WakeSlot, Quiet, Plain, Waiting, At, Goto,
         table, locks, cpus, local
    <3> QED
      BY Zenon, <3>1, <1>q
  <2>3. CASE WakeDone(p, "exit_zombie")
    <3>1. Quiet(c, p, "exit_zombie")
      BY <1>20, <2>3, Zenon DEF WakeParent, WakeDone, Quiet, Plain, Waiting, At, Goto, table,
         locks, cpus, local
    <3> QED
      BY Zenon, <3>1, <1>q
  <2> QED
    BY <1>20, <2>1, <2>2, <2>3, Zenon DEF WakeParent
<1>21. ASSUME ExitZombie(c, p) PROVE Ctl'
  <2>1. Block(c, p, "zombie", "ZOMBIE")
    BY <1>21, <1>a, Zenon DEF ExitZombie, ExitRelease, Block, At, Goto, table, locks, cpus,
       local, HoldsWait, HoldsPlock, HoldsOwn
  <2> QED
    BY Zenon, <2>1, <1>b DEF ResumePoints, Preemptible
<1>22. ASSUME WaitLock(c, p) PROVE Ctl'
  <2>1. Move(c, p, "wait_scan", p, state[p])
    BY <1>22, <1>a, Zenon DEF WaitLock, Move, At, Goto, table, locks, cpus, local, HoldsWait,
       HoldsPlock, HoldsOwn
  <2> QED
    BY <2>1, <1>a, <1>m, Zenon DEF ControlPoints
<1>23. ASSUME WaitSkip(c, p) PROVE Ctl'
  <2>1. /\ At(c, p, "wait_scan")
        /\ UNCHANGED <<table, locks, cpus, arg, pc, ctx>>
    BY <1>23, Zenon DEF WaitSkip, WaitAt
  <2>2. Quiet(c, p, "wait_scan")
    BY <2>1, <1>a, Zenon DEF Quiet, Plain, Waiting, At, Goto, table, locks, cpus, local
  <2> QED
    BY Zenon, <2>2, <1>q
<1>24. ASSUME WaitReap(c, p) PROVE Ctl'
  <2>0. PICK q \in Slots : /\ WaitAt(c, p, q)
                           /\ state[q] = "ZOMBIE"
                           /\ FreeProc(q)
                           /\ wait_lock' = NoCPU
                           /\ Return(p)
                           /\ UNCHANGED <<plock, cpus, ctx>>
    BY <1>24, Zenon DEF WaitReap
  <2>a. At(c, p, "wait_scan") /\ Free(q)
    BY <2>0, Zenon DEF WaitAt
  <2>b. /\ pc' = [pc EXCEPT ![p] = "sysret"]
        /\ \A r \in Slots \ {p} : arg'[r] = arg[r]
    BY <2>0, <1>a, Zenon DEF Return, Goto, local
  <2>c. state' = [state EXCEPT ![q] = "UNUSED"]
    BY <2>0, Zenon DEF FreeProc
  <2>1. Move(c, p, "sysret", q, "UNUSED")
    BY <2>0, <2>a, <2>b, <2>c, Zenon DEF Move, At, cpus, HoldsWait, HoldsPlock, HoldsOwn
  <2> QED
    BY <2>1, <1>m, Zenon DEF ControlPoints, Preemptible, States
<1>25. ASSUME WaitBadAddr(c, p) PROVE Ctl'
  <2>1. Move(c, p, "sysret", p, state[p])
    BY <1>25, <1>a, Zenon DEF WaitBadAddr, WaitAt, Return, Move, At, Goto, table, locks, cpus,
       local, HoldsWait, HoldsPlock, HoldsOwn
  <2> QED
    BY <2>1, <1>a, <1>m, Zenon DEF ControlPoints, Preemptible, States
<1>26. ASSUME WaitEnd(c, p) PROVE Ctl'
  <2>0. wait_lock = c
    BY <1>26, Zenon DEF WaitEnd, At, Runs, Ctl, WaitInv, HoldsWait
  <2>1. PICK l \in {"sysret", "wait_sleep"} : Move(c, p, l, p, state[p])
    BY <1>26, <2>0, <1>a, Zenon DEF WaitEnd, GiveUp, Return, Move, At, Goto, table, locks,
       cpus, local, HoldsWait, HoldsPlock, HoldsOwn
  <2> QED
    BY <2>1, <1>a, <1>m, Zenon DEF ControlPoints, Preemptible
<1>27. ASSUME SleepLock(c, p) PROVE Ctl'
  BY Zenon, <1>27, SleepLockLemma
<1>28. ASSUME Sleep(c, p) PROVE Ctl'
  <2>0. plock[p] = c
    BY <1>28, Zenon DEF Sleep, At, Runs, Ctl, RunInv, HoldsOwn
  <2>1. Block(c, p, "wait_again", "SLEEPING")
    BY <1>28, <2>0, <1>a, TypeOK, Zenon DEF TypeOK, Sleep, Block, At, Goto, table, locks,
       cpus, local, HoldsWait, HoldsPlock, HoldsOwn
  <2> QED
    BY <2>1, <1>b, Zenon DEF ResumePoints, Preemptible
<1>29. ASSUME KillScan(c, p) PROVE Ctl'
  <2>1. idx[p] \in Slots
    BY <1>29, <1>a, Zenon DEF KillScan
  <2>2. CASE pid[idx[p]] = arg[p]
    <3>1. Move(c, p, "sysret", idx[p], KillState(idx[p])) /\ KillState(idx[p]) \in States
      BY <1>29, <2>1, <2>2, <1>a, Zenon DEF KillScan, Return, KillState, States, Move, At,
         Goto, table, locks, cpus, local, HoldsWait, HoldsPlock, HoldsOwn
    <3> QED
      BY <2>1, <3>1, <1>m, Zenon DEF ControlPoints, Preemptible
  <2>3. CASE pid[idx[p]] # arg[p]
    <3>1. Quiet(c, p, "kill")
      BY <1>29, <2>3, <1>a, Zenon DEF KillScan, Quiet, Plain, Waiting, At, Goto, table, locks,
         cpus, local
    <3> QED
      BY Zenon, <3>1, <1>q
  <2> QED
    BY <2>2, <2>3, Zenon
<1>30. ASSUME KillNone(c, p) PROVE Ctl'
  <2>1. \A r \in Slots \ {p} : arg'[r] = arg[r]
    BY <1>30, <1>a, Zenon DEF KillNone, Return
  <2>2. Quiet(c, p, "sysret")
    BY <1>30, <2>1, Zenon DEF KillNone, Return, Quiet, Plain, Waiting, At, Goto, table, locks,
       cpus, local
  <2> QED
    BY Zenon, <2>2, <1>q
<1> QED
  BY <1>1, <1>2, <1>3, <1>4, <1>5, <1>6, <1>7, <1>8, <1>9, <1>10, <1>11, <1>12, <1>13, <1>14,
     <1>15, <1>16, <1>17, <1>18, <1>19, <1>20, <1>21, <1>22, <1>23, <1>24, <1>25, <1>26, <1>27,
     <1>28, <1>29, <1>30, Zenon
     DEF Trap, KernelStep

-----------------------------------------------------------------------------
\* The state userinit leaves satisfies the inductive invariant.
LEMMA Initially == Init => TypeOK /\ Ctl
<1> SUFFICES ASSUME Init PROVE TypeOK /\ Ctl
  OBVIOUS
<1>a. 0 \in Slots /\ 0 \in ScanRange /\ None \notin Slots
  BY NprocAssumption DEF Slots, ScanRange, None
<1>1. TypeOK
  <2>1. /\ state \in [Slots -> States]
        /\ pc \in [Slots -> ControlPoints]
        /\ ctx \in [Slots -> ResumePoints]
    BY Zenon DEF Init, States, ControlPoints, ResumePoints, Preemptible
  <2>2. /\ pid \in [Slots -> Nat]
        /\ nextpid \in Nat \ {0}
        /\ idx \in [Slots -> ScanRange]
        /\ arg \in [Slots -> Nat]
    BY <1>a DEF Init
  <2>3. /\ chan \in [Slots -> Slots \cup {None}]
        /\ killed \in [Slots -> {0, 1}]
        /\ parent \in [Slots -> Slots \cup {None}]
        /\ plock \in [Slots -> CPU \cup {NoCPU}]
        /\ wait_lock \in CPU \cup {NoCPU}
        /\ cproc \in [CPU -> Slots \cup {None}]
        /\ cpc \in [CPU -> {"scan", "run", "back"}]
        /\ havekids \in [Slots -> {0, 1}]
        /\ panicked \in BOOLEAN
    BY Zenon DEF Init
  <2> QED
    BY <2>1, <2>2, <2>3, Zenon DEF TypeOK
<1>2. CpuInv /\ OneCpu /\ RunInv /\ OffInv
  BY <1>a, Zenon DEF Init, CpuInv, OneCpu, RunInv, OffInv
<1>3. LockInv /\ ForkInv /\ CopyInv /\ WaitInv /\ CtxInv
  BY <1>a, CpuAssumption, Zenon DEF Init, LockInv, ForkInv, CopyInv, WaitInv, CtxInv,
     Building, At, Runs
<1> QED
  BY Zenon, <1>1, <1>2, <1>3 DEF Ctl

\* Every step of the process table preserves the inductive invariant.
LEMMA Inductive == TypeOK /\ Ctl /\ [Next]_vars => (TypeOK /\ Ctl)'
<1> SUFFICES ASSUME TypeOK, Ctl, [Next]_vars PROVE TypeOK' /\ Ctl'
  OBVIOUS
<1>1. ASSUME NEW c \in CPU, SchedReturn(c) PROVE TypeOK' /\ Ctl'
  <2>1. TypeOK'
    <3>1. cproc[c] \in Slots
      BY <1>1, Zenon DEF SchedReturn, TypeOK, Ctl, CpuInv
    <3> QED
      BY <1>1, <3>1, Zenon DEF SchedReturn, TypeOK, table, local
  <2> QED
    BY Zenon, <1>1, <2>1, SchedReturnLemma
<1>2. ASSUME NEW c \in CPU, NEW p \in Slots,
             SchedPick(c, p) \/ Swtch(c, p) \/ Resume(c, p) \/ Trap(c, p) \/ KernelStep(c, p)
      PROVE  TypeOK' /\ Ctl'
  BY <1>2, TypeStep, CtlStep, Zenon
<1>3. CASE UNCHANGED vars
  <2>1. TypeOK'
    BY <1>3, Zenon DEF TypeOK, vars, table, locks, cpus, local
  <2>2. UNCHANGED <<state, plock, wait_lock, cproc, cpc, pc, ctx, arg>>
    BY <1>3, Zenon DEF vars, table, locks, cpus, local
  <2>3. (CpuInv /\ OneCpu)'
    BY <2>2, Zenon DEF Ctl, CpuInv, OneCpu
  <2>4. RunInv'
    BY <2>2 DEF Ctl, RunInv
  <2>5. OffInv'
    BY <2>2, Zenon DEF Ctl, OffInv
  <2>6. (LockInv /\ CopyInv)'
    BY <2>2 DEF Ctl, LockInv, CopyInv, At, Runs
  <2>7. ForkInv'
    BY <2>2, Zenon DEF Ctl, ForkInv, Building
  <2>8. (WaitInv /\ CtxInv)'
    BY <2>2, Zenon DEF Ctl, WaitInv, CtxInv, Runs
  <2> QED
    BY <2>1, <2>3, <2>4, <2>5, <2>6, <2>7, <2>8, Zenon DEF Ctl
<1> QED
  BY <1>1, <1>2, <1>3, Zenon DEF Next

\* The fields of the table, the lock holders and the threads' control points
\* keep their types (proc.h), for any table size and number of harts.
THEOREM TypeCorrect == Spec => []TypeOK
<1>1. TypeOK /\ Ctl => TypeOK
  OBVIOUS
<1> QED
  BY Initially, Inductive, <1>1, PTL DEF Spec

\* scheduler, sched, yield, sleep and exit hand p->lock over so that no two
\* harts ever execute on one process's stack, and a slot with a free lock is
\* RUNNING exactly while a hart executes it.
THEOREM Exclusion == Spec => []Exclusive
<1>1. TypeOK /\ Ctl => OneStack
  BY DEF Ctl, OneCpu, OneStack, Runs, Slots, None
<1>2. TypeOK /\ Ctl => RunningIsRun
  BY CpuAssumption DEF TypeOK, Ctl, CpuInv, RunInv, OffInv, RunningIsRun, Runs, Free, Slots,
     None, HoldsOwn
<1>3. TypeOK /\ Ctl => Exclusive
  BY Zenon, <1>1, <1>2 DEF Exclusive
<1> QED
  BY Initially, Inductive, <1>3, PTL DEF Spec

\* The checks at the top of sched() never fail: the caller holds p->lock and no
\* other spinlock, and the process is no longer RUNNING.
THEOREM SchedNeverPanics == Spec => []SchedPanics
<1>1. TypeOK /\ Ctl => SchedPanics
  <2> SUFFICES ASSUME TypeOK, Ctl, NEW c \in CPU, NEW p \in Slots, At(c, p, "sched")
               PROVE  /\ plock[p] = c
                      /\ wait_lock # c
                      /\ \A q \in Slots \ {p} : plock[q] # c
                      /\ state[p] # "RUNNING"
    BY Zenon DEF SchedPanics
  <2>1. plock[p] = c /\ state[p] # "RUNNING"
    BY Zenon DEF Ctl, RunInv, At, Runs, HoldsOwn
  <2>2. wait_lock # c
    BY Zenon DEF Ctl, WaitInv, At, Runs, HoldsWait
  <2>3. \A q \in Slots \ {p} : plock[q] # c
    BY DEF Ctl, LockInv, At, Runs
  <2> QED
    BY <2>1, <2>2, <2>3, Zenon
<1> QED
  BY Initially, Inductive, <1>1, PTL DEF Spec
=============================================================================
