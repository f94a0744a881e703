-------------------------------- MODULE Mlfq --------------------------------
(***************************************************************************)
(* The multi-level feedback queue build on one CPU: the queues of queue.c, *)
(* the MLFQ scheduler of proc.c, and the timer code of usertrap and        *)
(* kerneltrap that counts time slices.                                     *)
(*                                                                         *)
(* mq holds the queue arrays and the queue fields of struct proc; row k of *)
(* sched_queue is cells k*NPROC .. k*NPROC+NPROC-1.  An action is the code *)
(* between two points at which an interrupt can come or the CPU changes    *)
(* process.  The model stops when a row has been filled to its last cell:  *)
(* the shifting loop leaves a copy there that nothing clears.              *)
(***************************************************************************)
EXTENDS Integers, FiniteSets

CONSTANTS
  NPROC,        \* slots of the process table and of each queue
  MaxProcs,     \* bound: slots that fork ever uses
  NQ,           \* number of queues
  MAXWAITTIME   \* a queued process that waits longer is moved up

ASSUME NprocAssumption == NPROC \in Nat \ {0} /\ MaxProcs \in 1 .. NPROC
ASSUME NqAssumption == NQ \in Nat \ {0}
ASSUME WaitAssumption == MAXWAITTIME \in Nat

VARIABLES
  state,      \* p->state
  mq,         \* cell, back, size: the queues; in, pos, used, wait: in_queue,
              \* queue_position, ticks_used and curr_wait_time
  cpu,        \* the phase of the scheduler or "run"
  idx,        \* its loop variable, or the process that runs
  pc,         \* where a process is: "user", "kernel", or inside the timer code
  from,       \* what the timer interrupted
  aged,       \* history: remove_queue has been called
  panicked

vars == <<state, mq, cpu, idx, pc, from, aged, panicked>>

Slots  == 1 .. MaxProcs
Queues == 0 .. NQ - 1
Cells  == 0 .. NQ * NPROC - 1
Null   == 0

\* queue_struct.max_ticks.
max_ticks(k) == 2 ^ k

WaitCap == MAXWAITTIME + 1   \* larger values of curr_wait_time behave the same

TypeOK ==
  /\ state \in [Slots -> {"UNUSED", "RUNNABLE", "RUNNING", "SLEEPING", "ZOMBIE"}]
  /\ mq.cell \in [Cells -> Slots \cup {Null}]
  /\ mq.back \in [Queues -> 0 .. NPROC]
  /\ mq.size \in [Queues -> 0 .. NPROC]
  /\ mq.in \in [Slots -> {0, 1}]
  /\ mq.pos \in [Slots -> Queues]
  /\ \A p \in Slots : mq.used[p] \in 0 .. max_ticks(mq.pos[p]) - 1
  /\ mq.wait \in [Slots -> 0 .. WaitCap]
  /\ cpu \in {"age", "push", "pop", "run"}
  /\ idx \in Slots
  /\ pc \in [Slots -> {"user", "kernel", "tick"}]
  /\ from \in [Slots -> {"user", "kernel"}]
  /\ aged \in BOOLEAN /\ panicked \in BOOLEAN

Init ==
  /\ state = [p \in Slots |-> IF p = 1 THEN "RUNNABLE" ELSE "UNUSED"]
  /\ mq = [cell |-> [c \in Cells |-> Null],
           back |-> [k \in Queues |-> 0],
           size |-> [k \in Queues |-> 0],
           in   |-> [p \in Slots |-> 0],
           pos  |-> [p \in Slots |-> 0],
           used |-> [p \in Slots |-> 0],
           wait |-> [p \in Slots |-> 0]]
  /\ cpu = "age" /\ idx = 1
  /\ pc = [p \in Slots |-> "user"]
  /\ from = [p \in Slots |-> "user"]
  /\ aged = FALSE /\ panicked = FALSE

-----------------------------------------------------------------------------
(* queue.c                                                                   *)

push_queue(m, p, k) ==
  [m EXCEPT !.cell[k * NPROC + m.back[k]] = p,
            !.used[p] = 0, !.wait[p] = 0, !.in[p] = 1, !.pos[p] = k,
            !.back[k] = @ + 1, !.size[k] = @ + 1]

\* The shifting loop: the entries after f move down by one, up to and with the
\* first empty one.
Shift(cell, k, f) ==
  LET row(i) == cell[k * NPROC + i]
      stop   == CHOOSE j \in f + 1 .. NPROC :
                  /\ j = NPROC \/ row(j) = Null
                  /\ \A i \in f + 1 .. j - 1 : row(i) # Null
  IN [c \in Cells |->
        LET i == c - k * NPROC IN
        IF i \in f .. stop - 1
        THEN IF i + 1 < NPROC THEN row(i + 1) ELSE IF i = f THEN Null ELSE row(i)
        ELSE cell[c]]

\* Mutation: pop_queue, like remove_queue, leaves back alone.
KeepBack(m, k) == m.back

BackDown(m, k) == [m.back EXCEPT ![k] = @ - 1]

NotIn(m, p) == [m.in EXCEPT ![p] = 0]

\* pop_queue, when the front is a process.
pop_queue(m, k) ==
  [m EXCEPT !.cell = Shift(m.cell, k, 0), !.size[k] = @ - 1, !.back = BackDown(m, k),
            !.in = NotIn(m, m.cell[k * NPROC])]

\* remove_queue clears the last entry of p; size and back stay as they are.
remove_queue(m, p, k) ==
  LET found == {i \in 0 .. NPROC - 1 : m.cell[k * NPROC + i] = p}
      last  == CHOOSE i \in found : \A j \in found : j <= i
  IN IF found = {} THEN m ELSE [m EXCEPT !.cell = Shift(m.cell, k, last)]

\* Bound: no row is full.
Roomy == \A k \in Queues : mq.back[k] < NPROC

Up == ~panicked /\ Roomy

-----------------------------------------------------------------------------
(* The scheduler loop.                                                       *)

NextSlot(phase) ==
  \/ idx < MaxProcs /\ idx' = idx + 1 /\ cpu' = cpu
  \/ idx = MaxProcs /\ idx' = 1 /\ cpu' = phase

\* The aging scan.
Age ==
  /\ Up /\ cpu = "age"
  /\ LET old == mq.in[idx] = 1 /\ mq.wait[idx] > MAXWAITTIME /\ mq.pos[idx] > 0 IN
     \/ /\ old
        /\ mq' = push_queue(remove_queue(mq, idx, mq.pos[idx]), idx, mq.pos[idx] - 1)
        /\ aged' = TRUE
     \/ ~old /\ UNCHANGED <<mq, aged>>
  /\ NextSlot("push")
  /\ UNCHANGED <<state, pc, from, panicked>>

ToQueue(p) == state[p] = "RUNNABLE" /\ mq.in[p] = 0

\* The scan that queues the RUNNABLE processes.
Push ==
  /\ Up /\ cpu = "push"
  /\ \/ ToQueue(idx) /\ mq' = push_queue(mq, idx, mq.pos[idx])
     \/ ~ToQueue(idx) /\ UNCHANGED mq
  /\ NextSlot("pop")
  /\ UNCHANGED <<state, pc, from, aged, panicked>>

FirstQueue(k) == mq.size[k] > 0 /\ \A j \in 0 .. k - 1 : mq.size[j] <= 0

\* The first queue whose size is not zero gives the process to run; its state
\* is not looked at.
Pop ==
  /\ Up /\ cpu = "pop"
  /\ \/ /\ \A k \in Queues : mq.size[k] <= 0
        /\ cpu' = "age" /\ idx' = 1
        /\ UNCHANGED <<state, mq, panicked>>
     \/ \E k \in Queues :
          /\ FirstQueue(k)
          /\ LET p == mq.cell[k * NPROC] IN
             \/ /\ p = Null                    \* retval->in_queue = 0 faults
                /\ panicked' = TRUE
                /\ UNCHANGED <<state, mq, cpu, idx>>
             \/ /\ p # Null
                /\ mq' = [pop_queue(mq, k) EXCEPT !.wait[p] = 0]
                /\ state' = [state EXCEPT ![p] = "RUNNING"]
                /\ cpu' = "run" /\ idx' = p
                /\ UNCHANGED panicked
  /\ UNCHANGED <<pc, from, aged>>

-----------------------------------------------------------------------------
(* Time.                                                                     *)

\* clockintr: update_time, and wakeup(&ticks) for the sleepers S.
Waited == [p \in Slots |->
             IF state[p] \in {"SLEEPING", "RUNNABLE"} /\ mq.wait[p] < WaitCap
             THEN mq.wait[p] + 1 ELSE mq.wait[p]]
Clock(S) == [p \in Slots |-> IF p \in S THEN "RUNNABLE" ELSE state[p]]

Sleeping == {p \in Slots : state[p] = "SLEEPING"}

Runs(p) == Up /\ cpu = "run" /\ idx = p

\* sched: the scheduler starts over.
Switch == cpu' = "age" /\ idx' = 1

\* yield: the process may be chosen again.
Yielded(s, p) == [s EXCEPT ![p] = "RUNNABLE"]

\* A timer interrupt while the scheduler is between two locks.
SchedTick(S) ==
  /\ Up /\ cpu # "run"
  /\ mq' = [mq EXCEPT !.wait = Waited]
  /\ state' = Clock(S)
  /\ UNCHANGED <<cpu, idx, pc, from, aged, panicked>>

\* A timer interrupt in user mode: usertrap yields first, and runs the queue
\* code when the process is switched back in.
UserTick(p, S) ==
  /\ Runs(p) /\ pc[p] = "user"
  /\ mq' = [mq EXCEPT !.wait = Waited]
  /\ state' = Yielded(Clock(S), p)
  /\ pc' = [pc EXCEPT ![p] = "tick"]
  /\ from' = [from EXCEPT ![p] = "user"]
  /\ Switch
  /\ UNCHANGED <<aged, panicked>>

\* The same when it makes the alarm handler run: usertrapret without a yield.
AlarmTick(p, S) ==
  /\ Runs(p) /\ pc[p] = "user"
  /\ mq' = [mq EXCEPT !.wait = Waited]
  /\ state' = Clock(S)
  /\ UNCHANGED <<cpu, idx, pc, from, aged, panicked>>

\* A timer interrupt in the kernel goes straight to the queue code.
KernelTick(p, S) ==
  /\ Runs(p) /\ pc[p] = "kernel"
  /\ mq' = [mq EXCEPT !.wait = Waited]
  /\ state' = Clock(S)
  /\ pc' = [pc EXCEPT ![p] = "tick"]
  /\ from' = [from EXCEPT ![p] = "kernel"]
  /\ UNCHANGED <<cpu, idx, aged, panicked>>

\* ticks_used, once incremented, has reached the limit.
SliceOver(p) == mq.used[p] + 1 >= max_ticks(mq.pos[p])

Below(k) == IF k < NQ - 1 THEN k + 1 ELSE NQ - 1

(* The queue code of the timer interrupt, with interrupts off.  Its loop over  *)
(* the better queues, which would preempt the process, never finds one that is *)
(* not empty: NoneBetter.                                                      *)

\* The time slice is used up: to the end of the next queue, and yield.
Demoted(p) ==
  /\ Runs(p) /\ pc[p] = "tick"
  /\ SliceOver(p)
  /\ mq' = push_queue(mq, p, Below(mq.pos[p]))
  /\ state' = Yielded(state, p)
  /\ pc' = [pc EXCEPT ![p] = from[p]]
  /\ Switch
  /\ UNCHANGED <<from, aged, panicked>>

\* Otherwise back to what the interrupt interrupted.
CountTick(p) ==
  /\ Runs(p) /\ pc[p] = "tick"
  /\ ~SliceOver(p)
  /\ mq' = [mq EXCEPT !.used[p] = @ + 1]
  /\ pc' = [pc EXCEPT ![p] = from[p]]
  /\ UNCHANGED <<state, cpu, idx, from, aged, panicked>>

-----------------------------------------------------------------------------
(* What the running process does.                                            *)

\* A system call or device trap, and the return from it.
Cross(p) ==
  /\ Runs(p)
  /\ \/ pc[p] = "user" /\ pc' = [pc EXCEPT ![p] = "kernel"]
     \/ pc[p] = "kernel" /\ pc' = [pc EXCEPT ![p] = "user"]
  /\ UNCHANGED <<state, mq, cpu, idx, from, aged, panicked>>

Sleep(p) ==
  /\ Runs(p) /\ pc[p] = "kernel"
  /\ state' = [state EXCEPT ![p] = "SLEEPING"]
  /\ Switch
  /\ UNCHANGED <<mq, pc, from, aged, panicked>>

\* wakeup or kill, from the running process or a device interrupt.
Wakeup(q) ==
  /\ Up
  /\ cpu = "run" => pc[idx] \in {"user", "kernel"}
  /\ state[q] = "SLEEPING"
  /\ state' = [state EXCEPT ![q] = "RUNNABLE"]
  /\ UNCHANGED <<mq, cpu, idx, pc, from, aged, panicked>>

\* fork: allocproc resets the queue fields of the slot.
Fork(p, q) ==
  /\ Runs(p) /\ pc[p] = "kernel"
  /\ state[q] = "UNUSED"
  /\ state' = [state EXCEPT ![q] = "RUNNABLE"]
  /\ mq' = [mq EXCEPT !.in[q] = 0, !.pos[q] = 0, !.used[q] = 0, !.wait[q] = 0]
  /\ pc' = [pc EXCEPT ![q] = "user"]
  /\ UNCHANGED <<cpu, idx, from, aged, panicked>>

\* exit, called or forced on a killed process after the yield in usertrap.
Exit(p) ==
  /\ Runs(p) /\ p # 1
  /\ pc[p] = "kernel" \/ (pc[p] = "tick" /\ from[p] = "user")
  /\ state' = [state EXCEPT ![p] = "ZOMBIE"]
  /\ Switch
  /\ UNCHANGED <<mq, pc, from, aged, panicked>>

\* wait: freeproc leaves the queue fields alone.
Reap(p, q) ==
  /\ Runs(p) /\ pc[p] = "kernel"
  /\ state[q] = "ZOMBIE"
  /\ state' = [state EXCEPT ![q] = "UNUSED"]
  /\ UNCHANGED <<mq, cpu, idx, pc, from, aged, panicked>>

Scheduler == Age \/ Push \/ Pop

TimerCode(p) == CountTick(p) \/ Demoted(p)

Next ==
  \/ Scheduler
  \/ \E S \in SUBSET Sleeping :
       SchedTick(S) \/ \E p \in Slots : UserTick(p, S) \/ AlarmTick(p, S) \/ KernelTick(p, S)
  \/ \E p \in Slots : TimerCode(p) \/ Cross(p) \/ Sleep(p) \/ Wakeup(p) \/ Exit(p)
  \/ \E p, q \in Slots : Fork(p, q) \/ Reap(p, q)

Spec == Init /\ [][Next]_vars

-----------------------------------------------------------------------------
Entries(p, k) == {i \in 0 .. NPROC - 1 : mq.cell[k * NPROC + i] = p}

\* An entry in a row is the truth: its process has in_queue set, has this row
\* as its queue_position, and is entered once.
EntriesTrue ==
  Up => \A p \in Slots, k \in Queues :
    Entries(p, k) # {} => Cardinality(Entries(p, k)) = 1 /\ mq.in[p] = 1 /\ mq.pos[p] = k

\* As long as remove_queue has not been called, size and back are the number of
\* entries, which fill a row from its front, and every process with in_queue
\* set is entered in its row: none is forgotten, and pop_queue finds one.
RowsExact ==
  Up /\ ~aged =>
    /\ \A p \in Slots : mq.in[p] = 1 => Entries(p, mq.pos[p]) # {}
    /\ \A k \in Queues :
         /\ mq.size[k] = mq.back[k]
         /\ \A i \in 0 .. NPROC - 1 : mq.cell[k * NPROC + i] # Null <=> i < mq.back[k]

\* The scheduler runs what it pops without looking at its state; whatever is
\* queued is RUNNABLE, so it never runs a sleeping or dead process.
QueuedRunnable == Up => \A p \in Slots : mq.in[p] = 1 => state[p] = "RUNNABLE"

\* While a process runs, the queues better than its own are empty, so "if we find
\* a better priority process to preempt" in the timer code never holds: what
\* wakes up meanwhile is queued only by the scheduler.
NoneBetter ==
  Up /\ cpu = "run" => \A i \in 0 .. mq.pos[idx] - 1 : mq.size[i] = 0

\* The CPU runs the one process that is RUNNING, however push_queue, yield and
\* the two scans of the scheduler interleave with interrupts.
OneRunning ==
  Up => \A p \in Slots : state[p] = "RUNNING" <=> cpu = "run" /\ idx = p

\* "We implement moving up a priority by removing from original queue and
\* pushing it up a queue": the size of a queue stays the number of its entries,
\* and pop_queue finds a process whenever the size is not zero.
NeverPopsNothing == ~panicked

\* The three copies of "p is queued at k" (cells, in_queue, queue_position), the
\* counts size and back, and the states agree, though different functions update
\* them; and the scheduler runs one process, of the best queue.
QueuesExact ==
  TypeOK /\ QueuedRunnable /\ EntriesTrue /\ RowsExact /\ OneRunning /\ NoneBetter
=============================================================================
