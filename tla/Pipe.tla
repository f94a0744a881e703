-------------------------------- MODULE Pipe --------------------------------
(***************************************************************************)
(* kernel/pipe.c: one pipe, whose two struct files are shared by the       *)
(* processes that inherited them.  An action is what happens to one byte,  *)
(* or between two uses of pi->lock.  nread and nwrite are unsigned and     *)
(* wrap at 2^32, here at UintMod, a multiple of PIPESIZE as 2^32 is.  That *)
(* sleep() releases pi->lock and sleeps in one step is what module Proc    *)
(* shows of sleep and wakeup.                                              *)
(***************************************************************************)
EXTENDS Integers, Sequences, FiniteSets

CONSTANTS
  PipeProc,    \* processes that may come to hold the pipe
  Maker,       \* the one that calls pipe()
  Nobody,
  Byte,
  PIPESIZE, UintMod,
  Counts       \* values of n in the reads and writes

ASSUME PipeAssumption ==
  /\ Maker \in PipeProc /\ Nobody \notin PipeProc
  /\ PIPESIZE \in Nat \ {0} /\ UintMod \in Nat /\ UintMod > PIPESIZE
  /\ UintMod % PIPESIZE = 0
  /\ Counts \subseteq Nat \ {0}

VARIABLES
  data, nread, nwrite, readopen, writeopen,  \* struct pipe
  lock,                                      \* pi->lock
  freed,                                     \* kfree(pi) has been called
  holds,                                     \* ends each process has open
  ppc, todo, moved,                          \* a call: where it is, n and i
  dead,                                      \* p->killed
  unannounced   \* history: a killed writer left bytes and woke no reader since

pipe     == <<data, nread, nwrite, readopen, writeopen, freed>>
pipeVars == <<pipe, lock, holds, ppc, todo, moved, dead, unannounced>>

Ends == {"r", "w"}

PipeTypeOK ==
  /\ data \in [0 .. PIPESIZE - 1 -> Byte]
  /\ nread \in 0 .. UintMod - 1 /\ nwrite \in 0 .. UintMod - 1
  /\ readopen \in BOOLEAN /\ writeopen \in BOOLEAN /\ freed \in BOOLEAN
  /\ lock \in PipeProc \cup {Nobody}
  /\ holds \in [PipeProc -> SUBSET Ends]
  /\ ppc \in [PipeProc -> {"user", "write", "write_full", "write_sleep", "write_lock", "wait",
                           "wait_empty", "wait_sleep", "wait_lock", "copy", "close_r", "close_w"}]
  /\ todo \in [PipeProc -> Counts \cup {0}]
  /\ moved \in [PipeProc -> Nat] /\ \A p \in PipeProc : moved[p] <= todo[p]
  /\ dead \in [PipeProc -> BOOLEAN] /\ unannounced \in BOOLEAN

\* pipealloc, then fdalloc of both ends.
PipeInit ==
  /\ \E b \in Byte : data = [i \in 0 .. PIPESIZE - 1 |-> b]
  /\ nread = 0 /\ nwrite = 0 /\ readopen = TRUE /\ writeopen = TRUE
  /\ lock = Nobody /\ freed = FALSE
  /\ holds = [p \in PipeProc |-> IF p = Maker THEN Ends ELSE {}]
  /\ ppc = [p \in PipeProc |-> "user"]
  /\ todo = [p \in PipeProc |-> 0] /\ moved = [p \in PipeProc |-> 0]
  /\ dead = [p \in PipeProc |-> FALSE] /\ unannounced = FALSE

\* Mutation: the two counters are compared without the buffer's size.
FullOffByOne == nwrite = (nread + PIPESIZE + 1) % UintMod

Full  == nwrite = (nread + PIPESIZE) % UintMod
Empty == nread = nwrite

\* wakeup(&pi->nread) and wakeup(&pi->nwrite).
WakeReaders(f) == [p \in PipeProc |-> IF f[p] = "wait_sleep" THEN "wait_lock" ELSE f[p]]
WakeWriters(f) == [p \in PipeProc |-> IF f[p] = "write_sleep" THEN "write_lock" ELSE f[p]]

\* The call of p ends: the lock is released.
Return(p, f) ==
  /\ ppc' = [f EXCEPT ![p] = "user"]
  /\ lock' = Nobody
  /\ todo' = [todo EXCEPT ![p] = 0] /\ moved' = [moved EXCEPT ![p] = 0]

InUser(p) == ppc[p] = "user" /\ ~dead[p]

Call(p, end, l, n) ==
  /\ InUser(p) /\ end \in holds[p] /\ lock = Nobody
  /\ lock' = p
  /\ ppc' = [ppc EXCEPT ![p] = l]
  /\ todo' = [todo EXCEPT ![p] = n]
  /\ UNCHANGED <<pipe, holds, moved, dead, unannounced>>

WriteCall(p, n) == Call(p, "w", "write", n)
ReadCall(p, n)  == Call(p, "r", "wait", n)

\* A process that was woken takes the lock again.
Relock(p, from, to) ==
  /\ ppc[p] = from /\ lock = Nobody
  /\ lock' = p
  /\ ppc' = [ppc EXCEPT ![p] = to]
  /\ UNCHANGED <<pipe, holds, todo, moved, dead, unannounced>>

WriteWoken(p) == Relock(p, "write_lock", "write")
ReadWoken(p)  == Relock(p, "wait_lock", "wait")

-----------------------------------------------------------------------------
Writing(p) == ppc[p] = "write" /\ moved[p] < todo[p]

WriteFails(p) ==
  /\ Writing(p)
  /\ ~readopen \/ dead[p]
  /\ unannounced' = (unannounced \/ moved[p] > 0)
  /\ Return(p, ppc)
  /\ UNCHANGED <<pipe, holds, dead>>

\* Mutation: a writer that finds the pipe full does not wake the readers.
QuietWait(p) == [ppc EXCEPT ![p] = "write_full"]

FullWait(p) == [WakeReaders(ppc) EXCEPT ![p] = "write_full"]

\* killed() is past; a kill, which takes p->lock only, may still come before the sleep.
WriteWait(p) ==
  /\ Writing(p) /\ readopen /\ ~dead[p] /\ Full
  /\ ppc' = FullWait(p) /\ unannounced' = FALSE
  /\ UNCHANGED <<pipe, lock, holds, todo, moved, dead>>

\* sleep(chan, &pi->lock)
Sleep(p, from, to) ==
  /\ ppc[p] = from
  /\ ppc' = [ppc EXCEPT ![p] = to]
  /\ lock' = Nobody
  /\ UNCHANGED <<pipe, holds, todo, moved, dead, unannounced>>

WriteSleep(p) == Sleep(p, "write_full", "write_sleep")

WriteByte(p, b) ==
  /\ Writing(p) /\ readopen /\ ~dead[p] /\ ~Full
  /\ data' = [data EXCEPT ![nwrite % PIPESIZE] = b]
  /\ nwrite' = (nwrite + 1) % UintMod
  /\ moved' = [moved EXCEPT ![p] = @ + 1]
  /\ UNCHANGED <<nread, readopen, writeopen, freed, lock, holds, ppc, todo, dead, unannounced>>

\* copyin fails, or all is written.
WriteDone(p) ==
  /\ ppc[p] = "write"
  /\ moved[p] = todo[p] \/ (readopen /\ ~dead[p] /\ ~Full)
  /\ Return(p, WakeReaders(ppc)) /\ unannounced' = FALSE
  /\ UNCHANGED <<pipe, holds, dead>>

-----------------------------------------------------------------------------
ReadKilled(p) ==
  /\ ppc[p] = "wait" /\ Empty /\ writeopen /\ dead[p]
  /\ Return(p, ppc)
  /\ UNCHANGED <<pipe, holds, dead, unannounced>>

ReadWait(p) ==
  /\ ppc[p] = "wait" /\ Empty /\ writeopen /\ ~dead[p]
  /\ ppc' = [ppc EXCEPT ![p] = "wait_empty"]
  /\ UNCHANGED <<pipe, lock, holds, todo, moved, dead, unannounced>>

ReadSleep(p) == Sleep(p, "wait_empty", "wait_sleep")

ReadReady(p) ==
  /\ ppc[p] = "wait" /\ (~Empty \/ ~writeopen)
  /\ ppc' = [ppc EXCEPT ![p] = "copy"]
  /\ UNCHANGED <<pipe, lock, holds, todo, moved, dead, unannounced>>

PopByte == nread' = (nread + 1) % UintMod

ReadByte(p) ==
  /\ ppc[p] = "copy" /\ moved[p] < todo[p] /\ ~Empty
  /\ PopByte
  /\ moved' = [moved EXCEPT ![p] = @ + 1]
  /\ UNCHANGED <<data, nwrite, readopen, writeopen, freed, lock, holds, ppc, todo, dead, unannounced>>

\* copyout fails: the byte has left the pipe.
ReadBadAddr(p) ==
  /\ ppc[p] = "copy" /\ moved[p] < todo[p] /\ ~Empty
  /\ PopByte
  /\ Return(p, WakeWriters(ppc))
  /\ UNCHANGED <<data, nwrite, readopen, writeopen, freed, holds, dead, unannounced>>

ReadDone(p) ==
  /\ ppc[p] = "copy"
  /\ moved[p] = todo[p] \/ Empty
  /\ Return(p, WakeWriters(ppc))
  /\ UNCHANGED <<pipe, holds, dead, unannounced>>

-----------------------------------------------------------------------------
LastRef(p, end) == \A q \in PipeProc \ {p} : end \notin holds[q]

CloseLabel(end) == IF end = "r" THEN "close_r" ELSE "close_w"

\* fileclose, by close() or by exit(): the last reference closes the end.
FileClose(p, end) ==
  /\ ppc[p] = "user" /\ end \in holds[p]
  /\ holds' = [holds EXCEPT ![p] = @ \ {end}]
  /\ ppc' = IF LastRef(p, end) THEN [ppc EXCEPT ![p] = CloseLabel(end)] ELSE ppc
  /\ UNCHANGED <<pipe, lock, todo, moved, dead, unannounced>>

WakeOtherEnd(end) == IF end = "w" THEN WakeReaders(ppc) ELSE WakeWriters(ppc)

PipeClose(p, end) ==
  /\ ppc[p] = CloseLabel(end) /\ lock = Nobody
  /\ writeopen' = (writeopen /\ end # "w")
  /\ readopen' = (readopen /\ end # "r")
  /\ freed' = (~readopen' /\ ~writeopen')
  /\ ppc' = [WakeOtherEnd(end) EXCEPT ![p] = "user"]
  /\ unannounced' = (unannounced /\ end # "w")
  /\ UNCHANGED <<data, nread, nwrite, lock, holds, todo, moved, dead>>

\* fork: the child's descriptors are filedup'ed.
PipeFork(p, q) ==
  /\ InUser(p) /\ ppc[q] = "user" /\ holds[q] = {} /\ holds[p] # {}
  /\ holds' = [holds EXCEPT ![q] = holds[p]]
  /\ dead' = [dead EXCEPT ![q] = FALSE]
  /\ UNCHANGED <<pipe, lock, ppc, todo, moved, unannounced>>

\* kill: a sleeping process is made runnable, one on its way to sleep is not stopped.
PipeKill(p) ==
  /\ holds[p] # {} /\ ~dead[p]
  /\ dead' = [dead EXCEPT ![p] = TRUE]
  /\ ppc' = [ppc EXCEPT ![p] = CASE @ = "wait_sleep" -> "wait_lock"
                                 [] @ = "write_sleep" -> "write_lock"
                                 [] OTHER -> @]
  /\ UNCHANGED <<pipe, lock, holds, todo, moved, unannounced>>

\* The steps of a call that has begun.
PipeStep(p) ==
  \/ WriteFails(p) \/ WriteWait(p) \/ WriteSleep(p) \/ WriteDone(p) \/ (\E b \in Byte : WriteByte(p, b))
  \/ ReadKilled(p) \/ ReadWait(p) \/ ReadSleep(p) \/ ReadReady(p)
  \/ ReadByte(p) \/ ReadBadAddr(p) \/ ReadDone(p)

PipeRelock(p) == WriteWoken(p) \/ ReadWoken(p)

PipeClosing(p) == \E end \in Ends : PipeClose(p, end)

PipeNext ==
  \E p \in PipeProc :
    \/ \E n \in Counts : WriteCall(p, n) \/ ReadCall(p, n)
    \/ PipeStep(p) \/ PipeRelock(p) \/ PipeClosing(p)
    \/ \E end \in Ends : FileClose(p, end)
    \/ \E q \in PipeProc \ {p} : PipeFork(p, q)
    \/ PipeKill(p)

-----------------------------------------------------------------------------
Held == (nwrite - nread) % UintMod

Contents == [i \in 1 .. Held |-> data[(nread + i - 1) % PIPESIZE]]

Stream ==
  INSTANCE Fifo WITH Item <- Byte, Capacity <- PIPESIZE, queue <- Contents

\* read() returns no bytes for lack of data only at the end of file, however
\* many readers race for what a writer put in.
EofIsReal ==
  [][\A p \in PipeProc : ReadDone(p) /\ moved[p] = 0 => ~writeopen]_pipeVars

\* The ring buffer is a queue of PIPESIZE bytes: bytes leave in the order they
\* entered, none is lost or overwritten when the counters wrap, and nothing
\* enters once an end is closed.
PipeIsFifo == Stream!Spec /\ EofIsReal

\* The pipe's page is freed only when no process can reach it: none has an end
\* open, is inside a call, or sleeps on it.
FreedUnreachable ==
  freed => /\ lock = Nobody
           /\ \A p \in PipeProc : holds[p] = {} /\ ppc[p] = "user"

\* No lost wakeup: while nobody has the lock, a writer sleeps only on a full pipe
\* that can be read, a reader only on an empty one that can still be written.
\* The one exception: pipewrite returns -1 without wakeup(&pi->nread) when its
\* process is killed after it has put bytes in the pipe.  A sleeper may itself have
\* been killed, between killed() and sleep(): it then waits for the other end like
\* any other.
SleepersJustified ==
  lock = Nobody =>
    \A p \in PipeProc :
      /\ ppc[p] = "wait_sleep" => writeopen /\ (Empty \/ unannounced)
      /\ ppc[p] = "write_sleep" => Full /\ readopen

\* The pipe outlives its users and leaves none of them asleep without a reason in
\* the pipe, through closes and kills at any point of a read or write.
PipeSafe == PipeTypeOK /\ FreedUnreachable /\ SleepersJustified
=============================================================================
