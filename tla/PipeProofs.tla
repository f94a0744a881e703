----------------------------- MODULE PipeProofs -----------------------------
(***************************************************************************)
(* Proofs about Pipe, for any number of processes, any buffer and counter  *)
(* size and any bytes: PipeSafe, that read() reports the end of file only  *)
(* when it has been reached, and that the ring buffer is a queue.          *)
(***************************************************************************)
EXTENDS Pipe, TLAPS

Labels == {"user", "write", "write_full", "write_sleep", "write_lock",
           "wait", "wait_empty", "wait_sleep", "wait_lock", "copy", "close_r", "close_w"}
UnderLock  == {"write", "write_full", "wait", "wait_empty", "copy"}
WriteCalls == {"write", "write_full", "write_sleep", "write_lock"}
ReadCalls  == {"wait", "wait_empty", "wait_sleep", "wait_lock", "copy"}

\* A process is between its acquire and its release of pi->lock exactly while it
\* is the lock's holder.
LockHeld == \A p \in PipeProc : ppc[p] \in UnderLock <=> lock = p

\* A call in progress has a descriptor of its own, and bytes still to move or moved.
CallOf(p) ==
  /\ ppc[p] \in WriteCalls => "w" \in holds[p] /\ todo[p] \in Counts
  /\ ppc[p] \in ReadCalls => "r" \in holds[p] /\ todo[p] \in Counts
  /\ ppc[p] \notin WriteCalls \cup ReadCalls => todo[p] = 0

Calls == \A p \in PipeProc : CallOf(p)

\* An end is open while a process holds it, or is about to close it for all.
EndsOpen ==
  /\ \A p \in PipeProc : ("r" \in holds[p] => readopen) /\ ("w" \in holds[p] => writeopen)
  /\ \A p \in PipeProc : ppc[p] = "close_r" =>
       readopen /\ \A q \in PipeProc : "r" \notin holds[q] /\ (ppc[q] = "close_r" => q = p)
  /\ \A p \in PipeProc : ppc[p] = "close_w" =>
       writeopen /\ \A q \in PipeProc : "w" \notin holds[q] /\ (ppc[q] = "close_w" => q = p)
  /\ freed = (~readopen /\ ~writeopen)

\* A writer sleeps on a full pipe, or a reader is about to wake it.
WritersWait ==
  \A p \in PipeProc : ppc[p] = "write_sleep" =>
    readopen /\ (Full \/ \E q \in PipeProc : ppc[q] = "copy")

\* A reader sleeps on an empty pipe, or a writer is about to wake it or was killed.
ReadersWait ==
  \A p \in PipeProc : ppc[p] = "wait_sleep" =>
    writeopen /\ (Empty \/ unannounced \/ \E q \in PipeProc : ppc[q] = "write" /\ moved[q] > 0)

\* A reader that has moved nothing yet has something to move, or the pipe is closed.
CopyHasData ==
  \A p \in PipeProc : ppc[p] = "copy" /\ moved[p] = 0 => ~Empty \/ ~writeopen

\* What made a process decide to sleep still holds: it has the lock.
AboutToSleep ==
  \A p \in PipeProc : /\ ppc[p] = "write_full" => readopen /\ Full
                      /\ ppc[p] = "wait_empty" => writeopen /\ Empty

PInv ==
  /\ PipeTypeOK /\ LockHeld /\ Calls /\ EndsOpen
  /\ WritersWait /\ ReadersWait /\ CopyHasData /\ AboutToSleep

-----------------------------------------------------------------------------
\* What a step of p may do to another process: wake it.
Woken(q) ==
  \/ ppc'[q] = ppc[q]
  \/ ppc[q] = "wait_sleep" /\ ppc'[q] = "wait_lock"
  \/ ppc[q] = "write_sleep" /\ ppc'[q] = "write_lock"

\* The other processes keep their calls and descriptors.
Others(p) ==
  \A q \in PipeProc : q # p =>
    Woken(q) /\ todo'[q] = todo[q] /\ moved'[q] = moved[q] /\ holds'[q] = holds[q]

\* The types, for the steps that follow.
LEMMA PipeTypes ==
  ASSUME PInv
  PROVE  /\ data \in [0 .. PIPESIZE - 1 -> Byte]
         /\ nread \in Nat /\ nread < UintMod /\ nwrite \in Nat /\ nwrite < UintMod
         /\ readopen \in BOOLEAN /\ writeopen \in BOOLEAN /\ freed \in BOOLEAN
         /\ lock \in PipeProc \cup {Nobody} /\ Nobody \notin PipeProc
         /\ holds \in [PipeProc -> SUBSET Ends]
         /\ ppc \in [PipeProc -> Labels]
         /\ todo \in [PipeProc -> Counts \cup {0}]
         /\ moved \in [PipeProc -> Nat] /\ \A p \in PipeProc : moved[p] <= todo[p]
         /\ dead \in [PipeProc -> BOOLEAN] /\ unannounced \in BOOLEAN
         /\ Counts \subseteq Nat \ {0} /\ PIPESIZE \in Nat \ {0} /\ UintMod \in Nat \ {0}
<1>1. PipeTypeOK BY Zenon DEF PInv
<1>2. nread \in Nat /\ nread < UintMod /\ nwrite \in Nat /\ nwrite < UintMod
  BY <1>1, PipeAssumption DEF PipeTypeOK
<1>3. UintMod \in Nat \ {0} BY PipeAssumption
<1> QED BY Zenon, <1>1, <1>2, <1>3, PipeAssumption DEF PipeTypeOK, Labels

\* The pipe that pipe() returns satisfies the invariant.
LEMMA PipeStart == PipeInit => PInv
<1> SUFFICES ASSUME PipeInit PROVE PInv OBVIOUS
<1>1. PipeTypeOK
  <2>1. nread \in 0 .. UintMod - 1 /\ nwrite \in 0 .. UintMod - 1
    BY PipeAssumption DEF PipeInit
  <2>2. todo \in [PipeProc -> Counts \cup {0}] /\ holds \in [PipeProc -> SUBSET Ends]
    BY DEF PipeInit, Ends
  <2>3. moved \in [PipeProc -> Nat] /\ \A p \in PipeProc : moved[p] <= todo[p]
    BY DEF PipeInit
  <2>4. data \in [0 .. PIPESIZE - 1 -> Byte] BY Zenon DEF PipeInit
  <2> QED BY Zenon, <2>1, <2>2, <2>3, <2>4 DEF PipeInit, PipeTypeOK
<1>2. LockHeld BY Zenon, PipeAssumption DEF PipeInit, LockHeld, UnderLock
<1>3. Calls BY Zenon DEF PipeInit, Calls, CallOf, WriteCalls, ReadCalls
<1>4. EndsOpen BY Zenon DEF PipeInit, EndsOpen
<1>5. WritersWait /\ ReadersWait /\ CopyHasData /\ AboutToSleep
  BY Zenon DEF PipeInit, WritersWait, ReadersWait, CopyHasData, AboutToSleep
<1> QED BY Zenon, <1>1, <1>2, <1>3, <1>4, <1>5 DEF PInv

\* The lock changes hands with the control point of the process that steps.
LEMMA LockStep ==
  ASSUME PInv, NEW p \in PipeProc, Others(p),
         \/ lock' = p /\ lock \in {p, Nobody} /\ ppc'[p] \in UnderLock
         \/ lock' = Nobody /\ lock = p /\ ppc'[p] \notin UnderLock
         \/ lock' = lock /\ (ppc'[p] \in UnderLock <=> ppc[p] \in UnderLock)
  PROVE  LockHeld'
<1>1. \A q \in PipeProc : q # p => (ppc'[q] \in UnderLock <=> ppc[q] \in UnderLock)
  BY Zenon DEF Others, Woken, UnderLock
<1>2. \A q \in PipeProc : ppc[q] \in UnderLock <=> lock = q BY Zenon DEF PInv, LockHeld
<1>3. SUFFICES ASSUME NEW q \in PipeProc PROVE ppc'[q] \in UnderLock <=> lock' = q
  BY Zenon DEF LockHeld
<1>4. Nobody # q BY PipeAssumption
<1>5. CASE q = p BY Zenon, <1>2, <1>4, <1>5
<1>6. CASE q # p BY Zenon, <1>1, <1>2, <1>4, <1>6
<1> QED BY Zenon, <1>5, <1>6

\* Only the call of the process that steps has to be looked at.
LEMMA CallStep ==
  ASSUME PInv, NEW p \in PipeProc, Others(p), CallOf(p)'
  PROVE  Calls'
<1>1. SUFFICES ASSUME NEW q \in PipeProc, q # p PROVE CallOf(q)' BY Zenon DEF Calls
<1>2. CallOf(q) BY Zenon DEF PInv, Calls
<1>3. /\ ppc'[q] \in WriteCalls <=> ppc[q] \in WriteCalls
      /\ ppc'[q] \in ReadCalls <=> ppc[q] \in ReadCalls
  BY Zenon, <1>1 DEF Others, Woken, WriteCalls, ReadCalls
<1>4. todo'[q] = todo[q] /\ holds'[q] = holds[q] BY Zenon, <1>1 DEF Others
<1> QED BY Zenon, <1>2, <1>3, <1>4 DEF CallOf

\* The ends stay as they are in a step that neither closes nor shares one.
LEMMA EndsStep ==
  ASSUME PInv, NEW p \in PipeProc, Others(p), holds' = holds,
         UNCHANGED <<readopen, writeopen, freed>>,
         ppc[p] \notin {"close_r", "close_w"}, ppc'[p] \notin {"close_r", "close_w"}
  PROVE  EndsOpen'
<1>1. \A q \in PipeProc : /\ ppc'[q] = "close_r" <=> ppc[q] = "close_r"
                          /\ ppc'[q] = "close_w" <=> ppc[q] = "close_w"
  BY Zenon DEF Others, Woken
<1>2. EndsOpen BY Zenon DEF PInv
<1> QED BY Zenon, <1>1, <1>2 DEF EndsOpen

\* With the lock held by p, no other process is between acquire and release.
LEMMA AloneUnderLock ==
  ASSUME PInv, NEW p \in PipeProc, ppc[p] \in UnderLock, NEW q \in PipeProc, q # p
  PROVE  ppc[q] \notin UnderLock
  BY Zenon DEF PInv, LockHeld

\* A step that moves p, after waking nobody, the readers or the writers.
LEMMA Moves ==
  ASSUME PInv, NEW p \in PipeProc, NEW l \in Labels, NEW f,
         f = ppc \/ f = WakeReaders(ppc) \/ f = WakeWriters(ppc), ppc' = [f EXCEPT ![p] = l]
  PROVE  /\ ppc' \in [PipeProc -> Labels] /\ ppc'[p] = l
         /\ \A q \in PipeProc : q # p => Woken(q)
         /\ f = WakeReaders(ppc) => \A q \in PipeProc : q # p => ppc'[q] # "wait_sleep"
         /\ f = WakeWriters(ppc) => \A q \in PipeProc : q # p => ppc'[q] # "write_sleep"
<1>1. ppc \in [PipeProc -> Labels] BY Zenon, PipeTypes
<1>2. "wait_lock" \in Labels /\ "write_lock" \in Labels BY Zenon DEF Labels
<1>3. f \in [PipeProc -> Labels] BY Zenon, <1>1, <1>2 DEF WakeReaders, WakeWriters
<1>4. ppc' \in [PipeProc -> Labels] /\ ppc'[p] = l /\ \A q \in PipeProc : q # p => ppc'[q] = f[q]
  BY Zenon, <1>3
<1>5. ASSUME NEW q \in PipeProc, q # p
      PROVE  /\ Woken(q)
             /\ f = WakeReaders(ppc) => ppc'[q] # "wait_sleep"
             /\ f = WakeWriters(ppc) => ppc'[q] # "write_sleep"
  <2>1. WakeReaders(ppc)[q] = IF ppc[q] = "wait_sleep" THEN "wait_lock" ELSE ppc[q]
    BY Zenon DEF WakeReaders
  <2>2. WakeWriters(ppc)[q] = IF ppc[q] = "write_sleep" THEN "write_lock" ELSE ppc[q]
    BY Zenon DEF WakeWriters
  <2>3. ppc'[q] = f[q] BY Zenon, <1>4, <1>5
  <2> QED BY SMT, <2>1, <2>2, <2>3 DEF Woken
<1> QED BY Zenon, <1>4, <1>5

\* A call returns, having woken nobody, the readers or the writers.
LEMMA Returns ==
  ASSUME PInv, NEW p \in PipeProc, NEW f, Return(p, f), holds' = holds, ppc[p] \in UnderLock,
         f = ppc \/ f = WakeReaders(ppc) \/ f = WakeWriters(ppc),
         UNCHANGED <<readopen, writeopen, freed, dead>>, unannounced' \in BOOLEAN,
         data' = data, nread' \in 0 .. UintMod - 1, nwrite' = nwrite
  PROVE  /\ PipeTypeOK' /\ LockHeld' /\ Calls' /\ EndsOpen'
         /\ ppc' = [f EXCEPT ![p] = "user"] /\ ppc'[p] = "user" /\ Others(p)
<1>1. /\ ppc' = [f EXCEPT ![p] = "user"] /\ lock' = Nobody
      /\ todo' = [todo EXCEPT ![p] = 0] /\ moved' = [moved EXCEPT ![p] = 0]
  BY Zenon DEF Return
<1>2. "user" \in Labels BY Zenon DEF Labels
<1>3. ppc' \in [PipeProc -> Labels] /\ ppc'[p] = "user" /\ \A q \in PipeProc : q # p => Woken(q)
  BY Zenon, <1>1, <1>2, Moves
<1>4. /\ todo' \in [PipeProc -> Counts \cup {0}] /\ todo'[p] = 0 /\ moved'[p] = 0
      /\ moved' \in [PipeProc -> Nat]
      /\ \A q \in PipeProc : q # p => todo'[q] = todo[q] /\ moved'[q] = moved[q]
  BY <1>1, PipeTypes
<1>5. Others(p) BY Zenon, <1>3, <1>4 DEF Others
<1>6. LockHeld'
  <2>1. lock = p BY Zenon DEF PInv, LockHeld
  <2>2. "user" \notin UnderLock BY Zenon DEF UnderLock
  <2> QED BY Zenon, <1>1, <1>3, <1>5, <2>1, <2>2, LockStep
<1>7. CallOf(p)' BY Zenon, <1>3, <1>4 DEF CallOf, WriteCalls, ReadCalls
<1>8. EndsOpen'
  <2>1. ppc[p] \notin {"close_r", "close_w"} BY Zenon DEF UnderLock
  <2> QED BY Zenon, <1>3, <1>5, <2>1, EndsStep
<1>9. PipeTypeOK'
  <2>1. \A q \in PipeProc : moved'[q] <= todo'[q] BY <1>4, PipeTypes
  <2>2. nwrite' \in 0 .. UintMod - 1 BY Zenon DEF PInv, PipeTypeOK
  <2> QED BY Zenon, <1>1, <1>3, <1>4, <2>1, <2>2, PipeTypes DEF PipeTypeOK, Labels
<1> QED BY Zenon, <1>1, <1>3, <1>5, <1>6, <1>7, <1>8, <1>9, CallStep

\* A step that keeps the buffer, the ends, the descriptors and the call's counts.
LEMMA Relabels ==
  ASSUME PInv, NEW p \in PipeProc, NEW l \in Labels, NEW f,
         f = ppc \/ f = WakeReaders(ppc), ppc' = [f EXCEPT ![p] = l],
         UNCHANGED <<pipe, holds, moved, dead>>, unannounced' \in BOOLEAN,
         \/ todo' = todo
         \/ \E n \in Counts : todo' = [todo EXCEPT ![p] = n] /\ todo[p] = 0,
         \/ lock' = p /\ lock \in {p, Nobody} /\ l \in UnderLock
         \/ lock' = Nobody /\ lock = p /\ l \notin UnderLock,
         ppc[p] \notin {"close_r", "close_w"}, l \notin {"close_r", "close_w"},
         CallOf(p)'
  PROVE  PipeTypeOK' /\ LockHeld' /\ Calls' /\ EndsOpen' /\ ppc'[p] = l /\ Others(p)
<1>1. ppc' \in [PipeProc -> Labels] /\ ppc'[p] = l /\ \A q \in PipeProc : q # p => Woken(q)
  BY Zenon, Moves
<1>2. /\ todo' \in [PipeProc -> Counts \cup {0}]
      /\ \A q \in PipeProc : q # p => todo'[q] = todo[q]
  BY Zenon, PipeTypes
<1>3. \A q \in PipeProc : moved'[q] <= todo'[q]
  <2>1. CASE todo' = todo BY Zenon, <2>1, PipeTypes
  <2>2. CASE \E n \in Counts : todo' = [todo EXCEPT ![p] = n] /\ todo[p] = 0
    <3>1. PICK n \in Counts : todo' = [todo EXCEPT ![p] = n] /\ todo[p] = 0 BY Zenon, <2>2
    <3>2. moved[p] = 0 /\ todo'[p] = n /\ n >= 0 BY <3>1, PipeTypes
    <3>3. \A q \in PipeProc : q # p => todo'[q] = todo[q] BY Zenon, <1>2
    <3> QED BY <3>2, <3>3, PipeTypes
  <2> QED BY Zenon, <2>1, <2>2
<1>4. Others(p) BY Zenon, <1>1, <1>2 DEF Others
<1>5. LockHeld' BY Zenon, <1>1, <1>4, LockStep
<1>6. EndsOpen' BY Zenon, <1>1, <1>4, EndsStep DEF pipe
<1>7. PipeTypeOK'
  <2>1. /\ data' \in [0 .. PIPESIZE - 1 -> Byte]
        /\ nread' \in 0 .. UintMod - 1 /\ nwrite' \in 0 .. UintMod - 1
        /\ readopen' \in BOOLEAN /\ writeopen' \in BOOLEAN /\ freed' \in BOOLEAN
    BY Zenon DEF PInv, PipeTypeOK, pipe
  <2>2. lock' \in PipeProc \cup {Nobody} BY Zenon
  <2> QED BY Zenon, <1>1, <1>2, <1>3, <2>1, <2>2, PipeTypes DEF PipeTypeOK, Labels
<1> QED BY Zenon, <1>1, <1>4, <1>5, <1>6, <1>7, CallStep

\* The lock is free: no process is between acquire and release.
LEMMA Unlocked ==
  ASSUME PInv, lock = Nobody
  PROVE  \A q \in PipeProc : ppc[q] \notin UnderLock
  BY Zenon, PipeAssumption DEF PInv, LockHeld

\* A step that leaves the counters and the ends alone keeps every sleeper justified
\* if it wakes those it would leave behind.
LEMMA WaitStep ==
  ASSUME PInv, NEW p \in PipeProc, UNCHANGED <<nread, nwrite, readopen, writeopen>>,
         \A q \in PipeProc : q # p => Woken(q) /\ moved'[q] = moved[q],
         ppc'[p] = "write_sleep" => readopen /\ Full,
         ppc'[p] = "wait_sleep" => writeopen /\ Empty,
         ppc[p] = "copy" => ppc'[p] = "copy" \/ \A q \in PipeProc : q # p => ppc'[q] # "write_sleep",
         \/ unannounced' = unannounced /\ ~(ppc[p] = "write" /\ moved[p] > 0)
         \/ unannounced'
         \/ \A q \in PipeProc : q # p => ppc'[q] # "wait_sleep",
         ppc'[p] = "copy" /\ moved'[p] = 0 => ~Empty \/ ~writeopen
  PROVE  WritersWait' /\ ReadersWait' /\ CopyHasData'
<1>1. (Full' <=> Full) /\ (Empty' <=> Empty) BY Zenon DEF Full, Empty
<1>2. WritersWait'
  <2>1. SUFFICES ASSUME NEW q \in PipeProc, q # p, ppc'[q] = "write_sleep"
                 PROVE  readopen /\ (Full \/ \E r \in PipeProc : ppc'[r] = "copy")
    BY Zenon, <1>1 DEF WritersWait
  <2>2. ppc[q] = "write_sleep" BY Zenon, <2>1 DEF Woken
  <2>3. readopen /\ (Full \/ \E r \in PipeProc : ppc[r] = "copy")
    BY Zenon, <2>2 DEF PInv, WritersWait
  <2>4. ASSUME NEW r \in PipeProc, ppc[r] = "copy" PROVE ppc'[r] = "copy"
    <3>1. CASE r = p BY Zenon, <2>1, <2>4, <3>1
    <3>2. CASE r # p BY Zenon, <2>4, <3>2 DEF Woken
    <3> QED BY Zenon, <3>1, <3>2
  <2> QED BY Zenon, <2>3, <2>4
<1>3. ReadersWait'
  <2>1. SUFFICES ASSUME NEW q \in PipeProc, q # p, ppc'[q] = "wait_sleep"
                 PROVE  writeopen /\ (Empty \/ unannounced'
                          \/ \E r \in PipeProc : ppc'[r] = "write" /\ moved'[r] > 0)
    BY Zenon, <1>1 DEF ReadersWait
  <2>2. ppc[q] = "wait_sleep" BY Zenon, <2>1 DEF Woken
  <2>3. writeopen /\ (Empty \/ unannounced \/ \E r \in PipeProc : ppc[r] = "write" /\ moved[r] > 0)
    BY Zenon, <2>2 DEF PInv, ReadersWait
  <2>4. ASSUME NEW r \in PipeProc, ppc[r] = "write" /\ moved[r] > 0
        PROVE  unannounced' \/ (ppc'[r] = "write" /\ moved'[r] > 0)
    <3>1. CASE r = p BY Zenon, <2>1, <2>4, <3>1
    <3>2. CASE r # p BY Zenon, <2>4, <3>2 DEF Woken
    <3> QED BY Zenon, <3>1, <3>2
  <2> QED BY Zenon, <2>1, <2>3, <2>4
<1>4. CopyHasData'
  <2>1. SUFFICES ASSUME NEW q \in PipeProc, q # p, ppc'[q] = "copy" /\ moved'[q] = 0
                 PROVE  ~Empty \/ ~writeopen
    BY Zenon, <1>1 DEF CopyHasData
  <2>2. ppc[q] = "copy" /\ moved[q] = 0 BY Zenon, <2>1 DEF Woken
  <2> QED BY Zenon, <2>2 DEF PInv, CopyHasData
<1> QED BY Zenon, <1>2, <1>3, <1>4

\* Only the process that has the lock, or finds it free, disturbs what the others
\* were about to sleep on.
LEMMA AboutStep ==
  ASSUME PInv, NEW p \in PipeProc, \A q \in PipeProc : q # p => Woken(q),
         UNCHANGED <<nread, nwrite, readopen, writeopen>> \/ ppc[p] \in UnderLock \/ lock = Nobody,
         ppc'[p] \in {"write_full", "wait_empty"} =>
           /\ UNCHANGED <<nread, nwrite, readopen, writeopen>>
           /\ ppc'[p] = "write_full" => readopen /\ Full
           /\ ppc'[p] = "wait_empty" => writeopen /\ Empty
  PROVE  AboutToSleep'
<1>1. ASSUME UNCHANGED <<nread, nwrite, readopen, writeopen>>
      PROVE  (Full' <=> Full) /\ (Empty' <=> Empty)
  BY Zenon, <1>1 DEF Full, Empty
<1>2. SUFFICES ASSUME NEW q \in PipeProc
               PROVE  /\ ppc'[q] = "write_full" => readopen' /\ Full'
                      /\ ppc'[q] = "wait_empty" => writeopen' /\ Empty'
  BY Zenon DEF AboutToSleep
<1>3. CASE q = p
  <2>1. CASE ppc'[p] \notin {"write_full", "wait_empty"} BY Zenon, <1>3, <2>1
  <2>2. CASE ppc'[p] \in {"write_full", "wait_empty"}
    <3>1. UNCHANGED <<nread, nwrite, readopen, writeopen>> BY Zenon, <2>2
    <3>2. readopen' = readopen /\ writeopen' = writeopen BY Zenon, <3>1
    <3>3. (Full' <=> Full) /\ (Empty' <=> Empty) BY Zenon, <1>1, <3>1
    <3>4. /\ ppc'[p] = "write_full" => readopen /\ Full
          /\ ppc'[p] = "wait_empty" => writeopen /\ Empty
      BY Zenon, <2>2
    <3> QED BY Zenon, <1>3, <3>2, <3>3, <3>4
  <2> QED BY Zenon, <2>1, <2>2
<1>4. CASE q # p
  <2>1. /\ ppc'[q] = "write_full" => ppc[q] = "write_full"
        /\ ppc'[q] = "wait_empty" => ppc[q] = "wait_empty"
    BY Zenon, <1>4 DEF Woken
  <2>2. CASE UNCHANGED <<nread, nwrite, readopen, writeopen>>
    BY Zenon, <1>1, <2>1, <2>2 DEF PInv, AboutToSleep
  <2>3. CASE ppc[p] \in UnderLock BY Zenon, <1>4, <2>1, <2>3, AloneUnderLock DEF UnderLock
  <2>4. CASE lock = Nobody BY Zenon, <2>1, <2>4, Unlocked DEF UnderLock
  <2> QED BY Zenon, <2>2, <2>3, <2>4
<1> QED BY Zenon, <1>3, <1>4

-----------------------------------------------------------------------------
\* pipewrite and piperead take the lock, in a new call.
LEMMA CallInv ==
  ASSUME PInv, NEW p \in PipeProc, NEW n \in Counts,
         Call(p, "w", "write", n) \/ Call(p, "r", "wait", n)
  PROVE  PInv'
<1>1. PICK e \in Ends, l \in {"write", "wait"} : Call(p, e, l, n) /\ (e = "w" <=> l = "write")
  BY Zenon DEF Ends
<1>2. /\ ppc[p] = "user" /\ e \in holds[p] /\ lock = Nobody /\ lock' = p
      /\ ppc' = [ppc EXCEPT ![p] = l] /\ todo' = [todo EXCEPT ![p] = n]
      /\ UNCHANGED <<pipe, holds, moved, dead, unannounced>>
  BY Zenon, <1>1 DEF Call, InUser
<1>3. todo[p] = 0 /\ todo'[p] = n /\ ppc'[p] = l
  BY Zenon, <1>2, PipeTypes DEF PInv, Calls, CallOf, WriteCalls, ReadCalls
<1>4. CallOf(p)'
  BY SMT, <1>1, <1>2, <1>3 DEF CallOf, WriteCalls, ReadCalls, Ends
<1>5. /\ l \in Labels /\ l \in UnderLock /\ l \notin {"close_r", "close_w"}
      /\ ppc[p] \notin {"close_r", "close_w"}
  BY Zenon, <1>1, <1>2 DEF Labels, UnderLock
<1>6. PipeTypeOK' /\ LockHeld' /\ Calls' /\ EndsOpen' /\ Others(p)
  BY Zenon, <1>2, <1>3, <1>4, <1>5, PipeTypes, Relabels
<1>7. WritersWait' /\ ReadersWait' /\ CopyHasData'
  <2>1. l # "write_sleep" /\ l # "wait_sleep" /\ l # "copy" BY Zenon, <1>1
  <2> QED BY Zenon, <1>2, <1>3, <1>6, <2>1, WaitStep DEF Others, pipe
<1>8. AboutToSleep'
  <2>1. l \notin {"write_full", "wait_empty"} BY Zenon, <1>1
  <2> QED BY Zenon, <1>2, <1>3, <1>6, <2>1, AboutStep DEF Others, pipe
<1> QED BY Zenon, <1>6, <1>7, <1>8 DEF PInv

\* A woken process takes the lock again.
LEMMA RelockInv ==
  ASSUME PInv, NEW p \in PipeProc, WriteWoken(p) \/ ReadWoken(p)
  PROVE  PInv'
<1>1. PICK l \in {"write", "wait"} :
        /\ ppc[p] = (IF l = "write" THEN "write_lock" ELSE "wait_lock") /\ lock = Nobody
        /\ lock' = p /\ ppc' = [ppc EXCEPT ![p] = l]
        /\ UNCHANGED <<pipe, holds, todo, moved, dead, unannounced>>
  BY SMT DEF WriteWoken, ReadWoken, Relock
<1>2. ppc'[p] = l BY Zenon, <1>1, PipeTypes
<1>3. CallOf(p)
  BY Zenon DEF PInv, Calls
<1>4. CallOf(p)'
  BY SMT, <1>1, <1>2, <1>3 DEF CallOf, WriteCalls, ReadCalls
<1>5. /\ l \in Labels /\ l \in UnderLock /\ l \notin {"close_r", "close_w"}
      /\ ppc[p] \notin {"close_r", "close_w", "copy", "write"}
  BY SMT, <1>1 DEF Labels, UnderLock
<1>6. PipeTypeOK' /\ LockHeld' /\ Calls' /\ EndsOpen' /\ Others(p)
  BY Zenon, <1>1, <1>2, <1>4, <1>5, PipeTypes, Relabels
<1>7. WritersWait' /\ ReadersWait' /\ CopyHasData'
  <2>1. l # "write_sleep" /\ l # "wait_sleep" /\ l # "copy" BY Zenon, <1>1
  <2> QED BY Zenon, <1>1, <1>2, <1>5, <1>6, <2>1, WaitStep DEF Others, pipe
<1>8. AboutToSleep'
  <2>1. l \notin {"write_full", "wait_empty"} BY Zenon, <1>1
  <2> QED BY Zenon, <1>1, <1>2, <1>6, <2>1, AboutStep DEF Others, pipe
<1> QED BY Zenon, <1>6, <1>7, <1>8 DEF PInv

\* pipewrite returns -1: the read end is closed or the process killed.
LEMMA WriteFailsInv ==
  ASSUME PInv, NEW p \in PipeProc, WriteFails(p)
  PROVE  PInv'
<1>1. /\ ppc[p] = "write" /\ Return(p, ppc) /\ unannounced' = (unannounced \/ moved[p] > 0)
      /\ UNCHANGED <<pipe, holds, dead>>
  BY Zenon DEF WriteFails, Writing
<1>2. unannounced' \in BOOLEAN /\ nread' \in 0 .. UintMod - 1 /\ ppc[p] \in UnderLock
  BY Zenon, <1>1 DEF PInv, PipeTypeOK, pipe, UnderLock
<1>3. /\ PipeTypeOK' /\ LockHeld' /\ Calls' /\ EndsOpen'
      /\ ppc'[p] = "user" /\ Others(p)
  BY Zenon, <1>1, <1>2, Returns DEF pipe
<1>4. WritersWait' /\ ReadersWait' /\ CopyHasData'
  <2>1. (unannounced' = unannounced /\ ~(moved[p] > 0)) \/ unannounced'
    BY Zenon, <1>1, PipeTypes
  <2> QED BY Zenon, <1>1, <1>3, <2>1, WaitStep DEF Others, pipe
<1>5. AboutToSleep' BY Zenon, <1>1, <1>3, AboutStep DEF Others, pipe
<1> QED BY Zenon, <1>3, <1>4, <1>5 DEF PInv

\* pipewrite wakes the readers and is about to sleep on a full pipe.
LEMMA WriteWaitInv ==
  ASSUME PInv, NEW p \in PipeProc, WriteWait(p)
  PROVE  PInv'
<1> DEFINE l == "write_full"
<1>1. /\ ppc[p] = "write" /\ readopen /\ Full /\ unannounced' = FALSE /\ lock' = lock
      /\ ppc' = [WakeReaders(ppc) EXCEPT ![p] = l] /\ UNCHANGED <<pipe, holds, todo, moved, dead>>
  BY Zenon DEF WriteWait, Writing, FullWait
<1>2. l \in Labels /\ l \in UnderLock /\ l \in WriteCalls /\ l \notin ReadCalls
  BY Zenon DEF Labels, UnderLock, WriteCalls, ReadCalls
<1>3. lock = p /\ ppc[p] \in WriteCalls BY Zenon, <1>1 DEF PInv, LockHeld, UnderLock, WriteCalls
<1>4. ppc'[p] = l /\ \A q \in PipeProc : q # p => ppc'[q] # "wait_sleep"
  BY Zenon, <1>1, <1>2, Moves
<1>5. CallOf(p)'
  <2>1. CallOf(p) BY Zenon DEF PInv, Calls
  <2> QED BY Zenon, <1>1, <1>2, <1>3, <1>4, <2>1 DEF CallOf
<1>6. PipeTypeOK' /\ LockHeld' /\ Calls' /\ EndsOpen' /\ Others(p)
  BY Zenon, <1>1, <1>2, <1>3, <1>5, Relabels
<1>7. WritersWait' /\ ReadersWait' /\ CopyHasData'
  BY Zenon, <1>1, <1>4, <1>6, WaitStep DEF Others, pipe
<1>8. AboutToSleep' BY Zenon, <1>1, <1>4, <1>6, AboutStep DEF Others, pipe
<1> QED BY Zenon, <1>6, <1>7, <1>8 DEF PInv

\* sleep(): nothing has changed since the process decided to sleep.
LEMMA SleepInv ==
  ASSUME PInv, NEW p \in PipeProc, WriteSleep(p) \/ ReadSleep(p)
  PROVE  PInv'
<1>1. PICK l \in {"write_sleep", "wait_sleep"} :
        /\ ppc' = [ppc EXCEPT ![p] = l] /\ lock' = Nobody
        /\ UNCHANGED <<pipe, holds, todo, moved, dead, unannounced>>
        /\ l = "write_sleep" => ppc[p] = "write_full"
        /\ l = "wait_sleep" => ppc[p] = "wait_empty"
  BY SMT DEF WriteSleep, ReadSleep, Sleep
<1>2. /\ l \in Labels /\ l \notin UnderLock /\ l \notin {"close_r", "close_w", "copy"}
      /\ ppc[p] \in UnderLock /\ ppc[p] \notin {"close_r", "close_w", "copy", "write"}
      /\ (l \in WriteCalls <=> ppc[p] \in WriteCalls) /\ (l \in ReadCalls <=> ppc[p] \in ReadCalls)
  BY Zenon, <1>1 DEF Labels, UnderLock, WriteCalls, ReadCalls
<1>3. lock = p BY Zenon, <1>2 DEF PInv, LockHeld
<1>4. ppc'[p] = l BY Zenon, <1>1, <1>2, PipeTypes
<1>5. CallOf(p)'
  <2>1. CallOf(p) BY Zenon DEF PInv, Calls
  <2> QED BY Zenon, <1>1, <1>2, <1>4, <2>1 DEF CallOf
<1>6. PipeTypeOK' /\ LockHeld' /\ Calls' /\ EndsOpen' /\ Others(p)
  <2>1. unannounced' \in BOOLEAN BY Zenon, <1>1, PipeTypes
  <2> QED BY Zenon, <1>1, <1>2, <1>3, <1>5, <2>1, Relabels
<1>7. WritersWait' /\ ReadersWait' /\ CopyHasData'
  <2>1. /\ ppc'[p] = "write_sleep" => readopen /\ Full
        /\ ppc'[p] = "wait_sleep" => writeopen /\ Empty
    BY Zenon, <1>1, <1>4 DEF PInv, AboutToSleep
  <2> QED BY Zenon, <1>1, <1>2, <1>4, <1>6, <2>1, WaitStep DEF Others, pipe
<1>8. AboutToSleep' BY Zenon, <1>1, <1>2, <1>4, <1>6, AboutStep DEF Others, pipe
<1> QED BY Zenon, <1>6, <1>7, <1>8 DEF PInv

\* pipewrite returns, having woken the readers.
LEMMA WriteDoneInv ==
  ASSUME PInv, NEW p \in PipeProc, WriteDone(p)
  PROVE  PInv'
<1>1. /\ ppc[p] = "write" /\ Return(p, WakeReaders(ppc)) /\ unannounced' = FALSE
      /\ UNCHANGED <<pipe, holds, dead>>
  BY Zenon DEF WriteDone
<1>2. unannounced' \in BOOLEAN /\ nread' \in 0 .. UintMod - 1 /\ ppc[p] \in UnderLock
  BY Zenon, <1>1 DEF PInv, PipeTypeOK, pipe, UnderLock
<1>3. /\ PipeTypeOK' /\ LockHeld' /\ Calls' /\ EndsOpen'
      /\ ppc' = [WakeReaders(ppc) EXCEPT ![p] = "user"] /\ ppc'[p] = "user" /\ Others(p)
  BY Zenon, <1>1, <1>2, Returns DEF pipe
<1>4. \A q \in PipeProc : q # p => ppc'[q] # "wait_sleep"
  <2>1. "user" \in Labels BY Zenon DEF Labels
  <2> QED BY Zenon, <1>3, <2>1, Moves
<1>5. WritersWait' /\ ReadersWait' /\ CopyHasData'
  BY Zenon, <1>1, <1>3, <1>4, WaitStep DEF Others, pipe
<1>6. AboutToSleep' BY Zenon, <1>1, <1>3, AboutStep DEF Others, pipe
<1> QED BY Zenon, <1>3, <1>5, <1>6 DEF PInv

\* piperead returns -1: the process was killed.
LEMMA ReadKilledInv ==
  ASSUME PInv, NEW p \in PipeProc, ReadKilled(p)
  PROVE  PInv'
<1>1. /\ ppc[p] = "wait" /\ Return(p, ppc) /\ UNCHANGED <<pipe, holds, dead, unannounced>>
  BY Zenon DEF ReadKilled
<1>2. unannounced' \in BOOLEAN /\ nread' \in 0 .. UintMod - 1 /\ ppc[p] \in UnderLock
  BY Zenon, <1>1 DEF PInv, PipeTypeOK, pipe, UnderLock
<1>3. /\ PipeTypeOK' /\ LockHeld' /\ Calls' /\ EndsOpen'
      /\ ppc'[p] = "user" /\ Others(p)
  BY Zenon, <1>1, <1>2, Returns DEF pipe
<1>4. WritersWait' /\ ReadersWait' /\ CopyHasData'
  BY Zenon, <1>1, <1>3, WaitStep DEF Others, pipe
<1>5. AboutToSleep' BY Zenon, <1>1, <1>3, AboutStep DEF Others, pipe
<1> QED BY Zenon, <1>3, <1>4, <1>5 DEF PInv

\* piperead returns, having woken the writers.
LEMMA ReadDoneInv ==
  ASSUME PInv, NEW p \in PipeProc, ReadDone(p)
  PROVE  PInv'
<1>1. /\ ppc[p] = "copy" /\ Return(p, WakeWriters(ppc))
      /\ UNCHANGED <<pipe, holds, dead, unannounced>>
  BY Zenon DEF ReadDone
<1>2. unannounced' \in BOOLEAN /\ nread' \in 0 .. UintMod - 1 /\ ppc[p] \in UnderLock
  BY Zenon, <1>1 DEF PInv, PipeTypeOK, pipe, UnderLock
<1>3. /\ PipeTypeOK' /\ LockHeld' /\ Calls' /\ EndsOpen'
      /\ ppc' = [WakeWriters(ppc) EXCEPT ![p] = "user"] /\ ppc'[p] = "user" /\ Others(p)
  BY Zenon, <1>1, <1>2, Returns DEF pipe
<1>4. \A q \in PipeProc : q # p => ppc'[q] # "write_sleep"
  <2>1. "user" \in Labels BY Zenon DEF Labels
  <2> QED BY Zenon, <1>3, <2>1, Moves
<1>5. WritersWait' /\ ReadersWait' /\ CopyHasData'
  BY Zenon, <1>1, <1>3, <1>4, WaitStep DEF Others, pipe
<1>6. AboutToSleep' BY Zenon, <1>1, <1>3, AboutStep DEF Others, pipe
<1> QED BY Zenon, <1>3, <1>5, <1>6 DEF PInv

\* piperead is about to sleep on an empty pipe, or goes on to copy.
LEMMA ReadWaitInv ==
  ASSUME PInv, NEW p \in PipeProc, ReadWait(p) \/ ReadReady(p)
  PROVE  PInv'
<1>1. PICK l \in {"wait_empty", "copy"} :
        /\ ppc[p] = "wait" /\ ppc' = [ppc EXCEPT ![p] = l]
        /\ UNCHANGED <<pipe, lock, holds, todo, moved, dead, unannounced>>
        /\ l = "wait_empty" => Empty /\ writeopen
        /\ l = "copy" => ~Empty \/ ~writeopen
  BY SMT DEF ReadWait, ReadReady
<1>2. /\ l \in Labels /\ l \in ReadCalls /\ l \notin WriteCalls /\ l \in UnderLock
      /\ l \notin {"close_r", "close_w", "write_sleep", "wait_sleep", "write_full"}
  BY Zenon, <1>1 DEF Labels, UnderLock, WriteCalls, ReadCalls
<1>3. lock = p /\ ppc[p] \in ReadCalls BY Zenon, <1>1 DEF PInv, LockHeld, UnderLock, ReadCalls
<1>4. ppc'[p] = l BY Zenon, <1>1, <1>2, PipeTypes
<1>5. CallOf(p)'
  <2>1. CallOf(p) BY Zenon DEF PInv, Calls
  <2> QED BY Zenon, <1>1, <1>2, <1>3, <1>4, <2>1 DEF CallOf
<1>6. PipeTypeOK' /\ LockHeld' /\ Calls' /\ EndsOpen' /\ Others(p)
  <2>1. lock' = p /\ lock \in {p, Nobody} BY Zenon, <1>1, <1>3
  <2>2. unannounced' \in BOOLEAN BY Zenon, <1>1, PipeTypes
  <2> QED BY Zenon, <1>1, <1>2, <1>5, <2>1, <2>2, Relabels
<1>7. WritersWait' /\ ReadersWait' /\ CopyHasData'
  BY Zenon, <1>1, <1>2, <1>4, <1>6, WaitStep DEF Others, pipe
<1>8. AboutToSleep' BY Zenon, <1>1, <1>2, <1>4, <1>6, AboutStep DEF Others, pipe
<1> QED BY Zenon, <1>6, <1>7, <1>8 DEF PInv

\* One more byte of a call has moved.
LEMMA OneMoved ==
  ASSUME PInv, NEW p \in PipeProc, moved[p] < todo[p], moved' = [moved EXCEPT ![p] = @ + 1]
  PROVE  /\ moved' \in [PipeProc -> Nat] /\ moved'[p] > 0 /\ moved'[p] # 0 /\ moved'[p] <= todo[p]
         /\ \A q \in PipeProc : q # p => moved'[q] = moved[q]
<1>1. moved \in [PipeProc -> Nat] BY Zenon, PipeTypes
<1>2. moved[p] \in Nat /\ todo[p] \in Nat BY PipeTypes
<1>3. moved'[p] = moved[p] + 1 /\ \A q \in PipeProc : q # p => moved'[q] = moved[q]
  BY Zenon, <1>1
<1>4. moved' \in [PipeProc -> Nat] BY <1>1, <1>2
<1>5. moved'[p] > 0 /\ moved'[p] # 0 /\ moved'[p] <= todo[p] BY <1>2, <1>3
<1> QED BY Zenon, <1>3, <1>4, <1>5

\* pipewrite puts a byte in the pipe.
LEMMA WriteByteInv ==
  ASSUME PInv, NEW p \in PipeProc, NEW b \in Byte, WriteByte(p, b)
  PROVE  PInv'
<1>1. /\ ppc[p] = "write" /\ moved[p] < todo[p] /\ ~Full
      /\ data' = [data EXCEPT ![nwrite % PIPESIZE] = b] /\ nwrite' = (nwrite + 1) % UintMod
      /\ moved' = [moved EXCEPT ![p] = @ + 1]
      /\ UNCHANGED <<nread, readopen, writeopen, freed, lock, holds, ppc, todo, dead, unannounced>>
  BY Zenon DEF WriteByte, Writing
<1>2. /\ moved' \in [PipeProc -> Nat] /\ moved'[p] > 0 /\ moved'[p] <= todo[p]
      /\ \A q \in PipeProc : q # p => moved'[q] = moved[q]
  BY Zenon, <1>1, OneMoved
<1>3. PipeTypeOK'
  <2>1. nwrite' \in 0 .. UintMod - 1 BY <1>1, PipeTypes
  <2>2. nread' \in 0 .. UintMod - 1 BY Zenon, <1>1 DEF PInv, PipeTypeOK
  <2>3. data' \in [0 .. PIPESIZE - 1 -> Byte] BY Zenon, <1>1, PipeTypes
  <2>4. \A q \in PipeProc : moved'[q] <= todo'[q] BY Zenon, <1>1, <1>2, PipeTypes
  <2> QED BY Zenon, <1>1, <1>2, <2>1, <2>2, <2>3, <2>4, PipeTypes DEF PipeTypeOK, Labels
<1>4. LockHeld' /\ Calls' /\ EndsOpen'
  BY Zenon, <1>1 DEF PInv, LockHeld, Calls, CallOf, EndsOpen
<1>5. ppc[p] \in UnderLock /\ \A q \in PipeProc : ppc[q] # "copy"
  BY Zenon, <1>1, AloneUnderLock DEF UnderLock
<1>6. WritersWait' BY Zenon, <1>1, <1>5 DEF PInv, WritersWait
<1>7. ReadersWait' BY Zenon, <1>1, <1>2 DEF PInv, ReadersWait
<1>8. CopyHasData' BY Zenon, <1>1, <1>5 DEF CopyHasData
<1>9. AboutToSleep'
  <2>1. ppc[p] \in UnderLock /\ ppc'[p] \notin {"write_full", "wait_empty"}
    BY Zenon, <1>1 DEF UnderLock
  <2>2. \A q \in PipeProc : q # p => Woken(q) BY Zenon, <1>1 DEF Woken
  <2> QED BY Zenon, <2>1, <2>2, AboutStep
<1> QED BY Zenon, <1>3, <1>4, <1>6, <1>7, <1>8, <1>9 DEF PInv

\* piperead takes a byte out.
LEMMA ReadByteInv ==
  ASSUME PInv, NEW p \in PipeProc, ReadByte(p)
  PROVE  PInv'
<1>1. /\ ppc[p] = "copy" /\ moved[p] < todo[p] /\ ~Empty /\ nread' = (nread + 1) % UintMod
      /\ moved' = [moved EXCEPT ![p] = @ + 1]
      /\ UNCHANGED <<data, nwrite, readopen, writeopen, freed, lock, holds, ppc, todo, dead,
                     unannounced>>
  BY Zenon DEF ReadByte, PopByte
<1>2. /\ moved' \in [PipeProc -> Nat] /\ moved'[p] > 0 /\ moved'[p] # 0 /\ moved'[p] <= todo[p]
      /\ \A q \in PipeProc : q # p => moved'[q] = moved[q]
  BY Zenon, <1>1, OneMoved
<1>3. PipeTypeOK'
  <2>1. nread' \in 0 .. UintMod - 1 BY <1>1, PipeTypes
  <2>2. nwrite' \in 0 .. UintMod - 1 BY Zenon, <1>1 DEF PInv, PipeTypeOK
  <2>3. \A q \in PipeProc : moved'[q] <= todo'[q] BY Zenon, <1>1, <1>2, PipeTypes
  <2> QED BY Zenon, <1>1, <1>2, <2>1, <2>2, <2>3, PipeTypes DEF PipeTypeOK, Labels
<1>4. LockHeld' /\ Calls' /\ EndsOpen'
  BY Zenon, <1>1 DEF PInv, LockHeld, Calls, CallOf, EndsOpen
<1>5. \A q \in PipeProc : q # p => ppc[q] # "copy" /\ ppc[q] # "write"
  BY Zenon, <1>1, AloneUnderLock DEF UnderLock
<1>6. WritersWait' BY Zenon, <1>1 DEF PInv, WritersWait
<1>7. ReadersWait' BY Zenon, <1>1, <1>5 DEF PInv, ReadersWait
<1>8. CopyHasData' BY Zenon, <1>1, <1>2, <1>5 DEF CopyHasData
<1>9. AboutToSleep'
  <2>1. ppc[p] \in UnderLock /\ ppc'[p] \notin {"write_full", "wait_empty"}
    BY Zenon, <1>1 DEF UnderLock
  <2>2. \A q \in PipeProc : q # p => Woken(q) BY Zenon, <1>1 DEF Woken
  <2> QED BY Zenon, <2>1, <2>2, AboutStep
<1> QED BY Zenon, <1>3, <1>4, <1>6, <1>7, <1>8, <1>9 DEF PInv

\* piperead returns: the byte it took cannot be copied out.
LEMMA ReadBadAddrInv ==
  ASSUME PInv, NEW p \in PipeProc, ReadBadAddr(p)
  PROVE  PInv'
<1>1. /\ ppc[p] = "copy" /\ ~Empty /\ nread' = (nread + 1) % UintMod /\ Return(p, WakeWriters(ppc))
      /\ UNCHANGED <<data, nwrite, readopen, writeopen, freed, holds, dead, unannounced>>
  BY Zenon DEF ReadBadAddr, PopByte
<1>2. unannounced' \in BOOLEAN /\ ppc[p] \in UnderLock BY Zenon, <1>1, PipeTypes DEF UnderLock
<1>3. nread' \in 0 .. UintMod - 1 BY <1>1, PipeTypes
<1>4. /\ PipeTypeOK' /\ LockHeld' /\ Calls' /\ EndsOpen'
      /\ ppc' = [WakeWriters(ppc) EXCEPT ![p] = "user"] /\ ppc'[p] = "user" /\ Others(p)
  BY Zenon, <1>1, <1>2, <1>3, Returns
<1>5. \A q \in PipeProc : ppc'[q] # "write_sleep"
  <2>1. "user" \in Labels BY Zenon DEF Labels
  <2> QED BY Zenon, <1>4, <2>1, Moves
<1>6. \A q \in PipeProc : q # p => ppc[q] # "copy" /\ ppc[q] # "write"
  BY Zenon, <1>1, AloneUnderLock DEF UnderLock
<1>7. WritersWait' BY Zenon, <1>5 DEF WritersWait
<1>8. ReadersWait'
  <2>1. SUFFICES ASSUME NEW q \in PipeProc, ppc'[q] = "wait_sleep" PROVE writeopen' /\ unannounced'
    BY Zenon DEF ReadersWait
  <2>2. ppc[q] = "wait_sleep" BY Zenon, <1>4, <2>1 DEF Others, Woken
  <2> QED BY Zenon, <1>1, <1>6, <2>2 DEF PInv, ReadersWait
<1>9. CopyHasData' BY Zenon, <1>4, <1>6 DEF CopyHasData, Others, Woken
<1>10. AboutToSleep' BY Zenon, <1>2, <1>4, AboutStep DEF Others
<1> QED BY Zenon, <1>4, <1>7, <1>8, <1>9, <1>10 DEF PInv

-----------------------------------------------------------------------------
\* A descriptor is closed; the last one goes on to pipeclose.
LEMMA FileCloseInv ==
  ASSUME PInv, NEW p \in PipeProc, NEW end \in Ends, FileClose(p, end)
  PROVE  PInv'
<1> DEFINE l == IF LastRef(p, end) THEN CloseLabel(end) ELSE "user"
<1>1. /\ ppc[p] = "user" /\ end \in holds[p] /\ holds' = [holds EXCEPT ![p] = @ \ {end}]
      /\ UNCHANGED <<pipe, lock, todo, moved, dead, unannounced>>
  BY Zenon DEF FileClose
<1>2. ppc' = [ppc EXCEPT ![p] = l]
  <2>1. CASE LastRef(p, end) BY Zenon, <2>1 DEF FileClose
  <2>2. CASE ~LastRef(p, end) BY Zenon, <1>1, <2>2, PipeTypes DEF FileClose
  <2> QED BY Zenon, <2>1, <2>2
<1>3. /\ l \in Labels /\ l \notin UnderLock /\ l \notin WriteCalls /\ l \notin ReadCalls
      /\ l \notin {"write_sleep", "wait_sleep", "copy"}
      /\ l \in {"user", "close_r", "close_w"}
  BY Zenon DEF Labels, UnderLock, WriteCalls, ReadCalls, CloseLabel
<1>4. ppc' \in [PipeProc -> Labels] /\ ppc'[p] = l /\ \A q \in PipeProc : q # p => Woken(q)
  <2> HIDE DEF l
  <2> QED BY Zenon, <1>2, <1>3, Moves
<1>5. /\ holds' \in [PipeProc -> SUBSET Ends] /\ holds'[p] = holds[p] \ {end}
      /\ \A q \in PipeProc : q # p => holds'[q] = holds[q]
  BY Zenon, <1>1, PipeTypes
<1>6. Others(p) BY Zenon, <1>1, <1>4, <1>5 DEF Others
<1>7. PipeTypeOK'
  <2>1. nread' \in 0 .. UintMod - 1 /\ nwrite' \in 0 .. UintMod - 1
    BY Zenon, <1>1 DEF PInv, PipeTypeOK, pipe
  <2> QED BY Zenon, <1>1, <1>4, <1>5, <2>1, PipeTypes DEF PipeTypeOK, Labels, pipe
<1>8. LockHeld'
  <2>1. "user" \notin UnderLock BY Zenon DEF UnderLock
  <2> HIDE DEF l
  <2> QED BY Zenon, <1>1, <1>3, <1>4, <1>6, <2>1, LockStep
<1>9. Calls'
  <2>1. todo[p] = 0 BY Zenon, <1>1 DEF PInv, Calls, CallOf, WriteCalls, ReadCalls
  <2>2. CallOf(p)' BY Zenon, <1>1, <1>3, <1>4, <2>1 DEF CallOf
  <2> QED BY Zenon, <1>6, <2>2, CallStep
<1>10. EndsOpen'
  <2>1. \A q \in PipeProc : holds'[q] \subseteq holds[q] BY Zenon, <1>5
  <2>2. EndsOpen BY Zenon DEF PInv
  <2>3. \A q \in PipeProc : q # p => /\ ppc'[q] = "close_r" => ppc[q] = "close_r"
                                     /\ ppc'[q] = "close_w" => ppc[q] = "close_w"
    BY Zenon, <1>4 DEF Woken
  <2>4. /\ \A q \in PipeProc : ("r" \in holds'[q] => readopen) /\ ("w" \in holds'[q] => writeopen)
    BY Zenon, <2>1, <2>2 DEF EndsOpen
  <2>5. ASSUME ppc'[p] = "close_r"
        PROVE  /\ readopen
               /\ \A q \in PipeProc : "r" \notin holds'[q] /\ (ppc'[q] = "close_r" => q = p)
    <3>1. end = "r" /\ LastRef(p, end) BY Zenon, <1>4, <2>5 DEF CloseLabel, Ends
    <3>2. readopen BY Zenon, <1>1, <2>2, <3>1 DEF EndsOpen
    <3>3. \A q \in PipeProc : "r" \notin holds'[q] BY Zenon, <1>5, <3>1 DEF LastRef
    <3>4. \A q \in PipeProc : q # p => ppc'[q] # "close_r"
      BY Zenon, <1>1, <2>2, <2>3, <3>1 DEF EndsOpen
    <3> QED BY Zenon, <3>2, <3>3, <3>4
  <2>6. ASSUME ppc'[p] = "close_w"
        PROVE  /\ writeopen
               /\ \A q \in PipeProc : "w" \notin holds'[q] /\ (ppc'[q] = "close_w" => q = p)
    <3>1. end = "w" /\ LastRef(p, end) BY Zenon, <1>4, <2>6 DEF CloseLabel, Ends
    <3>2. writeopen BY Zenon, <1>1, <2>2, <3>1 DEF EndsOpen
    <3>3. \A q \in PipeProc : "w" \notin holds'[q] BY Zenon, <1>5, <3>1 DEF LastRef
    <3>4. \A q \in PipeProc : q # p => ppc'[q] # "close_w"
      BY Zenon, <1>1, <2>2, <2>3, <3>1 DEF EndsOpen
    <3> QED BY Zenon, <3>2, <3>3, <3>4
  <2>7. ASSUME NEW q \in PipeProc, ppc'[q] = "close_r"
        PROVE  readopen /\ \A r \in PipeProc : "r" \notin holds'[r] /\ (ppc'[r] = "close_r" => r = q)
    <3>1. CASE q = p BY Zenon, <2>5, <2>7, <3>1
    <3>2. CASE q # p
      <4>1. ppc[q] = "close_r" BY Zenon, <2>3, <2>7, <3>2
      <4>2. readopen /\ \A r \in PipeProc : "r" \notin holds[r] /\ (ppc[r] = "close_r" => r = q)
        BY Zenon, <2>2, <4>1 DEF EndsOpen
      <4>3. ppc'[p] # "close_r" BY Zenon, <2>5, <2>7, <3>2
      <4> QED BY Zenon, <2>1, <2>3, <4>2, <4>3
    <3> QED BY Zenon, <3>1, <3>2
  <2>8. ASSUME NEW q \in PipeProc, ppc'[q] = "close_w"
        PROVE  writeopen /\ \A r \in PipeProc : "w" \notin holds'[r] /\ (ppc'[r] = "close_w" => r = q)
    <3>1. CASE q = p BY Zenon, <2>6, <2>8, <3>1
    <3>2. CASE q # p
      <4>1. ppc[q] = "close_w" BY Zenon, <2>3, <2>8, <3>2
      <4>2. writeopen /\ \A r \in PipeProc : "w" \notin holds[r] /\ (ppc[r] = "close_w" => r = q)
        BY Zenon, <2>2, <4>1 DEF EndsOpen
      <4>3. ppc'[p] # "close_w" BY Zenon, <2>6, <2>8, <3>2
      <4> QED BY Zenon, <2>1, <2>3, <4>2, <4>3
    <3> QED BY Zenon, <3>1, <3>2
  <2> QED BY Zenon, <1>1, <2>2, <2>4, <2>7, <2>8 DEF EndsOpen, pipe
<1>11. WritersWait' /\ ReadersWait' /\ CopyHasData'
  <2>1. ppc[p] # "copy" /\ ppc[p] # "write" BY Zenon, <1>1
  <2> HIDE DEF l
  <2> QED BY Zenon, <1>1, <1>3, <1>4, <1>6, <2>1, WaitStep DEF Others, pipe
<1>12. AboutToSleep'
  <2> HIDE DEF l
  <2>1. l \notin {"write_full", "wait_empty"} BY Zenon, <1>3
  <2> QED BY Zenon, <1>1, <1>4, <2>1, AboutStep DEF pipe
<1> QED BY Zenon, <1>7, <1>8, <1>9, <1>10, <1>11, <1>12 DEF PInv

\* pipeclose: the end is closed, the other end's sleepers woken, the page freed.
LEMMA PipeCloseInv ==
  ASSUME PInv, NEW p \in PipeProc, NEW end \in Ends, PipeClose(p, end)
  PROVE  PInv'
<1> DEFINE f == WakeOtherEnd(end)
<1>1. /\ ppc[p] = CloseLabel(end) /\ lock = Nobody
      /\ writeopen' = (writeopen /\ end # "w") /\ readopen' = (readopen /\ end # "r")
      /\ freed' = (~readopen' /\ ~writeopen') /\ ppc' = [f EXCEPT ![p] = "user"]
      /\ unannounced' = (unannounced /\ end # "w")
      /\ UNCHANGED <<data, nread, nwrite, lock, holds, todo, moved, dead>>
  BY Zenon DEF PipeClose
<1>2. /\ f = WakeReaders(ppc) \/ f = WakeWriters(ppc)
      /\ (end = "w" => f = WakeReaders(ppc)) /\ (end = "r" => f = WakeWriters(ppc))
  BY Zenon DEF WakeOtherEnd
<1>3. end = "w" \/ (end = "r" /\ f = WakeWriters(ppc)) BY Zenon DEF Ends, WakeOtherEnd
<1>4. "user" \in Labels /\ "user" \notin UnderLock /\ ppc[p] \notin UnderLock
  BY Zenon, <1>1 DEF Labels, UnderLock, CloseLabel
<1>5. /\ ppc' \in [PipeProc -> Labels] /\ ppc'[p] = "user" /\ \A q \in PipeProc : q # p => Woken(q)
      /\ f = WakeReaders(ppc) => \A q \in PipeProc : ppc'[q] # "wait_sleep"
      /\ f = WakeWriters(ppc) => \A q \in PipeProc : ppc'[q] # "write_sleep"
  <2> HIDE DEF f
  <2> QED BY Zenon, <1>1, <1>2, <1>4, Moves
<1>6. Others(p) BY Zenon, <1>1, <1>5 DEF Others
<1>7. PipeTypeOK'
  <2>1. nread' \in 0 .. UintMod - 1 /\ nwrite' \in 0 .. UintMod - 1
    BY Zenon, <1>1 DEF PInv, PipeTypeOK
  <2>2. readopen' \in BOOLEAN /\ writeopen' \in BOOLEAN /\ freed' \in BOOLEAN /\ unannounced' \in BOOLEAN
    BY Zenon, <1>1
  <2> QED BY Zenon, <1>1, <1>5, <2>1, <2>2, PipeTypes DEF PipeTypeOK, Labels
<1>8. LockHeld' BY Zenon, <1>1, <1>4, <1>5, <1>6, LockStep
<1>9. Calls'
  <2>1. todo[p] = 0 BY Zenon, <1>1 DEF PInv, Calls, CallOf, WriteCalls, ReadCalls, CloseLabel
  <2>2. CallOf(p)' BY Zenon, <1>1, <1>5, <2>1 DEF CallOf, WriteCalls, ReadCalls
  <2> QED BY Zenon, <1>6, <2>2, CallStep
<1>10. EndsOpen'
  <2>1. \A q \in PipeProc : /\ ppc'[q] = "close_r" => ppc[q] = "close_r" /\ q # p
                            /\ ppc'[q] = "close_w" => ppc[q] = "close_w" /\ q # p
    BY Zenon, <1>5 DEF Woken
  <2>2. EndsOpen BY Zenon DEF PInv
  <2>3. CASE end = "w"
    <3>1. /\ ppc[p] = "close_w" /\ writeopen' = FALSE /\ readopen' = readopen
      BY Zenon, <1>1, <2>3, PipeTypes DEF CloseLabel
    <3>2. \A q \in PipeProc : "w" \notin holds[q] /\ (ppc[q] = "close_w" => q = p)
      BY Zenon, <2>2, <3>1 DEF EndsOpen
    <3> QED BY Zenon, <1>1, <2>1, <2>2, <3>1, <3>2 DEF EndsOpen
  <2>4. CASE end = "r"
    <3>1. /\ ppc[p] = "close_r" /\ readopen' = FALSE /\ writeopen' = writeopen
      BY Zenon, <1>1, <2>4, PipeTypes DEF CloseLabel
    <3>2. \A q \in PipeProc : "r" \notin holds[q] /\ (ppc[q] = "close_r" => q = p)
      BY Zenon, <2>2, <3>1 DEF EndsOpen
    <3> QED BY Zenon, <1>1, <2>1, <2>2, <3>1, <3>2 DEF EndsOpen
  <2> QED BY Zenon, <2>3, <2>4 DEF Ends
<1>11. \A q \in PipeProc : ppc[q] \notin UnderLock BY Zenon, <1>1, Unlocked
<1>12. \A q \in PipeProc : ppc[q] # "copy" /\ ppc[q] # "write" BY Zenon, <1>11 DEF UnderLock
<1>13. \A q \in PipeProc : ppc'[q] # "copy" BY Zenon, <1>5, <1>12 DEF Woken
<1>14. WritersWait'
  <2>1. CASE end = "r" BY Zenon, <1>3, <1>5, <2>1 DEF WritersWait
  <2>2. CASE end = "w"
    <3>1. readopen' = readopen BY Zenon, <1>1, <2>2, PipeTypes
    <3>2. \A q \in PipeProc : ppc'[q] = "write_sleep" => ppc[q] = "write_sleep"
      BY Zenon, <1>5 DEF Woken
    <3>3. Full' <=> Full BY Zenon, <1>1 DEF Full
    <3> QED BY Zenon, <1>12, <3>1, <3>2, <3>3 DEF PInv, WritersWait
  <2> QED BY Zenon, <2>1, <2>2 DEF Ends
<1>15. ReadersWait'
  <2>1. CASE end = "w" BY Zenon, <1>2, <1>5, <2>1 DEF ReadersWait, WakeOtherEnd
  <2>2. CASE end = "r"
    <3>1. writeopen' = writeopen /\ unannounced' = unannounced BY Zenon, <1>1, <2>2, PipeTypes
    <3>2. \A q \in PipeProc : ppc'[q] = "wait_sleep" => ppc[q] = "wait_sleep"
      BY Zenon, <1>5 DEF Woken
    <3>3. Empty' <=> Empty BY Zenon, <1>1 DEF Empty
    <3> QED BY Zenon, <1>12, <3>1, <3>2, <3>3 DEF PInv, ReadersWait
  <2> QED BY Zenon, <2>1, <2>2 DEF Ends
<1>16. CopyHasData' BY Zenon, <1>13 DEF CopyHasData
<1>17. AboutToSleep' BY Zenon, <1>1, <1>5, AboutStep
<1> QED BY Zenon, <1>7, <1>8, <1>9, <1>10, <1>14, <1>15, <1>16, <1>17 DEF PInv

\* fork: the child gets the parent's descriptors.
LEMMA PipeForkInv ==
  ASSUME PInv, NEW p \in PipeProc, NEW q \in PipeProc \ {p}, PipeFork(p, q)
  PROVE  PInv'
<1>1. /\ ppc[q] = "user" /\ holds' = [holds EXCEPT ![q] = holds[p]]
      /\ dead' = [dead EXCEPT ![q] = FALSE]
      /\ UNCHANGED <<pipe, lock, ppc, todo, moved, unannounced>>
  BY Zenon DEF PipeFork
<1>2. /\ holds' \in [PipeProc -> SUBSET Ends] /\ holds'[q] = holds[p]
      /\ \A r \in PipeProc : r # q => holds'[r] = holds[r]
  BY Zenon, <1>1, PipeTypes
<1>3. PipeTypeOK'
  <2>1. nread' \in 0 .. UintMod - 1 /\ nwrite' \in 0 .. UintMod - 1
    BY Zenon, <1>1 DEF PInv, PipeTypeOK, pipe
  <2>2. dead' \in [PipeProc -> BOOLEAN] BY Zenon, <1>1, PipeTypes
  <2> QED BY Zenon, <1>1, <1>2, <2>1, <2>2, PipeTypes DEF PipeTypeOK, Labels, pipe
<1>4. LockHeld' BY Zenon, <1>1 DEF PInv, LockHeld
<1>5. Calls'
  <2>1. SUFFICES ASSUME NEW r \in PipeProc PROVE CallOf(r)' BY Zenon DEF Calls
  <2>2. CallOf(r) BY Zenon DEF PInv, Calls
  <2>3. CASE r = q BY Zenon, <1>1, <2>2, <2>3 DEF CallOf, WriteCalls, ReadCalls
  <2>4. CASE r # q BY Zenon, <1>1, <1>2, <2>2, <2>4 DEF CallOf
  <2> QED BY Zenon, <2>3, <2>4
<1>6. EndsOpen'
  <2>1. EndsOpen BY Zenon DEF PInv
  <2>2. \A r \in PipeProc : \E s \in PipeProc : holds'[r] = holds[s] BY Zenon, <1>2
  <2>3. UNCHANGED <<readopen, writeopen, freed, ppc>> BY Zenon, <1>1 DEF pipe
  <2>4. \A r \in PipeProc : ("r" \in holds'[r] => readopen) /\ ("w" \in holds'[r] => writeopen)
    BY Zenon, <2>1, <2>2 DEF EndsOpen
  <2>5. ASSUME NEW s \in PipeProc, ppc[s] = "close_r"
        PROVE  readopen /\ \A r \in PipeProc : "r" \notin holds'[r] /\ (ppc[r] = "close_r" => r = s)
    BY Zenon, <2>1, <2>2, <2>5 DEF EndsOpen
  <2>6. ASSUME NEW s \in PipeProc, ppc[s] = "close_w"
        PROVE  writeopen /\ \A r \in PipeProc : "w" \notin holds'[r] /\ (ppc[r] = "close_w" => r = s)
    BY Zenon, <2>1, <2>2, <2>6 DEF EndsOpen
  <2> QED BY Zenon, <2>1, <2>3, <2>4, <2>5, <2>6 DEF EndsOpen
<1>7. WritersWait' /\ ReadersWait' /\ CopyHasData' /\ AboutToSleep'
  BY Zenon, <1>1 DEF PInv, WritersWait, ReadersWait, CopyHasData, AboutToSleep, Full, Empty,
     pipe
<1> QED BY Zenon, <1>3, <1>4, <1>5, <1>6, <1>7 DEF PInv

\* kill: a sleeper is made runnable.
LEMMA PipeKillInv ==
  ASSUME PInv, NEW p \in PipeProc, PipeKill(p)
  PROVE  PInv'
<1> DEFINE l == CASE ppc[p] = "wait_sleep" -> "wait_lock"
                  [] ppc[p] = "write_sleep" -> "write_lock"
                  [] OTHER -> ppc[p]
<1>1. /\ dead' = [dead EXCEPT ![p] = TRUE] /\ ppc' = [ppc EXCEPT ![p] = l]
      /\ UNCHANGED <<pipe, lock, holds, todo, moved, unannounced>>
  BY Zenon DEF PipeKill
<1>2. /\ ppc[p] = "wait_sleep" => l = "wait_lock"
      /\ ppc[p] = "write_sleep" => l = "write_lock"
      /\ ppc[p] # "wait_sleep" /\ ppc[p] # "write_sleep" => l = ppc[p]
  BY SMT
<1> HIDE DEF l
<1>3. ppc \in [PipeProc -> Labels] /\ "wait_lock" \in Labels /\ "write_lock" \in Labels
  BY Zenon, PipeTypes DEF Labels
<1>4. l \in Labels BY Zenon, <1>2, <1>3
<1>5. ppc' \in [PipeProc -> Labels] /\ ppc'[p] = l /\ \A q \in PipeProc : q # p => ppc'[q] = ppc[q]
  BY Zenon, <1>1, <1>3, <1>4
<1>6. Others(p) BY Zenon, <1>1, <1>5 DEF Others, Woken
<1>7. PipeTypeOK'
  <2>1. nread' \in 0 .. UintMod - 1 /\ nwrite' \in 0 .. UintMod - 1
    BY Zenon, <1>1 DEF PInv, PipeTypeOK, pipe
  <2>2. dead' \in [PipeProc -> BOOLEAN] BY Zenon, <1>1, PipeTypes
  <2> QED BY Zenon, <1>1, <1>5, <2>1, <2>2, PipeTypes DEF PipeTypeOK, Labels, pipe
<1>8. LockHeld'
  <2>1. l \in UnderLock <=> ppc[p] \in UnderLock BY Zenon, <1>2 DEF UnderLock
  <2> QED BY Zenon, <1>1, <1>5, <1>6, <2>1, LockStep
<1>9. Calls'
  <2>1. (l \in WriteCalls <=> ppc[p] \in WriteCalls) /\ (l \in ReadCalls <=> ppc[p] \in ReadCalls)
    BY Zenon, <1>2 DEF WriteCalls, ReadCalls
  <2>2. CallOf(p) BY Zenon DEF PInv, Calls
  <2>3. CallOf(p)' BY Zenon, <1>1, <1>5, <2>1, <2>2 DEF CallOf
  <2> QED BY Zenon, <1>6, <2>3, CallStep
<1>10. EndsOpen'
  <2>1. \A q \in PipeProc : /\ ppc'[q] = "close_r" <=> ppc[q] = "close_r"
                            /\ ppc'[q] = "close_w" <=> ppc[q] = "close_w"
    BY Zenon, <1>2, <1>5
  <2>2. EndsOpen /\ UNCHANGED <<holds, readopen, writeopen, freed>>
    BY Zenon, <1>1 DEF PInv, pipe
  <2> QED BY Zenon, <2>1, <2>2 DEF EndsOpen
<1>11. WritersWait' /\ ReadersWait' /\ CopyHasData'
  <2>1. \A q \in PipeProc : /\ ppc'[q] = "copy" <=> ppc[q] = "copy"
                            /\ ppc'[q] = "write" <=> ppc[q] = "write"
                            /\ ppc'[q] = "write_sleep" => ppc[q] = "write_sleep"
                            /\ ppc'[q] = "wait_sleep" => ppc[q] = "wait_sleep"
    BY Zenon, <1>2, <1>5
  <2>2. /\ UNCHANGED <<readopen, writeopen, moved, unannounced>>
        /\ (Full' <=> Full) /\ (Empty' <=> Empty)
    BY Zenon, <1>1 DEF Full, Empty, pipe
  <2>3. WritersWait' BY Zenon, <2>1, <2>2 DEF PInv, WritersWait
  <2>4. ReadersWait' BY Zenon, <2>1, <2>2 DEF PInv, ReadersWait
  <2>5. CopyHasData' BY Zenon, <2>1, <2>2 DEF PInv, CopyHasData
  <2> QED BY Zenon, <2>3, <2>4, <2>5
<1>12. AboutToSleep'
  <2>1. \A q \in PipeProc : ppc'[q] \in {"write_full", "wait_empty"} => ppc'[q] = ppc[q]
    BY Zenon, <1>2, <1>5
  <2>2. UNCHANGED <<readopen, writeopen>> /\ (Full' <=> Full) /\ (Empty' <=> Empty)
    BY Zenon, <1>1 DEF Full, Empty, pipe
  <2> QED BY Zenon, <2>1, <2>2 DEF PInv, AboutToSleep
<1> QED BY Zenon, <1>7, <1>8, <1>9, <1>10, <1>11, <1>12 DEF PInv

\* Every step keeps the invariant.
LEMMA PipeStepInv == PInv /\ [PipeNext]_pipeVars => PInv'
<1> SUFFICES ASSUME PInv, [PipeNext]_pipeVars PROVE PInv' OBVIOUS
<1>1. CASE UNCHANGED pipeVars
  <2>1. UNCHANGED <<data, nread, nwrite, readopen, writeopen, freed, lock, holds, ppc, todo, moved,
                    dead, unannounced>>
    BY Zenon, <1>1 DEF pipeVars, pipe
  <2> QED BY Zenon, <2>1 DEF PInv, PipeTypeOK, LockHeld, Calls, CallOf, EndsOpen, WritersWait,
             ReadersWait, CopyHasData, AboutToSleep, Full, Empty
<1>2. ASSUME NEW p \in PipeProc, NEW n \in Counts, WriteCall(p, n) \/ ReadCall(p, n) PROVE PInv'
  BY Zenon, <1>2, CallInv DEF WriteCall, ReadCall
<1>3. ASSUME NEW p \in PipeProc, PipeStep(p) PROVE PInv'
  BY Zenon, <1>3, WriteFailsInv, WriteWaitInv, SleepInv, WriteDoneInv, WriteByteInv,
     ReadKilledInv,
     ReadWaitInv, ReadByteInv, ReadBadAddrInv, ReadDoneInv DEF PipeStep
<1>4. ASSUME NEW p \in PipeProc, PipeRelock(p) PROVE PInv'
  BY Zenon, <1>4, RelockInv DEF PipeRelock
<1>5. ASSUME NEW p \in PipeProc, PipeClosing(p) PROVE PInv'
  BY Zenon, <1>5, PipeCloseInv DEF PipeClosing
<1>6. ASSUME NEW p \in PipeProc, NEW end \in Ends, FileClose(p, end) PROVE PInv'
  BY Zenon, <1>6, FileCloseInv
<1>7. ASSUME NEW p \in PipeProc, NEW q \in PipeProc \ {p}, PipeFork(p, q) PROVE PInv'
  BY Zenon, <1>7, PipeForkInv
<1>8. ASSUME NEW p \in PipeProc, PipeKill(p) PROVE PInv' BY Zenon, <1>8, PipeKillInv
<1> QED BY Zenon, <1>1, <1>2, <1>3, <1>4, <1>5, <1>6, <1>7, <1>8 DEF PipeNext

\* The pipe outlives its users and leaves none of them asleep without a reason in the
\* pipe, through closes and kills at any point of a read or a write, also between
\* killed() and sleep(), for any number of processes.
THEOREM PipeIsSafe == PipeInit /\ [][PipeNext]_pipeVars => []PipeSafe
<1>1. PInv => PipeSafe
  <2> SUFFICES ASSUME PInv PROVE PipeSafe OBVIOUS
  <2>1. FreedUnreachable
    <3>1. SUFFICES ASSUME freed PROVE lock = Nobody /\ \A p \in PipeProc : holds[p] = {} /\ ppc[p] = "user"
      BY Zenon DEF FreedUnreachable
    <3>2. ~readopen /\ ~writeopen BY Zenon, <3>1 DEF PInv, EndsOpen
    <3>3. ASSUME NEW p \in PipeProc PROVE holds[p] = {} /\ ppc[p] = "user"
      <4>1. "r" \notin holds[p] /\ "w" \notin holds[p] BY Zenon, <3>2 DEF PInv, EndsOpen
      <4>2. holds[p] = {} BY Zenon, <4>1, PipeTypes DEF Ends
      <4>3. ppc[p] \notin WriteCalls \cup ReadCalls BY Zenon, <4>1 DEF PInv, Calls, CallOf
      <4>4. ppc[p] # "close_r" /\ ppc[p] # "close_w" BY Zenon, <3>2 DEF PInv, EndsOpen
      <4>5. ppc[p] \in Labels BY Zenon, PipeTypes
      <4> QED BY Zenon, <4>2, <4>3, <4>4, <4>5 DEF Labels, WriteCalls, ReadCalls
    <3>4. ASSUME lock \in PipeProc PROVE FALSE
      BY Zenon, <3>3, <3>4 DEF PInv, LockHeld, UnderLock
    <3> QED BY Zenon, <3>3, <3>4, PipeTypes
  <2>2. SleepersJustified
    <3>1. SUFFICES ASSUME lock = Nobody, NEW p \in PipeProc
                   PROVE  /\ ppc[p] = "wait_sleep" => writeopen /\ (Empty \/ unannounced)
                          /\ ppc[p] = "write_sleep" => Full /\ readopen
      BY Zenon DEF SleepersJustified
    <3>2. \A q \in PipeProc : ppc[q] # "copy" /\ ppc[q] # "write"
      BY Zenon, <3>1, Unlocked DEF UnderLock
    <3> QED BY Zenon, <3>2 DEF PInv, WritersWait, ReadersWait
  <2> QED BY Zenon, <2>1, <2>2 DEF PipeSafe, PInv
<1> QED BY <1>1, PipeStart, PipeStepInv, PTL

-----------------------------------------------------------------------------
\* Sums of counters that wrap.
LEMMA ModSmall ==
  ASSUME NEW U \in Nat \ {0}, NEW x \in Int
  PROVE  /\ x % U \in Nat /\ x % U < U
         /\ 0 <= x /\ x < U => x % U = x
         /\ U <= x /\ x < 2 * U => x % U = x - U
         /\ -U <= x /\ x < 0 => x % U = x + U
<1>1. x % U \in Nat /\ x % U < U OBVIOUS
<1>2. 0 <= x /\ x < U => x % U = x OBVIOUS
<1>3. U <= x /\ x < 2 * U => x % U = x - U OBVIOUS
<1>4. -U <= x /\ x < 0 => x % U = x + U OBVIOUS
<1> QED BY Zenon, <1>1, <1>2, <1>3, <1>4

\* A multiple of the modulus changes nothing.
LEMMA ModMultiple ==
  ASSUME NEW P \in Nat \ {0}, NEW x \in Int, NEW U \in Int, U % P = 0
  PROVE  (x + U) % P = x % P
<1> DEFINE k == U \div P  j == x \div P  r == x % P
<1>1. k \in Int /\ j \in Int /\ r \in Nat /\ r < P OBVIOUS
<1>2. U = P * k /\ x = P * j + r OBVIOUS
<1> HIDE DEF k, j, r
<1>3. x + U = P * (j + k) + r BY <1>1, <1>2
<1> DEFINE m == j + k  y == x + U
<1>4. m \in Int /\ y \in Int /\ y = P * m + r BY <1>1, <1>3
<1> HIDE DEF m, y
<1>5. y % P = r BY <1>1, <1>4
<1> QED BY Zenon, <1>5 DEF y, r

\* Two numbers less than the modulus apart have different remainders.
LEMMA ModDistinct ==
  ASSUME NEW P \in Nat \ {0}, NEW a \in Int, NEW b \in Int, a < b, b < a + P
  PROVE  a % P # b % P
<1>1. SUFFICES ASSUME a % P = b % P PROVE FALSE OBVIOUS
<1> DEFINE k == a \div P  j == b \div P  r == a % P
<1>2. k \in Int /\ j \in Int /\ r \in Nat OBVIOUS
<1>3. a = P * k + r /\ b = P * j + r BY <1>1
<1> HIDE DEF k, j, r
<1>4. b - a = P * (j - k) BY <1>2, <1>3
<1> DEFINE m == j - k  y == b - a
<1>5. m \in Int /\ y \in Int /\ y = P * m /\ 0 < y /\ y < P BY <1>2, <1>4
<1> HIDE DEF m, y
<1>6. m >= 1 \/ m <= 0 BY <1>5
<1> QED BY <1>5, <1>6

\* The counters are at most the buffer's size apart.
HeldBound == Held <= PIPESIZE

\* nwrite is nread + Held, up to one turn of the counters; Full and Empty say how
\* much the pipe holds.
LEMMA HeldIs ==
  ASSUME PInv
  PROVE  /\ Held \in Nat /\ Held < UintMod
         /\ nread + Held = nwrite \/ nread + Held = nwrite + UintMod
         /\ Empty <=> Held = 0
         /\ Full <=> Held = PIPESIZE
<1> DEFINE d == nwrite - nread
<1>1. /\ nread \in Nat /\ nread < UintMod /\ nwrite \in Nat /\ nwrite < UintMod
      /\ UintMod \in Nat \ {0} /\ PIPESIZE \in Nat \ {0} /\ PIPESIZE < UintMod
  BY PipeTypes, PipeAssumption
<1>2. d \in Int /\ Held = d % UintMod BY <1>1 DEF Held
<1>3. Held = IF d >= 0 THEN d ELSE d + UintMod
  <2> HIDE DEF d
  <2>1. CASE d >= 0
    <3>1. d < UintMod BY <1>1 DEF d
    <3> QED BY <1>1, <1>2, <2>1, <3>1, ModSmall
  <2>2. CASE d < 0
    <3>1. -UintMod <= d /\ d < 0 BY <1>1, <2>2 DEF d
    <3>2. d % UintMod = d + UintMod BY Zenon, <1>1, <1>2, <3>1, ModSmall
    <3> QED BY <1>2, <2>2, <3>2
  <2> QED BY <1>2, <2>1, <2>2
<1>4. /\ Held \in Nat /\ Held < UintMod
      /\ nread + Held = nwrite \/ nread + Held = nwrite + UintMod
      /\ Empty <=> Held = 0
  BY <1>1, <1>3 DEF Empty
<1>5. Full <=> Held = PIPESIZE
  <2> DEFINE x == nread + PIPESIZE
  <2>1. x \in Int /\ 0 <= x /\ x < 2 * UintMod /\ (Full <=> nwrite = x % UintMod)
    BY <1>1 DEF Full
  <2>2. x % UintMod = IF x < UintMod THEN x ELSE x - UintMod
    <3> HIDE DEF x
    <3>1. CASE x < UintMod BY Zenon, <1>1, <2>1, <3>1, ModSmall
    <3>2. CASE ~(x < UintMod)
      <4>1. UintMod <= x BY <1>1, <2>1, <3>2
      <4> QED BY Zenon, <1>1, <2>1, <3>2, <4>1, ModSmall
    <3> QED BY Zenon, <3>1, <3>2
  <2> QED BY <1>1, <1>3, <2>1, <2>2
<1> QED BY Zenon, <1>4, <1>5

\* What is in the pipe, as a sequence.
LEMMA ContentsIs ==
  ASSUME PInv
  PROVE  /\ Contents \in Seq(Byte) /\ Len(Contents) = Held
         /\ \A i \in 1 .. Held : Contents[i] = data[(nread + i - 1) % PIPESIZE]
<1>1. Held \in Nat /\ PIPESIZE \in Nat \ {0} /\ nread \in Nat BY Zenon, HeldIs, PipeTypes
<1>2. ASSUME NEW i \in 1 .. Held PROVE data[(nread + i - 1) % PIPESIZE] \in Byte
  <2>1. nread + i - 1 \in Int BY <1>1
  <2>2. (nread + i - 1) % PIPESIZE \in 0 .. PIPESIZE - 1 BY <1>1, <2>1
  <2> QED BY Zenon, <2>2, PipeTypes
<1>3. Contents \in [1 .. Held -> Byte] BY Zenon, <1>2 DEF Contents
<1>4. Contents \in Seq(Byte) /\ Len(Contents) = Held BY <1>1, <1>3
<1> QED BY Zenon, <1>4 DEF Contents

\* Two sequences with the same elements are the same.
LEMMA SameSeq ==
  ASSUME NEW S, NEW s \in Seq(S), NEW t \in Seq(S), Len(s) = Len(t),
         \A i \in 1 .. Len(s) : s[i] = t[i]
  PROVE  s = t
<1> DEFINE n == Len(s)
<1>1. s \in [1 .. n -> S] /\ t \in [1 .. n -> S] OBVIOUS
<1>2. \A i \in 1 .. n : s[i] = t[i] OBVIOUS
<1> HIDE DEF n
<1>3. s = [i \in 1 .. n |-> s[i]] /\ t = [i \in 1 .. n |-> t[i]] BY Zenon, <1>1
<1>4. [i \in 1 .. n |-> s[i]] = [i \in 1 .. n |-> t[i]] BY Zenon, <1>2
<1> QED BY Zenon, <1>3, <1>4

\* A byte written goes to the end of the queue, and overwrites none that is in it.
LEMMA WriteIsPut ==
  ASSUME PInv, PInv', HeldBound, NEW p \in PipeProc, NEW b \in Byte, WriteByte(p, b)
  PROVE  HeldBound' /\ Contents' = Append(Contents, b) /\ Held < PIPESIZE
<1>1. /\ ~Full /\ data' = [data EXCEPT ![nwrite % PIPESIZE] = b] /\ nwrite' = (nwrite + 1) % UintMod
      /\ nread' = nread
  BY Zenon DEF WriteByte
<1>2. /\ nread \in Nat /\ nread < UintMod /\ nwrite \in Nat /\ nwrite < UintMod
      /\ UintMod \in Nat \ {0} /\ PIPESIZE \in Nat \ {0} /\ PIPESIZE < UintMod
      /\ UintMod % PIPESIZE = 0
  BY Zenon, PipeTypes, PipeAssumption
<1>3. /\ Held \in Nat /\ Held < PIPESIZE
      /\ nread + Held = nwrite \/ nread + Held = nwrite + UintMod
  <2>1. Held \in Nat /\ Held # PIPESIZE BY Zenon, <1>1, HeldIs
  <2>2. Held <= PIPESIZE BY Zenon DEF HeldBound
  <2> QED BY <1>2, <2>1, <2>2, HeldIs
<1>4. /\ Held' \in Nat /\ Held' < UintMod
      /\ nread + Held' = nwrite' \/ nread + Held' = nwrite' + UintMod
  <2>1. (PInv => /\ Held \in Nat /\ Held < UintMod
                 /\ nread + Held = nwrite \/ nread + Held = nwrite + UintMod)'
    BY HeldIs, PTL
  <2> QED BY Zenon, <1>1, <2>1
<1>5. nwrite' = IF nwrite + 1 < UintMod THEN nwrite + 1 ELSE 0
  <2> DEFINE x == nwrite + 1
  <2>1. x \in Int /\ 0 <= x /\ x <= UintMod /\ UintMod <= 2 * UintMod BY <1>2
  <2>2. nwrite' = x % UintMod BY Zenon, <1>1
  <2> HIDE DEF x
  <2>3. nwrite' = IF x < UintMod THEN x ELSE 0 BY <1>2, <2>1, <2>2
  <2> QED BY Zenon, <2>3 DEF x
<1>6. Held' = Held + 1
  <2> DEFINE h == Held  g == Held'
  <2>1. /\ h \in Nat /\ h < PIPESIZE /\ (nread + h = nwrite \/ nread + h = nwrite + UintMod)
        /\ g \in Nat /\ g < UintMod /\ (nread + g = nwrite' \/ nread + g = nwrite' + UintMod)
    BY Zenon, <1>3, <1>4
  <2> HIDE DEF h, g
  <2>2. g = h + 1 BY <1>2, <1>5, <2>1
  <2> QED BY Zenon, <2>2 DEF h, g
<1>7. HeldBound' BY <1>2, <1>3, <1>6 DEF HeldBound
<1>8. nwrite % PIPESIZE = (nread + Held) % PIPESIZE
  <2>1. CASE nread + Held = nwrite BY Zenon, <2>1
  <2>2. CASE nread + Held = nwrite + UintMod
    <3>1. nwrite \in Int /\ UintMod \in Int BY <1>2
    <3> QED BY Zenon, <1>2, <2>2, <3>1, ModMultiple
  <2> QED BY Zenon, <1>3, <2>1, <2>2
<1>9. ASSUME NEW i \in 1 .. Held PROVE data'[(nread + i - 1) % PIPESIZE] = Contents[i]
  <2> DEFINE a == nread + i - 1  c == nread + Held
  <2>1. a \in Int /\ c \in Int /\ a < c /\ c < a + PIPESIZE BY <1>2, <1>3
  <2>2. Contents[i] = data[a % PIPESIZE] BY Zenon, ContentsIs
  <2>3. nwrite % PIPESIZE = c % PIPESIZE BY Zenon, <1>8
  <2> HIDE DEF a, c
  <2>4. a % PIPESIZE # c % PIPESIZE BY Zenon, <1>2, <2>1, ModDistinct
  <2>5. a % PIPESIZE \in 0 .. PIPESIZE - 1 BY <1>2, <2>1
  <2>6. data'[a % PIPESIZE] = data[a % PIPESIZE] BY Zenon, <1>1, <2>3, <2>4, <2>5, PipeTypes
  <2> QED BY Zenon, <2>2, <2>6 DEF a
<1>10. data'[(nread + Held) % PIPESIZE] = b
  <2>1. nwrite % PIPESIZE \in 0 .. PIPESIZE - 1 BY <1>2
  <2> QED BY Zenon, <1>1, <1>8, <2>1, PipeTypes
<1>11. Contents' = Append(Contents, b)
  <2>1. /\ Contents' \in Seq(Byte) /\ Len(Contents') = Held + 1
        /\ \A i \in 1 .. Held + 1 : Contents'[i] = data'[(nread + i - 1) % PIPESIZE]
    <3>1. (PInv => /\ Contents \in Seq(Byte) /\ Len(Contents) = Held
                   /\ \A i \in 1 .. Held : Contents[i] = data[(nread + i - 1) % PIPESIZE])'
      BY ContentsIs, PTL
    <3> QED BY Zenon, <1>1, <1>6, <3>1
  <2>2. Contents \in Seq(Byte) /\ Len(Contents) = Held BY Zenon, ContentsIs
  <2> DEFINE s == Contents  t == Contents'  n == Held  u == Append(Contents, b)
  <2>3. /\ s \in Seq(Byte) /\ Len(s) = n /\ n \in Nat /\ u = Append(s, b)
        /\ t \in Seq(Byte) /\ Len(t) = n + 1
    BY Zenon, <1>3, <2>1, <2>2
  <2>4. \A i \in 1 .. n : t[i] = s[i]
    <3>1. SUFFICES ASSUME NEW i \in 1 .. Held PROVE Contents'[i] = Contents[i] BY Zenon
    <3>2. i \in 1 .. Held + 1 BY <1>3
    <3> QED BY Zenon, <1>9, <2>1, <3>2
  <2>5. t[n + 1] = b
    <3>1. Held + 1 \in 1 .. Held + 1 /\ nread + (Held + 1) - 1 = nread + Held BY <1>2, <1>3
    <3> QED BY Zenon, <1>10, <2>1, <3>1
  <2> HIDE DEF s, t, n, u
  <2>6. u \in Seq(Byte) /\ Len(u) = n + 1 BY <2>3
  <2>7. \A i \in 1 .. n + 1 : u[i] = t[i] BY <2>3, <2>4, <2>5
  <2>8. u = t BY Zenon, <2>3, <2>6, <2>7, SameSeq
  <2> QED BY Zenon, <2>8 DEF t, u
<1> QED BY Zenon, <1>3, <1>7, <1>11

\* The byte read is the first of the queue.
LEMMA ReadIsGet ==
  ASSUME PInv, PInv', HeldBound, PopByte, ~Empty, data' = data, nwrite' = nwrite
  PROVE  HeldBound' /\ Contents' = Tail(Contents) /\ Contents # <<>>
<1>1. nread' = (nread + 1) % UintMod BY Zenon DEF PopByte
<1>2. /\ nread \in Nat /\ nread < UintMod /\ nwrite \in Nat /\ nwrite < UintMod
      /\ UintMod \in Nat \ {0} /\ PIPESIZE \in Nat \ {0} /\ PIPESIZE < UintMod
      /\ UintMod % PIPESIZE = 0
  BY Zenon, PipeTypes, PipeAssumption
<1>3. /\ Held \in Nat /\ 0 < Held /\ Held <= PIPESIZE
      /\ nread + Held = nwrite \/ nread + Held = nwrite + UintMod
  <2>1. Held \in Nat /\ Held # 0 BY Zenon, HeldIs
  <2>2. Held <= PIPESIZE BY Zenon DEF HeldBound
  <2> QED BY <2>1, <2>2, HeldIs
<1>4. /\ Held' \in Nat /\ Held' < UintMod
      /\ nread' + Held' = nwrite \/ nread' + Held' = nwrite + UintMod
  <2>1. (PInv => /\ Held \in Nat /\ Held < UintMod
                 /\ nread + Held = nwrite \/ nread + Held = nwrite + UintMod)'
    BY HeldIs, PTL
  <2> QED BY Zenon, <2>1
<1>5. nread' = IF nread + 1 < UintMod THEN nread + 1 ELSE 0
  <2> DEFINE x == nread + 1
  <2>1. x \in Int /\ 0 <= x /\ x <= UintMod /\ UintMod <= 2 * UintMod BY <1>2
  <2>2. nread' = x % UintMod BY Zenon, <1>1
  <2> HIDE DEF x
  <2>3. nread' = IF x < UintMod THEN x ELSE 0 BY <1>2, <2>1, <2>2
  <2> QED BY Zenon, <2>3 DEF x
<1>6. Held' = Held - 1
  <2> DEFINE h == Held  g == Held'
  <2>1. /\ h \in Nat /\ 0 < h /\ h <= PIPESIZE /\ (nread + h = nwrite \/ nread + h = nwrite + UintMod)
        /\ g \in Nat /\ g < UintMod /\ (nread' + g = nwrite \/ nread' + g = nwrite + UintMod)
    BY Zenon, <1>3, <1>4
  <2> HIDE DEF h, g
  <2>2. g = h - 1 BY <1>2, <1>5, <2>1
  <2> QED BY Zenon, <2>2 DEF h, g
<1>7. HeldBound' BY <1>2, <1>3, <1>6 DEF HeldBound
<1>8. ASSUME NEW i \in 1 .. Held - 1
      PROVE  data'[(nread' + i - 1) % PIPESIZE] = Contents[i + 1]
  <2>1. i + 1 \in 1 .. Held /\ nread + (i + 1) - 1 = nread + i BY <1>2, <1>3
  <2>2. Contents[i + 1] = data[(nread + i) % PIPESIZE] BY Zenon, <2>1, ContentsIs
  <2>3. (nread' + i - 1) % PIPESIZE = (nread + i) % PIPESIZE
    <3>1. CASE nread + 1 < UintMod
      <4>1. nread' + i - 1 = nread + i BY <1>2, <1>5, <3>1
      <4> QED BY Zenon, <4>1
    <3>2. CASE ~(nread + 1 < UintMod)
      <4> DEFINE x == nread' + i - 1
      <4>1. x \in Int /\ UintMod \in Int /\ x + UintMod = nread + i BY <1>2, <1>5, <3>2
      <4> HIDE DEF x
      <4>2. x % PIPESIZE = (nread + i) % PIPESIZE BY Zenon, <1>2, <4>1, ModMultiple
      <4> QED BY Zenon, <4>2 DEF x
    <3> QED BY Zenon, <3>1, <3>2
  <2> QED BY Zenon, <2>2, <2>3
<1>9. Contents' = Tail(Contents) /\ Contents # <<>>
  <2>1. /\ Contents' \in Seq(Byte) /\ Len(Contents') = Held - 1
        /\ \A i \in 1 .. Held - 1 : Contents'[i] = data'[(nread' + i - 1) % PIPESIZE]
    <3>1. (PInv => /\ Contents \in Seq(Byte) /\ Len(Contents) = Held
                   /\ \A i \in 1 .. Held : Contents[i] = data[(nread + i - 1) % PIPESIZE])'
      BY ContentsIs, PTL
    <3> QED BY Zenon, <1>6, <3>1
  <2>2. Contents \in Seq(Byte) /\ Len(Contents) = Held BY Zenon, ContentsIs
  <2>3. \A i \in 1 .. Held - 1 : Contents'[i] = Contents[i + 1] BY Zenon, <1>8, <2>1
  <2> DEFINE s == Contents  t == Contents'  n == Held  u == Tail(Contents)
  <2>4. /\ s \in Seq(Byte) /\ Len(s) = n /\ n \in Nat /\ 0 < n /\ u = Tail(s)
        /\ t \in Seq(Byte) /\ Len(t) = n - 1 /\ \A i \in 1 .. n - 1 : t[i] = s[i + 1]
    BY Zenon, <1>3, <2>1, <2>2, <2>3
  <2> HIDE DEF s, t, n, u
  <2>5. s # <<>> BY <2>4
  <2>6. u \in Seq(Byte) /\ Len(u) = n - 1 BY <2>4, <2>5
  <2>7. \A i \in 1 .. n - 1 : u[i] = t[i] BY <2>4, <2>5
  <2>8. u = t BY Zenon, <2>4, <2>6, <2>7, SameSeq
  <2> QED BY Zenon, <2>5, <2>8 DEF s, t, u
<1> QED BY Zenon, <1>7, <1>9

\* A pipe is empty when it is made.
LEMMA HeldStart == PipeInit => HeldBound /\ Stream!Init
<1> SUFFICES ASSUME PipeInit PROVE HeldBound /\ Stream!Init OBVIOUS
<1>1. PInv BY Zenon, PipeStart
<1>2. nread = nwrite /\ readopen = TRUE /\ writeopen = TRUE BY Zenon DEF PipeInit
<1>3. Held = 0 BY Zenon, <1>1, <1>2, HeldIs DEF Empty
<1>4. HeldBound BY <1>3, PipeAssumption DEF HeldBound
<1>5. Contents \in Seq(Byte) /\ Len(Contents) = 0 BY Zenon, <1>1, <1>3, ContentsIs
<1>6. Contents = <<>>
  <2> DEFINE s == Contents
  <2>1. s \in Seq(Byte) /\ Len(s) = 0 BY Zenon, <1>5
  <2> HIDE DEF s
  <2>2. s = <<>> BY <2>1
  <2> QED BY Zenon, <2>2 DEF s
<1> QED BY Zenon, <1>2, <1>4, <1>6 DEF Stream!Init

\* A step that leaves the ring buffer alone leaves the queue alone.
LEMMA SameQueue ==
  ASSUME HeldBound, UNCHANGED <<data, nread, nwrite>>
  PROVE  HeldBound' /\ Contents' = Contents
  BY Zenon DEF HeldBound, Held, Contents

\* Every step is a step of the queue.
LEMMA StreamStep ==
  ASSUME PInv, PInv', HeldBound, [PipeNext]_pipeVars
  PROVE  HeldBound' /\ [Stream!Next]_<<Contents, readopen, writeopen>>
<1> DEFINE Goal == HeldBound' /\ [Stream!Next]_<<Contents, readopen, writeopen>>
<1>1. ASSUME UNCHANGED <<data, nread, nwrite, readopen, writeopen>> PROVE Goal
  BY Zenon, <1>1, SameQueue
<1>2. ASSUME NEW p \in PipeProc, NEW b \in Byte, WriteByte(p, b) PROVE Goal
  <2>1. HeldBound' /\ Contents' = Append(Contents, b) /\ Held < PIPESIZE
    BY Zenon, <1>2, WriteIsPut
  <2>2. readopen /\ UNCHANGED <<readopen, writeopen>> BY Zenon, <1>2 DEF WriteByte
  <2>3. writeopen
    <3>1. ppc[p] \in WriteCalls BY Zenon, <1>2 DEF WriteByte, Writing, WriteCalls
    <3> QED BY Zenon, <3>1 DEF PInv, Calls, CallOf, EndsOpen
  <2>4. Contents \in Seq(Byte) /\ Len(Contents) = Held BY Zenon, ContentsIs
  <2>5. Contents' # Contents
    <3> DEFINE s == Contents
    <3>1. s \in Seq(Byte) BY Zenon, <2>4
    <3> HIDE DEF s
    <3>2. Len(Append(s, b)) = Len(s) + 1 /\ Len(s) \in Nat BY <3>1
    <3>3. Append(s, b) # s BY <3>2
    <3> QED BY Zenon, <2>1, <3>3 DEF s
  <2> QED BY Zenon, <2>1, <2>2, <2>3, <2>4, <2>5 DEF Stream!Next, Stream!Put
<1>3. ASSUME NEW p \in PipeProc, ReadByte(p) \/ ReadBadAddr(p) PROVE Goal
  <2>1. /\ ppc[p] = "copy" /\ PopByte /\ ~Empty
        /\ UNCHANGED <<data, nwrite, readopen, writeopen>>
    BY Zenon, <1>3 DEF ReadByte, ReadBadAddr
  <2>2. HeldBound' /\ Contents' = Tail(Contents) /\ Contents # <<>> BY Zenon, <2>1, ReadIsGet
  <2>3. readopen
    <3>1. ppc[p] \in ReadCalls BY Zenon, <2>1 DEF ReadCalls
    <3> QED BY Zenon, <3>1 DEF PInv, Calls, CallOf, EndsOpen
  <2>4. Contents' # Contents
    <3> DEFINE s == Contents
    <3>1. s \in Seq(Byte) /\ s # <<>> BY Zenon, <2>2, ContentsIs
    <3> HIDE DEF s
    <3>2. Len(Tail(s)) = Len(s) - 1 /\ Len(s) \in Nat BY <3>1
    <3>3. Tail(s) # s BY <3>2
    <3> QED BY Zenon, <2>2, <3>3 DEF s
  <2> QED BY Zenon, <2>1, <2>2, <2>3, <2>4 DEF Stream!Next, Stream!Get
<1>4. ASSUME NEW p \in PipeProc, NEW end \in Ends, PipeClose(p, end) PROVE Goal
  <2>1. /\ ppc[p] = CloseLabel(end) /\ UNCHANGED <<data, nread, nwrite>>
        /\ writeopen' = (writeopen /\ end # "w") /\ readopen' = (readopen /\ end # "r")
    BY Zenon, <1>4 DEF PipeClose
  <2>2. HeldBound' /\ Contents' = Contents BY Zenon, <2>1, SameQueue
  <2>3. CASE end = "w"
    <3>1. writeopen' = FALSE /\ readopen' = readopen BY Zenon, <2>1, <2>3, PipeTypes
    <3>2. writeopen BY Zenon, <2>1, <2>3 DEF CloseLabel, PInv, EndsOpen
    <3> QED BY Zenon, <2>2, <3>1, <3>2 DEF Stream!Next, Stream!CloseWrite
  <2>4. CASE end = "r"
    <3>1. readopen' = FALSE /\ writeopen' = writeopen BY Zenon, <2>1, <2>4, PipeTypes
    <3>2. readopen BY Zenon, <2>1, <2>4 DEF CloseLabel, PInv, EndsOpen
    <3> QED BY Zenon, <2>2, <3>1, <3>2 DEF Stream!Next, Stream!CloseRead
  <2> QED BY Zenon, <2>3, <2>4 DEF Ends
<1> HIDE DEF Goal
<1>5. ASSUME UNCHANGED pipeVars PROVE Goal
  <2>1. UNCHANGED <<data, nread, nwrite, readopen, writeopen>> BY Zenon, <1>5 DEF pipeVars, pipe
  <2> QED BY Zenon, <1>1, <2>1
<1>6. ASSUME NEW p \in PipeProc, NEW n \in Counts, WriteCall(p, n) \/ ReadCall(p, n) PROVE Goal
  <2>1. UNCHANGED <<data, nread, nwrite, readopen, writeopen>>
    BY Zenon, <1>6 DEF WriteCall, ReadCall, Call, pipe
  <2> QED BY Zenon, <1>1, <2>1
<1>7. ASSUME NEW p \in PipeProc, PipeStep(p) PROVE Goal
  <2>1. ASSUME \/ WriteFails(p) \/ WriteWait(p) \/ WriteSleep(p) \/ WriteDone(p)
               \/ ReadKilled(p) \/ ReadWait(p) \/ ReadSleep(p) \/ ReadReady(p) \/ ReadDone(p)
        PROVE  UNCHANGED <<data, nread, nwrite, readopen, writeopen>>
    BY Zenon, <2>1 DEF WriteFails, WriteWait, WriteSleep, WriteDone, ReadKilled, ReadWait,
       ReadSleep, Sleep, ReadReady, ReadDone, pipe
  <2> QED BY Zenon, <1>1, <1>2, <1>3, <1>7, <2>1 DEF PipeStep
<1>8. ASSUME NEW p \in PipeProc, PipeRelock(p) \/ PipeKill(p) PROVE Goal
  <2>1. UNCHANGED <<data, nread, nwrite, readopen, writeopen>>
    BY Zenon, <1>8 DEF PipeRelock, WriteWoken, ReadWoken, Relock, PipeKill, pipe
  <2> QED BY Zenon, <1>1, <2>1
<1>9. ASSUME NEW p \in PipeProc, NEW end \in Ends, FileClose(p, end) PROVE Goal
  <2>1. UNCHANGED <<data, nread, nwrite, readopen, writeopen>>
    BY Zenon, <1>9 DEF FileClose, pipe
  <2> QED BY Zenon, <1>1, <2>1
<1>10. ASSUME NEW p \in PipeProc, NEW q \in PipeProc \ {p}, PipeFork(p, q) PROVE Goal
  <2>1. UNCHANGED <<data, nread, nwrite, readopen, writeopen>>
    BY Zenon, <1>10 DEF PipeFork, pipe
  <2> QED BY Zenon, <1>1, <2>1
<1>11. Goal
  BY Zenon, <1>4, <1>5, <1>6, <1>7, <1>8, <1>9, <1>10 DEF PipeNext, PipeClosing
<1> QED BY Zenon, <1>11 DEF Goal

\* A read that returns nothing for lack of data found the write end closed.
LEMMA EofStep ==
  ASSUME PInv, NEW p \in PipeProc, ReadDone(p), moved[p] = 0
  PROVE  ~writeopen
<1>1. ppc[p] = "copy" /\ (moved[p] = todo[p] \/ Empty) BY Zenon DEF ReadDone
<1>2. todo[p] \in Counts BY Zenon, <1>1 DEF PInv, Calls, CallOf, ReadCalls
<1>3. todo[p] # 0 BY Zenon, <1>2, PipeAssumption
<1> QED BY Zenon, <1>1, <1>3 DEF PInv, CopyHasData

\* The pipe implements the queue of module Fifo for every buffer size, every counter
\* width that is a multiple of it, and any number of readers and writers: bytes leave
\* in the order they entered, none is lost or overwritten when nread and nwrite wrap,
\* and read() reports the end of file only when the write end is closed.
THEOREM PipeIsQueue == PipeInit /\ [][PipeNext]_pipeVars => PipeIsFifo
<1>1. PInv /\ PInv' /\ HeldBound /\ [PipeNext]_pipeVars
        => HeldBound' /\ [Stream!Next]_<<Contents, readopen, writeopen>>
  BY Zenon, StreamStep
<1>2. PInv => [\A p \in PipeProc : ReadDone(p) /\ moved[p] = 0 => ~writeopen]_pipeVars
  BY Zenon, EofStep
<1>3. PipeInit /\ [][PipeNext]_pipeVars => Stream!Spec
  BY <1>1, PipeStart, HeldStart, PipeStepInv, PTL DEF Stream!Spec
<1>4. PipeInit /\ [][PipeNext]_pipeVars => EofIsReal
  BY <1>2, PipeStart, PipeStepInv, PTL DEF EofIsReal
<1> QED BY <1>3, <1>4, PTL DEF PipeIsFifo
=============================================================================
