--------------------------- MODULE SpinlockProofs ---------------------------
(***************************************************************************)
(* Proofs about Spinlock, for every number of harts, threads and locks:    *)
(* noff counts the locks, no hart spins for a lock that it holds or takes  *)
(* an interrupt while it holds one, and interrupts come back as they were. *)
(***************************************************************************)
EXTENDS Spinlock, FiniteSetTheorems, TLAPS

SType ==
  /\ running \in [Hart -> Context]
  /\ sie \in [Hart -> BOOLEAN] /\ intena \in [Hart -> BOOLEAN] /\ noff \in [Hart -> Int]
  /\ owner \in [AllLocks -> Hart \cup {NoHart}]
  /\ frame \in [Context -> {"sys", "trap"}]
  /\ had \in [Context -> {{}}]
  /\ spin \in [Context -> AllLocks \cup {NoLock}]
  /\ spc \in [Thread -> {"run", "tosched", "sched", "out", "in", "release"}]
  /\ saved \in [Thread -> BOOLEAN]

\* A hart runs its own scheduler or a thread that is in, and no other hart does.
RunInv ==
  /\ \A h \in Hart : running[h] \in Hart => running[h] = h
  /\ \A h \in Hart : running[h] \in Thread => spc[running[h]] # "out"
  /\ \A h, g \in Hart : running[h] = running[g] => h = g

\* Only a running context spins, and a thread only outside sched() or for its p->lock.
SpinInv ==
  \A c \in Context : spin[c] # NoLock =>
    /\ \E h \in Hart : running[h] = c
    /\ c \in Thread => spc[c] = "run" \/ (spc[c] = "tosched" /\ spin[c] = c)

\* In and around sched() a thread's own lock is held by the hart that runs it, or
\* the thread spins for it.
OwnInv ==
  \A h \in Hart :
    running[h] \in Thread /\ spc[running[h]] # "run" =>
      owner[running[h]] = h \/ (spc[running[h]] = "tosched" /\ spin[running[h]] = running[h])

\* On its way to sched() a thread has one lock besides its own at most, and in
\* sched() none.
OneInv ==
  \A h \in Hart :
    /\ running[h] \in Thread /\ spc[running[h]] = "tosched" =>
         \E lk \in AllLocks : Holds(h) \subseteq {running[h], lk}
    /\ running[h] \in Thread /\ spc[running[h]] = "sched" => Holds(h) \subseteq {running[h]}

FinInv == \A h \in Hart : IsFiniteSet(Holds(h))

\* intena is what interrupts were when the thread took its first lock...
IntenaInv ==
  \A h \in Hart :
    running[h] \in Thread /\ spc[running[h]] # "in" /\ noff[h] # 0 =>
      (intena[h] <=> frame[running[h]] = "sys")

\* ... and saved keeps it while the thread is out.
SavedInv ==
  \A t \in Thread : spc[t] \in {"out", "in"} => (saved[t] <=> frame[t] = "sys")

SInv ==
  /\ SType /\ RunInv /\ SpinInv /\ OwnInv /\ OneInv /\ FinInv /\ IntenaInv /\ SavedInv
  /\ NoffExact /\ NoSelfDeadlock /\ InterruptsRestored

\* A hart that holds nothing and does not spin has noff 0; one that has interrupts
\* on holds nothing.
LEMMA NoffZero ==
  ASSUME SInv, NEW h \in Hart
  PROVE  /\ noff[h] \in Nat
         /\ noff[h] = 0 <=> Holds(h) = {} /\ spin[running[h]] = NoLock
         /\ sie[h] => noff[h] = 0
<1>1. IsFiniteSet(Holds(h)) BY Zenon DEF SInv, FinInv
<1>2. Cardinality(Holds(h)) \in Nat BY Zenon, <1>1, FS_CardinalityType
<1>3. Cardinality(Holds(h)) = 0 <=> Holds(h) = {} BY Zenon, <1>1, FS_EmptySet
<1>4. noff[h] = Cardinality(Holds(h)) + (IF spin[running[h]] = NoLock THEN 0 ELSE 1)
  BY Zenon DEF SInv, NoffExact
<1>5. sie[h] => Holds(h) = {} /\ spin[running[h]] = NoLock BY Zenon DEF SInv, NoSelfDeadlock
<1> QED BY <1>2, <1>3, <1>4, <1>5

\* The initial states satisfy the invariant.
LEMMA SpinInitInv == SpinInit => SInv
<1> SUFFICES ASSUME SpinInit PROVE SInv OBVIOUS
<1> USE SpinAssumption DEF SpinInit, Context, AllLocks
<1>1. \A h \in Hart : Holds(h) = {} BY Zenon DEF Holds
<1>2. SType BY DEF SType
<1>3. RunInv BY Zenon DEF RunInv
<1>4. SpinInv BY Zenon DEF SpinInv
<1>5. OwnInv BY Zenon DEF OwnInv
<1>51. OneInv BY Zenon DEF OneInv
<1>6. FinInv BY ZenonT(30), <1>1, FS_EmptySet DEF FinInv
<1>7. IntenaInv BY Zenon DEF IntenaInv
<1>8. SavedInv BY ZenonT(30) DEF SavedInv
<1>9. NoffExact BY <1>1, FS_EmptySet DEF NoffExact
<1>10. NoSelfDeadlock BY Zenon, <1>1 DEF NoSelfDeadlock
<1>11. InterruptsRestored BY Zenon DEF InterruptsRestored
<1> QED BY Zenon, <1>2, <1>3, <1>4, <1>5, <1>51, <1>6, <1>7, <1>8, <1>9, <1>10, <1>11 DEF SInv

\* The scheduler of a hart that runs a thread does not spin, nor does a thread
\* that is out.
LEMMA OthersQuiet ==
  ASSUME SInv
  PROVE  /\ \A h \in Hart : running[h] \in Thread => spin[h] = NoLock
         /\ \A t \in Thread : spc[t] \notin {"run", "tosched"} => spin[t] = NoLock
<1> USE SpinAssumption
<1>1. ASSUME NEW h \in Hart, running[h] \in Thread PROVE spin[h] = NoLock
  <2>1. \A g \in Hart : running[g] # h BY <1>1 DEF SInv, SType, RunInv, Context
  <2> QED BY Zenon, <2>1 DEF SInv, SpinInv, Context
<1>2. \A t \in Thread : spc[t] \notin {"run", "tosched"} => spin[t] = NoLock
  BY Zenon DEF SInv, SpinInv, Context
<1> QED BY Zenon, <1>1, <1>2

\* acquire turns interrupts off and starts to spin.
LEMMA AcquireBeginInv ==
  ASSUME SInv, NEW h \in Hart, NEW l \in AllLocks, AcquireBegin(h, l)
  PROVE  SInv'
<1> USE SpinAssumption DEF Context, AllLocks
<1> DEFINE c == running[h]
<1>1. /\ SType /\ RunInv /\ SpinInv /\ OwnInv /\ OneInv /\ FinInv /\ IntenaInv /\ SavedInv
      /\ NoffExact /\ NoSelfDeadlock /\ InterruptsRestored
  BY Zenon DEF SInv
<1>2. /\ c \in Context /\ spin[c] = NoLock /\ (c \in Thread => spc[c] = "run")
      /\ l \notin Holds(h) /\ l # NoLock
  BY <1>1 DEF AcquireBegin, MayTake, Idle, SType
<1>3. /\ sie' = [sie EXCEPT ![h] = FALSE]
      /\ intena' = [intena EXCEPT ![h] = IF noff[h] = 0 THEN sie[h] ELSE @]
      /\ noff' = [noff EXCEPT ![h] = @ + 1]
      /\ spin' = [spin EXCEPT ![c] = l]
      /\ UNCHANGED <<running, owner, frame, had, spc, saved>>
  BY Zenon DEF AcquireBegin, push_off
<1>4. \A g \in Hart : Holds(g)' = Holds(g) BY Zenon, <1>3 DEF Holds
<1>5. /\ \A g \in Hart \ {h} : spin'[running[g]] = spin[running[g]]
      /\ spin'[running[h]] = l
  BY Zenon, <1>1, <1>2, <1>3 DEF SType, RunInv
<1>6. SType' BY <1>1, <1>2, <1>3 DEF SType
<1>7. RunInv' BY Zenon, <1>1, <1>3 DEF RunInv
<1>8. SpinInv' BY <1>1, <1>2, <1>3 DEF SpinInv, SType
<1>9. OwnInv' BY Zenon, <1>1, <1>2, <1>3, <1>5 DEF OwnInv
<1>91. OneInv' BY <1>1, <1>3, <1>4 DEF OneInv
<1>10. FinInv' BY Zenon, <1>1, <1>4 DEF FinInv
<1>11. IntenaInv'
  <2>1. noff[h] = 0 /\ c \in Thread => (sie[h] <=> frame[c] = "sys")
    BY Zenon, <1>1, <1>2, NoffZero DEF InterruptsRestored, Idle
  <2> QED BY Zenon, <1>1, <1>2, <1>3, <2>1 DEF IntenaInv, SType
<1>12. SavedInv' BY Zenon, <1>1, <1>3 DEF SavedInv
<1>13. NoffExact'
  <2> SUFFICES ASSUME NEW g \in Hart
               PROVE  (noff[g] = Cardinality(Holds(g)) + (IF spin[running[g]] = NoLock THEN 0 ELSE 1))'
    BY Zenon DEF NoffExact
  <2>1. Cardinality(Holds(g)) \in Nat BY Zenon, <1>1, FS_CardinalityType DEF FinInv
  <2>2. noff[g] = Cardinality(Holds(g)) + (IF spin[running[g]] = NoLock THEN 0 ELSE 1)
    BY Zenon, <1>1 DEF NoffExact
  <2>3. Holds(g)' = Holds(g) BY Zenon, <1>4
  <2>4. CASE g = h BY <1>1, <1>2, <1>3, <1>5, <2>1, <2>2, <2>3, <2>4 DEF SType
  <2>5. CASE g # h BY Zenon, <1>1, <1>3, <1>5, <2>2, <2>3, <2>5 DEF SType
  <2> QED BY Zenon, <2>4, <2>5
<1>14. NoSelfDeadlock' BY <1>1, <1>2, <1>3, <1>4, <1>5 DEF NoSelfDeadlock, SType
<1>15. InterruptsRestored'
  <2>1. ~Idle(c)' BY Zenon, <1>2, <1>3, <1>5 DEF Idle
  <2>2. \A g \in Hart \ {h} : Idle(running[g])' = Idle(running[g])
    BY Zenon, <1>3, <1>5 DEF Idle
  <2> QED BY Zenon, <1>1, <1>3, <1>4, <2>1, <2>2 DEF InterruptsRestored, SType
<1> QED BY Zenon, <1>6, <1>7, <1>8, <1>9, <1>91, <1>10, <1>11, <1>12, <1>13, <1>14, <1>15 DEF
   SInv

\* The swap takes a lock that nobody holds.
LEMMA AcquireEndInv ==
  ASSUME SInv, NEW h \in Hart, AcquireEnd(h)
  PROVE  SInv'
<1> USE SpinAssumption DEF Context, AllLocks
<1> DEFINE c == running[h]
           l == spin[c]
<1>1. /\ SType /\ RunInv /\ SpinInv /\ OwnInv /\ OneInv /\ FinInv /\ IntenaInv /\ SavedInv
      /\ NoffExact /\ NoSelfDeadlock /\ InterruptsRestored
  BY Zenon DEF SInv
<1>2. /\ c \in Context /\ l \in AllLocks /\ l # NoLock /\ owner[l] = NoHart
      /\ c \in Thread => spc[c] = "run" \/ (spc[c] = "tosched" /\ l = c)
  BY <1>1 DEF AcquireEnd, SType, SpinInv
<1>3. /\ owner' = [owner EXCEPT ![l] = h]
      /\ spin' = [spin EXCEPT ![c] = NoLock]
      /\ UNCHANGED <<running, sie, noff, intena, frame, had, spc, saved>>
  BY Zenon DEF AcquireEnd
<1>4. /\ Holds(h)' = Holds(h) \cup {l} /\ l \notin Holds(h)
      /\ \A g \in Hart \ {h} : Holds(g)' = Holds(g)
  BY <1>1, <1>2, <1>3 DEF Holds, SType
<1>5. /\ \A g \in Hart \ {h} : spin'[running[g]] = spin[running[g]]
      /\ spin'[running[h]] = NoLock
  BY Zenon, <1>1, <1>2, <1>3 DEF SType, RunInv
<1>6. l = c => c \in Thread BY Zenon, <1>2
<1>7. SType' BY Zenon, <1>1, <1>2, <1>3, <1>6 DEF SType
<1>8. RunInv' BY Zenon, <1>1, <1>3 DEF RunInv, SType
<1>9. SpinInv' BY Zenon, <1>1, <1>2, <1>3 DEF SpinInv, SType
<1>10. OwnInv'
  <2> SUFFICES ASSUME NEW g \in Hart, running[g] \in Thread, spc'[running[g]] # "run"
               PROVE  owner'[running[g]] = g \/ (spc[running[g]] = "tosched" /\ spin'[running[g]] = running[g])
    BY Zenon, <1>3 DEF OwnInv
  <2>1. CASE g = h BY Zenon, <1>1, <1>2, <1>3, <2>1 DEF SType
  <2>2. CASE g # h
    <3>1. owner[running[g]] = g \/ (spc[running[g]] = "tosched" /\ spin[running[g]] = running[g])
      BY Zenon, <1>1, <1>3 DEF OwnInv
    <3>2. owner[running[g]] = g => owner'[running[g]] = g
      BY Zenon, <1>1, <1>2, <1>3 DEF SType
    <3> QED BY Zenon, <1>3, <1>5, <2>2, <3>1, <3>2
  <2> QED BY Zenon, <2>1, <2>2
<1>101. OneInv'
  <2> SUFFICES ASSUME NEW g \in Hart, running[g] \in Thread
               PROVE  /\ spc[running[g]] = "tosched" => \E lk \in AllLocks : Holds(g)' \subseteq {running[g], lk}
                      /\ spc[running[g]] = "sched" => Holds(g)' \subseteq {running[g]}
    BY Zenon, <1>3 DEF OneInv
  <2>1. CASE g = h BY <1>1, <1>2, <1>4, <2>1 DEF OneInv
  <2>2. CASE g # h BY <1>1, <1>4, <2>2 DEF OneInv
  <2> QED BY Zenon, <2>1, <2>2
<1>11. FinInv' BY Zenon, <1>1, <1>4, FS_AddElement DEF FinInv
<1>12. IntenaInv' BY Zenon, <1>1, <1>2, <1>3 DEF IntenaInv, SType, RunInv
<1>13. SavedInv' BY Zenon, <1>1, <1>2, <1>3 DEF SavedInv, SType
<1>14. NoffExact'
  <2> SUFFICES ASSUME NEW g \in Hart
               PROVE  (noff[g] = Cardinality(Holds(g)) + (IF spin[running[g]] = NoLock THEN 0 ELSE 1))'
    BY Zenon DEF NoffExact
  <2>1. IsFiniteSet(Holds(g)) /\ Cardinality(Holds(g)) \in Nat
    BY Zenon, <1>1, FS_CardinalityType DEF FinInv
  <2>2. noff[g] = Cardinality(Holds(g)) + (IF spin[running[g]] = NoLock THEN 0 ELSE 1)
    BY Zenon, <1>1 DEF NoffExact
  <2>3. CASE g = h
    <3>1. Cardinality(Holds(h)') = Cardinality(Holds(h)) + 1
      BY ZenonT(30), <1>4, <2>1, <2>3, FS_AddElement
    <3> QED BY <1>2, <1>3, <1>5, <2>1, <2>2, <2>3, <3>1
  <2>4. CASE g # h BY Zenon, <1>3, <1>4, <1>5, <2>2, <2>4
  <2> QED BY Zenon, <2>3, <2>4
<1>15. NoSelfDeadlock'
  <2> SUFFICES ASSUME NEW g \in Hart
               PROVE  (/\ Holds(g) # {} \/ spin[running[g]] # NoLock => ~sie[g]
                       /\ spin[running[g]] \notin Holds(g))'
    BY Zenon DEF NoSelfDeadlock
  <2>1. NoLock \notin Holds(h)' BY Zenon DEF Holds
  <2>2. CASE g = h BY Zenon, <1>1, <1>2, <1>3, <1>5, <2>1, <2>2 DEF NoSelfDeadlock
  <2>3. CASE g # h BY <1>1, <1>3, <1>4, <1>5, <2>3 DEF NoSelfDeadlock
  <2> QED BY Zenon, <2>2, <2>3
<1>16. InterruptsRestored'
  <2>1. Holds(h)' # {} BY Zenon, <1>4
  <2>2. \A g \in Hart \ {h} : Idle(running[g])' => Idle(running[g])
    BY Zenon, <1>1, <1>3, <1>5 DEF Idle, RunInv, SType
  <2> QED BY Zenon, <1>1, <1>3, <1>4, <2>1, <2>2 DEF InterruptsRestored
<1> QED BY Zenon, <1>7, <1>8, <1>9, <1>10, <1>101, <1>11, <1>12, <1>13, <1>14, <1>15, <1>16
   DEF SInv

\* release pops one level; interrupts come back with the last lock.
LEMMA ReleaseInv ==
  ASSUME SInv, NEW h \in Hart, NEW l \in AllLocks, Release(h, l)
  PROVE  SInv'
<1> USE SpinAssumption DEF Context, AllLocks
<1> DEFINE c == running[h]
<1>1. /\ SType /\ RunInv /\ SpinInv /\ OwnInv /\ OneInv /\ FinInv /\ IntenaInv /\ SavedInv
      /\ NoffExact /\ NoSelfDeadlock /\ InterruptsRestored
  BY Zenon DEF SInv
<1>2. /\ c \in Context /\ owner[l] = h /\ spin[c] = NoLock
      /\ c \in Thread => spc[c] \in {"run", "release"}
  BY <1>1, OthersQuiet DEF Release, Idle, SType
<1>3. /\ owner' = [owner EXCEPT ![l] = NoHart]
      /\ noff' = [noff EXCEPT ![h] = @ - 1]
      /\ sie' = [sie EXCEPT ![h] = noff[h] = 1 /\ intena[h]]
      /\ spc' = IF l = c THEN [spc EXCEPT ![c] = "run"] ELSE spc
      /\ UNCHANGED <<running, intena, frame, had, spin, saved>>
  BY Zenon DEF Release, pop_off
<1>4. /\ Holds(h)' = Holds(h) \ {l} /\ l \in Holds(h)
      /\ \A g \in Hart \ {h} : Holds(g)' = Holds(g)
  BY Zenon, <1>1, <1>2, <1>3 DEF Holds, SType
<1>5. l = c => c \in Thread BY Zenon, <1>2
<1>6. /\ IsFiniteSet(Holds(h)') /\ Cardinality(Holds(h)') = Cardinality(Holds(h)) - 1
      /\ Cardinality(Holds(h)') \in Nat
  BY <1>1, <1>4, FS_RemoveElement, FS_CardinalityType DEF FinInv
<1>7. noff[h] = Cardinality(Holds(h)') + 1
  <2>1. noff[h] = Cardinality(Holds(h)) + (IF spin[running[h]] = NoLock THEN 0 ELSE 1)
    BY Zenon, <1>1 DEF NoffExact
  <2>2. Cardinality(Holds(h)) \in Nat BY Zenon, <1>1, FS_CardinalityType DEF FinInv
  <2> QED BY <1>2, <1>6, <2>1, <2>2
<1>8. Holds(h)' = {} <=> noff[h] = 1 BY <1>6, <1>7, FS_EmptySet
<1>9. SType' BY <1>1, <1>2, <1>3, <1>5 DEF SType
<1>10. RunInv' BY Zenon, <1>1, <1>3 DEF RunInv, SType
<1>11. SpinInv' BY <1>1, <1>2, <1>3 DEF SpinInv, SType
<1>12. OwnInv'
  <2> SUFFICES ASSUME NEW g \in Hart, running[g] \in Thread, spc'[running[g]] # "run"
               PROVE  owner'[running[g]] = g \/ (spc'[running[g]] = "tosched" /\ spin[running[g]] = running[g])
    BY Zenon, <1>3 DEF OwnInv
  <2>1. spc[running[g]] # "run" /\ (l = c => running[g] # c)
    BY Zenon, <1>1, <1>3, <1>5 DEF SType
  <2>2. owner[running[g]] = g \/ (spc[running[g]] = "tosched" /\ spin[running[g]] = running[g])
    BY Zenon, <1>1, <2>1 DEF OwnInv
  <2>3. owner[running[g]] = g => l # running[g]
    <3>1. CASE g = h BY Zenon, <1>2, <2>1, <3>1 DEF Release, Idle
    <3>2. CASE g # h BY Zenon, <1>2, <3>2
    <3> QED BY Zenon, <3>1, <3>2
  <2>4. spc'[running[g]] = spc[running[g]] BY Zenon, <1>1, <1>3, <1>5, <2>1 DEF SType
  <2> QED BY Zenon, <1>1, <1>3, <2>2, <2>3, <2>4 DEF SType
<1>121. OneInv'
  <2> SUFFICES ASSUME NEW g \in Hart, running[g] \in Thread
               PROVE  /\ spc'[running[g]] = "tosched" => \E lk \in AllLocks : Holds(g)' \subseteq {running[g], lk}
                      /\ spc'[running[g]] = "sched" => Holds(g)' \subseteq {running[g]}
    BY Zenon, <1>3 DEF OneInv
  <2>1. CASE g = h BY <1>1, <1>2, <1>3, <2>1 DEF SType
  <2>2. CASE g # h
    <3>1. running[g] # c BY Zenon, <1>1, <2>2 DEF RunInv
    <3>2. spc'[running[g]] = spc[running[g]] BY Zenon, <1>1, <1>3, <1>5, <3>1 DEF SType
    <3> QED BY <1>1, <1>4, <2>2, <3>2 DEF OneInv
  <2> QED BY Zenon, <2>1, <2>2
<1>13. FinInv' BY ZenonT(30), <1>1, <1>4, <1>6 DEF FinInv
<1>14. IntenaInv'
  <2> SUFFICES ASSUME NEW g \in Hart, running[g] \in Thread, spc'[running[g]] # "in", noff'[g] # 0
               PROVE  intena[g] <=> frame[running[g]] = "sys"
    BY Zenon, <1>3 DEF IntenaInv
  <2>1. CASE g = h BY <1>1, <1>2, <1>6, <1>7, <2>1 DEF IntenaInv
  <2>2. CASE g # h
    <3>1. running[g] # c BY Zenon, <1>1, <2>2 DEF RunInv
    <3> QED BY Zenon, <1>1, <1>3, <2>2, <3>1 DEF IntenaInv, SType
  <2> QED BY Zenon, <2>1, <2>2
<1>15. SavedInv' BY Zenon, <1>1, <1>2, <1>3, <1>5 DEF SavedInv, SType
<1>16. NoffExact'
  <2> SUFFICES ASSUME NEW g \in Hart
               PROVE  (noff[g] = Cardinality(Holds(g)) + (IF spin[running[g]] = NoLock THEN 0 ELSE 1))'
    BY Zenon DEF NoffExact
  <2>1. CASE g = h
    <3>1. noff'[h] = Cardinality(Holds(h)') BY <1>1, <1>3, <1>6, <1>7 DEF SType
    <3> QED BY SMTT(30), <1>2, <1>3, <1>6, <2>1, <3>1
  <2>2. CASE g # h BY Zenon, <1>1, <1>3, <1>4, <2>2 DEF NoffExact, SType
  <2> QED BY Zenon, <2>1, <2>2
<1>17. NoSelfDeadlock'
  <2> SUFFICES ASSUME NEW g \in Hart
               PROVE  (/\ Holds(g) # {} \/ spin[running[g]] # NoLock => ~sie[g]
                       /\ spin[running[g]] \notin Holds(g))'
    BY Zenon DEF NoSelfDeadlock
  <2>1. NoLock \notin Holds(h)' BY Zenon DEF Holds
  <2>2. CASE g = h BY ZenonT(30), <1>1, <1>2, <1>3, <1>8, <2>1, <2>2 DEF SType
  <2>3. CASE g # h BY <1>1, <1>3, <1>4, <2>3 DEF NoSelfDeadlock, SType
  <2> QED BY Zenon, <2>2, <2>3
<1>18. InterruptsRestored'
  <2> SUFFICES ASSUME NEW g \in Hart, running[g] \in Thread, Idle(running[g])', Holds(g)' = {}
               PROVE  sie'[g] <=> frame[running[g]] = "sys"
    BY Zenon, <1>3 DEF InterruptsRestored
  <2>1. CASE g = h
    <3>1. intena[h] <=> frame[c] = "sys" BY <1>1, <1>2, <1>7, <1>8, <2>1 DEF IntenaInv
    <3> QED BY Zenon, <1>1, <1>3, <1>8, <2>1, <3>1 DEF SType
  <2>2. CASE g # h
    <3>1. Idle(running[g]) BY Zenon, <1>1, <1>3, <1>5, <2>2 DEF Idle, RunInv, SType
    <3> QED BY Zenon, <1>1, <1>3, <1>4, <2>2, <3>1 DEF InterruptsRestored, SType
  <2> QED BY Zenon, <2>1, <2>2
<1> QED BY Zenon, <1>9, <1>10, <1>11, <1>12, <1>121, <1>13, <1>14, <1>15, <1>16, <1>17, <1>18
   DEF SInv

\* yield, sleep and exit start to spin for p->lock, with one lock held at most.
LEMMA ToSchedInv ==
  ASSUME SInv, NEW h \in Hart, ToSched(h)
  PROVE  SInv'
<1> USE SpinAssumption DEF Context, AllLocks
<1> DEFINE c == running[h]
<1>1. /\ SType /\ RunInv /\ SpinInv /\ OwnInv /\ OneInv /\ FinInv /\ IntenaInv /\ SavedInv
      /\ NoffExact /\ NoSelfDeadlock /\ InterruptsRestored
  BY Zenon DEF SInv
<1>2. /\ c \in Thread /\ spin[c] = NoLock /\ spc[c] = "run"
      /\ Holds(h) = {} \/ \E lk \in Lock : Holds(h) = {lk}
  BY Zenon DEF ToSched, Idle
<1>3. /\ sie' = [sie EXCEPT ![h] = FALSE]
      /\ intena' = [intena EXCEPT ![h] = IF noff[h] = 0 THEN sie[h] ELSE @]
      /\ noff' = [noff EXCEPT ![h] = @ + 1]
      /\ spin' = [spin EXCEPT ![c] = c]
      /\ spc' = [spc EXCEPT ![c] = "tosched"]
      /\ UNCHANGED <<running, owner, frame, had, saved>>
  BY Zenon DEF ToSched, push_off
<1>4. /\ \A g \in Hart : Holds(g)' = Holds(g)
      /\ c \notin Holds(h) /\ c # NoLock
  <2>1. c \notin Holds(h) BY <1>2
  <2> QED BY Zenon, <1>2, <1>3, <2>1 DEF Holds
<1>5. /\ \A g \in Hart \ {h} : running[g] # c /\ spin'[running[g]] = spin[running[g]]
      /\ spin'[running[h]] = c /\ spc'[c] = "tosched"
      /\ \A t \in Thread : t # c => spc'[t] = spc[t]
  BY Zenon, <1>1, <1>2, <1>3 DEF SType, RunInv
<1>6. SType' BY <1>1, <1>2, <1>3 DEF SType
<1>7. RunInv' BY Zenon, <1>1, <1>3, <1>5 DEF RunInv
<1>8. SpinInv' BY <1>1, <1>2, <1>3, <1>5 DEF SpinInv, SType
<1>9. OwnInv' BY Zenon, <1>1, <1>3, <1>5 DEF OwnInv
<1>91. OneInv'
  <2> SUFFICES ASSUME NEW g \in Hart, running[g] \in Thread
               PROVE  /\ spc'[running[g]] = "tosched" => \E lk \in AllLocks : Holds(g) \subseteq {running[g], lk}
                      /\ spc'[running[g]] = "sched" => Holds(g) \subseteq {running[g]}
    BY <1>3, <1>4 DEF OneInv
  <2>1. CASE g = h BY <1>2, <1>5, <2>1
  <2>2. CASE g # h BY Zenon, <1>1, <1>5, <2>2 DEF OneInv
  <2> QED BY Zenon, <2>1, <2>2
<1>10. FinInv' BY Zenon, <1>1, <1>4 DEF FinInv
<1>11. IntenaInv'
  <2>1. noff[h] = 0 => (sie[h] <=> frame[c] = "sys")
    BY Zenon, <1>1, <1>2, NoffZero DEF InterruptsRestored, Idle
  <2>2. spc[c] # "in" BY Zenon, <1>2
  <2> QED BY <1>1, <1>2, <1>3, <1>5, <2>1, <2>2 DEF IntenaInv, SType
<1>12. SavedInv' BY Zenon, <1>1, <1>2, <1>3, <1>5 DEF SavedInv
<1>13. NoffExact'
  <2> SUFFICES ASSUME NEW g \in Hart
               PROVE  (noff[g] = Cardinality(Holds(g)) + (IF spin[running[g]] = NoLock THEN 0 ELSE 1))'
    BY Zenon DEF NoffExact
  <2>1. Cardinality(Holds(g)) \in Nat BY Zenon, <1>1, FS_CardinalityType DEF FinInv
  <2>2. noff[g] = Cardinality(Holds(g)) + (IF spin[running[g]] = NoLock THEN 0 ELSE 1)
    BY Zenon, <1>1 DEF NoffExact
  <2>3. Holds(g)' = Holds(g) BY Zenon, <1>4
  <2>4. CASE g = h BY <1>1, <1>2, <1>3, <1>4, <1>5, <2>1, <2>2, <2>3, <2>4 DEF SType
  <2>5. CASE g # h BY Zenon, <1>1, <1>3, <1>5, <2>2, <2>3, <2>5 DEF SType
  <2> QED BY Zenon, <2>4, <2>5
<1>14. NoSelfDeadlock' BY <1>1, <1>2, <1>3, <1>4, <1>5 DEF NoSelfDeadlock, SType
<1>15. InterruptsRestored'
  <2>1. ~Idle(c)' BY Zenon, <1>4, <1>5, <1>3 DEF Idle
  <2>2. \A g \in Hart \ {h} : running[g] \in Thread => Idle(running[g])' = Idle(running[g])
    BY Zenon, <1>3, <1>5 DEF Idle
  <2> QED BY Zenon, <1>1, <1>3, <1>4, <2>1, <2>2 DEF InterruptsRestored, SType
<1> QED BY Zenon, <1>6, <1>7, <1>8, <1>9, <1>91, <1>10, <1>11, <1>12, <1>13, <1>14, <1>15 DEF
   SInv

\* sleep and exit release their lock: sched() will find noff 1.
LEMMA GiveUpLockInv ==
  ASSUME SInv, NEW h \in Hart, GiveUpLock(h)
  PROVE  SInv'
<1> USE SpinAssumption DEF Context, AllLocks
<1> DEFINE c == running[h]
<1>1. /\ SType /\ RunInv /\ SpinInv /\ OwnInv /\ OneInv /\ FinInv /\ IntenaInv /\ SavedInv
      /\ NoffExact /\ NoSelfDeadlock /\ InterruptsRestored
  BY Zenon DEF SInv
<1>2. c \in Thread /\ spin[c] = NoLock /\ spc[c] = "tosched" /\ c # NoLock
  BY Zenon DEF GiveUpLock
<1>21. owner[c] = h /\ c \in Holds(h) BY Zenon, <1>1, <1>2 DEF OwnInv, Holds
<1>3. /\ spc' = [spc EXCEPT ![c] = "sched"]
      /\ UNCHANGED <<running, frame, had, spin, saved>>
  BY Zenon DEF GiveUpLock
<1>4. /\ \A g \in Hart \ {h} : running[g] # c
      /\ spc'[c] = "sched"
      /\ \A t \in Thread : t # c => spc'[t] = spc[t]
  BY Zenon, <1>1, <1>2, <1>3 DEF SType, RunInv
<1>5. PICK lk \in AllLocks : Holds(h) \subseteq {c, lk} BY Zenon, <1>1, <1>2 DEF OneInv
<1>6. /\ IsFiniteSet(Holds(h)) /\ Cardinality(Holds(h)) \in Nat /\ noff[h] = Cardinality(Holds(h))
      /\ ~sie[h] /\ noff[h] # 0 /\ (intena[h] <=> frame[c] = "sys")
  <2>1. IsFiniteSet(Holds(h)) /\ Cardinality(Holds(h)) \in Nat
    BY Zenon, <1>1, FS_CardinalityType DEF FinInv
  <2>2. noff[h] = Cardinality(Holds(h)) + (IF spin[running[h]] = NoLock THEN 0 ELSE 1)
    BY Zenon, <1>1 DEF NoffExact
  <2>3. noff[h] = Cardinality(Holds(h)) BY <1>2, <2>1, <2>2
  <2>4. ~sie[h] BY Zenon, <1>1, <1>21 DEF NoSelfDeadlock
  <2>5. noff[h] # 0 BY Zenon, <1>21, NoffZero
  <2>6. intena[h] <=> frame[c] = "sys" BY Zenon, <1>1, <1>2, <2>5 DEF IntenaInv
  <2> QED BY Zenon, <2>1, <2>3, <2>4, <2>5, <2>6
\* What is left is p->lock.
<1>7. /\ owner' \in [AllLocks -> Hart \cup {NoHart}] /\ owner'[c] = h
      /\ Holds(h)' = {c} /\ \A g \in Hart \ {h} : Holds(g)' = Holds(g)
      /\ \A g \in Hart \ {h} : \A t \in Thread : owner[t] = g => owner'[t] = g
      /\ noff' = [noff EXCEPT ![h] = 1] /\ sie' = [sie EXCEPT ![h] = FALSE] /\ intena' = intena
  <2>1. CASE Others(h) = {} /\ UNCHANGED <<owner, sie, noff, intena>>
    <3>1. Holds(h) = {c} BY <1>21, <2>1 DEF Others
    <3>2. Cardinality(Holds(h)) = 1 BY Zenon, <3>1, FS_Singleton
    <3>3. \A g \in Hart : Holds(g)' = Holds(g) BY Zenon, <2>1 DEF Holds
    <3>4. noff' = [noff EXCEPT ![h] = 1] /\ sie' = [sie EXCEPT ![h] = FALSE]
      BY <1>1, <1>6, <2>1, <3>2 DEF SType
    <3>5. owner' = owner /\ intena' = intena BY Zenon, <2>1
    <3> QED BY Zenon, <1>1, <1>21, <3>1, <3>3, <3>4, <3>5 DEF SType
  <2>2. CASE \E l \in Others(h) : owner' = [owner EXCEPT ![l] = NoHart] /\ pop_off(h)
    <3>1. PICK l \in Others(h) : owner' = [owner EXCEPT ![l] = NoHart] /\ pop_off(h)
      BY Zenon, <2>2
    <3>2. l \in AllLocks /\ l # c /\ owner[l] = h BY Zenon, <3>1 DEF Others, Holds
    <3>3. /\ Holds(h)' = Holds(h) \ {l} /\ l \in Holds(h)
          /\ \A g \in Hart \ {h} : Holds(g)' = Holds(g)
      BY Zenon, <1>1, <3>1, <3>2 DEF Holds, SType
    <3>4. Holds(h) = {c, l} BY <1>5, <1>21, <3>2, <3>3
    <3>5. Holds(h)' = {c} BY Zenon, <3>2, <3>3, <3>4
    <3>6. Cardinality({c}) = 1 BY Zenon, FS_Singleton
    <3>7. Cardinality(Holds(h) \ {l}) = Cardinality(Holds(h)) - 1
      BY Zenon, <1>6, <3>3, FS_RemoveElement
    <3>8. noff[h] = 2 BY <1>6, <3>3, <3>5, <3>6, <3>7
    <3>9. /\ noff' = [noff EXCEPT ![h] = @ - 1] /\ intena' = intena
          /\ sie' = [sie EXCEPT ![h] = noff[h] = 1 /\ intena[h]]
      BY Zenon, <3>1 DEF pop_off
    <3>10. noff' = [noff EXCEPT ![h] = 1] BY <3>8, <3>9
    <3>11. sie' = [sie EXCEPT ![h] = FALSE]
      <4>1. noff[h] # 1 BY <3>8
      <4>2. (noff[h] = 1 /\ intena[h]) = FALSE BY Zenon, <4>1
      <4> QED BY Zenon, <3>9, <4>2
    <3>12. owner' \in [AllLocks -> Hart \cup {NoHart}] /\ owner'[c] = h
      BY <1>1, <1>21, <3>1, <3>2 DEF SType
    <3>13. \A g \in Hart \ {h} : \A t \in Thread : owner[t] = g => owner'[t] = g
      BY Zenon, <1>1, <3>1, <3>2 DEF SType
    <3> QED BY Zenon, <3>3, <3>5, <3>9, <3>10, <3>11, <3>12, <3>13
  <2> QED BY Zenon, <2>1, <2>2 DEF GiveUpLock
<1>8. SType'
  <2>1. noff' \in [Hart -> Int] BY <1>1, <1>7 DEF SType
  <2>2. sie' \in [Hart -> BOOLEAN] BY Zenon, <1>1, <1>7 DEF SType
  <2>3. spc' \in [Thread -> {"run", "tosched", "sched", "out", "in", "release"}]
    BY Zenon, <1>1, <1>2, <1>3 DEF SType
  <2> QED BY Zenon, <1>1, <1>3, <1>7, <2>1, <2>2, <2>3 DEF SType
<1>9. RunInv' BY Zenon, <1>1, <1>3, <1>4 DEF RunInv
<1>10. SpinInv' BY Zenon, <1>1, <1>2, <1>3, <1>4 DEF SpinInv
<1>11. OwnInv'
  <2> SUFFICES ASSUME NEW g \in Hart, running[g] \in Thread, spc'[running[g]] # "run"
               PROVE  owner'[running[g]] = g \/ (spc'[running[g]] = "tosched" /\ spin[running[g]] = running[g])
    BY Zenon, <1>3 DEF OwnInv
  <2>1. CASE g = h BY Zenon, <1>7, <2>1
  <2>2. CASE g # h BY Zenon, <1>1, <1>4, <1>7, <2>2 DEF OwnInv
  <2> QED BY Zenon, <2>1, <2>2
<1>12. OneInv'
  <2> SUFFICES ASSUME NEW g \in Hart, running[g] \in Thread
               PROVE  /\ spc'[running[g]] = "tosched" => \E l \in AllLocks : Holds(g)' \subseteq {running[g], l}
                      /\ spc'[running[g]] = "sched" => Holds(g)' \subseteq {running[g]}
    BY Zenon, <1>3 DEF OneInv
  <2>1. CASE g = h BY Zenon, <1>4, <1>7, <2>1
  <2>2. CASE g # h BY <1>1, <1>4, <1>7, <2>2 DEF OneInv
  <2> QED BY Zenon, <2>1, <2>2
<1>13. FinInv'
  <2>1. IsFiniteSet({c}) BY Zenon, FS_Singleton
  <2>2. ASSUME NEW g \in Hart PROVE IsFiniteSet(Holds(g)')
    <3>1. CASE g = h
      <4>1. Holds(g)' = {c} BY Zenon, <1>7, <3>1
      <4> QED BY Zenon, <2>1, <4>1
    <3>2. CASE g # h
      <4>1. Holds(g)' = Holds(g) BY Zenon, <1>7, <3>2
      <4>2. IsFiniteSet(Holds(g)) BY Zenon, <1>1 DEF FinInv
      <4> QED BY Zenon, <4>1, <4>2
    <3> QED BY Zenon, <3>1, <3>2
  <2> QED BY Zenon, <2>2 DEF FinInv
<1>14. IntenaInv'
  <2> SUFFICES ASSUME NEW g \in Hart, running[g] \in Thread, spc'[running[g]] # "in", noff'[g] # 0
               PROVE  intena[g] <=> frame[running[g]] = "sys"
    BY Zenon, <1>3, <1>7 DEF IntenaInv
  <2>1. CASE g = h BY Zenon, <1>6, <2>1
  <2>2. CASE g # h BY <1>1, <1>4, <1>7, <2>2 DEF IntenaInv, SType
  <2> QED BY Zenon, <2>1, <2>2
<1>15. SavedInv' BY Zenon, <1>1, <1>3, <1>4 DEF SavedInv
<1>16. NoffExact'
  <2> SUFFICES ASSUME NEW g \in Hart
               PROVE  (noff[g] = Cardinality(Holds(g)) + (IF spin[running[g]] = NoLock THEN 0 ELSE 1))'
    BY Zenon DEF NoffExact
  <2>1. CASE g = h
    <3>1. Cardinality(Holds(h)') = 1 BY Zenon, <1>7, FS_Singleton
    <3>2. noff'[h] = 1 BY Zenon, <1>1, <1>7 DEF SType
    <3> QED BY <1>2, <1>3, <2>1, <3>1, <3>2
  <2>2. CASE g # h BY <1>1, <1>3, <1>7, <2>2 DEF NoffExact, SType
  <2> QED BY Zenon, <2>1, <2>2
<1>17. NoSelfDeadlock'
  <2> SUFFICES ASSUME NEW g \in Hart
               PROVE  (/\ Holds(g) # {} \/ spin[running[g]] # NoLock => ~sie[g]
                       /\ spin[running[g]] \notin Holds(g))'
    BY Zenon DEF NoSelfDeadlock
  <2>1. CASE g = h BY Zenon, <1>1, <1>2, <1>3, <1>7, <2>1 DEF SType
  <2>2. CASE g # h BY <1>1, <1>3, <1>7, <2>2 DEF NoSelfDeadlock, SType
  <2> QED BY Zenon, <2>1, <2>2
<1>18. InterruptsRestored'
  <2>1. ~Idle(c)' BY Zenon, <1>2, <1>3, <1>4 DEF Idle
  <2>2. \A g \in Hart \ {h} : running[g] \in Thread => Idle(running[g])' = Idle(running[g])
    BY Zenon, <1>3, <1>4 DEF Idle
  <2> QED BY <1>1, <1>3, <1>7, <2>1, <2>2 DEF InterruptsRestored, SType
<1> QED BY Zenon, <1>8, <1>9, <1>10, <1>11, <1>12, <1>13, <1>14, <1>15, <1>16, <1>17, <1>18
   DEF SInv

\* sched() saves intena with the thread.
LEMMA SchedInv ==
  ASSUME SInv, NEW h \in Hart, Sched(h)
  PROVE  SInv'
<1> USE SpinAssumption DEF Context, AllLocks
<1> DEFINE c == running[h]
<1>1. /\ SType /\ RunInv /\ SpinInv /\ OwnInv /\ OneInv /\ FinInv /\ IntenaInv /\ SavedInv
      /\ NoffExact /\ NoSelfDeadlock /\ InterruptsRestored
  BY Zenon DEF SInv
<1>2. c \in Thread /\ spc[c] = "sched" /\ owner[c] = h /\ spin[c] = NoLock /\ spin[h] = NoLock
  BY Zenon, <1>1, OthersQuiet DEF Sched, OwnInv
<1>3. /\ saved' = [saved EXCEPT ![c] = intena[h]]
      /\ spc' = [spc EXCEPT ![c] = "out"]
      /\ running' = [running EXCEPT ![h] = h]
      /\ UNCHANGED <<sie, noff, intena, owner, frame, had, spin>>
  BY Zenon DEF Sched
<1>4. \A g \in Hart : Holds(g)' = Holds(g) BY Zenon, <1>3 DEF Holds
<1>5. /\ \A g \in Hart \ {h} : running'[g] = running[g] /\ running[g] # c
      /\ running'[h] = h
      /\ \A g \in Hart : running[g] # h
  BY <1>1, <1>2, <1>3 DEF SType, RunInv
<1>6. noff[h] # 0 BY Zenon, <1>2, NoffZero DEF Holds
<1>7. SType' BY Zenon, <1>1, <1>2, <1>3 DEF SType
<1>8. RunInv' BY <1>1, <1>2, <1>3, <1>5 DEF RunInv, SType
<1>9. SpinInv'
  <2> SUFFICES ASSUME NEW d \in Context, spin[d] # NoLock
               PROVE  /\ \E g \in Hart : running'[g] = d
                      /\ d \in Thread => spc'[d] = "run" \/ (spc'[d] = "tosched" /\ spin[d] = d)
    BY Zenon, <1>3 DEF SpinInv
  <2>1. d # c BY Zenon, <1>2
  <2>2. PICK g \in Hart : running[g] = d BY Zenon, <1>1 DEF SpinInv
  <2>3. running'[g] = d BY Zenon, <1>5, <2>1, <2>2
  <2> QED BY Zenon, <1>1, <1>3, <2>1, <2>3 DEF SpinInv, SType
<1>10. OwnInv' BY <1>1, <1>2, <1>3, <1>5 DEF OwnInv, SType
<1>101. OneInv' BY <1>1, <1>2, <1>3, <1>4, <1>5 DEF OneInv, SType
<1>11. FinInv' BY Zenon, <1>1, <1>4 DEF FinInv
<1>12. IntenaInv' BY Zenon, <1>1, <1>2, <1>3, <1>5 DEF IntenaInv, SType
<1>13. SavedInv'
  <2>1. intena[h] <=> frame[c] = "sys" BY Zenon, <1>1, <1>2, <1>6 DEF IntenaInv
  <2> QED BY Zenon, <1>1, <1>2, <1>3, <2>1 DEF SavedInv, SType
<1>14. NoffExact' BY SMTT(30), <1>1, <1>2, <1>3, <1>4, <1>5 DEF NoffExact
<1>15. NoSelfDeadlock' BY SMTT(30), <1>1, <1>2, <1>3, <1>4, <1>5 DEF NoSelfDeadlock
<1>16. InterruptsRestored'
  <2> SUFFICES ASSUME NEW g \in Hart, running'[g] \in Thread, Idle(running[g])', Holds(g)' = {}
               PROVE  sie[g] <=> frame[running'[g]] = "sys"
    BY Zenon, <1>3 DEF InterruptsRestored
  <2>1. g # h /\ running'[g] = running[g] BY Zenon, <1>5
  <2>2. Idle(running[g]) BY Zenon, <1>1, <1>3, <1>5, <2>1 DEF Idle, SType
  <2> QED BY Zenon, <1>1, <1>4, <2>1, <2>2 DEF InterruptsRestored
<1> QED BY Zenon, <1>7, <1>8, <1>9, <1>10, <1>101, <1>11, <1>12, <1>13, <1>14, <1>15, <1>16
   DEF SInv

\* The scheduler switches to a thread whose lock it holds.
LEMMA SwitchToInv ==
  ASSUME SInv, NEW h \in Hart, NEW t \in Thread, SwitchTo(h, t)
  PROVE  SInv'
<1> USE SpinAssumption DEF Context, AllLocks
<1> DEFINE c == running[h]
<1>1. /\ SType /\ RunInv /\ SpinInv /\ OwnInv /\ OneInv /\ FinInv /\ IntenaInv /\ SavedInv
      /\ NoffExact /\ NoSelfDeadlock /\ InterruptsRestored
  BY Zenon DEF SInv
<1>2. running[h] = h /\ spin[h] = NoLock /\ owner[t] = h /\ spc[t] = "out" /\ spin[t] = NoLock
  <2>1. Holds(h) = {t} BY Zenon DEF SwitchTo
  <2>2. owner[t] = h BY Zenon, <2>1 DEF Holds
  <2> QED BY Zenon, <2>2, OthersQuiet DEF SwitchTo, Idle
<1>3. /\ running' = [running EXCEPT ![h] = t]
      /\ spc' = [spc EXCEPT ![t] = "in"]
      /\ UNCHANGED <<sie, noff, intena, owner, frame, had, spin, saved>>
  BY Zenon DEF SwitchTo
<1>4. \A g \in Hart : Holds(g)' = Holds(g) BY Zenon, <1>3 DEF Holds
<1>5. /\ \A g \in Hart \ {h} : running'[g] = running[g] /\ running[g] # h
      /\ running'[h] = t
      /\ \A g \in Hart : running[g] # t
  BY SMTT(30), <1>1, <1>2, <1>3 DEF SType, RunInv
<1>6. Holds(h) # {} BY Zenon, <1>2 DEF Holds
<1>7. SType' BY Zenon, <1>1, <1>2, <1>3 DEF SType
<1>8. RunInv' BY SMTT(30), <1>1, <1>2, <1>3, <1>5 DEF RunInv, SType
<1>9. SpinInv'
  <2> SUFFICES ASSUME NEW d \in Context, spin[d] # NoLock
               PROVE  /\ \E g \in Hart : running'[g] = d
                      /\ d \in Thread => spc'[d] = "run" \/ (spc'[d] = "tosched" /\ spin[d] = d)
    BY Zenon, <1>3 DEF SpinInv
  <2>1. d # h /\ d # t BY Zenon, <1>2
  <2>2. PICK g \in Hart : running[g] = d BY Zenon, <1>1 DEF SpinInv
  <2>3. running'[g] = d BY Zenon, <1>2, <1>5, <2>1, <2>2
  <2> QED BY Zenon, <1>1, <1>3, <2>1, <2>3 DEF SpinInv, SType
<1>10. OwnInv' BY Zenon, <1>1, <1>2, <1>3, <1>5 DEF OwnInv, SType
<1>101. OneInv' BY <1>1, <1>2, <1>3, <1>4, <1>5 DEF OneInv, SType
<1>11. FinInv' BY Zenon, <1>1, <1>4 DEF FinInv
<1>12. IntenaInv' BY SMTT(30), <1>1, <1>2, <1>3, <1>5 DEF IntenaInv, SType
<1>13. SavedInv' BY Zenon, <1>1, <1>2, <1>3 DEF SavedInv, SType
<1>14. NoffExact' BY SMTT(30), <1>1, <1>2, <1>3, <1>4, <1>5 DEF NoffExact
<1>15. NoSelfDeadlock' BY SMTT(30), <1>1, <1>2, <1>3, <1>4, <1>5 DEF NoSelfDeadlock
<1>16. InterruptsRestored'
  <2> SUFFICES ASSUME NEW g \in Hart, running'[g] \in Thread, Idle(running[g])', Holds(g)' = {}
               PROVE  sie[g] <=> frame[running'[g]] = "sys"
    BY Zenon, <1>3 DEF InterruptsRestored
  <2>1. g # h /\ running'[g] = running[g] BY Zenon, <1>4, <1>5, <1>6
  <2>2. Idle(running[g]) BY Zenon, <1>1, <1>3, <1>5, <2>1 DEF Idle, SType
  <2> QED BY Zenon, <1>1, <1>4, <2>1, <2>2 DEF InterruptsRestored
<1> QED BY Zenon, <1>7, <1>8, <1>9, <1>10, <1>101, <1>11, <1>12, <1>13, <1>14, <1>15, <1>16
   DEF SInv

\* Back in sched() the thread puts its intena into the hart it is on now.
LEMMA SchedBackInv ==
  ASSUME SInv, NEW h \in Hart, SchedBack(h)
  PROVE  SInv'
<1> USE SpinAssumption DEF Context, AllLocks
<1> DEFINE c == running[h]
<1>1. /\ SType /\ RunInv /\ SpinInv /\ OwnInv /\ OneInv /\ FinInv /\ IntenaInv /\ SavedInv
      /\ NoffExact /\ NoSelfDeadlock /\ InterruptsRestored
  BY Zenon DEF SInv
<1>2. c \in Thread /\ spc[c] = "in" /\ owner[c] = h /\ spin[c] = NoLock
  BY Zenon, <1>1, OthersQuiet DEF SchedBack, OwnInv
<1>3. /\ intena' = [intena EXCEPT ![h] = saved[c]]
      /\ spc' = [spc EXCEPT ![c] = "release"]
      /\ UNCHANGED <<running, sie, noff, owner, frame, had, spin, saved>>
  BY Zenon, SMTT(30) DEF SchedBack, RestoreIntena
<1>4. \A g \in Hart : Holds(g)' = Holds(g) BY Zenon, <1>3 DEF Holds
<1>5. \A g \in Hart \ {h} : running[g] # c BY Zenon, <1>1 DEF RunInv
<1>6. SType' BY Zenon, <1>1, <1>2, <1>3 DEF SType
<1>7. RunInv' BY Zenon, <1>1, <1>2, <1>3 DEF RunInv, SType
<1>8. SpinInv' BY <1>1, <1>2, <1>3 DEF SpinInv, SType
<1>9. OwnInv' BY Zenon, <1>1, <1>2, <1>3, <1>5 DEF OwnInv, SType
<1>91. OneInv' BY <1>1, <1>2, <1>3, <1>4, <1>5 DEF OneInv, SType
<1>10. FinInv' BY Zenon, <1>1, <1>4 DEF FinInv
<1>11. IntenaInv' BY SMTT(30), <1>1, <1>2, <1>3, <1>5 DEF IntenaInv, SavedInv, SType
<1>12. SavedInv' BY Zenon, <1>1, <1>2, <1>3 DEF SavedInv, SType
<1>13. NoffExact' BY Zenon, <1>1, <1>3, <1>4 DEF NoffExact
<1>14. NoSelfDeadlock' BY Zenon, <1>1, <1>3, <1>4 DEF NoSelfDeadlock
<1>15. InterruptsRestored'
  <2>1. \A g \in Hart : running[g] \in Thread /\ Idle(running[g])' => Idle(running[g])
    BY Zenon, <1>1, <1>2, <1>3 DEF Idle, SType
  <2> QED BY Zenon, <1>1, <1>3, <1>4, <2>1 DEF InterruptsRestored
<1> QED BY Zenon, <1>6, <1>7, <1>8, <1>9, <1>91, <1>10, <1>11, <1>12, <1>13, <1>14, <1>15 DEF
   SInv

\* scheduler() turns interrupts on, holding nothing.
LEMMA IntrOnInv ==
  ASSUME SInv, NEW h \in Hart, IntrOn(h)
  PROVE  SInv'
<1> USE SpinAssumption DEF Context, AllLocks
<1> DEFINE c == running[h]
<1>1. /\ SType /\ RunInv /\ SpinInv /\ OwnInv /\ OneInv /\ FinInv /\ IntenaInv /\ SavedInv
      /\ NoffExact /\ NoSelfDeadlock /\ InterruptsRestored
  BY Zenon DEF SInv
<1>2. c = h /\ Holds(h) = {} /\ spin[c] = NoLock /\ noff[h] = 0
  BY Zenon, NoffZero DEF IntrOn, Idle
<1>3. /\ sie' = [sie EXCEPT ![h] = TRUE]
      /\ UNCHANGED <<running, noff, intena, owner, frame, had, spin, spc, saved>>
  BY Zenon DEF IntrOn
<1>4. \A g \in Hart : Holds(g)' = Holds(g) BY Zenon, <1>3 DEF Holds
<1>5. \A g \in Hart \ {h} : running[g] # c BY Zenon, <1>1 DEF RunInv
<1>6. SType' BY Zenon, <1>1, <1>2, <1>3 DEF SType
<1>7. RunInv' /\ SpinInv' /\ OwnInv' /\ OneInv'
  BY <1>1, <1>3, <1>4 DEF RunInv, SpinInv, OwnInv, OneInv
<1>8. FinInv' BY Zenon, <1>1, <1>4 DEF FinInv
<1>9. IntenaInv' BY Zenon, <1>1, <1>2, <1>3, <1>5 DEF IntenaInv, SType
<1>10. SavedInv' BY Zenon, <1>1, <1>2, <1>3 DEF SavedInv, SType
<1>11. NoffExact' BY Zenon, <1>1, <1>3, <1>4 DEF NoffExact
<1>12. NoSelfDeadlock' BY <1>1, <1>2, <1>3, <1>4 DEF NoSelfDeadlock, SType
<1>13. InterruptsRestored'
  <2>1. \A g \in Hart : Idle(running[g])' = Idle(running[g]) BY Zenon, <1>3 DEF Idle
  <2> QED BY <1>1, <1>2, <1>3, <1>4, <1>5, <2>1 DEF InterruptsRestored, SType
<1> QED BY Zenon, <1>6, <1>7, <1>8, <1>9, <1>10, <1>11, <1>12, <1>13 DEF SInv

\* An interrupt finds no lock held.
LEMMA KernelTrapInv ==
  ASSUME SInv, NEW h \in Hart, KernelTrap(h)
  PROVE  SInv'
<1> USE SpinAssumption DEF Context, AllLocks
<1> DEFINE c == running[h]
<1>1. /\ SType /\ RunInv /\ SpinInv /\ OwnInv /\ OneInv /\ FinInv /\ IntenaInv /\ SavedInv
      /\ NoffExact /\ NoSelfDeadlock /\ InterruptsRestored
  BY Zenon DEF SInv
<1>2. /\ c \in Context /\ noff[h] = 0 /\ Holds(h) = {} /\ spin[c] = NoLock
      /\ c \in Thread => spc[c] = "run"
  <2>1. noff[h] = 0 /\ Holds(h) = {} /\ spin[c] = NoLock BY Zenon, NoffZero DEF KernelTrap
  <2>2. c \in Thread => owner[c] # h BY Zenon, <2>1 DEF Holds
  <2> QED BY <1>1, <2>1, <2>2 DEF SType, OwnInv
<1>3. /\ frame' = [frame EXCEPT ![c] = "trap"] /\ had' = [had EXCEPT ![c] = Holds(h)]
      /\ sie' = [sie EXCEPT ![h] = FALSE]
      /\ UNCHANGED <<running, noff, intena, owner, spin, spc, saved>>
  BY Zenon DEF KernelTrap
<1>4. \A g \in Hart : Holds(g)' = Holds(g) BY Zenon, <1>3 DEF Holds
<1>5. \A g \in Hart \ {h} : running[g] # c BY Zenon, <1>1 DEF RunInv
<1>6. SType' BY <1>1, <1>2, <1>3 DEF SType
<1>7. RunInv' /\ SpinInv' /\ OwnInv' /\ OneInv'
  BY <1>1, <1>3, <1>4 DEF RunInv, SpinInv, OwnInv, OneInv
<1>8. FinInv' BY Zenon, <1>1, <1>4 DEF FinInv
<1>9. IntenaInv' BY Zenon, <1>1, <1>2, <1>3, <1>5 DEF IntenaInv, SType
<1>10. SavedInv' BY Zenon, <1>1, <1>2, <1>3 DEF SavedInv, SType
<1>11. NoffExact' BY Zenon, <1>1, <1>3, <1>4 DEF NoffExact
<1>12. NoSelfDeadlock' BY SMTT(30), <1>1, <1>2, <1>3, <1>4 DEF NoSelfDeadlock, SType
<1>13. InterruptsRestored'
  <2>1. \A g \in Hart : Idle(running[g])' = Idle(running[g]) BY Zenon, <1>3 DEF Idle
  <2> QED BY Zenon, <1>1, <1>2, <1>3, <1>4, <1>5, <2>1 DEF InterruptsRestored, SType
<1> QED BY Zenon, <1>6, <1>7, <1>8, <1>9, <1>10, <1>11, <1>12, <1>13 DEF SInv

\* kerneltrap returns.
LEMMA TrapReturnInv ==
  ASSUME SInv, NEW h \in Hart, TrapReturn(h)
  PROVE  SInv'
<1> USE SpinAssumption DEF Context, AllLocks
<1> DEFINE c == running[h]
<1>1. /\ SType /\ RunInv /\ SpinInv /\ OwnInv /\ OneInv /\ FinInv /\ IntenaInv /\ SavedInv
      /\ NoffExact /\ NoSelfDeadlock /\ InterruptsRestored
  BY Zenon DEF SInv
<1>2. /\ c \in Context /\ noff[h] = 0 /\ Holds(h) = {} /\ spin[c] = NoLock
      /\ c \in Thread => spc[c] = "run"
  <2>1. Holds(h) = {} BY <1>1 DEF TrapReturn, SType
  <2> QED BY Zenon, <1>1, <2>1, NoffZero DEF TrapReturn, Idle, SType
<1>3. /\ frame' = [frame EXCEPT ![c] = "sys"] /\ had' = [had EXCEPT ![c] = {}]
      /\ sie' = [sie EXCEPT ![h] = TRUE]
      /\ UNCHANGED <<running, noff, intena, owner, spin, spc, saved>>
  BY Zenon DEF TrapReturn
<1>4. \A g \in Hart : Holds(g)' = Holds(g) BY Zenon, <1>3 DEF Holds
<1>5. \A g \in Hart \ {h} : running[g] # c BY Zenon, <1>1 DEF RunInv
<1>6. SType' BY <1>1, <1>2, <1>3 DEF SType
<1>7. RunInv' /\ SpinInv' /\ OwnInv' /\ OneInv'
  BY <1>1, <1>3, <1>4 DEF RunInv, SpinInv, OwnInv, OneInv
<1>8. FinInv' BY Zenon, <1>1, <1>4 DEF FinInv
<1>9. IntenaInv' BY Zenon, <1>1, <1>2, <1>3, <1>5 DEF IntenaInv, SType
<1>10. SavedInv' BY Zenon, <1>1, <1>2, <1>3 DEF SavedInv, SType
<1>11. NoffExact' BY Zenon, <1>1, <1>3, <1>4 DEF NoffExact
<1>12. NoSelfDeadlock' BY SMTT(30), <1>1, <1>2, <1>3, <1>4 DEF NoSelfDeadlock, SType
<1>13. InterruptsRestored'
  <2>1. \A g \in Hart : Idle(running[g])' = Idle(running[g]) BY Zenon, <1>3 DEF Idle
  <2> QED BY Zenon, <1>1, <1>2, <1>3, <1>4, <1>5, <2>1 DEF InterruptsRestored, SType
<1> QED BY Zenon, <1>6, <1>7, <1>8, <1>9, <1>10, <1>11, <1>12, <1>13 DEF SInv

\* Every step keeps the invariant.
LEMMA SpinNextInv == SInv /\ [SpinNext]_spinVars => SInv'
<1> SUFFICES ASSUME SInv, [SpinNext]_spinVars PROVE SInv' OBVIOUS
<1>1. CASE UNCHANGED spinVars
  <2>1. \A h \in Hart : Holds(h)' = Holds(h) BY Zenon, <1>1 DEF spinVars, Holds
  <2>2. \A c \in Context : Idle(c)' = Idle(c) BY ZenonT(30), <1>1 DEF spinVars, Idle
  <2> QED BY SMTT(30), <1>1, <2>1, <2>2 DEF spinVars, SInv, SType, RunInv, SpinInv, OwnInv,
     OneInv, FinInv, IntenaInv,
                SavedInv, NoffExact, NoSelfDeadlock, InterruptsRestored
<1>2. CASE SpinNext
  <2>1. PICK h \in Hart :
          \/ \E l \in AllLocks : AcquireBegin(h, l) \/ Release(h, l)
          \/ \E t \in Thread : SwitchTo(h, t)
          \/ AcquireEnd(h) \/ ToSched(h) \/ GiveUpLock(h) \/ Sched(h) \/ SchedBack(h) \/ IntrOn(h) \/ KernelTrap(h) \/ TrapReturn(h)
    BY Zenon, <1>2 DEF SpinNext
  <2>2. CASE \E l \in AllLocks : AcquireBegin(h, l) BY Zenon, <2>2, AcquireBeginInv
  <2>3. CASE \E l \in AllLocks : Release(h, l) BY Zenon, <2>3, ReleaseInv
  <2>4. CASE \E t \in Thread : SwitchTo(h, t) BY Zenon, <2>4, SwitchToInv
  <2>5. CASE AcquireEnd(h) BY Zenon, <2>5, AcquireEndInv
  <2>6. CASE Sched(h) BY Zenon, <2>6, SchedInv
  <2>7. CASE SchedBack(h) BY Zenon, <2>7, SchedBackInv
  <2>8. CASE IntrOn(h) BY Zenon, <2>8, IntrOnInv
  <2>9. CASE KernelTrap(h) BY Zenon, <2>9, KernelTrapInv
  <2>10. CASE TrapReturn(h) BY Zenon, <2>10, TrapReturnInv
  <2>11. CASE ToSched(h) BY Zenon, <2>11, ToSchedInv
  <2>12. CASE GiveUpLock(h) BY Zenon, <2>12, GiveUpLockInv
  <2> QED BY Zenon, <2>1, <2>2, <2>3, <2>4, <2>5, <2>6, <2>7, <2>8, <2>9, <2>10, <2>11, <2>12
<1> QED BY Zenon, <1>1, <1>2

\* The invariant holds throughout.
LEMMA SpinInvariant == SpinSpec => []SInv
BY SpinInitInv, SpinNextInv, PTL DEF SpinSpec

\* A hart has interrupts off while it holds or waits for a lock, and never spins
\* for one that it holds: no interrupt handler can deadlock with the code below it.
THEOREM HandlersCannotDeadlock == SpinSpec => []NoSelfDeadlock
<1>1. SInv => NoSelfDeadlock BY Zenon DEF SInv
<1> QED BY <1>1, SpinInvariant, PTL

\* noff is the number of locks of the hart whatever switches happened since they
\* were taken: pop_off never finds it 0, and sched() finds it 1 although sleep and
\* exit take p->lock with another lock held.  After its last release a thread has
\* interrupts as they were before its first acquire, though sched() may have moved it
\* to another hart in between.
THEOREM InterruptsComeBack == SpinSpec => []NestingExact
<1>1. SInv => SchedReady
  <2> SUFFICES ASSUME SInv, NEW h \in Hart, running[h] \in Thread, spc[running[h]] = "sched"
               PROVE  Holds(h) = {running[h]} /\ noff[h] = 1 /\ ~sie[h]
    BY Zenon DEF SchedReady
  <2>1. running[h] \in Holds(h) BY Zenon DEF SInv, OwnInv, Holds, AllLocks
  <2>2. Holds(h) = {running[h]} BY <2>1 DEF SInv, OneInv
  <2>3. spin[running[h]] = NoLock BY Zenon, OthersQuiet
  <2>4. Cardinality(Holds(h)) = 1 BY Zenon, <2>2, FS_Singleton
  <2>5. noff[h] = Cardinality(Holds(h)) + (IF spin[running[h]] = NoLock THEN 0 ELSE 1)
    BY Zenon DEF SInv, NoffExact
  <2>6. noff[h] = 1 BY <2>3, <2>4, <2>5
  <2>7. ~sie[h] BY Zenon, <2>2 DEF SInv, NoSelfDeadlock
  <2> QED BY Zenon, <2>2, <2>6, <2>7
<1>2. SInv => NestingExact BY Zenon, <1>1 DEF SInv, NestingExact
<1> QED BY <1>2, SpinInvariant, PTL
=============================================================================
