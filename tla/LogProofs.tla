------------------------------ MODULE LogProofs ------------------------------
(***************************************************************************)
(* Proofs about Log, for every set of threads, blocks and values and every *)
(* size of the log: LogSafe, and that the detailed log implements the      *)
(* atomic transactions of Durable.                                         *)
(***************************************************************************)
EXTENDS LogStepProofs, FiniteSetTheorems

\* The facts about finite sets that the steps use hold.
LEMMA SetFactsHold == SetFacts
<1>1. EmptyFact BY Zenon, OpAssumption, FS_EmptySet, FS_CardinalityType DEF EmptyFact
<1>2. CountFact BY Zenon, FS_EmptySet, FS_CardinalityType DEF CountFact
<1>3. OpFact BY Zenon, OpAssumption, FS_Subset DEF OpFact
<1>4. AddFact BY Zenon, FS_AddElement DEF AddFact
<1>5. RemoveFact BY Zenon, FS_RemoveElement DEF RemoveFact
<1>6. RowFact
  <2> SUFFICES ASSUME NEW S, NEW x, NEW T, IsFiniteSet(S), IsFiniteSet(T), {x} \X T \subseteq S
               PROVE  Cardinality(S \ ({x} \X T)) = Cardinality(S) - Cardinality(T)
    BY Zenon DEF RowFact
  <2> DEFINE row == {x} \X T
  <2>1. Cardinality(T) \in Nat /\ IsFiniteSet({x}) /\ Cardinality({x}) = 1
    BY Zenon, FS_Singleton, FS_CardinalityType
  <2>2. Cardinality(row) = Cardinality({x}) * Cardinality(T) BY Zenon, <2>1, FS_Product
  <2>3. S \cap row = row OBVIOUS
  <2> HIDE DEF row
  <2>4. Cardinality(S \ row) = Cardinality(S) - Cardinality(S \cap row) BY Zenon, FS_Difference
  <2>5. Cardinality(row) = Cardinality(T)
    <3> DEFINE n == Cardinality(T)
    <3>1. n \in Nat /\ Cardinality(row) = 1 * n BY Zenon, <2>1, <2>2
    <3> HIDE DEF n
    <3>2. Cardinality(row) = n BY <3>1
    <3> QED BY Zenon, <3>2 DEF n
  <2> QED BY Zenon, <2>3, <2>4, <2>5 DEF row
<1> QED BY Zenon, <1>1, <1>2, <1>3, <1>4, <1>5, <1>6 DEF SetFacts

\* The sets that are counted are finite.
LEMMA LogFinite ==
  ASSUME LInv
  PROVE  Finite
<1>1. IsFiniteSet(Running)
  BY Zenon, OpAssumption, FS_Subset DEF Running
<1>2. IsFiniteSet(Logged)
  <2>1. lh \in Surjection(1 .. Len(lh), Logged)
    BY LogTypes DEF Surjection, Logged
  <2>2. IsFiniteSet(1 .. Len(lh)) BY LogTypes, FS_Interval
  <2> QED BY Zenon, <2>1, <2>2, FS_Surjection
<1>3. \A o \in Op : IsFiniteSet(wrote[o]) BY Zenon, <1>2, FS_Subset DEF LInv, Calls, CallWrites
<1>4. IsFiniteSet(Entries)
  <2>1. IsFiniteSet(Running \X Logged) BY Zenon, <1>1, <1>2, FS_Product
  <2>2. Entries \subseteq Running \X Logged
    BY Zenon DEF Entries, LInv, Calls, CallWrites, Running
  <2> QED BY Zenon, <2>1, <2>2, FS_Subset
<1> QED BY Zenon, <1>1, <1>3, <1>4, FS_CardinalityType DEF Finite

\* The initial states satisfy the invariant, with no assumption left.
LEMMA LogStart == Init => LInv
  BY Zenon, SetFactsHold, LogInitInv

\* Every step keeps the invariant.
LEMMA LogStepInv == LInv /\ [Next]_vars => LInv'
<1> SUFFICES ASSUME LInv, [Next]_vars PROVE LInv' OBVIOUS
<1>0. SetFacts /\ Finite BY Zenon, SetFactsHold, LogFinite
<1>1. ASSUME NEW b \in Block, Bread(b) PROVE LInv' BY Zenon, <1>1, BreadInv
<1>2. ASSUME NEW b \in Block, Recycle(b) PROVE LInv' BY Zenon, <1>2, RecycleInv
<1>3. ASSUME NEW o \in Op, BeginOp(o) PROVE LInv' BY Zenon, <1>0, <1>3, BeginOpInv
<1>4. ASSUME NEW o \in Op, LogWrite(o) PROVE LInv' BY Zenon, <1>0, <1>4, LogWriteInv
<1>5. ASSUME NEW o \in Op, EndOp(o) PROVE LInv' BY Zenon, <1>0, <1>5, EndOpInv
<1>6. ASSUME NEW o \in Op, Commit(o) PROVE LInv'
  BY Zenon, <1>0, <1>6, WriteLogInv, WriteHeadInv, InstallInv, EraseInv, CommitDoneInv DEF
     Commit
<1>7. ASSUME NEW o \in Op, NEW b \in Block, NEW v \in Val, Modify(o, b, v) PROVE LInv'
  BY Zenon, <1>7, ModifyInv
<1>8. CASE Crash BY Zenon, <1>0, <1>8, CrashInv
<1>9. CASE Recovery BY Zenon, <1>0, <1>9, ReadHeadInv, ReinstallInv, ClearLogInv DEF Recovery
<1>10. CASE UNCHANGED vars
  <2> USE <1>10 DEF vars, disk, struct, thread
  <2>1. /\ Running' = Running /\ Logged' = Logged /\ Installing' = Installing /\ From' = From
        /\ Locked' = Locked
    BY Zenon DEF Running, Logged, Installing, From, Locked
  <2>2. Entries' = Entries BY Zenon, <2>1 DEF Entries
  <2>3. TypeOK' /\ Distinct' /\ Down' BY DEF LInv, TypeOK, Distinct, Down
  <2>4. Counts' BY Zenon, <2>1 DEF LInv, Counts
  <2>5. Calls' BY Zenon, <2>1 DEF LInv, Calls, CallLocks, CallWrites
  <2>6. Pins' /\ Header' BY Zenon, <2>1 DEF LInv, Pins, Header
  <2>7. Contents' BY Zenon, <2>1 DEF LInv, Contents, CleanCache, PinnedCached, LockedCached,
     LogFilled, ToInstall, ToRecover, Installed
  <2>8. RoomForAll' /\ CommitAlone' /\ SleeperHasWaker'
    BY Zenon, <2>1, <2>2 DEF LInv, RoomForAll, CommitAlone, SleeperHasWaker
  <2> QED BY Zenon, <2>3, <2>4, <2>5, <2>6, <2>7, <2>8 DEF LInv
<1> QED BY Zenon, <1>1, <1>2, <1>3, <1>4, <1>5, <1>6, <1>7, <1>8, <1>9, <1>10 DEF Next

\* With no block in the log twice, the number of places where a block is logged is
\* 1 or 0.
LEMMA PinsCount == LInv => PinExact
<1> SUFFICES ASSUME LInv, mode = "up", NEW b \in Block
             PROVE  pin[b] = Cardinality({i \in From .. Len(lh) : lh[i] = b})
  BY Zenon DEF PinExact, From, Installing
<1> DEFINE S == {i \in From .. Len(lh) : lh[i] = b}
<1>1. From \in Nat \ {0} BY LogTypes DEF From
<1>2. pin[b] = IF \E i \in From .. Len(lh) : lh[i] = b THEN 1 ELSE 0 BY Zenon DEF LInv, Pins
<1>3. CASE \E i \in From .. Len(lh) : lh[i] = b
  <2>1. PICK i \in From .. Len(lh) : lh[i] = b BY Zenon, <1>3
  <2>2. \A j \in From .. Len(lh) : lh[j] = b => j = i BY <1>1, <2>1, LogTypes DEF LInv, Distinct
  <2>3. S = {i} BY Zenon, <2>1, <2>2
  <2> QED BY Zenon, <1>2, <1>3, <2>3, FS_Singleton
<1>4. CASE ~\E i \in From .. Len(lh) : lh[i] = b
  <2>1. S = {} BY Zenon, <1>4
  <2> QED BY Zenon, <1>2, <1>4, <2>1, FS_EmptySet
<1> QED BY Zenon, <1>3, <1>4

\* When log_write has panicked the log is full.
Spent == panicked => Len(lh) >= LogRoom

\* A panic finds the log full, and after it nothing moves but the power failure.
LEMMA SpentNext == LInv /\ Spent /\ [Next]_vars => Spent'
<1> SUFFICES ASSUME LInv, Spent, [Next]_vars, panicked' PROVE Len(lh)' >= LogRoom
  BY Zenon DEF Spent, LogRoom
<1>1. CASE panicked
  <2>1. mode = "up" BY Zenon, <1>1 DEF LInv, Down
  <2>2. ~\E b \in Block : Bread(b) \/ Recycle(b) BY Zenon, <1>1 DEF Bread, Recycle
  <2>3. \A o \in Op : ~(BeginOp(o) \/ LogWrite(o) \/ EndOp(o) \/ Commit(o))
    BY Zenon, <1>1 DEF BeginOp, LogWrite, EndOp, Commit, WriteLog, WriteHead, Install, Erase,
       CommitDone, At
  <2>4. ~\E o \in Op, b \in Block, v \in Val : Modify(o, b, v) BY Zenon, <1>1 DEF Modify, At
  <2>5. ~Crash BY Zenon DEF Crash
  <2>6. ~Recovery BY Zenon, <2>1 DEF Recovery, ReadHead, Reinstall, ClearLog
  <2>7. UNCHANGED vars BY Zenon, <2>2, <2>3, <2>4, <2>5, <2>6 DEF Next
  <2>8. UNCHANGED lh BY Zenon, <2>7 DEF vars, struct
  <2> QED BY Zenon, <1>1, <2>8 DEF Spent
<1>2. CASE ~panicked
  <2>1. ~UNCHANGED panicked BY Zenon, <1>2
  <2>2. \A b \in Block : Bread(b) \/ Recycle(b) => UNCHANGED panicked
    BY Zenon DEF Bread, Recycle
  <2>3. \A o \in Op : BeginOp(o) \/ EndOp(o) \/ Commit(o) => UNCHANGED panicked
    BY Zenon DEF BeginOp, EndOp, Commit, WriteLog, WriteHead, Install, Erase, CommitDone
  <2>4. \A o \in Op, b \in Block, v \in Val : Modify(o, b, v) => UNCHANGED panicked
    BY Zenon DEF Modify
  <2>5. ~Crash BY Zenon DEF Crash
  <2>6. Recovery => UNCHANGED panicked BY Zenon DEF Recovery, ReadHead, Reinstall, ClearLog
  <2>7. ~UNCHANGED vars BY Zenon, <2>1 DEF vars
  <2>8. PICK o \in Op : LogWrite(o)
    BY Zenon, <2>1, <2>2, <2>3, <2>4, <2>5, <2>6, <2>7 DEF Next
  <2>9. UNCHANGED lh /\ (Len(lh) >= LOGSIZE \/ Len(lh) >= nlog - 1)
    BY Zenon, <2>1, <2>8 DEF LogWrite
  <2> QED BY <2>9, LogTypes, LogAssumption DEF LogRoom
<1> QED BY Zenon, <1>1, <1>2

\* The log is safe for any number of threads, blocks and values, any size of the
\* log, and crashes at any point: pins and the header agree, the header has room for
\* what begin_op admits, log_write panics only when the calls have logged all that
\* was reserved but for what the header block takes, a commit is alone, and no thread
\* in begin_op is left asleep.
THEOREM LogIsSafe == Spec => []LogSafe
<1>1. LInv /\ Spent => PanicOnlyWhenSpent
  <2> SUFFICES ASSUME LInv, Spent, panicked
               PROVE  Cardinality(Running) * MAXOPBLOCKS - Cardinality(Entries) <= LOGSIZE - LogRoom
    BY Zenon DEF PanicOnlyWhenSpent
  <2> DEFINE R == Cardinality(Running) * MAXOPBLOCKS
             E == Cardinality(Entries)
  <2>1. Cardinality(Running) \in Nat /\ E \in Nat BY Zenon, LogFinite, SetFactsHold DEF Finite
  <2>2. R \in Nat BY <2>1, LogAssumption
  <2>3. Len(lh) + R - E <= LOGSIZE BY Zenon DEF LInv, RoomForAll
  <2>4. Len(lh) >= LogRoom BY Zenon DEF Spent
  <2>5. LogRoom \in Int BY LogAssumption DEF LogRoom
  <2>6. Len(lh) \in Nat BY Zenon, LogTypes
  <2> HIDE DEF R, E
  <2>7. R - E <= LOGSIZE - LogRoom BY <2>1, <2>2, <2>3, <2>4, <2>5, <2>6, LogAssumption
  <2> QED BY Zenon, <2>7 DEF R, E
<1>2. LInv /\ Spent => LogSafe BY Zenon, <1>1, PinsCount DEF LInv, LogSafe
<1>3. Init => Spent BY Zenon DEF Init, Spent
<1> QED BY <1>2, <1>3, LogStart, LogStepInv, SpentNext, PTL DEF Spec

-----------------------------------------------------------------------------
(* The log implements Durable.                                               *)

\* What recovery would make of a block.
StableFact ==
  /\ Stable \in [Block -> Val]
  /\ \A i \in 1 .. Len(head) : Stable[head[i]] = logb[i]
  /\ \A b \in Block : (\A i \in 1 .. Len(head) : head[i] # b) => Stable[b] = home[b]

\* In every state that satisfies the invariant, recovery finds a value for each
\* block: the one its log block holds, or its own.
LEMMA StableIs == LInv => StableFact
<1> SUFFICES ASSUME LInv PROVE StableFact OBVIOUS
<1>1. ASSUME NEW i \in 1 .. Len(head) PROVE Stable[head[i]] = logb[i]
  <2>1. head[i] \in Block BY Zenon, LogTypes
  <2>2. Stable[head[i]] = logb[CHOOSE j \in 1 .. Len(head) : head[j] = head[i]]
    BY Zenon, <2>1 DEF Stable
  <2>3. (CHOOSE j \in 1 .. Len(head) : head[j] = head[i]) = i BY Zenon DEF LInv, Distinct
  <2> QED BY Zenon, <2>2, <2>3
<1>2. ASSUME NEW b \in Block, \A i \in 1 .. Len(head) : head[i] # b PROVE Stable[b] = home[b]
  BY Zenon, <1>2 DEF Stable
<1>3. ASSUME NEW b \in Block PROVE Stable[b] \in Val
  <2>1. CASE \E i \in 1 .. Len(head) : head[i] = b BY Zenon, <1>1, <2>1 DEF LInv, Header
  <2>2. CASE ~\E i \in 1 .. Len(head) : head[i] = b BY Zenon, <1>2, <2>2 DEF LInv, TypeOK
  <2> QED BY Zenon, <2>1, <2>2
<1>4. Stable \in [Block -> Val] BY Zenon, <1>3 DEF Stable
<1> QED BY Zenon, <1>1, <1>2, <1>4 DEF StableFact

\* The same after a step.
LEMMA StableThen == LInv' => StableFact'
BY StableIs, PTL

\* Blocks that are not waiting to be installed are at home already.
LEMMA AtHome ==
  ASSUME LInv, mode = "up", NEW b \in Block, \A i \in From .. Len(lh) : lh[i] # b
  PROVE  /\ Stable[b] = home[b]
         /\ cache[b] # NoBlock /\ b \notin Locked => cache[b] = home[b]
<1>1. StableFact BY Zenon, StableIs
<1>2. CASE Installing
  <2>1. head = lh /\ From = tail + 1 /\ tail <= Len(lh)
    BY Zenon, <1>2 DEF LInv, Header, From, Counts, Installing
  <2>2. CASE \E i \in 1 .. Len(lh) : lh[i] = b
    <3>1. PICK i \in 1 .. Len(lh) : lh[i] = b BY Zenon, <2>2
    <3>2. i \in 1 .. tail BY <2>1, <3>1, LogTypes
    <3> QED BY <1>1, <1>2, <2>1, <3>1, <3>2 DEF StableFact, LInv, Contents, Installed
  <2>3. CASE ~\E i \in 1 .. Len(lh) : lh[i] = b
    <3>1. b \notin Logged BY Zenon, <2>3 DEF Logged
    <3> QED BY Zenon, <1>1, <2>1, <2>3, <3>1 DEF StableFact, LInv, Contents, CleanCache
  <2> QED BY Zenon, <2>2, <2>3
<1>3. CASE ~Installing
  <2>1. head = <<>> /\ From = 1 BY Zenon, <1>3 DEF LInv, Header, From
  <2>2. b \notin Logged BY Zenon, <2>1 DEF Logged
  <2>3. Stable[b] = home[b] BY <1>1, <2>1 DEF StableFact
  <2> QED BY Zenon, <2>2, <2>3 DEF LInv, Contents, CleanCache, LogFilled
<1> QED BY Zenon, <1>2, <1>3

\* Once everything is installed the header can go.
LEMMA AllHome ==
  ASSUME LInv, mode = "recover" \/ Installing, tail = Len(lh)
  PROVE  /\ \A b \in Block : Stable[b] = home[b]
         /\ head = lh
<1>1. StableFact BY Zenon, StableIs
<1>2. head = lh BY Zenon DEF LInv, Header, Down
<1>3. ASSUME NEW b \in Block PROVE Stable[b] = home[b]
  <2>1. CASE \E i \in 1 .. Len(lh) : lh[i] = b
    BY <1>1, <1>2 DEF StableFact, LInv, Contents, Installed
  <2>2. CASE ~\E i \in 1 .. Len(lh) : lh[i] = b BY Zenon, <1>1, <1>2, <2>2 DEF StableFact
  <2> QED BY Zenon, <2>1, <2>2
<1> QED BY Zenon, <1>2, <1>3

\* Two states in which recovery would find the same.
LEMMA StableSame ==
  ASSUME StableFact, StableFact', \A b \in Block : Stable'[b] = Stable[b]
  PROVE  Stable' = Stable
BY DEF StableFact

\* Two states in which bread would find the same.
LEMMA CurrentSame ==
  ASSUME Stable' = Stable,
         \A b \in Block : (IF cache'[b] = NoBlock THEN Stable[b] ELSE cache'[b])
                          = (IF cache[b] = NoBlock THEN Stable[b] ELSE cache[b])
  PROVE  Current' = Current
BY Zenon DEF Current

\* Reading and recycling buffers changes nothing that can be seen.
LEMMA CacheStutters ==
  ASSUME LInv, LInv', NEW b \in Block, Bread(b) \/ Recycle(b)
  PROVE  UNCHANGED Transaction!vars
<1>1. /\ mode = "up" /\ UNCHANGED <<home, logb, head, pc>>
      /\ \/ cache[b] = NoBlock /\ cache' = [cache EXCEPT ![b] = home[b]]
         \/ pin[b] = 0 /\ b \notin Locked /\ cache[b] # NoBlock /\ cache' = [cache EXCEPT ![b] = NoBlock]
  BY Zenon DEF Bread, Recycle, disk, thread
<1>2. Stable' = Stable BY Zenon, <1>1 DEF Stable
<1>3. \A i \in From .. Len(lh) : lh[i] # b BY <1>1 DEF LInv, Pins, Contents, PinnedCached
<1>4. Stable[b] = home[b] /\ (cache[b] # NoBlock /\ b \notin Locked => cache[b] = home[b])
  BY Zenon, <1>1, <1>3, AtHome
<1>5. cache \in [Block -> Val \cup {NoBlock}] /\ home \in [Block -> Val]
  BY Zenon DEF LInv, TypeOK
<1>6. Current' = Current
  <2>1. \A c \in Block : (IF cache'[c] = NoBlock THEN Stable[c] ELSE cache'[c])
                         = (IF cache[c] = NoBlock THEN Stable[c] ELSE cache[c])
    BY Zenon, <1>1, <1>4, <1>5, LogTypes
  <2> QED BY Zenon, <1>2, <2>1, CurrentSame
<1>7. Running' = Running BY Zenon, <1>1 DEF Running
<1> QED BY Zenon, <1>2, <1>6, <1>7 DEF Transaction!vars

\* What the calls do.
LEMMA CallsImplement ==
  ASSUME LInv, LInv', NEW o \in Op,
         \/ BeginOp(o) \/ LogWrite(o) \/ EndOp(o)
         \/ \E b \in Block, v \in Val : Modify(o, b, v)
  PROVE  Transaction!Next \/ UNCHANGED Transaction!vars
<1>1. pc \in [Op -> {"idle", "begin_op", "sleep", "active", "log_write", "write_log", "install", "done"}]
  BY Zenon DEF LInv, TypeOK
<1>2. UNCHANGED <<home, logb, head>> BY Zenon DEF BeginOp, LogWrite, EndOp, Modify, disk
<1>3. Stable' = Stable BY Zenon, <1>2 DEF Stable
<1>4. CASE BeginOp(o)
  <2>1. /\ pc[o] \in {"idle", "begin_op"} /\ UNCHANGED cache
        /\ pc' = [pc EXCEPT ![o] = "sleep"] \/ pc' = [pc EXCEPT ![o] = "active"]
    BY Zenon, <1>4 DEF BeginOp, At, Goto
  <2>2. Current' = Current BY Zenon, <1>3, <2>1 DEF Current
  <2>3. o \notin Running BY Zenon, <2>1 DEF Running
  <2>4. Running' = Running \/ Running' = Running \cup {o} BY Zenon, <1>1, <2>1 DEF Running
  <2> QED BY Zenon, <1>3, <2>2, <2>3, <2>4 DEF Transaction!Next, Transaction!Begin,
     Transaction!vars
<1>5. CASE LogWrite(o)
  <2>1. /\ pc[o] = "log_write" /\ UNCHANGED cache
        /\ pc' = pc \/ pc' = [pc EXCEPT ![o] = "active"]
    BY Zenon, <1>5 DEF LogWrite, At, Goto, thread
  <2>2. Current' = Current BY Zenon, <1>3, <2>1 DEF Current
  <2>3. Running' = Running BY Zenon, <1>1, <2>1 DEF Running
  <2> QED BY Zenon, <1>3, <2>2, <2>3 DEF Transaction!vars
<1>6. CASE EndOp(o)
  <2>1. /\ pc[o] = "active" /\ UNCHANGED cache
        /\ \/ pc' = [pc EXCEPT ![o] = IF lh = <<>> THEN "done" ELSE "write_log"]
           \/ pc' = [Wakeup(pc) EXCEPT ![o] = "idle"]
    BY Zenon, <1>6 DEF EndOp, At, Goto
  <2>2. Current' = Current BY Zenon, <1>3, <2>1 DEF Current
  <2>3. pc'[o] \notin {"active", "log_write"}
        /\ \A q \in Op : q # o => pc'[q] = pc[q] \/ (pc[q] = "sleep" /\ pc'[q] = "begin_op")
    BY Zenon, <1>1, <2>1 DEF Wakeup
  <2>4. Running' = Running \ {o} /\ o \in Running BY Zenon, <2>1, <2>3 DEF Running
  <2> QED BY Zenon, <1>3, <2>2, <2>4 DEF Transaction!Next, Transaction!End
<1>7. CASE \E b \in Block, v \in Val : Modify(o, b, v)
  <2>1. PICK b \in Block, v \in Val : Modify(o, b, v) BY Zenon, <1>7
  <2>2. pc[o] = "active" /\ pc' = [pc EXCEPT ![o] = "log_write"] /\ cache' = [cache EXCEPT ![b] = v]
    BY Zenon, <2>1 DEF Modify, At, Goto
  <2>3. Running' = Running /\ o \in Running BY Zenon, <1>1, <2>2 DEF Running
  <2>4. cache \in [Block -> Val \cup {NoBlock}] BY Zenon DEF LInv, TypeOK
  <2>5. Current' = [Current EXCEPT ![b] = v] BY Zenon, <1>3, <2>2, <2>4, LogTypes DEF Current
  <2>6. Transaction!Write(o, b, v) BY Zenon, <1>3, <2>3, <2>5 DEF Transaction!Write
  <2> QED BY Zenon, <2>6 DEF Transaction!Next
<1> QED BY Zenon, <1>4, <1>5, <1>6, <1>7

\* What commit does: write_head is the one step that can be seen.
LEMMA CommitImplements ==
  ASSUME SetFacts, LInv, LInv', NEW o \in Op, Commit(o)
  PROVE  Transaction!Next \/ UNCHANGED Transaction!vars
<1>1. StableFact /\ StableFact' BY Zenon, StableIs, StableThen
<1>2. pc[o] \in Committer
  BY Zenon DEF Commit, WriteLog, WriteHead, Install, Erase, CommitDone, At, Committer
<1>3. mode = "up" /\ Running = {} /\ \A b \in Block : b \notin Locked
  BY Zenon, <1>2, CommitterIsAlone DEF Commit, WriteLog, WriteHead, Install, Erase,
     CommitDone, At
<1>4. pc \in [Op -> {"idle", "begin_op", "sleep", "active", "log_write", "write_log", "install", "done"}]
  BY Zenon DEF LInv, TypeOK
<1>5. Running' = {}
  <2>1. \/ pc' = pc \/ pc' = [pc EXCEPT ![o] = "install"] \/ pc' = [pc EXCEPT ![o] = "done"]
        \/ pc' = [Wakeup(pc) EXCEPT ![o] = "idle"]
    BY Zenon DEF Commit, WriteLog, WriteHead, Install, Erase, CommitDone, Goto, thread
  <2>2. \A q \in Op : pc[q] \notin {"active", "log_write"} BY Zenon, <1>2, CommitterIsAlone
  <2>3. \A q \in Op : pc'[q] \notin {"active", "log_write"}
    BY Zenon, <1>4, <2>1, <2>2 DEF Wakeup
  <2> QED BY Zenon, <2>3 DEF Running
<1>6. CASE WriteLog(o)
  <2>1. pc[o] = "write_log" /\ UNCHANGED <<home, head, cache>> BY Zenon, <1>6 DEF WriteLog, At
  <2>2. ~Installing BY Zenon, <1>2, <2>1, CommitterIsAlone DEF Installing, Committer
  <2>3. head = <<>> BY Zenon, <1>3, <2>2 DEF LInv, Header
  <2>4. Stable' = Stable BY <1>1, <2>1, <2>3, StableSame DEF StableFact
  <2>5. Current' = Current BY Zenon, <2>1, <2>4 DEF Current
  <2> QED BY Zenon, <1>3, <1>5, <2>4, <2>5 DEF Transaction!vars
<1>7. CASE WriteHead(o)
  <2>1. /\ pc[o] = "write_log" /\ tail = Len(lh) /\ head' = lh /\ UNCHANGED <<home, logb, cache>>
    BY Zenon, <1>7 DEF WriteHead, LogWritten, At
  <2>2. ~Installing BY Zenon, <1>2, <2>1, CommitterIsAlone DEF Installing, Committer
  <2>3. head = <<>> /\ From = 1 BY Zenon, <1>3, <2>2 DEF LInv, Header, From
  <2>4. \A b \in Block : Stable[b] = home[b] BY <1>1, <2>3 DEF StableFact
  <2>5. \A i \in 1 .. Len(lh) : logb[i] = cache[lh[i]]
    BY Zenon, <2>1 DEF LInv, Contents, LogFilled
  <2>6. ASSUME NEW b \in Block PROVE Stable'[b] = IF cache[b] = NoBlock THEN Stable[b] ELSE cache[b]
    <3>1. CASE \E i \in 1 .. Len(lh) : lh[i] = b
      <4>1. PICK i \in 1 .. Len(lh) : lh[i] = b BY Zenon, <3>1
      <4>2. cache[b] # NoBlock BY Zenon, <1>3, <2>3, <4>1 DEF LInv, Contents, PinnedCached
      <4>3. Stable'[b] = logb[i] BY Zenon, <1>1, <2>1, <4>1 DEF StableFact
      <4> QED BY Zenon, <2>5, <4>1, <4>2, <4>3
    <3>2. CASE ~\E i \in 1 .. Len(lh) : lh[i] = b
      <4>1. Stable'[b] = home[b] BY Zenon, <1>1, <2>1, <3>2 DEF StableFact
      <4>2. b \notin Logged BY Zenon, <3>2 DEF Logged
      <4> QED BY Zenon, <1>3, <2>4, <4>1, <4>2 DEF LInv, Contents, CleanCache
    <3> QED BY Zenon, <3>1, <3>2
  <2>7. Stable' = Current BY Zenon, <1>1, <2>6 DEF StableFact, Current
  <2>8. Current' = Current
    <3>1. \A b \in Block : cache[b] = NoBlock => Stable'[b] = Stable[b] BY Zenon, <2>6
    <3> QED BY Zenon, <2>1, <3>1 DEF Current
  <2> QED BY Zenon, <1>3, <1>5, <2>7, <2>8 DEF Transaction!Next, Transaction!Commit
<1>8. CASE Install(o)
  <2> DEFINE b == lh[tail + 1]
             v == logb[tail + 1]
  <2>1. /\ pc[o] = "install" /\ tail < Len(lh) /\ UNCHANGED <<logb, head>>
        /\ home' = [home EXCEPT ![b] = v] /\ cache' = [cache EXCEPT ![b] = v]
    BY Zenon, <1>8 DEF Install, InstallBlock, At
  <2>2. Installing BY Zenon, <2>1 DEF Installing
  <2>3. head = lh BY Zenon, <2>2 DEF LInv, Header
  <2>4. tail + 1 \in 1 .. Len(lh) BY <2>1, LogTypes
  <2>5. b \in Block /\ v \in Val BY Zenon, <2>3, <2>4, LogTypes DEF LInv, Header
  <2>6. cache[b] = v BY <2>2, <2>4, LogTypes DEF LInv, Contents, ToInstall
  <2>7. home \in [Block -> Val] /\ cache \in [Block -> Val \cup {NoBlock}]
    BY Zenon DEF LInv, TypeOK
  <2>8. ASSUME NEW c \in Block PROVE Stable'[c] = Stable[c]
    <3>1. CASE \E i \in 1 .. Len(head) : head[i] = c BY <1>1, <2>1, <3>1 DEF StableFact
    <3>2. CASE ~\E i \in 1 .. Len(head) : head[i] = c
      <4>1. c # b BY Zenon, <2>3, <2>4, <3>2
      <4>2. home'[c] = home[c] BY Zenon, <2>1, <2>7, <4>1
      <4> QED BY Zenon, <1>1, <2>1, <3>2, <4>2 DEF StableFact
    <3> QED BY Zenon, <3>1, <3>2
  <2>9. Stable' = Stable BY Zenon, <1>1, <2>8, StableSame
  <2> HIDE DEF b, v
  <2>10. Current' = Current BY Zenon, <2>1, <2>5, <2>6, <2>7, <2>9 DEF Current
  <2> QED BY Zenon, <1>3, <1>5, <2>9, <2>10 DEF Transaction!vars
<1>9. CASE Erase(o)
  <2>1. /\ pc[o] = "install" /\ tail = Len(lh) /\ head' = <<>> /\ UNCHANGED <<home, cache>>
    BY Zenon, <1>9 DEF Erase, At
  <2>2. \A b \in Block : Stable[b] = home[b] BY Zenon, <2>1, AllHome DEF Installing
  <2>3. Stable' = Stable BY <1>1, <2>1, <2>2, StableSame DEF StableFact
  <2>4. Current' = Current BY Zenon, <2>1, <2>3 DEF Current
  <2> QED BY Zenon, <1>3, <1>5, <2>3, <2>4 DEF Transaction!vars
<1>10. CASE CommitDone(o)
  <2>1. UNCHANGED <<home, logb, head, cache>> BY Zenon, <1>10 DEF CommitDone, disk
  <2>2. Stable' = Stable BY Zenon, <2>1 DEF Stable
  <2>3. Current' = Current BY Zenon, <2>1, <2>2 DEF Current
  <2> QED BY Zenon, <1>3, <1>5, <2>2, <2>3 DEF Transaction!vars
<1> QED BY Zenon, <1>6, <1>7, <1>8, <1>9, <1>10 DEF Commit

\* What a crash and recovery do.
LEMMA RecoveryImplements ==
  ASSUME LInv, LInv', Crash \/ Recovery
  PROVE  Transaction!Next \/ UNCHANGED Transaction!vars
<1>1. StableFact /\ StableFact' BY Zenon, StableIs, StableThen
<1>2. CASE Crash
  <2>1. UNCHANGED <<home, logb, head>> /\ cache' = [b \in Block |-> NoBlock] /\ pc' = [o \in Op |-> "idle"]
    BY Zenon, <1>2 DEF Crash, disk
  <2>2. Stable' = Stable BY Zenon, <2>1 DEF Stable
  <2>3. Current' = Stable BY Zenon, <1>1, <2>1, <2>2 DEF Current, StableFact
  <2>4. Running' = {} BY Zenon, <2>1 DEF Running
  <2> QED BY Zenon, <2>2, <2>3, <2>4 DEF Transaction!Next, Transaction!Crash
<1>3. CASE Recovery
  <2>1. mode # "up" /\ pc' = pc
    BY Zenon, <1>3 DEF Recovery, ReadHead, Reinstall, ClearLog, thread
  <2>2. Running' = Running BY Zenon, <2>1 DEF Running
  <2>3. CASE ReadHead
    <3>1. UNCHANGED <<home, logb, head, cache>> BY Zenon, <2>3 DEF ReadHead, disk
    <3>2. Stable' = Stable BY Zenon, <3>1 DEF Stable
    <3>3. Current' = Current BY Zenon, <3>1, <3>2 DEF Current
    <3> QED BY Zenon, <2>2, <3>2, <3>3 DEF Transaction!vars
  <2>4. CASE Reinstall
    <3> DEFINE b == lh[tail + 1]
               v == logb[tail + 1]
    <3>1. /\ mode = "recover" /\ tail < Len(lh) /\ UNCHANGED <<logb, head>>
          /\ home' = [home EXCEPT ![b] = v] /\ cache' = [cache EXCEPT ![b] = v]
      BY Zenon, <2>4 DEF Reinstall, InstallBlock
    <3>2. head = lh BY Zenon, <3>1 DEF LInv, Down
    <3>3. tail + 1 \in 1 .. Len(lh) BY <3>1, LogTypes
    <3>4. b \in Block /\ v \in Val BY Zenon, <3>2, <3>3, LogTypes DEF LInv, Header
    <3>5. cache[b] = NoBlock BY <3>1, <3>3, LogTypes DEF LInv, Contents, ToRecover
    <3>6. home \in [Block -> Val] /\ cache \in [Block -> Val \cup {NoBlock}]
      BY Zenon DEF LInv, TypeOK
    <3>7. ASSUME NEW c \in Block PROVE Stable'[c] = Stable[c]
      <4>1. CASE \E i \in 1 .. Len(head) : head[i] = c BY <1>1, <3>1, <4>1 DEF StableFact
      <4>2. CASE ~\E i \in 1 .. Len(head) : head[i] = c
        <5>1. c # b BY Zenon, <3>2, <3>3, <4>2
        <5>2. home'[c] = home[c] BY Zenon, <3>1, <3>6, <5>1
        <5> QED BY Zenon, <1>1, <3>1, <4>2, <5>2 DEF StableFact
      <4> QED BY Zenon, <4>1, <4>2
    <3>8. Stable' = Stable BY Zenon, <1>1, <3>7, StableSame
    <3>9. Stable[b] = v BY Zenon, <1>1, <3>2, <3>3 DEF StableFact
    <3> HIDE DEF b, v
    <3>10. Current' = Current BY Zenon, <3>1, <3>4, <3>5, <3>6, <3>8, <3>9, LogTypes DEF Current
    <3> QED BY Zenon, <2>2, <3>8, <3>10 DEF Transaction!vars
  <2>5. CASE ClearLog
    <3>1. mode = "recover" /\ tail = Len(lh) /\ head' = <<>> /\ UNCHANGED <<home, cache>>
      BY Zenon, <2>5 DEF ClearLog
    <3>2. \A b \in Block : Stable[b] = home[b] BY Zenon, <3>1, AllHome
    <3>3. Stable' = Stable BY <1>1, <3>1, <3>2, StableSame DEF StableFact
    <3>4. Current' = Current BY Zenon, <3>1, <3>3 DEF Current
    <3> QED BY Zenon, <2>2, <3>3, <3>4 DEF Transaction!vars
  <2> QED BY Zenon, <1>3, <2>3, <2>4, <2>5 DEF Recovery
<1> QED BY Zenon, <1>2, <1>3

\* A crash at any point of any interleaving of calls, a commit or a recovery leaves
\* on the disk the effects of whole transactions: the log implements Durable, for
\* any number of threads, blocks and values and any size of the log.
THEOREM LogIsAtomic == Spec => AllOrNothing
<1>1. Init => Transaction!Init
  <2> SUFFICES ASSUME Init PROVE Transaction!Init OBVIOUS
  <2>1. LInv BY Zenon, LogStart
  <2>2. StableFact BY Zenon, <2>1, StableIs
  <2>3. Stable = Current /\ Running = {} BY Zenon, <2>2 DEF Init, Current, Running, StableFact
  <2> QED BY Zenon, <2>2, <2>3 DEF Transaction!Init, StableFact
<1>2. LInv /\ LInv' /\ [Next]_vars => [Transaction!Next]_(Transaction!vars)
  <2> SUFFICES ASSUME LInv, LInv', [Next]_vars PROVE Transaction!Next \/ UNCHANGED Transaction!vars OBVIOUS
  <2>1. CASE UNCHANGED vars
    <3>1. UNCHANGED <<home, logb, head, cache, pc>> BY Zenon, <2>1 DEF vars, disk, thread
    <3>2. Stable' = Stable /\ Running' = Running BY Zenon, <3>1 DEF Stable, Running
    <3>3. Current' = Current BY Zenon, <3>1, <3>2 DEF Current
    <3> QED BY Zenon, <3>2, <3>3 DEF Transaction!vars
  <2>2. ASSUME NEW b \in Block, Bread(b) \/ Recycle(b) PROVE UNCHANGED Transaction!vars
    BY Zenon, <2>2, CacheStutters
  <2>3. ASSUME NEW o \in Op, Commit(o) PROVE Transaction!Next \/ UNCHANGED Transaction!vars
    BY Zenon, <2>3, SetFactsHold, CommitImplements
  <2> QED BY Zenon, <2>1, <2>2, <2>3, CallsImplement, RecoveryImplements DEF Next
<1> QED BY <1>1, <1>2, LogStart, LogStepInv, PTL DEF Spec, AllOrNothing, Transaction!Spec
=============================================================================
