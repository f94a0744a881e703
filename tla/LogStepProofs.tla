---------------------------- MODULE LogStepProofs ----------------------------
(***************************************************************************)
(* The inductive invariant of Log, and that the file system calls, a       *)
(* commit, a crash and the recovery keep it.                               *)
(***************************************************************************)
EXTENDS Log, TLAPS

Installing == \E o \in Op : pc[o] = "install"
Committer  == {"write_log", "install", "done"}

\* No block is in the log, or in the header on disk, twice.
Distinct ==
  /\ \A i, j \in 1 .. Len(lh) : lh[i] = lh[j] => i = j
  /\ \A i, j \in 1 .. Len(head) : head[i] = head[j] => i = j

\* Before recovery has ended memory is as the boot left it.
Down ==
  /\ mode # "up" => /\ \A o \in Op : pc[o] = "idle" /\ buf[o] = NoBlock
                    /\ \A b \in Block : pin[b] = 0
                    /\ committing = 0 /\ ~panicked
  /\ mode = "read_head" => lh = <<>> /\ tail = 0 /\ \A b \in Block : cache[b] = NoBlock
  /\ mode = "recover" => lh = head

\* outstanding and committing count the calls and the commits there are, and
\* between transactions the log is empty.
Counts ==
  /\ outstanding = Cardinality(Running)
  /\ committing = 1 <=> \E o \in Op : pc[o] \in Committer
  /\ mode = "up" /\ outstanding = 0 /\ committing = 0 => lh = <<>>
  /\ \A o \in Op : pc[o] = "done" => lh = <<>>
  /\ mode = "recover" \/ (\E o \in Op : pc[o] \in {"write_log", "install"}) => tail <= Len(lh)

\* A call has one locked buffer in log_write, and has logged what it says.
CallLocks ==
  /\ \A o \in Op : pc[o] = "log_write" <=> buf[o] # NoBlock
  /\ \A o, q \in Op : buf[o] = buf[q] /\ buf[o] # NoBlock => o = q

CallWrites == \A o \in Op :
  /\ wrote[o] \subseteq Logged
  /\ o \notin Running => wrote[o] = {}
  /\ Cardinality(wrote[o]) <= MAXOPBLOCKS
  /\ pc[o] = "log_write" => Cardinality(wrote[o] \cup {buf[o]}) <= MAXOPBLOCKS

Calls == CallLocks /\ CallWrites

\* The first entry of lh that is not installed.
From == IF Installing THEN tail + 1 ELSE 1

Pins == mode = "up" => \A b \in Block :
  pin[b] = IF \E i \in From .. Len(lh) : lh[i] = b THEN 1 ELSE 0

\* The header names blocks only while they are being installed.
Header ==
  /\ mode = "up" /\ ~Installing => head = <<>>
  /\ Installing => head = lh
  /\ \A i \in 1 .. Len(head) : logb[i] \in Val

\* What is cached, logged and installed agree.
CleanCache ==
  \A b \in Block : cache[b] # NoBlock /\ b \notin Logged /\ b \notin Locked => cache[b] = home[b]

PinnedCached == mode = "up" => \A i \in From .. Len(lh) : cache[lh[i]] # NoBlock

LockedCached == \A o \in Op : pc[o] = "log_write" => cache[buf[o]] # NoBlock

LogFilled == (\E o \in Op : pc[o] = "write_log") => \A i \in 1 .. tail : logb[i] = cache[lh[i]]

ToInstall == Installing => \A i \in tail + 1 .. Len(lh) : cache[lh[i]] = logb[i]

ToRecover == mode = "recover" => \A i \in tail + 1 .. Len(lh) : cache[lh[i]] = NoBlock

Installed == Installing \/ mode = "recover" =>
  \A i \in 1 .. tail : home[lh[i]] = logb[i] /\ cache[lh[i]] \in {NoBlock, logb[i]}

Contents ==
  /\ CleanCache /\ PinnedCached /\ LockedCached /\ LogFilled /\ ToInstall /\ ToRecover /\ Installed

LInv ==
  /\ TypeOK /\ Distinct /\ Down /\ Counts /\ Calls /\ Pins /\ Header /\ Contents
  /\ RoomForAll /\ CommitAlone /\ SleeperHasWaker

-----------------------------------------------------------------------------
(* What the steps use of the theory of finite sets; SetFactsHold proves it.  *)

EmptyFact == Cardinality({}) = 0 /\ Cardinality(Op) \in Nat

CountFact == \A S : IsFiniteSet(S) => Cardinality(S) \in Nat /\ (Cardinality(S) = 0 => S = {})

OpFact == \A S \in SUBSET Op : IsFiniteSet(S) /\ Cardinality(S) <= Cardinality(Op)

AddFact == \A S, x :
  IsFiniteSet(S) => Cardinality(S \cup {x}) = IF x \in S THEN Cardinality(S) ELSE Cardinality(S) + 1

RemoveFact == \A S : \A x \in S :
  IsFiniteSet(S) => IsFiniteSet(S \ {x}) /\ Cardinality(S \ {x}) = Cardinality(S) - 1

RowFact == \A S, x, T :
  IsFiniteSet(S) /\ IsFiniteSet(T) /\ {x} \X T \subseteq S =>
     Cardinality(S \ ({x} \X T)) = Cardinality(S) - Cardinality(T)

SetFacts == EmptyFact /\ CountFact /\ OpFact /\ AddFact /\ RemoveFact /\ RowFact

\* The sets that are counted are finite.
Finite ==
  /\ IsFiniteSet(Running) /\ Cardinality(Running) \in Nat
  /\ IsFiniteSet(Entries) /\ Cardinality(Entries) \in Nat
  /\ \A o \in Op : IsFiniteSet(wrote[o]) /\ Cardinality(wrote[o]) \in Nat

\* The initial states satisfy the invariant.
LEMMA LogInitInv ==
  ASSUME SetFacts, Init
  PROVE  LInv
<1> USE LogAssumption, OpAssumption DEF Init
<1>1. Running = {} BY Zenon DEF Running
<1>2. Cardinality(Running) = 0 /\ Cardinality({}) = 0 BY Zenon, <1>1 DEF SetFacts, EmptyFact
<1>3. Cardinality(Op) \in Nat BY Zenon DEF SetFacts, EmptyFact
<1>4. TypeOK
  <2>1. <<>> \in Seq(Block) /\ Len(<<>>) = 0 OBVIOUS
  <2>2. outstanding \in 0 .. Cardinality(Op) /\ tail \in 0 .. LOGSIZE BY <1>3
  <2>3. head \in Seq(Block) /\ Len(head) <= LOGSIZE /\ lh \in Seq(Block) /\ Len(lh) <= LOGSIZE OBVIOUS
  <2>4. logb \in [LogSlots -> Val \cup {NoBlock}] /\ pin \in [Block -> Nat]
        /\ cache \in [Block -> Val \cup {NoBlock}] /\ buf \in [Op -> Block \cup {NoBlock}] OBVIOUS
  <2>5. wrote \in [Op -> SUBSET Block] OBVIOUS
  <2>6. pc \in [Op -> {"idle", "begin_op", "sleep", "active", "log_write",
                       "write_log", "install", "done"}] OBVIOUS
  <2> QED BY ZenonT(30), <2>2, <2>3 DEF TypeOK
<1>5. Distinct /\ Down BY DEF Distinct, Down
<1>6. Counts BY <1>2 DEF Counts, Committer
<1>7. Calls BY <1>2 DEF Calls, CallLocks, CallWrites
<1>8. Pins /\ Header /\ Contents
  BY DEF Pins, Header, Contents, CleanCache, PinnedCached, LockedCached, LogFilled, ToInstall,
     ToRecover, Installed
<1>9. RoomForAll
  <2>1. Entries = {} BY Zenon, <1>1 DEF Entries
  <2> QED BY <1>2, <2>1 DEF RoomForAll
<1>10. CommitAlone /\ SleeperHasWaker BY Zenon DEF CommitAlone, SleeperHasWaker
<1> QED BY Zenon, <1>4, <1>5, <1>6, <1>7, <1>8, <1>9, <1>10 DEF LInv

\* Steps that leave the threads and struct log alone keep what is said of them.
LEMMA SameThreads ==
  ASSUME LInv, UNCHANGED <<struct, thread, mode, panicked, pin, tail, head>>
  PROVE  /\ Distinct' /\ Counts' /\ Calls' /\ Pins'
         /\ RoomForAll' /\ CommitAlone' /\ SleeperHasWaker'
<1> USE DEF struct, thread
<1>1. Running' = Running /\ Logged' = Logged /\ Installing' = Installing
  BY Zenon DEF Running, Logged, Installing
<1>2. Entries' = Entries BY Zenon, <1>1 DEF Entries
<1>3. Distinct' BY Zenon DEF LInv, Distinct
<1>4. Counts' BY Zenon, <1>1 DEF LInv, Counts
<1>5. Calls' BY Zenon, <1>1 DEF LInv, Calls, CallLocks, CallWrites
<1>6. Pins' BY Zenon, <1>1 DEF LInv, Pins, From
<1>7. RoomForAll' BY Zenon, <1>1, <1>2 DEF LInv, RoomForAll
<1>8. CommitAlone' BY Zenon DEF LInv, CommitAlone
<1>9. SleeperHasWaker' BY Zenon DEF LInv, SleeperHasWaker
<1> QED BY Zenon, <1>3, <1>4, <1>5, <1>6, <1>7, <1>8, <1>9

\* A block is read into the cache.
LEMMA BreadInv ==
  ASSUME LInv, NEW b \in Block, Bread(b)
  PROVE  LInv'
<1>1. /\ cache[b] = NoBlock /\ mode = "up" /\ cache' = [cache EXCEPT ![b] = home[b]]
      /\ UNCHANGED <<disk, struct, thread, mode, panicked, pin, tail>>
  BY Zenon DEF Bread
<1>2. UNCHANGED <<struct, thread, mode, panicked, pin, tail, head>> BY Zenon, <1>1 DEF disk
<1>3. /\ Distinct' /\ Counts' /\ Calls' /\ Pins'
      /\ RoomForAll' /\ CommitAlone' /\ SleeperHasWaker'
  BY Zenon, <1>2, SameThreads
<1>4. TypeOK' BY Zenon, <1>1 DEF LInv, TypeOK, disk, struct, thread
<1>5. Down' BY Zenon, <1>1 DEF Down
<1>6. Header' BY Zenon, <1>1 DEF LInv, Header, Installing, disk, struct, thread
<1>7. Contents'
  <2>1. lh \in Seq(Block) /\ tail \in Nat BY DEF LInv, TypeOK
  <2>2. Installing' = Installing /\ From' = From /\ Logged' = Logged /\ Locked' = Locked
    BY Zenon, <1>1 DEF Installing, From, Logged, Locked, struct, thread
  <2>3. \A c \in Block : cache'[c] = IF c = b THEN home[b] ELSE cache[c]
    BY Zenon, <1>1 DEF LInv, TypeOK
  <2>4. \A i \in 1 .. Len(lh) : lh[i] \in Block BY <2>1
  <2>5. home[b] # NoBlock BY LogAssumption DEF LInv, TypeOK
  <2> HIDE DEF Installing, From, Logged, Locked
  <2>6. \A c \in Block : cache'[c] # NoBlock /\ c \notin Logged /\ c \notin Locked => cache'[c] = home[c]
    BY Zenon, <2>3 DEF LInv, Contents, CleanCache
  <2>7. \A i \in From .. Len(lh) : cache'[lh[i]] # NoBlock
    BY <1>1 DEF LInv, Contents, PinnedCached
  <2>8. (\E o \in Op : pc[o] = "write_log") => \A i \in 1 .. tail : logb[i] = cache'[lh[i]]
    BY SMTT(30), <1>1, <2>1 DEF LInv, Contents, PinnedCached, LogFilled, Installed, Counts, From
  <2>9. Installing => \A i \in tail + 1 .. Len(lh) : cache'[lh[i]] = logb[i]
    BY SMTT(30), <1>1 DEF LInv, Contents, PinnedCached, ToInstall, From
  <2>10. Installing => \A i \in 1 .. tail : home[lh[i]] = logb[i] /\ cache'[lh[i]] \in {NoBlock, logb[i]}
    <3>1. Installing => tail <= Len(lh) BY Zenon DEF LInv, Counts, Installing
    <3> QED BY SMTT(30), <2>1, <2>3, <3>1 DEF LInv, Contents, Installed
  <2>11. UNCHANGED <<home, logb, lh, tail, mode, pc, buf>>
    BY Zenon, <1>1 DEF disk, struct, thread
  <2>12. \A o \in Op : pc[o] = "log_write" => cache'[buf[o]] # NoBlock
    BY SMTT(30), <1>1 DEF LInv, Contents, LockedCached
  <2> QED BY SMTT(30), <1>1, <2>2, <2>6, <2>7, <2>8, <2>9, <2>10, <2>11, <2>12 DEF Contents,
     CleanCache, PinnedCached, LockedCached, LogFilled, ToInstall, ToRecover, Installed
<1> QED BY Zenon, <1>3, <1>4, <1>5, <1>6, <1>7 DEF LInv

\* What the types say of the two lists of blocks.
LEMMA LogTypes ==
  ASSUME LInv
  PROVE  /\ lh \in Seq(Block) /\ Len(lh) \in Nat /\ \A i \in 1 .. Len(lh) : lh[i] \in Block
         /\ head \in Seq(Block) /\ Len(head) \in Nat /\ \A i \in 1 .. Len(head) : head[i] \in Block
         /\ tail \in Nat /\ outstanding \in Nat
         /\ NoBlock \notin Block /\ NoBlock \notin Val
<1>1. lh \in Seq(Block) /\ head \in Seq(Block) /\ tail \in 0 .. LOGSIZE
  BY Zenon DEF LInv, TypeOK
<1>2. outstanding \in Nat BY DEF LInv, TypeOK
<1> QED BY SMTT(30), <1>1, <1>2, LogAssumption

\* A buffer is recycled.
LEMMA RecycleInv ==
  ASSUME LInv, NEW b \in Block, Recycle(b)
  PROVE  LInv'
<1>1. /\ mode = "up" /\ pin[b] = 0 /\ b \notin Locked /\ cache' = [cache EXCEPT ![b] = NoBlock]
      /\ UNCHANGED <<disk, struct, thread, mode, panicked, pin, tail>>
  BY Zenon DEF Recycle
<1>2. UNCHANGED <<struct, thread, mode, panicked, pin, tail, head>> BY Zenon, <1>1 DEF disk
<1>3. /\ Distinct' /\ Counts' /\ Calls' /\ Pins'
      /\ RoomForAll' /\ CommitAlone' /\ SleeperHasWaker'
  BY Zenon, <1>2, SameThreads
<1>4. TypeOK' BY Zenon, <1>1 DEF LInv, TypeOK, disk, struct, thread
<1>5. Down' BY Zenon, <1>1 DEF Down
<1>6. Header' BY Zenon, <1>1 DEF LInv, Header, Installing, disk, struct, thread
<1>7. Contents'
  <2>1. lh \in Seq(Block) /\ tail \in Nat /\ Len(lh) \in Nat /\ \A i \in 1 .. Len(lh) : lh[i] \in Block
    BY Zenon, LogTypes
  <2>2. Installing' = Installing /\ From' = From /\ Logged' = Logged /\ Locked' = Locked
    BY Zenon, <1>1 DEF Installing, From, Logged, Locked, struct, thread
  <2>3. \A c \in Block : cache'[c] = IF c = b THEN NoBlock ELSE cache[c]
    BY Zenon, <1>1 DEF LInv, TypeOK
  <2>4. \A i \in From .. Len(lh) : lh[i] # b BY <1>1 DEF LInv, Pins
  <2>5. UNCHANGED <<home, logb, lh, tail, mode, pc, buf>>
    BY Zenon, <1>1 DEF disk, struct, thread
  <2>6. Installing => tail <= Len(lh) BY Zenon DEF LInv, Counts, Installing
  <2>7. ASSUME NEW o \in Op, pc[o] = "write_log" PROVE From = 1 /\ tail <= Len(lh)
    BY Zenon, <2>7 DEF LInv, Counts, From, Installing, CommitAlone
  <2>8. \A c \in Block : cache'[c] # NoBlock /\ c \notin Logged /\ c \notin Locked => cache'[c] = home[c]
    BY Zenon, <2>3 DEF LInv, Contents, CleanCache
  <2>9. \A i \in From .. Len(lh) : cache'[lh[i]] # NoBlock
    BY SMTT(30), <1>1, <2>4 DEF LInv, Contents, PinnedCached
  <2>10. (\E o \in Op : pc[o] = "write_log") => \A i \in 1 .. tail : logb[i] = cache'[lh[i]]
    BY SMTT(30), <2>1, <2>3, <2>4, <2>7 DEF LInv, Contents, LogFilled
  <2>11. Installing => \A i \in tail + 1 .. Len(lh) : cache'[lh[i]] = logb[i]
    BY <2>1, <2>3, <2>4 DEF LInv, Contents, ToInstall, From
  <2>12. Installing => \A i \in 1 .. tail : home[lh[i]] = logb[i] /\ cache'[lh[i]] \in {NoBlock, logb[i]}
    BY SMTT(30), <2>1, <2>3, <2>6 DEF LInv, Contents, Installed
  <2>13. \A o \in Op : pc[o] = "log_write" => cache'[buf[o]] # NoBlock
    BY SMTT(30), <1>1 DEF LInv, Contents, LockedCached, Locked
  <2> QED BY SMTT(30), <1>1, <2>2, <2>5, <2>8, <2>9, <2>10, <2>11, <2>12, <2>13 DEF Contents,
     CleanCache, PinnedCached, LockedCached, LogFilled, ToInstall, ToRecover, Installed
<1> QED BY Zenon, <1>3, <1>4, <1>5, <1>6, <1>7 DEF LInv

\* Steps of threads that change neither the disk, the cache nor lh, and leave no
\* commit begun or ended, keep what is said of contents.
LEMMA SameContents ==
  ASSUME LInv, UNCHANGED <<disk, cache, lh, tail, mode>>,
         \A o \in Op : /\ pc'[o] = "install" <=> pc[o] = "install"
                       /\ pc'[o] = "write_log" => pc[o] = "write_log"
                       /\ pc'[o] = "log_write" => pc[o] = "log_write" /\ buf'[o] = buf[o],
         \A c \in Block : c \in Logged \/ cache[c] = home[c] \/ (c \in Locked => c \in Locked')
  PROVE  Distinct' /\ Header' /\ Contents'
<1> USE DEF disk
<1>1. Installing' = Installing /\ From' = From /\ Logged' = Logged
  BY Zenon DEF Installing, From, Logged
<1>2. Distinct' BY Zenon DEF LInv, Distinct
<1>3. Header' BY Zenon, <1>1 DEF LInv, Header
<1>4. Contents'
  <2>1. \A c \in Block : cache[c] # NoBlock /\ c \notin Logged /\ c \notin Locked' => cache[c] = home[c]
    BY Zenon DEF LInv, Contents, CleanCache
  <2> QED BY SMTT(30), <1>1 DEF LInv, Contents, CleanCache, PinnedCached, LockedCached,
     LogFilled, ToInstall, ToRecover, Installed
<1> QED BY Zenon, <1>2, <1>3, <1>4

\* begin_op.
LEMMA BeginOpInv ==
  ASSUME SetFacts, Finite, LInv, NEW o \in Op, BeginOp(o)
  PROVE  LInv'
<1>1. /\ mode = "up" /\ pc[o] \in {"idle", "begin_op"}
      /\ \/ MustWait /\ pc' = [pc EXCEPT ![o] = "sleep"] /\ outstanding' = outstanding
         \/ ~MustWait /\ pc' = [pc EXCEPT ![o] = "active"] /\ outstanding' = outstanding + 1
      /\ UNCHANGED <<disk, cache, pin, lh, committing, tail, mode, buf, wrote, panicked>>
  BY Zenon DEF BeginOp, At, Goto
<1>2. pc \in [Op -> {"idle", "begin_op", "sleep", "active", "log_write", "write_log", "install", "done"}]
  BY Zenon DEF LInv, TypeOK
<1>3. Locked' = Locked /\ Logged' = Logged BY Zenon, <1>1 DEF Locked, Logged
<1>4. \A q \in Op : q # o => pc'[q] = pc[q] BY Zenon, <1>1, <1>2
<1>5. pc'[o] \in {"sleep", "active"} BY Zenon, <1>1, <1>2
<1>6. Distinct' /\ Header' /\ Contents'
  <2>1. \A q \in Op : /\ pc'[q] = "install" <=> pc[q] = "install"
                      /\ pc'[q] = "write_log" => pc[q] = "write_log"
                      /\ pc'[q] = "log_write" => pc[q] = "log_write" /\ buf'[q] = buf[q]
    BY Zenon, <1>1, <1>4, <1>5
  <2> QED BY Zenon, <1>1, <1>3, <2>1, SameContents
<1>7. Installing' = Installing /\ From' = From BY Zenon, <1>1, <1>4, <1>5 DEF Installing, From
<1>8. Down' BY Zenon, <1>1 DEF Down
<1>9. Pins' BY Zenon, <1>1, <1>7 DEF LInv, Pins
<1>10. o \notin Running BY Zenon, <1>1 DEF Running
<1>11. committing \in {0, 1} /\ outstanding \in Nat BY DEF LInv, TypeOK
<1>12. CASE MustWait /\ pc' = [pc EXCEPT ![o] = "sleep"] /\ outstanding' = outstanding
  <2>1. Running' = Running BY <1>1, <1>12 DEF Running
  <2>2. Entries' = Entries BY Zenon, <1>1, <2>1 DEF Entries
  <2>3. TypeOK' BY Zenon, <1>1, <1>12 DEF LInv, TypeOK, disk
  <2>4. Counts' BY <1>1, <2>1, <1>12 DEF LInv, Counts, Committer
  <2>5. Calls' BY ZenonT(30), <1>1, <1>3, <1>4, <1>5, <2>1 DEF LInv, Calls, CallLocks,
     CallWrites
  <2>6. RoomForAll' BY Zenon, <1>1, <2>1, <2>2 DEF LInv, RoomForAll
  <2>7. CommitAlone' BY <1>1, <1>12 DEF LInv, CommitAlone
  <2>8. outstanding > 0 \/ committing = 1
    <3>1. SUFFICES ASSUME outstanding = 0, committing = 0 PROVE FALSE BY <1>11
    <3>2. lh = <<>> BY Zenon, <1>1, <3>1 DEF LInv, Counts
    <3> QED BY <1>12, <3>1, <3>2, LogAssumption DEF MustWait, MightExhaust
  <2>9. SleeperHasWaker' BY Zenon, <1>1, <1>12, <2>8 DEF SleeperHasWaker
  <2> QED BY Zenon, <1>6, <1>8, <1>9, <2>3, <2>4, <2>5, <2>6, <2>7, <2>9 DEF LInv
<1>13. CASE ~MustWait /\ pc' = [pc EXCEPT ![o] = "active"] /\ outstanding' = outstanding + 1
  <2>1. Running' = Running \cup {o} BY Zenon, <1>2, <1>13 DEF Running
  <2>2. wrote[o] = {} BY ZenonT(30), <1>10 DEF LInv, Calls, CallWrites
  <2>3. Entries' = Entries BY Zenon, <1>1, <2>1, <2>2 DEF Entries
  <2>4. Cardinality(Running') = Cardinality(Running) + 1
    BY Zenon, <1>10, <2>1 DEF SetFacts, AddFact, Finite
  <2>5. Cardinality(Running') <= Cardinality(Op)
    BY Zenon DEF Running, SetFacts, OpFact
  <2>6. committing # 1 BY Zenon, <1>13 DEF MustWait
  <2>7. outstanding' \in 0 .. Cardinality(Op)
    <3>1. outstanding = Cardinality(Running) BY Zenon DEF LInv, Counts
    <3>2. Cardinality(Op) \in Nat BY Zenon DEF SetFacts, EmptyFact
    <3> QED BY <1>11, <1>13, <2>4, <2>5, <3>1
  <2>8. TypeOK' BY Zenon, <1>1, <1>13, <2>7 DEF LInv, TypeOK, disk
  <2>9. Counts' BY SMTT(30), <1>1, <1>11, <1>13, <2>4 DEF LInv, Counts, Committer
  <2>10. Calls' BY ZenonT(30), <1>1, <1>3, <1>4, <1>5, <2>1 DEF LInv, Calls, CallLocks,
     CallWrites
  <2>11. RoomForAll'
    <3>1. Len(lh) + (Cardinality(Running) + 1) * MAXOPBLOCKS <= LOGSIZE
      BY SMTT(30), <1>13, LogAssumption DEF MustWait, MightExhaust, LInv, Counts
    <3>2. Len(lh) \in Nat /\ Cardinality(Entries) \in Nat /\ Cardinality(Running) \in Nat
      BY SMTT(30) DEF Finite
    <3>3. (Cardinality(Running) + 1) * MAXOPBLOCKS \in Nat BY <3>2, LogAssumption
    <3> QED BY SMTT(30), <1>1, <2>3, <2>4, <3>1, <3>2, LogAssumption DEF RoomForAll
  <2>12. CommitAlone' BY <1>1, <1>4, <1>5, <2>6 DEF LInv, CommitAlone
  <2>13. SleeperHasWaker' BY <1>11, <1>13 DEF SleeperHasWaker
  <2> QED BY Zenon, <1>6, <1>8, <1>9, <2>8, <2>9, <2>10, <2>11, <2>12, <2>13 DEF LInv
<1> QED BY Zenon, <1>1, <1>12, <1>13

\* A call changes a block.
LEMMA ModifyInv ==
  ASSUME LInv, NEW o \in Op, NEW b \in Block, NEW v \in Val, Modify(o, b, v)
  PROVE  LInv'
<1>1. /\ mode = "up" /\ pc[o] = "active" /\ pc' = [pc EXCEPT ![o] = "log_write"]
      /\ Cardinality(wrote[o] \cup {b}) <= MAXOPBLOCKS /\ b \notin Locked
      /\ cache' = [cache EXCEPT ![b] = v] /\ buf' = [buf EXCEPT ![o] = b]
      /\ UNCHANGED <<home, logb, head, pin, lh, outstanding, committing, tail, mode, wrote, panicked>>
  BY Zenon DEF Modify, At, Goto, disk, struct
<1>2. /\ pc \in [Op -> {"idle", "begin_op", "sleep", "active", "log_write", "write_log", "install", "done"}]
      /\ buf \in [Op -> Block \cup {NoBlock}] /\ cache \in [Block -> Val \cup {NoBlock}]
  BY Zenon DEF LInv, TypeOK
<1>3. pc'[o] = "log_write" /\ buf'[o] = b /\ \A q \in Op : q # o => pc'[q] = pc[q] /\ buf'[q] = buf[q]
  BY Zenon, <1>1, <1>2
<1>4. buf[o] = NoBlock BY Zenon, <1>1 DEF LInv, Calls, CallLocks
<1>5. \A q \in Op : pc[q] \notin Committer
  BY Zenon, <1>1 DEF LInv, CommitAlone, Counts
<1>6. ~Installing /\ ~Installing' /\ From = 1 /\ From' = 1
  BY Zenon, <1>3, <1>5 DEF Installing, From, Committer
<1>7. Logged' = Logged BY Zenon, <1>1 DEF Logged
<1>8. Running' = Running BY <1>1 DEF Running
<1>9. Entries' = Entries BY Zenon, <1>1, <1>8 DEF Entries
<1>10. TypeOK' BY Zenon, <1>1 DEF LInv, TypeOK
<1>11. Distinct' BY Zenon, <1>1 DEF LInv, Distinct
<1>12. Down' BY Zenon, <1>1 DEF Down
<1>13. Counts' BY <1>1, <1>8 DEF LInv, Counts, Committer
<1>14. Calls'
  <2>1. \A q \in Op : buf[q] # b BY Zenon, <1>1 DEF Locked
  <2>2. \A q \in Op : pc'[q] = "log_write" <=> buf'[q] # NoBlock
    BY Zenon, <1>3, LogTypes DEF LInv, Calls, CallLocks
  <2>3. \A q, r \in Op : buf'[q] = buf'[r] /\ buf'[q] # NoBlock => q = r
    <3>1. \A q, r \in Op : buf[q] = buf[r] /\ buf[q] # NoBlock => q = r
      BY Zenon, SMTT(30) DEF LInv, Calls, CallLocks
    <3> QED BY <1>3, <2>1, <3>1
  <2>4. ASSUME NEW q \in Op
        PROVE  /\ wrote[q] \subseteq Logged /\ (q \notin Running => wrote[q] = {})
               /\ Cardinality(wrote[q]) <= MAXOPBLOCKS
               /\ pc'[q] = "log_write" => Cardinality(wrote[q] \cup {buf'[q]}) <= MAXOPBLOCKS
    <3>1. CASE q = o BY ZenonT(30), <1>1, <1>3 DEF LInv, Calls, CallWrites
    <3>2. CASE q # o BY Zenon, <1>3, <3>2 DEF LInv, Calls, CallWrites
    <3> QED BY Zenon, <3>1, <3>2
  <2> QED BY Zenon, <1>1, <1>7, <1>8, <2>2, <2>3, <2>4 DEF Calls, CallLocks, CallWrites
<1>15. Pins' BY Zenon, <1>1, <1>6 DEF LInv, Pins
<1>16. Header' BY Zenon, <1>1, <1>6 DEF LInv, Header
<1>17. Contents'
  <2>1. \A c \in Block : cache'[c] = IF c = b THEN v ELSE cache[c] BY Zenon, <1>1, <1>2
  <2>2. b \in Locked' BY Zenon, <1>3 DEF Locked
  <2>3. \A c \in Block : c # b /\ c \notin Locked' => c \notin Locked
    BY Zenon, <1>3, <1>4, LogTypes DEF Locked
  <2>4. \A c \in Block : cache'[c] # NoBlock /\ c \notin Logged /\ c \notin Locked' => cache'[c] = home[c]
    BY Zenon, <2>1, <2>2, <2>3 DEF LInv, Contents, CleanCache
  <2>5. \A i \in 1 .. Len(lh) : cache'[lh[i]] # NoBlock
    BY SMTT(30), <1>1, <1>6, LogTypes DEF LInv, Contents, PinnedCached
  <2>6. \A q \in Op : pc'[q] # "write_log" BY Zenon, <1>3, <1>5 DEF Committer
  <2>7. \A q \in Op : pc'[q] = "log_write" => cache'[buf'[q]] # NoBlock
    <3>1. ASSUME NEW q \in Op, q # o, pc'[q] = "log_write" PROVE cache'[buf'[q]] # NoBlock
      <4>1. pc[q] = "log_write" /\ buf'[q] = buf[q] BY Zenon, <1>3, <3>1
      <4>2. buf[q] \in Block /\ cache[buf[q]] # NoBlock
        BY Zenon, <1>2, <4>1 DEF LInv, Calls, CallLocks, Contents, LockedCached
      <4> QED BY Zenon, <2>1, <4>1, <4>2, LogTypes
    <3>2. cache'[buf'[o]] # NoBlock BY Zenon, <1>3, <2>1, LogTypes
    <3> QED BY Zenon, <3>1, <3>2
  <2> QED BY Zenon, <1>1, <1>6, <1>7, <2>4, <2>5, <2>6, <2>7 DEF Contents, CleanCache,
     PinnedCached, LockedCached, LogFilled, ToInstall, ToRecover, Installed
<1>18. RoomForAll' BY Zenon, <1>1, <1>8, <1>9 DEF LInv, RoomForAll
<1>19. CommitAlone'
  <2>1. committing # 1 BY Zenon, <1>5 DEF LInv, Counts
  <2> QED BY SMTT(30), <1>1, <1>5, <2>1 DEF CommitAlone, Committer
<1>20. SleeperHasWaker' BY SMTT(30), <1>1 DEF LInv, SleeperHasWaker
<1> QED BY Zenon, <1>10, <1>11, <1>12, <1>13, <1>14, <1>15, <1>16, <1>17, <1>18, <1>19, <1>20
   DEF LInv

\* log_write.
LEMMA LogWriteInv ==
  ASSUME SetFacts, Finite, LInv, NEW o \in Op, LogWrite(o)
  PROVE  LInv'
<1>1. /\ mode = "up" /\ pc[o] = "log_write"
      /\ UNCHANGED <<home, logb, head, cache, outstanding, committing, tail, mode>>
  BY Zenon DEF LogWrite, At, disk
<1>2. /\ pc \in [Op -> {"idle", "begin_op", "sleep", "active", "log_write", "write_log", "install", "done"}]
      /\ buf \in [Op -> Block \cup {NoBlock}] /\ wrote \in [Op -> SUBSET Block]
  BY Zenon DEF LInv, TypeOK
<1>3. buf[o] \in Block BY Zenon, <1>1, <1>2 DEF LInv, Calls, CallLocks
<1>4. \A q \in Op : pc[q] \notin Committer
  BY Zenon, <1>1 DEF LInv, CommitAlone, Counts
<1>5. ~Installing /\ From = 1 /\ committing = 0
  BY Zenon, <1>4 DEF LInv, TypeOK, Counts, Installing, From, Committer
<1>6. CASE panicked' = TRUE /\ UNCHANGED <<lh, pin, pc, buf, wrote>>
  <2>1. Running' = Running /\ Logged' = Logged /\ Installing' = Installing /\ From' = From /\ Locked' = Locked
    BY Zenon, <1>1, <1>6 DEF Running, Logged, Installing, From, Locked
  <2>2. Entries' = Entries BY Zenon, <1>6, <2>1 DEF Entries
  <2>3. TypeOK' BY Zenon, <1>1, <1>6 DEF LInv, TypeOK
  <2>4. Distinct' /\ Down' BY <1>1, <1>6 DEF LInv, Distinct, Down
  <2>5. Counts' BY Zenon, <1>1, <1>6, <2>1 DEF LInv, Counts
  <2>6. Calls' BY Zenon, <1>6, <2>1 DEF LInv, Calls, CallLocks, CallWrites
  <2>7. Pins' /\ Header' BY Zenon, <1>1, <1>6, <2>1 DEF LInv, Pins, Header
  <2>8. Contents' BY Zenon, <1>1, <1>6, <2>1 DEF LInv, Contents, CleanCache, PinnedCached,
     LockedCached, LogFilled, ToInstall, ToRecover, Installed
  <2>9. RoomForAll' BY Zenon, <1>6, <2>1, <2>2 DEF LInv, RoomForAll
  <2>10. CommitAlone' /\ SleeperHasWaker'
    BY Zenon, <1>1, <1>6 DEF LInv, CommitAlone, SleeperHasWaker
  <2> QED BY Zenon, <2>3, <2>4, <2>5, <2>6, <2>7, <2>8, <2>9, <2>10 DEF LInv
<1>7. CASE /\ Len(lh) < LOGSIZE
           /\ \/ buf[o] \in Logged /\ UNCHANGED <<lh, pin>>
              \/ buf[o] \notin Logged /\ lh' = Append(lh, buf[o]) /\ pin' = [pin EXCEPT ![buf[o]] = @ + 1]
           /\ wrote' = [wrote EXCEPT ![o] = @ \cup {buf[o]}]
           /\ buf' = [buf EXCEPT ![o] = NoBlock]
           /\ pc' = [pc EXCEPT ![o] = "active"]
           /\ panicked' = panicked
  <2>1. /\ pc'[o] = "active" /\ buf'[o] = NoBlock /\ wrote'[o] = wrote[o] \cup {buf[o]}
        /\ \A q \in Op : q # o => pc'[q] = pc[q] /\ buf'[q] = buf[q] /\ wrote'[q] = wrote[q]
    BY Zenon, <1>2, <1>7
  <2>2. /\ lh' \in Seq(Block) /\ Len(lh') \in Nat /\ Len(lh') <= LOGSIZE
        /\ Len(lh) <= Len(lh') /\ \A i \in 1 .. Len(lh) : lh'[i] = lh[i]
        /\ buf[o] \notin Logged => Len(lh') = Len(lh) + 1 /\ lh'[Len(lh) + 1] = buf[o]
        /\ buf[o] \in Logged => lh' = lh
    <3>1. CASE buf[o] \in Logged BY SMTT(30), <1>7, <3>1, LogTypes, LogAssumption
    <3>2. CASE buf[o] \notin Logged
      <4>1. lh' = Append(lh, buf[o]) BY Zenon, <1>7, <3>2
      <4>2. lh \in Seq(Block) /\ Len(lh) \in Nat BY Zenon, LogTypes
      <4>3. /\ lh' \in Seq(Block) /\ Len(lh') = Len(lh) + 1
            /\ \A i \in 1 .. Len(lh) : lh'[i] = lh[i]
            /\ lh'[Len(lh) + 1] = buf[o]
        BY <1>3, <4>1, <4>2
      <4> QED BY <1>7, <4>3, LogAssumption
    <3> QED BY Zenon, <3>1, <3>2
  <2>3. Logged' = Logged \cup {buf[o]}
    <3>1. ASSUME buf[o] \notin Logged PROVE Logged' = Logged \cup {buf[o]}
      <4>1. \A i \in 1 .. Len(lh') : i \in 1 .. Len(lh) \/ i = Len(lh) + 1 BY SMTT(30), <2>2
      <4>2. \A i \in 1 .. Len(lh) : i \in 1 .. Len(lh') BY <2>2
      <4>3. Len(lh) + 1 \in 1 .. Len(lh') BY <2>2, <3>1
      <4> QED BY SMTT(30), <2>2, <4>3 DEF Logged
    <3>2. ASSUME buf[o] \in Logged PROVE Logged' = Logged \cup {buf[o]}
      BY <2>2 DEF Logged
    <3> QED BY Zenon, <3>1, <3>2
  <2>4. Running' = Running BY Zenon, <1>1, <2>1 DEF Running
  <2>5. ~Installing' /\ From' = 1 BY Zenon, <1>4, <2>1 DEF Installing, From, Committer
  <2>6. TypeOK'
    <3>1. pin' \in [Block -> Nat] 
      <4>1. pin \in [Block -> Nat] BY Zenon DEF LInv, TypeOK
      <4>2. CASE pin' = pin BY Zenon, <4>1, <4>2
      <4>3. CASE pin' = [pin EXCEPT ![buf[o]] = @ + 1] BY <1>3, <4>1, <4>3
      <4> QED BY Zenon, <1>7, <4>2, <4>3
    <3>2. wrote' \in [Op -> SUBSET Block] BY Zenon, <1>2, <1>3, <1>7
    <3>3. buf' \in [Op -> Block \cup {NoBlock}] BY Zenon, <1>2, <1>7
    <3> QED BY Zenon, <1>1, <1>7, <2>2, <3>1, <3>2 DEF LInv, TypeOK
  <2>7. Distinct'
    <3>1. \A i, j \in 1 .. Len(lh') : lh'[i] = lh'[j] => i = j
      <4>1. \A i, j \in 1 .. Len(lh) : lh[i] = lh[j] => i = j BY Zenon DEF LInv, Distinct
      <4>2. CASE buf[o] \in Logged BY Zenon, <2>2, <4>1, <4>2
      <4>3. CASE buf[o] \notin Logged
        <5>1. \A i \in 1 .. Len(lh) : lh[i] # buf[o] BY Zenon, <4>3 DEF Logged
        <5>2. \A i \in 1 .. Len(lh') : i \in 1 .. Len(lh) \/ i = Len(lh) + 1 BY <2>2
        <5> QED BY Zenon, <2>2, <4>1, <5>1, <5>2
      <4> QED BY Zenon, <4>2, <4>3
    <3> QED BY Zenon, <1>1, <3>1 DEF LInv, Distinct
  <2>8. Down' BY Zenon, <1>1 DEF Down
  <2>9. Counts'
    <3>1. outstanding # 0
      <4>1. o \in Running BY Zenon, <1>1 DEF Running
      <4> QED BY Zenon, <4>1 DEF LInv, Counts, Finite, SetFacts, CountFact
    <3> QED BY SMTT(30), <1>1, <1>5, <2>1, <2>4, <3>1 DEF LInv, Counts, Committer
  <2>10. Calls'
    <3>1. \A q \in Op : pc'[q] = "log_write" <=> buf'[q] # NoBlock
      BY Zenon, <2>1 DEF LInv, Calls, CallLocks
    <3>2. \A q, r \in Op : buf'[q] = buf'[r] /\ buf'[q] # NoBlock => q = r
      BY SMTT(30), <2>1 DEF LInv, Calls, CallLocks
    <3>3. \A q \in Op : wrote'[q] \subseteq Logged'
      BY ZenonT(30), <2>1, <2>3 DEF LInv, Calls, CallWrites
    <3>4. \A q \in Op : q \notin Running => wrote'[q] = {}
      BY ZenonT(30), <1>1, <2>1 DEF LInv, Calls, CallWrites, Running
    <3>5. ASSUME NEW q \in Op
          PROVE  /\ Cardinality(wrote'[q]) <= MAXOPBLOCKS
                 /\ pc'[q] = "log_write" => Cardinality(wrote'[q] \cup {buf'[q]}) <= MAXOPBLOCKS
      <4>1. CASE q = o BY Zenon, <1>1, <2>1, <4>1 DEF LInv, Calls, CallWrites
      <4>2. CASE q # o BY ZenonT(30), <2>1, <4>2 DEF LInv, Calls, CallWrites
      <4> QED BY Zenon, <4>1, <4>2
    <3> QED BY Zenon, <2>4, <3>1, <3>2, <3>3, <3>4, <3>5 DEF Calls, CallLocks, CallWrites
  <2>11. Pins'
    <3>1. \A c \in Block : pin[c] = IF \E i \in 1 .. Len(lh) : lh[i] = c THEN 1 ELSE 0
      BY Zenon, <1>1, <1>5 DEF LInv, Pins
    <3>2. ASSUME NEW c \in Block
          PROVE  pin'[c] = IF \E i \in 1 .. Len(lh') : lh'[i] = c THEN 1 ELSE 0
      <4>1. CASE buf[o] \in Logged BY Zenon, <1>7, <3>1, <4>1
      <4>2. CASE buf[o] \notin Logged
        <5>1. pin' = [pin EXCEPT ![buf[o]] = @ + 1] BY Zenon, <1>7, <4>2
        <5>2. (\E i \in 1 .. Len(lh') : lh'[i] = c) <=> (\E i \in 1 .. Len(lh) : lh[i] = c) \/ c = buf[o]
          <6>1. \A i \in 1 .. Len(lh') : i \in 1 .. Len(lh) \/ i = Len(lh) + 1 BY SMTT(30), <2>2
          <6>2. \A i \in 1 .. Len(lh) : i \in 1 .. Len(lh') BY <2>2
          <6>3. Len(lh) + 1 \in 1 .. Len(lh') BY SMTT(30), <2>2, <4>2
          <6> QED BY SMTT(30), <2>2, <6>1, <6>2, <6>3
        <5>3. ~\E i \in 1 .. Len(lh) : lh[i] = buf[o] BY Zenon, <4>2 DEF Logged
        <5>4. pin[buf[o]] = 0 BY Zenon, <1>3, <3>1, <5>3
        <5>5. pin \in [Block -> Nat] BY Zenon DEF LInv, TypeOK
        <5> QED BY SMTT(30), <3>1, <5>1, <5>2, <5>4, <5>5
      <4> QED BY Zenon, <4>1, <4>2
    <3> QED BY Zenon, <2>5, <3>2 DEF Pins
  <2>12. Header' BY Zenon, <1>1, <1>5, <2>5 DEF LInv, Header
  <2>13. Contents'
    <3>1. \A c \in Block : c \notin Logged' /\ c \notin Locked' => c \notin Logged /\ c \notin Locked
      BY Zenon, <2>1, <2>3 DEF Locked
    <3>2. cache[buf[o]] # NoBlock
      BY Zenon, <1>1 DEF LInv, Contents, LockedCached
    <3>3. \A i \in 1 .. Len(lh') : cache[lh'[i]] # NoBlock
      <4>1. \A i \in 1 .. Len(lh) : cache[lh[i]] # NoBlock
        BY Zenon, <1>1, <1>5 DEF LInv, Contents, PinnedCached
      <4>2. \A i \in 1 .. Len(lh') : i \in 1 .. Len(lh) \/ (buf[o] \notin Logged /\ i = Len(lh) + 1)
        BY SMTT(30), <2>2
      <4> QED BY SMTT(30), <2>2, <3>2, <4>1
    <3>4. \A q \in Op : pc'[q] # "write_log" BY Zenon, <1>4, <2>1 DEF Committer
    <3>5. \A q \in Op : pc'[q] = "log_write" => cache[buf'[q]] # NoBlock
      BY Zenon, <2>1 DEF LInv, Contents, LockedCached
    <3> QED BY Zenon, <1>1, <2>5, <3>1, <3>3, <3>4, <3>5 DEF LInv, Contents, CleanCache,
       PinnedCached, LockedCached, LogFilled, ToInstall, ToRecover, Installed
  <2>14. RoomForAll'
    <3> DEFINE new == <<o, buf[o]>>
    <3>1. Entries' = Entries \cup {new} BY SMTT(30), <2>1, <1>3, <2>4 DEF Entries, Running
    <3>2. buf[o] \notin Logged => new \notin Entries
      BY ZenonT(30) DEF Entries, LInv, Calls, CallWrites
    <3>3. Cardinality(Entries') >= Cardinality(Entries) /\ Cardinality(Entries') \in Nat
          /\ (buf[o] \notin Logged => Cardinality(Entries') = Cardinality(Entries) + 1)
      <4>1. IsFiniteSet(Entries) /\ Cardinality(Entries) \in Nat BY Zenon DEF Finite
      <4>2. Cardinality(Entries \cup {new}) = IF new \in Entries THEN Cardinality(Entries) ELSE Cardinality(Entries) + 1
        BY Zenon, <4>1 DEF SetFacts, AddFact
      <4> QED BY <3>1, <3>2, <4>1, <4>2
    <3>4. Cardinality(Running) * MAXOPBLOCKS \in Nat BY LogAssumption DEF Finite
    <3> HIDE DEF new
    <3>5. Len(lh) + Cardinality(Running) * MAXOPBLOCKS - Cardinality(Entries) <= LOGSIZE
      BY Zenon DEF LInv, RoomForAll
    <3>6. Len(lh') + Cardinality(Running) * MAXOPBLOCKS - Cardinality(Entries') <= LOGSIZE
      <4> DEFINE x == Cardinality(Running) * MAXOPBLOCKS
                 y == Cardinality(Entries)
                 z == Cardinality(Entries')
      <4>1. x \in Nat /\ y \in Nat /\ z \in Nat /\ Len(lh) \in Nat
        BY SMTT(30), <3>3, <3>4 DEF Finite
      <4>2. Len(lh) + x - y <= LOGSIZE BY Zenon, <3>5
      <4>3. z >= y /\ (buf[o] \notin Logged => z = y + 1) BY Zenon, <3>3
      <4> HIDE DEF x, y, z
      <4>4. Len(lh') + x - z <= LOGSIZE BY SMTT(30), <2>2, <4>1, <4>2, <4>3, LogAssumption
      <4> QED BY Zenon, <4>4 DEF x, z
    <3> QED BY Zenon, <2>4, <3>6 DEF RoomForAll
  <2>15. CommitAlone' BY SMTT(30), <1>1, <1>4, <1>5, <2>1 DEF CommitAlone, Committer
  <2>16. SleeperHasWaker' BY Zenon, <1>1, <2>1 DEF LInv, SleeperHasWaker
  <2> QED BY Zenon, <2>6, <2>7, <2>8, <2>9, <2>10, <2>11, <2>12, <2>13, <2>14, <2>15, <2>16
     DEF LInv
<1> QED BY ZenonT(30), <1>6, <1>7 DEF LogWrite, thread, Bpin, Goto

\* end_op, up to the commit.
LEMMA EndOpInv ==
  ASSUME SetFacts, Finite, LInv, NEW o \in Op, EndOp(o)
  PROVE  LInv'
<1>1. /\ mode = "up" /\ pc[o] = "active" /\ outstanding' = outstanding - 1
      /\ wrote' = [wrote EXCEPT ![o] = {}] /\ tail' = 0
      /\ UNCHANGED <<home, logb, head, cache, pin, lh, mode, buf, panicked>>
  BY Zenon DEF EndOp, At, disk
<1>2. \/ /\ outstanding = 1 /\ committing' = 1
         /\ pc' = [pc EXCEPT ![o] = IF lh = <<>> THEN "done" ELSE "write_log"]
      \/ /\ outstanding # 1 /\ committing' = committing
         /\ pc' = [Wakeup(pc) EXCEPT ![o] = "idle"]
  BY Zenon DEF EndOp, LastOne, Goto
<1>3. /\ pc \in [Op -> {"idle", "begin_op", "sleep", "active", "log_write", "write_log", "install", "done"}]
      /\ wrote \in [Op -> SUBSET Block]
  BY Zenon DEF LInv, TypeOK
<1>4. wrote'[o] = {} /\ \A q \in Op : q # o => wrote'[q] = wrote[q] BY Zenon, <1>1, <1>3
<1>5. /\ pc'[o] \in {"done", "write_log", "idle"}
      /\ \A q \in Op : q # o => pc'[q] = pc[q] \/ (pc[q] = "sleep" /\ pc'[q] = "begin_op")
  BY ZenonT(30), <1>2, <1>3 DEF Wakeup
<1>6. pc' \in [Op -> {"idle", "begin_op", "sleep", "active", "log_write", "write_log", "install", "done"}]
  BY ZenonT(30), <1>2, <1>3 DEF Wakeup
<1>7. \A q \in Op : pc[q] \notin Committer BY Zenon, <1>1 DEF LInv, CommitAlone, Counts
<1>8. committing = 0 BY Zenon, <1>7 DEF LInv, TypeOK, Counts
<1>9. ~Installing /\ From = 1 /\ ~Installing' /\ From' = 1
  BY Zenon, <1>5, <1>7 DEF Installing, From, Committer
<1>10. Logged' = Logged /\ Locked' = Locked BY Zenon, <1>1 DEF Logged, Locked
<1>11. Running' = Running \ {o} /\ o \in Running BY Zenon, <1>1, <1>5 DEF Running
<1>12. Cardinality(Running') = Cardinality(Running) - 1 /\ Cardinality(Running) \in Nat
  BY ZenonT(30), <1>11 DEF SetFacts, RemoveFact, Finite
<1>13. outstanding = Cardinality(Running) BY Zenon DEF LInv, Counts
<1>14. IsFiniteSet(Running') /\ Cardinality(Running') \in Nat
  BY Zenon, <1>11 DEF SetFacts, RemoveFact, CountFact, Finite
<1>15. TypeOK'
  <2>1. outstanding' \in 0 .. Cardinality(Op)
    <3>1. Cardinality(Op) \in Nat BY Zenon DEF SetFacts, EmptyFact
    <3>2. Cardinality(Running) <= Cardinality(Op) BY Zenon DEF Running, SetFacts, OpFact
    <3> QED BY <1>1, <1>12, <1>13, <1>14, <3>1, <3>2
  <2>2. committing' \in {0, 1} BY Zenon, <1>2, <1>8
  <2>3. wrote' \in [Op -> SUBSET Block] BY Zenon, <1>1, <1>3
  <2> QED BY SMTT(30), <1>1, <1>6, <2>1, <2>2, <2>3, LogAssumption DEF LInv, TypeOK
<1>16. Distinct' /\ Down' BY <1>1 DEF LInv, Distinct, Down
<1>17. outstanding = 1 => \A q \in Op : q # o => q \notin Running
  <2>1. SUFFICES ASSUME outstanding = 1 PROVE Running' = {} BY Zenon, <1>11
  <2> QED BY <1>12, <1>13, <1>14, <2>1 DEF SetFacts, CountFact
<1>18. Counts'
  <2>1. outstanding' = Cardinality(Running') BY Zenon, <1>1, <1>12, <1>13
  <2>2. committing' = 1 <=> \E q \in Op : pc'[q] \in Committer
    <3>1. CASE outstanding = 1
      <4>1. pc'[o] \in Committer BY Zenon, <1>2, <1>3, <3>1 DEF Committer
      <4> QED BY Zenon, <1>2, <3>1, <4>1
    <3>2. CASE outstanding # 1
      <4>1. pc'[o] = "idle" BY Zenon, <1>2, <3>2 DEF Wakeup
      <4> QED BY <1>2, <1>5, <1>7, <1>8, <3>2, <4>1 DEF Committer
    <3> QED BY Zenon, <3>1, <3>2
  <2>3. outstanding' = 0 => committing' = 1 BY <1>1, <1>2, <1>12, <1>13
  <2>4. \A q \in Op : pc'[q] = "done" => lh = <<>>
    BY Zenon, <1>2, <1>3, <1>5, <1>7 DEF Committer, Wakeup
  <2>5. tail' <= Len(lh') BY <1>1
  <2> QED BY <1>1, <2>1, <2>2, <2>3, <2>4 DEF Counts
<1>19. Calls'
  <2>1. \A q \in Op : pc'[q] = "log_write" <=> pc[q] = "log_write" BY Zenon, <1>1, <1>5
  <2>2. Cardinality({}) = 0 BY Zenon DEF SetFacts, EmptyFact
  <2>3. ASSUME NEW q \in Op
        PROVE  /\ wrote'[q] \subseteq Logged /\ (q \notin Running' => wrote'[q] = {})
               /\ Cardinality(wrote'[q]) <= MAXOPBLOCKS
               /\ pc'[q] = "log_write" => Cardinality(wrote'[q] \cup {buf[q]}) <= MAXOPBLOCKS
    <3>1. CASE q = o BY SMTT(30), <1>4, <1>5, <2>2, <3>1, LogAssumption
    <3>2. CASE q # o BY Zenon, <1>4, <1>11, <2>1, <3>2 DEF LInv, Calls, CallWrites
    <3> QED BY Zenon, <3>1, <3>2
  <2> QED BY Zenon, <1>1, <1>10, <2>1, <2>3 DEF LInv, Calls, CallLocks, CallWrites
<1>20. Pins' BY Zenon, <1>1, <1>9 DEF LInv, Pins
<1>21. Header' BY Zenon, <1>1, <1>9 DEF LInv, Header
<1>22. Contents'
  <2>1. \A q \in Op : pc'[q] = "log_write" => pc[q] = "log_write" BY Zenon, <1>5
  <2>2. \A i \in 1 .. tail' : FALSE BY <1>1
  <2> QED BY SMTT(30), <1>1, <1>9, <1>10, <2>1 DEF LInv, Contents, CleanCache, PinnedCached,
     LockedCached, LogFilled, ToInstall, ToRecover, Installed
<1>23. RoomForAll'
  <2> DEFINE mine == {o} \X wrote[o]
             x == Cardinality(Running)
             y == Cardinality(Entries)
  <2>1. Entries' = Entries \ mine /\ mine \subseteq Entries
    <3>1. ASSUME NEW c PROVE c \in Entries' <=> c \in Entries /\ c \notin mine
      <4>1. c \in Entries' <=> c \in Running' \X Block /\ c[2] \in wrote'[c[1]]
        BY Zenon DEF Entries
      <4>2. c \in Entries <=> c \in Running \X Block /\ c[2] \in wrote[c[1]]
        BY Zenon DEF Entries
      <4>3. Running \subseteq Op BY Zenon DEF Running
      <4>4. CASE c \in Running \X Block
        <5>1. PICK q \in Running, b \in Block : c = <<q, b>> BY <4>4
        <5>2. q \in Op BY Zenon, <4>3
        <5> QED BY Zenon, <1>4, <1>11, <4>1, <4>2, <5>1, <5>2
      <4>5. CASE c \notin Running \X Block BY Zenon, <1>11, <4>1, <4>2, <4>5
      <4> QED BY Zenon, <4>4, <4>5
    <3>2. mine \subseteq Entries BY Zenon, <1>3, <1>11 DEF Entries
    <3> HIDE DEF mine
    <3> QED BY Zenon, <3>1, <3>2
  <2>2. Cardinality(wrote[o]) \in Nat BY Zenon DEF Finite
  <2>3. Cardinality(Entries') = y - Cardinality(wrote[o])
    <3>1. IsFiniteSet(Entries) /\ IsFiniteSet(wrote[o]) BY Zenon DEF Finite
    <3>2. Cardinality(Entries \ mine) = y - Cardinality(wrote[o])
      BY ZenonT(30), <2>1, <3>1 DEF SetFacts, RowFact
    <3> QED BY Zenon, <2>1, <3>2
  <2>4. Cardinality(wrote[o]) <= MAXOPBLOCKS BY ZenonT(30) DEF LInv, Calls, CallWrites
  <2>5. Len(lh) + x * MAXOPBLOCKS - y <= LOGSIZE BY Zenon DEF LInv, RoomForAll
  <2>6. x \in Nat /\ y \in Nat /\ Len(lh) \in Nat BY DEF Finite
  <2> HIDE DEF x, y, mine
  <2>7. (x - 1) * MAXOPBLOCKS = x * MAXOPBLOCKS - MAXOPBLOCKS BY <2>6, LogAssumption
  <2>8. x * MAXOPBLOCKS \in Nat BY <2>6, LogAssumption
  <2>9. Len(lh) + (x - 1) * MAXOPBLOCKS - (y - Cardinality(wrote[o])) <= LOGSIZE
    BY SMTT(30), <2>2, <2>4, <2>5, <2>6, LogAssumption
  <2>10. Cardinality(Running') = x - 1 BY Zenon, <1>12 DEF x
  <2> QED BY Zenon, <1>1, <2>3, <2>9, <2>10 DEF RoomForAll
<1>24. CommitAlone'
  <2>1. committing' = 1 => \A q \in Op : pc'[q] \notin {"active", "log_write"}
    BY <1>2, <1>5, <1>8, <1>17 DEF Running
  <2>2. \A q \in Op : q # o => pc'[q] \notin Committer BY Zenon, <1>5, <1>7 DEF Committer
  <2> QED BY Zenon, <2>1, <2>2 DEF CommitAlone, Committer
<1>25. SleeperHasWaker'
  <2>1. CASE outstanding = 1 BY Zenon, <1>2, <2>1 DEF SleeperHasWaker
  <2>2. CASE outstanding # 1
    <3>1. \A q \in Op : pc'[q] # "sleep" BY ZenonT(30), <1>2, <2>2 DEF Wakeup
    <3> QED BY Zenon, <3>1 DEF SleeperHasWaker
  <2> QED BY Zenon, <2>1, <2>2
<1> QED BY Zenon, <1>15, <1>16, <1>18, <1>19, <1>20, <1>21, <1>22, <1>23, <1>24, <1>25 DEF LInv

-----------------------------------------------------------------------------
\* While a thread commits no call is running.
LEMMA CommitterIsAlone ==
  ASSUME SetFacts, LInv, NEW o \in Op, pc[o] \in Committer
  PROVE  /\ committing = 1 /\ Running = {} /\ Entries = {} /\ outstanding = 0
         /\ \A q \in Op : q # o => pc[q] \notin Committer
         /\ \A q \in Op : pc[q] \notin {"active", "log_write"} /\ buf[q] = NoBlock
         /\ \A b \in Block : b \notin Locked
<1>1. committing = 1 BY Zenon DEF LInv, Counts
<1>2. \A q \in Op : pc[q] \notin {"active", "log_write"} BY Zenon, <1>1 DEF LInv, CommitAlone
<1>3. Running = {} BY Zenon, <1>2 DEF Running
<1>4. Entries = {} BY Zenon, <1>3 DEF Entries
<1>5. outstanding = 0 BY Zenon, <1>3 DEF LInv, Counts, SetFacts, EmptyFact
<1>6. \A q \in Op : q # o => pc[q] \notin Committer BY Zenon DEF LInv, CommitAlone, Committer
<1>7. \A q \in Op : buf[q] = NoBlock BY Zenon, <1>2 DEF LInv, Calls, CallLocks
<1>8. \A b \in Block : b \notin Locked BY Zenon, <1>7, LogTypes DEF Locked
<1> QED BY Zenon, <1>1, <1>2, <1>3, <1>4, <1>5, <1>6, <1>7, <1>8

\* write_log, one block.
LEMMA WriteLogInv ==
  ASSUME SetFacts, LInv, NEW o \in Op, WriteLog(o)
  PROVE  LInv'
<1>1. /\ mode = "up" /\ pc[o] = "write_log" /\ tail < Len(lh)
      /\ logb' = [logb EXCEPT ![tail + 1] = cache[lh[tail + 1]]] /\ tail' = tail + 1
      /\ UNCHANGED <<home, head, cache, pin, lh, outstanding, committing, mode, pc, buf, wrote, panicked>>
  BY Zenon DEF WriteLog, At, struct, thread
<1>2. pc[o] \in Committer BY Zenon, <1>1 DEF Committer
<1>3. ~Installing /\ From = 1
  BY Zenon, <1>1, <1>2, CommitterIsAlone DEF Installing, From, Committer
<1>4. Installing' = Installing /\ From' = 1 BY Zenon, <1>1, <1>3 DEF Installing, From
<1>5. Running' = Running /\ Logged' = Logged /\ Locked' = Locked
  BY Zenon, <1>1 DEF Running, Logged, Locked
<1>6. Entries' = Entries BY Zenon, <1>1, <1>5 DEF Entries
<1>7. /\ logb \in [LogSlots -> Val \cup {NoBlock}] /\ cache \in [Block -> Val \cup {NoBlock}]
      /\ Len(lh) <= LOGSIZE
  BY Zenon DEF LInv, TypeOK
<1>8. tail + 1 \in 1 .. Len(lh) /\ tail + 1 \in LogSlots /\ tail + 1 \in 0 .. LOGSIZE
  BY SMTT(30), <1>1, <1>7, LogTypes, LogAssumption DEF LogSlots
<1>9. TypeOK'
  <2>1. logb' \in [LogSlots -> Val \cup {NoBlock}] BY Zenon, <1>1, <1>7, <1>8, LogTypes
  <2> QED BY Zenon, <1>1, <1>8, <2>1 DEF LInv, TypeOK
<1>10. Distinct' /\ Down' BY <1>1 DEF LInv, Distinct, Down
<1>11. Counts'
  <2>1. tail' <= Len(lh) BY <1>1, LogTypes
  <2> QED BY Zenon, <1>1, <1>5, <2>1 DEF LInv, Counts
<1>12. Calls' BY Zenon, <1>1, <1>5 DEF LInv, Calls, CallLocks, CallWrites
<1>13. Pins' BY Zenon, <1>1, <1>3, <1>4 DEF LInv, Pins
<1>14. Header'
  <2>1. head = <<>> BY Zenon, <1>1, <1>3 DEF LInv, Header
  <2> QED BY <1>1, <1>3, <1>4, <2>1 DEF Header
<1>15. Contents'
  <2>1. \A i \in 1 .. tail : logb[i] = cache[lh[i]] BY Zenon, <1>1 DEF LInv, Contents, LogFilled
  <2>2. logb'[tail + 1] = cache[lh[tail + 1]] BY Zenon, <1>1, <1>7, <1>8
  <2>3. \A i \in 1 .. tail : logb'[i] = logb[i] BY <1>1, <1>7, <1>8, LogTypes DEF LogSlots
  <2>4. \A i \in 1 .. tail + 1 : i \in 1 .. tail \/ i = tail + 1 BY LogTypes
  <2>5. \A i \in 1 .. tail' : logb'[i] = cache[lh[i]] BY Zenon, <1>1, <2>1, <2>2, <2>3, <2>4
  <2> QED BY SMTT(30), <1>1, <1>3, <1>4, <1>5, <2>5 DEF LInv, Contents, CleanCache,
     PinnedCached, LockedCached, LogFilled, ToInstall, ToRecover, Installed
<1>16. RoomForAll' BY Zenon, <1>1, <1>5, <1>6 DEF LInv, RoomForAll
<1>17. CommitAlone' /\ SleeperHasWaker' BY Zenon, <1>1 DEF LInv, CommitAlone, SleeperHasWaker
<1> QED BY Zenon, <1>9, <1>10, <1>11, <1>12, <1>13, <1>14, <1>15, <1>16, <1>17 DEF LInv

\* write_head: the commit.
LEMMA WriteHeadInv ==
  ASSUME SetFacts, LInv, NEW o \in Op, WriteHead(o)
  PROVE  LInv'
<1>1. /\ mode = "up" /\ pc[o] = "write_log" /\ tail = Len(lh)
      /\ head' = lh /\ tail' = 0 /\ pc' = [pc EXCEPT ![o] = "install"]
      /\ UNCHANGED <<home, logb, cache, pin, lh, outstanding, committing, mode, buf, wrote, panicked>>
  BY Zenon DEF WriteHead, LogWritten, At, Goto, struct
<1>2. pc[o] \in Committer BY Zenon, <1>1 DEF Committer
<1>3. pc \in [Op -> {"idle", "begin_op", "sleep", "active", "log_write", "write_log", "install", "done"}]
  BY Zenon DEF LInv, TypeOK
<1>4. pc'[o] = "install" /\ \A q \in Op : q # o => pc'[q] = pc[q] BY Zenon, <1>1, <1>3
<1>5. ~Installing /\ From = 1
  BY Zenon, <1>1, <1>2, CommitterIsAlone DEF Installing, From, Committer
<1>6. Installing' /\ From' = 1 BY <1>1, <1>4 DEF Installing, From
<1>7. Running' = Running /\ Logged' = Logged /\ Locked' = Locked
  BY Zenon, <1>1, <1>4 DEF Running, Logged, Locked
<1>8. Entries' = Entries BY Zenon, <1>1, <1>7 DEF Entries
<1>9. TypeOK' BY <1>1, LogAssumption DEF LInv, TypeOK
<1>10. Distinct' /\ Down' BY <1>1 DEF LInv, Distinct, Down
<1>11. Counts'
  <2>1. tail' <= Len(lh) BY <1>1, LogTypes
  <2> QED BY Zenon, <1>1, <1>2, <1>4, <1>7, <2>1, CommitterIsAlone DEF LInv, Counts, Committer
<1>12. Calls' BY <1>1, <1>7 DEF LInv, Calls, CallLocks, CallWrites
<1>13. Pins' BY Zenon, <1>1, <1>5, <1>6 DEF LInv, Pins
<1>14. \A i \in 1 .. Len(lh) : logb[i] = cache[lh[i]] /\ logb[i] \in Val
  <2>1. \A i \in 1 .. Len(lh) : logb[i] = cache[lh[i]]
    BY Zenon, <1>1 DEF LInv, Contents, LogFilled
  <2>2. \A i \in 1 .. Len(lh) : cache[lh[i]] # NoBlock
    BY Zenon, <1>1, <1>5 DEF LInv, Contents, PinnedCached, ToRecover
  <2>3. \A i \in 1 .. Len(lh) : cache[lh[i]] \in Val \cup {NoBlock}
    BY Zenon, LogTypes DEF LInv, TypeOK
  <2> QED BY Zenon, <2>1, <2>2, <2>3
<1>15. Header' BY Zenon, <1>1, <1>6, <1>14 DEF Header
<1>16. Contents'
  <2>1. \A q \in Op : pc'[q] \notin {"write_log", "log_write"}
    BY Zenon, <1>2, <1>4, CommitterIsAlone DEF Committer
  <2>2. \A i \in 1 .. tail' : FALSE BY <1>1
  <2>3. \A i \in tail' + 1 .. Len(lh) : cache[lh[i]] = logb[i] BY <1>1, <1>14
  <2> QED BY SMTT(30), <1>1, <1>5, <1>6, <1>7 DEF LInv, Contents, CleanCache, PinnedCached,
     LockedCached, LogFilled, ToInstall, ToRecover, Installed
<1>17. RoomForAll' BY Zenon, <1>1, <1>7, <1>8 DEF LInv, RoomForAll
<1>18. CommitAlone' BY Zenon, <1>1, <1>2, <1>4, CommitterIsAlone DEF CommitAlone, Committer
<1>19. SleeperHasWaker' BY Zenon, <1>1, <1>4 DEF LInv, SleeperHasWaker
<1> QED BY Zenon, <1>9, <1>10, <1>11, <1>12, <1>13, <1>15, <1>16, <1>17, <1>18, <1>19 DEF LInv

\* install_trans, one block.
LEMMA InstallInv ==
  ASSUME SetFacts, LInv, NEW o \in Op, Install(o)
  PROVE  LInv'
<1> DEFINE b == lh[tail + 1]
           v == logb[tail + 1]
<1>1. /\ mode = "up" /\ pc[o] = "install" /\ tail < Len(lh)
      /\ home' = [home EXCEPT ![b] = v] /\ cache' = [cache EXCEPT ![b] = v] /\ tail' = tail + 1
      /\ pin' = [pin EXCEPT ![b] = @ - 1]
      /\ UNCHANGED <<logb, head, lh, outstanding, committing, mode, pc, buf, wrote, panicked>>
  BY Zenon DEF Install, InstallBlock, At, struct, thread
<1>2. pc[o] \in Committer BY Zenon, <1>1 DEF Committer
<1>3. Installing /\ From = tail + 1 /\ Installing' /\ From' = tail + 2
  BY SMTT(30), <1>1, LogTypes DEF Installing, From
<1>4. tail + 1 \in 1 .. Len(lh) /\ tail + 1 \in 0 .. LOGSIZE
  BY SMTT(30), <1>1, LogTypes, LogAssumption DEF LInv, TypeOK
<1>5. head = lh BY Zenon, <1>3 DEF LInv, Header
<1>6. b \in Block /\ v \in Val BY Zenon, <1>4, <1>5, LogTypes DEF LInv, Header
<1>7. Running' = Running /\ Logged' = Logged /\ Locked' = Locked
  BY Zenon, <1>1 DEF Running, Logged, Locked
<1>8. Entries' = Entries BY Zenon, <1>1, <1>7 DEF Entries
<1>9. \A i \in 1 .. Len(lh) : lh[i] = b => i = tail + 1 BY Zenon, <1>4 DEF LInv, Distinct
<1>10. /\ home \in [Block -> Val] /\ cache \in [Block -> Val \cup {NoBlock}] /\ pin \in [Block -> Nat]
  BY Zenon DEF LInv, TypeOK
<1>11. pin[b] = 1 BY SMTT(30), <1>1, <1>3, <1>4, <1>6, LogTypes DEF LInv, Pins
<1> HIDE DEF b, v
<1>12. TypeOK'
  <2>1. home' \in [Block -> Val] /\ cache' \in [Block -> Val \cup {NoBlock}]
    BY Zenon, <1>1, <1>6, <1>10
  <2>2. pin' \in [Block -> Nat] BY <1>1, <1>6, <1>10, <1>11
  <2> QED BY Zenon, <1>1, <1>4, <2>1, <2>2 DEF LInv, TypeOK
<1>13. Distinct' /\ Down' BY <1>1 DEF LInv, Distinct, Down
<1>14. Counts'
  <2>1. tail' <= Len(lh) BY <1>1, LogTypes
  <2> QED BY Zenon, <1>1, <1>7, <2>1 DEF LInv, Counts
<1>15. Calls' BY Zenon, <1>1, <1>7 DEF LInv, Calls, CallLocks, CallWrites
<1>16. Pins'
  <2>1. ASSUME NEW c \in Block
        PROVE  pin'[c] = IF \E i \in tail + 2 .. Len(lh) : lh[i] = c THEN 1 ELSE 0
    <3>1. pin[c] = IF \E i \in tail + 1 .. Len(lh) : lh[i] = c THEN 1 ELSE 0
      BY Zenon, <1>1, <1>3 DEF LInv, Pins
    <3>2. CASE c = b
      <4>1. pin'[c] = 0 BY <1>1, <1>6, <1>10, <1>11, <3>2
      <4>2. ~\E i \in tail + 2 .. Len(lh) : lh[i] = c BY SMTT(30), <1>9, <3>2, LogTypes
      <4> QED BY Zenon, <4>1, <4>2
    <3>3. CASE c # b
      <4>1. pin'[c] = pin[c] BY Zenon, <1>1, <1>10, <3>3
      <4>2. (\E i \in tail + 2 .. Len(lh) : lh[i] = c) <=> (\E i \in tail + 1 .. Len(lh) : lh[i] = c)
        BY SMTT(30), <3>3, LogTypes DEF b
      <4> QED BY Zenon, <3>1, <4>1, <4>2
    <3> QED BY Zenon, <3>2, <3>3
  <2> QED BY Zenon, <1>1, <1>3, <2>1 DEF Pins
<1>17. Header' BY Zenon, <1>1, <1>3 DEF LInv, Header
<1>18. Contents'
  <2>1. \A c \in Block : /\ home'[c] = IF c = b THEN v ELSE home[c]
                         /\ cache'[c] = IF c = b THEN v ELSE cache[c]
    BY Zenon, <1>1, <1>10
  <2>2. \A c \in Block : cache'[c] # NoBlock /\ c \notin Logged /\ c \notin Locked => cache'[c] = home'[c]
    BY Zenon, <2>1 DEF LInv, Contents, CleanCache
  <2>3. \A i \in tail + 2 .. Len(lh) : i \in 1 .. Len(lh) /\ i \in tail + 1 .. Len(lh) /\ lh[i] \in Block /\ lh[i] # b
    BY SMTT(30), <1>9, LogTypes
  <2>4. \A i \in tail + 2 .. Len(lh) : cache'[lh[i]] = logb[i] /\ cache'[lh[i]] # NoBlock
    BY SMTT(30), <1>1, <1>3, <2>3 DEF LInv, Contents, PinnedCached, ToInstall, ToRecover
  <2>5. \A i \in 1 .. tail : i \in 1 .. Len(lh) /\ lh[i] \in Block /\ lh[i] # b
    BY SMTT(30), <1>4, <1>9, LogTypes
  <2>6. \A i \in 1 .. tail : home'[lh[i]] = logb[i] /\ cache'[lh[i]] \in {NoBlock, logb[i]}
    BY Zenon, <1>3, <2>1, <2>5 DEF LInv, Contents, Installed
  <2>7. home'[lh[tail + 1]] = logb[tail + 1] /\ cache'[lh[tail + 1]] = logb[tail + 1]
    BY Zenon, <1>6, <2>1 DEF b, v
  <2>8. \A i \in 1 .. tail + 1 : i \in 1 .. tail \/ i = tail + 1 BY SMTT(30), LogTypes
  <2>9. \A i \in 1 .. tail' : home'[lh[i]] = logb[i] /\ cache'[lh[i]] \in {NoBlock, logb[i]}
    BY Zenon, <1>1, <2>6, <2>7, <2>8
  <2>10. \A q \in Op : pc[q] \notin {"write_log", "log_write"}
    BY Zenon, <1>1, <1>2, CommitterIsAlone DEF Committer
  <2>11. tail' + 1 = tail + 2 BY SMTT(30), <1>1, LogTypes
  <2> QED BY SMTT(30), <1>1, <1>3, <1>7, <2>2, <2>4, <2>9, <2>10, <2>11 DEF Contents,
     CleanCache, PinnedCached, LockedCached, LogFilled, ToInstall, ToRecover, Installed
<1>19. RoomForAll' BY Zenon, <1>1, <1>7, <1>8 DEF LInv, RoomForAll
<1>20. CommitAlone' /\ SleeperHasWaker' BY Zenon, <1>1 DEF LInv, CommitAlone, SleeperHasWaker
<1> QED BY Zenon, <1>12, <1>13, <1>14, <1>15, <1>16, <1>17, <1>18, <1>19, <1>20 DEF LInv

\* The header is cleared: the transaction is over.
LEMMA EraseInv ==
  ASSUME SetFacts, LInv, NEW o \in Op, Erase(o)
  PROVE  LInv'
<1>1. /\ mode = "up" /\ pc[o] = "install" /\ tail = Len(lh)
      /\ lh' = <<>> /\ head' = <<>> /\ tail' = 0 /\ pc' = [pc EXCEPT ![o] = "done"]
      /\ UNCHANGED <<home, logb, cache, pin, outstanding, committing, mode, buf, wrote, panicked>>
  BY Zenon DEF Erase, At, Goto
<1>2. pc[o] \in Committer BY Zenon, <1>1 DEF Committer
<1>3. pc \in [Op -> {"idle", "begin_op", "sleep", "active", "log_write", "write_log", "install", "done"}]
  BY Zenon DEF LInv, TypeOK
<1>4. pc'[o] = "done" /\ \A q \in Op : q # o => pc'[q] = pc[q] BY Zenon, <1>1, <1>3
<1>5. \A q \in Op : q # o => pc'[q] \notin Committer BY Zenon, <1>2, <1>4, CommitterIsAlone
<1>6. Installing /\ From = tail + 1 /\ ~Installing' /\ From' = 1
  BY Zenon, <1>1, <1>4, <1>5 DEF Installing, From, Committer
<1>7. Len(<<>>) = 0 /\ <<>> \in Seq(Block) OBVIOUS
<1>8. Logged' = {} BY <1>1, <1>7 DEF Logged
<1>9. Running' = {} BY Zenon, <1>2, <1>4, CommitterIsAlone DEF Running
<1>10. Entries' = {} BY Zenon, <1>9 DEF Entries
<1>11. \A q \in Op : wrote[q] = {}
  BY ZenonT(30), <1>2, CommitterIsAlone DEF LInv, Calls, CallWrites
<1>12. TypeOK' BY SMTT(30), <1>1, <1>7, LogAssumption DEF LInv, TypeOK
<1>13. Distinct' /\ Down' BY <1>1, <1>7 DEF LInv, Distinct, Down
<1>14. Counts'
  <2>1. Cardinality({}) = 0 BY Zenon DEF SetFacts, EmptyFact
  <2>2. tail' <= Len(lh') BY <1>1, <1>7
  <2> QED BY Zenon, <1>1, <1>2, <1>4, <1>9, <2>1, <2>2, CommitterIsAlone DEF Counts, Committer
<1>15. Calls'
  <2>1. Cardinality({}) = 0 BY Zenon DEF SetFacts, EmptyFact
  <2>2. \A q \in Op : pc'[q] # "log_write" /\ buf[q] = NoBlock
    BY Zenon, <1>2, <1>4, CommitterIsAlone
  <2>3. \A q \in Op : wrote'[q] = {} /\ Cardinality(wrote'[q]) <= MAXOPBLOCKS
    <3> TAKE q \in Op
    <3>1. wrote'[q] = {} BY Zenon, <1>1, <1>11
    <3>2. Cardinality(wrote'[q]) = 0 BY <2>1, <3>1, Zenon
    <3> QED BY <3>1, <3>2, LogAssumption
  <2> QED BY Zenon, <1>1, <2>2, <2>3 DEF Calls, CallLocks, CallWrites
<1>16. Pins'
  <2>1. ASSUME NEW b \in Block PROVE pin[b] = 0
    <3>1. ~\E i \in From .. Len(lh) : lh[i] = b BY <1>1, <1>6, LogTypes
    <3> QED BY Zenon, <1>1, <3>1 DEF LInv, Pins
  <2>2. \A i \in 1 .. Len(lh') : FALSE BY <1>1, <1>7
  <2> QED BY Zenon, <1>1, <1>6, <2>1, <2>2 DEF Pins
<1>17. Header' BY <1>1, <1>6, <1>7 DEF Header
<1>18. Contents'
  <2>1. \A c \in Block : c \in Logged => cache[c] = NoBlock \/ cache[c] = home[c]
    BY SMTT(30), <1>1, <1>6, LogTypes DEF LInv, Contents, Installed, Logged
  <2>2. \A c \in Block : cache[c] # NoBlock => cache[c] = home[c]
    BY Zenon, <1>2, <2>1, CommitterIsAlone DEF LInv, Contents, CleanCache
  <2>3. \A q \in Op : pc'[q] \notin {"write_log", "log_write"}
    BY Zenon, <1>4, <1>5, <1>2, CommitterIsAlone DEF Committer
  <2>4. \A i \in 1 .. Len(lh') : FALSE BY <1>1, <1>7
  <2> QED BY <1>1, <1>6, <2>2, <2>3 DEF Contents, CleanCache, PinnedCached, LockedCached,
     LogFilled, ToInstall, ToRecover, Installed
<1>19. RoomForAll'
  <2>1. Cardinality({}) = 0 BY Zenon DEF SetFacts, EmptyFact
  <2> QED BY <1>1, <1>7, <1>9, <1>10, <2>1, LogAssumption DEF RoomForAll
<1>20. CommitAlone' BY Zenon, <1>2, <1>4, <1>5, CommitterIsAlone DEF CommitAlone, Committer
<1>21. SleeperHasWaker' BY Zenon, <1>1, <1>4 DEF LInv, SleeperHasWaker
<1> QED BY Zenon, <1>12, <1>13, <1>14, <1>15, <1>16, <1>17, <1>18, <1>19, <1>20, <1>21 DEF LInv

\* The end of end_op.
LEMMA CommitDoneInv ==
  ASSUME SetFacts, LInv, NEW o \in Op, CommitDone(o)
  PROVE  LInv'
<1>1. /\ mode = "up" /\ pc[o] = "done" /\ committing' = 0 /\ pc' = [Wakeup(pc) EXCEPT ![o] = "idle"]
      /\ UNCHANGED <<home, logb, head, cache, pin, lh, outstanding, tail, mode, buf, wrote, panicked>>
  BY Zenon DEF CommitDone, At, disk
<1>2. pc[o] \in Committer BY Zenon, <1>1 DEF Committer
<1>3. pc \in [Op -> {"idle", "begin_op", "sleep", "active", "log_write", "write_log", "install", "done"}]
  BY Zenon DEF LInv, TypeOK
<1>4. /\ pc'[o] = "idle"
      /\ \A q \in Op : q # o => pc'[q] = IF pc[q] = "sleep" THEN "begin_op" ELSE pc[q]
  BY Zenon, <1>1, <1>3 DEF Wakeup
<1>5. \A q \in Op : pc'[q] \notin Committer \cup {"active", "log_write", "sleep"}
  BY Zenon, <1>2, <1>4, CommitterIsAlone DEF Committer
<1>6. ~Installing /\ From = 1 /\ ~Installing' /\ From' = 1
  BY Zenon, <1>1, <1>2, <1>5, CommitterIsAlone DEF Installing, From, Committer
<1>7. lh = <<>> BY Zenon, <1>1 DEF LInv, Counts
<1>8. Running' = Running /\ Running = {} BY Zenon, <1>2, <1>5, CommitterIsAlone DEF Running
<1>9. Entries' = Entries /\ Logged' = Logged /\ Locked' = Locked
  BY Zenon, <1>1, <1>8 DEF Entries, Logged, Locked
<1>10. TypeOK'
  <2>1. pc' \in [Op -> {"idle", "begin_op", "sleep", "active", "log_write", "write_log", "install", "done"}]
    BY Zenon, <1>1, <1>3 DEF Wakeup
  <2> QED BY Zenon, <1>1, <2>1 DEF LInv, TypeOK
<1>11. Distinct' /\ Down' BY <1>1 DEF LInv, Distinct, Down
<1>12. Counts' BY <1>1, <1>5, <1>7, <1>8 DEF LInv, Counts, Committer
<1>13. Calls'
  <2>1. \A q \in Op : pc'[q] # "log_write" /\ buf[q] = NoBlock
    BY Zenon, <1>2, <1>5, CommitterIsAlone
  <2> QED BY Zenon, <1>1, <1>8, <2>1 DEF LInv, Calls, CallLocks, CallWrites
<1>14. Pins' /\ Header' BY Zenon, <1>1, <1>6 DEF LInv, Pins, Header
<1>15. Contents'
  <2>1. \A q \in Op : pc'[q] \notin {"write_log", "log_write"} BY Zenon, <1>5 DEF Committer
  <2> QED BY Zenon, <1>1, <1>6, <1>9, <2>1 DEF LInv, Contents, CleanCache, PinnedCached,
     LockedCached, LogFilled, ToInstall, ToRecover, Installed
<1>16. RoomForAll' BY Zenon, <1>1, <1>8, <1>9 DEF LInv, RoomForAll
<1>17. CommitAlone' /\ SleeperHasWaker'
  BY Zenon, <1>1, <1>5 DEF CommitAlone, SleeperHasWaker, Committer
<1> QED BY Zenon, <1>10, <1>11, <1>12, <1>13, <1>14, <1>15, <1>16, <1>17 DEF LInv

\* Before recovery has ended no thread runs.
LEMMA NobodyRuns ==
  ASSUME SetFacts, LInv, mode # "up"
  PROVE  /\ Running = {} /\ Entries = {} /\ ~Installing
         /\ \A b \in Block : b \notin Locked
         /\ \A o \in Op : pc[o] = "idle" /\ buf[o] = NoBlock /\ wrote[o] = {}
<1>1. \A o \in Op : pc[o] = "idle" /\ buf[o] = NoBlock BY Zenon DEF LInv, Down
<1>2. Running = {} /\ ~Installing BY Zenon, <1>1 DEF Running, Installing
<1>3. Entries = {} BY Zenon, <1>2 DEF Entries
<1>4. \A o \in Op : wrote[o] = {} BY ZenonT(30), <1>2 DEF LInv, Calls, CallWrites
<1>5. \A b \in Block : b \notin Locked BY Zenon, <1>1, LogTypes DEF Locked
<1> QED BY Zenon, <1>1, <1>2, <1>3, <1>4, <1>5

\* A crash.
LEMMA CrashInv ==
  ASSUME SetFacts, LInv, Crash
  PROVE  LInv'
<1>1. /\ cache' = [b \in Block |-> NoBlock] /\ pin' = [b \in Block |-> 0]
      /\ lh' = <<>> /\ outstanding' = 0 /\ committing' = 0 /\ tail' = 0 /\ mode' = "read_head"
      /\ pc' = [o \in Op |-> "idle"] /\ buf' = [o \in Op |-> NoBlock] /\ wrote' = [o \in Op |-> {}]
      /\ panicked' = FALSE /\ UNCHANGED <<home, logb, head>>
  BY Zenon DEF Crash, disk
<1>2. Len(<<>>) = 0 /\ <<>> \in Seq(Block) OBVIOUS
<1>3. Cardinality({}) = 0 BY Zenon DEF SetFacts, EmptyFact
<1>4. Running' = {} /\ ~Installing' BY Zenon, <1>1 DEF Running, Installing
<1>5. Entries' = {} BY Zenon, <1>4 DEF Entries
<1>6. TypeOK'
  <2>1. Cardinality(Op) \in Nat BY Zenon DEF SetFacts, EmptyFact
  <2>2. outstanding' \in 0 .. Cardinality(Op) /\ tail' \in 0 .. LOGSIZE
    BY <1>1, <2>1, LogAssumption
  <2>3. lh' \in Seq(Block) /\ Len(lh') <= LOGSIZE BY <1>1, <1>2, LogAssumption
  <2>4. /\ cache' \in [Block -> Val \cup {NoBlock}] /\ pin' \in [Block -> Nat]
        /\ buf' \in [Op -> Block \cup {NoBlock}] /\ pc' \in [Op -> {"idle", "begin_op", "sleep", "active", "log_write", "write_log", "install", "done"}]
    BY Zenon, <1>1
  <2>5. wrote' \in [Op -> SUBSET Block] BY Zenon, <1>1
  <2> QED BY ZenonT(30), <1>1, <2>2, <2>3, <2>4, <2>5 DEF LInv, TypeOK
<1>7. Distinct' /\ Down' BY <1>1, <1>2 DEF LInv, Distinct, Down
<1>8. Counts' BY <1>1, <1>2, <1>3, <1>4 DEF Counts, Committer
<1>9. Calls' BY <1>1, <1>3, LogAssumption DEF Calls, CallLocks, CallWrites
<1>10. Pins' /\ Header' BY Zenon, <1>1, <1>4 DEF LInv, Pins, Header
<1>11. Contents' BY <1>1 DEF Contents, CleanCache, PinnedCached, LockedCached, LogFilled,
   ToInstall, ToRecover, Installed
<1>12. RoomForAll' BY <1>1, <1>2, <1>3, <1>4, <1>5, LogAssumption DEF RoomForAll
<1>13. CommitAlone' /\ SleeperHasWaker' BY Zenon, <1>1 DEF CommitAlone, SleeperHasWaker
<1> QED BY Zenon, <1>6, <1>7, <1>8, <1>9, <1>10, <1>11, <1>12, <1>13 DEF LInv

\* Recovery reads the header.
LEMMA ReadHeadInv ==
  ASSUME SetFacts, LInv, ReadHead
  PROVE  LInv'
<1>1. /\ mode = "read_head" /\ lh' = head /\ mode' = "recover"
      /\ UNCHANGED <<home, logb, head, cache, pin, outstanding, committing, tail, pc, buf, wrote, panicked>>
  BY Zenon DEF ReadHead, disk, thread
<1>2. tail = 0 /\ \A b \in Block : cache[b] = NoBlock BY Zenon, <1>1 DEF LInv, Down
<1>3. Running' = Running /\ Installing' = Installing /\ Locked' = Locked
  BY Zenon, <1>1 DEF Running, Installing, Locked
<1>4. Entries' = Entries BY Zenon, <1>1, <1>3 DEF Entries
<1>5. Cardinality({}) = 0 BY Zenon DEF SetFacts, EmptyFact
<1>6. TypeOK' BY Zenon, <1>1 DEF LInv, TypeOK
<1>7. Distinct' /\ Down' BY Zenon, <1>1 DEF LInv, Distinct, Down
<1>8. Counts' BY SMTT(30), <1>1, <1>2, <1>3, NobodyRuns, LogTypes DEF LInv, Counts
<1>9. Calls' BY SMTT(30), <1>1, <1>3, <1>5, NobodyRuns, LogAssumption DEF Calls, CallLocks,
   CallWrites
<1>10. Pins' /\ Header' BY Zenon, <1>1, <1>3, NobodyRuns DEF LInv, Pins, Header
<1>11. Contents'
  <2>1. \A i \in 1 .. Len(lh') : cache[lh'[i]] = NoBlock BY Zenon, <1>1, <1>2, LogTypes
  <2>2. \A i \in 1 .. tail : FALSE BY <1>2
  <2>3. \A i \in tail + 1 .. Len(lh') : i \in 1 .. Len(lh') BY <1>2
  <2> QED BY <1>1, <1>2, <1>3, <2>1, NobodyRuns DEF Contents, CleanCache, PinnedCached,
     LockedCached, LogFilled, ToInstall, ToRecover, Installed
<1>12. RoomForAll'
  <2>1. Len(head) <= LOGSIZE /\ Len(head) \in Nat BY Zenon, LogTypes DEF LInv, TypeOK
  <2>2. Cardinality(Running') = 0 /\ Cardinality(Entries') = 0
    BY Zenon, <1>1, <1>3, <1>4, <1>5, NobodyRuns
  <2> QED BY <1>1, <2>1, <2>2, LogAssumption DEF RoomForAll
<1>13. CommitAlone' /\ SleeperHasWaker'
  BY Zenon, <1>1, NobodyRuns DEF CommitAlone, SleeperHasWaker
<1> QED BY Zenon, <1>6, <1>7, <1>8, <1>9, <1>10, <1>11, <1>12, <1>13 DEF LInv

\* Recovery installs a block.
LEMMA ReinstallInv ==
  ASSUME SetFacts, LInv, Reinstall
  PROVE  LInv'
<1> DEFINE b == lh[tail + 1]
           v == logb[tail + 1]
<1>1. /\ mode = "recover" /\ tail < Len(lh)
      /\ home' = [home EXCEPT ![b] = v] /\ cache' = [cache EXCEPT ![b] = v] /\ tail' = tail + 1
      /\ UNCHANGED <<logb, head, lh, outstanding, committing, mode, pc, buf, wrote, panicked, pin>>
  BY Zenon DEF Reinstall, InstallBlock, struct, thread
<1>2. tail + 1 \in 1 .. Len(lh) /\ tail + 1 \in 0 .. LOGSIZE
  BY SMTT(30), <1>1, LogTypes, LogAssumption DEF LInv, TypeOK
<1>3. head = lh BY Zenon, <1>1 DEF LInv, Down
<1>4. b \in Block /\ v \in Val BY Zenon, <1>2, <1>3, LogTypes DEF LInv, Header
<1>5. Running' = Running /\ Logged' = Logged /\ Locked' = Locked /\ Installing' = Installing
  BY Zenon, <1>1 DEF Running, Logged, Locked, Installing
<1>6. Entries' = Entries BY Zenon, <1>1, <1>5 DEF Entries
<1>7. \A i \in 1 .. Len(lh) : lh[i] = b => i = tail + 1 BY Zenon, <1>2 DEF LInv, Distinct
<1>8. home \in [Block -> Val] /\ cache \in [Block -> Val \cup {NoBlock}]
  BY Zenon DEF LInv, TypeOK
<1> HIDE DEF b, v
<1>9. TypeOK'
  <2>1. home' \in [Block -> Val] /\ cache' \in [Block -> Val \cup {NoBlock}]
    BY Zenon, <1>1, <1>4, <1>8
  <2> QED BY Zenon, <1>1, <1>2, <2>1 DEF LInv, TypeOK
<1>10. Distinct' /\ Down' BY <1>1 DEF LInv, Distinct, Down
<1>11. Counts'
  <2>1. tail' <= Len(lh) BY <1>1, LogTypes
  <2> QED BY Zenon, <1>1, <1>5, <2>1 DEF LInv, Counts
<1>12. Calls' BY Zenon, <1>1, <1>5 DEF LInv, Calls, CallLocks, CallWrites
<1>13. Pins' /\ Header' BY Zenon, <1>1, <1>5 DEF LInv, Pins, Header
<1>14. Contents'
  <2>1. \A c \in Block : /\ home'[c] = IF c = b THEN v ELSE home[c]
                         /\ cache'[c] = IF c = b THEN v ELSE cache[c]
    BY Zenon, <1>1, <1>8
  <2>2. \A c \in Block : cache'[c] # NoBlock /\ c \notin Logged /\ c \notin Locked => cache'[c] = home'[c]
    BY Zenon, <2>1 DEF LInv, Contents, CleanCache
  <2>3. \A i \in tail + 2 .. Len(lh) : i \in 1 .. Len(lh) /\ i \in tail + 1 .. Len(lh) /\ lh[i] \in Block /\ lh[i] # b
    BY SMTT(30), <1>7, LogTypes
  <2>4. \A i \in tail + 2 .. Len(lh) : cache'[lh[i]] = NoBlock
    BY SMTT(30), <1>1, <2>3 DEF LInv, Contents, ToRecover
  <2>5. \A i \in 1 .. tail : i \in 1 .. Len(lh) /\ lh[i] \in Block /\ lh[i] # b
    BY SMTT(30), <1>2, <1>7, LogTypes
  <2>6. \A i \in 1 .. tail : home'[lh[i]] = logb[i] /\ cache'[lh[i]] \in {NoBlock, logb[i]}
    BY SMTT(30), <1>1, <2>5 DEF LInv, Contents, Installed
  <2>7. home'[lh[tail + 1]] = logb[tail + 1] /\ cache'[lh[tail + 1]] = logb[tail + 1]
    BY Zenon, <1>4, <2>1 DEF b, v
  <2>8. \A i \in 1 .. tail + 1 : i \in 1 .. tail \/ i = tail + 1 BY LogTypes
  <2>9. \A i \in 1 .. tail' : home'[lh[i]] = logb[i] /\ cache'[lh[i]] \in {NoBlock, logb[i]}
    BY Zenon, <1>1, <2>6, <2>7, <2>8
  <2>10. tail' + 1 = tail + 2 BY SMTT(30), <1>1, LogTypes
  <2> QED BY SMTT(30), <1>1, <1>5, <2>2, <2>4, <2>9, <2>10, NobodyRuns DEF Contents,
     CleanCache, PinnedCached, LockedCached, LogFilled, ToInstall, ToRecover, Installed
<1>15. RoomForAll' BY Zenon, <1>1, <1>5, <1>6 DEF LInv, RoomForAll
<1>16. CommitAlone' /\ SleeperHasWaker' BY Zenon, <1>1 DEF LInv, CommitAlone, SleeperHasWaker
<1> QED BY Zenon, <1>9, <1>10, <1>11, <1>12, <1>13, <1>14, <1>15, <1>16 DEF LInv

\* Recovery ends.
LEMMA ClearLogInv ==
  ASSUME SetFacts, LInv, ClearLog
  PROVE  LInv'
<1>1. /\ mode = "recover" /\ tail = Len(lh)
      /\ lh' = <<>> /\ head' = <<>> /\ tail' = 0 /\ mode' = "up"
      /\ UNCHANGED <<home, logb, cache, pin, outstanding, committing, pc, buf, wrote, panicked>>
  BY Zenon DEF ClearLog, thread
<1>2. Len(<<>>) = 0 /\ <<>> \in Seq(Block) OBVIOUS
<1>3. Running' = Running /\ Locked' = Locked /\ Installing' = Installing
  BY Zenon, <1>1 DEF Running, Locked, Installing
<1>4. ~Installing /\ From' = 1 /\ \A i \in 1 .. Len(lh') : FALSE
  BY <1>1, <1>2, <1>3, NobodyRuns DEF From
<1>5. Entries' = Entries BY Zenon, <1>1, <1>3 DEF Entries
<1>6. Cardinality({}) = 0 BY Zenon DEF SetFacts, EmptyFact
<1>7. TypeOK' BY SMTT(30), <1>1, <1>2, LogAssumption DEF LInv, TypeOK
<1>8. Distinct' /\ Down' BY <1>1, <1>2 DEF LInv, Distinct, Down
<1>9. Counts' BY Zenon, <1>1, <1>2, <1>3, NobodyRuns DEF LInv, Counts, Committer
<1>10. Calls'
  <2>1. \A q \in Op : wrote'[q] = {} /\ Cardinality(wrote'[q]) <= MAXOPBLOCKS
    <3> TAKE q \in Op
    <3>1. wrote'[q] = {} BY Zenon, <1>1, NobodyRuns
    <3>2. Cardinality(wrote'[q]) = 0 BY <1>6, <3>1, Zenon
    <3> QED BY <3>1, <3>2, LogAssumption
  <2> QED BY Zenon, <1>1, <2>1, NobodyRuns DEF Calls, CallLocks, CallWrites
<1>11. Pins' BY Zenon, <1>1, <1>4 DEF LInv, Down, Pins
<1>12. Header' BY Zenon, <1>1, <1>2, <1>3, <1>4 DEF Header
<1>13. Contents'
  <2>1. \A c \in Block : c \in Logged => cache[c] = NoBlock \/ cache[c] = home[c]
    BY Zenon, <1>1 DEF LInv, Contents, Installed, Logged
  <2>2. \A c \in Block : cache[c] # NoBlock => cache[c] = home[c]
    BY Zenon, <1>1, <2>1, NobodyRuns DEF LInv, Contents, CleanCache, ToInstall
  <2>3. \A q \in Op : pc'[q] \notin {"write_log", "log_write"} BY Zenon, <1>1, NobodyRuns
  <2> QED BY <1>1, <1>4, <2>2, <2>3 DEF Contents, CleanCache, PinnedCached, LockedCached,
     LogFilled, ToInstall, ToRecover, Installed
<1>14. RoomForAll'
  <2>1. Cardinality(Running') = 0 /\ Cardinality(Entries') = 0
    BY ZenonT(30), <1>1, <1>3, <1>5, <1>6, NobodyRuns
  <2> QED BY <1>1, <1>2, <2>1, LogAssumption DEF RoomForAll
<1>15. CommitAlone' /\ SleeperHasWaker'
  BY Zenon, <1>1, NobodyRuns DEF CommitAlone, SleeperHasWaker
<1> QED BY Zenon, <1>7, <1>8, <1>9, <1>10, <1>11, <1>12, <1>13, <1>14, <1>15 DEF LInv
==============================================================================
