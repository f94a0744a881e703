-------------------------------- MODULE Log --------------------------------
(***************************************************************************)
(* The redo log of kernel/log.c, with the parts of the buffer cache        *)
(* (bio.c) it depends on: buffers are read on demand, recycled when nobody *)
(* references them, and pinned by log_write until their block is           *)
(* installed.  A crash may come between any two disk writes; a block is    *)
(* written whole or not at all.                                            *)
(*                                                                         *)
(* An action is a critical section of log.lock, one disk write, or the use *)
(* of one buffer under its sleep-lock.                                     *)
(***************************************************************************)
EXTENDS Integers, Sequences, FiniteSets

CONSTANTS
  Op,           \* threads making file system calls
  Block,        \* home blocks
  Val,          \* contents of a block
  NoBlock,      \* not a block, not a value
  LOGSIZE, MAXOPBLOCKS,
  nlog          \* log.size: blocks of the on-disk log, its header included

ASSUME LogAssumption ==
  /\ MAXOPBLOCKS \in Nat \ {0} /\ LOGSIZE \in Nat /\ LOGSIZE >= MAXOPBLOCKS
  /\ nlog \in Nat
  /\ NoBlock \notin Block \cup Val
ASSUME OpAssumption == IsFiniteSet(Op)

VARIABLES
  home, logb, head,                   \* the disk: home blocks, log blocks, header
  cache,                              \* cached contents of a block, or NoBlock
  pin,                                \* references taken by bpin
  lh, outstanding, committing,        \* struct log
  tail,                               \* loop variable of write_log, install_trans
  mode,                               \* "read_head", "recover" or "up"
  pc,                                 \* where each thread is
  buf,                                \* the buffer a thread has locked
  wrote,                              \* the blocks its call has logged so far
  panicked

disk   == <<home, logb, head>>
struct == <<lh, outstanding, committing>>
thread == <<pc, buf, wrote>>
vars   == <<disk, cache, pin, struct, tail, mode, thread, panicked>>

LogSlots == 1 .. LOGSIZE
Logged   == {lh[i] : i \in 1 .. Len(lh)}

TypeOK ==
  /\ home \in [Block -> Val]
  /\ logb \in [LogSlots -> Val \cup {NoBlock}]
  /\ head \in Seq(Block) /\ Len(head) <= LOGSIZE
  /\ cache \in [Block -> Val \cup {NoBlock}]
  /\ pin \in [Block -> Nat]
  /\ lh \in Seq(Block) /\ Len(lh) <= LOGSIZE
  /\ outstanding \in 0 .. Cardinality(Op)
  /\ committing \in {0, 1}
  /\ tail \in 0 .. LOGSIZE
  /\ mode \in {"read_head", "recover", "up"}
  /\ pc \in [Op -> {"idle", "begin_op", "sleep", "active", "log_write",
                    "write_log", "install", "done"}]
  /\ buf \in [Op -> Block \cup {NoBlock}]
  /\ wrote \in [Op -> SUBSET Block]
  /\ panicked \in BOOLEAN

\* A freshly made file system, about to boot.
Init ==
  /\ home \in [Block -> Val] /\ \A b, c \in Block : home[b] = home[c]
  /\ logb = [i \in LogSlots |-> NoBlock]
  /\ head = <<>>
  /\ cache = [b \in Block |-> NoBlock]
  /\ pin = [b \in Block |-> 0]
  /\ lh = <<>> /\ outstanding = 0 /\ committing = 0
  /\ tail = 0 /\ mode = "read_head"
  /\ pc = [o \in Op |-> "idle"]
  /\ buf = [o \in Op |-> NoBlock]
  /\ wrote = [o \in Op |-> {}]
  /\ panicked = FALSE

At(o, l)   == mode = "up" /\ ~panicked /\ pc[o] = l
Goto(o, l) == pc' = [pc EXCEPT ![o] = l]

-----------------------------------------------------------------------------
(* The buffer cache, external to the log.                                    *)

Locked == {buf[o] : o \in Op}

\* bread of a block that is not cached reads it from its home.
Bread(b) ==
  /\ mode = "up" /\ ~panicked
  /\ cache[b] = NoBlock
  /\ cache' = [cache EXCEPT ![b] = home[b]]
  /\ UNCHANGED <<disk, pin, struct, tail, mode, thread, panicked>>

\* bget recycles a buffer that nobody references.
Recycle(b) ==
  /\ mode = "up" /\ ~panicked
  /\ cache[b] # NoBlock
  /\ pin[b] = 0 /\ b \notin Locked
  /\ cache' = [cache EXCEPT ![b] = NoBlock]
  /\ UNCHANGED <<disk, pin, struct, tail, mode, thread, panicked>>

-----------------------------------------------------------------------------
\* Mutation: the space reserved by the other calls is not counted.
OwnSpaceOnly == Len(lh) + MAXOPBLOCKS > LOGSIZE

\* "this op might exhaust log space"
MightExhaust == Len(lh) + (outstanding + 1) * MAXOPBLOCKS > LOGSIZE

MustWait == committing = 1 \/ MightExhaust

BeginOp(o) ==
  /\ At(o, "idle") \/ At(o, "begin_op")
  /\ \/ MustWait /\ Goto(o, "sleep") /\ UNCHANGED outstanding
     \/ ~MustWait /\ Goto(o, "active") /\ outstanding' = outstanding + 1
  /\ UNCHANGED <<disk, cache, pin, lh, committing, tail, mode, buf, wrote, panicked>>

\* A call reads a block into a locked buffer and changes it.  It may change at
\* most MAXOPBLOCKS blocks.
Modify(o, b, v) ==
  /\ At(o, "active")
  /\ Cardinality(wrote[o] \cup {b}) <= MAXOPBLOCKS
  /\ b \notin Locked
  /\ cache' = [cache EXCEPT ![b] = v]
  /\ buf' = [buf EXCEPT ![o] = b]
  /\ Goto(o, "log_write")
  /\ UNCHANGED <<disk, pin, struct, tail, mode, wrote, panicked>>

Bpin(b) == pin' = [pin EXCEPT ![b] = @ + 1]

\* log_write, then brelse.
LogWrite(o) ==
  /\ At(o, "log_write")
  /\ \/ /\ Len(lh) >= LOGSIZE \/ Len(lh) >= nlog - 1
        /\ panicked' = TRUE
        /\ UNCHANGED <<lh, pin, thread>>
     \/ /\ Len(lh) < LOGSIZE /\ Len(lh) < nlog - 1
        /\ \/ buf[o] \in Logged /\ UNCHANGED <<lh, pin>>        \* absorbed
           \/ buf[o] \notin Logged /\ lh' = Append(lh, buf[o]) /\ Bpin(buf[o])
        /\ wrote' = [wrote EXCEPT ![o] = @ \cup {buf[o]}]
        /\ buf' = [buf EXCEPT ![o] = NoBlock]
        /\ Goto(o, "active")
        /\ UNCHANGED panicked
  /\ UNCHANGED <<disk, cache, outstanding, committing, tail, mode>>

\* Mutation: a call that leaves others outstanding wakes nobody.
AsleepStill(p) == p

\* wakeup(&log).
Wakeup(p) == [o \in Op |-> IF p[o] = "sleep" THEN "begin_op" ELSE p[o]]

LastOne == outstanding = 1

\* end_op up to the call of commit, which does nothing when nothing was logged.
EndOp(o) ==
  /\ At(o, "active")
  /\ outstanding' = outstanding - 1
  /\ \/ /\ LastOne
        /\ committing' = 1
        /\ Goto(o, IF lh = <<>> THEN "done" ELSE "write_log")
     \/ /\ ~LastOne
        /\ pc' = [Wakeup(pc) EXCEPT ![o] = "idle"]
        /\ UNCHANGED committing
  /\ wrote' = [wrote EXCEPT ![o] = {}]
  /\ tail' = 0
  /\ UNCHANGED <<disk, cache, pin, lh, mode, buf, panicked>>

\* One iteration of write_log: cache block to log block.
WriteLog(o) ==
  /\ At(o, "write_log")
  /\ tail < Len(lh)
  /\ logb' = [logb EXCEPT ![tail + 1] = cache[lh[tail + 1]]]
  /\ tail' = tail + 1
  /\ UNCHANGED <<home, head, cache, pin, struct, mode, thread, panicked>>

\* Mutation: the header is written before the last log block.
HeadEarly == tail >= Len(lh) - 1

LogWritten == tail = Len(lh)

\* write_head: the transaction commits.
WriteHead(o) ==
  /\ At(o, "write_log")
  /\ LogWritten
  /\ head' = lh
  /\ tail' = 0
  /\ Goto(o, "install")
  /\ UNCHANGED <<home, logb, cache, pin, struct, mode, buf, wrote, panicked>>

\* One block copied from the log to its home, through the cache.
InstallBlock(b, v) ==
  /\ home' = [home EXCEPT ![b] = v]
  /\ cache' = [cache EXCEPT ![b] = v]
  /\ tail' = tail + 1

\* One iteration of install_trans(0).
Install(o) ==
  /\ At(o, "install")
  /\ tail < Len(lh)
  /\ InstallBlock(lh[tail + 1], logb[tail + 1])
  /\ pin' = [pin EXCEPT ![lh[tail + 1]] = @ - 1]
  /\ UNCHANGED <<logb, head, struct, mode, thread, panicked>>

\* log.lh.n = 0 and the second write_head.
Erase(o) ==
  /\ At(o, "install")
  /\ tail = Len(lh)
  /\ lh' = <<>> /\ head' = <<>>
  /\ tail' = 0
  /\ Goto(o, "done")
  /\ UNCHANGED <<home, logb, cache, pin, outstanding, committing, mode, buf, wrote, panicked>>

\* The end of end_op: let the others in.
CommitDone(o) ==
  /\ At(o, "done")
  /\ committing' = 0
  /\ pc' = [Wakeup(pc) EXCEPT ![o] = "idle"]
  /\ UNCHANGED <<disk, cache, pin, lh, outstanding, tail, mode, buf, wrote, panicked>>

-----------------------------------------------------------------------------
\* Power failure: the disk survives, memory does not.
Crash ==
  /\ cache' = [b \in Block |-> NoBlock]
  /\ pin' = [b \in Block |-> 0]
  /\ lh' = <<>> /\ outstanding' = 0 /\ committing' = 0
  /\ tail' = 0 /\ mode' = "read_head"
  /\ pc' = [o \in Op |-> "idle"]
  /\ buf' = [o \in Op |-> NoBlock]
  /\ wrote' = [o \in Op |-> {}]
  /\ panicked' = FALSE
  /\ UNCHANGED disk

\* initlog calls recover_from_log, which reads the header ...
ReadHead ==
  /\ mode = "read_head"
  /\ lh' = head
  /\ mode' = "recover"
  /\ UNCHANGED <<disk, cache, pin, outstanding, committing, tail, thread, panicked>>

\* ... installs what was committed ...
Reinstall ==
  /\ mode = "recover"
  /\ tail < Len(lh)
  /\ InstallBlock(lh[tail + 1], logb[tail + 1])
  /\ UNCHANGED <<logb, head, pin, struct, mode, thread, panicked>>

\* ... and clears the log.
ClearLog ==
  /\ mode = "recover"
  /\ tail = Len(lh)
  /\ lh' = <<>> /\ head' = <<>>
  /\ tail' = 0 /\ mode' = "up"
  /\ UNCHANGED <<home, logb, cache, pin, outstanding, committing, thread, panicked>>

Commit(o) == WriteLog(o) \/ WriteHead(o) \/ Install(o) \/ Erase(o) \/ CommitDone(o)

Recovery == ReadHead \/ Reinstall \/ ClearLog

Next ==
  \/ \E b \in Block : Bread(b) \/ Recycle(b)
  \/ \E o \in Op : BeginOp(o) \/ LogWrite(o) \/ EndOp(o) \/ Commit(o)
  \/ \E o \in Op, b \in Block, v \in Val : Modify(o, b, v)
  \/ Crash
  \/ Recovery

Spec == Init /\ [][Next]_vars

\* A thread that can run does, and a file system call makes finitely many
\* changes before it ends.
CallFairness ==
  \A o \in Op :
    /\ WF_vars(pc[o] = "begin_op" /\ BeginOp(o))
    /\ WF_vars(LogWrite(o))
    /\ WF_vars(Commit(o))
    /\ SF_vars(EndOp(o))

LiveSpec == Spec /\ CallFairness /\ WF_vars(Recovery)

-----------------------------------------------------------------------------
\* What recovery would make of the disk: a header that names blocks makes their
\* log blocks replace them.
Stable ==
  [b \in Block |-> IF \E i \in 1 .. Len(head) : head[i] = b
                   THEN logb[CHOOSE i \in 1 .. Len(head) : head[i] = b]
                   ELSE home[b]]

\* What bread returns.
Current == [b \in Block |-> IF cache[b] = NoBlock THEN Stable[b] ELSE cache[b]]

\* The calls between begin_op and end_op.
Running == {o \in Op : pc[o] \in {"active", "log_write"}}

Transaction == INSTANCE Durable WITH disk <- Stable, cur <- Current, active <- Running

\* A crash at any point, recovery included, leaves the effects of whole
\* transactions: commit writes the log, then the header, then the homes, then
\* an empty header, and no buffer with a change that is not at home is recycled.
AllOrNothing == Transaction!Spec

\* A pinned buffer is one that is logged and not yet installed, and each is
\* pinned once: pins neither leak (bget would run out of buffers) nor are lost.
PinExact ==
  mode = "up" =>
    LET from == IF \E o \in Op : pc[o] = "install" THEN tail + 1 ELSE 1 IN
    \A b \in Block : pin[b] = Cardinality({i \in from .. Len(lh) : lh[i] = b})

\* begin_op and end_op exclude each other's halves: while a commit is under way
\* no call is between begin_op and end_op, and only one thread commits.
CommitAlone ==
  /\ committing = 1 => \A o \in Op : pc[o] \notin {"active", "log_write"}
  /\ \A o, q \in Op :
       {pc[o], pc[q]} \subseteq {"write_log", "install", "done"} => o = q

\* A thread asleep in begin_op is sure to be woken: a call is outstanding or a
\* commit is under way, and each ends with wakeup(&log).
SleeperHasWaker ==
  \A o \in Op : pc[o] = "sleep" => outstanding > 0 \/ committing = 1

\* Sleeping in begin_op ends: the thread is woken and looks again (or the
\* machine panics or restarts).
SleeperWakes == \A o \in Op : pc[o] = "sleep" ~> pc[o] # "sleep" \/ panicked

\* The blocks that the running calls have logged.
Entries == {c \in Running \X Block : c[2] \in wrote[c[1]]}

\* The header has room for what every running call may still log: its MAXOPBLOCKS
\* blocks less those it has logged.
RoomForAll ==
  Len(lh) + Cardinality(Running) * MAXOPBLOCKS - Cardinality(Entries) <= LOGSIZE

\* What log_write lets the log hold: begin_op counts with LOGSIZE blocks, though one
\* of the nlog on the disk is the header.
LogRoom == IF nlog - 1 < LOGSIZE THEN nlog - 1 ELSE LOGSIZE

\* "too big a transaction" is a panic of calls that have logged all begin_op reserved
\* for them, but for what the header takes from LOGSIZE: one block on the disk that
\* mkfs makes, where nlog is LOGSIZE, and none if nlog were larger.
PanicOnlyWhenSpent ==
  panicked => Cardinality(Running) * MAXOPBLOCKS - Cardinality(Entries) <= LOGSIZE - LogRoom

\* What log.lock protects holds together: pins and the header agree, begin_op admits
\* no more calls than the log has room for, so that only calls that log nearly all
\* they may can make log_write panic, a commit is alone, and nobody sleeps without a
\* wakeup to come, through crashes and recoveries.
LogSafe ==
  TypeOK /\ PinExact /\ RoomForAll /\ PanicOnlyWhenSpent /\ CommitAlone /\ SleeperHasWaker
=============================================================================
