--------------------------------- MODULE Bio ---------------------------------
(***************************************************************************)
(* The buffer cache, kernel/bio.c, with its sleep-locks (sleeplock.c), on  *)
(* top of what the disk driver promises.  A critical section of            *)
(* bcache.lock or of a sleep-lock's spin-lock is one step.  Its users      *)
(* follow the rule of log.c: a buffer that was changed is written or       *)
(* pinned before it is released, and unpinned after it was written.        *)
(***************************************************************************)
EXTENDS Integers, Sequences, FiniteSets, SequencesExt, DiskIO

VARIABLES
  block, valid, refcnt,   \* struct buf
  lru,                    \* the list from head.next, most recently used first
  slock,                  \* the holder of b->lock
  bpc, bbuf, bblk,        \* a user: where it is, its buffer and block
  dirty, pinned           \* buffers changed and not written; pinned buffers

io      == <<disk, bdata, rw>>
bcache  == <<block, valid, refcnt, lru>>
buser   == <<bpc, bbuf, bblk>>
bioVars == <<io, bcache, slock, buser, dirty, pinned>>
ghost   == <<dirty, pinned>>

BioTypeOK ==
  /\ disk \in [Blk -> Val] /\ bdata \in [Buf -> Val]
  /\ block \in [Buf -> Blk \cup {None}] /\ valid \in [Buf -> BOOLEAN]
  /\ refcnt \in [Buf -> Nat]
  /\ lru \in [1 .. Cardinality(Buf) -> Buf] /\ \A b \in Buf : \E i \in DOMAIN lru : lru[i] = b
  /\ slock \in [Buf -> User \cup {None}]
  /\ bpc \in [User -> {"out", "lock", "lock_sleep", "check", "read", "hold", "write", "relse",
                    "panic"}]
  /\ dirty \subseteq Buf /\ pinned \subseteq Buf

\* binit.
BioInit ==
  /\ \E v \in Val : disk = [k \in Blk |-> v] /\ bdata = [b \in Buf |-> v]
  /\ rw = [p \in User |-> NoRw]
  /\ block = [b \in Buf |-> None] /\ valid = [b \in Buf |-> FALSE]
  /\ refcnt = [b \in Buf |-> 0]
  /\ lru = SetToSeq(Buf)
  /\ slock = [b \in Buf |-> None]
  /\ bpc = [p \in User |-> "out"]
  /\ bbuf = [p \in User |-> None] /\ bblk = [p \in User |-> None]
  /\ dirty = {} /\ pinned = {}

BGoto(p, l) == bpc' = [bpc EXCEPT ![p] = l]

RefTaken(b) == [refcnt EXCEPT ![b] = @ + 1]

\* bget of a cached block.
BgetHit(p, k) ==
  /\ bpc[p] = "out"
  /\ \E b \in Buf :
       /\ block[b] = k
       /\ refcnt' = RefTaken(b)
       /\ bbuf' = [bbuf EXCEPT ![p] = b]
  /\ bblk' = [bblk EXCEPT ![p] = k]
  /\ BGoto(p, "lock")
  /\ UNCHANGED <<io, block, valid, lru, slock, ghost>>

\* Mutation: a buffer may be recycled while a process waits for its lock.
Unheld(b) == slock[b] = None

Unused(b) == refcnt[b] = 0

\* Places in the list of the buffers that may be recycled.
Idle == {i \in DOMAIN lru : Unused(lru[i])}

\* bget recycles the least recently used buffer.
BgetMiss(p, k) ==
  LET b == lru[Max(Idle)] IN
  /\ bpc[p] = "out"
  /\ \A c \in Buf : block[c] # k
  /\ Idle # {}
  /\ block' = [block EXCEPT ![b] = k]
  /\ valid' = [valid EXCEPT ![b] = FALSE]
  /\ refcnt' = [refcnt EXCEPT ![b] = 1]
  /\ bbuf' = [bbuf EXCEPT ![p] = b] /\ bblk' = [bblk EXCEPT ![p] = k]
  /\ BGoto(p, "lock")
  /\ UNCHANGED <<io, lru, slock, ghost>>

\* bget finds every buffer in use: panic("bget: no buffers").
BgetNone(p, k) ==
  /\ bpc[p] = "out"
  /\ \A c \in Buf : block[c] # k
  /\ Idle = {}
  /\ BGoto(p, "panic")
  /\ UNCHANGED <<io, bcache, slock, bbuf, bblk, ghost>>

\* acquiresleep: sleep while locked.
Acquiresleep(p) ==
  /\ bpc[p] = "lock"
  /\ \/ slock[bbuf[p]] # None /\ BGoto(p, "lock_sleep") /\ UNCHANGED slock
     \/ slock[bbuf[p]] = None /\ BGoto(p, "check") /\ slock' = [slock EXCEPT ![bbuf[p]] = p]
  /\ UNCHANGED <<io, bcache, bbuf, bblk, ghost>>

\* Mutation: bread does not look at b->valid.
NeverRead(b) == FALSE

NeedsRead(b) == ~valid[b]

\* bread: read the block if the buffer does not hold it.
BreadCheck(p) ==
  /\ bpc[p] = "check"
  /\ \/ ~NeedsRead(bbuf[p]) /\ BGoto(p, "hold") /\ UNCHANGED io
     \/ /\ NeedsRead(bbuf[p]) /\ BGoto(p, "read")
        /\ RwCall(p, bbuf[p], block[bbuf[p]], FALSE, bdata[bbuf[p]])
  /\ UNCHANGED <<bcache, slock, bbuf, bblk, ghost>>

\* virtio_disk_rw has returned to bread or to bwrite.
IoDone(p) ==
  /\ RwReturn(p)
  /\ valid' = [valid EXCEPT ![bbuf[p]] = TRUE]
  /\ dirty' = IF bpc[p] = "write" THEN dirty \ {bbuf[p]} ELSE dirty
  /\ BGoto(p, "hold")
  /\ UNCHANGED <<block, refcnt, lru, slock, bbuf, bblk, pinned>>

\* The user changes the buffer it holds.
Modify(p, v) ==
  /\ bpc[p] = "hold" /\ bdata[bbuf[p]] # v
  /\ bdata' = [bdata EXCEPT ![bbuf[p]] = v]
  /\ dirty' = dirty \cup {bbuf[p]}
  /\ UNCHANGED <<disk, rw, bcache, slock, buser, pinned>>

Bwrite(p) ==
  /\ bpc[p] = "hold" /\ bbuf[p] \in dirty
  /\ RwCall(p, bbuf[p], block[bbuf[p]], TRUE, bdata[bbuf[p]])
  /\ BGoto(p, "write")
  /\ UNCHANGED <<bcache, slock, bbuf, bblk, ghost>>

Bpin(p) ==
  /\ bpc[p] = "hold" /\ bbuf[p] \notin pinned /\ bbuf[p] \in dirty
  /\ refcnt' = RefTaken(bbuf[p])
  /\ pinned' = pinned \cup {bbuf[p]}
  /\ UNCHANGED <<io, block, valid, lru, slock, buser, dirty>>

Bunpin(p) ==
  /\ bpc[p] = "hold" /\ bbuf[p] \in pinned /\ bbuf[p] \notin dirty
  /\ refcnt' = [refcnt EXCEPT ![bbuf[p]] = @ - 1]
  /\ pinned' = pinned \ {bbuf[p]}
  /\ UNCHANGED <<io, block, valid, lru, slock, buser, dirty>>

WakeLock(b) == [p \in User |-> IF bpc[p] = "lock_sleep" /\ bbuf[p] = b THEN "lock" ELSE bpc[p]]

\* brelse: first the sleep-lock ...
Releasesleep(p) ==
  /\ bpc[p] = "hold" /\ (bbuf[p] \in dirty => bbuf[p] \in pinned)
  /\ slock' = [slock EXCEPT ![bbuf[p]] = None]
  /\ bpc' = [WakeLock(bbuf[p]) EXCEPT ![p] = "relse"]
  /\ UNCHANGED <<io, bcache, bbuf, bblk, ghost>>

\* ... then the reference.
Brelse(p) ==
  LET b == bbuf[p] IN
  /\ bpc[p] = "relse"
  /\ refcnt' = [refcnt EXCEPT ![b] = @ - 1]
  /\ lru' = IF refcnt[b] = 1 THEN <<b>> \o SelectSeq(lru, LAMBDA c : c # b) ELSE lru
  /\ bbuf' = [bbuf EXCEPT ![p] = None] /\ bblk' = [bblk EXCEPT ![p] = None]
  /\ BGoto(p, "out")
  /\ UNCHANGED <<io, block, valid, slock, ghost>>

DiskMoves(p) == Transfer(p) /\ UNCHANGED <<bcache, slock, buser, ghost>>

Panicked == \E p \in User : bpc[p] = "panic"

BioNext ==
  /\ ~Panicked
  /\ \E p \in User :
       \/ \E k \in Blk : BgetHit(p, k) \/ BgetMiss(p, k) \/ BgetNone(p, k)
       \/ Acquiresleep(p) \/ BreadCheck(p) \/ DiskMoves(p) \/ IoDone(p)
       \/ \E v \in Val : Modify(p, v)
       \/ Bwrite(p) \/ Bpin(p) \/ Bunpin(p) \/ Releasesleep(p) \/ Brelse(p)

-----------------------------------------------------------------------------
Using(p) == bpc[p] \in {"hold", "write"}

\* What block k holds: what its user sees, else the cached copy, else the disk.
View(k) ==
  LET user == {b \in Buf : \E p \in User : Using(p) /\ bblk[p] = k /\ bbuf[p] = b}
      copy == {b \in Buf : block[b] = k /\ valid[b]}
  IN  IF user # {} THEN bdata[CHOOSE b \in user : TRUE]
      ELSE IF copy # {} THEN bdata[CHOOSE b \in copy : TRUE] ELSE disk[k]

Cached == INSTANCE Blocks WITH
  Process <- User, Block <- Blk, Content <- Val, Nobody <- None,
  content <- [k \in Blk |-> View(k)],
  holder <- [k \in Blk |-> IF \E p \in User : Using(p) /\ bblk[p] = k
                           THEN CHOOSE p \in User : Using(p) /\ bblk[p] = k ELSE None]

\* Through recycling, waiting, completions in any order and races of bget,
\* brelse and bpin, the cache looks like an array of blocks that one process at
\* a time reads and changes.
CacheIsBlocks == Cached!Spec

\* "at most one copy of a disk block cached in memory" (bio.c): no block has two
\* buffers, and the buffer of a process's block is not recycled under it.
OneCopy ==
  /\ \A b, c \in Buf : block[b] = block[c] /\ b # c => block[b] = None
  /\ \A p \in User : bbuf[p] # None => block[bbuf[p]] = bblk[p]

\* refcnt is the number of processes between bget and brelse, and the pin.
RefcntExact ==
  \A b \in Buf :
    refcnt[b] = Cardinality({p \in User : bbuf[p] = b}) + Cardinality(pinned \cap {b})

\* Nobody sleeps for the lock of a buffer that is not locked: releasesleep,
\* which frees the lock before brelse lets the buffer go, loses no wakeup.
LockSleepersHaveHolder == \A p \in User : bpc[p] = "lock_sleep" => slock[bbuf[p]] # None

\* The cache is consistent under races of bget, brelse and bpin: one buffer per
\* block, exact counts, and no sleeper left behind.
BuffersExact == BioTypeOK /\ OneCopy /\ RefcntExact /\ LockSleepersHaveHolder
=============================================================================
