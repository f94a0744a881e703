------------------------------ MODULE FileData ------------------------------
(***************************************************************************)
(* The contents of files: the block bitmap, direct and indirect blocks,    *)
(* readi, writei and itrunc (kernel/fs.c), and fileread and filewrite,     *)
(* which move an offset shared by the holders of the file (file.c).  One   *)
(* turn of a loop of readi or writei is one step; the inode is locked      *)
(* meanwhile.  A file is opened once per entry of Fd.  What a free block   *)
(* holds is Garbage, a byte a process writes is its name.  data is what    *)
(* bread returns; it differs from logged, what the log or the disk has,    *)
(* where bytes were copied into a buffer that no log_write followed.       *)
(***************************************************************************)
EXTENDS Integers, Sequences, FiniteSets, FiniteSetsExt

CONSTANTS
  DProc, NoProc, Zero, Garbage,
  Ino, Fd, InoOf,          \* inodes, open files and their inodes
  NBlocks,                 \* data blocks 1 .. NBlocks of the disk
  NDIRECT, NINDIRECT, BSIZE,
  Counts,                  \* values of n in read and write
  MaxChunk                 \* max: bytes filewrite moves in one transaction

ASSUME FileDataAssumption ==
  /\ {NBlocks, NDIRECT, NINDIRECT, BSIZE, MaxChunk} \subseteq Nat \ {0}
  /\ Counts \subseteq Nat \ {0} /\ InoOf \in [Fd -> Ino]

VARIABLES
  bitmap,          \* blocks in use
  addrs, fsize,    \* ip->addrs, ip->size
  ind, data,       \* what a block holds, as an indirect block and as data
  logged,          \* data, without what was never passed to log_write
  dlock,           \* ip->lock
  off,             \* f->off
  g,               \* the read or write a process is in
  content,         \* history: for each byte of a file, what it may be
  dpanic

blocks   == <<bitmap, addrs, fsize, ind, data, logged>>
dataVars == <<blocks, dlock, off, g, content, dpanic>>

Block  == 1 .. NBlocks
MAXFILE == NDIRECT + NINDIRECT
NoInd  == [j \in 0 .. NINDIRECT - 1 |-> 0]
Zeroes == [j \in 0 .. BSIZE - 1 |-> Zero]
Junks  == [j \in 0 .. BSIZE - 1 |-> Garbage]
Idle   == [pc |-> "user", f |-> NoProc, n |-> 0, i |-> 0, n1 |-> 0, tot |-> 0, got |-> <<>>]

DataInit ==
  /\ bitmap = {}
  /\ addrs = [i \in Ino |-> [j \in 0 .. NDIRECT |-> 0]] /\ fsize = [i \in Ino |-> 0]
  /\ ind = [b \in Block |-> NoInd] /\ data = [b \in Block |-> Junks] /\ logged = data
  /\ dlock = [i \in Ino |-> NoProc] /\ off = [f \in Fd |-> 0]
  /\ g = [p \in DProc |-> Idle]
  /\ content = [i \in Ino |-> <<>>]
  /\ dpanic = FALSE

-----------------------------------------------------------------------------
(* Blocks.  A balloc has a block, 0 if there is none, and the new bitmap.    *)

balloc(used) ==
  IF used = Block THEN [b |-> 0, used |-> used]
  ELSE LET b == Min(Block \ used) IN [b |-> b, used |-> used \cup {b}]

bfree(used, freed) == used \ freed

\* The fields of bmap's result: the block, the bitmap, ip->addrs and the blocks.
Mapping(b, u, a, x, d) == [b |-> b, used |-> u, addrs |-> a, ind |-> x, data |-> d]

\* bzero, as part of balloc.
Zeroed(d, b) == IF b = 0 THEN d ELSE [d EXCEPT ![b] = Zeroes]
Cleared(x, b) == IF b = 0 THEN x ELSE [x EXCEPT ![b] = NoInd]

BmapDirect(i, n) ==
  LET a == addrs[i]  new == balloc(bitmap) IN
  IF a[n] # 0 THEN Mapping(a[n], bitmap, a, ind, data)
  ELSE Mapping(new.b, new.used, [a EXCEPT ![n] = new.b], Cleared(ind, new.b), Zeroed(data, new.b))

\* Mutation: the indirect block is not remembered when its first entry has no block.
ForgetIndirect(i, n) ==
  LET a == addrs[i]
      t == IF a[NDIRECT] # 0 THEN [b |-> a[NDIRECT], used |-> bitmap] ELSE balloc(bitmap)
      x == IF a[NDIRECT] # 0 THEN ind ELSE Cleared(ind, t.b)
      new == balloc(t.used)
  IN
  IF t.b = 0 THEN Mapping(0, bitmap, a, ind, data)
  ELSE IF x[t.b][n] # 0 THEN Mapping(x[t.b][n], bitmap, a, ind, data)
  ELSE Mapping(new.b, new.used, IF new.b = 0 THEN a ELSE [a EXCEPT ![NDIRECT] = t.b],
              Cleared([x EXCEPT ![t.b][n] = new.b], new.b), Zeroed(data, new.b))

BmapIndirect(i, n) ==
  LET a == addrs[i]
      t == IF a[NDIRECT] # 0 THEN [b |-> a[NDIRECT], used |-> bitmap] ELSE balloc(bitmap)
      x == IF a[NDIRECT] # 0 THEN ind ELSE Cleared(ind, t.b)
      new == balloc(t.used)
  IN
  IF t.b = 0 THEN Mapping(0, bitmap, a, ind, data)
  ELSE IF x[t.b][n] # 0 THEN Mapping(x[t.b][n], bitmap, a, ind, data)
  ELSE Mapping(new.b, new.used, [a EXCEPT ![NDIRECT] = t.b],
              Cleared([x EXCEPT ![t.b][n] = new.b], new.b), Zeroed(data, new.b))

bmap(i, bn) == IF bn < NDIRECT THEN BmapDirect(i, bn) ELSE BmapIndirect(i, bn - NDIRECT)

\* The effects of a bmap of inode i.
Bmapped(i, bn) ==
  LET m == bmap(i, bn) IN
  /\ bitmap' = m.used /\ ind' = m.ind /\ addrs' = [addrs EXCEPT ![i] = m.addrs]

\* The blocks of an inode, those of its indirect block included.
OwnBlocks(i) ==
  LET a == addrs[i] IN
  ({a[j] : j \in 0 .. NDIRECT} \cup
   (IF a[NDIRECT] = 0 THEN {} ELSE {ind[a[NDIRECT]][j] : j \in 0 .. NINDIRECT - 1})) \ {0}

Truncated(i) == OwnBlocks(i)

AfterTrunc(i) == [j \in 0 .. NDIRECT |-> 0]

-----------------------------------------------------------------------------
(* open: the file starts at 0, and O_TRUNC empties it.                       *)

Open(p, f, trunc) ==
  LET i == InoOf[f] IN
  /\ g[p].pc = "user" /\ \A q \in DProc : g[q].f # f
  /\ dlock[i] = NoProc
  /\ off' = [off EXCEPT ![f] = 0]
  /\ \/ ~trunc /\ UNCHANGED <<blocks, content, dpanic>>
     \/ /\ trunc
        /\ dpanic' = (dpanic \/ ~(Truncated(i) \subseteq bitmap))
        /\ bitmap' = bfree(bitmap, Truncated(i))
        /\ addrs' = [addrs EXCEPT ![i] = AfterTrunc(i)]
        /\ fsize' = [fsize EXCEPT ![i] = 0]
        /\ content' = [content EXCEPT ![i] = <<>>]
        /\ data' = [b \in Block |-> IF b \in Truncated(i) THEN Junks ELSE data[b]]
        /\ logged' = [b \in Block |-> IF b \in Truncated(i) THEN Junks ELSE logged[b]]
        /\ ind' = [b \in Block |-> IF b \in Truncated(i) THEN NoInd ELSE ind[b]]
  /\ UNCHANGED <<dlock, g>>

-----------------------------------------------------------------------------
(* filewrite.                                                                *)

WriteCall(p, f, n) ==
  /\ g[p].pc = "user"
  /\ g' = [g EXCEPT ![p] = [Idle EXCEPT !.pc = "w_lock", !.f = f, !.n = n]]
  /\ UNCHANGED <<blocks, dlock, off, content, dpanic>>

\* ilock, and writei's checks; the transaction moves at most MaxChunk bytes.
WriteLock(p) ==
  LET f == g[p].f  i == InoOf[f]
      n1 == Min({g[p].n - g[p].i, MaxChunk})
      ok == off[f] <= fsize[i] /\ off[f] + n1 <= MAXFILE * BSIZE
  IN
  /\ g[p].pc = "w_lock" /\ dlock[i] = NoProc
  /\ g' = [g EXCEPT ![p] = IF ok THEN [@ EXCEPT !.pc = "write", !.n1 = n1, !.tot = 0] ELSE Idle]
  /\ dlock' = IF ok THEN [dlock EXCEPT ![i] = p] ELSE dlock
  /\ UNCHANGED <<blocks, off, content, dpanic>>

\* How much of the rest is in the block of offset at.
Portion(r, at) == Min({r.n1 - r.tot, BSIZE - (at % BSIZE)})

\* p's bytes in the first k places of block b from place at on.
Copied(d, b, at, k, p) ==
  [d EXCEPT ![b] = [j \in DOMAIN @ |-> IF j \in at .. at + k - 1 THEN p ELSE @[j]]]

\* One block, unless the disk is full; log_write takes the whole buffer.
WriteBlock(p) ==
  LET r == g[p]  i == InoOf[r.f]  at == off[r.f] + r.tot  m == bmap(i, at \div BSIZE) IN
  /\ r.pc = "write" /\ r.tot < r.n1
  /\ dpanic' = (dpanic \/ at \div BSIZE >= MAXFILE)
  /\ Bmapped(i, at \div BSIZE)
  /\ IF m.b = 0
     THEN data' = m.data /\ g' = [g EXCEPT ![p].pc = "w_end"] /\ UNCHANGED logged
     ELSE /\ data' = Copied(m.data, m.b, at % BSIZE, Portion(r, at), p)
          /\ logged' = [logged EXCEPT ![m.b] = data'[m.b]]
          /\ g' = [g EXCEPT ![p].tot = r.tot + Portion(r, at)]
  /\ UNCHANGED <<fsize, dlock, off, content>>

\* either_copyin fails after bmap, at a page it cannot read; the k bytes before that
\* page are in the buffer, uncounted and not passed to log_write.  They reach the log
\* all the same if a transaction under way has the block: a new block is in this one.
WriteFault(p, k) ==
  LET r == g[p]  i == InoOf[r.f]  at == off[r.f] + r.tot  m == bmap(i, at \div BSIZE) IN
  /\ r.pc = "write" /\ r.tot < r.n1 /\ k < Portion(r, at) /\ m.b # 0
  /\ Bmapped(i, at \div BSIZE)
  /\ data' = Copied(m.data, m.b, at % BSIZE, k, p)
  /\ \/ m.b \in bitmap /\ UNCHANGED logged
     \/ logged' = [logged EXCEPT ![m.b] = data'[m.b]]
  /\ content' = [content EXCEPT ![i] =
       [j \in DOMAIN @ |-> IF j \in at + 1 .. at + k THEN @[j] \cup {p} ELSE @[j]]]
  /\ g' = [g EXCEPT ![p].pc = "w_end"]
  /\ UNCHANGED <<fsize, dlock, off, dpanic>>

\* bget gives the buffer of block b to another block: what was not logged is lost.
Recycle(b) ==
  /\ data[b] # logged[b]
  /\ data' = [data EXCEPT ![b] = logged[b]]
  /\ UNCHANGED <<bitmap, addrs, fsize, ind, logged, dlock, off, g, content, dpanic>>

Later(r) == IF r.tot = r.n1 /\ r.i + r.tot < r.n
               THEN [r EXCEPT !.pc = "w_lock", !.i = r.i + r.tot, !.n1 = 0, !.tot = 0] ELSE Idle

Grown(i, end) == Max({fsize[i], end})

\* The size grows, the offset moves, the inode is unlocked; the next transaction
\* follows if this one was complete.
WriteEnd(p) ==
  LET r == g[p]  f == r.f  i == InoOf[f]  end == off[f] + r.tot IN
  /\ r.pc = "w_end" \/ (r.pc = "write" /\ r.tot = r.n1)
  /\ fsize' = [fsize EXCEPT ![i] = Grown(i, end)]
  /\ off' = [off EXCEPT ![f] = end]
  /\ content' = [content EXCEPT ![i] =
       [j \in 1 .. Max({Len(@), end}) |-> IF j > off[f] /\ j <= end THEN {p} ELSE @[j]]]
  /\ dlock' = [dlock EXCEPT ![i] = NoProc]
  /\ g' = [g EXCEPT ![p] = Later(r)]
  /\ UNCHANGED <<bitmap, addrs, ind, data, logged, dpanic>>

-----------------------------------------------------------------------------
(* fileread.                                                                 *)

\* ilock, and readi's checks.
ReadCall(p, f, n) ==
  LET i == InoOf[f]  ok == off[f] <= fsize[i]  n1 == Min({n, fsize[i] - off[f]}) IN
  /\ g[p].pc = "user" /\ dlock[i] = NoProc /\ ok
  /\ g' = [g EXCEPT ![p] = [Idle EXCEPT !.pc = "read", !.f = f, !.n = n, !.n1 = n1]]
  /\ dlock' = [dlock EXCEPT ![i] = p]
  /\ UNCHANGED <<blocks, off, content, dpanic>>

\* One block.  One that is missing is allocated; if that fails the read ends.
ReadBlock(p) ==
  LET r == g[p]  i == InoOf[r.f]  at == off[r.f] + r.tot  m == bmap(i, at \div BSIZE) IN
  /\ r.pc = "read" /\ r.tot < r.n1
  /\ dpanic' = (dpanic \/ at \div BSIZE >= MAXFILE)
  /\ Bmapped(i, at \div BSIZE) /\ data' = m.data
  /\ g' = [g EXCEPT ![p] =
       IF m.b = 0 THEN [r EXCEPT !.n1 = r.tot]
       ELSE [r EXCEPT !.tot = r.tot + Portion(r, at),
                      !.got = r.got \o [j \in 1 .. Portion(r, at) |-> m.data[m.b][(at % BSIZE) + j - 1]]]]
  /\ UNCHANGED <<fsize, logged, dlock, off, content>>

\* Mutation: the offset moves by what was asked for.
MoveByN(r) == off[r.f] + r.n

MoveByRead(r) == off[r.f] + r.tot

ReadEnd(p) ==
  LET r == g[p] IN
  /\ r.pc = "read" /\ r.tot = r.n1
  /\ off' = [off EXCEPT ![r.f] = MoveByRead(r)]
  /\ dlock' = [dlock EXCEPT ![InoOf[r.f]] = NoProc]
  /\ g' = [g EXCEPT ![p] = Idle]
  /\ UNCHANGED <<blocks, content, dpanic>>

\* either_copyout fails after bmap: readi returns -1 and the offset stays, though
\* the blocks before this one have been copied out.
ReadFault(p) ==
  LET r == g[p]  i == InoOf[r.f]  at == off[r.f] + r.tot  m == bmap(i, at \div BSIZE) IN
  /\ r.pc = "read" /\ r.tot < r.n1 /\ m.b # 0
  /\ Bmapped(i, at \div BSIZE) /\ data' = m.data
  /\ dlock' = [dlock EXCEPT ![i] = NoProc]
  /\ g' = [g EXCEPT ![p] = Idle]
  /\ UNCHANGED <<fsize, logged, off, content, dpanic>>

DataNext ==
  \/ \E b \in Block : Recycle(b)
  \/ \E p \in DProc :
       \/ \E f \in Fd, n \in Counts : WriteCall(p, f, n) \/ ReadCall(p, f, n)
       \/ \E f \in Fd, t \in BOOLEAN : Open(p, f, t)
       \/ WriteLock(p) \/ WriteBlock(p) \/ WriteEnd(p) \/ (\E k \in 0 .. BSIZE - 1 : WriteFault(p, k))
       \/ ReadBlock(p) \/ ReadFault(p) \/ ReadEnd(p)

-----------------------------------------------------------------------------
DataTypeOK ==
  /\ bitmap \subseteq Block
  /\ \A i \in Ino : fsize[i] \in 0 .. MAXFILE * BSIZE /\ dlock[i] \in DProc \cup {NoProc}
  /\ \A f \in Fd : off[f] \in 0 .. MAXFILE * BSIZE
  /\ \A p \in DProc : g[p].pc \in {"user", "w_lock", "write", "w_end", "read"}

\* A block is in use exactly if one inode has it, as data or as its indirect
\* block, and then no other has: none leaks, not even when the disk is full in
\* the middle of bmap, and no two files share one.
BitmapExact ==
  /\ bitmap = UNION {OwnBlocks(i) : i \in Ino}
  /\ \A i, j \in Ino : i # j => OwnBlocks(i) \cap OwnBlocks(j) = {}
  /\ \A i \in Ino, m, n \in 0 .. NDIRECT : m # n /\ addrs[i][m] # 0 => addrs[i][m] # addrs[i][n]

\* The block of a file that holds byte at.
BlockAt(i, at) ==
  LET bn == at \div BSIZE IN
  IF bn < NDIRECT THEN addrs[i][bn] ELSE ind[addrs[i][NDIRECT]][bn - NDIRECT]

\* A file that nobody has locked holds what the writes to it, in the order of
\* their transactions, have made of it: no byte is lost at the border of the
\* direct blocks, after a short write, or to another file.  Only the bytes in front
\* of the page at which a write failed may be the old or the new ones: copyin has
\* put them in the buffer, and writei has neither counted nor logged them.
FilesHoldTheirBytes ==
  \A i \in Ino :
    dlock[i] = NoProc =>
      /\ Len(content[i]) = fsize[i]
      /\ \A j \in 1 .. fsize[i] :
           BlockAt(i, j - 1) # 0 /\ data[BlockAt(i, j - 1)][(j - 1) % BSIZE] \in content[i][j]

\* read returns the bytes at the offset, however far it got; neither bmap's panic
\* nor "freeing free block" occurs.
ReadsTheBytes ==
  /\ \A p \in DProc : g[p].pc = "read" =>
       /\ Len(g[p].got) = g[p].tot
       /\ \A j \in 1 .. g[p].tot : g[p].got[j] \in content[InoOf[g[p].f]][off[g[p].f] + j]
  /\ ~dpanic

\* An offset moves by its opening, or forward, within the file, by the process that
\* reads or writes this very file and has its inode locked: processes that share a
\* file never write the same place twice, and read no byte twice unless a read failed.
OffsetsMoveOn ==
  [][\A f \in Fd : off'[f] # off[f] =>
       \/ \E p \in DProc, t \in BOOLEAN : Open(p, f, t)
       \/ /\ off'[f] > off[f] /\ off'[f] <= fsize'[InoOf[f]]
          /\ \E p \in DProc : dlock[InoOf[f]] = p /\ g[p].f = f /\ g'[p] # g[p]]_dataVars

\* Bitmap, block pointers and bytes agree: every block has one owner, and every
\* file reads back as it was written, on a disk that fills and with buffers that
\* fail in the middle.
FilesExact == DataTypeOK /\ BitmapExact /\ FilesHoldTheirBytes /\ ReadsTheBytes
=============================================================================
