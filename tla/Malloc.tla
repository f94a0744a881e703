------------------------------- MODULE Malloc -------------------------------
(***************************************************************************)
(* malloc and free of user/umalloc.c on the memory that sbrk gives: a ring *)
(* of free blocks in the order of their addresses, each with a header of   *)
(* one unit.  Addresses and sizes are in units of sizeof(Header); the      *)
(* header base, in the program's data, has address 0, below the heap.  One *)
(* turn of malloc's loop is one step.  What is left of a header inside a   *)
(* block, or in s.ptr of a block that is held, is kept as 0.  The program  *)
(* frees what it got, once, and may grow its memory with sbrk itself.      *)
(***************************************************************************)
EXTENDS Integers, FiniteSets, FiniteSetsExt

CONSTANTS
  Heap,       \* sbrk fails beyond this address
  MinCore,    \* 4096 in morecore
  Requests    \* values of nunits

\* sbrk takes an int: nu * sizeof(Header), with headers of 16 bytes, has to be below
\* 2^31 in morecore.  A larger request would be one for less memory, or for none.
MaxUnits == 2^27 - 1

ASSUME MallocAssumption ==
  {Heap, MinCore} \subseteq 1 .. MaxUnits /\ Requests \subseteq 1 .. MaxUnits

VARIABLES
  sptr, ssize,    \* s.ptr and s.size of a header at each address
  freep,          \* Null before the first malloc
  brk,            \* p->sz, where the next sbrk starts
  live,           \* history: nunits of each block the program holds, else 0
  cored,          \* history: units that morecore got
  mcall           \* malloc's variables, and history: calls of morecore

mallocVars == <<sptr, ssize, freep, brk, live, cored, mcall>>

base == 0
Null == -1
Addr == 1 .. Heap
NoCall == [pc |-> "user", nunits |-> 0, prevp |-> base, p |-> base, cores |-> 0]

MallocInit ==
  /\ sptr = [a \in Addr \cup {base} |-> base] /\ ssize = [a \in Addr \cup {base} |-> 0]
  /\ freep = Null /\ brk = 1
  /\ live = [a \in Addr |-> 0] /\ cored = {}
  /\ mcall = NoCall

-----------------------------------------------------------------------------
\* free's search stops at p, the block below bp.
StopsAt(p, bp) ==
  \/ p < bp /\ bp < sptr[p]
  \/ p >= sptr[p] /\ (bp > p \/ bp < sptr[p])

\* The first such p on the ring from freep.
Below(bp) ==
  LET Nth[k \in 0 .. Heap + 1] == IF k = 0 THEN freep ELSE sptr[Nth[k - 1]] IN
  Nth[Min({k \in 0 .. Heap + 1 : StopsAt(Nth[k], bp)})]

JoinsBelow(p, bp) == p + ssize[p] = bp

NoHeader(f, joins, above) == IF joins THEN [f EXCEPT ![above] = 0] ELSE f

\* free of the block at bp of nu units, joined to its neighbours.
FreeAt(bp, nu) ==
  LET p     == Below(bp)
      above == sptr[p]
      joins == bp + nu = above
      bsize == IF joins THEN nu + ssize[above] ELSE nu
      bptr  == IF joins THEN sptr[above] ELSE above
  IN
  /\ freep' = p
  /\ IF JoinsBelow(p, bp)
     THEN /\ sptr'  = [NoHeader(sptr, joins, above) EXCEPT ![bp] = base, ![p] = bptr]
          /\ ssize' = [NoHeader(ssize, joins, above) EXCEPT ![bp] = 0, ![p] = @ + bsize]
     ELSE /\ sptr'  = [NoHeader(sptr, joins, above) EXCEPT ![bp] = bptr, ![p] = bp]
          /\ ssize' = [NoHeader(ssize, joins, above) EXCEPT ![bp] = bsize]

free(bp) ==
  /\ mcall.pc = "user" /\ live[bp] > 0
  /\ FreeAt(bp, ssize[bp])
  /\ live' = [live EXCEPT ![bp] = 0]
  /\ UNCHANGED <<brk, cored, mcall>>

malloc(nunits) ==
  LET prevp == IF freep = Null THEN base ELSE freep IN
  /\ mcall.pc = "user"
  /\ freep' = prevp
  /\ mcall' = [pc |-> "look", nunits |-> nunits, prevp |-> prevp, p |-> sptr[prevp], cores |-> 0]
  /\ UNCHANGED <<sptr, ssize, brk, live, cored>>

\* Mutation: the split leaves the header of the tail out of the count.
SplitLate(p, n) == ssize[p] - n + 1

SplitAt(p, n) == ssize[p] - n

\* A block that is large enough: the whole of it, or its tail.
Fits ==
  LET p == mcall.p  n == mcall.nunits  tail == p + SplitAt(p, n) IN
  /\ mcall.pc = "look" /\ ssize[p] >= n
  /\ \/ /\ ssize[p] = n
        /\ sptr' = [sptr EXCEPT ![mcall.prevp] = sptr[p], ![p] = base]
        /\ live' = [live EXCEPT ![p] = n]
        /\ UNCHANGED ssize
     \/ /\ ssize[p] # n
        /\ ssize' = [ssize EXCEPT ![p] = SplitAt(p, n), ![tail] = n]
        /\ live' = [live EXCEPT ![tail] = n]
        /\ UNCHANGED sptr
  /\ freep' = mcall.prevp
  /\ mcall' = NoCall
  /\ UNCHANGED <<brk, cored>>

NextBlock ==
  /\ mcall.pc = "look" /\ ssize[mcall.p] < mcall.nunits /\ mcall.p # freep
  /\ mcall' = [mcall EXCEPT !.prevp = mcall.p, !.p = sptr[mcall.p]]
  /\ UNCHANGED <<sptr, ssize, freep, brk, live, cored>>

CoreUnits(n) == Max({n, MinCore})

\* The ring has no such block: morecore, which frees what sbrk gave; the loop goes
\* on behind the new freep.  malloc returns 0 when sbrk fails.
morecore ==
  LET nu == CoreUnits(mcall.nunits) IN
  /\ mcall.pc = "look" /\ ssize[mcall.p] < mcall.nunits /\ mcall.p = freep
  /\ \/ /\ mcall' = NoCall
        /\ UNCHANGED <<sptr, ssize, freep, brk, cored>>
     \/ /\ brk + nu <= Heap + 1
        /\ brk' = brk + nu
        /\ cored' = cored \cup (brk .. brk + nu - 1)
        /\ FreeAt(brk, nu)
        /\ mcall' = [mcall EXCEPT !.prevp = freep', !.p = sptr'[freep'], !.cores = @ + 1]
  /\ UNCHANGED live

\* sbrk of the program's own: the next morecore is not adjacent.
Sbrk ==
  /\ mcall.pc = "user" /\ brk < Heap
  /\ brk' = brk + 1
  /\ UNCHANGED <<sptr, ssize, freep, live, cored, mcall>>

MallocNext ==
  \/ Fits \/ NextBlock \/ morecore \/ Sbrk
  \/ \E n \in Requests : malloc(n)
  \/ \E bp \in Addr : free(bp)

-----------------------------------------------------------------------------
\* The free blocks: those on the ring, base apart.
OnRing ==
  LET Ring[k \in 0 .. Heap + 1] == IF k = 0 THEN base ELSE sptr[Ring[k - 1]] IN
  {Ring[k] : k \in 0 .. Heap + 1} \ {base}

HeldBlocks == {a \in Addr : live[a] > 0}
Units(a) == a .. a + ssize[a] - 1

MallocTypeOK ==
  /\ sptr \in [Addr \cup {base} -> Addr \cup {base}]
  /\ freep \in Addr \cup {base, Null} /\ brk \in 1 .. Heap + 1
  /\ mcall.pc \in {"user", "look"} /\ mcall.p \in Addr \cup {base}

\* Through every order of malloc, free and sbrk, each unit that morecore got is in
\* exactly one block, free or held; a block that is held has the size that was
\* asked for, so two blocks never overlap and no memory is lost.
EveryUnitOnce ==
  LET ring == OnRing  held == HeldBlocks IN
  /\ \A a \in held : ssize[a] = live[a]
  /\ ring \cap held = {}
  /\ \A a, b \in ring \cup held : a # b => Units(a) \cap Units(b) = {}
  /\ UNION {Units(a) : a \in ring \cup held} = cored

\* The ring runs once through the free blocks upwards from base, freep is on it, and
\* no two free blocks touch: what free joins could not be joined further.
RingSorted ==
  freep # Null =>
    LET ring == OnRing IN
    /\ freep \in ring \cup {base}
    /\ \A a \in ring \cup {base} :
         LET higher == {b \in ring : b > a} IN
         sptr[a] = IF higher = {} THEN base ELSE Min(higher)
    /\ \A a \in ring : a + ssize[a] \notin ring

\* One call of morecore is enough for a request, wherever free put the new memory
\* and wherever the search goes on.
OneCoreEnough == mcall.cores <= 1

\* Allocator and program never share a unit and none is lost, the ring stays in the
\* order free relies on, and one morecore is enough for any request.
HeapExact == MallocTypeOK /\ EveryUnitOnce /\ RingSorted /\ OneCoreEnough
=============================================================================
