-------------------------------- MODULE Cow --------------------------------
(***************************************************************************)
(* Copy-on-write memory: the page allocator with its reference counts      *)
(* (kalloc.c), user page tables (vm.c), the store-fault path of usertrap,  *)
(* and the memory side of fork, exec, sbrk and wait.                       *)
(*                                                                         *)
(* A page table is given by pa, the frame behind each mapped page, and by  *)
(* the sets of pages whose PTE has the bits W, U and COW.  The other bits  *)
(* never differ in a way an operation looks at.  Every operation is one    *)
(* step: the module describes the builds whose kernel is not preempted     *)
(* (FCFS, PBS, LBS) on one CPU.  RefCount describes the counts when        *)
(* operations overlap.                                                     *)
(***************************************************************************)
EXTENDS Integers, FiniteSets

CONSTANTS
  NPROC,      \* process slots 1..NPROC; slot 1 is the first process
  NPAGES,     \* pages in the largest address space
  NFRAMES,    \* physical pages handed to the allocator by kinit
  TextPages,  \* read-only pages of the program that exec loads
  Val         \* what a page can contain; 0 is a page of zeros

ASSUME NprocAssumption == NPROC \in Nat \ {0}
ASSUME NpagesAssumption == NPAGES \in Nat \ {0} /\ TextPages \in Nat
ASSUME NframesAssumption == NFRAMES \in Nat /\ NFRAMES >= 4
ASSUME ValAssumption == 0 \in Val /\ Val \subseteq Nat

VARIABLES
  sz,           \* p->sz in pages
  pa,           \* pa[p][i]: the frame page i of p maps to, or NoFrame
  W, U, COW,    \* W[p]: the pages of p whose PTE has PTE_W; likewise U and COW
  text, guard,  \* history: the pages exec mapped read-only, and without PTE_U
  tf, tables,   \* p's trapframe (NoFrame for a free slot) and page-table pages
  ref,          \* refCount
  freelist,     \* kmem.freelist
  mem,          \* contents of each frame
  killed,       \* processes that a fault has condemned
  panicked

space == <<sz, pa, W, U, COW, text, guard>>
owned == <<tf, tables>>
kmem  == <<ref, freelist>>
vars  == <<space, owned, kmem, mem, killed, panicked>>

Procs   == 1 .. NPROC
Frames  == 1 .. NFRAMES
Pages   == 0 .. NPAGES - 1
NoFrame == 0
Junk    == -1      \* what kfree and kalloc fill a page with
first   == 1

TypeOK ==
  /\ sz \in [Procs -> 0 .. NPAGES]
  /\ pa \in [Procs -> [Pages -> Frames \cup {NoFrame}]]
  /\ W \in [Procs -> SUBSET Pages]
  /\ U \in [Procs -> SUBSET Pages]
  /\ COW \in [Procs -> SUBSET Pages]
  /\ text \in [Procs -> SUBSET Pages]
  /\ guard \in [Procs -> SUBSET Pages]
  /\ tf \in [Procs -> Frames \cup {NoFrame}]
  /\ tables \in [Procs -> SUBSET Frames]
  /\ ref \in [Frames -> Nat]
  /\ freelist \subseteq Frames
  /\ mem \in [Frames -> Val \cup {Junk}]
  /\ killed \subseteq Procs
  /\ panicked \in {"no", "init exiting", "null", "walk"}

Mapped(p)     == {i \in Pages : pa[p][i] # NoFrame}
UserFrames(p) == {pa[p][i] : i \in Mapped(p)}
KernFrames(p) == ({tf[p]} \cup tables[p]) \ {NoFrame}
Unmapped      == [i \in Pages |-> NoFrame]

-----------------------------------------------------------------------------
(* The allocator.  Frames are interchangeable, so it does not matter which     *)
(* free frame kalloc returns: the ones with the least numbers become user      *)
(* pages, those with the greatest trapframes and page-table pages.             *)

\* The frames that n calls of kalloc return, for user pages or for the kernel.
Kalloc(n)  == {f \in freelist : Cardinality({g \in freelist : g < f}) < n}
Kernel(n)  == {f \in freelist : Cardinality({g \in freelist : g > f}) < n}

CanAlloc(n) == Cardinality(freelist) >= n

\* The frames F dealt out, in order, to the pages S.
Dealt(S, F) == {a \in [S -> F] : \A i, j \in S : i < j => a[i] < a[j]}

\* The frames among F that kfree, called once on each, puts on the free list.
Freed(F) == {f \in F : ref[f] = 1}

\* The counts once kfree is called on each frame of F.
Drop(r, F) == [f \in Frames |-> IF f \in F THEN r[f] - 1 ELSE r[f]]

\* The counts once kalloc or refInc is called on each frame of F.
RefInc(r, F) == [f \in Frames |-> IF f \in F THEN r[f] + 1 ELSE r[f]]

\* kfree, called on each frame of F, when memory holds m.
Kfree(F, m) ==
  /\ ref' = Drop(ref, F)
  /\ freelist' = freelist \cup Freed(F)
  /\ mem' = [f \in Frames |-> IF f \in Freed(F) THEN Junk ELSE m[f]]

Panic(why) == panicked' = why /\ UNCHANGED <<space, owned, kmem, mem, killed>>

-----------------------------------------------------------------------------
\* userinit: a trapframe, two page-table pages and one page of code (uvmfirst).
Init ==
  /\ sz = [p \in Procs |-> IF p = first THEN 1 ELSE 0]
  /\ pa = [p \in Procs |-> [i \in Pages |-> IF p = first /\ i = 0 THEN 1 ELSE NoFrame]]
  /\ W = [p \in Procs |-> IF p = first THEN {0} ELSE {}]
  /\ U = [p \in Procs |-> IF p = first THEN {0} ELSE {}]
  /\ COW = [p \in Procs |-> {}]
  /\ text = [p \in Procs |-> {}]
  /\ guard = [p \in Procs |-> {}]
  /\ tf = [p \in Procs |-> IF p = first THEN NFRAMES ELSE NoFrame]
  /\ tables = [p \in Procs |-> IF p = first THEN NFRAMES - 2 .. NFRAMES - 1 ELSE {}]
  /\ ref = [f \in Frames |-> IF f = 1 \/ f > NFRAMES - 3 THEN 1 ELSE 0]
  /\ freelist = 2 .. NFRAMES - 3
  /\ mem = [f \in Frames |-> IF f = 1 THEN 0 ELSE Junk]
  /\ killed = {}
  /\ panicked = "no"

Used(p) == tf[p] # NoFrame
Live(p) == Used(p) /\ p \notin killed /\ panicked = "no"

\* uvmcopy takes PTE_W from the pages S of the parent.
WriteProtect(p, S) == [W EXCEPT ![p] = @ \ S]

\* fork: allocproc takes a trapframe and a page-table root, uvmcopy a leaf for
\* the child; the pages themselves become shared and copy-on-write.
Fork(p, q) ==
  /\ Live(p) /\ ~Used(q)
  /\ CanAlloc(3)
  /\ \E t \in Kernel(1) :
       /\ tf' = [tf EXCEPT ![q] = t]
       /\ tables' = [tables EXCEPT ![q] = Kernel(3) \ {t}]
  /\ ref' = RefInc(ref, Kernel(3) \cup UserFrames(p))
  /\ freelist' = freelist \ Kernel(3)
  /\ sz' = [sz EXCEPT ![q] = sz[p]]
  /\ pa' = [pa EXCEPT ![q] = pa[p]]
  /\ W' = [WriteProtect(p, Mapped(p)) EXCEPT ![q] = {}]
  /\ U' = [U EXCEPT ![q] = U[p]]
  /\ COW' = [COW EXCEPT ![p] = Mapped(p), ![q] = Mapped(p)]
  /\ text' = [text EXCEPT ![q] = text[p]]
  /\ guard' = [guard EXCEPT ![q] = guard[p]]
  /\ UNCHANGED <<mem, killed, panicked>>

\* fork without memory for the child's leaf: uvmcopy has marked the parent's
\* first page when mappages fails; freeproc returns the other two pages.
ForkFail(p) ==
  /\ Live(p)
  /\ CanAlloc(2) /\ ~CanAlloc(3)
  /\ W' = WriteProtect(p, {0})
  /\ COW' = [COW EXCEPT ![p] = @ \cup {0}]
  /\ UNCHANGED <<sz, pa, U, text, guard, owned, kmem, mem, killed, panicked>>

\* wait reaps an exited process: freeproc, proc_freepagetable, uvmfree.
FreeProc(q) ==
  /\ q # first /\ Used(q) /\ panicked = "no"
  /\ Kfree(UserFrames(q) \cup KernFrames(q), mem)
  /\ tf' = [tf EXCEPT ![q] = NoFrame]
  /\ tables' = [tables EXCEPT ![q] = {}]
  /\ sz' = [sz EXCEPT ![q] = 0]
  /\ pa' = [pa EXCEPT ![q] = Unmapped]
  /\ W' = [W EXCEPT ![q] = {}]
  /\ U' = [U EXCEPT ![q] = {}]
  /\ COW' = [COW EXCEPT ![q] = {}]
  /\ text' = [text EXCEPT ![q] = {}]
  /\ guard' = [guard EXCEPT ![q] = {}]
  /\ killed' = killed \ {q}
  /\ UNCHANGED panicked

\* A user store that the PTE permits.
Store(p, i, v) ==
  /\ Live(p)
  /\ i \in W[p] \cap U[p]
  /\ mem' = [mem EXCEPT ![pa[p][i]] = v]
  /\ UNCHANGED <<space, owned, kmem, killed, panicked>>

\* A user store to a page without W or U that is not copy-on-write: setkilled
\* and exit(-1), which the first process may not call.
StoreFault(p, i) ==
  /\ Live(p)
  /\ i \notin (W[p] \cap U[p]) \cup COW[p]
  /\ killed' = killed \cup ({p} \ {first})
  /\ panicked' = IF p = first THEN "init exiting" ELSE "no"
  /\ UNCHANGED <<space, owned, kmem, mem>>

\* Mutation: the old frame keeps the reference of the page that left it.
KeepOld(p, i) == {}

\* The frame that the private copy of page i replaces.
Replaced(p, i) == {pa[p][i]}

\* Page i of p gets the new frame g holding v, mapped R|W|X|U, and kfree is
\* called on the old frame (usertrap, copyout).
PrivateCopy(p, i, g, v) ==
  /\ pa' = [pa EXCEPT ![p][i] = g]
  /\ W' = [W EXCEPT ![p] = @ \cup {i}]
  /\ U' = [U EXCEPT ![p] = @ \cup {i}]
  /\ COW' = [COW EXCEPT ![p] = @ \ {i}]
  /\ ref' = Drop(RefInc(ref, {g}), Replaced(p, i))
  /\ freelist' = (freelist \ {g}) \cup Freed(Replaced(p, i))
  /\ mem' = [f \in Frames |-> IF f = g THEN v
                              ELSE IF f \in Freed(Replaced(p, i)) THEN Junk ELSE mem[f]]
  /\ UNCHANGED <<sz, text, guard, owned, killed, panicked>>

\* Mutation: the copy keeps what kalloc filled it with.
NotCopied(p, i) == Junk

\* What memmove puts in the private copy of page i.
Copied(p, i) == mem[pa[p][i]]

\* A user store to a copy-on-write page (scause 15).  The instruction is
\* executed again afterwards.
CowFault(p, i) ==
  /\ Live(p)
  /\ i \in COW[p]
  /\ \E g \in Kalloc(1) : PrivateCopy(p, i, g, Copied(p, i))

\* kalloc returns 0 and memmove stores through it: a fault in the kernel.
CowFaultNoMemory(p, i) ==
  /\ Live(p)
  /\ i \in COW[p]
  /\ freelist = {}
  /\ Panic("null")

\* A user store to an address without a page-table page (walk returns 0, which
\* usertrap dereferences) or above MAXVA (walk panics).
StoreFar(p) ==
  /\ Live(p)
  /\ Panic("walk")

\* copyout of v into page i that needs no copy; PTE_W is not looked at.
CopyOut(p, i, v) ==
  /\ Live(p)
  /\ i \in U[p] \ COW[p]
  /\ mem' = [mem EXCEPT ![pa[p][i]] = v]
  /\ UNCHANGED <<space, owned, kmem, killed, panicked>>

\* copyout into a copy-on-write page.
CopyOutCow(p, i, v) ==
  /\ Live(p)
  /\ i \in U[p] \cap COW[p]
  /\ \E g \in Kalloc(1) : PrivateCopy(p, i, g, v)

\* copyout that dereferences 0: no memory for the copy, or a copy-on-write
\* page without PTE_U, for which walkaddr returns 0.
CopyOutNull(p, i) ==
  /\ Live(p)
  /\ i \in COW[p]
  /\ freelist = {} \/ i \notin U[p]
  /\ Panic("null")

\* sbrk(n) with n > 0: uvmalloc maps n pages of zeros, or none.
Grow(p, n) ==
  /\ Live(p)
  /\ sz[p] + n <= NPAGES
  /\ CanAlloc(n)
  /\ LET New == sz[p] .. sz[p] + n - 1 IN
     \E a \in Dealt(New, Kalloc(n)) :
       LET F == {a[i] : i \in New} IN
       /\ pa' = [pa EXCEPT ![p] = [i \in Pages |-> IF i \in New THEN a[i] ELSE @[i]]]
       /\ W' = [W EXCEPT ![p] = @ \cup New]
       /\ U' = [U EXCEPT ![p] = @ \cup New]
       /\ ref' = RefInc(ref, F)
       /\ freelist' = freelist \ F
       /\ mem' = [f \in Frames |-> IF f \in F THEN 0 ELSE mem[f]]
  /\ sz' = [sz EXCEPT ![p] = @ + n]
  /\ UNCHANGED <<COW, text, guard, owned, killed, panicked>>

\* sbrk(-n): uvmdealloc.  A program keeps the page it executes.
Shrink(p, n) ==
  /\ Live(p)
  /\ sz[p] - n >= 1
  /\ LET Gone == sz[p] - n .. sz[p] - 1 IN
       /\ Kfree({pa[p][i] : i \in Gone}, mem)
       /\ pa' = [pa EXCEPT ![p] = [i \in Pages |-> IF i \in Gone THEN NoFrame ELSE @[i]]]
       /\ W' = [W EXCEPT ![p] = @ \ Gone]
       /\ U' = [U EXCEPT ![p] = @ \ Gone]
       /\ COW' = [COW EXCEPT ![p] = @ \ Gone]
       /\ text' = [text EXCEPT ![p] = @ \ Gone]
       /\ guard' = [guard EXCEPT ![p] = @ \ Gone]
  /\ sz' = [sz EXCEPT ![p] = @ - n]
  /\ UNCHANGED <<owned, killed, panicked>>

ExecSize == TextPages + 2

\* exec: two page-table pages and the text, guard and stack pages are built
\* beside the old ones, which are then freed; without memory for all of them
\* nothing changes.  v is the contents of the program's text.
Exec(p, v) ==
  /\ Live(p)
  /\ ExecSize <= NPAGES
  /\ CanAlloc(ExecSize + 2)
  /\ \E a \in Dealt(0 .. ExecSize - 1, Kalloc(ExecSize)) :
       LET F   == {a[i] : i \in 0 .. ExecSize - 1}
           T   == Kernel(2) \ F
           Old == UserFrames(p) \cup tables[p]
       IN /\ pa' = [pa EXCEPT ![p] = [i \in Pages |-> IF i < ExecSize THEN a[i] ELSE NoFrame]]
          /\ tables' = [tables EXCEPT ![p] = T]
          /\ ref' = Drop(RefInc(ref, F \cup T), Old)
          /\ freelist' = (freelist \ (F \cup T)) \cup Freed(Old)
          /\ mem' = [f \in Frames |->
                       IF f \in F
                       THEN IF \E i \in 0 .. TextPages - 1 : a[i] = f THEN v ELSE 0
                       ELSE IF f \in Freed(Old) THEN Junk ELSE mem[f]]
  /\ sz' = [sz EXCEPT ![p] = ExecSize]
  /\ W' = [W EXCEPT ![p] = TextPages .. ExecSize - 1]
  /\ U' = [U EXCEPT ![p] = (0 .. ExecSize - 1) \ {TextPages}]
  /\ COW' = [COW EXCEPT ![p] = {}]
  /\ text' = [text EXCEPT ![p] = 0 .. TextPages - 1]
  /\ guard' = [guard EXCEPT ![p] = {TextPages}]
  /\ UNCHANGED <<tf, killed, panicked>>

Next ==
  \/ \E p, q \in Procs : Fork(p, q)
  \/ \E p \in Procs : ForkFail(p) \/ FreeProc(p) \/ StoreFar(p)
  \/ \E p \in Procs, i \in Pages, v \in Val :
        Store(p, i, v) \/ CopyOut(p, i, v) \/ CopyOutCow(p, i, v)
  \/ \E p \in Procs, i \in Pages :
        StoreFault(p, i) \/ CowFault(p, i) \/ CowFaultNoMemory(p, i) \/ CopyOutNull(p, i)
  \/ \E p \in Procs, n \in 1 .. NPAGES : Grow(p, n) \/ Shrink(p, n)
  \/ \E p \in Procs, v \in Val : Exec(p, v)

Spec == Init /\ [][Next]_vars

-----------------------------------------------------------------------------
\* The processes whose page table maps frame f, and whether the kernel has it.
Mappers(f)  == {p \in Procs : \E i \in Pages : pa[p][i] = f}
InKernel(f) == \E p \in Procs : f = tf[p] \/ f \in tables[p]

\* refCount is exact: a frame is free when its count is 0, a trapframe or
\* page-table page counts one owner and is mapped by nobody, and any other
\* frame counts the page tables that map it.  No page is lost and none is
\* freed while it is in use, on every path of fork, exec, sbrk, wait, the
\* store fault and copyout, failing ones included.
RefExact ==
  /\ \A p, q \in Procs : p # q => KernFrames(p) \cap KernFrames(q) = {}
  /\ \A f \in Frames :
       /\ f \in freelist <=> ref[f] = 0
       /\ InKernel(f) => Mappers(f) = {}
       /\ ref[f] = IF InKernel(f) THEN 1 ELSE Cardinality(Mappers(f))

\* A frame that two page tables map is writable through neither, and a store
\* through either takes the copy-on-write path of usertrap or copyout.
SharedProtected ==
  \A p, q \in Procs : p # q =>
    \A i, j \in Pages :
      pa[p][i] # NoFrame /\ pa[p][i] = pa[q][j] => i \notin W[p] /\ i \in COW[p]

\* Counts are exact and shared frames are protected, on every path of fork, exec,
\* sbrk, exit, the store fault and copyout, failing ones included.
FramesExact == TypeOK /\ RefExact /\ SharedProtected

\* What a process sees of its memory.
View == [p \in Procs |-> [i \in 1 .. sz[p] |-> mem[pa[p][i - 1]]]]

Abstract == INSTANCE AddrSpace WITH mem <- View

\* Sharing cannot be observed: the pages a process sees behave as private
\* memory that fork copies at once and nobody else ever writes.
PrivateMemory == Abstract!Spec

\* What exec maps without PTE_W is never writable by the program ("check that
\* writes to text segment fault"), and the page below the stack is never within
\* its reach ("Make the first inaccessible as a stack guard").
PermissionsKept ==
  \A p \in Procs : text[p] \cap W[p] = {} /\ guard[p] \cap U[p] = {}
=============================================================================
