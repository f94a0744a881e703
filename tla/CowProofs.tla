------------------------------ MODULE CowProofs ------------------------------
(***************************************************************************)
(* Proofs about Cow, for any number of processes, pages and frames:        *)
(* FramesExact, and that the sharing of pages cannot be observed.          *)
(***************************************************************************)
EXTENDS Cow, Sequences, FiniteSetTheorems, TLAPS

KernOf(p, f) == f = tf[p] \/ f \in tables[p]

\* The pages of an address space are the ones below p->sz, and only these are
\* copy-on-write; a free slot has none and no kernel pages.
Layout ==
  \A p \in Procs :
    /\ \A i \in Pages : pa[p][i] # NoFrame <=> i < sz[p]
    /\ \A i \in COW[p] : i < sz[p]
    /\ IF Used(p) THEN sz[p] >= 1 ELSE sz[p] = 0 /\ tables[p] = {}

\* No page table maps a frame twice.
Injective ==
  \A p \in Procs : \A i, j \in Pages : pa[p][i] # NoFrame /\ pa[p][i] = pa[p][j] => i = j

\* The trapframe is not a page-table page, and kernel pages have one owner.
OneOwner ==
  /\ \A p \in Procs : tf[p] \notin tables[p]
  /\ \A p, q \in Procs, f \in Frames : KernOf(p, f) /\ KernOf(q, f) => p = q

\* What refCount says of a frame.
FrameOk(f) ==
  /\ f \in freelist <=> ref[f] = 0
  /\ InKernel(f) => Mappers(f) = {}
  /\ ref[f] = IF InKernel(f) THEN 1 ELSE Cardinality(Mappers(f))

Counted == \A f \in Frames : FrameOk(f)

CInv == TypeOK /\ Layout /\ Injective /\ OneOwner /\ Counted /\ SharedProtected

-----------------------------------------------------------------------------
\* The types, in the form the steps use.
LEMMA CowTypes ==
  ASSUME CInv
  PROVE  /\ sz \in [Procs -> 0 .. NPAGES]
         /\ pa \in [Procs -> [Pages -> Frames \cup {NoFrame}]]
         /\ W \in [Procs -> SUBSET Pages] /\ U \in [Procs -> SUBSET Pages]
         /\ COW \in [Procs -> SUBSET Pages] /\ text \in [Procs -> SUBSET Pages]
         /\ guard \in [Procs -> SUBSET Pages]
         /\ tf \in [Procs -> Frames \cup {NoFrame}] /\ tables \in [Procs -> SUBSET Frames]
         /\ ref \in [Frames -> Nat] /\ freelist \subseteq Frames
         /\ mem \in [Frames -> Val \cup {Junk}]
         /\ killed \subseteq Procs
         /\ panicked \in {"no", "init exiting", "null", "walk"}
  BY Zenon DEF CInv, TypeOK

\* 0 is no frame.
LEMMA NoFrameIsNone == NoFrame \notin Frames
  BY NframesAssumption DEF NoFrame, Frames

\* The page tables that map a frame are finitely many.
LEMMA MappersFinite ==
  ASSUME NEW f
  PROVE  IsFiniteSet(Mappers(f)) /\ Cardinality(Mappers(f)) \in Nat
<1>1. NPROC \in Int /\ 1 \in Int BY NprocAssumption
<1>2. IsFiniteSet(Procs) BY Zenon, <1>1, FS_Interval DEF Procs
<1>3. Mappers(f) \subseteq Procs BY Zenon DEF Mappers
<1>4. IsFiniteSet(Mappers(f)) BY Zenon, <1>2, <1>3, FS_Subset
<1> QED BY Zenon, <1>4, FS_CardinalityType

\* A free frame belongs to nobody; a mapped one is not free and not the kernel's.
LEMMA FreeFrame ==
  ASSUME CInv, NEW f \in Frames
  PROVE  /\ f \in freelist => ref[f] = 0 /\ ~InKernel(f) /\ Mappers(f) = {}
         /\ Mappers(f) # {} => ~InKernel(f) /\ f \notin freelist /\ ref[f] = Cardinality(Mappers(f))
         /\ InKernel(f) => ref[f] = 1 /\ f \notin freelist /\ Mappers(f) = {}
<1>1. FrameOk(f) BY Zenon DEF CInv, Counted
<1>2. Mappers(f) = {} <=> Cardinality(Mappers(f)) = 0 BY Zenon, MappersFinite, FS_EmptySet
<1>3. 1 # 0 OBVIOUS
<1> QED BY Zenon, <1>1, <1>2, <1>3 DEF FrameOk

\* A step of p moves only p in and out of the set of mappers of a frame.
LEMMA MapperStep ==
  ASSUME NEW p \in Procs, \A r \in Procs : r # p => pa'[r] = pa[r], NEW f
  PROVE  /\ (\E i \in Pages : pa'[p][i] = f) => Mappers(f)' = Mappers(f) \cup {p}
         /\ (~\E i \in Pages : pa'[p][i] = f) => Mappers(f)' = Mappers(f) \ {p}
<1>1. \A r \in Procs : r # p => (r \in Mappers(f)' <=> r \in Mappers(f)) BY Zenon DEF Mappers
<1>2. p \in Mappers(f)' <=> \E i \in Pages : pa'[p][i] = f BY Zenon DEF Mappers
<1>3. Mappers(f) \subseteq Procs /\ Mappers(f)' \subseteq Procs BY Zenon DEF Mappers
<1> QED BY Zenon, <1>1, <1>2, <1>3

\* ... and only its own kernel pages.
LEMMA KernelStep ==
  ASSUME NEW p \in Procs, \A r \in Procs : r # p => tf'[r] = tf[r] /\ tables'[r] = tables[r], NEW f
  PROVE  /\ InKernel(f)' <=> KernOf(p, f)' \/ \E r \in Procs : r # p /\ KernOf(r, f)
         /\ InKernel(f) <=> KernOf(p, f) \/ \E r \in Procs : r # p /\ KernOf(r, f)
  BY Zenon DEF InKernel, KernOf

-----------------------------------------------------------------------------
(* What may happen to a frame.                                               *)

\* Nothing.
LEMMA FrameKept ==
  ASSUME CInv, NEW f \in Frames, InKernel(f)' <=> InKernel(f), Mappers(f)' = Mappers(f),
         ref'[f] = ref[f], f \in freelist' <=> f \in freelist
  PROVE  FrameOk(f)'
<1>1. FrameOk(f) BY Zenon DEF CInv, Counted
<1> QED BY Zenon, <1>1 DEF FrameOk

\* kalloc takes it for a page of p.
LEMMA FrameMapped ==
  ASSUME CInv, NEW f \in freelist, NEW p \in Procs, ~InKernel(f)', Mappers(f)' = Mappers(f) \cup {p},
         ref'[f] = ref[f] + 1, f \notin freelist'
  PROVE  FrameOk(f)'
<1>1. f \in Frames BY Zenon, CowTypes
<1>2. ref[f] = 0 /\ Mappers(f) = {} BY Zenon, <1>1, FreeFrame
<1>3. Cardinality(Mappers(f)') = 1
  <2>1. Mappers(f)' = {p} BY Zenon, <1>2
  <2> QED BY Zenon, <2>1, FS_Singleton
<1>4. ref'[f] = 1 /\ 1 # 0 BY <1>2
<1> QED BY Zenon, <1>3, <1>4 DEF FrameOk

\* kalloc takes it for the kernel.
LEMMA FrameOwned ==
  ASSUME CInv, NEW f \in freelist, InKernel(f)', Mappers(f)' = Mappers(f),
         ref'[f] = ref[f] + 1, f \notin freelist'
  PROVE  FrameOk(f)'
<1>1. f \in Frames BY Zenon, CowTypes
<1>2. ref[f] = 0 /\ Mappers(f) = {} BY Zenon, <1>1, FreeFrame
<1>3. ref'[f] = 1 /\ 1 # 0 BY <1>2
<1> QED BY Zenon, <1>2, <1>3 DEF FrameOk

\* refInc: q comes to share it.
LEMMA FrameShared ==
  ASSUME CInv, NEW f \in Frames, NEW q \in Procs, q \notin Mappers(f), Mappers(f) # {},
         ~InKernel(f)', Mappers(f)' = Mappers(f) \cup {q},
         ref'[f] = ref[f] + 1, f \in freelist' <=> f \in freelist
  PROVE  FrameOk(f)'
<1>1. f \notin freelist /\ ref[f] = Cardinality(Mappers(f)) BY Zenon, FreeFrame
<1>2. Cardinality(Mappers(f)') = Cardinality(Mappers(f)) + 1
  BY Zenon, MappersFinite, FS_AddElement
<1>3. ref'[f] = Cardinality(Mappers(f)') BY Zenon, <1>1, <1>2
<1>4. ref[f] \in Nat BY Zenon, CowTypes
<1>5. ref'[f] # 0 BY <1>4
<1> QED BY Zenon, <1>1, <1>3, <1>5 DEF FrameOk

\* kfree: p no longer maps it.
LEMMA FrameUnmapped ==
  ASSUME CInv, NEW f \in Frames, NEW p \in Mappers(f), ~InKernel(f)', Mappers(f)' = Mappers(f) \ {p},
         ref'[f] = ref[f] - 1, f \in freelist' <=> f \in freelist \/ ref[f] = 1
  PROVE  FrameOk(f)'
<1>1. f \notin freelist /\ ref[f] = Cardinality(Mappers(f)) BY Zenon, FreeFrame
<1>2. Cardinality(Mappers(f)') = Cardinality(Mappers(f)) - 1
  BY Zenon, MappersFinite, FS_RemoveElement
<1>3. ref'[f] = Cardinality(Mappers(f)') BY Zenon, <1>1, <1>2
<1>4. ref[f] \in Nat BY Zenon, CowTypes
<1>5. ref'[f] = 0 <=> ref[f] = 1 BY <1>4
<1> QED BY Zenon, <1>1, <1>3, <1>5 DEF FrameOk

\* kfree: the kernel no longer uses it.
LEMMA FrameReturned ==
  ASSUME CInv, NEW f \in Frames, InKernel(f), ~InKernel(f)', Mappers(f)' = Mappers(f),
         ref'[f] = ref[f] - 1, f \in freelist' <=> f \in freelist \/ ref[f] = 1
  PROVE  FrameOk(f)'
<1>1. ref[f] = 1 /\ Mappers(f) = {} BY Zenon, FreeFrame
<1>2. Cardinality(Mappers(f)') = 0 BY Zenon, <1>1, FS_EmptySet
<1>3. ref'[f] = 0 BY <1>1
<1> QED BY Zenon, <1>1, <1>2, <1>3 DEF FrameOk

\* A step of p keeps shared frames protected if each page p has afterwards was there
\* before and is protected as it was, or is a frame from the free list.
LEMMA ProtectStep ==
  ASSUME CInv, NEW p \in Procs,
         \A r \in Procs : r # p => pa'[r] = pa[r] /\ W'[r] = W[r] /\ COW'[r] = COW[r],
         \A i \in Pages : pa'[p][i] # NoFrame =>
           \/ pa'[p][i] = pa[p][i] /\ (i \in W'[p] => i \in W[p]) /\ (i \in COW[p] => i \in COW'[p])
           \/ pa'[p][i] \in freelist
  PROVE  SharedProtected'
<1> SUFFICES \A q, r \in Procs : q # r =>
               \A i, j \in Pages :
                 pa'[q][i] # NoFrame /\ pa'[q][i] = pa'[r][j] => i \notin W'[q] /\ i \in COW'[q]
  BY Zenon DEF SharedProtected
<1>1. SUFFICES ASSUME NEW q \in Procs, NEW r \in Procs, q # r, NEW i \in Pages, NEW j \in Pages,
                      pa'[q][i] # NoFrame, pa'[q][i] = pa'[r][j]
               PROVE  i \notin W'[q] /\ i \in COW'[q]
  OBVIOUS
<1>2. \A s \in Procs, k \in Pages : s # p => pa[s][k] \notin freelist
  <2>1. SUFFICES ASSUME NEW s \in Procs, NEW k \in Pages, pa[s][k] \in freelist PROVE FALSE
    BY Zenon
  <2>2. pa[s][k] \in Frames BY Zenon, <2>1, CowTypes
  <2>3. s \in Mappers(pa[s][k]) BY Zenon DEF Mappers
  <2> QED BY Zenon, <2>1, <2>2, <2>3, FreeFrame
<1>3. /\ pa[q][i] # NoFrame /\ pa[q][i] = pa[r][j]
      /\ (i \in W'[q] => i \in W[q]) /\ (i \in COW[q] => i \in COW'[q])
  <2>1. CASE q = p
    <3>1. pa'[r][j] = pa[r][j] /\ pa[r][j] \notin freelist BY Zenon, <1>1, <1>2, <2>1
    <3> QED BY Zenon, <1>1, <2>1, <3>1
  <2>2. CASE r = p
    <3>1. pa'[q][i] = pa[q][i] /\ pa[q][i] \notin freelist BY Zenon, <1>1, <1>2, <2>2
    <3>2. pa'[p][j] = pa[p][j] BY Zenon, <1>1, <2>2, <3>1
    <3> QED BY Zenon, <1>1, <2>2, <3>1, <3>2
  <2>3. CASE q # p /\ r # p BY Zenon, <1>1, <2>3
  <2> QED BY Zenon, <2>1, <2>2, <2>3
<1>4. i \notin W[q] /\ i \in COW[q] BY <1>1, <1>3 DEF CInv, SharedProtected
<1> QED BY Zenon, <1>3, <1>4

-----------------------------------------------------------------------------
\* The state userinit leaves satisfies the invariant.
LEMMA CowStart == Init => CInv
<1> SUFFICES ASSUME Init PROVE CInv OBVIOUS
<1>1. first \in Procs /\ 0 \in Pages /\ 1 \in Frames /\ NoFrame \notin Frames
      /\ NFRAMES \in Frames /\ NFRAMES - 2 .. NFRAMES - 1 \subseteq Frames
      /\ 2 .. NFRAMES - 3 \subseteq Frames /\ 0 # 1 /\ NPAGES >= 1 /\ NPAGES \in Nat
  BY NprocAssumption, NpagesAssumption, NframesAssumption
     DEF first, Procs, Pages, Frames, NoFrame
<1>2. /\ pa = [p \in Procs |-> [i \in Pages |-> IF p = first /\ i = 0 THEN 1 ELSE NoFrame]]
      /\ sz = [p \in Procs |-> IF p = first THEN 1 ELSE 0]
      /\ tf = [p \in Procs |-> IF p = first THEN NFRAMES ELSE NoFrame]
      /\ tables = [p \in Procs |-> IF p = first THEN NFRAMES - 2 .. NFRAMES - 1 ELSE {}]
      /\ ref = [f \in Frames |-> IF f = 1 \/ f > NFRAMES - 3 THEN 1 ELSE 0]
      /\ freelist = 2 .. NFRAMES - 3
      /\ COW = [p \in Procs |-> {}]
  BY Zenon DEF Init
<1>3. TypeOK
  <2>1. sz \in [Procs -> 0 .. NPAGES]
    <3>1. 0 \in 0 .. NPAGES /\ 1 \in 0 .. NPAGES BY <1>1
    <3> QED BY Zenon, <1>2, <3>1
  <2>2. ref \in [Frames -> Nat]
    <3>1. 0 \in Nat /\ 1 \in Nat OBVIOUS
    <3> QED BY Zenon, <1>2, <3>1
  <2>3. mem \in [Frames -> Val \cup {Junk}] BY Zenon, ValAssumption DEF Init
  <2>4. pa \in [Procs -> [Pages -> Frames \cup {NoFrame}]] BY Zenon, <1>1, <1>2
  <2>5. /\ tf \in [Procs -> Frames \cup {NoFrame}] /\ tables \in [Procs -> SUBSET Frames]
        /\ freelist \subseteq Frames
    BY Zenon, <1>1, <1>2
  <2>6. /\ W \in [Procs -> SUBSET Pages] /\ U \in [Procs -> SUBSET Pages]
        /\ COW \in [Procs -> SUBSET Pages] /\ text \in [Procs -> SUBSET Pages]
        /\ guard \in [Procs -> SUBSET Pages]
    BY Zenon, <1>1 DEF Init
  <2>7. killed \subseteq Procs /\ panicked \in {"no", "init exiting", "null", "walk"}
    BY Zenon DEF Init
  <2> QED BY Zenon, <2>1, <2>2, <2>3, <2>4, <2>5, <2>6, <2>7 DEF TypeOK
<1>4. \A p \in Procs, i \in Pages :
        /\ pa[p][i] # NoFrame => p = first /\ i = 0 /\ pa[p][i] = 1
        /\ p = first /\ i = 0 => pa[p][i] = 1 /\ pa[p][i] # NoFrame
  BY Zenon, <1>1, <1>2
<1>5. Layout
  <2>1. SUFFICES ASSUME NEW p \in Procs
                 PROVE  /\ \A i \in Pages : pa[p][i] # NoFrame <=> i < sz[p]
                        /\ \A i \in COW[p] : i < sz[p]
                        /\ IF Used(p) THEN sz[p] >= 1 ELSE sz[p] = 0 /\ tables[p] = {}
    BY Zenon DEF Layout
  <2>2. CASE p = first
    <3>1. sz[p] = 1 /\ COW[p] = {} /\ tf[p] = NFRAMES BY Zenon, <1>2, <2>2
    <3>2. Used(p) BY Zenon, <1>1, <3>1 DEF Used
    <3>3. \A i \in Pages : i < 1 <=> i = 0 BY NpagesAssumption DEF Pages
    <3>4. 1 >= 1 OBVIOUS
    <3> QED BY Zenon, <1>4, <2>2, <3>1, <3>2, <3>3, <3>4
  <2>3. CASE p # first
    <3>1. sz[p] = 0 /\ COW[p] = {} /\ tf[p] = NoFrame /\ tables[p] = {} BY Zenon, <1>2, <2>3
    <3>2. ~Used(p) BY Zenon, <3>1 DEF Used
    <3>3. \A i \in Pages : ~(i < 0) BY NpagesAssumption DEF Pages
    <3> QED BY Zenon, <1>4, <2>3, <3>1, <3>2, <3>3
  <2> QED BY Zenon, <2>2, <2>3
<1>6. Injective BY Zenon, <1>4 DEF Injective
<1>7. \A p \in Procs, f \in Frames : KernOf(p, f) <=> p = first /\ f \in NFRAMES - 2 .. NFRAMES
  <2>1. SUFFICES ASSUME NEW p \in Procs, NEW f \in Frames
                 PROVE  KernOf(p, f) <=> p = first /\ f \in NFRAMES - 2 .. NFRAMES
    BY Zenon
  <2>2. CASE p = first
    <3>1. tf[p] = NFRAMES /\ tables[p] = NFRAMES - 2 .. NFRAMES - 1 BY Zenon, <1>2, <2>2
    <3>2. f = NFRAMES \/ f \in NFRAMES - 2 .. NFRAMES - 1 <=> f \in NFRAMES - 2 .. NFRAMES
      BY NframesAssumption DEF Frames
    <3> QED BY Zenon, <2>2, <3>1, <3>2 DEF KernOf
  <2>3. CASE p # first
    <3>1. tf[p] = NoFrame /\ tables[p] = {} BY Zenon, <1>2, <2>3
    <3> QED BY Zenon, <1>1, <2>3, <3>1 DEF KernOf
  <2> QED BY Zenon, <2>2, <2>3
<1>8. OneOwner
  <2>1. \A p \in Procs : tf[p] \notin tables[p]
    <3>1. NFRAMES \notin NFRAMES - 2 .. NFRAMES - 1 BY NframesAssumption
    <3> QED BY Zenon, <1>2, <3>1
  <2> QED BY Zenon, <1>7, <2>1 DEF OneOwner
<1>9. Counted
  <2>1. SUFFICES ASSUME NEW f \in Frames PROVE FrameOk(f) BY Zenon DEF Counted
  <2>2. InKernel(f) <=> f \in NFRAMES - 2 .. NFRAMES BY Zenon, <1>1, <1>7 DEF InKernel, KernOf
  <2>3. Mappers(f) = IF f = 1 THEN {first} ELSE {}
    <3>1. CASE f = 1 BY Zenon, <1>1, <1>4, <3>1 DEF Mappers
    <3>2. CASE f # 1
      <4>1. f # NoFrame BY Zenon, <1>1
      <4>2. \A p \in Procs, i \in Pages : pa[p][i] # f BY Zenon, <1>4, <3>2, <4>1
      <4> QED BY Zenon, <3>2, <4>2 DEF Mappers
    <3> QED BY Zenon, <3>1, <3>2
  <2>4. Cardinality(Mappers(f)) = IF f = 1 THEN 1 ELSE 0
    BY Zenon, <2>3, FS_Singleton, FS_EmptySet
  <2>5. ref[f] = IF f = 1 \/ f > NFRAMES - 3 THEN 1 ELSE 0 BY Zenon, <1>2
  <2>6. /\ f \in NFRAMES - 2 .. NFRAMES <=> f > NFRAMES - 3
        /\ f = 1 => ~(f > NFRAMES - 3)
        /\ f \in freelist <=> ~(f = 1) /\ ~(f > NFRAMES - 3)
        /\ 1 # 0
    BY <1>2, NframesAssumption DEF Frames
  <2> QED BY Zenon, <2>2, <2>3, <2>4, <2>5, <2>6 DEF FrameOk
<1>10. SharedProtected BY Zenon, <1>4 DEF SharedProtected
<1> QED BY Zenon, <1>3, <1>5, <1>6, <1>8, <1>9, <1>10 DEF CInv

\* A step that changes neither the page tables nor the allocator.
LEMMA SameSpace ==
  ASSUME CInv, UNCHANGED <<space, owned, kmem>>, mem' \in [Frames -> Val \cup {Junk}],
         killed' \subseteq Procs, panicked' \in {"no", "init exiting", "null", "walk"}
  PROVE  CInv'
<1>1. UNCHANGED <<sz, pa, W, U, COW, text, guard, tf, tables, ref, freelist>>
  BY Zenon DEF space, owned, kmem
<1>2. TypeOK' BY Zenon, <1>1 DEF CInv, TypeOK
<1>3. Layout' /\ Injective' /\ OneOwner' /\ SharedProtected'
  <2>1. Layout' BY Zenon, <1>1 DEF CInv, Layout, Used
  <2>2. Injective' BY Zenon, <1>1 DEF CInv, Injective
  <2>3. OneOwner' BY Zenon, <1>1 DEF CInv, OneOwner, KernOf
  <2>4. SharedProtected'
    <3>1. SharedProtected /\ UNCHANGED <<pa, W, COW>> BY Zenon, <1>1 DEF CInv
    <3> QED BY Zenon, <3>1 DEF SharedProtected
  <2> QED BY Zenon, <2>1, <2>2, <2>3, <2>4
<1>4. \A f : Mappers(f)' = Mappers(f) /\ (InKernel(f)' <=> InKernel(f))
  BY Zenon, <1>1 DEF Mappers, InKernel
<1>5. Counted' BY Zenon, <1>1, <1>4, FrameKept DEF Counted
<1> QED BY Zenon, <1>2, <1>3, <1>5 DEF CInv

\* Stores, faults that kill and panics.
LEMMA QuietInv ==
  ASSUME CInv, NEW p \in Procs, NEW i \in Pages, NEW v \in Val,
         \/ Store(p, i, v) \/ CopyOut(p, i, v) \/ StoreFault(p, i) \/ CowFaultNoMemory(p, i)
         \/ CopyOutNull(p, i) \/ StoreFar(p)
  PROVE  CInv'
<1>1. CASE Store(p, i, v) \/ CopyOut(p, i, v)
  <2>1. mem' = [mem EXCEPT ![pa[p][i]] = v] /\ UNCHANGED <<space, owned, kmem, killed, panicked>>
    BY Zenon, <1>1 DEF Store, CopyOut
  <2> QED BY Zenon, <2>1, CowTypes, SameSpace
<1>2. CASE StoreFault(p, i)
  <2>1. /\ killed' = killed \cup ({p} \ {first}) /\ UNCHANGED <<space, owned, kmem, mem>>
        /\ panicked' \in {"no", "init exiting", "null", "walk"}
    BY Zenon, <1>2 DEF StoreFault
  <2> QED BY Zenon, <2>1, CowTypes, SameSpace
<1>3. CASE CowFaultNoMemory(p, i) \/ CopyOutNull(p, i) \/ StoreFar(p)
  <2>1. /\ UNCHANGED <<space, owned, kmem, mem, killed>>
        /\ panicked' \in {"no", "init exiting", "null", "walk"}
    BY Zenon, <1>3 DEF CowFaultNoMemory, CopyOutNull, StoreFar, Panic
  <2> QED BY Zenon, <2>1, CowTypes, SameSpace
<1> QED BY Zenon, <1>1, <1>2, <1>3

-----------------------------------------------------------------------------
\* A step of p alone: it gets the frames New for its pages and T for the kernel
\* from the free list, comes to share Sh, and lets go of its pages Gone and its
\* kernel pages GoneK.
Accounts(p, New, T, Sh, Gone, GoneK) ==
  /\ New \subseteq freelist /\ T \subseteq freelist /\ New \cap T = {}
  /\ \A f \in Sh : f \in Frames /\ p \notin Mappers(f) /\ Mappers(f) # {}
  /\ \A f \in Gone : f \in Frames /\ p \in Mappers(f)
  /\ \A f \in GoneK : f \in Frames /\ KernOf(p, f)
  /\ \A r \in Procs : r # p => pa'[r] = pa[r] /\ tf'[r] = tf[r] /\ tables'[r] = tables[r]
  /\ \A f \in Frames :
       /\ (\E i \in Pages : pa'[p][i] = f) <=> f \in New \cup Sh \/ (p \in Mappers(f) /\ f \notin Gone)
       /\ KernOf(p, f)' <=> f \in T \/ (KernOf(p, f) /\ f \notin GoneK)
       /\ ref'[f] = IF f \in New \cup T \cup Sh THEN ref[f] + 1
                    ELSE IF f \in Gone \cup GoneK THEN ref[f] - 1 ELSE ref[f]
       /\ f \in freelist' <=> \/ f \in freelist /\ f \notin New \cup T
                              \/ f \in Gone \cup GoneK /\ ref[f] = 1

\* How many page tables map a frame is a number.
LEMMA MapperCount == \A g : Cardinality(Mappers(g)) \in Nat
  BY Zenon, MappersFinite

\* Such a step keeps the counts exact and every kernel page with one owner.
LEMMA AccountsKept ==
  ASSUME CInv, NEW p \in Procs, NEW New, NEW T, NEW Sh, NEW Gone, NEW GoneK,
         Accounts(p, New, T, Sh, Gone, GoneK)
  PROVE  /\ Counted' /\ \A f \in Frames : ref'[f] \in Nat
         /\ \A q, r \in Procs, f \in Frames : KernOf(q, f)' /\ KernOf(r, f)' => q = r
<1>1. ASSUME NEW f \in Frames
      PROVE  /\ f \in freelist => ref[f] = 0 /\ ~InKernel(f) /\ Mappers(f) = {}
             /\ Mappers(f) # {} => ~InKernel(f) /\ f \notin freelist
             /\ InKernel(f) => f \notin freelist /\ Mappers(f) = {}
  BY Zenon, FreeFrame
<1>2. \A r \in Procs : r # p => tf'[r] = tf[r] /\ tables'[r] = tables[r] BY Zenon DEF Accounts
<1>3. \A r \in Procs : r # p => pa'[r] = pa[r] BY Zenon DEF Accounts
<1>4. ASSUME NEW f \in Frames PROVE FrameOk(f)'
  <2>1. /\ InKernel(f)' <=> KernOf(p, f)' \/ \E r \in Procs : r # p /\ KernOf(r, f)
        /\ InKernel(f) <=> KernOf(p, f) \/ \E r \in Procs : r # p /\ KernOf(r, f)
    BY Zenon, <1>2, KernelStep
  <2>2. /\ (\E i \in Pages : pa'[p][i] = f) => Mappers(f)' = Mappers(f) \cup {p}
        /\ (~\E i \in Pages : pa'[p][i] = f) => Mappers(f)' = Mappers(f) \ {p}
    BY Zenon, <1>3, MapperStep
  <2>3. /\ (\E i \in Pages : pa'[p][i] = f) <=> f \in New \cup Sh \/ (p \in Mappers(f) /\ f \notin Gone)
        /\ KernOf(p, f)' <=> f \in T \/ (KernOf(p, f) /\ f \notin GoneK)
        /\ ref'[f] = IF f \in New \cup T \cup Sh THEN ref[f] + 1
                     ELSE IF f \in Gone \cup GoneK THEN ref[f] - 1 ELSE ref[f]
        /\ f \in freelist' <=> \/ f \in freelist /\ f \notin New \cup T
                               \/ f \in Gone \cup GoneK /\ ref[f] = 1
    BY Zenon DEF Accounts
  <2>4. /\ f \in New \/ f \in T => f \in freelist /\ ~InKernel(f) /\ Mappers(f) = {}
        /\ ~(f \in New /\ f \in T)
        /\ f \in Sh => p \notin Mappers(f) /\ Mappers(f) # {} /\ ~InKernel(f) /\ f \notin freelist
        /\ f \in Gone => p \in Mappers(f) /\ ~InKernel(f) /\ f \notin freelist
        /\ f \in GoneK => KernOf(p, f) /\ InKernel(f) /\ f \notin freelist /\ Mappers(f) = {}
    BY Zenon, <1>1, <2>1 DEF Accounts
  <2>5. CASE f \in New
    <3>1. f \notin T /\ f \notin Sh /\ f \notin Gone /\ f \notin GoneK /\ f \in freelist
      BY Zenon, <2>4, <2>5
    <3>2. ~InKernel(f)' BY Zenon, <2>1, <2>3, <2>4, <2>5, <3>1
    <3>3. Mappers(f)' = Mappers(f) \cup {p} BY Zenon, <2>2, <2>3, <2>5
    <3>4. ref'[f] = ref[f] + 1 /\ f \notin freelist' BY Zenon, <2>3, <2>5, <3>1
    <3> QED BY Zenon, <3>1, <3>2, <3>3, <3>4, FrameMapped
  <2>6. CASE f \in T
    <3>1. f \notin New /\ f \notin Sh /\ f \notin Gone /\ f \notin GoneK /\ f \in freelist /\ Mappers(f) = {}
      BY Zenon, <2>4, <2>6
    <3>2. InKernel(f)' BY Zenon, <2>1, <2>3, <2>6
    <3>3. Mappers(f)' = Mappers(f) BY Zenon, <2>2, <2>3, <3>1
    <3>4. ref'[f] = ref[f] + 1 /\ f \notin freelist' BY Zenon, <2>3, <2>6, <3>1
    <3> QED BY Zenon, <3>1, <3>2, <3>3, <3>4, FrameOwned
  <2>7. CASE f \in Sh
    <3>1. f \notin New /\ f \notin T /\ f \notin Gone /\ f \notin GoneK /\ f \notin freelist
      BY Zenon, <2>4, <2>7
    <3>2. ~InKernel(f)' BY Zenon, <2>1, <2>3, <2>4, <2>7, <3>1
    <3>3. Mappers(f)' = Mappers(f) \cup {p} BY Zenon, <2>2, <2>3, <2>7
    <3>4. ref'[f] = ref[f] + 1 /\ f \notin freelist' BY Zenon, <2>3, <2>7, <3>1
    <3> QED BY Zenon, <2>4, <2>7, <3>1, <3>2, <3>3, <3>4, FrameShared
  <2>8. CASE f \in Gone
    <3>1. f \notin New /\ f \notin T /\ f \notin Sh /\ f \notin GoneK BY Zenon, <2>4, <2>8
    <3>2. ~InKernel(f)' BY Zenon, <2>1, <2>3, <2>4, <2>8, <3>1
    <3>3. Mappers(f)' = Mappers(f) \ {p} BY Zenon, <2>2, <2>3, <2>8, <3>1
    <3>4. ref'[f] = ref[f] - 1 /\ (f \in freelist' <=> f \in freelist \/ ref[f] = 1)
      BY Zenon, <2>3, <2>8, <3>1
    <3> QED BY Zenon, <2>4, <2>8, <3>2, <3>3, <3>4, FrameUnmapped
  <2>9. CASE f \in GoneK
    <3>1. f \notin New /\ f \notin T /\ f \notin Sh /\ f \notin Gone /\ Mappers(f) = {} /\ InKernel(f)
      BY Zenon, <2>4, <2>9
    <3>2. ~InKernel(f)'
      <4>1. KernOf(p, f) /\ \A r \in Procs : KernOf(r, f) => r = p
        BY Zenon, <2>4, <2>9 DEF CInv, OneOwner
      <4> QED BY Zenon, <2>1, <2>3, <2>9, <3>1, <4>1
    <3>3. Mappers(f)' = Mappers(f) BY Zenon, <2>2, <2>3, <3>1
    <3>4. ref'[f] = ref[f] - 1 /\ (f \in freelist' <=> f \in freelist \/ ref[f] = 1)
      BY Zenon, <2>3, <2>9, <3>1
    <3> QED BY Zenon, <3>1, <3>2, <3>3, <3>4, FrameReturned
  <2>10. CASE f \notin New /\ f \notin T /\ f \notin Sh /\ f \notin Gone /\ f \notin GoneK
    <3>1. InKernel(f)' <=> InKernel(f) BY Zenon, <2>1, <2>3, <2>10
    <3>2. Mappers(f)' = Mappers(f) BY Zenon, <2>2, <2>3, <2>10
    <3>3. ref'[f] = ref[f] /\ (f \in freelist' <=> f \in freelist) BY Zenon, <2>3, <2>10
    <3> QED BY Zenon, <3>1, <3>2, <3>3, FrameKept
  <2> QED BY Zenon, <2>5, <2>6, <2>7, <2>8, <2>9, <2>10
<1>5. \A f \in Frames : ref'[f] \in Nat
  <2>1. SUFFICES ASSUME NEW f \in Frames PROVE ref'[f] \in Nat BY Zenon
  <2>2. (Cardinality(Mappers(f)) \in Nat)'
    <3>1. (\A g : Cardinality(Mappers(g)) \in Nat)' BY MapperCount, PTL
    <3> QED BY Zenon, <3>1
  <2>3. 1 \in Nat OBVIOUS
  <2> QED BY Zenon, <1>4, <2>2, <2>3 DEF FrameOk
<1>6. ASSUME NEW q \in Procs, NEW r \in Procs, NEW f \in Frames, KernOf(q, f)', KernOf(r, f)'
      PROVE  q = r
  <2>1. KernOf(p, f)' => f \in T \/ KernOf(p, f) BY Zenon DEF Accounts
  <2>2. \A s \in Procs : s # p /\ KernOf(s, f)' => KernOf(s, f) BY Zenon, <1>2 DEF KernOf
  <2>3. \A s \in Procs : f \in T => ~KernOf(s, f)
    BY Zenon, FreeFrame DEF Accounts, InKernel, KernOf
  <2> QED BY Zenon, <1>6, <2>1, <2>2, <2>3 DEF CInv, OneOwner
<1> QED BY Zenon, <1>4, <1>5, <1>6 DEF Counted

-----------------------------------------------------------------------------
\* TypeOK without the counts, in two parts.
TableTypes ==
  /\ sz \in [Procs -> 0 .. NPAGES]
  /\ pa \in [Procs -> [Pages -> Frames \cup {NoFrame}]]
  /\ W \in [Procs -> SUBSET Pages] /\ U \in [Procs -> SUBSET Pages]
  /\ COW \in [Procs -> SUBSET Pages] /\ text \in [Procs -> SUBSET Pages]
  /\ guard \in [Procs -> SUBSET Pages]

KernTypes ==
  /\ tf \in [Procs -> Frames \cup {NoFrame}] /\ tables \in [Procs -> SUBSET Frames]
  /\ freelist \subseteq Frames
  /\ mem \in [Frames -> Val \cup {Junk}]
  /\ killed \subseteq Procs
  /\ panicked \in {"no", "init exiting", "null", "walk"}

\* What Layout, Injective and OneOwner say of one process.
SpaceOk(p) ==
  /\ \A i \in Pages : pa[p][i] # NoFrame <=> i < sz[p]
  /\ \A i \in COW[p] : i < sz[p]
  /\ IF Used(p) THEN sz[p] >= 1 ELSE sz[p] = 0 /\ tables[p] = {}
  /\ \A i, j \in Pages : pa[p][i] # NoFrame /\ pa[p][i] = pa[p][j] => i = j
  /\ tf[p] \notin tables[p]

\* A step of p that keeps its own address space in order and the accounts exact
\* keeps the invariant.
LEMMA SpaceStep ==
  ASSUME CInv, NEW p \in Procs, NEW New, NEW T, NEW Sh, NEW Gone, NEW GoneK,
         Accounts(p, New, T, Sh, Gone, GoneK),
         TableTypes', KernTypes', ref' = [f \in Frames |-> ref'[f]], SpaceOk(p)', SharedProtected',
         \A r \in Procs : r # p => sz'[r] = sz[r] /\ \A i \in COW'[r] : i < sz[r]
  PROVE  CInv'
<1>1. /\ Counted' /\ \A f \in Frames : ref'[f] \in Nat
      /\ \A q, r \in Procs, f \in Frames : KernOf(q, f)' /\ KernOf(r, f)' => q = r
  BY Zenon, AccountsKept
<1>2. ref' \in [Frames -> Nat]
  <2>1. [f \in Frames |-> ref'[f]] \in [Frames -> Nat] BY Zenon, <1>1
  <2> QED BY Zenon, <2>1
<1>3. TypeOK' BY Zenon, <1>2 DEF TypeOK, TableTypes, KernTypes
<1>4. ASSUME NEW r \in Procs, r # p PROVE SpaceOk(r)'
  <2>1. pa'[r] = pa[r] /\ tf'[r] = tf[r] /\ tables'[r] = tables[r] /\ sz'[r] = sz[r]
    BY Zenon, <1>4 DEF Accounts
  <2>2. SpaceOk(r) BY Zenon DEF SpaceOk, CInv, Layout, Injective, OneOwner
  <2>3. \A i \in COW'[r] : i < sz'[r] BY Zenon, <1>4, <2>1
  <2>4. Used(r)' <=> Used(r) BY Zenon, <2>1 DEF Used
  <2>5. \A i \in Pages : pa'[r][i] # NoFrame <=> i < sz'[r] BY Zenon, <2>1, <2>2 DEF SpaceOk
  <2>6. \A i, j \in Pages : pa'[r][i] # NoFrame /\ pa'[r][i] = pa'[r][j] => i = j
    <3>1. \A i, j \in Pages : pa[r][i] # NoFrame /\ pa[r][i] = pa[r][j] => i = j
      BY Zenon, <2>2 DEF SpaceOk
    <3>2. pa'[r] = pa[r] BY Zenon, <2>1
    <3> QED BY Zenon, <3>1, <3>2
  <2>7. /\ tf'[r] \notin tables'[r]
        /\ Used(r)' => sz'[r] >= 1
        /\ ~Used(r)' => sz'[r] = 0 /\ tables'[r] = {}
    BY Zenon, <2>1, <2>2, <2>4 DEF SpaceOk
  <2> QED BY Zenon, <2>3, <2>5, <2>6, <2>7 DEF SpaceOk
<1>5. \A r \in Procs : SpaceOk(r)' BY Zenon, <1>4
<1>6. Layout' BY Zenon, <1>5 DEF SpaceOk, Layout
<1>7. Injective' BY Zenon, <1>5 DEF SpaceOk, Injective
<1>8. OneOwner' BY Zenon, <1>1, <1>5 DEF SpaceOk, OneOwner
<1> QED BY Zenon, <1>1, <1>3, <1>6, <1>7, <1>8 DEF CInv

\* What the invariant says of one process.
LEMMA SpaceNow ==
  ASSUME CInv, NEW p \in Procs
  PROVE  SpaceOk(p) /\ TableTypes /\ KernTypes /\ ref \in [Frames -> Nat]
  BY Zenon, CowTypes DEF SpaceOk, TableTypes, KernTypes, CInv, Layout, Injective, OneOwner

\* The frames kalloc returns were free.
LEMMA KallocFree ==
  ASSUME NEW n
  PROVE  Kalloc(n) \subseteq freelist /\ Kernel(n) \subseteq freelist
  BY Zenon DEF Kalloc, Kernel

\* The first of three frames is the one a single call would return.
LEMMA KernelGrows ==
  ASSUME CInv PROVE Kernel(1) \subseteq Kernel(3)
<1>1. SUFFICES ASSUME NEW f \in freelist, Cardinality({g \in freelist : g > f}) < 1
               PROVE  Cardinality({g \in freelist : g > f}) < 3
  BY Zenon DEF Kernel
<1>2. IsFiniteSet(Frames)
  <2>1. NFRAMES \in Int /\ 1 \in Int BY NframesAssumption
  <2> QED BY Zenon, <2>1, FS_Interval DEF Frames
<1>3. {g \in freelist : g > f} \subseteq Frames BY Zenon, CowTypes
<1>4. Cardinality({g \in freelist : g > f}) \in Nat
  BY Zenon, <1>2, <1>3, FS_Subset, FS_CardinalityType
<1> DEFINE c == Cardinality({g \in freelist : g > f})
<1>5. c \in Nat /\ c < 1 BY Zenon, <1>1, <1>4
<1> HIDE DEF c
<1>6. c < 3 BY <1>5
<1> QED BY Zenon, <1>6 DEF c

\* A mapped page is below p->sz and its frame is one of p's; p maps no other.
LEMMA MappedFrames ==
  ASSUME CInv, NEW p \in Procs
  PROVE  /\ \A f \in Frames : f \in UserFrames(p) <=> p \in Mappers(f)
         /\ UserFrames(p) \subseteq Frames
         /\ \A f \in Frames : f \in KernFrames(p) <=> KernOf(p, f)
         /\ KernFrames(p) \subseteq Frames
         /\ \A i \in Mapped(p) : i \in Pages /\ i < sz[p] /\ pa[p][i] \in Frames
<1>1. pa[p] \in [Pages -> Frames \cup {NoFrame}] /\ tf[p] \in Frames \cup {NoFrame}
      /\ tables[p] \subseteq Frames
  BY Zenon, CowTypes
<1>2. \A i \in Mapped(p) : i \in Pages /\ i < sz[p] /\ pa[p][i] \in Frames
  BY Zenon, <1>1 DEF Mapped, CInv, Layout
<1>3. \A f \in Frames : f \in UserFrames(p) <=> \E i \in Pages : pa[p][i] = f
  BY Zenon, NoFrameIsNone DEF UserFrames, Mapped
<1>4. \A f \in Frames : f \in UserFrames(p) <=> p \in Mappers(f) BY Zenon, <1>3 DEF Mappers
<1>5. UserFrames(p) \subseteq Frames BY Zenon, <1>2 DEF UserFrames
<1>6. KernFrames(p) \subseteq Frames /\ \A f \in Frames : f \in KernFrames(p) <=> KernOf(p, f)
  BY Zenon, <1>1, NoFrameIsNone DEF KernFrames, KernOf
<1> QED BY Zenon, <1>2, <1>4, <1>5, <1>6

-----------------------------------------------------------------------------
(* The operations.                                                           *)

\* fork.
LEMMA ForkInv ==
  ASSUME CInv, NEW p \in Procs, NEW q \in Procs, Fork(p, q)
  PROVE  CInv'
<1> DEFINE K == Kernel(3)
           M == Mapped(p)
           UF == UserFrames(p)
<1>1. Used(p) /\ ~Used(q) /\ p # q BY Zenon DEF Fork, Live
<1>2. PICK t \in Kernel(1) : tf' = [tf EXCEPT ![q] = t] /\ tables' = [tables EXCEPT ![q] = K \ {t}]
  BY Zenon DEF Fork
<1>3. /\ ref' = RefInc(ref, K \cup UF) /\ freelist' = freelist \ K
      /\ sz' = [sz EXCEPT ![q] = sz[p]] /\ pa' = [pa EXCEPT ![q] = pa[p]]
      /\ W' = [[W EXCEPT ![p] = W[p] \ M] EXCEPT ![q] = {}]
      /\ U' = [U EXCEPT ![q] = U[p]]
      /\ COW' = [COW EXCEPT ![p] = M, ![q] = M]
      /\ text' = [text EXCEPT ![q] = text[p]] /\ guard' = [guard EXCEPT ![q] = guard[p]]
      /\ UNCHANGED <<mem, killed, panicked>>
  BY Zenon DEF Fork, WriteProtect
<1>4. t \in K /\ K \subseteq freelist /\ K \subseteq Frames /\ t \in Frames
  BY Zenon, KernelGrows, KallocFree, CowTypes
<1>5. /\ \A f \in Frames : f \in UF <=> p \in Mappers(f)
      /\ UF \subseteq Frames /\ M \subseteq Pages /\ \A i \in M : i < sz[p]
  BY Zenon, MappedFrames
<1>6. SpaceOk(p) /\ SpaceOk(q) /\ TableTypes /\ KernTypes /\ ref \in [Frames -> Nat]
  BY Zenon, SpaceNow
<1>7. /\ tf'[q] = t /\ tables'[q] = K \ {t} /\ sz'[q] = sz[p] /\ pa'[q] = pa[p]
      /\ COW'[q] = M /\ W'[q] = {} /\ COW'[p] = M /\ W'[p] = W[p] \ M
  BY Zenon, <1>1, <1>2, <1>3, <1>6 DEF TableTypes, KernTypes
<1>8. \A r \in Procs : r # q => /\ pa'[r] = pa[r] /\ tf'[r] = tf[r] /\ tables'[r] = tables[r]
                                /\ sz'[r] = sz[r]
                                /\ (r # p => COW'[r] = COW[r] /\ W'[r] = W[r])
  BY Zenon, <1>2, <1>3, <1>6 DEF TableTypes, KernTypes
<1>9. \A i \in Pages : pa[q][i] = NoFrame
  <2>1. sz[q] = 0 BY Zenon, <1>1, <1>6 DEF SpaceOk
  <2>2. \A i \in Pages : ~(i < 0) BY NpagesAssumption DEF Pages
  <2> QED BY Zenon, <1>6, <2>1, <2>2 DEF SpaceOk
<1>10. \A f \in Frames : q \notin Mappers(f) /\ ~KernOf(q, f)
  <2>1. tf[q] = NoFrame /\ tables[q] = {} BY Zenon, <1>1, <1>6 DEF SpaceOk, Used
  <2> QED BY Zenon, <1>9, <2>1, NoFrameIsNone DEF Mappers, KernOf
<1> HIDE DEF K, M, UF
<1>11. Accounts(q, {}, K, UF, {}, {})
  <2>1. \A f \in UF : f \in Frames /\ q \notin Mappers(f) /\ Mappers(f) # {}
    BY Zenon, <1>5, <1>10
  <2>2. ASSUME NEW f \in Frames
        PROVE  /\ (\E i \in Pages : pa'[q][i] = f) <=> f \in {} \cup UF \/ (q \in Mappers(f) /\ f \notin {})
               /\ KernOf(q, f)' <=> f \in K \/ (KernOf(q, f) /\ f \notin {})
    <3>1. f \in UF <=> \E i \in Pages : pa[p][i] = f BY Zenon, <1>5 DEF Mappers
    <3>2. KernOf(q, f)' <=> f \in K BY Zenon, <1>4, <1>7 DEF KernOf
    <3> QED BY Zenon, <1>7, <1>10, <3>1, <3>2
  <2>3. ASSUME NEW f \in Frames
        PROVE  /\ ref'[f] = IF f \in {} \cup K \cup UF THEN ref[f] + 1
                            ELSE IF f \in {} \cup {} THEN ref[f] - 1 ELSE ref[f]
               /\ f \in freelist' <=> \/ f \in freelist /\ f \notin {} \cup K
                                      \/ f \in {} \cup {} /\ ref[f] = 1
    BY Zenon, <1>3 DEF RefInc
  <2> QED BY Zenon, <1>4, <1>8, <2>1, <2>2, <2>3 DEF Accounts
<1>12. TableTypes'
  <2>1. sz' \in [Procs -> 0 .. NPAGES] /\ pa' \in [Procs -> [Pages -> Frames \cup {NoFrame}]]
    BY Zenon, <1>3, <1>6 DEF TableTypes
  <2>2. U' \in [Procs -> SUBSET Pages] /\ text' \in [Procs -> SUBSET Pages] /\ guard' \in [Procs -> SUBSET Pages]
    BY Zenon, <1>3, <1>6 DEF TableTypes
  <2>3. COW' \in [Procs -> SUBSET Pages] BY Zenon, <1>3, <1>5, <1>6 DEF TableTypes
  <2>4. W' \in [Procs -> SUBSET Pages]
    <3>1. [W EXCEPT ![p] = W[p] \ M] \in [Procs -> SUBSET Pages] BY Zenon, <1>6 DEF TableTypes
    <3> QED BY Zenon, <1>3, <3>1
  <2> QED BY Zenon, <2>1, <2>2, <2>3, <2>4 DEF TableTypes
<1>13. KernTypes' BY Zenon, <1>2, <1>3, <1>4, <1>6 DEF KernTypes
<1>14. ref' = [f \in Frames |-> ref'[f]] BY Zenon, <1>3 DEF RefInc
<1>15. SpaceOk(q)'
  <2>1. \A i \in Pages : pa'[q][i] # NoFrame <=> i < sz'[q] BY Zenon, <1>6, <1>7 DEF SpaceOk
  <2>2. \A i \in COW'[q] : i < sz'[q] BY Zenon, <1>5, <1>7
  <2>3. Used(q)' /\ sz'[q] >= 1 /\ tf'[q] \notin tables'[q]
    BY Zenon, <1>1, <1>4, <1>6, <1>7, NoFrameIsNone DEF SpaceOk, Used
  <2>4. \A i, j \in Pages : pa'[q][i] # NoFrame /\ pa'[q][i] = pa'[q][j] => i = j
    <3>1. \A i, j \in Pages : pa[p][i] # NoFrame /\ pa[p][i] = pa[p][j] => i = j
      BY Zenon, <1>6 DEF SpaceOk
    <3>2. pa'[q] = pa[p] BY Zenon, <1>7
    <3> QED BY Zenon, <3>1, <3>2
  <2> QED BY Zenon, <2>1, <2>2, <2>3, <2>4 DEF SpaceOk
<1>16. SharedProtected'
  <2>1. SUFFICES ASSUME NEW r \in Procs, NEW s \in Procs, r # s, NEW i \in Pages, NEW j \in Pages,
                        pa'[r][i] # NoFrame, pa'[r][i] = pa'[s][j]
                 PROVE  i \notin W'[r] /\ i \in COW'[r]
    BY Zenon DEF SharedProtected
  <2>2. CASE r = p \/ r = q
    <3>1. pa'[r][i] = pa[p][i] BY Zenon, <1>1, <1>7, <1>8, <2>2
    <3>2. i \in M BY Zenon, <2>1, <3>1 DEF M, Mapped
    <3> QED BY Zenon, <1>7, <2>2, <3>2
  <2>3. CASE r # p /\ r # q
    <3>1. pa'[r] = pa[r] /\ W'[r] = W[r] /\ COW'[r] = COW[r] BY Zenon, <1>8, <2>3
    <3>2. CASE s = q
      <4>1. pa[r][i] # NoFrame /\ pa[r][i] = pa[p][j] BY Zenon, <1>7, <2>1, <3>1, <3>2
      <4> QED BY Zenon, <2>3, <3>1, <4>1 DEF CInv, SharedProtected
    <3>3. CASE s # q
      <4>1. pa[r][i] # NoFrame /\ pa[r][i] = pa[s][j] BY Zenon, <1>8, <2>1, <3>1, <3>3
      <4> QED BY Zenon, <2>1, <3>1, <4>1 DEF CInv, SharedProtected
    <3> QED BY Zenon, <3>2, <3>3
  <2> QED BY Zenon, <2>2, <2>3
<1>17. \A r \in Procs : r # q => sz'[r] = sz[r] /\ \A i \in COW'[r] : i < sz[r]
  <2>1. SUFFICES ASSUME NEW r \in Procs, r # q PROVE sz'[r] = sz[r] /\ \A i \in COW'[r] : i < sz[r]
    BY Zenon
  <2>2. CASE r = p BY Zenon, <1>5, <1>7, <1>8, <2>1, <2>2
  <2>3. CASE r # p BY Zenon, <1>8, <2>1, <2>3 DEF CInv, Layout
  <2> QED BY Zenon, <2>2, <2>3
<1> QED BY Zenon, <1>11, <1>12, <1>13, <1>14, <1>15, <1>16, <1>17, SpaceStep

\* fork without memory.
LEMMA ForkFailInv ==
  ASSUME CInv, NEW p \in Procs, ForkFail(p)
  PROVE  CInv'
<1>1. /\ W' = [W EXCEPT ![p] = W[p] \ {0}] /\ COW' = [COW EXCEPT ![p] = COW[p] \cup {0}]
      /\ UNCHANGED <<sz, pa, U, text, guard, tf, tables, ref, freelist, mem, killed, panicked>>
      /\ Used(p)
  BY Zenon DEF ForkFail, WriteProtect, owned, kmem, Live
<1>2. SpaceOk(p) /\ TableTypes /\ KernTypes /\ ref \in [Frames -> Nat] BY Zenon, SpaceNow
<1>3. 0 \in Pages BY NpagesAssumption DEF Pages
<1>4. \A r \in Procs : r # p => W'[r] = W[r] /\ COW'[r] = COW[r]
  BY Zenon, <1>1, <1>2 DEF TableTypes
<1>5. W'[p] = W[p] \ {0} /\ COW'[p] = COW[p] \cup {0} BY Zenon, <1>1, <1>2 DEF TableTypes
<1>6. TypeOK' BY Zenon, <1>1, <1>2, <1>3 DEF CInv, TypeOK, TableTypes
<1>7. 0 < sz[p]
  <2>1. sz[p] >= 1 /\ sz[p] \in 0 .. NPAGES BY Zenon, <1>1, <1>2 DEF SpaceOk, TableTypes
  <2> QED BY <2>1, NpagesAssumption
<1>8. Layout'
  <2>1. \A r \in Procs : \A i \in COW'[r] : i < sz[r]
    BY Zenon, <1>4, <1>5, <1>7 DEF CInv, Layout
  <2>2. \A r \in Procs : (Used(r)' <=> Used(r)) BY Zenon, <1>1 DEF Used
  <2> QED BY Zenon, <1>1, <2>1, <2>2 DEF CInv, Layout
<1>9. Injective' /\ OneOwner'
  <2>1. Injective' BY Zenon, <1>1 DEF CInv, Injective
  <2>2. OneOwner' BY Zenon, <1>1 DEF CInv, OneOwner, KernOf
  <2> QED BY Zenon, <2>1, <2>2
<1>10. Counted'
  <2>1. \A f : Mappers(f)' = Mappers(f) /\ (InKernel(f)' <=> InKernel(f))
    BY Zenon, <1>1 DEF Mappers, InKernel
  <2> QED BY Zenon, <1>1, <2>1, FrameKept DEF Counted
<1>11. SharedProtected' BY Zenon, <1>1, <1>4, <1>5, ProtectStep
<1> QED BY Zenon, <1>6, <1>8, <1>9, <1>10, <1>11 DEF CInv

\* freeproc.
LEMMA FreeProcInv ==
  ASSUME CInv, NEW p \in Procs, FreeProc(p)
  PROVE  CInv'
<1> DEFINE UF == UserFrames(p)
           KF == KernFrames(p)
<1>1. /\ ref' = Drop(ref, UF \cup KF) /\ freelist' = freelist \cup Freed(UF \cup KF)
      /\ mem' = [f \in Frames |-> IF f \in Freed(UF \cup KF) THEN Junk ELSE mem[f]]
      /\ tf' = [tf EXCEPT ![p] = NoFrame] /\ tables' = [tables EXCEPT ![p] = {}]
      /\ sz' = [sz EXCEPT ![p] = 0] /\ pa' = [pa EXCEPT ![p] = Unmapped]
      /\ W' = [W EXCEPT ![p] = {}] /\ U' = [U EXCEPT ![p] = {}] /\ COW' = [COW EXCEPT ![p] = {}]
      /\ text' = [text EXCEPT ![p] = {}] /\ guard' = [guard EXCEPT ![p] = {}]
      /\ killed' = killed \ {p} /\ UNCHANGED panicked
  BY Zenon DEF FreeProc, Kfree
<1>2. SpaceOk(p) /\ TableTypes /\ KernTypes /\ ref \in [Frames -> Nat] BY Zenon, SpaceNow
<1>3. /\ \A f \in Frames : f \in UF <=> p \in Mappers(f)
      /\ \A f \in Frames : f \in KF <=> KernOf(p, f)
      /\ UF \subseteq Frames /\ KF \subseteq Frames
  BY Zenon, MappedFrames
<1> HIDE DEF UF, KF
<1>4. \A r \in Procs : r # p =>
        /\ pa'[r] = pa[r] /\ tf'[r] = tf[r] /\ tables'[r] = tables[r] /\ sz'[r] = sz[r]
        /\ COW'[r] = COW[r] /\ W'[r] = W[r]
  BY Zenon, <1>1, <1>2 DEF TableTypes, KernTypes
<1>5. /\ tf'[p] = NoFrame /\ tables'[p] = {} /\ sz'[p] = 0 /\ COW'[p] = {}
      /\ \A i \in Pages : pa'[p][i] = NoFrame
  BY Zenon, <1>1, <1>2 DEF TableTypes, KernTypes, Unmapped
<1>6. Accounts(p, {}, {}, {}, UF, KF)
  <2>1. ASSUME NEW f \in Frames
        PROVE  /\ (\E i \in Pages : pa'[p][i] = f) <=> f \in {} \cup {} \/ (p \in Mappers(f) /\ f \notin UF)
               /\ KernOf(p, f)' <=> f \in {} \/ (KernOf(p, f) /\ f \notin KF)
    BY Zenon, <1>3, <1>5, NoFrameIsNone DEF KernOf
  <2>2. ASSUME NEW f \in Frames
        PROVE  /\ ref'[f] = IF f \in {} \cup {} \cup {} THEN ref[f] + 1
                            ELSE IF f \in UF \cup KF THEN ref[f] - 1 ELSE ref[f]
               /\ f \in freelist' <=> \/ f \in freelist /\ f \notin {} \cup {}
                                      \/ f \in UF \cup KF /\ ref[f] = 1
    BY Zenon, <1>1 DEF Drop, Freed
  <2> QED BY Zenon, <1>3, <1>4, <2>1, <2>2 DEF Accounts
<1>7. TableTypes'
  <2>1. 0 \in 0 .. NPAGES BY NpagesAssumption
  <2>2. sz' \in [Procs -> 0 .. NPAGES] BY Zenon, <1>1, <1>2, <2>1 DEF TableTypes
  <2>3. pa' \in [Procs -> [Pages -> Frames \cup {NoFrame}]]
    BY Zenon, <1>1, <1>2 DEF TableTypes, Unmapped
  <2>4. /\ W' \in [Procs -> SUBSET Pages] /\ U' \in [Procs -> SUBSET Pages]
        /\ COW' \in [Procs -> SUBSET Pages] /\ text' \in [Procs -> SUBSET Pages]
        /\ guard' \in [Procs -> SUBSET Pages]
    BY Zenon, <1>1, <1>2 DEF TableTypes
  <2> QED BY Zenon, <2>2, <2>3, <2>4 DEF TableTypes
<1>8. KernTypes'
  <2>1. freelist' \subseteq Frames BY Zenon, <1>1, <1>2, <1>3 DEF KernTypes, Freed
  <2>2. mem' \in [Frames -> Val \cup {Junk}] BY Zenon, <1>1, <1>2 DEF KernTypes
  <2> QED BY Zenon, <1>1, <1>2, <2>1, <2>2 DEF KernTypes
<1>9. ref' = [f \in Frames |-> ref'[f]] BY Zenon, <1>1 DEF Drop
<1>10. SpaceOk(p)'
  <2>1. \A i \in Pages : ~(i < 0) BY NpagesAssumption DEF Pages
  <2> QED BY Zenon, <1>5, <2>1 DEF SpaceOk, Used
<1>11. SharedProtected' BY Zenon, <1>4, <1>5, ProtectStep
<1>12. \A r \in Procs : r # p => sz'[r] = sz[r] /\ \A i \in COW'[r] : i < sz[r]
  BY Zenon, <1>4 DEF CInv, Layout
<1> QED BY Zenon, <1>6, <1>7, <1>8, <1>9, <1>10, <1>11, <1>12, SpaceStep

\* usertrap and copyout give page i of p a frame of its own.
LEMMA PrivateCopyInv ==
  ASSUME CInv, NEW p \in Procs, NEW i \in COW[p], NEW g \in Kalloc(1), NEW v \in Val \cup {Junk},
         PrivateCopy(p, i, g, v)
  PROVE  CInv'
<1> DEFINE old == pa[p][i]
<1>1. /\ pa' = [pa EXCEPT ![p] = [pa[p] EXCEPT ![i] = g]]
      /\ W' = [W EXCEPT ![p] = W[p] \cup {i}] /\ U' = [U EXCEPT ![p] = U[p] \cup {i}]
      /\ COW' = [COW EXCEPT ![p] = COW[p] \ {i}]
      /\ ref' = Drop(RefInc(ref, {g}), {old})
      /\ freelist' = (freelist \ {g}) \cup Freed({old})
      /\ mem' = [f \in Frames |-> IF f = g THEN v ELSE IF f \in Freed({old}) THEN Junk ELSE mem[f]]
      /\ UNCHANGED <<sz, text, guard, tf, tables, killed, panicked>>
  BY Zenon DEF PrivateCopy, Replaced, owned
<1>2. SpaceOk(p) /\ TableTypes /\ KernTypes /\ ref \in [Frames -> Nat] BY Zenon, SpaceNow
<1>3. i \in Pages /\ i < sz[p] /\ old # NoFrame /\ old \in Frames
  <2>1. i \in Pages /\ i < sz[p] BY Zenon, <1>2 DEF SpaceOk, TableTypes
  <2>2. old # NoFrame BY Zenon, <1>2, <2>1 DEF SpaceOk
  <2>3. pa[p] \in [Pages -> Frames \cup {NoFrame}] BY Zenon, <1>2 DEF TableTypes
  <2>4. old \in Frames \cup {NoFrame} BY Zenon, <2>1, <2>3
  <2> QED BY Zenon, <2>1, <2>2, <2>4
<1>4. g \in freelist /\ g \in Frames BY Zenon, KallocFree, CowTypes
<1>5. p \in Mappers(old) BY Zenon, <1>3 DEF Mappers
<1>6. g # old /\ p \notin Mappers(g) BY Zenon, <1>3, <1>4, <1>5, FreeFrame
<1>7. \A j \in Pages : pa[p][j] = old => j = i BY Zenon, <1>2, <1>3 DEF SpaceOk
<1>8. \A j \in Pages : pa'[p][j] = IF j = i THEN g ELSE pa[p][j]
  BY Zenon, <1>1, <1>2, <1>3 DEF TableTypes
<1> HIDE DEF old
<1>9. \A r \in Procs : r # p => pa'[r] = pa[r] /\ W'[r] = W[r] /\ COW'[r] = COW[r]
  BY Zenon, <1>1, <1>2 DEF TableTypes
<1>10. COW'[p] = COW[p] \ {i} BY Zenon, <1>1, <1>2 DEF TableTypes
<1>11. Accounts(p, {g}, {}, {}, {old}, {})
  <2>1. ASSUME NEW f \in Frames
        PROVE  /\ (\E j \in Pages : pa'[p][j] = f) <=> f \in {g} \cup {} \/ (p \in Mappers(f) /\ f \notin {old})
               /\ KernOf(p, f)' <=> f \in {} \/ (KernOf(p, f) /\ f \notin {})
    <3>1. p \in Mappers(f) <=> \E j \in Pages : pa[p][j] = f BY Zenon DEF Mappers
    <3>2. (\E j \in Pages : pa'[p][j] = f) <=> f = g \/ (p \in Mappers(f) /\ f # old)
      <4>1. CASE f = g BY Zenon, <1>3, <1>8, <4>1
      <4>2. CASE f # g /\ f = old
        <5>1. \A j \in Pages : pa'[p][j] # f BY Zenon, <1>7, <1>8, <4>2
        <5> QED BY Zenon, <4>2, <5>1
      <4>3. CASE f # g /\ f # old
        <5>1. \A j \in Pages : pa'[p][j] = f <=> pa[p][j] = f
          <6>1. \A j \in Pages : j = i => pa[p][j] # f BY Zenon, <4>3 DEF old
          <6> QED BY Zenon, <1>8, <4>3, <6>1
        <5> QED BY Zenon, <3>1, <4>3, <5>1
      <4> QED BY Zenon, <4>1, <4>2, <4>3
    <3>3. KernOf(p, f)' <=> KernOf(p, f) BY Zenon, <1>1 DEF KernOf
    <3> QED BY Zenon, <3>2, <3>3
  <2>2. ASSUME NEW f \in Frames
        PROVE  /\ ref'[f] = IF f \in {g} \cup {} \cup {} THEN ref[f] + 1
                            ELSE IF f \in {old} \cup {} THEN ref[f] - 1 ELSE ref[f]
               /\ f \in freelist' <=> \/ f \in freelist /\ f \notin {g} \cup {}
                                      \/ f \in {old} \cup {} /\ ref[f] = 1
    BY Zenon, <1>1, <1>6 DEF Drop, RefInc, Freed
  <2> QED BY Zenon, <1>1, <1>3, <1>4, <1>5, <1>9, <2>1, <2>2 DEF Accounts
<1>12. TableTypes'
  <2>1. [pa[p] EXCEPT ![i] = g] \in [Pages -> Frames \cup {NoFrame}]
    BY Zenon, <1>2, <1>4 DEF TableTypes
  <2>2. pa' \in [Procs -> [Pages -> Frames \cup {NoFrame}]]
    BY Zenon, <1>1, <1>2, <2>1 DEF TableTypes
  <2>3. W' \in [Procs -> SUBSET Pages] /\ U' \in [Procs -> SUBSET Pages] /\ COW' \in [Procs -> SUBSET Pages]
    BY Zenon, <1>1, <1>2, <1>3 DEF TableTypes
  <2> QED BY Zenon, <1>1, <1>2, <2>2, <2>3 DEF TableTypes
<1>13. KernTypes'
  <2>1. freelist' \subseteq Frames BY Zenon, <1>1, <1>2, <1>3 DEF KernTypes, Freed
  <2>2. mem' \in [Frames -> Val \cup {Junk}] BY Zenon, <1>1, <1>2 DEF KernTypes
  <2> QED BY Zenon, <1>1, <1>2, <2>1, <2>2 DEF KernTypes
<1>14. ref' = [f \in Frames |-> ref'[f]] BY Zenon, <1>1 DEF Drop
<1>15. SpaceOk(p)'
  <2>1. g # NoFrame BY Zenon, <1>4, NoFrameIsNone
  <2>2. \A j \in Pages : pa'[p][j] # NoFrame <=> j < sz'[p]
    BY Zenon, <1>1, <1>2, <1>3, <1>8, <2>1 DEF SpaceOk
  <2>3. \A j \in COW'[p] : j < sz'[p] BY Zenon, <1>1, <1>2, <1>10 DEF SpaceOk
  <2>4. \A j \in Pages : pa[p][j] # g BY Zenon, <1>6 DEF Mappers
  <2>5. \A j, k \in Pages : pa'[p][j] # NoFrame /\ pa'[p][j] = pa'[p][k] => j = k
    BY Zenon, <1>2, <1>8, <2>4 DEF SpaceOk
  <2>6. /\ tf'[p] \notin tables'[p] /\ (Used(p)' <=> Used(p))
        /\ Used(p) => sz'[p] >= 1
        /\ ~Used(p) => sz'[p] = 0 /\ tables'[p] = {}
    BY Zenon, <1>1, <1>2 DEF SpaceOk, Used
  <2> QED BY Zenon, <2>2, <2>3, <2>5, <2>6 DEF SpaceOk
<1>16. SharedProtected'
  <2>1. \A j \in Pages : j # i => (j \in W'[p] => j \in W[p]) /\ (j \in COW[p] => j \in COW'[p])
    BY Zenon, <1>1, <1>2 DEF TableTypes
  <2>2. \A j \in Pages :
           \/ pa'[p][j] = pa[p][j] /\ (j \in W'[p] => j \in W[p]) /\ (j \in COW[p] => j \in COW'[p])
           \/ pa'[p][j] \in freelist
    BY Zenon, <1>4, <1>8, <2>1
  <2> QED BY Zenon, <1>9, <2>2, ProtectStep
<1>17. \A r \in Procs : r # p => sz'[r] = sz[r] /\ \A j \in COW'[r] : j < sz[r]
  BY Zenon, <1>1, <1>9 DEF CInv, Layout
<1> QED BY Zenon, <1>11, <1>12, <1>13, <1>14, <1>15, <1>16, <1>17, SpaceStep

\* Frames dealt out to the pages S: each page has its own.
LEMMA DealtFrames ==
  ASSUME NEW S \in SUBSET Int, NEW F \in SUBSET Int, NEW a \in Dealt(S, F)
  PROVE  a \in [S -> F] /\ \A i, j \in S : a[i] = a[j] => i = j
<1>1. a \in [S -> F] /\ \A i, j \in S : i < j => a[i] < a[j] BY Zenon DEF Dealt
<1>2. SUFFICES ASSUME NEW i \in S, NEW j \in S, a[i] = a[j] PROVE i = j BY Zenon, <1>1
<1>3. a[i] \in Int /\ a[j] \in Int /\ i \in Int /\ j \in Int BY Zenon, <1>1
<1>4. (i < j => a[i] < a[j]) /\ (j < i => a[j] < a[i]) BY Zenon, <1>1
<1> DEFINE x == a[i]
           y == a[j]
<1>5. /\ x \in Int /\ y \in Int /\ i \in Int /\ j \in Int /\ x = y
      /\ (i < j => x < y) /\ (j < i => y < x)
  BY Zenon, <1>2, <1>3, <1>4
<1> HIDE DEF x, y
<1> QED BY <1>5

\* sbrk, growing.
LEMMA GrowInv ==
  ASSUME CInv, NEW p \in Procs, NEW n \in 1 .. NPAGES, Grow(p, n)
  PROVE  CInv'
<1> DEFINE New == sz[p] .. sz[p] + n - 1
<1>1. PICK a \in Dealt(New, Kalloc(n)) :
        /\ pa' = [pa EXCEPT ![p] = [i \in Pages |-> IF i \in New THEN a[i] ELSE pa[p][i]]]
        /\ W' = [W EXCEPT ![p] = W[p] \cup New]
        /\ U' = [U EXCEPT ![p] = U[p] \cup New]
        /\ ref' = RefInc(ref, {a[i] : i \in New})
        /\ freelist' = freelist \ {a[i] : i \in New}
        /\ mem' = [f \in Frames |-> IF f \in {a[i] : i \in New} THEN 0 ELSE mem[f]]
  BY Zenon DEF Grow
<1> DEFINE F == {a[i] : i \in New}
<1>2. /\ sz' = [sz EXCEPT ![p] = sz[p] + n] /\ sz[p] + n <= NPAGES /\ Used(p)
      /\ UNCHANGED <<COW, text, guard, tf, tables, killed, panicked>>
  BY Zenon DEF Grow, Live, owned
<1>3. SpaceOk(p) /\ TableTypes /\ KernTypes /\ ref \in [Frames -> Nat] BY Zenon, SpaceNow
<1>4. sz[p] \in 0 .. NPAGES BY Zenon, <1>3 DEF TableTypes
<1>5. /\ New \subseteq Pages /\ New \subseteq Int
      /\ \A i \in Pages : i \in New \/ i < sz[p] <=> i < sz[p] + n
      /\ \A i \in New : ~(i < sz[p])
      /\ sz[p] + n \in 0 .. NPAGES /\ sz[p] + n >= 1
      /\ \A i \in Pages : i < sz[p] => i < sz[p] + n
  <2> DEFINE s == sz[p]
  <2>1. s \in 0 .. NPAGES /\ s + n <= NPAGES BY Zenon, <1>2, <1>4
  <2> HIDE DEF s
  <2>2. /\ s .. s + n - 1 \subseteq Pages /\ s .. s + n - 1 \subseteq Int
        /\ \A i \in Pages : i \in s .. s + n - 1 \/ i < s <=> i < s + n
        /\ \A i \in s .. s + n - 1 : ~(i < s)
        /\ s + n \in 0 .. NPAGES /\ s + n >= 1
        /\ \A i \in Pages : i < s => i < s + n
    BY <2>1, NpagesAssumption DEF Pages
  <2> QED BY Zenon, <2>2 DEF s
<1>6. Kalloc(n) \subseteq freelist /\ Kalloc(n) \subseteq Frames /\ Kalloc(n) \subseteq Int
  <2>1. Frames \subseteq Int BY NframesAssumption DEF Frames
  <2> QED BY Zenon, <2>1, KallocFree, CowTypes
<1> HIDE DEF New
<1>7. a \in [New -> Kalloc(n)] /\ \A i, j \in New : a[i] = a[j] => i = j
  BY Zenon, <1>5, <1>6, DealtFrames
<1>8. F \subseteq freelist /\ F \subseteq Frames /\ \A i \in New : a[i] \in F
  BY Zenon, <1>6, <1>7
<1>9. \A j \in Pages : pa'[p][j] = IF j \in New THEN a[j] ELSE pa[p][j]
  BY Zenon, <1>1, <1>3 DEF TableTypes
<1>10. \A f \in Frames : f \in F <=> \E i \in New : a[i] = f BY Zenon
<1> HIDE DEF F
<1>11. /\ ref' = RefInc(ref, F) /\ freelist' = freelist \ F
       /\ mem' = [f \in Frames |-> IF f \in F THEN 0 ELSE mem[f]]
  BY Zenon, <1>1 DEF F
<1>12. \A r \in Procs : r # p => pa'[r] = pa[r] /\ W'[r] = W[r] /\ COW'[r] = COW[r] /\ sz'[r] = sz[r]
  BY Zenon, <1>1, <1>2, <1>3 DEF TableTypes
<1>13. sz'[p] = sz[p] + n /\ W'[p] = W[p] \cup New BY Zenon, <1>1, <1>2, <1>3 DEF TableTypes
<1>14. \A j \in Pages : j \in New => pa[p][j] = NoFrame BY Zenon, <1>3, <1>5 DEF SpaceOk
<1>15. Accounts(p, F, {}, {}, {}, {})
  <2>1. ASSUME NEW f \in Frames
        PROVE  /\ (\E j \in Pages : pa'[p][j] = f) <=> f \in F \cup {} \/ (p \in Mappers(f) /\ f \notin {})
               /\ KernOf(p, f)' <=> f \in {} \/ (KernOf(p, f) /\ f \notin {})
    <3>1. p \in Mappers(f) <=> \E j \in Pages : pa[p][j] = f BY Zenon DEF Mappers
    <3>2. (\E j \in Pages : pa'[p][j] = f) => f \in F \/ \E j \in Pages : pa[p][j] = f
      BY Zenon, <1>8, <1>9
    <3>3. f \in F => \E j \in Pages : pa'[p][j] = f BY Zenon, <1>5, <1>9, <1>10
    <3>4. (\E j \in Pages : pa[p][j] = f) => \E j \in Pages : pa'[p][j] = f
      BY Zenon, <1>9, <1>14, NoFrameIsNone
    <3>5. KernOf(p, f)' <=> KernOf(p, f) BY Zenon, <1>2 DEF KernOf
    <3> QED BY Zenon, <3>1, <3>2, <3>3, <3>4, <3>5
  <2>2. ASSUME NEW f \in Frames
        PROVE  /\ ref'[f] = IF f \in F \cup {} \cup {} THEN ref[f] + 1
                            ELSE IF f \in {} \cup {} THEN ref[f] - 1 ELSE ref[f]
               /\ f \in freelist' <=> \/ f \in freelist /\ f \notin F \cup {}
                                      \/ f \in {} \cup {} /\ ref[f] = 1
    BY Zenon, <1>11 DEF RefInc
  <2> QED BY Zenon, <1>2, <1>8, <1>12, <2>1, <2>2 DEF Accounts
<1>16. TableTypes'
  <2>1. [i \in Pages |-> IF i \in New THEN a[i] ELSE pa[p][i]] \in [Pages -> Frames \cup {NoFrame}]
    <3>1. pa[p] \in [Pages -> Frames \cup {NoFrame}] BY Zenon, <1>3 DEF TableTypes
    <3> QED BY Zenon, <1>6, <1>7, <3>1
  <2>2. pa' \in [Procs -> [Pages -> Frames \cup {NoFrame}]]
    BY Zenon, <1>1, <1>3, <2>1 DEF TableTypes
  <2>3. W' \in [Procs -> SUBSET Pages] /\ U' \in [Procs -> SUBSET Pages]
    BY Zenon, <1>1, <1>3, <1>5 DEF TableTypes
  <2>4. sz' \in [Procs -> 0 .. NPAGES] BY Zenon, <1>2, <1>3, <1>5 DEF TableTypes
  <2> QED BY Zenon, <1>2, <1>3, <2>2, <2>3, <2>4 DEF TableTypes
<1>17. KernTypes'
  <2>1. mem' \in [Frames -> Val \cup {Junk}] BY Zenon, <1>3, <1>11, ValAssumption DEF KernTypes
  <2> QED BY Zenon, <1>2, <1>3, <1>11, <2>1 DEF KernTypes
<1>18. ref' = [f \in Frames |-> ref'[f]] BY Zenon, <1>11 DEF RefInc
<1>19. SpaceOk(p)'
  <2>1. \A i \in New : a[i] # NoFrame /\ a[i] \in Frames BY Zenon, <1>8, NoFrameIsNone
  <2>2. \A j \in Pages : pa'[p][j] # NoFrame <=> j < sz'[p]
    <3>1. \A j \in Pages : pa[p][j] # NoFrame <=> j < sz[p] BY Zenon, <1>3 DEF SpaceOk
    <3> QED BY Zenon, <1>5, <1>9, <1>13, <2>1, <3>1
  <2>3. \A j \in COW'[p] : j < sz'[p]
    <3>1. \A j \in COW[p] : j \in Pages /\ j < sz[p] BY Zenon, <1>3 DEF SpaceOk, TableTypes
    <3> QED BY Zenon, <1>2, <1>5, <1>13, <3>1
  <2>4. \A i \in New : \A j \in Pages : pa[p][j] # a[i]
    <3>1. SUFFICES ASSUME NEW i \in New, NEW j \in Pages, pa[p][j] = a[i] PROVE FALSE BY Zenon
    <3>2. a[i] \in freelist /\ a[i] \in Frames BY Zenon, <1>8
    <3>3. p \in Mappers(a[i]) BY Zenon, <3>1 DEF Mappers
    <3> QED BY Zenon, <3>2, <3>3, FreeFrame
  <2>5. \A j, k \in Pages : pa'[p][j] # NoFrame /\ pa'[p][j] = pa'[p][k] => j = k
    <3>1. SUFFICES ASSUME NEW j \in Pages, NEW k \in Pages, pa'[p][j] # NoFrame, pa'[p][j] = pa'[p][k]
                   PROVE  j = k
      BY Zenon
    <3>2. CASE j \in New /\ k \in New BY Zenon, <1>7, <1>9, <3>1, <3>2
    <3>3. CASE j \in New /\ k \notin New BY Zenon, <1>9, <2>4, <3>1, <3>3
    <3>4. CASE j \notin New /\ k \in New BY Zenon, <1>9, <2>4, <3>1, <3>4
    <3>5. CASE j \notin New /\ k \notin New
      <4>1. pa[p][j] # NoFrame /\ pa[p][j] = pa[p][k] BY Zenon, <1>9, <3>1, <3>5
      <4> QED BY Zenon, <1>3, <4>1 DEF SpaceOk
    <3> QED BY Zenon, <3>2, <3>3, <3>4, <3>5
  <2>6. tf'[p] \notin tables'[p] /\ Used(p)' /\ sz'[p] >= 1
    BY Zenon, <1>2, <1>3, <1>5, <1>13 DEF SpaceOk, Used
  <2> QED BY Zenon, <2>2, <2>3, <2>5, <2>6 DEF SpaceOk
<1>20. SharedProtected'
  <2>1. \A j \in Pages :
           \/ pa'[p][j] = pa[p][j] /\ (j \in W'[p] => j \in W[p]) /\ (j \in COW[p] => j \in COW'[p])
           \/ pa'[p][j] \in freelist
    BY Zenon, <1>2, <1>8, <1>9, <1>13
  <2> QED BY Zenon, <1>12, <2>1, ProtectStep
<1>21. \A r \in Procs : r # p => sz'[r] = sz[r] /\ \A j \in COW'[r] : j < sz[r]
  BY Zenon, <1>2, <1>12 DEF CInv, Layout
<1> QED BY Zenon, <1>15, <1>16, <1>17, <1>18, <1>19, <1>20, <1>21, SpaceStep

\* sbrk, shrinking.
LEMMA ShrinkInv ==
  ASSUME CInv, NEW p \in Procs, NEW n \in 1 .. NPAGES, Shrink(p, n)
  PROVE  CInv'
<1> DEFINE Gone == sz[p] - n .. sz[p] - 1
           F == {pa[p][i] : i \in Gone}
<1>1. /\ sz[p] - n >= 1 /\ sz' = [sz EXCEPT ![p] = sz[p] - n] /\ Used(p)
      /\ ref' = Drop(ref, F) /\ freelist' = freelist \cup Freed(F)
      /\ mem' = [f \in Frames |-> IF f \in Freed(F) THEN Junk ELSE mem[f]]
      /\ pa' = [pa EXCEPT ![p] = [i \in Pages |-> IF i \in Gone THEN NoFrame ELSE pa[p][i]]]
      /\ W' = [W EXCEPT ![p] = W[p] \ Gone] /\ U' = [U EXCEPT ![p] = U[p] \ Gone]
      /\ COW' = [COW EXCEPT ![p] = COW[p] \ Gone] /\ text' = [text EXCEPT ![p] = text[p] \ Gone]
      /\ guard' = [guard EXCEPT ![p] = guard[p] \ Gone]
      /\ UNCHANGED <<tf, tables, killed, panicked>>
  BY Zenon DEF Shrink, Kfree, Live, owned
<1>2. SpaceOk(p) /\ TableTypes /\ KernTypes /\ ref \in [Frames -> Nat] BY Zenon, SpaceNow
<1>3. sz[p] \in 0 .. NPAGES BY Zenon, <1>2 DEF TableTypes
<1>4. /\ Gone \subseteq Pages /\ \A i \in Gone : i < sz[p]
      /\ \A i \in Pages : i < sz[p] /\ i \notin Gone <=> i < sz[p] - n
      /\ sz[p] - n \in 0 .. NPAGES
  <2> DEFINE s == sz[p]
  <2>1. s \in 0 .. NPAGES /\ s - n >= 1 BY Zenon, <1>1, <1>3
  <2> HIDE DEF s
  <2>2. /\ s - n .. s - 1 \subseteq Pages /\ \A i \in s - n .. s - 1 : i < s
        /\ \A i \in Pages : i < s /\ i \notin s - n .. s - 1 <=> i < s - n
        /\ s - n \in 0 .. NPAGES
    BY <2>1, NpagesAssumption DEF Pages
  <2> QED BY Zenon, <2>2 DEF s
<1> HIDE DEF Gone
<1>5. pa[p] \in [Pages -> Frames \cup {NoFrame}] BY Zenon, <1>2 DEF TableTypes
<1>6. \A i \in Gone : i \in Pages /\ pa[p][i] # NoFrame /\ pa[p][i] \in Frames
  BY Zenon, <1>2, <1>4, <1>5 DEF SpaceOk
<1>7. F \subseteq Frames /\ \A f \in F : \E i \in Gone : pa[p][i] = f BY Zenon, <1>6
<1>8. \A i \in Gone : pa[p][i] \in F BY Zenon
<1> HIDE DEF F
<1>9. \A j \in Pages : pa'[p][j] = IF j \in Gone THEN NoFrame ELSE pa[p][j]
  BY Zenon, <1>1, <1>2 DEF TableTypes
<1>10. \A r \in Procs : r # p => pa'[r] = pa[r] /\ W'[r] = W[r] /\ COW'[r] = COW[r] /\ sz'[r] = sz[r]
  BY Zenon, <1>1, <1>2 DEF TableTypes
<1>11. sz'[p] = sz[p] - n /\ W'[p] = W[p] \ Gone /\ COW'[p] = COW[p] \ Gone
  BY Zenon, <1>1, <1>2 DEF TableTypes
<1>12. \A i, j \in Pages : pa[p][i] # NoFrame /\ pa[p][i] = pa[p][j] => i = j
  BY Zenon, <1>2 DEF SpaceOk
<1>13. Accounts(p, {}, {}, {}, F, {})
  <2>1. ASSUME NEW f \in Frames
        PROVE  /\ (\E j \in Pages : pa'[p][j] = f) <=> f \in {} \cup {} \/ (p \in Mappers(f) /\ f \notin F)
               /\ KernOf(p, f)' <=> f \in {} \/ (KernOf(p, f) /\ f \notin {})
    <3>1. p \in Mappers(f) <=> \E j \in Pages : pa[p][j] = f BY Zenon DEF Mappers
    <3>2. ASSUME NEW j \in Pages, pa'[p][j] = f PROVE pa[p][j] = f /\ f \notin F
      <4>1. j \notin Gone /\ pa[p][j] = f BY Zenon, <1>9, <3>2, NoFrameIsNone
      <4>2. f # NoFrame BY Zenon, NoFrameIsNone
      <4>3. f \in F => j \in Gone BY Zenon, <1>6, <1>7, <1>12, <4>1, <4>2
      <4> QED BY Zenon, <4>1, <4>3
    <3>3. ASSUME NEW j \in Pages, pa[p][j] = f, f \notin F PROVE pa'[p][j] = f
      BY Zenon, <1>8, <1>9, <3>3
    <3>4. KernOf(p, f)' <=> KernOf(p, f) BY Zenon, <1>1 DEF KernOf
    <3> QED BY Zenon, <3>1, <3>2, <3>3, <3>4
  <2>2. ASSUME NEW f \in Frames
        PROVE  /\ ref'[f] = IF f \in {} \cup {} \cup {} THEN ref[f] + 1
                            ELSE IF f \in F \cup {} THEN ref[f] - 1 ELSE ref[f]
               /\ f \in freelist' <=> \/ f \in freelist /\ f \notin {} \cup {}
                                      \/ f \in F \cup {} /\ ref[f] = 1
    BY Zenon, <1>1 DEF Drop, Freed
  <2>3. \A f \in F : f \in Frames /\ p \in Mappers(f) BY Zenon, <1>6, <1>7 DEF Mappers
  <2> QED BY Zenon, <1>1, <1>10, <2>1, <2>2, <2>3 DEF Accounts
<1>14. TableTypes'
  <2>1. [i \in Pages |-> IF i \in Gone THEN NoFrame ELSE pa[p][i]] \in [Pages -> Frames \cup {NoFrame}]
    BY Zenon, <1>5
  <2>2. pa' \in [Procs -> [Pages -> Frames \cup {NoFrame}]]
    BY Zenon, <1>1, <1>2, <2>1 DEF TableTypes
  <2>3. /\ W' \in [Procs -> SUBSET Pages] /\ U' \in [Procs -> SUBSET Pages]
        /\ COW' \in [Procs -> SUBSET Pages]
    BY Zenon, <1>1, <1>2 DEF TableTypes
  <2>4. text' \in [Procs -> SUBSET Pages] /\ guard' \in [Procs -> SUBSET Pages]
    BY Zenon, <1>1, <1>2 DEF TableTypes
  <2>5. sz' \in [Procs -> 0 .. NPAGES] BY Zenon, <1>1, <1>2, <1>4 DEF TableTypes
  <2> QED BY Zenon, <2>2, <2>3, <2>4, <2>5 DEF TableTypes
<1>15. KernTypes'
  <2>1. freelist' \subseteq Frames BY Zenon, <1>1, <1>2, <1>7 DEF KernTypes, Freed
  <2>2. mem' \in [Frames -> Val \cup {Junk}] BY Zenon, <1>1, <1>2 DEF KernTypes
  <2> QED BY Zenon, <1>1, <1>2, <2>1, <2>2 DEF KernTypes
<1>16. ref' = [f \in Frames |-> ref'[f]] BY Zenon, <1>1 DEF Drop
<1>17. SpaceOk(p)'
  <2>1. \A j \in Pages : pa'[p][j] # NoFrame <=> j < sz'[p]
    <3>1. \A j \in Pages : pa[p][j] # NoFrame <=> j < sz[p] BY Zenon, <1>2 DEF SpaceOk
    <3> QED BY Zenon, <1>4, <1>9, <1>11, <3>1
  <2>2. \A j \in COW'[p] : j < sz'[p]
    <3>1. \A j \in COW[p] : j \in Pages /\ j < sz[p] BY Zenon, <1>2 DEF SpaceOk, TableTypes
    <3> QED BY Zenon, <1>4, <1>11, <3>1
  <2>3. \A j, k \in Pages : pa'[p][j] # NoFrame /\ pa'[p][j] = pa'[p][k] => j = k
    <3>1. SUFFICES ASSUME NEW j \in Pages, NEW k \in Pages, pa'[p][j] # NoFrame, pa'[p][j] = pa'[p][k]
                   PROVE  j = k
      BY Zenon
    <3>2. pa'[p][j] = pa[p][j] /\ pa'[p][k] = pa[p][k] BY Zenon, <1>9, <3>1
    <3> QED BY Zenon, <1>12, <3>1, <3>2
  <2>4. tf'[p] \notin tables'[p] /\ Used(p)' /\ sz'[p] >= 1
    BY Zenon, <1>1, <1>2, <1>11 DEF SpaceOk, Used
  <2> QED BY Zenon, <2>1, <2>2, <2>3, <2>4 DEF SpaceOk
<1>18. SharedProtected'
  <2>1. \A j \in Pages : pa'[p][j] # NoFrame =>
           pa'[p][j] = pa[p][j] /\ (j \in W'[p] => j \in W[p]) /\ (j \in COW[p] => j \in COW'[p])
    BY Zenon, <1>9, <1>11
  <2> QED BY Zenon, <1>10, <2>1, ProtectStep
<1>19. \A r \in Procs : r # p => sz'[r] = sz[r] /\ \A j \in COW'[r] : j < sz[r]
  BY Zenon, <1>10 DEF CInv, Layout
<1> QED BY Zenon, <1>13, <1>14, <1>15, <1>16, <1>17, <1>18, <1>19, SpaceStep

\* exec.
LEMMA ExecInv ==
  ASSUME CInv, NEW p \in Procs, NEW v \in Val, Exec(p, v)
  PROVE  CInv'
<1> DEFINE New == 0 .. ExecSize - 1
           UF == UserFrames(p)
           Old == UF \cup tables[p]
<1>1. PICK a \in Dealt(New, Kalloc(ExecSize)) :
        /\ pa' = [pa EXCEPT ![p] = [i \in Pages |-> IF i < ExecSize THEN a[i] ELSE NoFrame]]
        /\ tables' = [tables EXCEPT ![p] = Kernel(2) \ {a[i] : i \in New}]
        /\ ref' = Drop(RefInc(ref, {a[i] : i \in New} \cup (Kernel(2) \ {a[i] : i \in New})), Old)
        /\ freelist' = (freelist \ ({a[i] : i \in New} \cup (Kernel(2) \ {a[i] : i \in New}))) \cup Freed(Old)
        /\ mem' = [f \in Frames |->
                     IF f \in {a[i] : i \in New}
                     THEN IF \E i \in 0 .. TextPages - 1 : a[i] = f THEN v ELSE 0
                     ELSE IF f \in Freed(Old) THEN Junk ELSE mem[f]]
  BY Zenon DEF Exec
<1> DEFINE F == {a[i] : i \in New}
           T == Kernel(2) \ F
<1>2. /\ sz' = [sz EXCEPT ![p] = ExecSize] /\ W' = [W EXCEPT ![p] = TextPages .. ExecSize - 1]
      /\ U' = [U EXCEPT ![p] = (0 .. ExecSize - 1) \ {TextPages}] /\ COW' = [COW EXCEPT ![p] = {}]
      /\ text' = [text EXCEPT ![p] = 0 .. TextPages - 1] /\ guard' = [guard EXCEPT ![p] = {TextPages}]
      /\ UNCHANGED <<tf, killed, panicked>> /\ Used(p) /\ ExecSize <= NPAGES
  BY Zenon DEF Exec, Live
<1>3. SpaceOk(p) /\ TableTypes /\ KernTypes /\ ref \in [Frames -> Nat] BY Zenon, SpaceNow
<1>4. /\ New \subseteq Pages /\ New \subseteq Int /\ \A i \in Pages : i \in New <=> i < ExecSize
      /\ TextPages .. ExecSize - 1 \subseteq Pages /\ 0 .. TextPages - 1 \subseteq Pages
      /\ TextPages \in Pages /\ ExecSize \in 0 .. NPAGES /\ ExecSize >= 1
  BY <1>2, NpagesAssumption DEF ExecSize, Pages
<1>5. /\ Kalloc(ExecSize) \subseteq freelist /\ Kalloc(ExecSize) \subseteq Frames
      /\ Kalloc(ExecSize) \subseteq Int
  <2>1. Frames \subseteq Int BY NframesAssumption DEF Frames
  <2> QED BY Zenon, <2>1, KallocFree, CowTypes
<1>6. /\ \A f \in Frames : f \in UF <=> p \in Mappers(f)
      /\ UF \subseteq Frames /\ tables[p] \subseteq Frames
  BY Zenon, MappedFrames, CowTypes
<1> HIDE DEF New, UF
<1>7. a \in [New -> Kalloc(ExecSize)] /\ \A i, j \in New : a[i] = a[j] => i = j
  <2>1. New \in SUBSET Int /\ Kalloc(ExecSize) \in SUBSET Int BY Zenon, <1>4, <1>5
  <2> QED BY <2>1, DealtFrames
<1>8. F \subseteq freelist /\ F \subseteq Frames /\ \A i \in New : a[i] \in F
  BY Zenon, <1>5, <1>7
<1>9. \A f \in Frames : f \in F <=> \E i \in New : a[i] = f BY Zenon
<1>10. T \subseteq freelist /\ T \subseteq Frames /\ F \cap T = {}
  BY Zenon, KallocFree, CowTypes
<1> HIDE DEF F
<1>11. /\ tables' = [tables EXCEPT ![p] = T] /\ ref' = Drop(RefInc(ref, F \cup T), Old)
       /\ freelist' = (freelist \ (F \cup T)) \cup Freed(Old)
       /\ mem' = [f \in Frames |-> IF f \in F THEN IF \E i \in 0 .. TextPages - 1 : a[i] = f THEN v ELSE 0
                                   ELSE IF f \in Freed(Old) THEN Junk ELSE mem[f]]
  BY Zenon, <1>1 DEF F
<1> HIDE DEF T
<1>12. \A j \in Pages : pa'[p][j] = IF j \in New THEN a[j] ELSE NoFrame
  <2>1. \A j \in Pages : pa'[p][j] = IF j < ExecSize THEN a[j] ELSE NoFrame
    BY Zenon, <1>1, <1>3 DEF TableTypes
  <2> QED BY Zenon, <1>4, <2>1
<1>13. \A r \in Procs : r # p =>
         /\ pa'[r] = pa[r] /\ W'[r] = W[r] /\ COW'[r] = COW[r] /\ sz'[r] = sz[r]
         /\ tf'[r] = tf[r] /\ tables'[r] = tables[r]
  BY Zenon, <1>1, <1>2, <1>3 DEF TableTypes, KernTypes
<1>14. sz'[p] = ExecSize /\ COW'[p] = {} /\ tables'[p] = T /\ tf'[p] = tf[p]
  BY Zenon, <1>2, <1>3, <1>11 DEF TableTypes, KernTypes
<1>15. tf[p] \in Frames /\ tf[p] \notin tables[p]
  <2>1. tf[p] \in Frames \cup {NoFrame} /\ tf[p] # NoFrame /\ tf[p] \notin tables[p]
    BY Zenon, <1>2, <1>3 DEF KernTypes, SpaceOk, Used
  <2> QED BY Zenon, <2>1
<1>16. ASSUME NEW f \in Frames, f \in F \/ f \in T PROVE f \notin Old /\ f # tf[p] /\ p \notin Mappers(f)
  <2>1. f \in freelist BY Zenon, <1>8, <1>10, <1>16
  <2>2. ~InKernel(f) /\ Mappers(f) = {} BY Zenon, <2>1, FreeFrame
  <2> QED BY Zenon, <1>6, <2>2 DEF InKernel
<1>17. Accounts(p, F, T, {}, UF, tables[p])
  <2>1. ASSUME NEW f \in Frames
        PROVE  /\ (\E j \in Pages : pa'[p][j] = f) <=> f \in F \cup {} \/ (p \in Mappers(f) /\ f \notin UF)
               /\ KernOf(p, f)' <=> f \in T \/ (KernOf(p, f) /\ f \notin tables[p])
    <3>1. (\E j \in Pages : pa'[p][j] = f) => f \in F BY Zenon, <1>8, <1>12, NoFrameIsNone
    <3>2. f \in F => \E j \in Pages : pa'[p][j] = f BY Zenon, <1>4, <1>9, <1>12
    <3>3. KernOf(p, f)' <=> f \in T \/ f = tf[p] BY Zenon, <1>14 DEF KernOf
    <3>4. KernOf(p, f) /\ f \notin tables[p] <=> f = tf[p] BY Zenon, <1>15 DEF KernOf
    <3> QED BY Zenon, <1>6, <3>1, <3>2, <3>3, <3>4
  <2>2. ASSUME NEW f \in Frames
        PROVE  /\ ref'[f] = IF f \in F \cup T \cup {} THEN ref[f] + 1
                            ELSE IF f \in UF \cup tables[p] THEN ref[f] - 1 ELSE ref[f]
               /\ f \in freelist' <=> \/ f \in freelist /\ f \notin F \cup T
                                      \/ f \in UF \cup tables[p] /\ ref[f] = 1
    <3>1. ref'[f] = IF f \in Old THEN RefInc(ref, F \cup T)[f] - 1 ELSE RefInc(ref, F \cup T)[f]
      BY Zenon, <1>11 DEF Drop
    <3>2. RefInc(ref, F \cup T)[f] = IF f \in F \cup T THEN ref[f] + 1 ELSE ref[f]
      BY Zenon DEF RefInc
    <3>3. CASE f \in F \/ f \in T
      <4>1. f \notin Old BY Zenon, <1>16, <3>3
      <4> QED BY Zenon, <1>11, <3>1, <3>2, <3>3, <4>1 DEF Freed
    <3>4. CASE f \notin F /\ f \notin T
      <4>1. RefInc(ref, F \cup T)[f] = ref[f] BY Zenon, <3>2, <3>4
      <4>2. ref'[f] = IF f \in Old THEN ref[f] - 1 ELSE ref[f] BY Zenon, <3>1, <4>1
      <4> QED BY Zenon, <1>11, <3>4, <4>2 DEF Freed
    <3> QED BY Zenon, <3>3, <3>4
  <2>3. \A f \in tables[p] : f \in Frames /\ KernOf(p, f) BY Zenon, <1>6 DEF KernOf
  <2> QED BY Zenon, <1>6, <1>8, <1>10, <1>13, <2>1, <2>2, <2>3 DEF Accounts
<1>18. TableTypes'
  <2>1. [i \in Pages |-> IF i < ExecSize THEN a[i] ELSE NoFrame] \in [Pages -> Frames \cup {NoFrame}]
    BY Zenon, <1>4, <1>5, <1>7
  <2>2. pa' \in [Procs -> [Pages -> Frames \cup {NoFrame}]]
    BY Zenon, <1>1, <1>3, <2>1 DEF TableTypes
  <2>3. (0 .. ExecSize - 1) \ {TextPages} \subseteq Pages BY Zenon, <1>4 DEF New
  <2>4. W' \in [Procs -> SUBSET Pages] /\ U' \in [Procs -> SUBSET Pages] /\ COW' \in [Procs -> SUBSET Pages]
    BY Zenon, <1>2, <1>3, <1>4, <2>3 DEF TableTypes
  <2>5. text' \in [Procs -> SUBSET Pages] /\ guard' \in [Procs -> SUBSET Pages]
    BY Zenon, <1>2, <1>3, <1>4 DEF TableTypes
  <2>6. sz' \in [Procs -> 0 .. NPAGES] BY Zenon, <1>2, <1>3, <1>4 DEF TableTypes
  <2> QED BY Zenon, <2>2, <2>4, <2>5, <2>6 DEF TableTypes
<1>19. KernTypes'
  <2>1. freelist' \subseteq Frames BY Zenon, <1>3, <1>6, <1>11 DEF KernTypes, Freed
  <2>2. mem' \in [Frames -> Val \cup {Junk}] BY Zenon, <1>3, <1>11, ValAssumption DEF KernTypes
  <2>3. tables' \in [Procs -> SUBSET Frames] BY Zenon, <1>3, <1>10, <1>11 DEF KernTypes
  <2> QED BY Zenon, <1>2, <1>3, <2>1, <2>2, <2>3 DEF KernTypes
<1>20. ref' = [f \in Frames |-> ref'[f]] BY Zenon, <1>11 DEF Drop
<1>21. SpaceOk(p)'
  <2>1. \A i \in New : a[i] # NoFrame /\ a[i] \in Frames BY Zenon, <1>8, NoFrameIsNone
  <2>2. \A j \in Pages : pa'[p][j] # NoFrame <=> j < sz'[p] BY Zenon, <1>4, <1>12, <1>14, <2>1
  <2>3. \A j, k \in Pages : pa'[p][j] # NoFrame /\ pa'[p][j] = pa'[p][k] => j = k
    BY Zenon, <1>7, <1>12
  <2>4. tf'[p] \notin tables'[p] /\ Used(p)' /\ sz'[p] >= 1
    BY Zenon, <1>2, <1>4, <1>14, <1>15, <1>16 DEF Used
  <2> QED BY Zenon, <1>14, <2>2, <2>3, <2>4 DEF SpaceOk
<1>22. SharedProtected'
  <2>1. \A j \in Pages : pa'[p][j] # NoFrame => pa'[p][j] \in freelist BY Zenon, <1>8, <1>12
  <2> QED BY Zenon, <1>13, <2>1, ProtectStep
<1>23. \A r \in Procs : r # p => sz'[r] = sz[r] /\ \A j \in COW'[r] : j < sz[r]
  BY Zenon, <1>13 DEF CInv, Layout
<1> QED BY Zenon, <1>17, <1>18, <1>19, <1>20, <1>21, <1>22, <1>23, SpaceStep

\* Every step keeps the invariant.
LEMMA CowStepInv == CInv /\ [Next]_vars => CInv'
<1> SUFFICES ASSUME CInv, [Next]_vars PROVE CInv' OBVIOUS
<1>1. ASSUME NEW p \in Procs, NEW q \in Procs, Fork(p, q) PROVE CInv' BY Zenon, <1>1, ForkInv
<1>2. 0 \in Pages /\ 0 \in Val BY NpagesAssumption, ValAssumption DEF Pages
<1>3. ASSUME NEW p \in Procs, ForkFail(p) \/ FreeProc(p) \/ StoreFar(p) PROVE CInv'
  BY Zenon, <1>2, <1>3, ForkFailInv, FreeProcInv, QuietInv
<1>4. ASSUME NEW p \in Procs, NEW i \in Pages, NEW v \in Val, Store(p, i, v) \/ CopyOut(p, i, v)
      PROVE  CInv'
  BY Zenon, <1>4, QuietInv
<1>5. ASSUME NEW p \in Procs, NEW i \in Pages, NEW v \in Val, CopyOutCow(p, i, v) PROVE CInv'
  <2>1. i \in COW[p] /\ v \in Val \cup {Junk} BY Zenon, <1>5 DEF CopyOutCow
  <2>2. PICK g \in Kalloc(1) : PrivateCopy(p, i, g, v) BY Zenon, <1>5 DEF CopyOutCow
  <2> QED BY Zenon, <2>1, <2>2, PrivateCopyInv
<1>6. ASSUME NEW p \in Procs, NEW i \in Pages,
             StoreFault(p, i) \/ CowFaultNoMemory(p, i) \/ CopyOutNull(p, i)
      PROVE  CInv'
  BY Zenon, <1>2, <1>6, QuietInv
<1>7. ASSUME NEW p \in Procs, NEW i \in Pages, CowFault(p, i) PROVE CInv'
  <2>1. i \in COW[p] BY Zenon, <1>7 DEF CowFault
  <2>2. PICK g \in Kalloc(1) : PrivateCopy(p, i, g, mem[pa[p][i]])
    BY Zenon, <1>7 DEF CowFault, Copied
  <2>3. mem[pa[p][i]] \in Val \cup {Junk}
    <3>1. i < sz[p] BY Zenon, <2>1 DEF CInv, Layout
    <3>2. i \in Mapped(p) BY Zenon, <3>1 DEF CInv, Layout, Mapped
    <3> QED BY Zenon, <3>2, MappedFrames, CowTypes
  <2> QED BY Zenon, <2>1, <2>2, <2>3, PrivateCopyInv
<1>8. ASSUME NEW p \in Procs, NEW n \in 1 .. NPAGES, Grow(p, n) \/ Shrink(p, n) PROVE CInv'
  BY Zenon, <1>8, GrowInv, ShrinkInv
<1>9. ASSUME NEW p \in Procs, NEW v \in Val, Exec(p, v) PROVE CInv' BY Zenon, <1>9, ExecInv
<1>10. CASE UNCHANGED vars
  <2>1. UNCHANGED <<space, owned, kmem>> /\ UNCHANGED <<mem, killed, panicked>>
    BY Zenon, <1>10 DEF vars
  <2> QED BY Zenon, <2>1, CowTypes, SameSpace
<1>11. CASE Next BY Zenon, <1>1, <1>3, <1>4, <1>5, <1>6, <1>7, <1>8, <1>9, <1>11 DEF Next
<1> QED BY Zenon, <1>10, <1>11

\* The invariant holds throughout.
LEMMA CowInvariant == Spec => []CInv
  BY CowStart, CowStepInv, PTL DEF Spec

\* refCount is exact and shared frames are protected in every reachable state: no
\* sequence of fork, exec, sbrk, exit, store faults and copyout loses a page, frees
\* one in use, or lets a store through to a frame another process maps.
THEOREM CountsExact == Spec => []FramesExact
<1>1. CInv => FramesExact
  <2>1. SUFFICES ASSUME CInv PROVE TypeOK /\ RefExact /\ SharedProtected
    BY Zenon DEF FramesExact
  <2>2. ASSUME NEW p \in Procs, NEW q \in Procs, p # q PROVE KernFrames(p) \cap KernFrames(q) = {}
    <3>1. \A f \in KernFrames(p) \cap KernFrames(q) : f \in Frames /\ KernOf(p, f) /\ KernOf(q, f)
      BY Zenon, <2>1, MappedFrames
    <3> QED BY Zenon, <2>1, <2>2, <3>1 DEF CInv, OneOwner
  <2>3. RefExact BY Zenon, <2>1, <2>2 DEF RefExact, CInv, Counted, FrameOk
  <2> QED BY Zenon, <2>1, <2>3 DEF CInv
<1> QED BY <1>1, CowInvariant, PTL

-----------------------------------------------------------------------------
(* Private memory: what a process sees.                                      *)

\* The pages of a process.
LEMMA ViewOf ==
  ASSUME CInv, NEW p \in Procs
  PROVE  /\ View[p] = [i \in 1 .. sz[p] |-> mem[pa[p][i - 1]]]
         /\ sz[p] \in Nat
         /\ \A i \in 1 .. sz[p] : i - 1 \in Pages /\ i - 1 < sz[p]
         /\ \A j \in Pages : j < sz[p] => j + 1 \in 1 .. sz[p] /\ pa[p][j] \in Frames /\ pa[p][j] # NoFrame
<1>1. View[p] = [i \in 1 .. sz[p] |-> mem[pa[p][i - 1]]] BY Zenon DEF View
<1>2. sz[p] \in 0 .. NPAGES BY Zenon, CowTypes
<1>3. /\ sz[p] \in Nat /\ \A i \in 1 .. sz[p] : i - 1 \in Pages /\ i - 1 < sz[p]
      /\ \A j \in Pages : j < sz[p] => j + 1 \in 1 .. sz[p]
  <2> DEFINE s == sz[p]
  <2>1. s \in 0 .. NPAGES BY Zenon, <1>2
  <2> HIDE DEF s
  <2>2. /\ s \in Nat /\ \A i \in 1 .. s : i - 1 \in Pages /\ i - 1 < s
        /\ \A j \in Pages : j < s => j + 1 \in 1 .. s
    BY <2>1, NpagesAssumption DEF Pages
  <2> QED BY Zenon, <2>2 DEF s
<1>4. \A j \in Pages : j < sz[p] => pa[p][j] \in Frames /\ pa[p][j] # NoFrame
  <2>1. \A j \in Pages : j < sz[p] => j \in Mapped(p) BY Zenon DEF Mapped, CInv, Layout
  <2> QED BY Zenon, <2>1, MappedFrames DEF Mapped
<1> QED BY Zenon, <1>1, <1>3, <1>4

\* A process whose pages are where they were, or moved with their contents, sees
\* what it saw.
LEMMA ViewKept ==
  ASSUME CInv, NEW r \in Procs, sz'[r] = sz[r],
         \A j \in Pages : j < sz[r] => mem'[pa'[r][j]] = mem[pa[r][j]]
  PROVE  View'[r] = View[r]
<1>1. View'[r] = [i \in 1 .. sz[r] |-> mem'[pa'[r][i - 1]]] BY Zenon DEF View
<1>2. \A i \in 1 .. sz[r] : mem'[pa'[r][i - 1]] = mem[pa[r][i - 1]] BY Zenon, ViewOf
<1>3. [i \in 1 .. sz[r] |-> mem'[pa'[r][i - 1]]] = [i \in 1 .. sz[r] |-> mem[pa[r][i - 1]]]
  BY Zenon, <1>2
<1> QED BY Zenon, <1>1, <1>3, ViewOf

\* What p takes, frees or owns is no frame of another process.
LEMMA OthersFrames ==
  ASSUME CInv, NEW p \in Procs, NEW r \in Procs, r # p, NEW j \in Pages, j < sz[r]
  PROVE  /\ pa[r][j] \in Frames /\ pa[r][j] \notin freelist
         /\ \A F : pa[r][j] \in Freed(F) /\ F \subseteq UserFrames(p) \cup KernFrames(p) => FALSE
<1> DEFINE f == pa[r][j]
<1>1. f \in Frames /\ r \in Mappers(f) BY Zenon, ViewOf DEF Mappers
<1>2. f \notin freelist /\ ~InKernel(f) /\ ref[f] = Cardinality(Mappers(f))
  BY Zenon, <1>1, FreeFrame
<1>3. f \notin KernFrames(p) BY Zenon, <1>1, <1>2, MappedFrames DEF InKernel, KernOf
<1>4. f \in UserFrames(p) => ref[f] # 1
  <2>1. SUFFICES ASSUME f \in UserFrames(p), ref[f] = 1 PROVE FALSE BY Zenon
  <2>2. p \in Mappers(f) BY Zenon, <1>1, <2>1, MappedFrames
  <2>3. Cardinality(Mappers(f)) = 1 /\ IsFiniteSet(Mappers(f))
    BY Zenon, <1>2, <2>1, MappersFinite
  <2>4. PICK x : Mappers(f) = {x} BY Zenon, <2>3, FS_Singleton
  <2>5. r = x /\ p = x BY Zenon, <1>1, <2>2, <2>4
  <2> QED BY Zenon, <2>5
<1> HIDE DEF f
<1>5. \A F : f \in Freed(F) /\ F \subseteq UserFrames(p) \cup KernFrames(p) => FALSE
  BY Zenon, <1>3, <1>4 DEF Freed
<1> QED BY Zenon, <1>1, <1>2, <1>5 DEF f

\* If only what p sees changes, it is a step of p.
LEMMA ViewStep ==
  ASSUME NEW p \in Procs, NEW x, View'[p] = x, \A r \in Procs : r # p => View'[r] = View[r]
  PROVE  View' = [View EXCEPT ![p] = x]
<1>1. View' = [r \in Procs |-> View'[r]] /\ View = [r \in Procs |-> View[r]] BY Zenon DEF View
<1>2. [View EXCEPT ![p] = x] = [r \in Procs |-> IF r = p THEN x ELSE View[r]] BY Zenon, <1>1
<1>3. [r \in Procs |-> View'[r]] = [r \in Procs |-> IF r = p THEN x ELSE View[r]] BY Zenon
<1> QED BY Zenon, <1>1, <1>2, <1>3

\* Init: the first process sees one page of zeros.
LEMMA ViewStart == Init => Abstract!Init
<1> SUFFICES ASSUME Init PROVE Abstract!Init OBVIOUS
<1>1. /\ sz = [p \in Procs |-> IF p = first THEN 1 ELSE 0]
      /\ pa = [p \in Procs |-> [i \in Pages |-> IF p = first /\ i = 0 THEN 1 ELSE NoFrame]]
      /\ mem = [f \in Frames |-> IF f = 1 THEN 0 ELSE Junk]
  BY Zenon DEF Init
<1>2. first \in Procs /\ 0 \in Pages /\ 1 \in Frames /\ first = 1
  BY NprocAssumption, NpagesAssumption, NframesAssumption DEF first, Procs, Pages, Frames
<1>3. \A p \in Procs : View[p] = [i \in 1 .. sz[p] |-> mem[pa[p][i - 1]]] BY Zenon DEF View
<1>4. View[first] = <<0>>
  <2>1. mem[pa[first][0]] = 0 /\ sz[first] = 1 BY Zenon, <1>1, <1>2
  <2>2. \A i \in 1 .. 1 : i - 1 = 0 OBVIOUS
  <2>3. \A i \in 1 .. 1 : mem[pa[first][i - 1]] = 0 BY Zenon, <2>1, <2>2
  <2>4. View[first] = [i \in 1 .. 1 |-> mem[pa[first][i - 1]]] BY Zenon, <1>2, <1>3, <2>1
  <2>5. View[first] = [i \in 1 .. 1 |-> 0] BY Zenon, <2>3, <2>4
  <2>6. <<0>> = [i \in 1 .. 1 |-> 0] OBVIOUS
  <2> QED BY Zenon, <2>5, <2>6
<1>5. \A p \in Procs : p # first => View[p] = <<>>
  <2>1. SUFFICES ASSUME NEW p \in Procs, p # first PROVE View[p] = <<>> BY Zenon
  <2>2. sz[p] = 0 BY Zenon, <1>1, <2>1
  <2>3. View[p] = [i \in 1 .. 0 |-> mem[pa[p][i - 1]]] BY Zenon, <1>3, <2>2
  <2> QED BY <2>3
<1>6. View = [p \in Procs |-> IF p = 1 THEN View[1] ELSE <<>>]
  <2>1. View = [p \in Procs |-> View[p]] BY Zenon DEF View
  <2>2. \A p \in Procs : View[p] = IF p = 1 THEN View[1] ELSE <<>> BY Zenon, <1>2, <1>5
  <2>3. [p \in Procs |-> View[p]] = [p \in Procs |-> IF p = 1 THEN View[1] ELSE <<>>]
    BY Zenon, <2>2
  <2> QED BY Zenon, <2>1, <2>3
<1>7. View[1] \in Seq(Val) /\ View[1] # <<>>
  <2>1. <<0>> \in Seq(Val) /\ <<0>> # <<>> BY ValAssumption
  <2> QED BY Zenon, <1>2, <1>4, <2>1
<1>8. Abstract!Procs = Procs BY Zenon DEF Abstract!Procs, Procs
<1> QED BY Zenon, <1>6, <1>7, <1>8 DEF Abstract!Init

\* A used process has at least one page, a free slot has none.
LEMMA ViewSize ==
  ASSUME CInv, NEW p \in Procs
  PROVE  /\ Used(p) => View[p] # <<>>
         /\ ~Used(p) => View[p] = <<>>
         /\ Len(View[p]) = sz[p] /\ DOMAIN View[p] = 1 .. sz[p]
<1> DEFINE n == sz[p]
           m(i) == mem[pa[p][i - 1]]
<1>1. View[p] = [i \in 1 .. n |-> m(i)] /\ n \in Nat BY Zenon, ViewOf
<1>2. (Used(p) => n >= 1) /\ (~Used(p) => n = 0) BY Zenon DEF CInv, Layout
<1> HIDE DEF n, m
<1>3. Len([i \in 1 .. n |-> m(i)]) = n /\ DOMAIN [i \in 1 .. n |-> m(i)] = 1 .. n BY <1>1
<1>4. n >= 1 => [i \in 1 .. n |-> m(i)] # <<>> BY <1>1
<1>5. n = 0 => [i \in 1 .. n |-> m(i)] = <<>> BY <1>1
<1>6. Len(View[p]) = n /\ DOMAIN View[p] = 1 .. n BY Zenon, <1>1, <1>3
<1>7. Used(p) => View[p] # <<>> BY Zenon, <1>1, <1>2, <1>4
<1>8. ~Used(p) => View[p] = <<>> BY Zenon, <1>1, <1>2, <1>5
<1> QED BY Zenon, <1>6, <1>7, <1>8 DEF n

\* fork copies the memory of the parent at once.
LEMMA ForkCopies ==
  ASSUME CInv, NEW p \in Procs, NEW q \in Procs, Fork(p, q)
  PROVE  Abstract!Fork(p, q)
<1>1. /\ Used(p) /\ ~Used(q) /\ sz' = [sz EXCEPT ![q] = sz[p]] /\ pa' = [pa EXCEPT ![q] = pa[p]]
      /\ mem' = mem
  BY Zenon DEF Fork, Live
<1>2. sz'[q] = sz[p] /\ pa'[q] = pa[p] BY Zenon, <1>1, CowTypes
<1>3. \A r \in Procs : r # q => sz'[r] = sz[r] /\ pa'[r] = pa[r] BY Zenon, <1>1, CowTypes
<1>4. \A r \in Procs : r # q => View'[r] = View[r] BY Zenon, <1>1, <1>3, ViewKept
<1>5. View'[q] = View[p]
  <2>1. View'[q] = [i \in 1 .. sz'[q] |-> mem'[pa'[q][i - 1]]] BY Zenon DEF View
  <2>2. \A i : mem'[pa'[q][i - 1]] = mem[pa[p][i - 1]] BY Zenon, <1>1, <1>2
  <2>3. View'[q] = [i \in 1 .. sz[p] |-> mem'[pa'[q][i - 1]]] BY Zenon, <1>2, <2>1
  <2>4. View'[q] = [i \in 1 .. sz[p] |-> mem[pa[p][i - 1]]] BY Zenon, <2>2, <2>3
  <2> QED BY Zenon, <2>4, ViewOf
<1>6. View' = [View EXCEPT ![q] = View[p]] BY Zenon, <1>4, <1>5, ViewStep
<1> QED BY Zenon, <1>1, <1>6, ViewSize DEF Abstract!Fork

\* freeproc takes memory from the process it frees and from no other.
LEMMA FreeReleases ==
  ASSUME CInv, NEW p \in Procs, FreeProc(p)
  PROVE  Abstract!Release(p)
<1>1. /\ sz' = [sz EXCEPT ![p] = 0] /\ pa' = [pa EXCEPT ![p] = Unmapped]
      /\ mem' = [f \in Frames |-> IF f \in Freed(UserFrames(p) \cup KernFrames(p)) THEN Junk ELSE mem[f]]
  BY Zenon DEF FreeProc, Kfree
<1>2. sz'[p] = 0 /\ \A r \in Procs : r # p => sz'[r] = sz[r] /\ pa'[r] = pa[r]
  BY Zenon, <1>1, CowTypes
<1>3. ASSUME NEW r \in Procs, r # p PROVE View'[r] = View[r]
  <2>1. \A j \in Pages : j < sz[r] => mem'[pa'[r][j]] = mem[pa[r][j]]
    BY Zenon, <1>1, <1>2, <1>3, OthersFrames
  <2> QED BY Zenon, <1>2, <1>3, <2>1, ViewKept
<1>4. View'[p] = <<>>
  <2>1. View'[p] = [i \in 1 .. 0 |-> mem'[pa'[p][i - 1]]] BY Zenon, <1>2 DEF View
  <2> DEFINE m(i) == mem'[pa'[p][i - 1]]
  <2> HIDE DEF m
  <2>2. [i \in 1 .. 0 |-> m(i)] = <<>> OBVIOUS
  <2> QED BY Zenon, <2>1, <2>2 DEF m
<1>5. View' = [View EXCEPT ![p] = <<>>] BY Zenon, <1>3, <1>4, ViewStep
<1> QED BY Zenon, <1>5 DEF Abstract!Release

\* A step after which p sees v in page i and nobody sees any other change.
LEMMA WriteStep ==
  ASSUME CInv, NEW p \in Procs, NEW i \in Pages, i < sz[p], NEW v, sz' = sz,
         \A j \in Pages : j < sz[p] => mem'[pa'[p][j]] = IF j = i THEN v ELSE mem[pa[p][j]],
         \A r \in Procs : r # p => \A j \in Pages : j < sz[r] => mem'[pa'[r][j]] = mem[pa[r][j]]
  PROVE  Abstract!Write(p, i + 1, v) /\ i + 1 \in DOMAIN View[p]
<1>1. \A r \in Procs : r # p => View'[r] = View[r] BY Zenon, ViewKept
<1>2. i + 1 \in 1 .. sz[p] BY Zenon, ViewOf
<1>3. View'[p] = [k \in 1 .. sz[p] |-> mem'[pa'[p][k - 1]]] BY Zenon DEF View
<1>10. View[p] = [k \in 1 .. sz[p] |-> mem[pa[p][k - 1]]] BY Zenon, ViewOf
<1>4. \A k \in 1 .. sz[p] : k - 1 = i <=> k = i + 1
  <2> DEFINE s == sz[p]
  <2>1. s \in Nat BY Zenon, ViewOf
  <2>3. i \in Int BY NpagesAssumption DEF Pages
  <2> HIDE DEF s
  <2>2. \A k \in 1 .. s : k - 1 = i <=> k = i + 1 BY <2>1, <2>3
  <2> QED BY Zenon, <2>2 DEF s
<1>5. \A k \in 1 .. sz[p] : mem'[pa'[p][k - 1]] = IF k = i + 1 THEN v ELSE View[p][k]
  <2>1. \A k \in 1 .. sz[p] : View[p][k] = mem[pa[p][k - 1]] BY <1>10
  <2>2. ASSUME NEW k \in 1 .. sz[p]
        PROVE  mem'[pa'[p][k - 1]] = IF k = i + 1 THEN v ELSE mem[pa[p][k - 1]]
    <3>1. k - 1 \in Pages /\ k - 1 < sz[p] /\ (k - 1 = i <=> k = i + 1) BY Zenon, <1>4, ViewOf
    <3> QED BY Zenon, <3>1
  <2> QED BY Zenon, <2>1, <2>2
<1>6. View'[p] = [k \in 1 .. sz[p] |-> IF k = i + 1 THEN v ELSE View[p][k]] BY Zenon, <1>3, <1>5
<1>7. View'[p] = [View[p] EXCEPT ![i + 1] = v]
  <2>1. DOMAIN View[p] = 1 .. sz[p] BY Zenon, <1>10
  <2>2. View[p] = [k \in 1 .. sz[p] |-> View[p][k]] BY Zenon, <1>10
  <2>3. [View[p] EXCEPT ![i + 1] = v] = [k \in 1 .. sz[p] |-> IF k = i + 1 THEN v ELSE View[p][k]]
    BY Zenon, <1>2, <2>1, <2>2
  <2> QED BY Zenon, <1>6, <2>3
<1>8. View' = [View EXCEPT ![p] = [View[p] EXCEPT ![i + 1] = v]]
  <2> DEFINE x == [View[p] EXCEPT ![i + 1] = v]
  <2>1. View'[p] = x BY Zenon, <1>7
  <2> HIDE DEF x
  <2>2. View' = [View EXCEPT ![p] = x] BY Zenon, <1>1, <2>1, ViewStep
  <2> QED BY Zenon, <2>2 DEF x
<1>9. i + 1 \in DOMAIN View[p] BY Zenon, <1>2, ViewSize
<1> QED BY Zenon, <1>8, <1>9 DEF Abstract!Write

\* A store, or a copyout that needs no copy, reaches a frame nobody else maps.
LEMMA StoreWrites ==
  ASSUME CInv, NEW p \in Procs, NEW i \in Pages, NEW v \in Val, Store(p, i, v) \/ CopyOut(p, i, v)
  PROVE  View' = View \/ (Abstract!Write(p, i + 1, v) /\ i + 1 \in DOMAIN View[p])
<1>1. /\ mem' = [mem EXCEPT ![pa[p][i]] = v] /\ UNCHANGED <<sz, pa>>
      /\ i \in W[p] \/ i \notin COW[p]
  BY Zenon DEF Store, CopyOut, space
<1>2. \A f \in Frames : mem'[f] = IF f = pa[p][i] THEN v ELSE mem[f] BY Zenon, <1>1, CowTypes
<1>3. CASE i < sz[p]
  <2>1. pa[p][i] # NoFrame BY Zenon, <1>3, ViewOf
  <2>2. \A j \in Pages : j < sz[p] => mem'[pa'[p][j]] = IF j = i THEN v ELSE mem[pa[p][j]]
    <3>1. \A j \in Pages : j # i => pa[p][j] # pa[p][i] BY Zenon, <2>1 DEF CInv, Injective
    <3> QED BY Zenon, <1>1, <1>2, <3>1, ViewOf
  <2>3. ASSUME NEW r \in Procs, r # p, NEW j \in Pages, j < sz[r]
        PROVE  mem'[pa'[r][j]] = mem[pa[r][j]]
    <3>1. pa[r][j] # pa[p][i]
      <4>1. SharedProtected BY Zenon DEF CInv
      <4> QED BY Zenon, <1>1, <2>1, <2>3, <4>1 DEF SharedProtected
    <3> QED BY Zenon, <1>1, <1>2, <2>3, <3>1, ViewOf
  <2> QED BY <1>1, <1>3, <2>2, <2>3, WriteStep
<1>4. CASE ~(i < sz[p])
  <2>1. pa[p][i] = NoFrame BY Zenon, <1>4 DEF CInv, Layout
  <2>2. \A f \in Frames : mem'[f] = mem[f] BY Zenon, <1>2, <2>1, NoFrameIsNone
  <2>3. \A r \in Procs : View'[r] = View[r]
    <3>1. \A r \in Procs, j \in Pages : j < sz[r] => mem'[pa'[r][j]] = mem[pa[r][j]]
      BY Zenon, <1>1, <2>2, ViewOf
    <3> QED BY Zenon, <1>1, <3>1, ViewKept
  <2>4. View' = [r \in Procs |-> View'[r]] /\ View = [r \in Procs |-> View[r]] BY Zenon DEF View
  <2>5. [r \in Procs |-> View'[r]] = [r \in Procs |-> View[r]] BY Zenon, <2>3
  <2> QED BY Zenon, <2>4, <2>5
<1> QED BY Zenon, <1>3, <1>4

\* After the step p sees v in page i, and there is no other change to be seen.
SeenAt(p, i, v) ==
  /\ i \in Pages /\ i < sz[p] /\ sz' = sz
  /\ \A j \in Pages : j < sz[p] => mem'[pa'[p][j]] = IF j = i THEN v ELSE mem[pa[p][j]]
  /\ \A r \in Procs : r # p => \A j \in Pages : j < sz[r] => mem'[pa'[r][j]] = mem[pa[r][j]]

\* A private copy holds v in place of what the page held, and nobody else sees it.
LEMMA CopyWrites ==
  ASSUME CInv, NEW p \in Procs, NEW i \in COW[p], NEW g \in Kalloc(1), NEW v, PrivateCopy(p, i, g, v)
  PROVE  SeenAt(p, i, v)
<1> DEFINE old == pa[p][i]
<1>1. /\ pa' = [pa EXCEPT ![p] = [pa[p] EXCEPT ![i] = g]] /\ sz' = sz
      /\ mem' = [f \in Frames |-> IF f = g THEN v ELSE IF f \in Freed({old}) THEN Junk ELSE mem[f]]
  BY Zenon DEF PrivateCopy, Replaced
<1>2. i \in Pages /\ i < sz[p] BY Zenon, CowTypes DEF CInv, Layout
<1>3. g \in freelist /\ g \in Frames BY Zenon, KallocFree, CowTypes
<1>4. old # NoFrame /\ old \in UserFrames(p) BY Zenon, <1>2, ViewOf DEF UserFrames, Mapped
<1>5. \A j \in Pages : pa'[p][j] = IF j = i THEN g ELSE pa[p][j] BY Zenon, <1>1, <1>2, CowTypes
<1>6. \A r \in Procs : r # p => pa'[r] = pa[r] BY Zenon, <1>1, CowTypes
<1>7. \A r \in Procs, j \in Pages : j < sz[r] => pa[r][j] \in Frames /\ pa[r][j] # g
  <2>1. SUFFICES ASSUME NEW r \in Procs, NEW j \in Pages, j < sz[r], pa[r][j] = g PROVE FALSE
    BY Zenon, ViewOf
  <2>2. r \in Mappers(g) BY Zenon, <2>1 DEF Mappers
  <2> QED BY Zenon, <1>3, <2>2, FreeFrame
<1>8. ASSUME NEW j \in Pages, j < sz[p]
      PROVE  mem'[pa'[p][j]] = IF j = i THEN v ELSE mem[pa[p][j]]
  <2>1. CASE j = i BY Zenon, <1>1, <1>3, <1>5, <2>1
  <2>2. CASE j # i
    <3>1. pa[p][j] # old BY Zenon, <1>2, <1>4, <2>2 DEF CInv, Injective
    <3>2. pa[p][j] \in Frames /\ pa[p][j] # g /\ pa[p][j] \notin Freed({old})
      BY Zenon, <1>7, <1>8, <3>1 DEF Freed
    <3>3. mem'[pa[p][j]] = mem[pa[p][j]] BY Zenon, <1>1, <3>2
    <3>4. pa'[p][j] = pa[p][j] BY Zenon, <1>5, <2>2
    <3> QED BY Zenon, <2>2, <3>3, <3>4
  <2> QED BY Zenon, <2>1, <2>2
<1>9. ASSUME NEW r \in Procs, r # p, NEW j \in Pages, j < sz[r]
      PROVE  mem'[pa'[r][j]] = mem[pa[r][j]]
  <2>1. pa[r][j] \in Frames /\ pa[r][j] # g BY Zenon, <1>7, <1>9
  <2>2. {old} \subseteq UserFrames(p) \cup KernFrames(p) BY Zenon, <1>4
  <2>3. pa[r][j] \notin Freed({old}) BY <1>9, <2>2, OthersFrames
  <2> QED BY Zenon, <1>1, <1>6, <1>9, <2>1, <2>3
<1> QED BY Zenon, <1>1, <1>2, <1>8, <1>9 DEF SeenAt

\* sbrk adds pages of zeros and leaves the others as they were.
LEMMA GrowExtends ==
  ASSUME CInv, NEW p \in Procs, NEW n \in 1 .. NPAGES, Grow(p, n)
  PROVE  Abstract!Extend(p, n) /\ n \in 1 .. Len(View'[p]) - Len(View[p])
<1> DEFINE New == sz[p] .. sz[p] + n - 1
           s == sz[p]
           m(i) == mem[pa[p][i - 1]]
<1>1. PICK a \in Dealt(New, Kalloc(n)) :
        /\ pa' = [pa EXCEPT ![p] = [i \in Pages |-> IF i \in New THEN a[i] ELSE pa[p][i]]]
        /\ mem' = [f \in Frames |-> IF f \in {a[i] : i \in New} THEN 0 ELSE mem[f]]
  BY Zenon DEF Grow
<1>2. sz' = [sz EXCEPT ![p] = sz[p] + n] /\ sz[p] + n <= NPAGES /\ Used(p)
  BY Zenon DEF Grow, Live
<1>3. /\ \A r \in Procs : r # p => sz'[r] = sz[r] /\ pa'[r] = pa[r]
      /\ \A j \in Pages : pa'[p][j] = IF j \in New THEN a[j] ELSE pa[p][j]
      /\ sz'[p] = s + n
  BY Zenon, <1>1, <1>2, CowTypes
<1>4. s \in 0 .. NPAGES /\ s + n <= NPAGES BY Zenon, <1>2, CowTypes
<1>5. \A i \in New : a[i] \in Kalloc(n) BY Zenon, <1>1 DEF Dealt
<1>6. \A i \in New : a[i] \in freelist /\ a[i] \in Frames BY Zenon, <1>5, KallocFree, CowTypes
<1>7. \A r \in Procs, j \in Pages : j < sz[r] => pa[r][j] \in Frames /\ \A i \in New : pa[r][j] # a[i]
  <2>3. \A r \in Procs, j \in Pages : j < sz[r] => pa[r][j] \in Frames BY Zenon, ViewOf
  <2>1. SUFFICES ASSUME NEW r \in Procs, NEW j \in Pages, j < sz[r], NEW i \in New, pa[r][j] = a[i]
                 PROVE  FALSE
    BY Zenon, <2>3
  <2>2. r \in Mappers(a[i]) BY Zenon, <2>1 DEF Mappers
  <2> QED BY Zenon, <1>6, <2>1, <2>2, FreeFrame
<1>8. ASSUME NEW r \in Procs, r # p PROVE View'[r] = View[r]
  <2>1. ASSUME NEW j \in Pages, j < sz[r] PROVE mem'[pa'[r][j]] = mem[pa[r][j]]
    <3>1. pa[r][j] \in Frames /\ pa[r][j] \notin {a[i] : i \in New} BY Zenon, <1>7, <2>1
    <3>2. mem'[pa[r][j]] = mem[pa[r][j]] BY Zenon, <1>1, <3>1
    <3> QED BY Zenon, <1>3, <1>8, <3>2
  <2> QED BY Zenon, <1>3, <1>8, <2>1, ViewKept
<1>9. View'[p] = [i \in 1 .. s + n |-> mem'[pa'[p][i - 1]]]
  <2>1. View'[p] = [i \in 1 .. sz'[p] |-> mem'[pa'[p][i - 1]]] BY Zenon DEF View
  <2> QED BY Zenon, <1>3, <2>1
<1>10. ASSUME NEW i \in 1 .. s + n PROVE mem'[pa'[p][i - 1]] = IF i <= s THEN m(i) ELSE 0
  <2> DEFINE j == i - 1
  <2> HIDE DEF s
  <2>1. /\ j \in Pages
        /\ i <= s => j < s /\ ~(j \in s .. s + n - 1)
        /\ ~(i <= s) => j \in s .. s + n - 1
    BY <1>4, <1>10, NpagesAssumption DEF Pages
  <2>2. CASE i <= s
    <3>1. j < sz[p] /\ j \notin New BY Zenon, <2>1, <2>2 DEF s
    <3>2. pa'[p][j] = pa[p][j] BY Zenon, <1>3, <2>1, <3>1
    <3>3. mem'[pa[p][j]] = mem[pa[p][j]] BY Zenon, <1>1, <1>7, <2>1, <3>1
    <3> QED BY Zenon, <2>2, <3>2, <3>3
  <2>3. CASE ~(i <= s)
    <3>1. j \in New BY Zenon, <2>1, <2>3 DEF s
    <3>2. pa'[p][j] = a[j] BY Zenon, <1>3, <2>1, <3>1
    <3>3. mem'[a[j]] = 0 BY Zenon, <1>1, <1>6, <3>1
    <3> QED BY Zenon, <2>3, <3>2, <3>3
  <2> QED BY Zenon, <2>2, <2>3
<1>11. View'[p] = [i \in 1 .. s + n |-> IF i <= s THEN m(i) ELSE 0] BY Zenon, <1>9, <1>10
<1>12. View[p] = [i \in 1 .. s |-> m(i)] BY Zenon, ViewOf
<1> HIDE DEF s, m
<1>13. [i \in 1 .. s |-> m(i)] \o [i \in 1 .. n |-> 0] = [i \in 1 .. s + n |-> IF i <= s THEN m(i) ELSE 0]
  BY <1>4
<1>14. View'[p] = View[p] \o [i \in 1 .. n |-> 0] BY Zenon, <1>11, <1>12, <1>13
<1>15. View' = [View EXCEPT ![p] = View[p] \o [i \in 1 .. n |-> 0]]
  BY Zenon, <1>8, <1>14, ViewStep
<1>16. Len([i \in 1 .. s |-> m(i)]) = s
       /\ Len([i \in 1 .. s + n |-> IF i <= s THEN m(i) ELSE 0]) = s + n
       /\ n \in 1 .. s + n - s
  BY <1>4
<1>17. n \in 1 .. Len(View'[p]) - Len(View[p])
  <2>1. Len(View'[p]) = s + n BY Zenon, <1>11, <1>16
  <2>2. Len(View[p]) = s BY Zenon, <1>12, <1>16
  <2> QED BY <1>4, <2>1, <2>2
<1> QED BY Zenon, <1>2, <1>15, <1>17, ViewSize DEF Abstract!Extend

\* sbrk takes pages away from the end.
LEMMA ShrinkCuts ==
  ASSUME CInv, NEW p \in Procs, NEW n \in 1 .. NPAGES, Shrink(p, n)
  PROVE  Abstract!Cut(p, sz[p] - n) /\ sz[p] - n \in DOMAIN View[p]
<1> DEFINE Gone == sz[p] - n .. sz[p] - 1
           F == {pa[p][i] : i \in Gone}
           s == sz[p]
           m(i) == mem[pa[p][i - 1]]
<1>1. /\ sz[p] - n >= 1 /\ sz' = [sz EXCEPT ![p] = sz[p] - n]
      /\ mem' = [f \in Frames |-> IF f \in Freed(F) THEN Junk ELSE mem[f]]
      /\ pa' = [pa EXCEPT ![p] = [i \in Pages |-> IF i \in Gone THEN NoFrame ELSE pa[p][i]]]
  BY Zenon DEF Shrink, Kfree
<1>2. /\ \A r \in Procs : r # p => sz'[r] = sz[r] /\ pa'[r] = pa[r]
      /\ \A j \in Pages : pa'[p][j] = IF j \in Gone THEN NoFrame ELSE pa[p][j]
      /\ sz'[p] = s - n
  BY Zenon, <1>1, CowTypes
<1>3. s \in 0 .. NPAGES /\ s - n >= 1 BY Zenon, <1>1, CowTypes
<1>4. \A i \in Gone : i \in Pages /\ i < sz[p]
  <2> HIDE DEF s
  <2>1. \A i \in s - n .. s - 1 : i \in Pages /\ i < s BY <1>3, NpagesAssumption DEF Pages
  <2> QED BY Zenon, <2>1 DEF s
<1>5. \A i \in Gone : i \in Mapped(p) BY Zenon, <1>4, ViewOf DEF Mapped
<1>6. F \subseteq UserFrames(p) \cup KernFrames(p) BY Zenon, <1>5 DEF UserFrames
<1>7. ASSUME NEW r \in Procs, r # p PROVE View'[r] = View[r]
  <2>1. ASSUME NEW j \in Pages, j < sz[r] PROVE mem'[pa'[r][j]] = mem[pa[r][j]]
    <3>1. pa[r][j] \in Frames /\ pa[r][j] \notin Freed(F)
      BY Zenon, <1>6, <1>7, <2>1, OthersFrames
    <3>2. mem'[pa[r][j]] = mem[pa[r][j]] BY Zenon, <1>1, <3>1
    <3> QED BY Zenon, <1>2, <1>7, <3>2
  <2> QED BY Zenon, <1>2, <1>7, <2>1, ViewKept
<1>8. View'[p] = [i \in 1 .. s - n |-> mem'[pa'[p][i - 1]]]
  <2>1. View'[p] = [i \in 1 .. sz'[p] |-> mem'[pa'[p][i - 1]]] BY Zenon DEF View
  <2> QED BY Zenon, <1>2, <2>1
<1>9. ASSUME NEW i \in 1 .. s - n PROVE mem'[pa'[p][i - 1]] = m(i)
  <2> DEFINE j == i - 1
  <2> HIDE DEF s
  <2>1. j \in Pages /\ j < s /\ ~(j \in s - n .. s - 1)
    BY <1>3, <1>9, NpagesAssumption DEF Pages
  <2>2. j < sz[p] /\ j \notin Gone BY Zenon, <2>1 DEF s
  <2>3. pa'[p][j] = pa[p][j] BY Zenon, <1>2, <2>1, <2>2
  <2>4. pa[p][j] \in Frames /\ pa[p][j] # NoFrame BY Zenon, <2>1, <2>2, ViewOf
  <2> HIDE DEF j, Gone
  <2>5. pa[p][j] \notin F
    <3>1. \A k \in Gone : pa[p][k] # pa[p][j]
      BY Zenon, <1>4, <2>1, <2>2, <2>4 DEF CInv, Injective
    <3> QED BY Zenon, <3>1
  <2>6. mem'[pa[p][j]] = mem[pa[p][j]] BY Zenon, <1>1, <2>4, <2>5 DEF Freed
  <2>7. mem'[pa'[p][j]] = mem[pa[p][j]] BY Zenon, <2>3, <2>6
  <2> QED BY Zenon, <2>7 DEF j
<1>10. View'[p] = [i \in 1 .. s - n |-> m(i)] BY Zenon, <1>8, <1>9
<1>11. View[p] = [i \in 1 .. s |-> m(i)] BY Zenon, ViewOf
<1> HIDE DEF s, m
<1>12. SubSeq([i \in 1 .. s |-> m(i)], 1, s - n) = [i \in 1 .. s - n |-> m(i)] BY <1>3
<1>13. View'[p] = SubSeq(View[p], 1, s - n) BY Zenon, <1>10, <1>11, <1>12
<1>14. View' = [View EXCEPT ![p] = SubSeq(View[p], 1, s - n)] BY Zenon, <1>7, <1>13, ViewStep
<1>15. s - n \in 1 .. s BY <1>3
<1>16. s - n \in DOMAIN View[p] BY Zenon, <1>11, <1>15
<1>17. Abstract!Cut(p, s - n) BY Zenon, <1>14, <1>16 DEF Abstract!Cut
<1> QED BY Zenon, <1>16, <1>17 DEF s

\* exec: the program's text, then two pages of zeros, and no other process sees it.
LEMMA ExecLoads ==
  ASSUME CInv, NEW p \in Procs, NEW v \in Val, Exec(p, v)
  PROVE  Abstract!Load(p, Len(View'[p]), v)
<1> DEFINE New == 0 .. ExecSize - 1
           Old == UserFrames(p) \cup tables[p]
<1>1. PICK a \in Dealt(New, Kalloc(ExecSize)) :
        /\ pa' = [pa EXCEPT ![p] = [i \in Pages |-> IF i < ExecSize THEN a[i] ELSE NoFrame]]
        /\ mem' = [f \in Frames |->
                     IF f \in {a[i] : i \in New}
                     THEN IF \E i \in 0 .. TextPages - 1 : a[i] = f THEN v ELSE 0
                     ELSE IF f \in Freed(Old) THEN Junk ELSE mem[f]]
  BY Zenon DEF Exec
<1>2. sz' = [sz EXCEPT ![p] = ExecSize] /\ Used(p) /\ ExecSize <= NPAGES BY Zenon DEF Exec, Live
<1>3. /\ \A r \in Procs : r # p => sz'[r] = sz[r] /\ pa'[r] = pa[r]
      /\ \A j \in Pages : pa'[p][j] = IF j < ExecSize THEN a[j] ELSE NoFrame
      /\ sz'[p] = ExecSize
  BY Zenon, <1>1, <1>2, CowTypes
<1>4. /\ New \subseteq Int /\ ExecSize \in Nat
      /\ 0 .. TextPages - 1 \subseteq New
      /\ \A i \in 1 .. ExecSize : /\ i - 1 \in New /\ i - 1 \in Pages /\ i - 1 < ExecSize
                                  /\ i - 1 \in 0 .. TextPages - 1 <=> i <= ExecSize - 2
  BY <1>2, NpagesAssumption DEF ExecSize, Pages
<1>5. /\ Kalloc(ExecSize) \subseteq freelist /\ Kalloc(ExecSize) \subseteq Frames
      /\ Kalloc(ExecSize) \subseteq Int
  <2>1. Frames \subseteq Int BY NframesAssumption DEF Frames
  <2> QED BY Zenon, <2>1, KallocFree, CowTypes
<1> HIDE DEF New
<1>6. a \in [New -> Kalloc(ExecSize)] /\ \A i, j \in New : a[i] = a[j] => i = j
  <2>1. New \in SUBSET Int /\ Kalloc(ExecSize) \in SUBSET Int BY Zenon, <1>4, <1>5
  <2> QED BY Zenon, <2>1, DealtFrames
<1>7. \A i \in New : a[i] \in freelist /\ a[i] \in Frames BY Zenon, <1>5, <1>6
<1>8. ASSUME NEW r \in Procs, r # p PROVE View'[r] = View[r]
  <2>1. ASSUME NEW j \in Pages, j < sz[r] PROVE mem'[pa'[r][j]] = mem[pa[r][j]]
    <3>1. Old \subseteq UserFrames(p) \cup KernFrames(p)
      BY Zenon, CowTypes, NoFrameIsNone DEF KernFrames
    <3>2. pa[r][j] \in Frames /\ pa[r][j] \notin freelist /\ pa[r][j] \notin Freed(Old)
      BY Zenon, <1>8, <2>1, <3>1, OthersFrames
    <3>3. pa[r][j] \notin {a[i] : i \in New} BY Zenon, <1>7, <3>2
    <3>4. mem'[pa[r][j]] = mem[pa[r][j]] BY Zenon, <1>1, <3>2, <3>3
    <3> QED BY Zenon, <1>3, <1>8, <3>4
  <2> QED BY Zenon, <1>3, <1>8, <2>1, ViewKept
<1>9. View'[p] = [i \in 1 .. ExecSize |-> mem'[pa'[p][i - 1]]]
  <2>1. View'[p] = [i \in 1 .. sz'[p] |-> mem'[pa'[p][i - 1]]] BY Zenon DEF View
  <2> QED BY Zenon, <1>3, <2>1
<1>10. ASSUME NEW i \in 1 .. ExecSize
       PROVE  mem'[pa'[p][i - 1]] = IF i <= ExecSize - 2 THEN v ELSE 0
  <2> DEFINE j == i - 1
  <2>1. j \in New /\ j \in Pages /\ j < ExecSize /\ (j \in 0 .. TextPages - 1 <=> i <= ExecSize - 2)
    BY Zenon, <1>4
  <2> HIDE DEF j
  <2>2. pa'[p][j] = a[j] /\ a[j] \in Frames /\ a[j] \in {a[k] : k \in New}
    BY Zenon, <1>3, <1>7, <2>1
  <2>3. (\E k \in 0 .. TextPages - 1 : a[k] = a[j]) <=> i <= ExecSize - 2
    BY Zenon, <1>4, <1>6, <2>1
  <2>4. mem'[a[j]] = IF \E k \in 0 .. TextPages - 1 : a[k] = a[j] THEN v ELSE 0
    BY Zenon, <1>1, <2>2
  <2>5. mem'[pa'[p][j]] = IF i <= ExecSize - 2 THEN v ELSE 0 BY Zenon, <2>2, <2>3, <2>4
  <2> QED BY Zenon, <2>5 DEF j
<1>11. View'[p] = [i \in 1 .. ExecSize |-> IF i <= ExecSize - 2 THEN v ELSE 0]
  BY Zenon, <1>9, <1>10
<1>12. Len([i \in 1 .. ExecSize |-> IF i <= ExecSize - 2 THEN v ELSE 0]) = ExecSize BY <1>4
<1>13. Len(View'[p]) = ExecSize BY Zenon, <1>11, <1>12
<1>14. View' = [View EXCEPT ![p] = [i \in 1 .. ExecSize |-> IF i <= ExecSize - 2 THEN v ELSE 0]]
  BY Zenon, <1>8, <1>11, ViewStep
<1>15. Abstract!Load(p, ExecSize, v) BY Zenon, <1>2, <1>14, ViewSize DEF Abstract!Load
<1> QED BY Zenon, <1>13, <1>15

\* A step that moves no page and changes no contents cannot be seen.
LEMMA Unseen ==
  ASSUME CInv, sz' = sz,
         \A r \in Procs, j \in Pages : j < sz[r] => mem'[pa'[r][j]] = mem[pa[r][j]]
  PROVE  View' = View
<1>1. \A r \in Procs : View'[r] = View[r] BY Zenon, ViewKept
<1>2. View' = [r \in Procs |-> View'[r]] /\ View = [r \in Procs |-> View[r]] BY Zenon DEF View
<1>3. [r \in Procs |-> View'[r]] = [r \in Procs |-> View[r]] BY Zenon, <1>1
<1> QED BY Zenon, <1>2, <1>3

\* Every step of the memory system is a step of private memory, or unseen.
LEMMA ViewNext == CInv /\ [Next]_vars => [Abstract!Next]_View
<1> SUFFICES ASSUME CInv, [Next]_vars PROVE Abstract!Next \/ View' = View BY Zenon
<1>1. Abstract!Procs = Procs BY Zenon DEF Abstract!Procs, Procs
<1>2. ASSUME NEW p \in Procs, NEW q \in Procs, Fork(p, q) PROVE Abstract!Next
  BY Zenon, <1>1, <1>2, ForkCopies DEF Abstract!Next
<1>3. ASSUME UNCHANGED <<sz, pa, mem>> PROVE View' = View BY Zenon, <1>3, Unseen
<1>4. ASSUME NEW p \in Procs, ForkFail(p) \/ StoreFar(p) PROVE View' = View
  <2>1. UNCHANGED <<sz, pa, mem>> BY Zenon, <1>4 DEF ForkFail, StoreFar, Panic, space
  <2> QED BY Zenon, <1>3, <2>1
<1>5. ASSUME NEW p \in Procs, FreeProc(p) PROVE Abstract!Next
  BY Zenon, <1>1, <1>5, FreeReleases DEF Abstract!Next
<1>6. ASSUME NEW p \in Procs, NEW i, NEW v \in Val, Abstract!Write(p, i, v), i \in DOMAIN View[p]
      PROVE  Abstract!Next
  BY Zenon, <1>1, <1>6 DEF Abstract!Next
<1>7. ASSUME NEW p \in Procs, NEW i \in Pages, NEW v \in Val, Store(p, i, v) \/ CopyOut(p, i, v)
      PROVE  Abstract!Next \/ View' = View
  BY Zenon, <1>6, <1>7, StoreWrites
<1>8. ASSUME NEW p \in Procs, NEW i \in Pages, NEW v \in Val, CopyOutCow(p, i, v) PROVE Abstract!Next
  <2>1. i \in COW[p] BY Zenon, <1>8 DEF CopyOutCow
  <2>2. PICK g \in Kalloc(1) : PrivateCopy(p, i, g, v) BY Zenon, <1>8 DEF CopyOutCow
  <2>3. Abstract!Write(p, i + 1, v) /\ i + 1 \in DOMAIN View[p]
    <3>1. /\ i < sz[p] /\ sz' = sz
          /\ \A j \in Pages : j < sz[p] => mem'[pa'[p][j]] = IF j = i THEN v ELSE mem[pa[p][j]]
          /\ \A r \in Procs : r # p => \A j \in Pages : j < sz[r] => mem'[pa'[r][j]] = mem[pa[r][j]]
      <4>1. SeenAt(p, i, v) BY Zenon, <2>1, <2>2, CopyWrites
      <4> QED BY Zenon, <4>1 DEF SeenAt
    <3> QED BY Zenon, <3>1, WriteStep
  <2> QED BY Zenon, <1>6, <2>3
<1>9. ASSUME NEW p \in Procs, NEW i \in Pages,
             StoreFault(p, i) \/ CowFaultNoMemory(p, i) \/ CopyOutNull(p, i)
      PROVE  View' = View
  <2>1. UNCHANGED <<sz, pa, mem>>
    BY Zenon, <1>9 DEF StoreFault, CowFaultNoMemory, CopyOutNull, Panic, space
  <2> QED BY Zenon, <1>3, <2>1
<1>10. ASSUME NEW p \in Procs, NEW i \in Pages, CowFault(p, i) PROVE View' = View
  <2> DEFINE c == mem[pa[p][i]]
  <2>1. i \in COW[p] BY Zenon, <1>10 DEF CowFault
  <2>2. PICK g \in Kalloc(1) : PrivateCopy(p, i, g, c) BY Zenon, <1>10 DEF CowFault, Copied
  <2> HIDE DEF c
  <2>3. /\ sz' = sz
        /\ \A j \in Pages : j < sz[p] => mem'[pa'[p][j]] = IF j = i THEN c ELSE mem[pa[p][j]]
        /\ \A r \in Procs : r # p => \A j \in Pages : j < sz[r] => mem'[pa'[r][j]] = mem[pa[r][j]]
    <3>1. SeenAt(p, i, c) BY Zenon, <2>1, <2>2, CopyWrites
    <3> QED BY Zenon, <3>1 DEF SeenAt
  <2>4. \A r \in Procs, j \in Pages : j < sz[r] => mem'[pa'[r][j]] = mem[pa[r][j]]
    BY Zenon, <2>3 DEF c
  <2> QED BY Zenon, <2>3, <2>4, Unseen
<1>11. ASSUME NEW p \in Procs, NEW n \in 1 .. NPAGES, Grow(p, n) PROVE Abstract!Next
  <2>1. Abstract!Extend(p, n) /\ n \in 1 .. Len(View'[p]) - Len(View[p])
    BY Zenon, <1>11, GrowExtends
  <2> QED BY Zenon, <1>1, <2>1 DEF Abstract!Next
<1>12. ASSUME NEW p \in Procs, NEW n \in 1 .. NPAGES, Shrink(p, n) PROVE Abstract!Next
  <2>1. Abstract!Cut(p, sz[p] - n) /\ sz[p] - n \in DOMAIN View[p] BY Zenon, <1>12, ShrinkCuts
  <2> QED BY Zenon, <1>1, <2>1 DEF Abstract!Next
<1>13. ASSUME NEW p \in Procs, NEW v \in Val, Exec(p, v) PROVE Abstract!Next
  <2>1. Abstract!Load(p, Len(View'[p]), v) BY Zenon, <1>13, ExecLoads
  <2> QED BY Zenon, <1>1, <2>1 DEF Abstract!Next
<1>14. CASE UNCHANGED vars BY Zenon, <1>3, <1>14 DEF vars, space
<1>15. CASE Next
  BY Zenon, <1>2, <1>4, <1>5, <1>7, <1>8, <1>9, <1>10, <1>11, <1>12, <1>13, <1>15 DEF Next
<1> QED BY Zenon, <1>14, <1>15

\* Copy-on-write cannot be observed: for any number of processes, pages and frames
\* the memory system with shared frames, counts and faults implements private memory
\* that fork copies at once.
THEOREM SharingUnobservable == Spec => PrivateMemory
<1>1. Spec => Abstract!Init /\ [][Abstract!Next]_View
  BY ViewStart, ViewNext, CowInvariant, PTL DEF Spec
<1> QED BY <1>1 DEF PrivateMemory, Abstract!Spec
=============================================================================
