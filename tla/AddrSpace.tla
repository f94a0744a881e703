----------------------------- MODULE AddrSpace -----------------------------
(***************************************************************************)
(* What the memory system promises to programs: every process has memory   *)
(* of its own, a sequence of pages.  fork copies all of it at once; after  *)
(* that no process sees the stores of another.                             *)
(***************************************************************************)
EXTENDS Integers, Sequences

CONSTANTS NPROC, Val

VARIABLE mem      \* mem[p]: the pages of p; empty for a free slot

Procs == 1 .. NPROC

Init == /\ mem[1] \in Seq(Val) /\ mem[1] # <<>>
        /\ mem = [p \in Procs |-> IF p = 1 THEN mem[1] ELSE <<>>]

Fork(p, q) == mem[p] # <<>> /\ mem[q] = <<>> /\ mem' = [mem EXCEPT ![q] = mem[p]]

Write(p, i, v) == i \in DOMAIN mem[p] /\ mem' = [mem EXCEPT ![p][i] = v]

\* sbrk adds pages of zeros at the end, or takes pages away from it.
Extend(p, n) == mem[p] # <<>> /\ mem' = [mem EXCEPT ![p] = @ \o [i \in 1 .. n |-> 0]]
Cut(p, n) == n \in DOMAIN mem[p] /\ mem' = [mem EXCEPT ![p] = SubSeq(@, 1, n)]

\* exec: text pages, then a guard and a stack page of zeros.
Load(p, n, v) ==
  /\ mem[p] # <<>>
  /\ mem' = [mem EXCEPT ![p] = [i \in 1 .. n |-> IF i <= n - 2 THEN v ELSE 0]]

Release(p) == mem' = [mem EXCEPT ![p] = <<>>]

Next ==
  \E p \in Procs :
    \/ \E q \in Procs : Fork(p, q)
    \/ \E i \in DOMAIN mem[p], v \in Val : Write(p, i, v)
    \/ \E n \in 1 .. Len(mem'[p]) - Len(mem[p]) : Extend(p, n)
    \/ \E n \in DOMAIN mem[p] : Cut(p, n)
    \/ \E v \in Val : Load(p, Len(mem'[p]), v)
    \/ Release(p)

Spec == Init /\ [][Next]_mem
=============================================================================
