----------------------------- MODULE RefCount -----------------------------
(***************************************************************************)
(* The reference counts of kalloc.c when operations overlap.  kmem.lock    *)
(* protects the free list; refCount is read and written outside it, so     *)
(* refIdx(pa)++ and refIdx(pa)-- are a load and a store with other CPUs    *)
(* (or, in the builds whose kernel yields on a timer interrupt, other      *)
(* processes) in between.  The test for zero in kfree uses the value just  *)
(* stored, as the optimised build does.                                    *)
(*                                                                         *)
(* A process holds a set of pages.  What it does with them is in Cow; here *)
(* it takes a page, shares one with a new child, or gives one up.          *)
(***************************************************************************)
EXTENDS Integers

CONSTANTS
  Proc,      \* processes
  Frame,     \* physical pages
  NoFrame, NoProc

VARIABLES
  held,       \* the pages each process has mapped
  refCount,
  freelist,
  op          \* what each process is doing: which step, on which page, the
              \* loaded count, and the child a page is being shared with

vars == <<held, refCount, freelist, op>>

Idle == [at |-> "idle", page |-> NoFrame, reg |-> 0, child |-> NoProc]

Counting == {"kalloc", "kfree", "refInc"}

\* kinit has put every page on the free list.
Init ==
  /\ held = [p \in Proc |-> {}]
  /\ refCount = [f \in Frame |-> 0]
  /\ freelist = Frame
  /\ op = [p \in Proc |-> Idle]

Busy == {p \in Proc : op[p].at \notin {"idle", "new"}}

Start(p, at, f, c) == op' = [op EXCEPT ![p] = [at |-> at, page |-> f, reg |-> 0, child |-> c]]

\* The locked part of kalloc.
KallocTake(p) ==
  /\ op[p].at = "idle"
  /\ \E f \in freelist :
       /\ freelist' = freelist \ {f}
       /\ Start(p, "kalloc", f, NoProc)
  /\ UNCHANGED <<held, refCount>>

\* fork's uvmcopy maps the page in a child that does not run yet, then calls
\* refInc.
Share(p) ==
  /\ op[p].at = "idle"
  /\ \E f \in held[p], c \in Proc \ {p} :
       /\ op[c].at = "idle" /\ held[c] = {}
       /\ held' = [held EXCEPT ![c] = {f}]
       /\ op' = [op EXCEPT ![p] = [at |-> "refInc", page |-> f, reg |-> 0, child |-> c],
                           ![c].at = "new"]
  /\ UNCHANGED <<refCount, freelist>>

\* A COW fault, exec, sbrk or exit stops using a page and calls kfree.
GiveUp(p) ==
  /\ op[p].at = "idle"
  /\ \E f \in held[p] :
       /\ held' = [held EXCEPT ![p] = @ \ {f}]
       /\ Start(p, "kfree", f, NoProc)
  /\ UNCHANGED <<refCount, freelist>>

\* The load of refIdx(pa).
Load(p) ==
  /\ op[p].at \in Counting
  /\ op' = [op EXCEPT ![p].reg = refCount[op[p].page],
                      ![p].at = CASE @ = "kalloc" -> "kalloc store"
                                  [] @ = "kfree" -> "kfree store"
                                  [] OTHER -> "refInc store"]
  /\ UNCHANGED <<held, refCount, freelist>>

KallocStore(p) ==
  /\ op[p].at = "kalloc store"
  /\ refCount' = [refCount EXCEPT ![op[p].page] = op[p].reg + 1]
  /\ held' = [held EXCEPT ![p] = @ \cup {op[p].page}]
  /\ op' = [op EXCEPT ![p] = Idle]
  /\ UNCHANGED freelist

\* The store of refInc; the child can run afterwards.
RefIncStore(p) ==
  /\ op[p].at = "refInc store"
  /\ refCount' = [refCount EXCEPT ![op[p].page] = op[p].reg + 1]
  /\ op' = [op EXCEPT ![p] = Idle, ![op[p].child] = Idle]
  /\ UNCHANGED <<held, freelist>>

KfreeStore(p) ==
  /\ op[p].at = "kfree store"
  /\ refCount' = [refCount EXCEPT ![op[p].page] = op[p].reg - 1]
  /\ op' = [op EXCEPT ![p] = IF op[p].reg - 1 = 0 THEN [@ EXCEPT !.at = "put"] ELSE Idle]
  /\ UNCHANGED <<held, freelist>>

\* The locked part of kfree.
KfreePut(p) ==
  /\ op[p].at = "put"
  /\ freelist' = freelist \cup {op[p].page}
  /\ op' = [op EXCEPT ![p] = Idle]
  /\ UNCHANGED <<held, refCount>>

Next ==
  \E p \in Proc :
    \/ KallocTake(p) \/ Share(p) \/ GiveUp(p)
    \/ Load(p)
    \/ KallocStore(p) \/ RefIncStore(p) \/ KfreeStore(p)
    \/ KfreePut(p)

Spec == Init /\ [][Next]_vars

-----------------------------------------------------------------------------
\* When no operation is in progress, a page that nobody has mapped is free: no
\* free page is lost.
NoLostPages ==
  Busy = {} => Frame = freelist \cup UNION {held[p] : p \in Proc}
=============================================================================
