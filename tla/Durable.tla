------------------------------ MODULE Durable ------------------------------
(***************************************************************************)
(* What the log promises to the file system: the system calls between      *)
(* begin_op and end_op change a set of disk blocks, and a crash leaves on  *)
(* the disk the changes of all the calls of a transaction or of none.      *)
(***************************************************************************)
CONSTANTS Op, Block, Val

VARIABLES
  disk,    \* what a restart would find
  cur,     \* what file system calls see
  active   \* calls that have begun and not ended

vars == <<disk, cur, active>>

Init ==
  /\ cur \in [Block -> Val]
  /\ disk = cur
  /\ active = {}

Begin(o) == o \notin active /\ active' = active \cup {o} /\ UNCHANGED <<disk, cur>>

Write(o, b, v) == o \in active /\ cur' = [cur EXCEPT ![b] = v] /\ UNCHANGED <<disk, active>>

End(o) == o \in active /\ active' = active \ {o} /\ UNCHANGED <<disk, cur>>

\* All the changes since the last commit reach the disk at once, and only when
\* no call is half way.
Commit == active = {} /\ disk' = cur /\ UNCHANGED <<cur, active>>

Crash == cur' = disk /\ active' = {} /\ UNCHANGED disk

Next ==
  \/ \E o \in Op : Begin(o) \/ End(o)
  \/ \E o \in Op, b \in Block, v \in Val : Write(o, b, v)
  \/ Commit
  \/ Crash

Spec == Init /\ [][Next]_vars
=============================================================================
