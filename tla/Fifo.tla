-------------------------------- MODULE Fifo --------------------------------
(***************************************************************************)
(* What a pipe or an output buffer promises: a bounded queue, of which     *)
(* each end may be closed for good.                                        *)
(***************************************************************************)
EXTENDS Integers, Sequences

CONSTANTS Item, Capacity

VARIABLES queue, readopen, writeopen

Init == queue = <<>> /\ readopen = TRUE /\ writeopen = TRUE

Put(v) ==
  /\ readopen /\ writeopen /\ Len(queue) < Capacity
  /\ queue' = Append(queue, v)
  /\ UNCHANGED <<readopen, writeopen>>

Get ==
  /\ readopen /\ queue # <<>>
  /\ queue' = Tail(queue)
  /\ UNCHANGED <<readopen, writeopen>>

CloseRead == readopen /\ readopen' = FALSE /\ UNCHANGED <<queue, writeopen>>

CloseWrite == writeopen /\ writeopen' = FALSE /\ UNCHANGED <<queue, readopen>>

Next ==
  \/ queue' # queue /\ (Get \/ \E v \in Item : Put(v))
  \/ CloseRead \/ CloseWrite

Spec == Init /\ [][Next]_<<queue, readopen, writeopen>>
=============================================================================
