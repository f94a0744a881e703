------------------------------- MODULE Blocks -------------------------------
(***************************************************************************)
(* What the buffer cache promises: an array of blocks, each used by one    *)
(* process at a time, changed only by its user.                            *)
(***************************************************************************)
CONSTANTS Process, Block, Content, Nobody

VARIABLES content, holder

Init == content \in [Block -> Content] /\ holder = [k \in Block |-> Nobody]

Lock(p, k) ==
  /\ holder[k] = Nobody
  /\ holder' = [holder EXCEPT ![k] = p]
  /\ UNCHANGED content

Write(p, k, v) ==
  /\ holder[k] = p
  /\ content' = [content EXCEPT ![k] = v]
  /\ UNCHANGED holder

Unlock(p, k) ==
  /\ holder[k] = p
  /\ holder' = [holder EXCEPT ![k] = Nobody]
  /\ UNCHANGED content

Next ==
  \E k \in Block :
    \/ holder'[k] # holder[k] /\ \E p \in Process : Lock(p, k) \/ Unlock(p, k)
    \/ content'[k] # content[k] /\ \E p \in Process, v \in Content : Write(p, k, v)

Spec == Init /\ [][Next]_<<content, holder>>
=============================================================================
