------------------------------- MODULE DiskIO -------------------------------
(***************************************************************************)
(* What virtio_disk_rw promises its callers: a block moves between a       *)
(* buffer and the disk, once, between the call and its return.             *)
(***************************************************************************)
CONSTANTS User, Buf, Blk, Val, None

VARIABLES disk, bdata, rw

NoRw == [stage |-> "out", b |-> None, blk |-> None, write |-> FALSE]

IoInit ==
  /\ disk \in [Blk -> Val] /\ bdata \in [Buf -> Val]
  /\ rw = [p \in User |-> NoRw]

RwCall(p, b, k, w, v) ==
  /\ rw[p].stage = "out"
  /\ rw' = [rw EXCEPT ![p] = [stage |-> "asked", b |-> b, blk |-> k, write |-> w]]
  /\ bdata' = [bdata EXCEPT ![b] = v]
  /\ UNCHANGED disk

Transfer(p) ==
  /\ rw[p].stage = "asked"
  /\ disk' = IF rw[p].write THEN [disk EXCEPT ![rw[p].blk] = bdata[rw[p].b]] ELSE disk
  /\ bdata' = IF rw[p].write THEN bdata ELSE [bdata EXCEPT ![rw[p].b] = disk[rw[p].blk]]
  /\ rw' = [rw EXCEPT ![p].stage = "moved"]

RwReturn(p) ==
  /\ rw[p].stage = "moved"
  /\ rw' = [rw EXCEPT ![p] = NoRw]
  /\ UNCHANGED <<disk, bdata>>

IoNext ==
  \E p \in User :
    /\ rw'[p].stage # rw[p].stage
    /\ \/ \E b \in Buf, k \in Blk, w \in BOOLEAN, v \in Val : RwCall(p, b, k, w, v)
       \/ Transfer(p) \/ RwReturn(p)

IoSpec == IoInit /\ [][IoNext]_<<disk, bdata, rw>>
=============================================================================
