------------------------------- MODULE Virtio -------------------------------
(***************************************************************************)
(* kernel/virtio_disk.c and the disk it drives: descriptors, the avail and *)
(* used rings, completions in any order, and the completion interrupt.     *)
(* The sections of virtio_disk_rw between two sleeps are one step each;    *)
(* the handler, which races with the device, takes one step per            *)
(* completion.  NUM, fixed at Init, is one of Sizes; the 16-bit ring       *)
(* indices wrap at a multiple of it, RingMod; a ring entry its reader has  *)
(* passed is NoReq.  A caller holds the sleep-lock of its block's buffer,  *)
(* so buffer and block are named after the caller.                         *)
(***************************************************************************)
EXTENDS Integers, Sequences, FiniteSets, SequencesExt

CONSTANTS
  Caller,    \* processes that call the driver, their buffers and their blocks
  Datum,     \* contents of a block
  NoReq,
  Sizes, Rounds

ASSUME VirtioAssumption ==
  /\ \A n \in Sizes : n \in Nat /\ n >= 3
  /\ Rounds \in Nat \ {0}
  /\ NoReq \notin Caller

VARIABLES
  NUM,                         \* descriptors, and entries of each ring
  sector,                      \* the blocks of the disk
  vdata, bdisk,                \* b->data, b->disk
  free, next,                  \* descriptors: free, and the chains
  info,                        \* requests by first descriptor: b, write, status
  avail, avail_idx, used, dev_used_idx, used_idx,
  taken, inflight,             \* the device: avail entries seen, requests it works on
  vdisk_irq, handling,         \* interrupt pending; virtio_disk_intr has vdisk_lock
  vpc, vwrite, vhead,          \* a call: where it is, write or read, first descriptor
  vpanic

rings  == <<avail, avail_idx, used, dev_used_idx, used_idx, taken, inflight>>
driver == <<free, next, info>>
vcall  == <<vpc, vwrite, vhead>>
virtioVars == <<NUM, sector, vdata, bdisk, driver, rings, vdisk_irq, handling, vcall, vpanic>>

RingMod == Rounds * NUM
Desc == 0 .. NUM - 1
EmptyReq == [b |-> NoReq, write |-> FALSE, status |-> 0]

VirtioInit ==
  /\ NUM \in Sizes
  /\ \E v \in Datum : sector = [k \in Caller |-> v] /\ vdata = [b \in Caller |-> v]
  /\ bdisk = [b \in Caller |-> FALSE]
  /\ free = [i \in Desc |-> TRUE] /\ next = [i \in Desc |-> NoReq]
  /\ info = [i \in Desc |-> EmptyReq]
  /\ avail = [i \in Desc |-> NoReq] /\ avail_idx = 0
  /\ used = [i \in Desc |-> NoReq] /\ dev_used_idx = 0 /\ used_idx = 0
  /\ taken = 0 /\ inflight = {}
  /\ vdisk_irq = FALSE /\ handling = FALSE
  /\ vpc = [p \in Caller |-> "out"] /\ vwrite = [p \in Caller |-> FALSE]
  /\ vhead = [p \in Caller |-> NoReq]
  /\ vpanic = FALSE

Step(i) == (i + 1) % RingMod

-----------------------------------------------------------------------------
(* The driver.                                                               *)

\* free_desc wakes those that wait for descriptors.
WakeFree(f) == [p \in Caller |-> IF f[p] = "desc_sleep" THEN "desc" ELSE f[p]]

\* The three lowest free descriptors, in the order alloc_desc finds them.
Alloc3 ==
  LET fr == {i \in Desc : free[i]}
      a == Min(fr)  b == Min(fr \ {a})  c == Min(fr \ {a, b})
  IN  <<a, b, c>>

\* virtio_disk_rw is called; buffer and block differ, so that a transfer shows.
RwBegin(p) ==
  /\ vpc[p] = "out"
  /\ \E w \in BOOLEAN : vwrite' = [vwrite EXCEPT ![p] = w]
  /\ \E v \in Datum \ {sector[p]} : vdata' = [vdata EXCEPT ![p] = v]
  /\ vpc' = [vpc EXCEPT ![p] = "desc"]
  /\ UNCHANGED <<sector, bdisk, driver, rings, vdisk_irq, handling, vhead, vpanic>>

Enough == Cardinality({i \in Desc : free[i]}) >= 3

\* alloc3_desc fails: what it took is freed, which wakes the other sleepers.
NoDesc(p) ==
  /\ vpc[p] = "desc" /\ ~handling /\ ~Enough
  /\ vpc' = [(IF \E i \in Desc : free[i] THEN WakeFree(vpc) ELSE vpc) EXCEPT ![p] = "desc_sleep"]
  /\ UNCHANGED <<sector, vdata, bdisk, driver, rings, vdisk_irq, handling, vwrite, vhead, vpanic>>

\* The request is described, published and the device notified.
Submit(p) ==
  LET c == Alloc3 IN
  /\ vpc[p] = "desc" /\ ~handling /\ Enough
  /\ free' = [free EXCEPT ![c[1]] = FALSE, ![c[2]] = FALSE, ![c[3]] = FALSE]
  /\ next' = [next EXCEPT ![c[1]] = c[2], ![c[2]] = c[3], ![c[3]] = NoReq]
  /\ info' = [info EXCEPT ![c[1]] = [b |-> p, write |-> vwrite[p], status |-> 255]]
  /\ bdisk' = [bdisk EXCEPT ![p] = TRUE]
  /\ avail' = [avail EXCEPT ![avail_idx % NUM] = c[1]]
  /\ avail_idx' = Step(avail_idx)
  /\ vhead' = [vhead EXCEPT ![p] = c[1]]
  /\ vpc' = [vpc EXCEPT ![p] = "io_sleep"]
  /\ UNCHANGED <<sector, vdata, used, dev_used_idx, used_idx, taken, inflight, vdisk_irq, handling,
                 vwrite, vpanic>>

\* Mutation: whoever is woken returns.
Impatient(p) == TRUE

IoFinished(p) == ~bdisk[p]

\* Woken: look at b->disk again.
SleepAgain(p) ==
  /\ vpc[p] = "io" /\ ~handling /\ ~IoFinished(p)
  /\ vpc' = [vpc EXCEPT ![p] = "io_sleep"]
  /\ UNCHANGED <<sector, vdata, bdisk, driver, rings, vdisk_irq, handling, vwrite, vhead, vpanic>>

\* kill() makes a sleeping process run, whatever it waits for.
KillWakes(p) ==
  /\ vpc[p] \in {"desc_sleep", "io_sleep"}
  /\ vpc' = [vpc EXCEPT ![p] = IF @ = "io_sleep" THEN "io" ELSE "desc"]
  /\ UNCHANGED <<sector, vdata, bdisk, driver, rings, vdisk_irq, handling, vwrite, vhead, vpanic>>

\* free_chain: the descriptors reached from h through next.
Chain(h) == {h, next[h], next[next[h]]}

\* The request has finished: free_chain, and return.
RwEnd(p) ==
  /\ vpc[p] = "io" /\ ~handling /\ IoFinished(p)
  /\ vpanic' = (vpanic \/ \E i \in Chain(vhead[p]) : free[i])
  /\ free' = [i \in Desc |-> free[i] \/ i \in Chain(vhead[p])]
  /\ next' = [i \in Desc |-> IF i \in Chain(vhead[p]) THEN NoReq ELSE next[i]]
  /\ info' = [info EXCEPT ![vhead[p]] = EmptyReq]
  /\ vpc' = [WakeFree(vpc) EXCEPT ![p] = "out"]
  /\ vwrite' = [vwrite EXCEPT ![p] = FALSE] /\ vhead' = [vhead EXCEPT ![p] = NoReq]
  /\ UNCHANGED <<sector, vdata, bdisk, rings, vdisk_irq, handling>>

-----------------------------------------------------------------------------
(* The device: it takes requests in order and completes them in any order.   *)

DevTake ==
  /\ taken # avail_idx
  /\ inflight' = inflight \cup {avail[taken % NUM]}
  /\ avail' = [avail EXCEPT ![taken % NUM] = NoReq]
  /\ taken' = Step(taken)
  /\ UNCHANGED <<sector, vdata, bdisk, driver, avail_idx, used, dev_used_idx, used_idx,
                 vdisk_irq, handling, vcall, vpanic>>

DevDone(h) ==
  /\ h \in inflight
  /\ inflight' = inflight \ {h}
  /\ \/ info[h].write /\ sector' = [sector EXCEPT ![info[h].b] = vdata[info[h].b]] /\ UNCHANGED vdata
     \/ ~info[h].write /\ vdata' = [vdata EXCEPT ![info[h].b] = sector[info[h].b]] /\ UNCHANGED sector
  /\ info' = [info EXCEPT ![h].status = 0]
  /\ used' = [used EXCEPT ![dev_used_idx % NUM] = h]
  /\ dev_used_idx' = Step(dev_used_idx)
  /\ vdisk_irq' = TRUE
  /\ UNCHANGED <<bdisk, free, next, avail, avail_idx, used_idx, taken, handling, vcall, vpanic>>

Device == DevTake \/ \E h \in inflight : DevDone(h)

-----------------------------------------------------------------------------
(* virtio_disk_intr.                                                         *)

IntrBegin ==
  /\ vdisk_irq /\ ~handling
  /\ vdisk_irq' = FALSE /\ handling' = TRUE
  /\ UNCHANGED <<sector, vdata, bdisk, driver, rings, vcall, vpanic>>

WakeBuf(b) ==
  [p \in Caller |-> IF p = b /\ vpc[p] = "io_sleep" THEN "io" ELSE vpc[p]]

IntrNext ==
  LET id == used[used_idx % NUM] IN
  /\ handling /\ used_idx # dev_used_idx
  /\ vpanic' = (vpanic \/ info[id].status # 0 \/ info[id].b = NoReq)
  /\ bdisk' = [bdisk EXCEPT ![info[id].b] = FALSE]
  /\ vpc' = WakeBuf(info[id].b)
  /\ used' = [used EXCEPT ![used_idx % NUM] = NoReq]
  /\ used_idx' = Step(used_idx)
  /\ UNCHANGED <<sector, vdata, driver, avail, avail_idx, dev_used_idx, taken, inflight,
                 vdisk_irq, handling, vwrite, vhead>>

\* Mutation: the handler stops after one completion.
EndAfterOne == TRUE

AllSeen == used_idx = dev_used_idx

VdiskIntrEnd ==
  /\ handling /\ AllSeen
  /\ handling' = FALSE
  /\ UNCHANGED <<sector, vdata, bdisk, driver, rings, vdisk_irq, vcall, vpanic>>

DiskIntr == IntrBegin \/ IntrNext \/ VdiskIntrEnd

Rw(p) == NoDesc(p) \/ Submit(p) \/ SleepAgain(p) \/ RwEnd(p)

VirtioNext ==
  /\ (\E p \in Caller : RwBegin(p) \/ KillWakes(p) \/ Rw(p)) \/ Device \/ DiskIntr
  /\ UNCHANGED NUM

-----------------------------------------------------------------------------
VirtioTypeOK ==
  /\ sector \in [Caller -> Datum] /\ vdata \in [Caller -> Datum] /\ bdisk \in [Caller -> BOOLEAN]
  /\ free \in [Desc -> BOOLEAN] /\ next \in [Desc -> Desc \cup {NoReq}]
  /\ avail \in [Desc -> Desc \cup {NoReq}] /\ used \in [Desc -> Desc \cup {NoReq}] /\ inflight \subseteq Desc
  /\ {avail_idx, dev_used_idx, used_idx, taken} \subseteq 0 .. RingMod - 1
  /\ vpc \in [Caller -> {"out", "desc", "desc_sleep", "io", "io_sleep"}]
  /\ vhead \in [Caller -> Desc \cup {NoReq}]

Pending == {p \in Caller : vhead[p] # NoReq}

\* Every descriptor is free or in the chain of exactly one request: none leaks,
\* so a request that waits for three gets them, and none is freed twice.
DescriptorsExact ==
  /\ {i \in Desc : ~free[i]} = UNION {Chain(vhead[p]) : p \in Pending}
  /\ \A p, q \in Pending : p # q => Chain(vhead[p]) \cap Chain(vhead[q]) = {}

\* A completion names a request with status 0 and a buffer, and no descriptor is
\* freed twice: the panics of virtio_disk_intr and free_desc cannot happen.
DriverNeverPanics == ~vpanic

Stage(p) ==
  IF vpc[p] = "out" THEN "out"
  ELSE IF vhead[p] # NoReq /\ info[vhead[p]].status = 0 THEN "moved" ELSE "asked"

IO == INSTANCE DiskIO WITH
  User <- Caller, Buf <- Caller, Blk <- Caller, Val <- Datum, None <- NoReq,
  disk <- sector, bdata <- vdata,
  rw <- [p \in Caller |-> [stage |-> Stage(p), b |-> IF vpc[p] = "out" THEN NoReq ELSE p,
                         blk |-> IF vpc[p] = "out" THEN NoReq ELSE p, write |-> vwrite[p]]]

\* virtio_disk_rw moves the block it was asked to move, exactly once, before it
\* returns, whatever the order of completions and interrupts and however the
\* ring indices wrap.
TransfersOnce == IO!IoSpec

\* Whoever sleeps in virtio_disk_rw will be woken: for descriptors only while fewer
\* than three are free, and for a request only while the device has it, or while
\* its completion waits for an interrupt that is pending or being handled.
SleepersHaveRequests ==
  \A p \in Caller :
    /\ vpc[p] = "desc_sleep" => ~Enough
    /\ vpc[p] = "io_sleep" =>
         /\ bdisk[p]
         /\ \/ vhead[p] \in inflight
            \/ \E i \in Desc : avail[i] = vhead[p]
            \/ (vdisk_irq \/ handling) /\ \E i \in Desc : used[i] = vhead[p]

\* Driver and device agree on who owns which descriptor, so that nobody panics or
\* sleeps for ever.
DriverExact ==
  VirtioTypeOK /\ DescriptorsExact /\ DriverNeverPanics /\ SleepersHaveRequests
=============================================================================
