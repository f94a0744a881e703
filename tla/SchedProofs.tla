----------------------------- MODULE SchedProofs -----------------------------
(***************************************************************************)
(* Proofs about Sched, for every number of harts and slots: a process runs *)
(* on one hart at most in the FCFS, PBS and LBS builds too, and the harts  *)
(* hold exactly the process locks they should.                             *)
(***************************************************************************)
EXTENDS Sched, WellFoundedInduction, TLAPS

States == {"UNUSED", "RUNNABLE", "RUNNING", "SLEEPING", "ZOMBIE"}
Phases == {"scan", "try", "swtch", "run", "yield", "back"}

KType ==
  /\ build \in {"FCFS", "PBS", "LBS"}
  /\ st \in [Slot -> States]
  /\ plock \in [Slot -> CPU \cup {Nobody}]
  /\ hpc \in [CPU -> Phases]
  /\ hat \in [CPU -> Nat \ {0}] /\ hmin \in [CPU -> Slot \cup {None}]

\* FCFS always has a p_least_time; a hart that switches has a process to switch to.
KMin ==
  /\ build = "FCFS" => \A c \in CPU : hmin[c] # None
  /\ \A c \in CPU : hpc[c] # "scan" => hmin[c] # None
  /\ \A c \in CPU : hpc[c] = "try" => build = "FCFS"

\* minproc stays RUNNABLE while its lock is held through the scan.
KRunnable ==
  \A c \in CPU : build = "PBS" /\ hpc[c] = "scan" /\ hmin[c] # None => st[hmin[c]] = "RUNNABLE"

KInv == KType /\ KMin /\ KRunnable /\ SchedLocksExact /\ RunsOnOneHart

\* The initial states satisfy the invariant.
LEMMA SchedInitInv == SchedInit => KInv
<1> SUFFICES ASSUME SchedInit PROVE KInv OBVIOUS
<1> USE SchedAssumption DEF SchedInit, Slot, None
<1>1. KType BY DEF KType, States, Phases
<1>2. KMin BY DEF KMin
<1>3. KRunnable BY Zenon DEF KRunnable
<1>4. SchedLocksExact BY DEF SchedLocksExact
<1>5. RunsOnOneHart BY Zenon DEF RunsOnOneHart, OnHart
<1> QED BY Zenon, <1>1, <1>2, <1>3, <1>4, <1>5 DEF KInv

\* The first free slot is a free slot.
LEMMA MinIn ==
  ASSUME NEW S \in SUBSET Nat, S # {}
  PROVE  Min(S) \in S
<1>1. \E x \in S : \A y \in S : ~(<<y, x>> \in OpToRel(<, Nat))
  BY Zenon, WFMin, NatLessThanWellFounded
<1>2. PICK x \in S : \A y \in S : ~(<<y, x>> \in OpToRel(<, Nat)) BY Zenon, <1>1
<1>3. ASSUME NEW y \in S, ~(x <= y) PROVE FALSE
  <2>1. y < x /\ x \in Nat /\ y \in Nat BY <1>3
  <2>2. <<y, x>> \in {ss \in Nat \X Nat : ss[1] < ss[2]} BY Zenon, <2>1
  <2>3. <<y, x>> \in OpToRel(<, Nat) BY <2>2, Zenon DEF OpToRel
  <2> QED BY Zenon, <1>2, <2>3
<1> QED BY Zenon, <1>2, <1>3 DEF Min

\* RunsOnOneHart is kept when no process starts or stops running...
LEMMA RunsSame ==
  ASSUME RunsOnOneHart,
         \A s \in Slot : st'[s] = "RUNNING" <=> st[s] = "RUNNING",
         \A d \in CPU : (OnHart(d)' <=> OnHart(d)) /\ (OnHart(d) => hmin'[d] = hmin[d])
  PROVE  RunsOnOneHart'
BY Zenon DEF RunsOnOneHart

\* ... when hart c starts one that ran nowhere...
LEMMA RunsMore ==
  ASSUME RunsOnOneHart, KType, NEW c \in CPU, NEW m \in Slot, ~OnHart(c), st[m] # "RUNNING",
         OnHart(c)', hmin'[c] = m, st' = [st EXCEPT ![m] = "RUNNING"],
         \A d \in CPU \ {c} : (OnHart(d)' <=> OnHart(d)) /\ hmin'[d] = hmin[d]
  PROVE  RunsOnOneHart'
<1>1. \A d \in CPU \ {c} : OnHart(d) => hmin[d] # m BY Zenon DEF RunsOnOneHart
<1>2. ASSUME NEW s \in Slot PROVE st'[s] = "RUNNING" <=> \E d \in CPU : OnHart(d)' /\ hmin'[d] = s
  <2>1. CASE s = m BY Zenon, <2>1 DEF KType
  <2>2. CASE s # m
    <3>1. st'[s] = st[s] BY Zenon, <2>2 DEF KType
    <3>2. st[s] = "RUNNING" <=> \E d \in CPU : OnHart(d) /\ hmin[d] = s
      BY Zenon DEF RunsOnOneHart
    <3> QED BY Zenon, <2>2, <3>1, <3>2
  <2> QED BY Zenon, <2>1, <2>2
<1>3. ASSUME NEW d \in CPU, NEW e \in CPU, d # e, OnHart(d)', OnHart(e)' PROVE hmin'[d] # hmin'[e]
  BY <1>1, <1>3 DEF RunsOnOneHart
<1> QED BY Zenon, <1>2, <1>3 DEF RunsOnOneHart

\* ... and when hart c stops the one it ran.
LEMMA RunsLess ==
  ASSUME RunsOnOneHart, KType, NEW c \in CPU, NEW s2, s2 # "RUNNING", OnHart(c), ~OnHart(c)',
         hmin[c] \in Slot, st' = [st EXCEPT ![hmin[c]] = s2], UNCHANGED hmin,
         \A d \in CPU \ {c} : OnHart(d)' <=> OnHart(d)
  PROVE  RunsOnOneHart'
<1>1. \A d \in CPU \ {c} : OnHart(d) => hmin[d] # hmin[c] BY Zenon DEF RunsOnOneHart
<1>2. ASSUME NEW s \in Slot PROVE st'[s] = "RUNNING" <=> \E d \in CPU : OnHart(d)' /\ hmin'[d] = s
  <2>1. CASE s = hmin[c] BY Zenon, <1>1, <2>1 DEF KType
  <2>2. CASE s # hmin[c]
    <3>1. st'[s] = st[s] BY Zenon, <2>2 DEF KType
    <3>2. st[s] = "RUNNING" <=> \E d \in CPU : OnHart(d) /\ hmin[d] = s
      BY Zenon DEF RunsOnOneHart
    <3> QED BY Zenon, <2>2, <3>1, <3>2
  <2> QED BY Zenon, <2>1, <2>2
<1>3. ASSUME NEW d \in CPU, NEW e \in CPU, d # e, OnHart(d)', OnHart(e)' PROVE hmin'[d] # hmin'[e]
  BY Zenon, <1>3 DEF RunsOnOneHart
<1> QED BY Zenon, <1>2, <1>3 DEF RunsOnOneHart

\* A step of the PBS scan.
LEMMA PbsScanInv ==
  ASSUME KInv, NEW c \in CPU, PbsScan(c)
  PROVE  KInv'
<1> USE SchedAssumption DEF Slot, None
<1>1. KType /\ KMin /\ KRunnable /\ SchedLocksExact /\ RunsOnOneHart BY Zenon DEF KInv
<1> DEFINE s == hat[c]
           m == hmin[c]
<1>2. /\ build = "PBS" /\ hpc[c] = "scan" /\ s \in Slot /\ plock[s] = Nobody
      /\ hat' = [hat EXCEPT ![c] = s + 1] /\ UNCHANGED <<build, st, hpc>>
  BY <1>1 DEF PbsScan, Free, KType
<1>3. \/ /\ st[s] = "RUNNABLE" /\ hmin' = [hmin EXCEPT ![c] = s]
         /\ m = None => plock' = [plock EXCEPT ![s] = c]
         /\ m # None => plock' = [plock EXCEPT ![s] = c, ![m] = Nobody]
      \/ UNCHANGED <<plock, hmin>>
  BY Zenon DEF PbsScan, NewMin, Held
<1>4. m # None => m \in Slot /\ m # s /\ plock[m] = c
  BY <1>1, <1>2 DEF KType, SchedLocksExact
<1>5. KType'
  <2> HIDE DEF Slot, None
  <2>1. /\ st \in [Slot -> States] /\ plock \in [Slot -> CPU \cup {Nobody}] /\ hpc \in [CPU -> Phases]
        /\ hat \in [CPU -> Nat \ {0}] /\ hmin \in [CPU -> Slot \cup {None}]
    BY Zenon, <1>1 DEF KType
  <2>2. st' \in [Slot -> States] BY Zenon, <1>2, <1>3, <1>4, <2>1 DEF States
  <2>3. plock' \in [Slot -> CPU \cup {Nobody}] BY <1>2, <1>3, <1>4, <2>1
  <2>4. hpc' \in [CPU -> Phases] BY Zenon, <1>2, <1>3, <1>4, <2>1 DEF Phases
  <2>5. hat' \in [CPU -> Nat \ {0}] BY <1>2, <1>3, <1>4, <2>1
  <2>6. hmin' \in [CPU -> Slot \cup {None}] BY Zenon, <1>2, <1>3, <1>4, <2>1
  <2> QED BY Zenon, <1>1, <1>2, <2>2, <2>3, <2>4, <2>5, <2>6 DEF KType
<1>6. KMin' BY Zenon, <1>1, <1>2, <1>3, <1>4 DEF KType, KMin
<1>7. KRunnable' BY <1>1, <1>2, <1>3, <1>4 DEF KType, KMin, KRunnable, SchedLocksExact,
   RunsOnOneHart, OnHart
<1>8. SchedLocksExact' BY <1>1, <1>2, <1>3, <1>4 DEF KType, KMin, SchedLocksExact
<1>9. RunsOnOneHart'
  <2>1. \A d \in CPU : (OnHart(d)' <=> OnHart(d)) /\ (OnHart(d) => hmin'[d] = hmin[d])
    BY Zenon, <1>1, <1>2, <1>3, <1>4 DEF KType, OnHart
  <2>2. \A q \in Slot : st'[q] = "RUNNING" <=> st[q] = "RUNNING"
    BY Zenon, <1>1, <1>2, <1>3, <1>4 DEF KType
  <2> QED BY Zenon, <1>1, <2>1, <2>2, RunsSame
<1> QED BY Zenon, <1>5, <1>6, <1>7, <1>8, <1>9 DEF KInv

\* The PBS scan ends.
LEMMA PbsSwitchInv ==
  ASSUME KInv, NEW c \in CPU, PbsSwitch(c)
  PROVE  KInv'
<1> USE SchedAssumption DEF Slot, None
<1>1. KType /\ KMin /\ KRunnable /\ SchedLocksExact /\ RunsOnOneHart BY Zenon DEF KInv
<1> DEFINE m == hmin[c]
<1>2. build = "PBS" /\ hpc[c] = "scan" /\ UNCHANGED <<build, plock>> BY Zenon DEF PbsSwitch
<1>3. \/ /\ m # None /\ st' = [st EXCEPT ![m] = "RUNNING"]
         /\ hpc' = [hpc EXCEPT ![c] = "swtch"] /\ UNCHANGED <<hat, hmin>>
      \/ /\ m = None /\ hat' = [hat EXCEPT ![c] = 1] /\ hmin' = [hmin EXCEPT ![c] = None]
         /\ UNCHANGED <<st, hpc>>
  BY Zenon, <1>2 DEF PbsSwitch, Rescan
<1>4. m # None => m \in Slot /\ st[m] = "RUNNABLE" /\ plock[m] = c
  BY <1>1, <1>2 DEF KType, KRunnable, SchedLocksExact
<1>5. KType'
  <2> HIDE DEF Slot, None
  <2>1. /\ st \in [Slot -> States] /\ plock \in [Slot -> CPU \cup {Nobody}] /\ hpc \in [CPU -> Phases]
        /\ hat \in [CPU -> Nat \ {0}] /\ hmin \in [CPU -> Slot \cup {None}]
    BY Zenon, <1>1 DEF KType
  <2>2. st' \in [Slot -> States] BY Zenon, <1>2, <1>3, <1>4, <2>1 DEF States
  <2>3. plock' \in [Slot -> CPU \cup {Nobody}] BY Zenon, <1>2, <1>3, <1>4, <2>1
  <2>4. hpc' \in [CPU -> Phases] BY Zenon, <1>2, <1>3, <1>4, <2>1 DEF Phases
  <2>5. hat' \in [CPU -> Nat \ {0}] BY <1>2, <1>3, <1>4, <2>1
  <2>6. hmin' \in [CPU -> Slot \cup {None}] BY Zenon, <1>2, <1>3, <1>4, <2>1
  <2> QED BY Zenon, <1>1, <1>2, <2>2, <2>3, <2>4, <2>5, <2>6 DEF KType
<1>6. KMin' BY <1>1, <1>2, <1>3, <1>4 DEF KType, KMin
<1>7. KRunnable' BY <1>1, <1>2, <1>3, <1>4 DEF KType, KMin, KRunnable, SchedLocksExact,
   RunsOnOneHart, OnHart
<1>8. SchedLocksExact' BY <1>1, <1>2, <1>3, <1>4 DEF KType, KMin, SchedLocksExact
<1>9. RunsOnOneHart'
  <2>1. CASE hmin[c] # None
    <3>1. /\ m \in Slot /\ ~OnHart(c) /\ OnHart(c)' /\ hmin'[c] = m
          /\ st[m] # "RUNNING" /\ st' = [st EXCEPT ![m] = "RUNNING"]
      BY Zenon, <1>1, <1>2, <1>3, <1>4, <2>1 DEF OnHart, KType
    <3>2. \A d \in CPU \ {c} : (OnHart(d)' <=> OnHart(d)) /\ hmin'[d] = hmin[d]
      BY Zenon, <1>1, <1>2, <1>3, <1>4, <2>1 DEF OnHart, KType
    <3> QED BY ZenonT(30), <1>1, <3>1, <3>2, RunsMore
  <2>2. CASE ~(hmin[c] # None)
    <3>1. \A d \in CPU : (OnHart(d)' <=> OnHart(d)) /\ (OnHart(d) => hmin'[d] = hmin[d])
      BY Zenon, <1>1, <1>2, <1>3, <1>4, <2>2 DEF OnHart, KType
    <3>2. UNCHANGED st BY Zenon, <1>1, <1>2, <1>3, <1>4, <2>2
    <3> QED BY Zenon, <1>1, <3>1, <3>2, RunsSame
  <2> QED BY Zenon, <2>1, <2>2
<1> QED BY Zenon, <1>5, <1>6, <1>7, <1>8, <1>9 DEF KInv

\* FCFS looks at a process without its lock.
LEMMA FcfsLookInv ==
  ASSUME KInv, NEW c \in CPU, FcfsLook(c)
  PROVE  KInv'
<1> USE SchedAssumption DEF Slot, None
<1>1. KType /\ KMin /\ KRunnable /\ SchedLocksExact /\ RunsOnOneHart BY Zenon DEF KInv
<1>2. /\ build = "FCFS" /\ hpc[c] = "scan" /\ hat[c] \in Slot
      /\ hpc' = [hpc EXCEPT ![c] = "try"] /\ UNCHANGED <<build, st, plock, hat>>
  BY <1>1 DEF FcfsLook, KType
<1>3. hmin' = [hmin EXCEPT ![c] = hat[c]] \/ UNCHANGED hmin BY Zenon DEF FcfsLook
<1>4. KType'
  <2> HIDE DEF Slot, None
  <2>1. /\ st \in [Slot -> States] /\ plock \in [Slot -> CPU \cup {Nobody}] /\ hpc \in [CPU -> Phases]
        /\ hat \in [CPU -> Nat \ {0}] /\ hmin \in [CPU -> Slot \cup {None}]
    BY Zenon, <1>1 DEF KType
  <2>2. st' \in [Slot -> States] BY Zenon, <1>2, <1>3, <2>1 DEF States
  <2>3. plock' \in [Slot -> CPU \cup {Nobody}] BY Zenon, <1>2, <1>3, <2>1
  <2>4. hpc' \in [CPU -> Phases] BY Zenon, <1>2, <1>3, <2>1 DEF Phases
  <2>5. hat' \in [CPU -> Nat \ {0}] BY Zenon, <1>2, <1>3, <2>1
  <2>6. hmin' \in [CPU -> Slot \cup {None}] BY Zenon, <1>2, <1>3, <2>1
  <2> QED BY Zenon, <1>1, <1>2, <2>2, <2>3, <2>4, <2>5, <2>6 DEF KType
<1>5. KMin' BY Zenon, <1>1, <1>2, <1>3 DEF KType, KMin
<1>6. KRunnable' BY Zenon, <1>1, <1>2, <1>3 DEF KType, KMin, KRunnable, SchedLocksExact,
   RunsOnOneHart, OnHart
<1>7. SchedLocksExact' BY <1>1, <1>2, <1>3 DEF KType, KMin, SchedLocksExact
<1>8. RunsOnOneHart'
  <2>1. \A d \in CPU : (OnHart(d)' <=> OnHart(d)) /\ (OnHart(d) => hmin'[d] = hmin[d])
    BY Zenon, <1>1, <1>2, <1>3 DEF KType, OnHart
  <2>2. \A q \in Slot : st'[q] = "RUNNING" <=> st[q] = "RUNNING"
    BY Zenon, <1>1, <1>2, <1>3 DEF KType
  <2> QED BY Zenon, <1>1, <2>1, <2>2, RunsSame
<1> QED BY Zenon, <1>4, <1>5, <1>6, <1>7, <1>8 DEF KInv

\* FCFS tries the process it chose.
LEMMA FcfsTryInv ==
  ASSUME KInv, NEW c \in CPU, FcfsTry(c)
  PROVE  KInv'
<1> USE SchedAssumption DEF Slot, None
<1>1. KType /\ KMin /\ KRunnable /\ SchedLocksExact /\ RunsOnOneHart BY Zenon DEF KInv
<1> DEFINE m == hmin[c]
<1>2. /\ build = "FCFS" /\ hpc[c] = "try" /\ m \in Slot /\ plock[m] = Nobody
      /\ hat' = [hat EXCEPT ![c] = @ + 1] /\ UNCHANGED <<build, hmin>>
  BY Zenon, <1>1 DEF FcfsTry, Free, KType, KMin
<1>3. \/ /\ st[m] = "RUNNABLE" /\ st' = [st EXCEPT ![m] = "RUNNING"]
         /\ plock' = [plock EXCEPT ![m] = c] /\ hpc' = [hpc EXCEPT ![c] = "swtch"]
      \/ hpc' = [hpc EXCEPT ![c] = "scan"] /\ UNCHANGED <<st, plock>>
  BY ZenonT(30) DEF FcfsTry, StillRunnable, Held
<1>4. KType'
  <2> HIDE DEF Slot, None
  <2>1. /\ st \in [Slot -> States] /\ plock \in [Slot -> CPU \cup {Nobody}] /\ hpc \in [CPU -> Phases]
        /\ hat \in [CPU -> Nat \ {0}] /\ hmin \in [CPU -> Slot \cup {None}]
    BY Zenon, <1>1 DEF KType
  <2>2. st' \in [Slot -> States] BY <1>2, <1>3, <2>1 DEF States
  <2>3. plock' \in [Slot -> CPU \cup {Nobody}] BY <1>2, <1>3, <2>1
  <2>4. hpc' \in [CPU -> Phases] BY <1>2, <1>3, <2>1 DEF Phases
  <2>5. hat' \in [CPU -> Nat \ {0}] BY <1>2, <1>3, <2>1
  <2>6. hmin' \in [CPU -> Slot \cup {None}] BY Zenon, <1>2, <1>3, <2>1
  <2> QED BY Zenon, <1>1, <1>2, <2>2, <2>3, <2>4, <2>5, <2>6 DEF KType
<1>5. KMin' BY Zenon, <1>1, <1>2, <1>3 DEF KType, KMin
<1>6. KRunnable' BY Zenon, <1>1, <1>2, <1>3 DEF KType, KMin, KRunnable, SchedLocksExact,
   RunsOnOneHart, OnHart
<1>7. SchedLocksExact' BY <1>1, <1>2, <1>3 DEF KType, KMin, SchedLocksExact
<1>8. RunsOnOneHart'
  <2>1. CASE hpc' = [hpc EXCEPT ![c] = "swtch"]
    <3>1. /\ m \in Slot /\ ~OnHart(c) /\ OnHart(c)' /\ hmin'[c] = m
          /\ st[m] # "RUNNING" /\ st' = [st EXCEPT ![m] = "RUNNING"]
      BY Zenon, <1>1, <1>2, <1>3, <2>1 DEF OnHart, KType
    <3>2. \A d \in CPU \ {c} : (OnHart(d)' <=> OnHart(d)) /\ hmin'[d] = hmin[d]
      BY Zenon, <1>1, <1>2, <1>3, <2>1 DEF OnHart, KType
    <3> QED BY ZenonT(30), <1>1, <3>1, <3>2, RunsMore
  <2>2. CASE ~(hpc' = [hpc EXCEPT ![c] = "swtch"])
    <3>1. \A d \in CPU : (OnHart(d)' <=> OnHart(d)) /\ (OnHart(d) => hmin'[d] = hmin[d])
      BY Zenon, <1>1, <1>2, <1>3, <2>2 DEF OnHart, KType
    <3>2. UNCHANGED st BY Zenon, <1>1, <1>2, <1>3, <2>2
    <3> QED BY Zenon, <1>1, <3>1, <3>2, RunsSame
  <2> QED BY Zenon, <2>1, <2>2
<1> QED BY Zenon, <1>4, <1>5, <1>6, <1>7, <1>8 DEF KInv

\* A step of the LBS scan.
LEMMA LbsScanInv ==
  ASSUME KInv, NEW c \in CPU, LbsScan(c)
  PROVE  KInv'
<1> USE SchedAssumption DEF Slot, None
<1>1. KType /\ KMin /\ KRunnable /\ SchedLocksExact /\ RunsOnOneHart BY Zenon DEF KInv
<1> DEFINE s == hat[c]
<1>2. /\ build = "LBS" /\ hpc[c] = "scan" /\ s \in Slot /\ plock[s] = Nobody
      /\ hat' = [hat EXCEPT ![c] = s + 1] /\ UNCHANGED build
  BY <1>1 DEF LbsScan, Free, KType
<1>3. \/ /\ st[s] = "RUNNABLE" /\ st' = [st EXCEPT ![s] = "RUNNING"]
         /\ plock' = [plock EXCEPT ![s] = c]
         /\ hmin' = [hmin EXCEPT ![c] = s] /\ hpc' = [hpc EXCEPT ![c] = "swtch"]
      \/ UNCHANGED <<st, plock, hmin, hpc>>
  BY Zenon DEF LbsScan, Held
<1>4. KType'
  <2> HIDE DEF Slot, None
  <2>1. /\ st \in [Slot -> States] /\ plock \in [Slot -> CPU \cup {Nobody}] /\ hpc \in [CPU -> Phases]
        /\ hat \in [CPU -> Nat \ {0}] /\ hmin \in [CPU -> Slot \cup {None}]
    BY Zenon, <1>1 DEF KType
  <2>2. st' \in [Slot -> States] BY <1>2, <1>3, <2>1 DEF States
  <2>3. plock' \in [Slot -> CPU \cup {Nobody}] BY <1>2, <1>3, <2>1
  <2>4. hpc' \in [CPU -> Phases] BY <1>2, <1>3, <2>1 DEF Phases
  <2>5. hat' \in [CPU -> Nat \ {0}] BY <1>2, <1>3, <2>1
  <2>6. hmin' \in [CPU -> Slot \cup {None}] BY Zenon, <1>2, <1>3, <2>1
  <2> QED BY Zenon, <1>1, <1>2, <2>2, <2>3, <2>4, <2>5, <2>6 DEF KType
<1>5. KMin'
  <2>1. s # None /\ build' = build /\ build = "LBS" BY <1>2
  <2>2. hpc \in [CPU -> Phases] /\ hmin \in [CPU -> Slot \cup {None}] BY Zenon, <1>1 DEF KType
  <2> HIDE DEF s, Slot, None
  <2>3. CASE hmin' = [hmin EXCEPT ![c] = s] /\ hpc' = [hpc EXCEPT ![c] = "swtch"]
    BY Zenon, <1>1, <2>1, <2>2, <2>3 DEF KMin
  <2>4. CASE UNCHANGED <<hmin, hpc>> BY Zenon, <1>1, <2>1, <2>4 DEF KMin
  <2> QED BY Zenon, <1>3, <2>3, <2>4
<1>6. KRunnable' BY Zenon, <1>1, <1>2, <1>3 DEF KType, KMin, KRunnable, SchedLocksExact,
   RunsOnOneHart, OnHart
<1>7. SchedLocksExact' BY <1>1, <1>2, <1>3 DEF KType, KMin, SchedLocksExact
<1>8. RunsOnOneHart'
  <2>1. CASE hpc'[c] = "swtch"
    <3>1. /\ s \in Slot /\ ~OnHart(c) /\ OnHart(c)' /\ hmin'[c] = s
          /\ st[s] # "RUNNING" /\ st' = [st EXCEPT ![s] = "RUNNING"]
      BY Zenon, <1>1, <1>2, <1>3, <2>1 DEF OnHart, KType
    <3>2. \A d \in CPU \ {c} : (OnHart(d)' <=> OnHart(d)) /\ hmin'[d] = hmin[d]
      BY Zenon, <1>1, <1>2, <1>3, <2>1 DEF OnHart, KType
    <3> QED BY ZenonT(30), <1>1, <3>1, <3>2, RunsMore
  <2>2. CASE ~(hpc'[c] = "swtch")
    <3>1. \A d \in CPU : (OnHart(d)' <=> OnHart(d)) /\ (OnHart(d) => hmin'[d] = hmin[d])
      BY Zenon, <1>1, <1>2, <1>3, <2>2 DEF OnHart, KType
    <3>2. UNCHANGED st BY Zenon, <1>1, <1>2, <1>3, <2>2 DEF KType
    <3> QED BY Zenon, <1>1, <3>1, <3>2, RunsSame
  <2> QED BY Zenon, <2>1, <2>2
<1> QED BY Zenon, <1>4, <1>5, <1>6, <1>7, <1>8 DEF KInv

\* A scan starts over.
LEMMA ScanEndInv ==
  ASSUME KInv, NEW c \in CPU, ScanEnd(c)
  PROVE  KInv'
<1> USE SchedAssumption DEF Slot, None
<1>1. KType /\ KMin /\ KRunnable /\ SchedLocksExact /\ RunsOnOneHart BY Zenon DEF KInv
<1>2. /\ build # "PBS" /\ hpc[c] = "scan" /\ hat' = [hat EXCEPT ![c] = 1]
      /\ hmin' = IF build = "FCFS" THEN hmin ELSE [hmin EXCEPT ![c] = None]
      /\ UNCHANGED <<build, st, plock, hpc>>
  BY Zenon DEF ScanEnd, Rescan
<1>3. KType'
  <2> HIDE DEF Slot, None
  <2>1. /\ st \in [Slot -> States] /\ plock \in [Slot -> CPU \cup {Nobody}] /\ hpc \in [CPU -> Phases]
        /\ hat \in [CPU -> Nat \ {0}] /\ hmin \in [CPU -> Slot \cup {None}]
    BY Zenon, <1>1 DEF KType
  <2>2. st' \in [Slot -> States] BY Zenon, <1>2, <2>1 DEF States
  <2>3. plock' \in [Slot -> CPU \cup {Nobody}] BY Zenon, <1>2, <2>1
  <2>4. hpc' \in [CPU -> Phases] BY Zenon, <1>2, <2>1 DEF Phases
  <2>5. hat' \in [CPU -> Nat \ {0}] BY <1>2, <2>1
  <2>6. hmin' \in [CPU -> Slot \cup {None}] BY Zenon, <1>2, <2>1
  <2> QED BY Zenon, <1>1, <1>2, <2>2, <2>3, <2>4, <2>5, <2>6 DEF KType
<1>4. KMin' BY Zenon, <1>1, <1>2 DEF KType, KMin
<1>5. KRunnable' BY Zenon, <1>1, <1>2 DEF KType, KMin, KRunnable, SchedLocksExact,
   RunsOnOneHart, OnHart
<1>6. SchedLocksExact' BY <1>1, <1>2 DEF KType, KMin, SchedLocksExact
<1>7. RunsOnOneHart'
  <2>1. \A d \in CPU : (OnHart(d)' <=> OnHart(d)) /\ (OnHart(d) => hmin'[d] = hmin[d])
    BY Zenon, <1>1, <1>2 DEF KType, OnHart
  <2>2. \A q \in Slot : st'[q] = "RUNNING" <=> st[q] = "RUNNING" BY Zenon, <1>1, <1>2 DEF KType
  <2> QED BY Zenon, <1>1, <2>1, <2>2, RunsSame
<1> QED BY Zenon, <1>3, <1>4, <1>5, <1>6, <1>7 DEF KInv

\* The process releases its lock.
LEMMA RunBeginInv ==
  ASSUME KInv, NEW c \in CPU, RunBegin(c)
  PROVE  KInv'
<1> USE SchedAssumption DEF Slot, None
<1>1. KType /\ KMin /\ KRunnable /\ SchedLocksExact /\ RunsOnOneHart BY Zenon DEF KInv
<1>2. /\ hpc[c] = "swtch" /\ plock' = [plock EXCEPT ![hmin[c]] = Nobody]
      /\ hpc' = [hpc EXCEPT ![c] = "run"] /\ UNCHANGED <<build, st, hat, hmin>>
  BY Zenon DEF RunBegin, Released
<1>3. hmin[c] \in Slot /\ plock[hmin[c]] = c BY <1>1, <1>2 DEF KType, KMin, SchedLocksExact
<1>4. KType'
  <2> HIDE DEF Slot, None
  <2>1. /\ st \in [Slot -> States] /\ plock \in [Slot -> CPU \cup {Nobody}] /\ hpc \in [CPU -> Phases]
        /\ hat \in [CPU -> Nat \ {0}] /\ hmin \in [CPU -> Slot \cup {None}]
    BY Zenon, <1>1 DEF KType
  <2>2. st' \in [Slot -> States] BY Zenon, <1>2, <1>3, <2>1 DEF States
  <2>3. plock' \in [Slot -> CPU \cup {Nobody}] BY Zenon, <1>2, <1>3, <2>1
  <2>4. hpc' \in [CPU -> Phases] BY Zenon, <1>2, <1>3, <2>1 DEF Phases
  <2>5. hat' \in [CPU -> Nat \ {0}] BY Zenon, <1>2, <1>3, <2>1
  <2>6. hmin' \in [CPU -> Slot \cup {None}] BY Zenon, <1>2, <1>3, <2>1
  <2> QED BY Zenon, <1>1, <1>2, <2>2, <2>3, <2>4, <2>5, <2>6 DEF KType
<1>5. KMin' BY Zenon, <1>1, <1>2, <1>3 DEF KType, KMin
<1>6. KRunnable' BY <1>1, <1>2, <1>3 DEF KType, KMin, KRunnable, SchedLocksExact,
   RunsOnOneHart, OnHart
<1>7. SchedLocksExact' BY <1>1, <1>2, <1>3 DEF KType, KMin, SchedLocksExact
<1>8. RunsOnOneHart'
  <2>1. \A d \in CPU : (OnHart(d)' <=> OnHart(d)) /\ (OnHart(d) => hmin'[d] = hmin[d])
    BY Zenon, <1>1, <1>2, <1>3 DEF KType, OnHart
  <2>2. \A q \in Slot : st'[q] = "RUNNING" <=> st[q] = "RUNNING"
    BY Zenon, <1>1, <1>2, <1>3 DEF KType
  <2> QED BY Zenon, <1>1, <2>1, <2>2, RunsSame
<1> QED BY Zenon, <1>4, <1>5, <1>6, <1>7, <1>8 DEF KInv

\* The process gives up the hart.
LEMMA GiveUpInv ==
  ASSUME KInv, NEW c \in CPU, NEW s2 \in {"SLEEPING", "ZOMBIE", "RUNNABLE"}, GiveUp(c, s2)
  PROVE  KInv'
<1> USE SchedAssumption DEF Slot, None
<1>1. KType /\ KMin /\ KRunnable /\ SchedLocksExact /\ RunsOnOneHart BY Zenon DEF KInv
<1> DEFINE m == hmin[c]
<1>2. /\ hpc[c] \in {"run", "yield"} /\ m \in Slot /\ plock[m] = Nobody
      /\ plock' = [plock EXCEPT ![m] = c] /\ st' = [st EXCEPT ![m] = s2]
      /\ hpc' = [hpc EXCEPT ![c] = "back"] /\ UNCHANGED <<build, hat, hmin>>
  BY Zenon, <1>1 DEF GiveUp, Held, Free, KType, KMin
<1>3. KType'
  <2> HIDE DEF Slot, None
  <2>1. /\ st \in [Slot -> States] /\ plock \in [Slot -> CPU \cup {Nobody}] /\ hpc \in [CPU -> Phases]
        /\ hat \in [CPU -> Nat \ {0}] /\ hmin \in [CPU -> Slot \cup {None}]
    BY Zenon, <1>1 DEF KType
  <2>2. st' \in [Slot -> States] BY Zenon, <1>2, <2>1 DEF States
  <2>3. plock' \in [Slot -> CPU \cup {Nobody}] BY Zenon, <1>2, <2>1
  <2>4. hpc' \in [CPU -> Phases] BY Zenon, <1>2, <2>1 DEF Phases
  <2>5. hat' \in [CPU -> Nat \ {0}] BY Zenon, <1>2, <2>1
  <2>6. hmin' \in [CPU -> Slot \cup {None}] BY Zenon, <1>2, <2>1
  <2> QED BY Zenon, <1>1, <1>2, <2>2, <2>3, <2>4, <2>5, <2>6 DEF KType
<1>4. KMin' BY Zenon, <1>1, <1>2 DEF KType, KMin
<1>5. KRunnable' BY <1>1, <1>2 DEF KType, KMin, KRunnable, SchedLocksExact, RunsOnOneHart,
   OnHart
<1>6. SchedLocksExact' BY <1>1, <1>2 DEF KType, KMin, SchedLocksExact
<1>7. RunsOnOneHart'
  <2>1. OnHart(c) /\ ~OnHart(c)' BY Zenon, <1>1, <1>2 DEF OnHart, KType
  <2>2. \A d \in CPU \ {c} : OnHart(d)' <=> OnHart(d) BY Zenon, <1>1, <1>2 DEF OnHart, KType
  <2>3. s2 # "RUNNING" OBVIOUS
  <2> QED BY ZenonT(30), <1>1, <1>2, <2>1, <2>2, <2>3, RunsLess
<1> QED BY Zenon, <1>3, <1>4, <1>5, <1>6, <1>7 DEF KInv

\* The scheduler gets the lock back and releases it.
LEMMA SwitchBackInv ==
  ASSUME KInv, NEW c \in CPU, SwitchBack(c)
  PROVE  KInv'
<1> USE SchedAssumption DEF Slot, None
<1>1. KType /\ KMin /\ KRunnable /\ SchedLocksExact /\ RunsOnOneHart BY Zenon DEF KInv
<1>2. /\ hpc[c] = "back" /\ plock' = [plock EXCEPT ![hmin[c]] = Nobody]
      /\ hpc' = [hpc EXCEPT ![c] = "scan"] /\ UNCHANGED <<build, st>>
  BY Zenon DEF SwitchBack, LockBack, Released
<1>3. \/ build = "PBS" /\ hat' = [hat EXCEPT ![c] = 1] /\ hmin' = [hmin EXCEPT ![c] = None]
      \/ build # "PBS" /\ UNCHANGED <<hat, hmin>>
  BY Zenon DEF SwitchBack, Rescan
<1>4. hmin[c] \in Slot /\ plock[hmin[c]] = c BY <1>1, <1>2 DEF KType, KMin, SchedLocksExact
<1>5. KType'
  <2> HIDE DEF Slot, None
  <2>1. /\ st \in [Slot -> States] /\ plock \in [Slot -> CPU \cup {Nobody}] /\ hpc \in [CPU -> Phases]
        /\ hat \in [CPU -> Nat \ {0}] /\ hmin \in [CPU -> Slot \cup {None}]
    BY Zenon, <1>1 DEF KType
  <2>2. st' \in [Slot -> States] BY Zenon, <1>2, <1>3, <1>4, <2>1 DEF States
  <2>3. plock' \in [Slot -> CPU \cup {Nobody}] BY Zenon, <1>2, <1>3, <1>4, <2>1
  <2>4. hpc' \in [CPU -> Phases] BY Zenon, <1>2, <1>3, <1>4, <2>1 DEF Phases
  <2>5. hat' \in [CPU -> Nat \ {0}] BY <1>2, <1>3, <1>4, <2>1
  <2>6. hmin' \in [CPU -> Slot \cup {None}] BY Zenon, <1>2, <1>3, <1>4, <2>1
  <2> QED BY Zenon, <1>1, <1>2, <2>2, <2>3, <2>4, <2>5, <2>6 DEF KType
<1>6. KMin' BY Zenon, <1>1, <1>2, <1>3, <1>4 DEF KType, KMin
<1>7. KRunnable' BY <1>1, <1>2, <1>3, <1>4 DEF KType, KMin, KRunnable, SchedLocksExact,
   RunsOnOneHart, OnHart
<1>8. SchedLocksExact' BY <1>1, <1>2, <1>3, <1>4 DEF KType, KMin, SchedLocksExact
<1>9. RunsOnOneHart'
  <2>1. \A d \in CPU : (OnHart(d)' <=> OnHart(d)) /\ (OnHart(d) => hmin'[d] = hmin[d])
    BY Zenon, <1>1, <1>2, <1>3, <1>4 DEF KType, OnHart
  <2>2. \A q \in Slot : st'[q] = "RUNNING" <=> st[q] = "RUNNING"
    BY Zenon, <1>1, <1>2, <1>3, <1>4 DEF KType
  <2> QED BY Zenon, <1>1, <2>1, <2>2, RunsSame
<1> QED BY Zenon, <1>5, <1>6, <1>7, <1>8, <1>9 DEF KInv

\* fork puts a process into a free slot.
LEMMA ForkProcInv ==
  ASSUME KInv, NEW c \in CPU, ForkProc(c)
  PROVE  KInv'
<1> USE SchedAssumption DEF Slot, None
<1>1. KType /\ KMin /\ KRunnable /\ SchedLocksExact /\ RunsOnOneHart BY Zenon DEF KInv
<1> DEFINE s == Min({q \in Slot : st[q] = "UNUSED"})
<1>2. s \in Slot /\ st[s] = "UNUSED"
  <2>1. {q \in Slot : st[q] = "UNUSED"} # {} BY Zenon DEF ForkProc
  <2> QED BY <2>1, MinIn
<1>3. /\ plock[s] = Nobody /\ st' = [st EXCEPT ![s] = "RUNNABLE"]
      /\ UNCHANGED <<build, plock, hpc, hat, hmin>>
  BY Zenon DEF ForkProc, Free, hart
<1> HIDE DEF s
<1>4. KType'
  <2> HIDE DEF Slot, None
  <2>1. /\ st \in [Slot -> States] /\ plock \in [Slot -> CPU \cup {Nobody}] /\ hpc \in [CPU -> Phases]
        /\ hat \in [CPU -> Nat \ {0}] /\ hmin \in [CPU -> Slot \cup {None}]
    BY Zenon, <1>1 DEF KType
  <2>2. st' \in [Slot -> States] BY Zenon, <1>2, <1>3, <2>1 DEF States
  <2>3. plock' \in [Slot -> CPU \cup {Nobody}] BY Zenon, <1>2, <1>3, <2>1
  <2>4. hpc' \in [CPU -> Phases] BY Zenon, <1>2, <1>3, <2>1 DEF Phases
  <2>5. hat' \in [CPU -> Nat \ {0}] BY Zenon, <1>2, <1>3, <2>1
  <2>6. hmin' \in [CPU -> Slot \cup {None}] BY Zenon, <1>2, <1>3, <2>1
  <2> QED BY Zenon, <1>1, <1>3, <2>2, <2>3, <2>4, <2>5, <2>6 DEF KType
<1>5. KMin' BY Zenon, <1>1, <1>3 DEF KMin
<1>6. KRunnable' BY <1>1, <1>2, <1>3 DEF KType, KMin, KRunnable, SchedLocksExact,
   RunsOnOneHart, OnHart
<1>7. SchedLocksExact' BY <1>1, <1>2, <1>3 DEF KType, KMin, SchedLocksExact
<1>8. RunsOnOneHart'
  <2>1. \A d \in CPU : (OnHart(d)' <=> OnHart(d)) /\ (OnHart(d) => hmin'[d] = hmin[d])
    BY Zenon, <1>1, <1>2, <1>3 DEF KType, OnHart
  <2>2. \A q \in Slot : st'[q] = "RUNNING" <=> st[q] = "RUNNING"
    BY Zenon, <1>1, <1>2, <1>3 DEF KType
  <2> QED BY Zenon, <1>1, <2>1, <2>2, RunsSame
<1> QED BY Zenon, <1>4, <1>5, <1>6, <1>7, <1>8 DEF KInv

\* wait frees a zombie.
LEMMA ReapProcInv ==
  ASSUME KInv, NEW c \in CPU, NEW s \in Slot, ReapProc(c, s)
  PROVE  KInv'
<1> USE SchedAssumption DEF Slot, None
<1>1. KType /\ KMin /\ KRunnable /\ SchedLocksExact /\ RunsOnOneHart BY Zenon DEF KInv
<1>2. /\ st[s] = "ZOMBIE" /\ plock[s] = Nobody /\ st' = [st EXCEPT ![s] = "UNUSED"]
      /\ UNCHANGED <<build, plock, hpc, hat, hmin>>
  BY Zenon DEF ReapProc, Free, hart
<1>3. KType'
  <2> HIDE DEF Slot, None
  <2>1. /\ st \in [Slot -> States] /\ plock \in [Slot -> CPU \cup {Nobody}] /\ hpc \in [CPU -> Phases]
        /\ hat \in [CPU -> Nat \ {0}] /\ hmin \in [CPU -> Slot \cup {None}]
    BY Zenon, <1>1 DEF KType
  <2>2. st' \in [Slot -> States] BY Zenon, <1>2, <2>1 DEF States
  <2>3. plock' \in [Slot -> CPU \cup {Nobody}] BY Zenon, <1>2, <2>1
  <2>4. hpc' \in [CPU -> Phases] BY Zenon, <1>2, <2>1 DEF Phases
  <2>5. hat' \in [CPU -> Nat \ {0}] BY Zenon, <1>2, <2>1
  <2>6. hmin' \in [CPU -> Slot \cup {None}] BY Zenon, <1>2, <2>1
  <2> QED BY Zenon, <1>1, <1>2, <2>2, <2>3, <2>4, <2>5, <2>6 DEF KType
<1>4. KMin' BY Zenon, <1>1, <1>2 DEF KType, KMin
<1>5. KRunnable' BY <1>1, <1>2 DEF KType, KMin, KRunnable, SchedLocksExact, RunsOnOneHart,
   OnHart
<1>6. SchedLocksExact' BY <1>1, <1>2 DEF KType, KMin, SchedLocksExact
<1>7. RunsOnOneHart'
  <2>1. \A d \in CPU : (OnHart(d)' <=> OnHart(d)) /\ (OnHart(d) => hmin'[d] = hmin[d])
    BY Zenon, <1>1, <1>2 DEF KType, OnHart
  <2>2. \A q \in Slot : st'[q] = "RUNNING" <=> st[q] = "RUNNING" BY Zenon, <1>1, <1>2 DEF KType
  <2> QED BY Zenon, <1>1, <2>1, <2>2, RunsSame
<1> QED BY Zenon, <1>3, <1>4, <1>5, <1>6, <1>7 DEF KInv

\* wakeup finds a sleeper.
LEMMA WakeProcInv ==
  ASSUME KInv, NEW s \in Slot, WakeProc(s)
  PROVE  KInv'
<1> USE SchedAssumption DEF Slot, None
<1>1. KType /\ KMin /\ KRunnable /\ SchedLocksExact /\ RunsOnOneHart BY Zenon DEF KInv
<1>2. /\ st[s] = "SLEEPING" /\ plock[s] = Nobody /\ st' = [st EXCEPT ![s] = "RUNNABLE"]
      /\ UNCHANGED <<build, plock, hpc, hat, hmin>>
  BY Zenon DEF WakeProc, Free, hart
<1>3. KType'
  <2> HIDE DEF Slot, None
  <2>1. /\ st \in [Slot -> States] /\ plock \in [Slot -> CPU \cup {Nobody}] /\ hpc \in [CPU -> Phases]
        /\ hat \in [CPU -> Nat \ {0}] /\ hmin \in [CPU -> Slot \cup {None}]
    BY Zenon, <1>1 DEF KType
  <2>2. st' \in [Slot -> States] BY Zenon, <1>2, <2>1 DEF States
  <2>3. plock' \in [Slot -> CPU \cup {Nobody}] BY Zenon, <1>2, <2>1
  <2>4. hpc' \in [CPU -> Phases] BY Zenon, <1>2, <2>1 DEF Phases
  <2>5. hat' \in [CPU -> Nat \ {0}] BY Zenon, <1>2, <2>1
  <2>6. hmin' \in [CPU -> Slot \cup {None}] BY Zenon, <1>2, <2>1
  <2> QED BY Zenon, <1>1, <1>2, <2>2, <2>3, <2>4, <2>5, <2>6 DEF KType
<1>4. KMin' BY Zenon, <1>1, <1>2 DEF KType, KMin
<1>5. KRunnable' BY <1>1, <1>2 DEF KType, KMin, KRunnable, SchedLocksExact, RunsOnOneHart,
   OnHart
<1>6. SchedLocksExact' BY <1>1, <1>2 DEF KType, KMin, SchedLocksExact
<1>7. RunsOnOneHart'
  <2>1. \A d \in CPU : (OnHart(d)' <=> OnHart(d)) /\ (OnHart(d) => hmin'[d] = hmin[d])
    BY Zenon, <1>1, <1>2 DEF KType, OnHart
  <2>2. \A q \in Slot : st'[q] = "RUNNING" <=> st[q] = "RUNNING" BY Zenon, <1>1, <1>2 DEF KType
  <2> QED BY Zenon, <1>1, <2>1, <2>2, RunsSame
<1> QED BY Zenon, <1>3, <1>4, <1>5, <1>6, <1>7 DEF KInv

\* set_priority may lead to a yield.
LEMMA SetPriorityInv ==
  ASSUME KInv, NEW c \in CPU, NEW n, NEW pid, SetPriority(c, n, pid)
  PROVE  KInv'
<1> USE SchedAssumption DEF Slot, None
<1>1. KType /\ KMin /\ KRunnable /\ SchedLocksExact /\ RunsOnOneHart BY Zenon DEF KInv
<1>2. /\ hpc[c] = "run" /\ (hpc' = [hpc EXCEPT ![c] = "yield"] \/ UNCHANGED hpc)
      /\ UNCHANGED <<build, st, plock, hat, hmin>>
  BY Zenon DEF SetPriority
<1>3. KType'
  <2> HIDE DEF Slot, None
  <2>1. /\ st \in [Slot -> States] /\ plock \in [Slot -> CPU \cup {Nobody}] /\ hpc \in [CPU -> Phases]
        /\ hat \in [CPU -> Nat \ {0}] /\ hmin \in [CPU -> Slot \cup {None}]
    BY Zenon, <1>1 DEF KType
  <2>2. st' \in [Slot -> States] BY Zenon, <1>2, <2>1 DEF States
  <2>3. plock' \in [Slot -> CPU \cup {Nobody}] BY Zenon, <1>2, <2>1
  <2>4. hpc' \in [CPU -> Phases] BY Zenon, <1>2, <2>1 DEF Phases
  <2>5. hat' \in [CPU -> Nat \ {0}] BY Zenon, <1>2, <2>1
  <2>6. hmin' \in [CPU -> Slot \cup {None}] BY Zenon, <1>2, <2>1
  <2> QED BY Zenon, <1>1, <1>2, <2>2, <2>3, <2>4, <2>5, <2>6 DEF KType
<1>4. KMin' BY Zenon, <1>1, <1>2 DEF KType, KMin
<1>5. KRunnable' BY <1>1, <1>2 DEF KType, KMin, KRunnable, SchedLocksExact, RunsOnOneHart,
   OnHart
<1>6. SchedLocksExact' BY <1>1, <1>2 DEF KType, KMin, SchedLocksExact
<1>7. RunsOnOneHart'
  <2>1. \A d \in CPU : (OnHart(d)' <=> OnHart(d)) /\ (OnHart(d) => hmin'[d] = hmin[d])
    BY Zenon, <1>1, <1>2 DEF KType, OnHart
  <2>2. \A q \in Slot : st'[q] = "RUNNING" <=> st[q] = "RUNNING" BY Zenon, <1>1, <1>2 DEF KType
  <2> QED BY Zenon, <1>1, <2>1, <2>2, RunsSame
<1> QED BY Zenon, <1>3, <1>4, <1>5, <1>6, <1>7 DEF KInv

\* Every step keeps the invariant.
LEMMA SchedNextInv == KInv /\ [SchedNext]_schedVars => KInv'
<1> SUFFICES ASSUME KInv, [SchedNext]_schedVars PROVE KInv' OBVIOUS
<1>1. ASSUME UNCHANGED <<build, st, plock, hpc, hat, hmin>> PROVE KInv'
  BY <1>1 DEF KInv, KType, KMin, KRunnable, SchedLocksExact, RunsOnOneHart, OnHart, Slot, None
<1>2. CASE UNCHANGED schedVars BY Zenon, <1>1, <1>2 DEF schedVars, hart
<1>3. CASE UpdateTime \/ \E c \in CPU : ClockTick(c)
  BY Zenon, <1>1, <1>3 DEF ClockTick, UpdateTime, hart
<1>4. CASE \E s \in Slot : WakeProc(s) BY Zenon, <1>4, WakeProcInv
<1>5. CASE \E c \in CPU : Scan(c)
  BY Zenon, <1>5, PbsScanInv, PbsSwitchInv, FcfsLookInv, FcfsTryInv, LbsScanInv, ScanEndInv
     DEF Scan
<1>6. CASE \E c \in CPU : RunBegin(c) \/ SwitchBack(c) \/ ForkProc(c)
  BY Zenon, <1>6, RunBeginInv, SwitchBackInv, ForkProcInv
<1>7. CASE \E c \in CPU : \E s2 \in {"SLEEPING", "ZOMBIE", "RUNNABLE"} : GiveUp(c, s2)
  BY Zenon, <1>7, GiveUpInv
<1>8. CASE \E c \in CPU : \E s \in Slot : ReapProc(c, s) BY Zenon, <1>8, ReapProcInv
<1>9. CASE \E c \in CPU : \E n \in Priorities, pid \in Slot : SetPriority(c, n, pid)
  BY Zenon, <1>9, SetPriorityInv
<1>10. CASE \E c \in CPU : \E n \in TicketNums : settickets(c, n)
  BY Zenon, <1>1, <1>10 DEF settickets, hart
<1> QED BY Zenon, <1>2, <1>3, <1>4, <1>5, <1>6, <1>7, <1>8, <1>9, <1>10 DEF SchedNext

\* The invariant holds throughout.
LEMMA SchedInvariant == SchedSpec => []KInv
BY SchedInitInv, SchedNextInv, PTL DEF SchedSpec

\* In each of the three builds a process runs on at most one hart, and it is
\* RUNNING exactly while it does, however many harts scan the table at once.
THEOREM OneHartEach == SchedSpec => []RunsOnOneHart
<1>1. KInv => RunsOnOneHart BY Zenon DEF KInv
<1> QED BY <1>1, SchedInvariant, PTL

\* A hart holds the lock of the process it is switching to or from, or of the PBS
\* scan's best so far, and no other: the scans and switches leave no lock behind.
THEOREM LocksExact == SchedSpec => []SchedLocksExact
<1>1. KInv => SchedLocksExact BY Zenon DEF KInv
<1> QED BY <1>1, SchedInvariant, PTL

-----------------------------------------------------------------------------
(* The choice of PBS, on top of the invariant above.                         *)

KValue ==
  build = "PBS" =>
    /\ sp \in [Slot -> Int] /\ hval \in [CPU -> Int] /\ ran \in [Slot -> BOOLEAN]
    /\ \A c \in CPU : hpc[c] = "scan" /\ hmin[c] # None => DP(hmin[c]) <= hval[c]

\* A dynamic priority is a number.
LEMMA DPIsNumber ==
  ASSUME NEW s \in Slot, sp \in [Slot -> Int]
  PROVE  DP(s) \in Int
<1> DEFINE n == IF ran[s] THEN sp[s] + 5 ELSE sp[s]
<1>1. n \in Int OBVIOUS
<1> HIDE DEF n
<1>2. DP(s) = IF n \in 0 .. 100 THEN n ELSE 100 BY Zenon DEF DP, n
<1> QED BY <1>1, <1>2

\* update_time stays within the table.
KWalk == uat \in Slot

\* Every step keeps it.
LEMMA WalkNext ==
  ASSUME KWalk, [SchedNext]_schedVars
  PROVE  KWalk'
<1> USE DEF KWalk
<1>1. CASE UpdateTime
  <2>1. uat' = IF uat = NSLOT THEN 1 ELSE uat + 1 BY Zenon, <1>1 DEF UpdateTime
  <2> QED BY <2>1, SchedAssumption DEF Slot
<1>2. CASE UNCHANGED uat BY Zenon, <1>2
<1>3. ASSUME NEW c \in CPU, Scan(c) PROVE UNCHANGED uat
  BY Zenon, <1>3 DEF Scan, PbsScan, PbsSwitch, FcfsLook, FcfsTry, LbsScan, ScanEnd, clock
<1>4. ASSUME NEW c \in CPU, RunBegin(c) \/ SwitchBack(c) \/ ForkProc(c) \/ ClockTick(c)
      PROVE  UNCHANGED uat
  BY Zenon, <1>4 DEF RunBegin, SwitchBack, ForkProc, ClockTick, clock
<1>5. ASSUME NEW c \in CPU, NEW s2, GiveUp(c, s2) \/ ReapProc(c, s2) \/ settickets(c, s2)
      PROVE  UNCHANGED uat
  BY Zenon, <1>5 DEF GiveUp, ReapProc, settickets, clock
<1>6. ASSUME NEW c \in CPU, NEW n, NEW pid, SetPriority(c, n, pid) PROVE UNCHANGED uat
  BY Zenon, <1>6 DEF SetPriority, clock
<1>7. ASSUME NEW s, WakeProc(s) PROVE UNCHANGED uat BY Zenon, <1>7 DEF WakeProc, clock
<1>8. UNCHANGED schedVars => UNCHANGED uat BY Zenon DEF schedVars, clock
<1> QED BY ZenonT(30), <1>1, <1>2, <1>3, <1>4, <1>5, <1>6, <1>7, <1>8 DEF SchedNext

\* The choices stand when no hart changes its own, and the priority of a process
\* is changed only under its lock.
LEMMA ValueSame ==
  ASSUME KValue, UNCHANGED <<build, hmin, hval>>,
         sp' \in [Slot -> Int], ran' \in [Slot -> BOOLEAN],
         \A d \in CPU : hpc'[d] = "scan" /\ hmin[d] # None =>
            hpc[d] = "scan" /\ sp'[hmin[d]] = sp[hmin[d]] /\ ran'[hmin[d]] = ran[hmin[d]]
  PROVE  KValue'
<1>1. ASSUME NEW d \in CPU, build = "PBS", hpc'[d] = "scan", hmin'[d] # None
      PROVE  DP(hmin[d])' <= hval'[d]
  <2>1. DP(hmin[d])' = DP(hmin[d]) BY ZenonT(30), <1>1 DEF DP
  <2> QED BY Zenon, <1>1, <2>1 DEF KValue
<1> QED BY Zenon, <1>1 DEF KValue

\* Every step keeps it.
LEMMA ValueNext ==
  ASSUME KInv, KInv', KValue, uat \in Slot, [SchedNext]_schedVars
  PROVE  KValue'
<1>a. UNCHANGED build
  <2>1. ASSUME NEW c \in CPU, Scan(c) PROVE UNCHANGED build
    BY Zenon, <2>1 DEF Scan, PbsScan, PbsSwitch, FcfsLook, FcfsTry, LbsScan, ScanEnd
  <2>2. ASSUME NEW c \in CPU, RunBegin(c) \/ SwitchBack(c) \/ ForkProc(c) PROVE UNCHANGED build
    BY Zenon, <2>2 DEF RunBegin, SwitchBack, ForkProc
  <2>3. ASSUME NEW c \in CPU, NEW s2, GiveUp(c, s2) PROVE UNCHANGED build
    BY Zenon, <2>3 DEF GiveUp
  <2>4. ASSUME NEW c \in CPU, NEW s, ReapProc(c, s) PROVE UNCHANGED build
    BY Zenon, <2>4 DEF ReapProc
  <2>5. ASSUME NEW c \in CPU, NEW n, NEW pid, SetPriority(c, n, pid) PROVE UNCHANGED build
    BY Zenon, <2>5 DEF SetPriority
  <2>6. ASSUME NEW c \in CPU, NEW n, settickets(c, n) PROVE UNCHANGED build
    BY Zenon, <2>6 DEF settickets
  <2>7. ASSUME NEW s, WakeProc(s) PROVE UNCHANGED build BY Zenon, <2>7 DEF WakeProc
  <2>8. UpdateTime \/ (\E c \in CPU : ClockTick(c)) \/ UNCHANGED schedVars => UNCHANGED build
    BY Zenon DEF UpdateTime, ClockTick, schedVars
  <2> QED BY ZenonT(30), <2>1, <2>2, <2>3, <2>4, <2>5, <2>6, <2>7, <2>8 DEF SchedNext
<1> SUFFICES ASSUME build = "PBS" PROVE KValue' BY Zenon, <1>a DEF KValue
<1> USE DEF None
<1>1. KType /\ KMin /\ SchedLocksExact BY Zenon DEF KInv
<1>2. /\ sp \in [Slot -> Int] /\ hval \in [CPU -> Int] /\ ran \in [Slot -> BOOLEAN]
      /\ hmin \in [CPU -> Slot \cup {0}] /\ hpc \in [CPU -> Phases]
  BY Zenon DEF KValue, KInv, KType
<1>3. ASSUME NEW s \in Slot, Free(s), NEW d \in CPU, hpc[d] = "scan", hmin[d] = s
      PROVE  FALSE
  BY <1>1, <1>3, SchedAssumption DEF Free, SchedLocksExact
<1>4. ASSUME UNCHANGED <<hpc, hmin, hval, sp, ran>> PROVE KValue'
  BY Zenon, <1>a, <1>2, <1>4, ValueSame
<1>5. ASSUME NEW c \in CPU, PbsScan(c) PROVE KValue'
  <2> DEFINE s == hat[c]
  <2>1. /\ build = "PBS" /\ hpc[c] = "scan" /\ s \in Slot /\ UNCHANGED <<build, hpc, sp, ran>>
    BY <1>1, <1>5 DEF PbsScan, ptable, KType, Slot
  <2>2. CASE UNCHANGED <<hmin, hval>> BY Zenon, <1>4, <2>1, <2>2
  <2>3. CASE /\ Better(c, s) /\ hmin' = [hmin EXCEPT ![c] = s]
             /\ hval' = IF hmin[c] = None THEN [hval EXCEPT ![c] = DP(s)] ELSE hval
    <3>1. DP(s) \in Int BY Zenon, <1>2, <2>1, DPIsNumber
    <3>2. hval'[c] \in Int /\ DP(s) <= hval'[c]
      <4>1. CASE hmin[c] = None BY <1>2, <2>3, <3>1, <4>1
      <4>2. CASE hmin[c] # None BY <1>2, <2>3, <3>1, <4>2 DEF Better
      <4> QED BY Zenon, <4>1, <4>2
    <3>3. hval' \in [CPU -> Int] BY Zenon, <1>2, <2>3, <3>1
    <3>4. ASSUME NEW d \in CPU, hpc[d] = "scan", hmin'[d] # None PROVE DP(hmin'[d]) <= hval'[d]
      <4>1. CASE d = c BY Zenon, <1>2, <2>3, <3>2, <4>1
      <4>2. CASE d # c
        <5>1. hmin'[d] = hmin[d] /\ hval'[d] = hval[d] BY Zenon, <1>2, <2>3, <3>1, <4>2
        <5> QED BY Zenon, <2>1, <3>4, <5>1 DEF KValue
      <4> QED BY Zenon, <4>1, <4>2
    <3>6. ASSUME NEW d \in CPU, hpc[d] = "scan", hmin'[d] # None PROVE DP(hmin[d])' <= hval'[d]
      <4>1. hmin'[d] \in Slot BY Zenon, <1>2, <2>1, <2>3, <3>6
      <4>2. DP(hmin[d])' = DP(hmin'[d]) BY Zenon, <2>1 DEF DP
      <4> QED BY Zenon, <3>4, <3>6, <4>2
    <3> QED BY Zenon, <1>2, <2>1, <3>3, <3>6 DEF KValue
  <2> QED BY Zenon, <1>5, <2>2, <2>3 DEF PbsScan
<1>6. ASSUME NEW c \in CPU, PbsSwitch(c) PROVE KValue'
  <2>1. build = "PBS" /\ hpc[c] = "scan" /\ UNCHANGED <<build, sp, ran>>
    BY Zenon, <1>6 DEF PbsSwitch
  <2>2. CASE hpc' = [hpc EXCEPT ![c] = "swtch"] /\ UNCHANGED <<hmin, hval>>
    BY Zenon, <1>2, <2>1, <2>2, ValueSame
  <2>3. CASE Rescan(c) /\ UNCHANGED hpc
    <3>1. hmin' = [hmin EXCEPT ![c] = None] /\ hval' = [hval EXCEPT ![c] = Unset]
      BY Zenon, <2>1, <2>3 DEF Rescan
    <3>2. hval' \in [CPU -> Int] BY <1>2, <3>1 DEF Unset
    <3>3. ASSUME NEW d \in CPU, hpc[d] = "scan", hmin'[d] # None PROVE DP(hmin[d])' <= hval'[d]
      <4>1. d # c /\ hmin'[d] = hmin[d] /\ hval'[d] = hval[d] BY Zenon, <1>2, <3>1, <3>3
      <4>2. DP(hmin[d])' = DP(hmin[d]) BY Zenon, <2>1, <4>1 DEF DP
      <4> QED BY Zenon, <2>1, <3>3, <4>1, <4>2 DEF KValue
    <3> QED BY Zenon, <1>2, <2>1, <2>3, <3>2, <3>3 DEF KValue
  <2> QED BY Zenon, <1>6, <2>2, <2>3 DEF PbsSwitch
<1>7. ASSUME NEW c \in CPU, RunBegin(c) PROVE KValue'
  <2>1. hpc' = [hpc EXCEPT ![c] = "run"] /\ UNCHANGED <<hmin, hval, sp, ran>>
    BY Zenon, <1>7 DEF RunBegin, ptable
  <2> QED BY Zenon, <1>a, <1>2, <2>1, ValueSame
<1>8. ASSUME NEW c \in CPU, SwitchBack(c) PROVE KValue'
  <2>1. /\ hpc' = [hpc EXCEPT ![c] = "scan"] /\ UNCHANGED <<sp, ran>>
        /\ hmin' = [hmin EXCEPT ![c] = None] /\ hval' = [hval EXCEPT ![c] = Unset]
    BY Zenon, <1>8 DEF SwitchBack, Rescan, ptable
  <2>2. hval' \in [CPU -> Int] BY <1>2, <2>1 DEF Unset
  <2>3. ASSUME NEW d \in CPU, hpc'[d] = "scan", hmin'[d] # None PROVE DP(hmin[d])' <= hval'[d]
    <3>1. d # c /\ hpc[d] = "scan" /\ hmin'[d] = hmin[d] /\ hval'[d] = hval[d]
      BY Zenon, <1>2, <2>1, <2>3
    <3>2. DP(hmin[d])' = DP(hmin[d])
      <4>1. hmin'[d] = hmin[d] /\ UNCHANGED <<sp, ran>> BY Zenon, <2>1, <3>1
      <4> QED BY Zenon, <4>1 DEF DP
    <3> QED BY Zenon, <2>3, <3>1, <3>2 DEF KValue
  <2> QED BY Zenon, <1>2, <2>1, <2>2, <2>3 DEF KValue
<1>9. ASSUME NEW c \in CPU, NEW s2, GiveUp(c, s2) PROVE KValue'
  <2>1. hpc' = [hpc EXCEPT ![c] = "back"] /\ UNCHANGED <<hmin, hval, sp, ran>>
    BY Zenon, <1>9 DEF GiveUp, ptable
  <2> QED BY Zenon, <1>a, <1>2, <2>1, ValueSame
<1>10. ASSUME NEW s \in Slot, Free(s), UNCHANGED <<hmin, hval>>,
              NEW n \in Int, sp' = [sp EXCEPT ![s] = n] \/ UNCHANGED sp, 
              NEW b \in BOOLEAN, ran' = [ran EXCEPT ![s] = b] \/ UNCHANGED ran,
              \A d \in CPU : hpc'[d] = "scan" => hpc[d] = "scan"
       PROVE  KValue'
  <2>1. sp' \in [Slot -> Int] BY Zenon, <1>2, <1>10
  <2>2. ran' \in [Slot -> BOOLEAN] BY Zenon, <1>2, <1>10
  <2>3. ASSUME NEW d \in CPU, hpc'[d] = "scan", hmin[d] # None
        PROVE  hpc[d] = "scan" /\ sp'[hmin[d]] = sp[hmin[d]] /\ ran'[hmin[d]] = ran[hmin[d]]
    <3>1. hmin[d] \in Slot /\ hmin[d] # s BY Zenon, <1>2, <1>3, <1>10, <2>3
    <3> QED BY Zenon, <1>2, <1>10, <2>3, <3>1
  <2> QED BY Zenon, <1>a, <1>10, <2>1, <2>2, <2>3, ValueSame
<1>11. ASSUME NEW c \in CPU, ForkProc(c) PROVE KValue'
  <2> DEFINE s == Min({q \in Slot : st[q] = "UNUSED"})
  <2>1. s \in Slot
    <3>1. {q \in Slot : st[q] = "UNUSED"} # {} BY Zenon, <1>11 DEF ForkProc
    <3> QED BY <3>1, MinIn, SchedAssumption DEF Slot
  <2>2. /\ Free(s) /\ sp' = [sp EXCEPT ![s] = 60] /\ ran' = [ran EXCEPT ![s] = FALSE]
        /\ UNCHANGED <<hpc, hmin, hval>>
    BY Zenon, <1>11 DEF ForkProc, hart
  <2> HIDE DEF s
  <2>3. 60 \in Int /\ FALSE \in BOOLEAN /\ \A d \in CPU : hpc'[d] = "scan" => hpc[d] = "scan"
    BY <2>2
  <2>4. sp' = [sp EXCEPT ![s] = 60] /\ ran' = [ran EXCEPT ![s] = FALSE] /\ UNCHANGED <<hmin, hval>>
    BY Zenon, <2>2
  <2> QED BY <1>10, <2>1, <2>2, <2>3, <2>4, Zenon
<1>12. ASSUME NEW c \in CPU, NEW s \in Slot, ReapProc(c, s) PROVE KValue'
  <2>2. /\ Free(s) /\ sp' = [sp EXCEPT ![s] = 0] /\ ran' = [ran EXCEPT ![s] = FALSE]
        /\ UNCHANGED <<hpc, hmin, hval>>
    BY Zenon, <1>12 DEF ReapProc, hart
  <2>3. 0 \in Int /\ FALSE \in BOOLEAN /\ \A d \in CPU : hpc'[d] = "scan" => hpc[d] = "scan"
    BY <2>2
  <2>4. sp' = [sp EXCEPT ![s] = 0] /\ ran' = [ran EXCEPT ![s] = FALSE] /\ UNCHANGED <<hmin, hval>>
    BY Zenon, <2>2
  <2> QED BY <1>10, <1>12, <2>2, <2>3, <2>4, Zenon
<1>13. ASSUME NEW c \in CPU, NEW n \in Priorities, NEW pid \in Slot, SetPriority(c, n, pid) PROVE KValue'
  <2>1. 1 \in Slot /\ n \in Int BY SchedAssumption DEF Slot
  <2>2. /\ Free(1) /\ (sp' = [sp EXCEPT ![1] = n] \/ UNCHANGED sp)
        /\ (ran' = [ran EXCEPT ![1] = FALSE] \/ UNCHANGED ran) /\ UNCHANGED <<hmin, hval>>
        /\ (hpc' = [hpc EXCEPT ![c] = "yield"] \/ UNCHANGED hpc)
    BY Zenon, <1>13 DEF SetPriority
  <2>3. \A d \in CPU : hpc'[d] = "scan" => hpc[d] = "scan" BY Zenon, <1>2, <2>2
  <2> QED BY ZenonT(30), <1>10, <2>1, <2>2, <2>3
\* update_time changes the rtime of a process whose lock it holds.
<1>14. CASE UpdateTime
  <2>1. Free(uat) /\ ran' = [ran EXCEPT ![uat] = ran[uat] \/ st[uat] = "RUNNING"]
        /\ UNCHANGED <<sp, hpc, hmin, hval>>
    BY Zenon, <1>14 DEF UpdateTime, hart
  <2> DEFINE b == ran[uat] \/ st[uat] = "RUNNING"
  <2>2. b \in BOOLEAN BY Zenon
  <2>3. 0 \in Int /\ \A d \in CPU : hpc'[d] = "scan" => hpc[d] = "scan" BY <2>1
  <2>4. ran' = [ran EXCEPT ![uat] = b] BY Zenon, <2>1
  <2> HIDE DEF b
  <2> QED BY ZenonT(30), <1>10, <2>1, <2>2, <2>3, <2>4
<1>18. CASE \E c \in CPU : ClockTick(c)
  BY Zenon, <1>4, <1>18 DEF ClockTick, hart, ptable
<1>15. CASE \E s \in Slot : WakeProc(s) BY Zenon, <1>4, <1>15 DEF WakeProc, hart, ptable
<1>16. CASE UNCHANGED schedVars BY Zenon, <1>4, <1>16 DEF schedVars, hart, ptable
<1>17. CASE \E c \in CPU : Scan(c)
  BY Zenon, <1>5, <1>6, <1>17 DEF Scan, FcfsLook, FcfsTry, LbsScan, ScanEnd
<1> QED BY Zenon, <1>7, <1>8, <1>9, <1>11, <1>12, <1>13, <1>14, <1>15, <1>16, <1>17, <1>18 DEF
   SchedNext

\* What a PBS hart has chosen stands until it switches to it, for any number of
\* harts and slots: the lock it keeps through the scan protects the choice's state
\* and priority against every other hart, wakeup, set_priority and the clock, which
\* ticks on another hart and counts one process after the other meanwhile.
THEOREM ChoiceStands == SchedSpec => []PbsChoiceStands
<1>1. SchedInit => KValue /\ KWalk
  <2>0. SchedInit => KWalk BY SchedAssumption DEF SchedInit, Slot, KWalk
  <2> SUFFICES ASSUME SchedInit, build = "PBS" PROVE KValue BY Zenon, <2>0 DEF KValue
  <2>1. sp \in [Slot -> Int] /\ hval \in [CPU -> Int] /\ ran \in [Slot -> BOOLEAN]
    BY DEF SchedInit, Unset
  <2>2. \A c \in CPU : hmin[c] = None BY Zenon DEF SchedInit
  <2> QED BY Zenon, <2>1, <2>2 DEF KValue
<1>2. KInv /\ KInv' /\ KValue /\ KWalk /\ [SchedNext]_schedVars
      => KValue' /\ KWalk'
  BY Zenon, ValueNext, WalkNext DEF KWalk
<1>3. KInv /\ KValue => PbsChoiceStands BY Zenon DEF KInv, KRunnable, KValue, PbsChoiceStands
<1> QED BY <1>1, <1>2, <1>3, SchedInvariant, PTL DEF SchedSpec
=============================================================================
