----------------------- MODULE ClusterTopologyProofs -----------------------
(* Type correctness of ClusterTopology, that a CLUSTER RESET SOFT never      *)
(* takes served slots in a pass that saw a member of the cluster, and when   *)
(* at all it can hit the bootstrap Job, with caches that lag.                *)
EXTENDS ClusterTopology, FiniteSetTheorems, WellFoundedInduction, TLAPS

(***************************************************************************)
(* queryClusterInfo                                                        *)
(***************************************************************************)

\* A nonempty set of naturals has a least element.
LEMMA LeastNat ==
    ASSUME NEW T, T \subseteq Nat, T # {}
    PROVE  \E x \in T : \A y \in T : x <= y
<1>1. PICK x \in T : \A y \in T : ~ (<<y, x>> \in OpToRel(<, Nat))
  BY NatLessThanWellFounded, WFMin
<1>2. \A y \in T : ~ (y < x)
  BY <1>1 DEF OpToRel
<1> QED BY <1>2

\* The number of slot ranges a node reports is a natural, zero only for none.
LEMMA SlotCount ==
    ASSUME TypeOK, NEW p \in Pods
    PROVE  /\ Cardinality(slots[p]) \in Nat
           /\ Cardinality(slots[p]) <= Cardinality(Slots)
           /\ Cardinality(slots[p]) = 0 <=> slots[p] = {}
<1>1. slots[p] \in SUBSET Slots
  BY DEF TypeOK
<1>2. IsFiniteSet(Slots)
  BY TopologyAssumption
<1>3. IsFiniteSet(slots[p]) /\ Cardinality(slots[p]) <= Cardinality(Slots)
  BY <1>1, <1>2, FS_Subset
<1>4. Cardinality(slots[p]) \in Nat
  BY <1>3, FS_CardinalityType
<1> QED BY <1>3, <1>4, FS_EmptySet

\* queryClusterInfo misses no slots: if any pod that answered has some, the
\* best result has some.
LEMMA BestSeesSlots ==
    ASSUME TypeOK, NEW S \in SUBSET Pods, NEW q \in S, slots[q] # {}
    PROVE  \E p \in BestSlots(S) : slots[p] # {}
<1> DEFINE N == Cardinality(Slots)
           T == {N - Cardinality(slots[p]) : p \in S}
<1>1. N \in Nat
  BY TopologyAssumption, FS_CardinalityType
<1>2. \A p \in S : Cardinality(slots[p]) \in Nat /\ Cardinality(slots[p]) <= N
  BY SlotCount
<1>3. T \subseteq Nat /\ T # {}
  BY <1>1, <1>2
<1>4. PICK x \in T : \A y \in T : x <= y
  BY <1>3, LeastNat
<1>5. PICK p \in S : x = N - Cardinality(slots[p])
  BY <1>4
<1>6. \A r \in S : Cardinality(slots[r]) <= Cardinality(slots[p])
  <2> TAKE r \in S
  <2>1. N - Cardinality(slots[p]) <= N - Cardinality(slots[r])
    BY <1>4, <1>5
  <2> QED BY <2>1, <1>1, <1>2
<1>7. Cardinality(slots[q]) # 0
  BY SlotCount
<1>8. Cardinality(slots[p]) # 0
  BY <1>2, <1>6, <1>7
<1>9. slots[p] # {}
  BY <1>8, SlotCount
<1> QED BY <1>5, <1>6, <1>9 DEF BestSlots

(***************************************************************************)
(* Type correctness                                                        *)
(***************************************************************************)

\* Ages and annotations stay in range as time passes and as passes patch them.
LEMMA AgeType ==
    /\ NoTime \in Ages /\ 0 \in Ages
    /\ \A a \in Ages : Older(a) \in Ages
    /\ NoAnn \in Anns
    /\ \A a \in Anns : OlderAnn(a) \in Anns
    /\ \A a \in Anns : Started(a) \in Anns /\ Recorded(a) \in Anns
    /\ \A m, a \in Anns : Answered(m, a) \in Anns
BY TopologyAssumption
DEF Ages, NoTime, Older, OlderAnn, NoAnn, Anns, Started, Recorded, Answered

\* Clearing the timers leaves annotations, in the API and in memory.
LEMMA ClearType == ASSUME TypeOK PROVE Cleared \in Anns /\ AfterClear \in Anns
<1>1. mem \in Anns /\ ann \in Anns /\ NoTime \in Ages
  BY AgeType DEF TypeOK
<1>2. Cleared \in Anns
  BY <1>1 DEF Cleared, Anns
<1> QED BY <1>1, <1>2, AgeType DEF AfterClear

USE DEF nodeVars, envVars, passVars, caches

\* Every variable has its type in an initial state.
LEMMA InitType == Init => TypeOK
<1> SUFFICES ASSUME Init PROVE TypeOK
  OBVIOUS
<1>1. PICK kind \in StartKinds :
        /\ slots = [p \in Pods |-> IF kind = "retained" THEN Slots ELSE {}]
        /\ owned = IF kind = "retained" THEN Slots ELSE {}
        /\ peers = IF kind = "fresh" THEN {} ELSE Pods
  BY DEF Init
<1>2. slots \in [Pods -> SUBSET Slots] /\ owned \subseteq Slots /\ peers \subseteq Pods
  BY <1>1
<1>3. faults \in 0 .. MaxFaults
  BY TopologyAssumption DEF Init
<1> QED BY <1>2, <1>3, AgeType DEF Init, TypeOK, Labels, JobStates

\* Every step of a pass keeps the types.
LEMMA PassType == TypeOK /\ Pass => TypeOK'
<1> SUFFICES ASSUME TypeOK, Pass PROVE TypeOK'
  OBVIOUS
<1> USE AgeType, ClearType DEF TypeOK, Labels, JobStates, EndPass, Continue, Patch
<1>1. CASE ListReadyPods
  <2>1. faults' \in 0 .. MaxFaults
    BY <1>1, TopologyAssumption DEF ListReadyPods, Fault
  <2> QED BY <1>1, <2>1 DEF ListReadyPods, Listed
<1>2. CASE QueryClusterInfo
  BY <1>2 DEF QueryClusterInfo
<1>3. CASE Healthy
  BY <1>3 DEF Healthy, ClearNotOK
<1>4. CASE NotOK
  BY ZenonT(30), <1>4 DEF NotOK, ClearNotOK, StartTimer
<1>5. CASE GossipRecovery
  BY <1>5 DEF GossipRecovery, TopologySet, Answering, Running
<1>6. CASE BootstrapCheck
  BY <1>6 DEF BootstrapCheck, StartTimer
<1>7. CASE ResetStale
  BY <1>7 DEF ResetStale, ResetAllNodes, ResetNodes
<1>8. CASE ClearStale
  BY <1>8 DEF ClearStale, ClearNotOK
<1>9. CASE CheckJob
  BY <1>9 DEF CheckJob
<1>10. CASE ResetBoot
  BY <1>10 DEF ResetBoot, ResetAllNodes, ResetNodes
<1>11. CASE CreateJob
  BY <1>11 DEF CreateJob
<1>12. CASE HealthCheck
  BY ZenonT(30), <1>12 DEF HealthCheck, HealthReset, ResetNodes, ClearNotOK, StartTimer
<1> QED BY <1>1, <1>2, <1>3, <1>4, <1>5, <1>6, <1>7, <1>8, <1>9, <1>10, <1>11, <1>12 DEF Pass

\* Every step of the Job, the caches, the clock and the API server keeps the types.
LEMMA WorldType == TypeOK /\ (JobStep \/ Watch \/ Tick \/ ApiDown \/ ApiUp) => TypeOK'
<1> SUFFICES ASSUME TypeOK, JobStep \/ Watch \/ Tick \/ ApiDown \/ ApiUp PROVE TypeOK'
  OBVIOUS
<1> USE AgeType, TopologyAssumption DEF TypeOK, Labels, JobStates
<1>1. CASE JobAssign
  BY <1>1 DEF JobAssign
<1>2. CASE JobMeet
  BY <1>2 DEF JobMeet
<1>3. CASE JobFail
  BY <1>3 DEF JobFail
<1>4. CASE JobExpire
  BY <1>4 DEF JobExpire
<1>5. CASE Watch
  BY <1>5 DEF Watch, JobWatch, AnnWatch
<1>6. CASE Tick
  BY <1>6 DEF Tick
<1>7. CASE ApiDown
  BY <1>7 DEF ApiDown, Fault
<1>8. CASE ApiUp
  BY <1>8 DEF ApiUp
<1> QED BY <1>1, <1>2, <1>3, <1>4, <1>5, <1>6, <1>7, <1>8 DEF JobStep

\* Every step of a pod keeps the types.
LEMMA PodType == ASSUME TypeOK, NEW p \in Pods, PodStep(p) PROVE TypeOK'
<1> USE TopologyAssumption DEF TypeOK
<1>1. CASE Gossip(p)
  <2>1. View(p) \subseteq Slots
    BY DEF View
  <2> QED BY <1>1, <2>1 DEF Gossip
<1>2. CASE Relink(p)
  BY <1>2 DEF Relink
<1>3. CASE Probe(p)
  BY <1>3 DEF Probe
<1>4. CASE PodStart(p)
  BY <1>4 DEF PodStart
<1>5. CASE Evicted(p)
  BY <1>5 DEF Evicted, PodStop
<1>6. CASE Crash(p)
  BY <1>6 DEF Crash, PodStop, Fault
<1>7. CASE Evict(p)
  BY <1>7 DEF Evict, Fault
<1>8. CASE Deafen(p)
  BY <1>8 DEF Deafen, Fault
<1>9. CASE Hear(p)
  BY <1>9 DEF Hear
<1> QED BY <1>1, <1>2, <1>3, <1>4, <1>5, <1>6, <1>7, <1>8, <1>9 DEF PodStep

\* Every step keeps the types.
LEMMA NextType == TypeOK /\ [Next]_vars => TypeOK'
<1>1. TypeOK /\ UNCHANGED vars => TypeOK'
  BY DEF TypeOK, vars
<1> QED BY <1>1, PassType, WorldType, PodType DEF Next

\* The variables of the topology step keep their types for any number of pods,
\* slot ranges and faults and any timeouts.
THEOREM TypeCorrect == Spec => []TypeOK
BY InitType, NextType, PTL DEF Spec

(***************************************************************************)
(* Served slots survive every pass that saw a member of the cluster        *)
(***************************************************************************)

\* What the cached or the read copy misses of the timer is younger than a tick.
Copies ==
    /\ ann.notok \in {annSeen.notok, NoTime, 0}
    /\ pc \in {"query", "healthy"} => ann.notok \in {mem.notok, NoTime, 0}

\* ResetGate, together with the types and the age of the copies, is inductive.
IInv == TypeOK /\ Copies /\ ResetGate

\* No timer is running in an initial state and no pass is under way.
LEMMA InitGate == Init => IInv
<1>1. Init => ResetGate
  BY DEF Init, ResetGate
<1>2. Init => Copies
  BY DEF Init, Copies
<1> QED BY <1>1, <1>2, InitType DEF IInv

\* The query opens the way to the bootstrap state machine only when no pod that
\* answered has slots.
LEMMA QueryGate == ASSUME TypeOK, QueryClusterInfo PROVE ResetGate'
<1> DEFINE S == Answering(ready)
<1>1. S \in SUBSET Pods
  BY DEF Answering, TypeOK
<1>2. (\E q \in S : slots[q] # {}) => \E p \in BestSlots(S) : slots[p] # {}
  BY <1>1, BestSeesSlots
<1>3. ClusterInfo(S).some = (\E p \in BestSlots(S) : slots[p] # {})
  BY DEF ClusterInfo
<1>4. pc' \in {"healthy", "notok", "bootstrap"}
  BY DEF QueryClusterInfo
<1>5. pc' = "bootstrap" => ~ClusterInfo(S).some
  BY DEF QueryClusterInfo
<1>6. sawSlots' = \E q \in S : slots[q] # {}
  BY DEF QueryClusterInfo
<1>7. pc' = "bootstrap" => ~sawSlots'
  BY <1>2, <1>3, <1>5, <1>6
<1> QED BY <1>4, <1>7 DEF ResetGate

\* A cleared timer is not an expired one, even if the copy missed it.
LEMMA ClearStops == ASSUME TypeOK, Copies, pc = "healthy" PROVE AfterClear.notok < ConvergenceTimeout
<1>1. ann.notok \in {mem.notok, NoTime, 0}
  BY DEF Copies
<1>2. CASE mem = NoAnn
  BY <1>2, TopologyAssumption DEF AfterClear, NoAnn, NoTime
<1>3. CASE mem # NoAnn
  <2>1. AfterClear.notok \in {NoTime, Cleared.notok}
    BY <1>3 DEF AfterClear, Answered, NoAnn
  <2>2. Cleared.notok \in {NoTime, 0}
    BY <1>1 DEF Cleared
  <2> QED BY <2>1, <2>2, TopologyAssumption DEF NoTime
<1> QED BY <1>2, <1>3

\* Every step keeps the copies young.
LEMMA NextCopies == ASSUME TypeOK, Copies, [Next]_vars PROVE Copies'
<1> USE DEF Copies
<1>1. CASE Pass
  <2> USE DEF EndPass, Continue, Patch
  <2>0. Cleared.notok \in {ann.notok, NoTime} /\ Started(ann).notok = 0 /\ Recorded(ann).notok = ann.notok
        /\ NoAnn.notok = NoTime
    BY DEF Cleared, Started, Recorded, NoAnn
  <2>1. CASE ListReadyPods \/ QueryClusterInfo
    BY <2>1 DEF ListReadyPods, QueryClusterInfo
  <2>2. CASE Healthy \/ NotOK \/ GossipRecovery
    BY <2>0, <2>2 DEF Healthy, NotOK, GossipRecovery, ClearNotOK, StartTimer
  <2>3. CASE BootstrapCheck
    BY <2>0, <2>3 DEF BootstrapCheck, StartTimer
  <2>4. CASE ResetStale \/ ResetBoot
    BY <2>0, <2>4 DEF ResetStale, ResetBoot, ResetAllNodes
  <2>5. CASE ClearStale \/ CheckJob \/ CreateJob
    BY <2>0, <2>5 DEF ClearStale, CheckJob, CreateJob, ClearNotOK
  <2>6. CASE HealthCheck
    BY <2>0, <2>6 DEF HealthCheck, HealthReset, ClearNotOK, StartTimer
  <2> QED BY <1>1, <2>1, <2>2, <2>3, <2>4, <2>5, <2>6 DEF Pass
<1>2. CASE Tick \/ Watch
  BY <1>2 DEF Tick, Watch, JobWatch, AnnWatch
<1>3. CASE JobStep \/ ApiDown \/ ApiUp \/ UNCHANGED vars
  BY <1>3 DEF JobStep, JobAssign, JobMeet, JobFail, JobExpire, ApiDown, ApiUp, vars
<1>4. ASSUME NEW p \in Pods, PodStep(p) PROVE Copies'
  BY <1>4 DEF PodStep, Gossip, Relink, Probe, PodStart, Evicted, PodStop, Crash, Evict,
     Deafen, Hear
<1> QED BY <1>1, <1>2, <1>3, <1>4 DEF Next

\* Every step keeps the gate.
LEMMA NextGate == IInv /\ [Next]_vars => IInv'
<1> SUFFICES ASSUME IInv, [Next]_vars PROVE ResetGate'
  BY NextType, NextCopies DEF IInv
<1> USE DEF IInv, ResetGate
<1>1. CASE Pass
  <2> USE DEF EndPass, Continue
  <2>1. CASE QueryClusterInfo
    BY <2>1, QueryGate
  <2>2. CASE ListReadyPods
    BY <2>2 DEF ListReadyPods
  <2>3. CASE Healthy
    <3>1. pc' = "health" /\ mem'.notok < ConvergenceTimeout
      BY <2>3, ClearStops DEF Healthy
    <3>2. mem'.notok \in Int /\ ConvergenceTimeout \in Int
      BY <2>3, ClearType, TopologyAssumption DEF Healthy, Anns, Ages
    <3> QED BY <3>1, <3>2 DEF TimedOut
  <2>4. CASE NotOK \/ GossipRecovery
    BY <2>4 DEF NotOK, GossipRecovery
  <2>5. CASE BootstrapCheck
    BY <2>5 DEF BootstrapCheck
  <2>6. CASE ResetStale \/ ResetBoot
    BY <2>6 DEF ResetStale, ResetBoot, ResetAllNodes
  <2>7. CASE ClearStale \/ CheckJob \/ CreateJob
    BY <2>7 DEF ClearStale, CheckJob, CreateJob
  <2>8. CASE HealthCheck
    BY <2>8 DEF HealthCheck
  <2> QED BY <1>1, <2>1, <2>2, <2>3, <2>4, <2>5, <2>6, <2>7, <2>8 DEF Pass
<1>2. CASE UNCHANGED passVars
  BY <1>2 DEF TimedOut
<1>3. JobStep \/ Watch \/ Tick \/ ApiDown \/ ApiUp => UNCHANGED passVars
  BY DEF JobStep, JobAssign, JobMeet, JobFail, JobExpire, Watch, JobWatch, AnnWatch, Tick, ApiDown,
     ApiUp
<1>4. ASSUME NEW p \in Pods, PodStep(p) PROVE UNCHANGED passVars
  BY <1>4 DEF PodStep, Gossip, Relink, Probe, PodStart, Evicted, PodStop, Crash, Evict,
     Deafen, Hear
<1>5. UNCHANGED vars => UNCHANGED passVars
  BY DEF vars
<1> QED BY <1>1, <1>2, <1>3, <1>4, <1>5 DEF Next

\* The only steps that take a slot range from its home are the reset rounds of
\* a pass that saw no slots and the loss of the home's disk.
LEMMA SlotsKeptStep ==
    ASSUME IInv, [Next]_vars, NEW s \in owned \ owned'
    PROVE  \/ pod[Home[s]] # "down" /\ pod'[Home[s]] = "down"
           \/ ~sawSlots
<1> USE DEF IInv, ResetGate
<1>0. s \in Slots /\ Home[s] \in Pods
  BY TopologyAssumption DEF TypeOK
<1>1. CASE Pass
  <2>1. CASE HealthCheck
    <3>1. ~TimedOut
      BY <2>1 DEF HealthCheck
    <3> QED BY <2>1, <3>1 DEF HealthCheck
  <2>2. CASE ResetStale \/ ResetBoot
    BY <2>2 DEF ResetStale, ResetBoot
  <2>3. CASE ListReadyPods \/ QueryClusterInfo \/ Healthy \/ NotOK \/ GossipRecovery
    BY ZenonT(30), <2>3 DEF ListReadyPods, QueryClusterInfo, Healthy, NotOK, GossipRecovery
  <2>4. CASE BootstrapCheck \/ ClearStale \/ CheckJob \/ CreateJob
    BY <2>4 DEF BootstrapCheck, ClearStale, CheckJob, CreateJob
  <2> QED BY <1>1, <2>1, <2>2, <2>3, <2>4 DEF Pass
<1>2. CASE JobStep
  BY <1>0, <1>2 DEF JobStep, JobAssign, JobMeet, JobFail, JobExpire
<1>3. CASE Watch \/ Tick \/ ApiDown \/ ApiUp \/ UNCHANGED vars
  BY ZenonT(30), <1>3 DEF Watch, JobWatch, AnnWatch, Tick, ApiDown, ApiUp, vars
<1>4. ASSUME NEW p \in Pods, PodStep(p)
      PROVE  pod[Home[s]] # "down" /\ pod'[Home[s]] = "down"
  <2>1. CASE Crash(p)
    <3>1. Home[s] = p
      BY ZenonT(30), <2>1 DEF Crash, PodStop
    <3> QED BY SMTT(30), <2>1, <3>1 DEF Crash, PodStop, TypeOK
  <2>2. CASE Gossip(p) \/ Relink(p) \/ Probe(p) \/ PodStart(p) \/ Evicted(p)
    <3>1. owned' = owned
      BY ZenonT(30), <2>2 DEF Gossip, Relink, Probe, PodStart, Evicted, PodStop
    <3> QED BY <3>1
  <2>3. CASE Evict(p) \/ Deafen(p) \/ Hear(p)
    BY <2>3 DEF Evict, Deafen, Hear
  <2> QED BY <1>4, <2>1, <2>2, <2>3 DEF PodStep
<1> QED BY <1>1, <1>2, <1>3, <1>4 DEF Next

\* A pass reaches resetAllNodes only after a query that showed no slots, and the
\* health check never finds an expired timer, for every number of pods.
THEOREM GateHolds == Spec => []ResetGate
<1>1. Init => IInv
  BY InitGate
<1>2. IInv /\ [Next]_vars => IInv'
  BY NextGate
<1> QED BY <1>1, <1>2, PTL DEF Spec, IInv

\* No pass that got slots out of any pod takes a served slot range away, for
\* every number of pods and slot ranges and whatever the faults.
THEOREM SlotsKept == Spec => ServedSlotsKept
<1> DEFINE Kept == \A s \in owned \ owned' :
                     \/ pod[Home[s]] # "down" /\ pod'[Home[s]] = "down"
                     \/ ~sawSlots
<1>1. Init => IInv
  BY InitGate
<1>2. IInv /\ [Next]_vars => IInv'
  BY NextGate
<1>3. IInv /\ [Next]_vars => [Kept]_vars
  BY SlotsKeptStep
<1> QED BY <1>1, <1>2, <1>3, PTL DEF Spec, ServedSlotsKept

(***************************************************************************)
(* With no other faults than lag: when a reset can hit the Job             *)
(***************************************************************************)

OnlyLag == FaultKinds \subseteq {"lag"} \/ MaxFaults = 0

\* no node knows of any slot range
Slotless == \A p \in Pods : slots[p] = {}

\* the states of a pass that found no slots
Early == {"bootstrap", "resetStale", "clearStale"}
Late  == {"job", "resetBoot", "create"}

\* such a pass that has seen every pod
Committed == pc \in Early \cup Late /\ ready = Pods

AtWork == job \in {"waiting", "assigned"}

Cooling(a) == a.reset # NoTime /\ a.reset < ResetCooldown

\* the tick of a reset, with some pass so far on a stale copy of the resource
Window == sinceReset = 0 /\ faults > 0

\* Every pod runs and answers, the Job does not fail, a pass that goes on to
\* the bootstrap has seen every pod, and without lag its copy is the resource.
Quiet ==
    /\ api = "up" /\ deaf = {} /\ \A p \in Pods : pod[p] \in {"starting", "ready"}
    /\ {job, jobSeen} \subseteq {"absent", "waiting", "assigned", "succeeded"}
    /\ pc \in {"resetStale", "clearStale"} \cup Late => ready = Pods
    /\ pc # "idle" /\ faults = 0 => mem = ann

\* Which nodes are empty: a pass that is not on its way to the bootstrap saw
\* slots; the Job starts on empty nodes; and while it is at work, a pass that saw
\* none meets no peers either, so it never sends the stale-peer round.
Empties ==
    /\ pc \in {"notok", "healthy", "push", "health"} => ~Slotless
    /\ Committed /\ job = "absent" => Slotless
    /\ pc \in Late /\ job = "absent" => peers = {} \/ (pc # "create" /\ ~CoolingDown)
    /\ pc = "clearStale" /\ job = "absent" => peers = {} \/ mem.reset # NoTime
    /\ pc = "resetStale" => peers # {}
    /\ pc \in {"resetStale", "clearStale"} => ~AtWork
    /\ job = "waiting" => Slotless /\ peers = {}
    /\ AtWork /\ (Committed \/ Slotless) => peers = {}

\* A recorded reset is the last one; what a copy misses of it happened in this
\* tick; and on empty nodes a copy differs only in the tick of a reset.
Clock ==
    /\ ann.reset # NoTime => ann.reset = sinceReset
    /\ ann.reset \in {annSeen.reset, NoTime, 0}
    /\ pc # "idle" => ann.reset \in {mem.reset, NoTime, 0}
    /\ annSeen.reset # ann.reset => sinceReset = 0 \/ ~Slotless \/ peers # {}
    /\ pc # "idle" /\ mem.reset # ann.reset => sinceReset = 0 \/ ~Slotless \/ peers # {}
    /\ pc = "clearStale" => sinceReset = 0 \/ peers # {}

\* Until the cache shows the Job, the cooldown or the window lasts, unless slots
\* are there that keep every pass from the bootstrap.
JobSafe ==
    /\ AtWork /\ jobSeen = "absent" => Cooling(ann) \/ Window \/ (~Slotless /\ ~Committed)
    /\ pc = "resetBoot" /\ AtWork => Cooling(ann) \/ Window
    /\ pc = "create" /\ job = "absent" => Cooling(ann) \/ Window

CalmInv == IInv /\ Quiet /\ Empties /\ Clock /\ JobSafe

\* Fault actions other than lag do not happen.
LEMMA NoFault == ASSUME OnlyLag, TypeOK, NEW k, k # "lag" PROVE ~Fault(k)
<1>1. faults \in 0 .. MaxFaults
  BY DEF TypeOK
<1> QED BY <1>1 DEF OnlyLag, Fault

\* Every pod answers.
LEMMA AllAnswer == ASSUME Quiet, NEW S \in SUBSET Pods PROVE Answering(S) = S
BY DEF Quiet, Answering

\* An initial state is calm.
LEMMA InitCalm == Init => CalmInv
<1> SUFFICES ASSUME Init PROVE CalmInv
  OBVIOUS
<1>1. IInv
  BY InitGate
<1>2. Quiet /\ Empties /\ Clock /\ JobSafe
  BY DEF Init, Quiet, Empties, Clock, JobSafe, AtWork, NoAnn, Early, Late, Committed
<1> QED BY <1>1, <1>2 DEF CalmInv

\* With a pass that stays where it is, the Job absent or present as before and
\* the slots neither appearing nor going, a step keeps CalmInv if it keeps the
\* tables of peers, the timers and the caches.
LEMMA CalmOther ==
    ASSUME CalmInv, Quiet', IInv', Slotless' <=> Slotless,
           UNCHANGED <<peers, ann, annSeen, pc, mem, ready, sinceReset, faults, job, jobSeen>>
    PROVE  CalmInv'
BY ZenonT(30)
DEF CalmInv, Empties, Clock, JobSafe, AtWork, Window, Committed, Cooling, CoolingDown

\* Steps of pods keep CalmInv.
LEMMA PodCalm == ASSUME OnlyLag, CalmInv, NEW p \in Pods, PodStep(p) PROVE CalmInv'
<1>1. IInv'
  BY NextGate DEF CalmInv, Next
<1>2. \A k : k # "lag" => ~Fault(k)
  BY NoFault DEF CalmInv, IInv
<1>3. ~Crash(p) /\ ~Evict(p) /\ ~Deafen(p)
  BY <1>2 DEF Crash, Evict, Deafen
<1>4. ~Hear(p) /\ ~Evicted(p) /\ ~PodStart(p)
  BY DEF Hear, Evicted, PodStart, CalmInv, Quiet
<1>5. CASE Gossip(p)
  <2>1. Slotless' <=> Slotless
    <3>1. slots' = [slots EXCEPT ![p] = View(p)] /\ slots \in [Pods -> SUBSET Slots]
      BY <1>5 DEF Gossip, CalmInv, IInv, TypeOK
    <3>2. slots[p] \subseteq View(p) /\ (Slotless => View(p) = {})
      BY DEF View, Slotless
    <3> QED BY <3>1, <3>2 DEF Slotless
  <2>2. Quiet'
    BY <1>5 DEF Gossip, CalmInv, Quiet
  <2> QED BY <1>1, <1>5, <2>1, <2>2, CalmOther DEF Gossip
<1>6. CASE Relink(p) \/ Probe(p)
  <2>1. UNCHANGED <<peers, ann, annSeen, pc, mem, ready, sinceReset, faults, job, jobSeen, api, deaf, slots>>
    BY SMTT(30), <1>6 DEF Relink, Probe
  <2>2. \A q \in Pods : pod'[q] \in {"starting", "ready"}
    BY SMTT(30), <1>6 DEF Relink, Probe, CalmInv, Quiet, IInv, TypeOK
  <2>3. Quiet'
    BY ZenonT(30), <2>1, <2>2 DEF CalmInv, Quiet
  <2>4. Slotless' <=> Slotless
    BY <2>1 DEF Slotless
  <2> QED BY <1>1, <2>1, <2>3, <2>4, CalmOther
<1> QED BY <1>3, <1>4, <1>5, <1>6 DEF PodStep

\* Steps of the Job, the caches, the clock and the API server keep CalmInv.
LEMMA WorldCalm ==
    ASSUME OnlyLag, CalmInv, JobStep \/ Watch \/ Tick \/ ApiDown \/ ApiUp
    PROVE  CalmInv'
<1>1. IInv'
  BY NextGate DEF CalmInv, Next
<1>2. ~ApiDown /\ ~ApiUp
  BY SMTT(30), NoFault DEF ApiDown, ApiUp, CalmInv, IInv, Quiet
<1>0. Quiet /\ Empties /\ Clock /\ JobSafe
  BY DEF CalmInv
<1> USE DEF Committed, Cooling, CoolingDown, AtWork, Window, Early, Late
<1>3. CASE JobAssign
  <2>1. ~Slotless'
    <3>1. PICK s \in Slots : Home[s] \in Pods
      BY TopologyAssumption
    <3>2. s \in slots'[Home[s]]
      BY <1>3, <3>1 DEF JobAssign
    <3> QED BY <3>1, <3>2 DEF Slotless
  <2>2. /\ job = "waiting" /\ job' = "assigned"
        /\ UNCHANGED <<pod, api, deaf, faults, peers, ann, annSeen, pc, mem, ready, sinceReset, jobSeen>>
    BY <1>3 DEF JobAssign
  <2>3. Quiet'
    BY SMTT(30), <1>0, <2>2 DEF Quiet
  <2>4. Slotless /\ peers = {}
    BY <1>0, <2>2 DEF Empties
  <2>5. Empties'
    BY SMTT(30), <1>0, <2>1, <2>2, <2>4 DEF Empties
  <2>6. Clock'
    BY SMTT(30), <1>0, <2>1, <2>2 DEF Clock
  <2>7. JobSafe'
    BY SMTT(30), <1>0, <2>1, <2>2, <2>4 DEF JobSafe
  <2> QED BY <1>1, <2>3, <2>5, <2>6, <2>7 DEF CalmInv
<1>4. CASE JobMeet
  <2>1. Slotless' <=> Slotless
    BY ZenonT(30), <1>4 DEF JobMeet, Slotless
  <2>2. peers' # {}
    BY SMTT(30), <1>4, TopologyAssumption DEF JobMeet
  <2>3. /\ job = "assigned" /\ job' = "succeeded"
        /\ UNCHANGED <<pod, api, deaf, faults, ann, annSeen, pc, mem, ready, sinceReset, jobSeen>>
    BY <1>4 DEF JobMeet
  <2>4. Quiet'
    BY SMTT(30), <1>0, <2>3 DEF Quiet
  <2>5. Empties'
    BY SMTT(30), <1>0, <2>1, <2>2, <2>3 DEF Empties
  <2>6. Clock'
    BY SMTT(30), <1>0, <2>1, <2>2, <2>3 DEF Clock
  <2>7. JobSafe'
    BY SMTT(30), <1>0, <2>1, <2>3 DEF JobSafe
  <2> QED BY <1>1, <2>4, <2>5, <2>6, <2>7 DEF CalmInv
<1>5. CASE JobFail
  <2>1. job = "waiting" => \A p \in Pods : Empty(p)
    BY <1>0 DEF Empties, Empty, Slotless
  <2>2. \A p \in Pods : pod[p] # "down"
    BY <1>0 DEF Quiet
  <2> QED BY <1>5, <2>1, <2>2 DEF JobFail
<1>6. CASE JobExpire
  <2>1. Slotless' <=> Slotless
    BY ZenonT(30), <1>6 DEF JobExpire, Slotless
  <2>2. /\ pc = "idle" /\ job' = "absent"
        /\ UNCHANGED <<pod, api, deaf, faults, peers, ann, annSeen, pc, mem, ready, sinceReset, jobSeen>>
    BY <1>6 DEF JobExpire
  <2>3. Quiet' /\ Empties' /\ Clock' /\ JobSafe'
    BY SMTT(30), <1>0, <2>1, <2>2 DEF Quiet, Empties, Clock, JobSafe
  <2> QED BY <1>1, <2>3 DEF CalmInv
<1>7. CASE Watch
  <2>1. Slotless' <=> Slotless
    BY ZenonT(30), <1>7 DEF Watch, JobWatch, AnnWatch, Slotless
  <2>2. /\ jobSeen' \in {jobSeen, job} /\ annSeen' \in {annSeen, ann}
        /\ UNCHANGED <<pod, api, deaf, faults, peers, job, ann, pc, mem, ready, sinceReset>>
    BY <1>7 DEF Watch, JobWatch, AnnWatch
  <2>3. Quiet' /\ Empties'
    BY SMTT(30), <1>0, <2>1, <2>2 DEF Quiet, Empties
  <2>4. Clock'
    BY SMTT(30), <1>0, <2>1, <2>2 DEF Clock
  <2>5. JobSafe'
    BY SMTT(30), <1>0, <2>1, <2>2 DEF JobSafe
  <2> QED BY <1>1, <2>3, <2>4, <2>5 DEF CalmInv
<1>8. CASE Tick
  <2>1. Slotless' <=> Slotless
    BY <1>8 DEF Tick, Slotless
  <2>2. /\ pc = "idle" /\ jobSeen = job /\ annSeen' = ann'
        /\ UNCHANGED <<pod, api, deaf, faults, peers, job, pc, mem, ready, jobSeen>>
    BY <1>8 DEF Tick
  <2>3. /\ ann'.reset = Older(ann.reset) /\ sinceReset' = Older(sinceReset)
        /\ ann.reset = NoTime => ann'.reset = NoTime
    BY <1>8 DEF Tick, OlderAnn, Older
  <2>4. Quiet' /\ Empties' /\ JobSafe'
    BY SMTT(30), <1>0, <2>1, <2>2 DEF Quiet, Empties, JobSafe
  <2>5. Clock'
    BY SMTT(30), <1>0, <2>1, <2>2, <2>3 DEF Clock
  <2> QED BY SMTT(30), <1>1, <2>4, <2>5 DEF CalmInv
<1> QED BY <1>2, <1>3, <1>4, <1>5, <1>6, <1>7, <1>8 DEF JobStep

\* The query keeps CalmInv: a pass goes on to the bootstrap with all pods seen
\* only if none of them has slots.
LEMMA QueryCalm == ASSUME CalmInv, QueryClusterInfo PROVE CalmInv'
<1>1. IInv'
  BY SMTT(30), NextGate DEF CalmInv, Next, Pass
<1>2. Slotless' <=> Slotless
  BY DEF QueryClusterInfo, Slotless
<1>3. Answering(ready) = ready
  BY AllAnswer DEF CalmInv, IInv, TypeOK
<1>4. ready = Pods /\ pc' = "bootstrap" => Slotless
  <2>1. pc' = "bootstrap" => ~sawSlots'
    BY <1>1 DEF IInv, ResetGate
  <2> QED BY <1>3, <2>1 DEF QueryClusterInfo, Slotless
<1>5. pc' \in {"healthy", "notok"} => ~Slotless
  <2>1. pc' \in {"healthy", "notok"} => ClusterInfo(ready).some
    BY <1>3 DEF QueryClusterInfo
  <2>2. ClusterInfo(ready).some => \E p \in ready : slots[p] # {}
    BY DEF ClusterInfo, BestSlots
  <2> QED BY <2>1, <2>2 DEF Slotless, CalmInv, IInv, TypeOK
<1>6. /\ pc = "query" /\ pc' \in {"healthy", "notok", "bootstrap"}
      /\ UNCHANGED <<pod, api, deaf, faults, peers, job, jobSeen, ann, annSeen, mem, ready, sinceReset>>
  BY DEF QueryClusterInfo
<1>7. Quiet /\ Empties /\ Clock /\ JobSafe
  BY DEF CalmInv
<1> USE DEF Committed, Cooling, CoolingDown, AtWork, Window, Early, Late
<1>8. Quiet'
  BY SMTT(30), <1>6, <1>7 DEF Quiet
<1>9. Empties'
  BY SMTT(30), <1>2, <1>4, <1>5, <1>6, <1>7 DEF Empties
<1>10. Clock'
  BY SMTT(30), <1>2, <1>6, <1>7 DEF Clock
<1>11. JobSafe'
  BY SMTT(30), <1>2, <1>4, <1>6, <1>7 DEF JobSafe
<1> QED BY <1>1, <1>8, <1>9, <1>10, <1>11 DEF CalmInv

\* What BootstrapCheck finds when it goes on.
LEMMA CheckFinds ==
    ASSUME CalmInv, pc = "bootstrap", ready = Pods
    PROVE  /\ NotReadyReasons(ready) = {} => Slotless /\ peers = {}
           /\ "stale peers" \in NotReadyReasons(ready) => peers # {}
<1>1. Answering(Pods) = Pods
  BY AllAnswer DEF CalmInv
<1>2. \A p \in Pods : BootstrapReady(p) = "ready" <=> slots[p] = {} /\ p \notin peers
  BY <1>1 DEF BootstrapReady
<1>3. \A p \in Pods : BootstrapReady(p) = "stale peers" => p \in peers
  BY <1>1 DEF BootstrapReady
<1>4. peers \subseteq Pods
  BY DEF CalmInv, IInv, TypeOK
<1>5. ASSUME NotReadyReasons(ready) = {} PROVE Slotless /\ peers = {}
  <2>1. \A p \in Pods : BootstrapReady(p) = "ready"
    BY SMTT(30), <1>5 DEF NotReadyReasons
  <2> QED BY <1>2, <1>4, <2>1 DEF Slotless
<1>6. ASSUME "stale peers" \in NotReadyReasons(ready) PROVE peers # {}
  BY ZenonT(30), <1>3, <1>6 DEF NotReadyReasons
<1> QED BY <1>5, <1>6

\* BootstrapCheck keeps CalmInv.
LEMMA CheckCalm == ASSUME CalmInv, BootstrapCheck PROVE CalmInv'
<1>1. IInv'
  BY NextGate DEF CalmInv, Next, Pass
<1>2. Slotless' <=> Slotless
  BY Zenon DEF BootstrapCheck, Slotless
<1> DEFINE R == NotReadyReasons(ready)
<1>3. /\ pc = "bootstrap" /\ api = "up"
      /\ UNCHANGED <<pod, api, deaf, faults, peers, job, jobSeen, annSeen, sinceReset>>
      /\ \/ EndPass /\ ann'.reset = ann.reset
         \/ ready = Pods /\ R = {} /\ Continue("job", mem) /\ UNCHANGED ann
         \/ /\ ready = Pods /\ "stale peers" \in R
            /\ Continue("resetStale", mem) /\ UNCHANGED ann
  <2>1. StartTimer => ann'.reset = ann.reset
    BY DEF StartTimer, Patch, Started
  <2>2. api = "up"
    BY DEF CalmInv, Quiet
  <2> QED BY ZenonT(30), <2>1, <2>2 DEF BootstrapCheck
<1>4. Quiet /\ Empties /\ Clock /\ JobSafe
  BY DEF CalmInv
<1>8. /\ pc = "bootstrap" /\ api = "up"
      /\ UNCHANGED <<pod, api, deaf, faults, peers, job, jobSeen, annSeen, sinceReset>>
  BY <1>3
<1> USE DEF Committed, Cooling, CoolingDown, AtWork, Window, Early, Late
<1>5. CASE EndPass /\ ann'.reset = ann.reset
  <2>1. pc' = "idle" /\ ann'.reset = ann.reset
    BY <1>5 DEF EndPass
  <2>2. Quiet'
    BY SMTT(30), <1>8, <1>4, <2>1 DEF Quiet
  <2>3. Empties'
    BY SMTT(30), <1>2, <1>8, <1>4, <2>1 DEF Empties
  <2>4. Clock'
    BY SMTT(30), <1>2, <1>8, <1>4, <2>1 DEF Clock
  <2>5. JobSafe'
    BY SMTT(30), <1>2, <1>8, <1>4, <2>1 DEF JobSafe
  <2> QED BY <1>1, <2>2, <2>3, <2>4, <2>5 DEF CalmInv
<1>6. CASE ready = Pods /\ R = {} /\ Continue("job", mem) /\ UNCHANGED ann
  <2>1. Slotless /\ peers = {}
    BY Zenon, <1>3, <1>6, CheckFinds
  <2> HIDE DEF R
  <2> QED BY ZenonT(30), <1>1, <1>2, <1>8, <1>4, <1>6, <2>1
        DEF Continue, CalmInv, Quiet, Empties, Clock, JobSafe
<1>7. CASE ready = Pods /\ "stale peers" \in R /\ Continue("resetStale", mem) /\ UNCHANGED ann
  <2>1. peers # {}
    BY Zenon, <1>3, <1>7, CheckFinds
  <2>0. ready = Pods
    BY <1>7
  <2>2. ~AtWork
    BY SMTT(30), <1>4, <1>8, <2>0, <2>1 DEF Empties
  <2>3. pc' = "resetStale" /\ ready = Pods /\ UNCHANGED <<mem, ready, ann>>
    BY <1>7 DEF Continue
  <2>4. Quiet'
    BY SMTT(30), <1>8, <1>4, <2>3 DEF Quiet
  <2>5. Empties'
    BY SMTT(30), <1>2, <1>8, <1>4, <2>1, <2>2, <2>3 DEF Empties
  <2>6. Clock'
    BY SMTT(30), <1>2, <1>8, <1>4, <2>3 DEF Clock
  <2>7. JobSafe'
    BY SMTT(30), <1>2, <1>8, <2>2, <2>3 DEF JobSafe
  <2> QED BY <1>1, <2>4, <2>5, <2>6, <2>7 DEF CalmInv
<1> QED BY <1>3, <1>5, <1>6, <1>7

\* A reset round of a committed pass leaves every node empty.
LEMMA RoundEmpties ==
    ASSUME CalmInv, ready = Pods, ResetNodes(Answering(ready))
    PROVE  Slotless' /\ peers' = {} /\ Answering(ready) # {}
<1>1. Answering(ready) = Pods
  BY AllAnswer DEF CalmInv
<1> QED BY <1>1, TopologyAssumption DEF ResetNodes, Slotless, CalmInv, IInv, TypeOK

\* Both rounds keep CalmInv, sent or held back by the cooldown.
LEMMA ResetCalm == ASSUME CalmInv, ResetStale \/ ResetBoot PROVE CalmInv'
<1>1. IInv'
  BY NextGate DEF CalmInv, Next, Pass
<1>2. api = "up" /\ ready = Pods
  BY DEF CalmInv, Quiet, ResetStale, ResetBoot, Late
<1>3. 0 # NoTime /\ 0 < ResetCooldown
  BY SMTT(30), TopologyAssumption DEF NoTime
<1>4. Quiet /\ Empties /\ Clock /\ JobSafe
  BY DEF CalmInv
<1>5. /\ UNCHANGED <<pod, api, deaf, faults, job, jobSeen, annSeen, ready>>
      /\ \/ pc = "resetStale" /\ pc' = "clearStale"
         \/ pc = "resetBoot" /\ pc' = "create"
  BY DEF ResetStale, ResetBoot, ResetAllNodes, Continue
<1>6. CASE CoolingDown
  <2>1. UNCHANGED <<slots, peers, mem, ann, sinceReset>>
    BY <1>6 DEF ResetStale, ResetBoot, ResetAllNodes, Continue
  <2>2. Slotless' <=> Slotless
    BY <2>1 DEF Slotless
  <2>3. pc = "resetBoot" /\ job = "absent" => Cooling(ann) \/ Window
    <3>1. SUFFICES ASSUME pc = "resetBoot", job = "absent" PROVE Cooling(ann) \/ Window
      OBVIOUS
    <3>2. Slotless /\ peers = {}
      BY <1>2, <1>4, <1>6, <3>1 DEF Empties, Committed, Late
    <3>3. CASE mem.reset = ann.reset
      BY <1>6, <3>3 DEF CoolingDown, Cooling
    <3>4. CASE mem.reset # ann.reset
      <4>1. sinceReset = 0
        BY <1>4, <3>1, <3>2, <3>4 DEF Clock
      <4>2. faults # 0
        BY <1>4, <3>1, <3>4 DEF Quiet
      <4>3. faults \in Nat
        BY TopologyAssumption DEF CalmInv, IInv, TypeOK
      <4> QED BY <4>1, <4>2, <4>3 DEF Window
    <3> QED BY <3>3, <3>4
  <2> USE DEF Committed, CoolingDown, AtWork, Early, Late
  <2>4. Quiet'
    BY SMTT(30), <1>4, <1>5, <2>1 DEF Quiet
  <2>5. Empties'
    BY SMTT(30), <1>2, <1>4, <1>5, <1>6, <2>1, <2>2 DEF Empties
  <2>6. Clock'
    BY SMTT(30), <1>4, <1>5, <2>1, <2>2 DEF Clock, Empties
  <2>7. JobSafe'
    BY SMTT(30), <1>2, <1>4, <1>5, <2>1, <2>2, <2>3 DEF JobSafe, Cooling, Window
  <2> QED BY <1>1, <2>4, <2>5, <2>6, <2>7 DEF CalmInv
<1>7. CASE ~CoolingDown
  <2>1. /\ ResetNodes(Answering(ready)) /\ ann' = Recorded(ann)
        /\ mem' = Answered(Recorded(mem), Recorded(ann))
        /\ sinceReset' = IF Answering(ready) = {} THEN sinceReset ELSE 0
    BY ZenonT(30), <1>2, <1>7 DEF ResetStale, ResetBoot, ResetAllNodes, Continue, Patch
  <2>2. Slotless' /\ peers' = {} /\ sinceReset' = 0
    BY <1>2, <2>1, RoundEmpties
  <2>3. ann'.reset = 0 /\ mem'.reset = 0
    BY <1>2, <1>3, <2>1 DEF Recorded, Answered
  <2>4. faults = 0 => mem' = ann'
    <3>1. faults = 0 => mem = ann
      BY <1>4, <1>5 DEF Quiet
    <3>2. Answered(Recorded(ann), Recorded(ann)) = Recorded(ann)
      BY DEF Answered, Recorded
    <3> QED BY <2>1, <3>1, <3>2
  <2> USE DEF Committed, CoolingDown, AtWork, Early, Late
  <2>5. Quiet'
    BY SMTT(30), <1>4, <1>5, <2>4 DEF Quiet
  <2>6. Empties'
    BY SMTT(30), <1>4, <1>5, <2>2, <2>3 DEF Empties
  <2>7. Clock'
    BY SMTT(30), <1>3, <2>2, <2>3 DEF Clock
  <2>8. JobSafe'
    BY SMTT(30), <1>3, <2>3 DEF JobSafe, Cooling
  <2> QED BY <1>1, <2>5, <2>6, <2>7, <2>8 DEF CalmInv
<1> QED BY <1>6, <1>7

\* Clearing the timers, with the API up.
LEMMA ClearCalm ==
    ASSUME CalmInv, ClearNotOK, mem' = AfterClear, pc # "idle"
    PROVE  /\ ann'.reset \in {ann.reset, NoTime}
           /\ ann'.reset \in {mem'.reset, NoTime, 0}
           /\ mem.reset # NoTime => mem'.reset = NoTime
           /\ mem'.reset # ann'.reset => mem.reset # ann.reset
           /\ faults = 0 => mem' = ann'
<1>1. api = "up" /\ (faults = 0 => mem = ann) /\ ann.reset \in {mem.reset, NoTime, 0}
  BY DEF CalmInv, Quiet, Clock
<1>2. ann' = Cleared
  BY <1>1 DEF ClearNotOK, Patch
<1>3. CASE mem = NoAnn
  <2>1. mem' = mem /\ mem.reset = NoTime /\ mem.notok = NoTime
    BY <1>3 DEF AfterClear, NoAnn
  <2>2. ann'.reset = ann.reset /\ ann'.notok = ann.notok
    BY <1>2, <2>1 DEF Cleared
  <2>3. mem = ann => Cleared = NoAnn
    BY <1>3 DEF Cleared, NoAnn
  <2> QED BY <1>1, <1>2, <1>3, <2>1, <2>2, <2>3
<1>4. CASE mem # NoAnn
  <2>1. Answered(NoAnn, Cleared) = Cleared
    BY <1>1 DEF Answered, NoAnn, Cleared
  <2>2. mem' = ann'
    BY <1>2, <1>4, <2>1 DEF AfterClear
  <2>3. Cleared.reset = IF mem.reset = NoTime THEN ann.reset ELSE NoTime
    BY DEF Cleared
  <2> QED BY <1>2, <2>2, <2>3
<1> QED BY <1>3, <1>4

\* A pass that saw slots keeps CalmInv as long as it sends no round.
LEMMA SeenCalm ==
    ASSUME CalmInv, IInv', ~Slotless,
           UNCHANGED <<pod, slots, api, deaf, faults, job, jobSeen, annSeen, sinceReset>>,
           ann'.reset \in {ann.reset, NoTime}, pc' \in {"idle", "push", "health"},
           pc' # "idle" => /\ ann'.reset \in {mem'.reset, NoTime, 0}
                           /\ faults = 0 => mem' = ann'
    PROVE  CalmInv'
<1>1. ~Slotless'
  BY DEF Slotless
<1>2. Quiet /\ Empties /\ Clock /\ JobSafe
  BY DEF CalmInv
<1> USE DEF Committed, AtWork, Early, Late
<1>3. Quiet'
  BY SMTT(30), <1>2 DEF Quiet
<1>4. Empties'
  BY SMTT(30), <1>1, <1>2 DEF Empties
<1>5. Clock'
  BY SMTT(30), <1>1, <1>2 DEF Clock
<1>6. JobSafe'
  BY SMTT(30), <1>1, <1>2 DEF JobSafe
<1> QED BY <1>3, <1>4, <1>5, <1>6 DEF CalmInv

\* So do the steps of such a pass, the health check included.
LEMMA ServingCalm ==
    ASSUME CalmInv, Healthy \/ NotOK \/ GossipRecovery \/ HealthCheck
    PROVE  CalmInv'
<1>1. IInv'
  BY NextGate DEF CalmInv, Next, Pass
<1>2. StartTimer => ann'.reset = ann.reset
  BY DEF StartTimer, Patch, Started
<1>3. ClearNotOK => ann'.reset \in {ann.reset, NoTime}
  BY DEF ClearNotOK, Patch, Cleared
<1>4. pc \in {"healthy", "notok", "push", "health"}
  BY DEF Healthy, NotOK, GossipRecovery, HealthCheck
<1>5. ~Slotless
  BY <1>4 DEF CalmInv, Empties
<1>6. CASE Healthy
  <2>1. ClearNotOK /\ mem' = AfterClear /\ pc' = "health"
    BY <1>6 DEF Healthy, Continue
  <2> QED BY <1>1, <1>4, <1>5, <1>6, <2>1, ClearCalm, SeenCalm DEF Healthy
<1>7. CASE NotOK
  <2>1. UNCHANGED <<pod, slots, api, deaf, faults, job, jobSeen, annSeen, sinceReset>>
    BY <1>7 DEF NotOK
  <2>2. CASE TimedOut
    <3>1. ClearNotOK /\ mem' = AfterClear /\ pc' = "push"
      BY <1>7, <2>2 DEF NotOK, Continue
    <3> QED BY <1>1, <1>4, <1>5, <2>1, <3>1, ClearCalm, SeenCalm
  <2>3. CASE ~TimedOut
    <3>1. pc' = "idle" /\ ann'.reset = ann.reset
      BY <1>2, <1>7, <2>3 DEF NotOK, EndPass
    <3> QED BY <1>1, <1>5, <2>1, <3>1, SeenCalm
  <2> QED BY <2>2, <2>3
<1>8. CASE GossipRecovery
  BY <1>1, <1>5, <1>8, SeenCalm DEF GossipRecovery, EndPass
<1>9. CASE HealthCheck
  <2>1. ~TimedOut
    BY <1>9 DEF HealthCheck, CalmInv, IInv, ResetGate
  <2>2. UNCHANGED slots /\ sinceReset' = sinceReset
    BY <1>9, <2>1 DEF HealthCheck
  <2>3. ann'.reset \in {ann.reset, NoTime}
    BY <1>2, <1>3, <1>9, <2>1 DEF HealthCheck
  <2>4. pc' = "idle" /\ UNCHANGED <<pod, api, deaf, faults, job, jobSeen, annSeen>>
    BY <1>9 DEF HealthCheck, EndPass
  <2> QED BY <1>1, <1>5, <2>2, <2>3, <2>4, SeenCalm
<1> QED BY <1>6, <1>7, <1>8, <1>9

\* The other steps of the pass keep CalmInv.
LEMMA StepCalm ==
    ASSUME CalmInv, ListReadyPods \/ ClearStale \/ CheckJob \/ CreateJob
    PROVE  CalmInv'
<1>1. IInv'
  BY NextGate DEF CalmInv, Next, Pass
<1>2. Quiet /\ Empties /\ Clock /\ JobSafe
  BY DEF CalmInv
<1>3. UNCHANGED <<pod, slots, api, deaf, peers, jobSeen, annSeen, sinceReset>>
  BY SMTT(30) DEF ListReadyPods, ClearStale, CheckJob, CreateJob
<1>4. Slotless' <=> Slotless
  BY <1>3 DEF Slotless
<1>5. faults \in Nat
  BY TopologyAssumption DEF CalmInv, IInv, TypeOK
<1> USE DEF Committed, AtWork, Early, Late, Cooling, Window, CoolingDown
<1>6. CASE ListReadyPods
  <2>1. /\ pc = "idle" /\ pc' = "query" /\ mem' = annSeen /\ UNCHANGED <<job, ann>>
        /\ (faults' = faults /\ annSeen = ann) \/ faults' = faults + 1
    BY <1>6 DEF ListReadyPods, Fault
  <2>2. Quiet'
    BY SMTT(30), <1>2, <1>3, <1>5, <2>1 DEF Quiet
  <2>3. Empties'
    BY SMTT(30), <1>2, <1>3, <1>4, <2>1 DEF Empties
  <2>4. Clock'
    BY SMTT(30), <1>2, <1>3, <1>4, <2>1 DEF Clock
  <2>5. JobSafe'
    BY SMTT(30), <1>2, <1>3, <1>4, <1>5, <2>1 DEF JobSafe
  <2> QED BY <1>1, <2>2, <2>3, <2>4, <2>5 DEF CalmInv
<1>7. CASE ClearStale
  <2>1. /\ pc = "clearStale" /\ pc' = "job" /\ ClearNotOK /\ mem' = AfterClear
        /\ UNCHANGED <<ready, faults, job>>
    BY <1>7 DEF ClearStale, Continue
  <2>2. /\ ann'.reset \in {ann.reset, NoTime}
        /\ ann'.reset \in {mem'.reset, NoTime, 0}
        /\ mem.reset # NoTime => mem'.reset = NoTime
        /\ mem'.reset # ann'.reset => mem.reset # ann.reset
        /\ faults = 0 => mem' = ann'
    BY <2>1, ClearCalm
  <2>3. Quiet'
    BY SMTT(30), <1>2, <1>3, <2>1, <2>2 DEF Quiet
  <2>4. Empties'
    BY SMTT(30), <1>2, <1>3, <1>4, <2>1, <2>2 DEF Empties, Quiet
  <2>5. Clock'
    BY SMTT(30), <1>2, <1>3, <1>4, <2>1, <2>2 DEF Clock
  <2>6. JobSafe'
    BY SMTT(30), <1>2, <1>3, <2>1 DEF JobSafe, Empties
  <2> QED BY <1>1, <2>3, <2>4, <2>5, <2>6 DEF CalmInv
<1>8. CASE CheckJob
  <2>1. /\ pc = "job" /\ UNCHANGED <<faults, ann>>
        /\ \/ pc' = "resetBoot" /\ jobSeen = "absent" /\ UNCHANGED <<mem, ready, job>>
           \/ pc' = "idle" /\ job' \in {job, "absent"}
    BY SMTT(30), <1>8 DEF CheckJob, Continue, EndPass
  <2>2. Quiet'
    BY SMTT(30), <1>2, <1>3, <2>1 DEF Quiet
  <2>3. Empties'
    BY SMTT(30), <1>2, <1>3, <1>4, <2>1 DEF Empties
  <2>4. Clock'
    BY SMTT(30), <1>2, <1>3, <1>4, <2>1 DEF Clock
  <2>5. JobSafe'
    BY SMTT(30), <1>2, <1>3, <1>4, <2>1 DEF JobSafe, Quiet
  <2> QED BY <1>1, <2>2, <2>3, <2>4, <2>5 DEF CalmInv
<1>9. CASE CreateJob
  <2>1. /\ pc = "create" /\ pc' = "idle" /\ UNCHANGED <<faults, ann>>
        /\ job' = job \/ (job = "absent" /\ job' = "waiting")
    BY SMTT(30), <1>9 DEF CreateJob, EndPass
  <2>2. Quiet'
    BY SMTT(30), <1>2, <1>3, <2>1 DEF Quiet
  <2>3. Empties'
    BY SMTT(30), <1>2, <1>3, <1>4, <2>1 DEF Empties, Quiet
  <2>4. Clock'
    BY SMTT(30), <1>2, <1>3, <1>4, <2>1 DEF Clock
  <2>5. JobSafe'
    BY SMTT(30), <1>2, <1>3, <1>4, <2>1 DEF JobSafe
  <2> QED BY <1>1, <2>2, <2>3, <2>4, <2>5 DEF CalmInv
<1> QED BY <1>6, <1>7, <1>8, <1>9

\* CalmInv is inductive.
LEMMA NextCalm == ASSUME OnlyLag PROVE CalmInv /\ [Next]_vars => CalmInv'
<1> SUFFICES ASSUME CalmInv, [Next]_vars PROVE CalmInv'
  OBVIOUS
<1>1. CASE Pass
  BY <1>1, QueryCalm, CheckCalm, ResetCalm, ServingCalm, StepCalm DEF Pass
<1>2. CASE JobStep \/ Watch \/ Tick \/ ApiDown \/ ApiUp
  BY <1>2, WorldCalm
<1>3. CASE \E p \in Pods : PodStep(p)
  BY <1>3, PodCalm
<1>4. CASE UNCHANGED vars
  <2>1. IInv'
    BY <1>4, NextGate DEF CalmInv
  <2>2. /\ UNCHANGED <<pod, slots, api, deaf>>
        /\ UNCHANGED <<peers, ann, annSeen, pc, mem, ready, sinceReset, faults, job, jobSeen>>
    BY <1>4 DEF vars
  <2>3. Quiet' /\ (Slotless' <=> Slotless)
    BY <2>2 DEF CalmInv, Quiet, Slotless
  <2> QED BY <2>1, <2>2, <2>3, CalmOther
<1> QED BY <1>1, <1>2, <1>3, <1>4 DEF Next

\* A round sent while the Job is at work falls in the tick of an earlier one,
\* and some pass so far began on a stale copy.
LEMMA RoundFinds ==
    ASSUME CalmInv, ResetRound, AtWork
    PROVE  sinceReset = 0 /\ faults > 0
<1>1. pc = "resetBoot" /\ ~CoolingDown
  <2>1. pc # "resetStale"
    BY DEF CalmInv, Empties
  <2>2. ~(pc = "health" /\ TimedOut)
    BY DEF CalmInv, IInv, ResetGate
  <2> QED BY <2>1, <2>2 DEF ResetRound
<1>2. Cooling(ann) \/ Window
  BY <1>1 DEF CalmInv, JobSafe
<1>3. CASE Cooling(ann)
  <2>1. mem.reset # ann.reset
    BY <1>1, <1>3 DEF Cooling, CoolingDown
  <2>2. ann.reset = 0 /\ ann.reset = sinceReset
    BY <1>1, <1>3, <2>1 DEF CalmInv, Clock, Cooling
  <2>3. faults # 0 /\ faults \in Nat
    BY <1>1, <2>1, TopologyAssumption DEF CalmInv, Quiet, IInv, TypeOK
  <2> QED BY <2>2, <2>3
<1> QED BY <1>2, <1>3 DEF Window

\* A round of CLUSTER RESET SOFT reaches the nodes under a bootstrap Job at work
\* only in the tick of an earlier round and only after a pass that began on a
\* stale copy of the resource; with no such pass it never does. For every number
\* of pods, every lag of the two caches and every start, when nothing else fails.
THEOREM JobUndisturbed == ASSUME OnlyLag PROVE Spec => BootstrapUndisturbed
<1> DEFINE Undisturbed ==
             ResetRound /\ job \in {"waiting", "assigned"} => sinceReset = 0 /\ faults > 0
<1>1. Init => CalmInv
  BY InitCalm
<1>2. CalmInv /\ [Next]_vars => CalmInv'
  BY NextCalm
<1>3. CalmInv /\ [Next]_vars => [Undisturbed]_vars
  BY RoundFinds DEF AtWork
<1> QED BY <1>1, <1>2, <1>3, PTL DEF Spec, BootstrapUndisturbed
==============================================================================
