-------------------------- MODULE ClusterTopology --------------------------
(***************************************************************************)
(* The topology step of the reconcile loop, its bootstrap state machine    *)
(* and check 1 of the health step: everything in the operator that can     *)
(* issue CLUSTER RESET SOFT, push CLUSTER MEET or create the bootstrap Job *)
(* (internal/controller/cluster.go, internal/controller/health.go).        *)
(*                                                                         *)
(* A pass of the single reconcile goroutine is cut at its network calls,   *)
(* so pods, gossip, the Job and the clock move between any two of them.    *)
(* What a Valkey node and Kubernetes do is external and kept to what the   *)
(* operator can observe:                                                   *)
(*   slots[p]   the slot ranges p's CLUSTER INFO counts as assigned        *)
(*   state[p]   p's cluster_state                                          *)
(*   peers      pods with cluster_known_nodes > 1                          *)
(*   linked     pods whose current address their peers hold                *)
(*   owned      slot ranges whose home pod still serves them               *)
(* Time is counted in ticks. Annotations hold ages instead of timestamps;  *)
(* ages saturate at ResetCooldown, the largest bound they are compared to. *)
(***************************************************************************)
EXTENDS Integers, FiniteSets

CONSTANTS
    Pods,                 \* the pods of the StatefulSet
    Slots,                \* slot ranges, one per shard
    Home,                 \* the pod --cluster create gives each range to
    ConvergenceTimeout,   \* convergenceTimeoutFor(vc), in ticks
    ResetCooldown,        \* resetCooldown, in ticks
    StartKinds,           \* what the pods' volumes may hold at the start
    FaultKinds,           \* faults the environment may inject
    MaxFaults             \* how many of them

ASSUME TopologyAssumption ==
    /\ IsFiniteSet(Pods) /\ Pods # {}
    /\ IsFiniteSet(Slots) /\ Slots # {}
    /\ Home \in [Slots -> Pods]
    /\ ConvergenceTimeout \in Nat \ {0}
    /\ ResetCooldown \in Nat /\ ConvergenceTimeout < ResetCooldown
    /\ StartKinds \subseteq {"fresh", "retained", "stale"}
    /\ FaultKinds \subseteq {"crash", "disk", "evict", "deaf", "api", "lag"}
    /\ MaxFaults \in Nat

VARIABLES
    \* pods and the Valkey nodes in them
    pod, slots, owned, state, peers, linked,
    \* environment: pods not answering the operator, the API server, faults used
    deaf, api, faults,
    \* Kubernetes objects: the Job and the annotations of the custom resource,
    \* and the copies of both in the cache of the operator's client
    job, ann, jobSeen, annSeen,
    \* the pass: where it is, its in-memory annotations, its list of ready pods
    pc, mem, ready,
    \* history: whether some pod showed slots to this pass's CLUSTER INFO query,
    \* and the true age of the last CLUSTER RESET SOFT
    sawSlots, sinceReset

nodeVars == <<slots, owned, state, peers, linked>>
envVars  == <<deaf, api, faults>>
caches   == <<jobSeen, annSeen>>
passVars == <<pc, mem, ready, sawSlots>>
vars == <<pod, nodeVars, envVars, job, ann, caches, passVars, sinceReset>>

-----------------------------------------------------------------------------
\* Timers

NoTime == -1
Ages   == -1 .. ResetCooldown

\* the age an absent (-1) or present timestamp has one tick later
Older(a) == IF a = NoTime \/ a = ResetCooldown THEN a ELSE a + 1

NoAnn == [notok |-> NoTime, reset |-> NoTime]
OlderAnn(a) == [notok |-> Older(a.notok), reset |-> Older(a.reset)]
Started(a)  == [notok |-> 0, reset |-> a.reset]    \* cluster-not-ok-since is set

\* mutant: the end of the cooldown is recorded, a time still to come
RecordedEnd(a) == [notok |-> a.notok, reset |-> -ResetCooldown]

Recorded(a) == [notok |-> a.notok, reset |-> 0]    \* last-reset-time is set

\* mutant: measured against the wrong bound
TimedOutNever == mem.notok > ResetCooldown

\* clusterNotOKTimedOut, once the annotation exists
TimedOut == mem.notok >= ConvergenceTimeout

\* mutant: the comparison is the wrong way round
CoolingDownInverted == mem.reset # NoTime /\ mem.reset >= ResetCooldown

\* resetAllNodes' cooldown test
CoolingDown == mem.reset # NoTime /\ mem.reset < ResetCooldown

-----------------------------------------------------------------------------
\* What the operator sees of the pods

Listed == {p \in Pods : pod[p] \in {"ready", "leaving"}}   \* isPodReady
Running == {p \in Pods : pod[p] \in {"starting", "ready"}}  \* no DeletionTimestamp
Answering(S) == {p \in S \ deaf : pod[p] # "down"}

\* mutant: the lowest slot count wins
WorstSlots(S) == {p \in S : \A q \in S : Cardinality(slots[p]) <= Cardinality(slots[q])}

\* queryClusterInfo over the pods that answer: the highest slot count wins and
\* among equals an "ok" wins; a pod without slots never sets the state
BestSlots(S) == {p \in S : \A q \in S : Cardinality(slots[q]) <= Cardinality(slots[p])}
ClusterInfo(S) ==
    LET best == BestSlots(S)
        some == \E p \in best : slots[p] # {}
    IN  [some |-> some,
         state |-> IF \E p \in best : state[p] = "ok" THEN "ok"
                   ELSE IF some THEN "fail" ELSE ""]

\* OPERATOR.BOOTSTRAP.READY as allNodesBootstrapReady receives it
BootstrapReady(p) ==
    IF p \notin Answering(Pods) THEN "unreachable"
    ELSE IF slots[p] # {} THEN "owns slots"
    ELSE IF p \in peers THEN "stale peers"
    ELSE "ready"
NotReadyReasons(S) == {BootstrapReady(p) : p \in S} \ {"ready"}

-----------------------------------------------------------------------------
\* Init

Init ==
    /\ \E kind \in StartKinds :
        /\ slots = [p \in Pods |-> IF kind = "retained" THEN Slots ELSE {}]
        /\ owned = IF kind = "retained" THEN Slots ELSE {}
        /\ peers = IF kind = "fresh" THEN {} ELSE Pods
    /\ pod = [p \in Pods |-> "starting"]
    /\ state = [p \in Pods |-> "fail"]
    /\ linked = {}
    /\ deaf = {} /\ api = "up" /\ faults = 0
    /\ job = "absent" /\ jobSeen = "absent"
    /\ ann = NoAnn /\ annSeen = NoAnn
    /\ pc = "idle" /\ mem = NoAnn /\ ready = {} /\ sawSlots = FALSE
    /\ sinceReset = NoTime

-----------------------------------------------------------------------------
\* External: at most MaxFaults faults of the kinds FaultKinds

Fault(kind) ==
    /\ kind \in FaultKinds
    /\ faults < MaxFaults
    /\ faults' = faults + 1

-----------------------------------------------------------------------------
\* Building blocks of the pass

EndPass == pc' = "idle" /\ mem' = NoAnn /\ ready' = {} /\ sawSlots' = FALSE

\* continue the pass at l with the in-memory annotations m
Continue(l, m) == pc' = l /\ mem' = m /\ UNCHANGED <<ready, sawSlots>>

\* a Patch of the custom resource that makes its annotations a. It sends only
\* what the pass changed in its copy m, so what the copy misses stays; the
\* answer is decoded over the copy and brings in what it missed.
Patch(a) == ann' = IF api = "up" THEN a ELSE ann
Answered(m, a) ==
    IF api # "up" THEN m
    ELSE [notok |-> IF a.notok = NoTime THEN m.notok ELSE a.notok,
          reset |-> IF a.reset = NoTime THEN m.reset ELSE a.reset]

\* clusterNotOKTimedOut when it starts the timer; its caller then waits
StartTimer == Patch(IF mem.notok = NoTime THEN Started(ann) ELSE ann)

\* clearClusterNotOKAnnotation deletes what the copy holds of the two; without
\* either of them in the copy there is nothing to patch
Cleared == [notok |-> IF mem.notok = NoTime THEN ann.notok ELSE NoTime,
            reset |-> IF mem.reset = NoTime THEN ann.reset ELSE NoTime]
ClearNotOK == Patch(Cleared)
AfterClear == IF mem = NoAnn THEN mem ELSE Answered(NoAnn, Cleared)

\* resetAllNodes: nothing while cooling down, else CLUSTER RESET SOFT on every
\* listed pod that answers, then the time of the reset is recorded
ResetNodes(S) ==
    /\ slots'  = [p \in Pods |-> IF p \in S THEN {} ELSE slots[p]]
    /\ owned'  = {s \in owned : Home[s] \notin S}
    /\ state'  = [p \in Pods |-> IF p \in S THEN "fail" ELSE state[p]]
    /\ peers'  = peers \ S
    /\ linked' = linked \ S
ResetAllNodes(next) ==
    /\ IF CoolingDown
       THEN Continue(next, mem) /\ UNCHANGED <<nodeVars, ann, sinceReset>>
       ELSE /\ ResetNodes(Answering(ready))
            /\ Patch(Recorded(ann))
            /\ Continue(next, Answered(Recorded(mem), Recorded(ann)))
            /\ sinceReset' = IF Answering(ready) = {} THEN sinceReset ELSE 0
    /\ UNCHANGED <<pod, envVars, job, caches>>

-----------------------------------------------------------------------------
\* reconcileClusterTopology

\* the pass works on the resource as the cache has it; that the cache lags
\* behind the patches of the pass before counts as a fault
ListReadyPods ==
    /\ pc = "idle" /\ Listed # {}
    /\ \/ annSeen = ann /\ UNCHANGED faults
       \/ annSeen # ann /\ Fault("lag")
    /\ pc' = "query" /\ mem' = annSeen /\ ready' = Listed
    /\ UNCHANGED <<pod, nodeVars, deaf, api, job, caches, ann, sawSlots, sinceReset>>

QueryClusterInfo ==
    /\ pc = "query"
    /\ LET info == ClusterInfo(Answering(ready))
       IN pc' = IF info.some /\ info.state = "ok" THEN "healthy"
                ELSE IF info.some THEN "notok"
                ELSE "bootstrap"
    /\ sawSlots' = \E p \in Answering(ready) : slots[p] # {}
    /\ UNCHANGED <<pod, nodeVars, envVars, job, caches, ann, mem, ready, sinceReset>>

\* mutant: the timer is not cleared in memory
HealthyKeepsTimer ==
    /\ pc = "healthy"
    /\ ClearNotOK
    /\ Continue("health", mem)
    /\ UNCHANGED <<pod, nodeVars, envVars, job, caches, sinceReset>>

Healthy ==
    /\ pc = "healthy"
    /\ ClearNotOK
    /\ Continue("health", AfterClear)
    /\ UNCHANGED <<pod, nodeVars, envVars, job, caches, sinceReset>>

NotOK ==
    /\ pc = "notok"
    /\ IF TimedOut
       THEN ClearNotOK /\ Continue("push", AfterClear)
       ELSE StartTimer /\ EndPass
    /\ UNCHANGED <<pod, nodeVars, envVars, job, caches, sinceReset>>

\* OPERATOR.TOPOLOGY.SET role=primary on each pod of S with all of S as peers:
\* CLUSTER MEET links every pair
TopologySet(S) == IF Cardinality(S) > 1 THEN S ELSE {}

\* mutant: only Ready pods are told
GossipRecoveryReadyOnly ==
    /\ pc = "push"
    /\ LET met == TopologySet(Answering(Listed))
       IN peers' = peers \cup met /\ linked' = linked \cup met
    /\ EndPass
    /\ UNCHANGED <<pod, slots, owned, state, envVars, job, caches, ann, sinceReset>>

\* reconcileGossipRecovery: the push goes to every Running pod
GossipRecovery ==
    /\ pc = "push"
    /\ LET met == TopologySet(Answering(Running))
       IN peers' = peers \cup met /\ linked' = linked \cup met
    /\ EndPass
    /\ UNCHANGED <<pod, slots, owned, state, envVars, job, caches, ann, sinceReset>>

-----------------------------------------------------------------------------
\* reconcileBootstrapJob

BootstrapCheck ==
    /\ pc = "bootstrap"
    /\ LET reasons == NotReadyReasons(ready)
           stale   == "stale peers" \in reasons
       IN  IF ready # Pods \/ (reasons # {} /\ ~stale)
           THEN EndPass /\ UNCHANGED ann
           ELSE IF reasons = {}
           THEN Continue("job", mem) /\ UNCHANGED ann
           ELSE IF TimedOut
           THEN Continue("resetStale", mem) /\ UNCHANGED ann
           ELSE StartTimer /\ EndPass
    /\ UNCHANGED <<pod, nodeVars, envVars, job, caches, sinceReset>>

ResetStale == pc = "resetStale" /\ ResetAllNodes("clearStale")

ClearStale ==
    /\ pc = "clearStale"
    /\ ClearNotOK
    /\ Continue("job", AfterClear)
    /\ UNCHANGED <<pod, nodeVars, envVars, job, caches, sinceReset>>

\* the Job is read from the informer cache; a finished one is deleted
CheckJob ==
    /\ pc = "job"
    /\ IF jobSeen = "absent"
       THEN Continue("resetBoot", mem) /\ UNCHANGED job
       ELSE /\ EndPass
            /\ job' = IF jobSeen \in {"succeeded", "exhausted"} /\ api = "up"
                      THEN "absent" ELSE job
    /\ UNCHANGED <<pod, nodeVars, envVars, caches, ann, sinceReset>>

ResetBoot == pc = "resetBoot" /\ ResetAllNodes("create")

\* Create fails when the Job exists after all
CreateJob ==
    /\ pc = "create"
    /\ job' = IF job = "absent" /\ api = "up" THEN "waiting" ELSE job
    /\ EndPass
    /\ UNCHANGED <<pod, nodeVars, envVars, caches, ann, sinceReset>>

-----------------------------------------------------------------------------
\* reconcileClusterHealth, check 1: the first ready pod that answers decides

FetchClusterState == Answering(Listed)

\* the branch for a cluster that timed out: resetAllNodes, then both
\* annotations, the time just recorded included, are cleared
HealthReset(S) ==
    /\ IF CoolingDown
       THEN UNCHANGED <<nodeVars, sinceReset>>
       ELSE ResetNodes(S) /\ sinceReset' = 0
    /\ Patch(NoAnn)

HealthCheck ==
    /\ pc = "health"
    /\ LET S == FetchClusterState
       IN  IF S = {}
           THEN UNCHANGED <<nodeVars, ann, sinceReset>>
           ELSE \E p \in S :
                IF state[p] # "ok" /\ TimedOut
                THEN HealthReset(S)
                ELSE /\ IF state[p] = "ok" THEN ClearNotOK ELSE StartTimer
                     /\ UNCHANGED <<nodeVars, sinceReset>>
    /\ EndPass
    /\ UNCHANGED <<pod, envVars, job, caches>>

Pass ==
    \/ ListReadyPods \/ QueryClusterInfo
    \/ Healthy \/ NotOK \/ GossipRecovery
    \/ BootstrapCheck \/ ResetStale \/ ClearStale \/ CheckJob \/ ResetBoot \/ CreateJob
    \/ HealthCheck

-----------------------------------------------------------------------------
\* External: the bootstrap Job (buildBootstrapJob's script and the controllers)

Empty(p) == slots[p] = {} /\ p \notin peers

\* PING answered everywhere; --cluster create finds every node empty and
\* assigns each range to its home
JobAssign ==
    /\ job = "waiting"
    /\ \A p \in Pods : pod[p] # "down" /\ Empty(p)
    /\ slots' = [p \in Pods |-> {s \in Slots : Home[s] = p}]
    /\ owned' = Slots
    /\ job' = "assigned"
    /\ UNCHANGED <<pod, state, peers, linked, envVars, caches, ann, passVars, sinceReset>>

JobMeet ==
    /\ job = "assigned"
    /\ \A p \in Pods : pod[p] # "down"
    /\ peers' = Pods /\ linked' = Pods
    /\ job' = "succeeded"
    /\ UNCHANGED <<pod, slots, owned, state, envVars, caches, ann, passVars, sinceReset>>

\* the retries run out; the count in the status may stay within BackoffLimit
\* ("failed"), because a pod restarted in place counts once
JobFail ==
    /\ \/ job = "waiting" /\ (\A p \in Pods : pod[p] # "down") /\ (\E p \in Pods : ~Empty(p))
       \/ job = "assigned" /\ \E p \in Pods : pod[p] = "down"
    /\ job' \in {"failed", "exhausted"}
    /\ UNCHANGED <<pod, nodeVars, envVars, caches, ann, passVars, sinceReset>>

\* ttlSecondsAfterFinished is longer than a pass and than the informer's lag
JobExpire ==
    /\ pc = "idle" /\ jobSeen = job
    /\ job \in {"succeeded", "failed", "exhausted"}
    /\ job' = "absent"
    /\ UNCHANGED <<pod, nodeVars, envVars, caches, ann, passVars, sinceReset>>

JobWatch ==
    /\ jobSeen # job
    /\ jobSeen' = job
    /\ UNCHANGED <<pod, nodeVars, envVars, job, ann, annSeen, passVars, sinceReset>>

\* the informer of the resource catches up as well, each at its own time
AnnWatch ==
    /\ annSeen # ann
    /\ annSeen' = ann
    /\ UNCHANGED <<pod, nodeVars, envVars, job, ann, jobSeen, passVars, sinceReset>>

-----------------------------------------------------------------------------
\* External: Valkey nodes, kubelet and time

Reach(p) == p \in peers \cap linked /\ pod[p] # "down"

\* every range is in p's view and served by a reachable home
Covered(p) ==
    /\ Reach(p) /\ slots[p] = Slots /\ owned = Slots
    /\ \A s \in Slots : Reach(Home[s])

View(p) == IF Reach(p) THEN slots[p] \cup UNION {slots[q] : q \in {r \in Pods : Reach(r)}}
           ELSE slots[p]

Gossip(p) ==
    /\ pod[p] # "down"
    /\ LET st == IF Covered(p) THEN "ok" ELSE "fail"
       IN  /\ <<View(p), st>> # <<slots[p], state[p]>>
           /\ slots' = [slots EXCEPT ![p] = View(p)]
           /\ state' = [state EXCEPT ![p] = st]
    /\ UNCHANGED <<pod, owned, peers, linked, envVars, job, caches, ann, passVars, sinceReset>>

\* p and some peer still hold a current address of each other
Relink(p) ==
    /\ pod[p] # "down" /\ p \in peers \ linked
    /\ \E q \in Pods \ {p} : Reach(q)
    /\ linked' = linked \cup {p}
    /\ UNCHANGED <<pod, slots, owned, state, peers, envVars, job, caches, ann, passVars, sinceReset>>

\* OPERATOR.NODE.READY, the readiness probe: slots of a failed owner make every
\* node that sees them not ready; a node without slots is ready for bootstrap;
\* a primary needs cluster_state ok, a replica does not
NodeReady(p) ==
    /\ ~ (p \in linked /\ \E s \in slots[p] : pod[Home[s]] = "down")
    /\ \/ slots[p] = {}
       \/ state[p] = "ok"
       \/ \A s \in Slots : Home[s] # p

Probe(p) ==
    /\ \/ pod[p] = "starting" /\ NodeReady(p) /\ pod' = [pod EXCEPT ![p] = "ready"]
       \/ pod[p] = "ready" /\ ~NodeReady(p) /\ pod' = [pod EXCEPT ![p] = "starting"]
    /\ UNCHANGED <<nodeVars, envVars, job, caches, ann, passVars, sinceReset>>

PodStart(p) ==
    /\ pod[p] = "down"
    /\ pod' = [pod EXCEPT ![p] = "starting"]
    /\ UNCHANGED <<nodeVars, envVars, job, caches, ann, passVars, sinceReset>>

\* the address changes with the restart; nodes.conf stays, unless the disk goes
PodStop(p, keep) ==
    /\ pod' = [pod EXCEPT ![p] = "down"]
    /\ linked' = linked \ {p}
    /\ state' = [state EXCEPT ![p] = "fail"]
    /\ slots' = IF keep THEN slots ELSE [slots EXCEPT ![p] = {}]
    /\ owned' = IF keep THEN owned ELSE {s \in owned : Home[s] # p}
    /\ peers' = IF keep THEN peers ELSE peers \ {p}
    /\ UNCHANGED <<job, caches, ann, passVars, sinceReset>>

Evicted(p) ==
    /\ pod[p] = "leaving"
    /\ PodStop(p, TRUE)
    /\ UNCHANGED envVars

\* a tick is longer than a pass, whose calls all time out within 2 to 10 seconds,
\* and longer than the lag of the informers
Tick ==
    /\ pc = "idle" /\ jobSeen = job /\ annSeen = ann
    /\ ann' = OlderAnn(ann) /\ annSeen' = ann'
    /\ sinceReset' = Older(sinceReset)
    /\ UNCHANGED <<pod, nodeVars, envVars, job, jobSeen, passVars>>

-----------------------------------------------------------------------------
\* External: faults

Crash(p) ==
    /\ pod[p] # "down"
    /\ \/ Fault("crash") /\ PodStop(p, TRUE)
       \/ Fault("disk") /\ PodStop(p, FALSE)
    /\ UNCHANGED <<deaf, api>>

Evict(p) ==
    /\ pod[p] = "ready"
    /\ Fault("evict")
    /\ pod' = [pod EXCEPT ![p] = "leaving"]
    /\ UNCHANGED <<nodeVars, deaf, api, job, caches, ann, passVars, sinceReset>>

\* p stops answering the operator within its timeouts, or answers again
Deafen(p) ==
    /\ p \notin deaf /\ Fault("deaf") /\ deaf' = deaf \cup {p}
    /\ UNCHANGED <<pod, nodeVars, api, job, caches, ann, passVars, sinceReset>>
Hear(p) ==
    /\ p \in deaf /\ deaf' = deaf \ {p}
    /\ UNCHANGED <<pod, nodeVars, api, faults, job, caches, ann, passVars, sinceReset>>

\* writes to the API server fail, or succeed again
ApiDown ==
    /\ api = "up" /\ Fault("api") /\ api' = "down"
    /\ UNCHANGED <<pod, nodeVars, deaf, job, caches, ann, passVars, sinceReset>>
ApiUp ==
    /\ api = "down" /\ api' = "up"
    /\ UNCHANGED <<pod, nodeVars, deaf, faults, job, caches, ann, passVars, sinceReset>>

-----------------------------------------------------------------------------
PodStep(p) ==
    \/ Gossip(p) \/ Relink(p) \/ Probe(p) \/ PodStart(p) \/ Evicted(p)
    \/ Crash(p) \/ Evict(p) \/ Deafen(p) \/ Hear(p)

JobStep == JobAssign \/ JobMeet \/ JobFail \/ JobExpire

Watch == JobWatch \/ AnnWatch

Next == Pass \/ JobStep \/ Watch \/ Tick \/ ApiDown \/ ApiUp \/ \E p \in Pods : PodStep(p)

Spec == Init /\ [][Next]_vars

\* the work queue requeues every pass, the informers, the Job and TTL controllers, kubelet,
\* gossip and the clock keep going; no fault is ever forced to happen
Fairness ==
    /\ WF_vars(Pass) /\ SF_vars(Tick)
    /\ WF_vars(JobAssign \/ JobMeet \/ JobFail) /\ SF_vars(JobExpire)
    /\ WF_vars(JobWatch) /\ WF_vars(AnnWatch)
    /\ WF_vars(ApiUp \/ \E p \in Pods : PodStart(p) \/ Evicted(p) \/ Hear(p))
    /\ WF_vars(\E p \in Pods : Gossip(p) \/ Relink(p)) /\ WF_vars(\E p \in Pods : Probe(p))

FairSpec == Spec /\ Fairness

-----------------------------------------------------------------------------
\* Properties

Labels == {"idle", "query", "healthy", "notok", "push", "bootstrap", "resetStale",
           "clearStale", "job", "resetBoot", "create", "health"}
JobStates == {"absent", "waiting", "assigned", "succeeded", "failed", "exhausted"}
Anns == [notok : Ages, reset : Ages]

\* The type invariant: every variable keeps the shape the passes rely on, and
\* no annotation holds a time that is still to come.
TypeOK ==
    /\ pod \in [Pods -> {"down", "starting", "ready", "leaving"}]
    /\ slots \in [Pods -> SUBSET Slots]
    /\ owned \subseteq Slots
    /\ state \in [Pods -> {"ok", "fail"}]
    /\ peers \subseteq Pods /\ linked \subseteq Pods
    /\ deaf \subseteq Pods /\ api \in {"up", "down"} /\ faults \in 0 .. MaxFaults
    /\ job \in JobStates /\ jobSeen \in JobStates
    /\ ann \in Anns /\ annSeen \in Anns
    /\ pc \in Labels /\ mem \in Anns /\ ready \subseteq Pods
    /\ sawSlots \in BOOLEAN /\ sinceReset \in Ages

\* The places from which a pass can still reach resetAllNodes are entered only
\* when no pod showed slots to its query, and the health check of a pass that
\* found the cluster healthy never finds the timer expired, however old the
\* copy of the resource was that the pass began with.
ResetGate ==
    /\ pc \in {"bootstrap", "resetStale", "clearStale", "job", "resetBoot", "create"} => ~sawSlots
    /\ pc = "health" => ~TimedOut

\* No CLUSTER RESET SOFT takes a slot range from the pod that serves it in a
\* pass whose CLUSTER INFO query got slots out of any pod: one answering member
\* of a cluster is enough to keep the whole cluster from being reset, whatever
\* the other pods, the timers, the Job and the health check of that pass do.
ServedSlotsKept ==
    [][\A s \in owned \ owned' :
         \/ pod[Home[s]] # "down" /\ pod'[Home[s]] = "down"
         \/ ~sawSlots]_vars

\* a step that sends CLUSTER RESET SOFT to at least one pod
ResetRound ==
    \/ pc \in {"resetStale", "resetBoot"} /\ ~CoolingDown /\ pc' # pc /\ Answering(ready) # {}
    \/ pc = "health" /\ pc' # pc /\ ~CoolingDown /\ TimedOut
       /\ \E p \in Answering(Listed) : state[p] = "fail"

\* A pass that misses the bootstrap Job in its cache does not reset the nodes
\* under the Job while it is at work: the time of the reset before the Job, or
\* of an earlier one, stops it. It takes a pass that began on a stale copy of
\* the resource as well, and then only in the tick of that earlier reset, before
\* the informers have caught up.
BootstrapUndisturbed ==
    [][ResetRound /\ job \in {"waiting", "assigned"} => sinceReset = 0 /\ faults > 0]_vars

\* From fresh, retained or stale volumes, every node ends up reporting
\* cluster_state ok and stays so: what BOOTSTRAP.READY, the stale-peer timer,
\* the reset, the Job and the gossip push do together is enough.
AllNodesJoin == <>[](\A p \in Pods : state[p] = "ok")

\* The same when a pod misses calls or writes to the API server fail for a
\* while, down to what orphan repair takes over from: from some point on a node
\* reports a whole cluster, so the topology step reports it bootstrapped.
ClusterForms == <>[](\E p \in Pods : state[p] = "ok" /\ slots[p] = Slots)

\* Pods that all restarted with new addresses, and so cannot find each other
\* through nodes.conf, are linked again by the gossip push.
BrutalRestartRecovers ==
    (owned = Slots /\ peers = Pods /\ linked = {}) ~> (linked # {})
=============================================================================
