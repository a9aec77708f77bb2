--------------------------- MODULE RollingUpdate ---------------------------
(***************************************************************************)
(* Pods of a formed cluster are replaced: a StatefulSet rolling update     *)
(* from the highest ordinal down, evictions from cordoned nodes, the       *)
(* PreStop hook of each stopping pod (statefulset.go) with the module      *)
(* commands it calls, the readiness probe that paces the update, and the   *)
(* operator's own failover of primaries on cordoned nodes (failover.go).   *)
(* Valkey's part (replication, gossip flags, manual and automatic          *)
(* failover) and Kubernetes' part are external.                            *)
(***************************************************************************)
EXTENDS NodeCommands

CONSTANTS
    PodSeq,      \* the pods by ordinal
    Shards,
    ShardOf,     \* the shard of each pod
    First,       \* the primary of each shard at the start
    Updates,     \* how often the pod template changes
    Rolled,      \* pods an update still has to replace; the others count as done
    Probed,      \* pods whose probe falls into the time looked at
    Drained,     \* pods whose node may be cordoned and drained
    OneAtATime,  \* TRUE: no drain during an update or during another drain
    Written,     \* shards that clients write to
    MaxWrites,   \* bound on the writes of a shard
    Crashing,    \* pods that may crash
    MaxFaults,   \* bound on crashes and on hooks that run out of time
    NoPod

Pods == {PodSeq[i] : i \in DOMAIN PodSeq}
Ordinal(p) == CHOOSE i \in DOMAIN PodSeq : PodSeq[i] = p

ASSUME PodsAssumption ==
    /\ PodSeq \in Seq(Pods)
    /\ NoPod \notin Pods
    /\ ShardOf \in [Pods -> Shards]
    /\ First \in [Shards -> Pods] /\ \A s \in Shards : ShardOf[First[s]] = s
    /\ Updates \in Nat /\ Rolled \subseteq Probed /\ Drained \subseteq Probed /\ Crashing \subseteq Probed /\ Probed \subseteq Pods
    /\ Written \subseteq Shards
    /\ MaxWrites \in Nat /\ MaxFaults \in Nat

ASSUME DistinctAssumption == \A i, j \in DOMAIN PodSeq : PodSeq[i] = PodSeq[j] => i = j

VARIABLES
    phase,    \* "up", the PreStop phase of a stopping pod, or "down"
    target,   \* REPLICA_ADDR of its hook
    role,     \* the role the node itself has
    owner,    \* the node that owns the shard's slots (highest config epoch)
    mf,       \* the replica a manual failover of the shard is under way to
    off,      \* writes in the node's data
    link,     \* replica: "boot", "sync", "up", "lost"
    pfail, fail,   \* nodes flagged fail? and fail
    ready,    \* pods that passed their last probe
    new,      \* pods of the new revision
    revisions,\* updates so far
    cordon,   \* pods on cordoned nodes
    label,    \* pods labelled primary
    op, victim, chosen,   \* the operator's pass, primaryPod and bestReplica
    faults

hookVars == <<phase, target>>
valkeyVars == <<role, owner, mf, off, link, pfail, fail>>
kubeVars == <<ready, new, revisions, cordon>>
opVars == <<label, op, victim, chosen>>
vars == <<hookVars, valkeyVars, kubeVars, opVars, faults>>

Phases == {"safe", "role", "find", "send", "prepare", "poll", "exit"}
Runs(p) == phase[p] # "down"
ShardPeers(p) == {q \in Pods \ {p} : ShardOf[q] = ShardOf[p]}
Owns(p) == owner[ShardOf[p]] = p

Init ==
    /\ phase = [p \in Pods |-> "up"] /\ target = [p \in Pods |-> NoPod]
    /\ owner = First /\ role = [p \in Pods |-> IF First[ShardOf[p]] = p THEN "master" ELSE "slave"]
    /\ mf = [s \in Shards |-> NoPod] /\ off = [p \in Pods |-> 0]
    /\ link = [p \in Pods |-> "up"] /\ pfail = {} /\ fail = {}
    /\ ready = Pods /\ new = Pods /\ cordon = {} /\ revisions = 0
    /\ label = {First[s] : s \in Shards}
    /\ op = "idle" /\ victim = NoPod /\ chosen = NoPod
    /\ faults = 0

Fault == faults < MaxFaults /\ faults' = faults + 1

-----------------------------------------------------------------------------
\* What a node says of itself and of the others

Replicas(p) == {q \in ShardPeers(p) : Runs(q) /\ role[q] = "slave" /\ link[q] = "up" /\ Owns(p)}

\* a write is more than the 1024 bytes of lag that NODE.READY allows
Offset(x) == 1 + 1025 * x

Info(p) ==
    IF role[p] = "master"
    THEN [role |-> "master", connected_slaves |-> Cardinality(Replicas(p)),
          master_repl_offset |-> Offset(off[p])]
    ELSE [role |-> "slave", connected_slaves |-> 0,
          master_link_status |-> IF link[p] = "up" THEN "up" ELSE "down",
          master_sync_in_progress |-> IF link[p] = "sync" THEN 1 ELSE 0,
          slave_repl_offset |-> IF link[p] \in {"up", "lost"} THEN Offset(off[p]) ELSE 0,
          master_repl_offset |-> Offset(off[owner[ShardOf[p]]])]

Unserved == {s \in Shards : owner[s] \in fail}

ClusterInfo ==
    [cluster_state |-> IF Unserved = {} THEN "ok" ELSE "fail",
     cluster_slots_assigned |-> Cardinality(Shards),
     cluster_slots_ok |-> Cardinality(Shards \ Unserved),
     cluster_slots_fail |-> Cardinality(Unserved)]

Line(p, q) ==
    [id |-> q,
     flags |-> {role[q]} \cup (IF p = q THEN {"myself"} ELSE {})
               \cup (IF q \in fail THEN {"fail"} ELSE IF q \in pfail THEN {"fail?"} ELSE {}),
     master |-> IF role[q] = "slave" THEN owner[ShardOf[q]] ELSE NoPod]

Says(p) ==
    [info |-> Info(p), cluster |-> ClusterInfo,
     nodes |-> [i \in DOMAIN PodSeq |-> Line(p, PodSeq[i])],
     acl |-> {<<"app", "on">>}, failed |-> {}]

-----------------------------------------------------------------------------
\* The PreStop hook (statefulset.go), one action per phase

Hook(p, from, to) ==
    /\ phase[p] = from /\ phase' = [phase EXCEPT ![p] = to]

\* the server stops: it leaves the manual failover it takes part in
Down(p) ==
    /\ phase' = [phase EXCEPT ![p] = "down"] /\ target' = [target EXCEPT ![p] = NoPod]
    /\ ready' = ready \ {p}
    /\ mf' = [mf EXCEPT ![ShardOf[p]] = IF p \in {owner[ShardOf[p]], @} THEN NoPod ELSE @]
    /\ link' = [q \in Pods |-> IF q = p THEN "boot"
                               ELSE IF link[q] # "boot" /\ role[q] = "slave" /\ owner[ShardOf[q]] = p
                               THEN "lost" ELSE link[q]]
    /\ UNCHANGED <<role, owner, off, pfail, fail, new, revisions, cordon, opVars>>

HookSafe(p) ==
    /\ Hook(p, "safe", "role") /\ ClusterSafe(Says(p))
    /\ UNCHANGED <<target, valkeyVars, kubeVars, opVars, faults>>

\* 50 tries without an answer of 1: the hook goes on all the same
HookSafeExpires(p) ==
    /\ Hook(p, "safe", "role") /\ ~ClusterSafe(Says(p))
    /\ Fault
    /\ UNCHANGED <<target, valkeyVars, kubeVars, opVars>>

\* the script also goes here when its INFO call fails; the model's calls do not
HookRoleReplica(p) ==
    /\ Hook(p, "role", "exit") /\ role[p] # "master"
    /\ UNCHANGED <<target, valkeyVars, kubeVars, opVars, faults>>

HookRolePrimary(p) ==
    /\ Hook(p, "role", "find") /\ role[p] = "master"
    /\ UNCHANGED <<target, valkeyVars, kubeVars, opVars, faults>>

\* grep "slave $MY_ID" without "fail" and "noaddr"; which line is first is chance
Candidates(p) ==
    {q \in Pods : \E i \in DOMAIN Says(p).nodes : LET l == Says(p).nodes[i] IN
        l.id = q /\ "slave" \in l.flags /\ l.master = p /\ ~Failing(l)}

HookFind(p) ==
    /\ Hook(p, "find", "send")
    /\ \E q \in Candidates(p) : target' = [target EXCEPT ![p] = q]
    /\ UNCHANGED <<valkeyVars, kubeVars, opVars, faults>>

HookFindNone(p) ==
    /\ Hook(p, "find", "exit") /\ Candidates(p) = {}
    /\ UNCHANGED <<target, valkeyVars, kubeVars, opVars, faults>>

\* CLUSTER FAILOVER at q (Valkey): refused by a node that is down or a master,
\* or whose master is down
ClusterFailover(q) ==
    IF Runs(q) /\ role[q] = "slave" /\ owner[ShardOf[q]] \notin fail
    THEN mf' = [mf EXCEPT ![ShardOf[q]] = q] ELSE UNCHANGED mf

\* mutant: the command goes to the stopping pod itself
HookSendSelf(p) ==
    /\ Hook(p, "send", "prepare")
    /\ ClusterFailover(p)
    /\ UNCHANGED <<target, role, owner, off, link, pfail, fail, kubeVars, opVars, faults>>

\* the answer is not looked at
HookSend(p) ==
    /\ Hook(p, "send", "prepare")
    /\ ClusterFailover(target[p])
    /\ UNCHANGED <<target, role, owner, off, link, pfail, fail, kubeVars, opVars, faults>>

\* FAILOVER.PREPARE leaves nothing behind, and its answer is not looked at
HookPrepare(p) ==
    /\ Hook(p, "prepare", "poll")
    /\ UNCHANGED <<target, valkeyVars, kubeVars, opVars, faults>>

\* mutant: the hook does not wait for the new role
HookPollOnce(p) ==
    /\ Hook(p, "poll", "exit")
    /\ UNCHANGED <<target, valkeyVars, kubeVars, opVars, faults>>

HookPoll(p) ==
    /\ Hook(p, "poll", "exit") /\ role[p] = "slave"
    /\ UNCHANGED <<target, valkeyVars, kubeVars, opVars, faults>>

\* 50 tries and still a master: the hook ends all the same
HookPollExpires(p) ==
    /\ Hook(p, "poll", "exit") /\ role[p] # "slave"
    /\ Fault
    /\ UNCHANGED <<target, valkeyVars, kubeVars, opVars>>

\* the hook has ended and the kubelet stops the server
Terminate(p) == phase[p] = "exit" /\ Down(p) /\ UNCHANGED faults

PreStop(p) ==
    \/ HookSafe(p) \/ HookRoleReplica(p) \/ HookRolePrimary(p) \/ HookFind(p)
    \/ HookFindNone(p) \/ HookSend(p) \/ HookPrepare(p) \/ HookPoll(p) \/ Terminate(p)

-----------------------------------------------------------------------------
\* Kubernetes

\* the readiness probe; its initial delay and MinReadySeconds outlast the
\* gossip that clears the node's flags
Probe(p) ==
    /\ p \in Probed /\ Runs(p) /\ (NodeReady(Says(p)) <=> p \notin ready)
    /\ p \notin ready => p \notin pfail \cup fail
    /\ ready' = IF p \in ready THEN ready \ {p} ELSE ready \cup {p}
    /\ UNCHANGED <<hookVars, valkeyVars, new, revisions, cordon, opVars, faults>>

Settled == ready = Pods /\ \A p \in Pods : phase[p] = "up"

\* the pod template changes (reconcileStatefulSet)
NewRevision ==
    /\ revisions < Updates /\ new = Pods
    /\ OneAtATime => cordon = {} /\ Settled
    /\ revisions' = revisions + 1 /\ new' = Pods \ Rolled
    /\ UNCHANGED <<hookVars, valkeyVars, ready, cordon, opVars, faults>>

Stopping(p) == phase' = [phase EXCEPT ![p] = "safe"]

\* the update takes the highest ordinal of the old revision once all above are
\* Ready again; it does not look at the PodDisruptionBudget
Update(p) ==
    /\ p \in Pods \ new /\ phase[p] = "up"
    /\ \A q \in Pods : Ordinal(q) > Ordinal(p) => q \in new /\ q \in ready /\ phase[q] = "up"
    /\ Stopping(p)
    /\ UNCHANGED <<target, valkeyVars, kubeVars, opVars, faults>>

\* kubectl drain, GKE: cordon, then evict as the budget allows
Cordon(p) ==
    /\ p \in Drained \ cordon /\ phase[p] = "up"
    /\ OneAtATime => new = Pods /\ cordon = {} /\ Settled
    /\ cordon' = cordon \cup {p}
    /\ UNCHANGED <<hookVars, valkeyVars, ready, new, revisions, opVars, faults>>

\* reconcilePDB: maxUnavailable 1
Evict(p) ==
    /\ p \in cordon /\ phase[p] = "up"
    /\ \A q \in Pods : q \in ready /\ phase[q] = "up"
    /\ Stopping(p)
    /\ UNCHANGED <<target, valkeyVars, kubeVars, opVars, faults>>

\* the StatefulSet creates the pod again, on a node that is not cordoned; the
\* lowest ordinals get the old revision while pods of it remain. A pod takes
\* longer to come back than the operator between two of its calls.
Start(p) ==
    /\ phase[p] = "down" /\ op \notin {"send", "confirm"}
    /\ phase' = [phase EXCEPT ![p] = "up"]
    /\ new' = IF Ordinal(p) <= Cardinality(Pods \ (new \cup {p})) THEN new \ {p} ELSE new \cup {p}
    /\ cordon' = cordon \ {p}
    /\ UNCHANGED <<target, valkeyVars, ready, revisions, opVars, faults>>

Crash(p) == p \in Crashing /\ Runs(p) /\ Fault /\ Down(p)

-----------------------------------------------------------------------------
\* Valkey

Write(s) ==
    /\ s \in Written /\ mf[s] = NoPod
    /\ Runs(owner[s]) /\ role[owner[s]] = "master" /\ off[owner[s]] < MaxWrites
    /\ off' = [off EXCEPT ![owner[s]] = @ + 1]
    /\ UNCHANGED <<hookVars, role, owner, mf, link, pfail, fail, kubeVars, opVars, faults>>

\* replication: partial resynchronisation or a full one, then the stream
Replicate(q) ==
    LET p == owner[ShardOf[q]] IN
    /\ Runs(q) /\ role[q] = "slave" /\ Runs(p) /\ p # q /\ role[p] = "master"
    /\ \/ link[q] = "boot" /\ link' = [link EXCEPT ![q] = "sync"] /\ UNCHANGED off
       \/ /\ link[q] \in {"sync", "lost"} \/ off[q] # off[p]
          /\ link[q] # "boot"
          /\ link' = [link EXCEPT ![q] = "up"] /\ off' = [off EXCEPT ![q] = off[p]]
    /\ UNCHANGED <<hookVars, role, owner, mf, pfail, fail, kubeVars, opVars, faults>>

Takeover(s, q) ==
    /\ owner' = [owner EXCEPT ![s] = q] /\ role' = [role EXCEPT ![q] = "master"]
    /\ mf' = [mf EXCEPT ![s] = NoPod]
    /\ link' = [x \in Pods |-> IF ShardOf[x] = s /\ x # q /\ role[x] = "slave" /\ link[x] = "up"
                               THEN "lost" ELSE link[x]]
    /\ UNCHANGED <<hookVars, off, pfail, fail, kubeVars, opVars, faults>>

MajorityRuns == 2 * Cardinality({s \in Shards : Runs(owner[s])}) > Cardinality(Shards)

\* a manual failover ends when the replica has all of the paused primary's data
Promote(s) ==
    LET q == mf[s] IN
    /\ q # NoPod /\ q # owner[s] /\ Runs(q) /\ Runs(owner[s]) /\ MajorityRuns
    /\ link[q] = "up" /\ off[q] = off[owner[s]]
    /\ Takeover(s, q)

\* or times out when the replica cannot follow
Abandon(s) ==
    /\ mf[s] # NoPod /\ (mf[s] = owner[s] \/ link[mf[s]] # "up")
    /\ mf' = [mf EXCEPT ![s] = NoPod]
    /\ UNCHANGED <<hookVars, role, owner, off, link, pfail, fail, kubeVars, opVars, faults>>

\* the old primary hears of it
Demote(p) ==
    /\ Runs(p) /\ role[p] = "master" /\ ~Owns(p)
    /\ role' = [role EXCEPT ![p] = "slave"] /\ link' = [link EXCEPT ![p] = "lost"]
    /\ UNCHANGED <<hookVars, owner, mf, off, pfail, fail, kubeVars, opVars, faults>>

\* a node that does not answer is flagged fail?, and fail by a majority
Suspect(p) ==
    /\ ~Runs(p) /\ p \notin pfail \cup fail
    /\ pfail' = pfail \cup {p}
    /\ UNCHANGED <<hookVars, role, owner, mf, off, link, fail, kubeVars, opVars, faults>>

MarkFail(p) ==
    /\ ~Runs(p) /\ p \in pfail /\ MajorityRuns
    /\ pfail' = pfail \ {p} /\ fail' = fail \cup {p}
    /\ UNCHANGED <<hookVars, role, owner, mf, off, link, kubeVars, opVars, faults>>

Unflag(p) ==
    /\ Runs(p) /\ p \in pfail \cup fail
    /\ pfail' = pfail \ {p} /\ fail' = fail \ {p}
    /\ UNCHANGED <<hookVars, role, owner, mf, off, link, kubeVars, opVars, faults>>

\* automatic failover of a failed primary
Elect(q) ==
    /\ Runs(q) /\ role[q] = "slave" /\ link[q] \in {"lost", "boot"}
    /\ owner[ShardOf[q]] \in fail /\ ~Runs(owner[ShardOf[q]]) /\ MajorityRuns
    /\ Takeover(ShardOf[q], q)

Valkey ==
    \/ \E s \in Shards : Promote(s) \/ Abandon(s)
    \/ \E p \in Pods : Replicate(p) \/ Demote(p) \/ Suspect(p) \/ MarkFail(p) \/ Unflag(p) \/ Elect(p)

-----------------------------------------------------------------------------
\* The operator's pass: syncRoleLabels, isStatefulSetStable, then
\* reconcileNodeDrainFailover (failover.go)

SyncRoleLabels ==
    /\ op = "idle" /\ ready # {}
    /\ label' = (label \ ready) \cup {p \in ready : role[p] = "master"}
    /\ op' = "drain"
    /\ UNCHANGED <<hookVars, valkeyVars, kubeVars, victim, chosen, faults>>

Stable == new = Pods /\ Settled

\* labelled primaries on unschedulable nodes that are not terminating
ToMove == {p \in label : phase[p] = "up" /\ p \in cordon}

\* findReplicaPodsForMaster, and of those the highest offset (without
\* spec.topology, whose zones would weigh in)
ReplicaPods(p) == {q \in ShardPeers(p) : phase[q] = "up" /\ role[q] = "slave" /\ Owns(p)}
BestReplicas(p) == {q \in ReplicaPods(p) : \A x \in ReplicaPods(p) : off[x] <= off[q]}

PassEnds == op' = "idle" /\ victim' = NoPod /\ chosen' = NoPod

DrainNothing ==
    /\ op = "drain" /\ (~Stable \/ ToMove = {} \/ \E p \in ToMove : ReplicaPods(p) = {})
    /\ PassEnds
    /\ UNCHANGED <<hookVars, valkeyVars, kubeVars, label, faults>>

\* which of several primaries comes first in the list is chance
DrainFailover ==
    /\ op = "drain" /\ Stable
    /\ \E p \in ToMove : \E q \in BestReplicas(p) : victim' = p /\ chosen' = q
    /\ op' = "send"
    /\ UNCHANGED <<hookVars, valkeyVars, kubeVars, label, faults>>

\* clusterFailover: the target is asked for its role first
SendFailover ==
    /\ op = "send"
    /\ IF Runs(chosen) /\ role[chosen] = "slave" /\ owner[ShardOf[chosen]] \notin fail
       THEN op' = "confirm" /\ ClusterFailover(chosen) /\ UNCHANGED <<victim, chosen>>
       ELSE PassEnds /\ UNCHANGED mf
    /\ UNCHANGED <<hookVars, role, owner, off, link, pfail, fail, kubeVars, label, faults>>

\* mutant: the pass has forgotten its choice when it sets the labels
ConfirmFailoverLate ==
    /\ op = "confirm" /\ PassEnds
    /\ label' = IF role[chosen] = "master" THEN (label \cup {chosen'}) \ {victim} ELSE label
    /\ UNCHANGED <<hookVars, valkeyVars, kubeVars, faults>>

\* waitForFailoverComplete: one look
ConfirmFailover ==
    /\ op = "confirm"
    /\ label' = IF role[chosen] = "master" THEN (label \cup {chosen}) \ {victim} ELSE label
    /\ PassEnds
    /\ UNCHANGED <<hookVars, valkeyVars, kubeVars, faults>>

Operator == SyncRoleLabels \/ DrainNothing \/ DrainFailover \/ SendFailover \/ ConfirmFailover

Unplanned == \E p \in Pods : HookSafeExpires(p) \/ HookPollExpires(p) \/ Crash(p)

Next ==
    \/ \E p \in Pods : PreStop(p) \/ Probe(p) \/ Update(p) \/ Cordon(p) \/ Evict(p) \/ Start(p)
    \/ \E s \in Shards : Write(s)
    \/ NewRevision
    \/ Valkey \/ Operator \/ Unplanned

Spec == Init /\ [][Next]_vars

\* what happens of itself: hooks, the kubelet and the StatefulSet controller,
\* replication, gossip and failovers
Goes ==
    \/ \E p \in Pods : \/ PreStop(p) \/ Start(p) \/ Update(p) \/ Probe(p)
                      \/ Replicate(p) \/ Demote(p) \/ Unflag(p)
    \/ \E s \in Shards : Promote(s) \/ Abandon(s)

\* an eviction is tried again until the budget allows it
Fairness == WF_vars(Goes) /\ WF_vars(Operator) /\ SF_vars(\E p \in Pods : Evict(p))

FairSpec == Spec /\ Fairness

-----------------------------------------------------------------------------
\* Every variable has its type.
TypeOK ==
    /\ phase \in [Pods -> {"up", "down"} \cup Phases]
    /\ target \in [Pods -> Pods \cup {NoPod}]
    /\ role \in [Pods -> {"master", "slave"}]
    /\ owner \in [Shards -> Pods] /\ \A s \in Shards : ShardOf[owner[s]] = s
    /\ mf \in [Shards -> Pods \cup {NoPod}]
    /\ off \in [Pods -> 0 .. MaxWrites]
    /\ link \in [Pods -> {"boot", "sync", "up", "lost"}]
    /\ pfail \subseteq Pods /\ fail \subseteq Pods
    /\ ready \subseteq Pods /\ new \subseteq Pods /\ cordon \subseteq Pods
    /\ revisions \in 0 .. Updates
    /\ label \subseteq Pods /\ op \in {"idle", "drain", "send", "confirm"}
    /\ victim \in Pods \cup {NoPod} /\ chosen \in Pods \cup {NoPod}
    /\ faults \in 0 .. MaxFaults

Majority(set) == 2 * Cardinality(set) > Cardinality(Shards)

\* While every node with the role of a master owns slots, a primary that
\* CLUSTER.SAFE lets go leaves behind a majority of the shards with primaries
\* that nobody suspects, so the rest can still agree on a failover
\* (cluster_safe.c; the condition is needed because it counts masters, with
\* or without slots). This is so for up to three shards: the command asks for
\* two other primaries whatever their number, although its comment says the
\* threshold scales.
SafeKeepsMajority ==
    (\A p \in Pods : role[p] = "master" => Owns(p)) =>
        \A p \in Pods : Runs(p) /\ role[p] = "master" /\ ClusterSafe(Says(p)) =>
            Majority({s \in Shards \ {ShardOf[p]} : owner[s] \notin pfail \cup fail})

Kept == INSTANCE ShardLog WITH
    log <- [s \in Shards |-> off[owner[s]]],
    served <- {s \in Shards : Runs(owner[s])},
    disturbed <- IF faults > 0 THEN 1 ELSE 0
\* Replacing pods implements ShardLog.
PromiseKept == Kept!Spec

\* Without a crash and without a hook that runs out of time, every update
\* and every drain comes to its end with all pods of the new revision Ready.
ReplacementCompletes ==
    [](faults = 0) => []<>(new = Pods /\ Settled /\ cordon = {})
=============================================================================
