# A TLA+ model of the Valkey operator

This directory holds TLA+ modules for the operator in `internal/controller/`
and for the Valkey module in `server/`, the TLC runs that check them on small
instances, and TLAPS proofs of what matters most.
`PROJECT.json` lists components, runs, hazards, findings and theorems, and maps
every definition to the source lines it models.

## The system

One goroutine reconciles each `ValkeyCluster` resource, every 3 seconds. A pass
(`Reconcile`) runs these steps in order:

| Step | Code | State it changes |
|------|------|------------------|
| ConfigMap, ServiceAccount, PDB, Services, StatefulSet, metrics | `configmap.go`, `pdb.go`, `services.go`, `statefulset.go`, `metrics.go` | Kubernetes objects, created or updated to a computed value |
| ACL users | `acl.go` | users on every Running pod; `acl-hash` annotation |
| CrashLoop recovery | `recovery.go` | cleanup Job, pod deletion |
| Topology and bootstrap | `cluster.go` | `CLUSTER RESET`, `CLUSTER MEET`, bootstrap Job, `cluster-not-ok-since` and `last-reset-time` annotations, role labels |
| Health (only if bootstrapped) | `health.go` | conditions, `CLUSTER FORGET`, `stale-since` annotations |
| Replica roles, orphan repair | `repair.go` | `OPERATOR.TOPOLOGY.SET role=replica` |
| Node-drain failover | `failover.go`, `topology.go` | `CLUSTER FAILOVER` |
| Shard stats, rebalance | `slotstats.go`, `rebalance.go` | `ShardImbalanced` condition, rebalance Job |
| Status | `valkeycluster_controller.go` | phase, conditions |

A pod runs Valkey with the operator's module: `OPERATOR.BOOTSTRAP.READY`,
`OPERATOR.NODE.READY` (the readiness probe), `OPERATOR.TOPOLOGY.SET`,
`OPERATOR.CLUSTER.SAFE` and `OPERATOR.FAILOVER.PREPARE` (the PreStop hook),
`OPERATOR.NODE.STATE`, `OPERATOR.HEALTH` and `OPERATOR.SLOT.STATS`, and the
client gate. Everything the steps know about the cluster comes from pods that
may restart, change address, or stop answering between two calls, and from
informer caches that may lag.

## Modules

| Module | Models | Proofs |
|--------|--------|--------|
| `NodeCommands` | the answers of all `OPERATOR.*` commands | |
| `ValkeyNode` | one node: loading the module, the gate, the slot buffer | `ValkeyNodeProofs` |
| `ClusterTopology` | forming the cluster | `ClusterTopologyProofs` |
| `ACLReconcile` | users on the pods | `ACLReconcileProofs` |
| `CrashRecovery` | pods with corrupt data | `CrashRecoveryProofs` |
| `RollingUpdate`, `ShardLog` | replacing pods, and what a shard promises meanwhile | `RollingUpdateProofs`, `HandoverProofs`, `RefinementProofs` |
| `ReplicaRepair` | lost replicas | `ReplicaRepairProofs` |
| `ShardBalance` | the grace period of a skewed cluster | |

The `MC*` modules hold the constants of the runs. `RollingUpdate`,
`ReplicaRepair` and `ValkeyNode` extend `NodeCommands`: the hook, the probe and
the operator act on the answers that the module's own code would give.
Definitions marked as mutants are wrong on purpose. They stand before the
definition they imitate, are used by nothing, and document which mistake each
property catches.

### ClusterTopology

`reconcileClusterTopology`, `reconcileBootstrapJob` and check 1 of
`reconcileClusterHealth`: all the code that can reset nodes, push `CLUSTER MEET`
or create the bootstrap Job.

A pass is cut at its network calls. `pc` says where it is, `ready` and `mem` are
the local `readyPods` and the annotations in its copy of the resource, `ann` the
annotations in the API server. `job` is the bootstrap Job. `jobSeen` and `annSeen`
are the Job and the resource in the cache of the manager's client, which is what a
pass reads; their informers catch up independently. A patch sends what the pass
changed in its copy, so what the copy misses stays in the API server, and the
answer brings it into the copy (`Answered`, `Cleared`). Each label has one action,
named for what the code does there:

    idle -ListReadyPods-> query -QueryClusterInfo-+-> healthy -Healthy-> health -HealthCheck-> idle
                                                  +-> notok -NotOK-> push -GossipRecovery-> idle
                                                  +-> bootstrap -BootstrapCheck-+-> resetStale -> clearStale -+
                                                                                +------------ job <-----------+
                                                        job -CheckJob-> resetBoot -ResetBoot-> create -CreateJob-> idle

Valkey nodes are external. A node is reduced to what the operator and the probe
can see of it: the slot ranges its `CLUSTER INFO` counts, its `cluster_state`,
whether it knows peers, and whether its peers hold its current address. A slot
range stands for the slots of one shard. `owned` are the ranges whose home pod
still serves them. A replica that kept its data has a non-zero replication
offset, so `NodeReady` asks nothing more of it than the absence of failed slots.
A primary is reset whether or not it holds keys: Valkey refuses the reset of a
primary with keys, so the model allows the worse outcome.

Annotations hold ages in ticks instead of timestamps. Ages saturate at
`ResetCooldown`, the largest bound any age is compared to, so saturation hides
no comparison. A tick is longer than a pass and than the lag of the informers: the
real values are minutes and milliseconds.

Faults are drawn from `FaultKinds`, at most `MaxFaults` of them: a container
restart with a new address, the loss of a volume, an eviction (the pod stays
Ready while it terminates), a pod that does not answer the operator for a while,
failing writes to the API server, and a pass that begins on a stale copy of the
resource (`lag`). The Job informer lags freely.

#### Runs

| Run | Instance | Checks | Result |
|-----|----------|--------|--------|
| `topology_safety` | 2 pods, 2 ranges, any volumes, 2 faults of any kind | `TypeOK`, `ResetGate`, `ServedSlotsKept` | hold |
| `topology_converge` | 3 pods (a replica), 2 ranges, any volumes, one pass on a stale copy, fair | `BootstrapUndisturbed`, `AllNodesJoin` | hold |
| `topology_faults` | 2 pods, one primary, a deaf pod, an API outage or a stale copy, fair | `ClusterForms` | holds |
| `topology_restart` | 2 primaries, both restart, fair | `BrutalRestartRecovers` | violated |

Two pods are enough for the safety run because what matters is one pod that
shows slots next to one that does not; three pods add the replica that stays
Ready while primaries fail. The timeout is one or two ticks and the cooldown one
more: only their order matters. Two faults reach a crash in the middle of a
reset whose annotation write failed.

`BootstrapUndisturbed` says when a reset can hit the Job at work: only in the tick of
an earlier reset and only after a pass that began on a stale copy. Then the pass
misses the Job and the `last-reset-time` that would stop it, and the reset at
`cluster.go:257` reaches the nodes the Job is forming. Once the informers have
caught up it cannot, and a later pass starts again. The number of such passes is
bounded by `MaxFaults`: if every pass may begin on a stale copy, TLC finds
behaviours in which `AllNodesJoin` and `ClusterForms` fail, because every Job is
hit. With a crash, an eviction, a deaf pod or an API failure instead, a reset can hit
the Job later too: the stale-peer reset comes before the Job is looked up.

No property says that the cooldown is kept. `cluster.go:132` and
`docs/reconciliation-flows.md:259` call it a minimum interval between two resets, and
it is not: within one pass the stale-peer path resets (`:211`), erases the time of the
reset with the timer (`:215`) and resets again (`:257`), where the nodes are empty
already; and a pass on a stale copy, or after a patch that failed, does not know of the
reset before it. `ClusterForms` is weaker than `AllNodesJoin` because a reset may hit
only some pods; what is left is the work of `ReplicaRepair`.

The violation is a finding, with the lines it contradicts, in `PROJECT.json`:
when all primaries restart with new addresses, none is Ready, and the pass
returns before the push that was written for this case.

A cluster with slots that stays degraded is never reset, although the comment at
`cluster.go:146` says it is. The branch of the health check that would do it is
unreachable, which is the second half of `ResetGate`.

#### Fairness

The work queue requeues every pass, so `Pass` is weakly fair; so are kubelet,
gossip, the Job controller and the informers. The clock and the TTL controller
are strongly fair: they do not stop, but the model lets them act only between
passes. No fault is fair, and the faults that end by themselves (`Hear`,
`ApiUp`) do end.

#### Proofs

`ClusterTopologyProofs` proves, for any finite sets of pods and ranges, any
timeouts with `ConvergenceTimeout < ResetCooldown` and any number of faults:

- `TypeCorrect`: `Spec => []TypeOK`.
- `GateHolds`: `Spec => []ResetGate`. `ResetGate` speaks of labels and the
  history variable `sawSlots`. `IInv` adds `TypeOK` and `Copies`: a stored timer is
  absent, new or the one the cache and a pass that will clear it have, so the answer
  of a patch never brings an expired timer into a pass that found the cluster healthy.
  The step that matters is the query: when `queryClusterInfo` reports no slots,
  no pod that answered has any. That is `BestSeesSlots`, which needs that a
  finite set of answers has a maximal count (`LeastNat`, `SlotCount`).
- `SlotsKept`: `Spec => ServedSlotsKept`. Ranges leave `owned` only through a
  stopped pod or `ResetNodes`, and `ResetGate` says which passes get there.
- `JobUndisturbed`: `Spec => BootstrapUndisturbed` under `OnlyLag`, which admits any
  number of stale copies and no other fault. That hypothesis is needed: see above. The
  property is not inductive, because whether a pass may reset was settled by what an
  earlier pass wrote. `CalmInv` records it in four parts. `Quiet`: every pod answers,
  and until there is a stale copy a pass knows the stored annotations. `Empties`:
  where in a pass the nodes have no slots and no peers, and that a Job waits on empty
  nodes. `Clock`: a stored time of a reset is the true one, and where a copy differs
  from it either the reset is of this tick or there are slots or peers again.
  `JobSafe`: until the cache shows a Job at work, the time of the reset before it is
  stored and still cooling, or the tick of the reset is not over.

Liveness is model-checked only.

### ACLReconcile

How users reach pods: through `valkey.conf` in the ConfigMap, read when a
container starts, and through `reconcileACLs`, which pushes them to live pods and
skips old pods while the `acl-hash` annotation is current. The client gate of
`gate.c` is part of it.

Secrets and `spec.aclUsers` go through versions. A version gives each user a
password, key patterns and the commands that its rules add and take away; the
version's number stands for its hash. The pass is cut at every command sent to a pod,
so an edit, a restart or a lost connection can fall between two of them. `SETUSER`
changes the user that is there (`Updated`), because `buildACLRules` sends no reset:
passwords and patterns are added, commands added or removed. A pattern other than `~*`
for a user that has `~*` is refused (`Refused`), and the pass gives the pod up
(`acl.go:242`). Secrets that cannot be resolved are left out. A pod may be older than
`aclSkipAge` when a pass first lists it, because its age counts from before the volumes
are mounted and the image is pulled.

| Run | Instance | Checks | Result |
|-----|----------|--------|--------|
| `acl` | 2 pods, 3 versions, one restart in place, recreation, deaf pod or API failure, fair | `TypeOK`, `CompleteUser`, `UsersConverge` | hold |
| `acl_rotate` | new operator password, no fault, fair | `RotationReachesPods` | violated |

Three versions allow an edit during the update to an earlier edit. The second one
narrows a user from `~*` to a pattern, adds a user and takes a command away; the
third undoes the narrowing. `CompleteUser` says that no update leaves a user between
two versions, with less than each of them gives. `UsersConverge` excuses the pods in
`missed`: those on which the last application failed, and those whose container was
old when a pass first listed it. Without the excuse it fails in three ways.

- The hash is persisted when one pod took the rules (`acl.go:176`; the comment
  above it says all). A pod that was deaf meanwhile and is older than `aclSkipAge`
  afterwards keeps the old users.
- A container that starts in an old pod, from a volume kubelet has not refreshed or
  after a slow image pull, has old users next to a current hash, and is skipped
  (`acl.go:83`).
- An edit that narrows `~*` is refused by every live pod in every pass, until the
  pods restart or the edit is undone. The pass reports it in the log only.

The finding of `acl_rotate`: the operator logs in with the new operator password
to install it. Live pods refuse it, and the fallback account is off.

Fairness: passes, kubelet's volume refresh and pod start, and the module's timer
go on; a deaf pod hears again.

`ACLReconcileProofs` proves `TypeCorrect` and `UserComplete`
(`Spec => []CompleteUser`) for any pods, versions, users and faults. The invariant
adds `Behind`: what a pass has resolved, the ConfigMap and the volumes hold versions
that existed. The step that matters is `SetUser`: rules that add and then take away
leave all that the new version gives, because no command of an entry has both a plus
and a minus as its last rule (`ConfigAssumption`), and a refused call changes nothing.

### CrashRecovery

`reconcileCrashLoopRecovery` for one pod, its volume and its cleanup Job; the
code treats the pods independently. A tick is a minute, so the run's constants
are the real ones: threshold 3, longest back-off 5, TTL of the Job 5. `env` is a
cause of the crash loop other than the data, which the code does not tell apart.

Kubernetes is external: RestartCount grows when a container is started again,
the back-off grows with it, and a Job counts pending pods as active. The Job's pod
carries the labels of the cluster's pods (`helpers_pods.go:66`), so the required
anti-affinity of the default node spread policy (`topology.go:52`) keeps it and the
pod whose volume it needs from being scheduled on the same node (`HardSpread`): it
stays pending until the pod is deleted, and then races the new one. A Job may take any
time to be scheduled and to run. A deleted pod disappears at once; the pod informer
does not lag.

| Run | Instance | Checks | Result |
|-----|----------|--------|--------|
| `recovery` | 3 faults: corrupt data, other causes, failing Jobs and API calls, fair | `TypeOK`, `PatientRecovery`, `Recovers` | hold |
| `recovery_order` | one corrupt volume | `MountedFirst` | violated |

`Recovers` needs `Threshold + 1 < MaxBackoff` (in `RecoveryAssumption`): every
restart clears the timer, so only a back-off longer than the threshold lets it
run out. The extra tick is the delay until the first sighting, seconds in
reality. `PatientRecovery` makes one exception: a failed
patch leaves an old timer behind, which `missed` records until a patch clears or
starts the timer; that hazard stays (`recovery.go`, in `PROJECT.json`).

The finding of `recovery_order`: the pod is deleted when the Job is active
(`recovery.go:166`), which it is while its pod is pending, so the order that `:132`,
`:153`, `:167` and `docs/reconciliation-flows.md:103` describe is not kept. With the
default anti-affinity it cannot be kept. `Recovers` shows that the pod comes to run all
the same. Two more things the model reaches: the Job deletes files
that are good, when the loop had another cause or when its pod, pending since an
earlier loop, is scheduled at the next deletion; and a Job that exhausted its retries is not left for manual intervention, as `:164`
says, but expires with its TTL, after which a new one is created.

Fairness: passes, kubelet, the Job and TTL controllers go on and the other cause
goes away; the clock is strongly fair because it acts only between passes. `JobMount`
is strongly fair as well: each deletion of the pod is a new race, and the Job's pod,
which waits in the scheduler's queue while the new pod is still to be created, does
not lose all of them. This is an assumption about the scheduler. With weak fairness
`Recovers` fails, since the new pod may win for ever.

`CrashRecoveryProofs` proves `TypeCorrect` and `Patient`
(`Spec => PatientRecovery`) for any constants that satisfy the assumption. The
invariant (`Honest`) bounds the timer by the history variable `ill`; the
interesting step is the tick that resets `ill`, before which the pass must have
cleared the timer.

### NodeCommands

The module's commands as functions of what they read: the fields of `INFO` and
`CLUSTER INFO`, the lines of `CLUSTER NODES`, `ACL LIST`, and which of these
calls fail. Addresses keep IP and port, because `TOPOLOGY.SET` compares the IP alone
with a node's primary (`topology.c:115`) and the whole address with `CLUSTER NODES`.
A line keeps its address, flags, master and slot tokens; texts are
not assembled. The field parsers keep their defaults (-1 for a missing number, an
empty value for a missing string), because the commands compare with them. Each C file
has its own copy of them; the copies are alike and modelled once.

The functions follow the code where comments say more: `OPERATOR.CLUSTER.SAFE`
asks for two healthy other primaries whatever the size of the cluster
(`cluster_safe.c:209`), and `OPERATOR.FAILOVER.PREPARE` pauses writes, waits and
lifts the pause within one call, so it leaves nothing behind; it does not wait for
the change of role that the comment at `module.c:70` mentions.

### ValkeyNode

One node: `ValkeyModule_OnLoad` step by step (the gate is armed before the
commands are registered), at server start or by `MODULE LOAD`, with every step
that can fail; the gate's timer; users, replies and failing calls that change
between commands; and the loop of `SLOT.STATS` that copies slot ranges from a
line of limited length into a buffer of limited size, token by token.

| Run | Instance | Checks | Result |
|-----|----------|--------|--------|
| `node` | replies of a new, healthy, failing and replicating node, 4 lists of users, one failing call at a time, fair | `TypeOK`, `GateGuards`, `SlotsReported`, `ReportsAgree`, `GateOpens` | hold |

The buffer has 10 bytes and the line 14, instead of 256 and what the fields before
the slots leave of 1023: the slot lists end before, at and after each limit, with
and without room for a separator. `ReportsAgree` compares the answers of
different commands on one state: lags of 1024 and 1025 bytes, which `NODE.READY` and
`HEALTH` compute separately, an offset of 0, migration markers, and two nodes that
share an IP. For those a replica counts as already placed when the port differs; the
property promises the port only where IPs tell nodes apart. `SlotsReported` allows
the ranges that do not fit to be missing, although `slot_stats.c:59` speaks of all.

Fairness: a command that started ends, and the timer is strongly fair, because the
event loop runs timers between commands however many there are. Users and
replies need not change.

`ValkeyNodeProofs` proves for any buffer size, line size, tokens, replies and
lists of users:

- `BufferBound`: `Spec => []TypeOK`, which holds `written` inside the buffer.
- `GateSafe`: `Spec => []GateGuards`. The inductive invariant `GateInv` adds what
  `Gate_Init` leaves at each position of the load, and that a set flag goes with
  an armed timer.
- `GateArmed`: while the flag is set on a loaded node, a timer is armed. This is
  the safety half of `GateOpens`.
- `SlotsComplete`: `Spec => []SlotsReported`. The property is about a scan that
  has ended, so the invariant `ScanInv` describes the scan on its way. `Reading`
  ties the position in the line, the column and the number of entries to running
  totals over the tokens read; `Copying` says that no range is cut while line and
  buffer last, that the buffer holds exactly the ranges as long as they fit, and
  that nothing is written behind a cut one. The totals are a recursive function:
  `TotalsExist` constructs it and `TotalsStep` is its equation.
- `ReportsConsistent`: `Spec => []ReportsAgree`. Beyond `ScanInv`, which relates
  what `SLOT.STATS` printed to the tokens `NODE.STATE` looks at, this is about
  functions of one reply, command by command; that `IsAlreadyReplicaOf` agrees with the
  `master_addr` of `NODE.STATE` on the port needs `OneNodePerIP`.

The last two rest on `RepliesAssumption`: every reply is `Plausible`, that
is, one a Valkey server can give. Its numeric fields are numbers, `master_host`
comes with `master_port`, an ok cluster has a positive `cluster_size`, a node with
slots knows that slots are assigned, and slot ranges are printed before migration
markers. These are facts about Valkey, not about the operator; the replies of the
run satisfy them.

### RollingUpdate and ShardLog

Pods of a formed cluster are replaced, by a rolling update or a drain. The actions
are the phases of the PreStop script in `statefulset.go`, the probe, the
StatefulSet controller, evictions under the PodDisruptionBudget, the operator's
`reconcileNodeDrainFailover`, and Valkey's replication, gossip and failover
(external). The script acts on `ClusterSafe`, `NodeReady` and the lines of
`CLUSTER NODES` as `NodeCommands` computes them. What it ignores, the answers of
`CLUSTER FAILOVER` and `FAILOVER.PREPARE`, the model ignores too. A failed or empty
`INFO` makes the script leave like a replica's (`statefulset.go:222`); no call of the
script fails in the model. `HookSafeExpires`
and `HookPollExpires` are its loops running out; they count as faults, like a
crash.

`ShardLog` is the promise to clients: acknowledged writes are not taken back and
the shard is served by a running primary, until something unplanned happens.
`PromiseKept` says that `RollingUpdate` implements it, with the log of a shard
mapped to the data of the node that owns its slots, `served` to the shards whose
owner runs, and `disturbed` to a fault having happened.

| Run | Instance | Checks | Result |
|-----|----------|--------|--------|
| `handover` | 3 shards of 2 pods, one update of shard a, a drain of its first pod, one write, one fault, fair | `TypeOK`, `SafeKeepsMajority`, `PromiseKept`, `ReplacementCompletes` | hold |

Three shards are what `CLUSTER.SAFE` needs: it asks for two other primaries. Only
shard a is replaced, so the other shards' pods change nothing but the count of
primaries. The fault may be a crash of the replica or a hook that runs out.
`SafeKeepsMajority` is meant for three shards: the threshold of two does not grow
with the cluster, although the comment at `cluster_safe.c:203` says so. Deadlock
is not checked because the system comes to rest when the update and the drain are
done.

`OneAtATime` keeps a drain from starting during an update and the reverse. This
is a restriction, not the code's: the StatefulSet controller does not consult the
budget. With `OneAtATime = FALSE` TLC finds a drain during which an update starts:
the hook of the replica has seen that it is a replica and exits, the operator's
failover for the drained primary then promotes it, and the new primary stops, so
`PromiseKept` fails. No document of the repository promises otherwise.

On two points Valkey is simpler here than it is. `CLIENT UNPAUSE`, which
`FAILOVER.PREPARE` calls, does not lift the pause of a failover. And a replica
reports its primary's offset in `master_repl_offset`; a real replica reports its
own there, so the lag that `NODE.READY` and `HEALTH` compute is smaller than the
model's.

Fairness: hooks, kubelet, the StatefulSet controller, replication and failovers go
on (`Goes`), so does the operator. An eviction is strongly fair, because the
drain repeats it until the budget allows it. Updates, drains, writes and faults
need not happen.

Three modules hold the proofs, for any pods, shards, updates, drains and faults:

- `RollingUpdateProofs` proves `TypeCorrect` (`Spec => []TypeOK`), overlapping or
  not, with the help of `Aimed`: commands go to pods, failovers stay in their
  shard.
- `RefinementProofs` proves `Refinement`: `Spec => PromiseKept` under `Calm`, which
  is `OneAtATime` and at most one replica per shard. The inductive invariant is
  `Undisturbed`: while there is no fault, at most one pod is not up, nobody else is
  flagged and an update has passed all pods above it (`OneDown`,
  `RollingUpdateProofs`), and a pod whose hook has ended owns no slots (`Handing`,
  `HandoverProofs`). `Handing` also says where a failover may be under way:
  without it the operator could promote a pod that is already stopping.
  `PromiseKept` itself is not inductive, because what `Terminate` does to the
  promise was decided several phases earlier.
  The abstract step then follows for each action: `Promote` leaves the log as it
  is because the replica's data equals the paused primary's, `Terminate` stops
  only pods that own nothing, `Write` is `Acknowledge`, faults are `Disturb`.

- `HandoverProofs` also proves `MajorityKept`: `Spec => []SafeKeepsMajority` for at
  most three shards. With more the property is false, because the threshold of
  two stays. `CountedShards` is the argument: the lines that `CLUSTER.SAFE` counts
  name masters that own slots, so each stands for another shard whose owner nobody
  suspects, and no two for the same one. That the shards are finitely many follows
  from the pods being a sequence; `DistinctAssumption` says that no pod occurs
  twice in it, which holds of the ordinals of StatefulSets.

With two replicas per shard the hook and the operator may send the failover to
different ones; that case is outside `Calm`.

### ReplicaRepair

The rest of `health.go` and `repair.go`: `ShardUnderReplicated`,
`forgetStaleNodes`, `reconcileReplicaRoles` and `reconcileOrphanReplicas`, for
replicas that restart in place, at the same or another address, are evicted or lose
their volume. Each node has its own table
of `CLUSTER NODES` (`view`), and gossip brings the tables together entry by
entry. The operator reads the table of the first Ready pod of a list that is in
random order, so every step picks any Ready pod as its seed. A replica that loses
its volume gets a new id and its old id stays in the tables as a ghost. A pod that has
joined halfway fails its readiness probe (`Probe`, `node_ready.c:190`) until it knows
all slots. The health check reads `CLUSTER NODES` and later the pods it compares it
with (`CheckNodes`, `CheckStale`), so a pod may come back in between.

The three steps wait for each other: assigning waits until ghosts are forgotten,
forgetting waits for the stale-since annotation to age, and joining needs the
ghost gone because the host name in its line makes the orphan look known.
`forgetStaleNodes` patches the resource, and the answer replaces the condition the
pass has just set, so `reconcileReplicaRoles` acts on the stored one.

| Run | Instance | Checks | Result |
|-----|----------|--------|--------|
| `repair` | 2 primaries with a replica each, one of which stops once in any way, one failing API write, fair | `TypeOK`, `PlacedWhenAgreed`, `Repaired` | hold |

Only one of the two replicas stops (`MayStop`): they are alike, and one keeps the run
small. `Repaired` covers what the code does not rule out: a node that came back at
another address after its line was read counts as stale and is forgotten while it
runs, and becomes a replica for all nodes again. `PlacedWhenAgreed` covers one
replica whose loss all tables agree on. Beyond it nothing is promised: while the tables
differ (a pod that re-joins may be its own seed, with a partial table) the replica can
be given to a primary that has one already, where it stays, since the code assigns only
masters without slots; and two orphans of one loop are placed by one table
(`repair.go:127`). A `CLUSTER FORGET` that fails on
a running pod, after which gossip brings the ghost back, and the lag of the pod list
are not modelled. Primaries keep running in this module; their replacement is
`RollingUpdate`. `ShardUnderReplicated` is raised at the first sighting, without the 30
seconds that the repository's `README.md:30` mentions.

Fairness: pods come back, gossip and time go on, the operator is called again. A
primary is first in the random list now and then; this is strong fairness on the
three steps that pick a seed, and without it `Repaired` fails, because the lost pod
itself may be the seed for ever.

`ReplicaRepairProofs` proves `TypeCorrect` for any pods, replicas, stops and failing
writes.

`Placed` is `Spec => PlacedWhenAgreed`, also for any number of shards and replicas.
An assignment is decided on a table read in an earlier step, so that the tables
agree when it is sent says nothing by itself. `LostInv` adds `Rows` (only a node
that lost its volume is a master without slots, and while it is the only one that
stopped, all others are `Settled` and list each other in their places) and `Reads` (the pods a pass
is to assign have lost their volume, and the table kept from the start of
`reconcileOrphanReplicas` has every other node in its place). `Settled` is what keeps
`CLUSTER FORGET` away from the others: they are Ready and neither flagged nor stale.
`Behind` says that tables list no id a pod is still to get. `CountsRight` then
shows that the counts of `pickMasterForReplica` are the true ones. `Rows` is
preserved because an entry changes only by gossip from the node it is about, by
`CLUSTER FORGET` of an id in `stale`, or by `CLUSTER REPLICATE` on a pod that has
no place to lose (`StepChanges`, `RowsChange`).

### ShardBalance

`reconcileShardStats` and `reconcileRebalance`: the queries, the skew, the
`shard-imbalanced-since` annotation, the grace period, the condition, the Job.
`Merged` is what a merge patch stores, given the base it was computed against.

| Run | Instance | Checks | Result |
|-----|----------|--------|--------|
| `balance` | 2 primaries, memory that grows, fair | `SkewIsRebalanced` | violated |

The finding: the base of the patch is copied after the annotation was set
(`slotstats.go:156`), so the patch is empty, the annotation never reaches the API
server, each pass sees the skew for the first time, and no Job is created. Fairness
is that of the work queue, the clock and the Job controller. Nothing is proved
here.

## What is proved and what is only checked

`PROJECT.json` lists the theorems; each proof rests only on the `ASSUME`s of the
module it is about, which TLC evaluates in the runs. Properties under fairness
(`AllNodesJoin`, `ClusterForms`, `UsersConverge`, `Recovers`, `GateOpens`,
`ReplacementCompletes`, `Repaired`) are model-checked only: the prover reaches
neither fairness nor `ENABLED`. Every invariant and every action property that a
passing run checks is also a theorem, and so is the refinement `PromiseKept`. Three
of them have a hypothesis: `BootstrapUndisturbed` needs `OnlyLag`, `PromiseKept` needs
`Calm`, `SafeKeepsMajority` at most three shards. The sections above say what happens
without it.

The prover has no induction over data. Where a proof needs one (the slot totals,
the maximal slot count) it takes a least counterexample, which exists because the
naturals are well-founded (`LeastNat`).

## Not modelled

- Object builders (ConfigMap text, StatefulSet template, Services, PDB, metrics,
  affinity) and the computed sizes (`computeIOThreads`, `computeMaxmemory`): they
  compute a value and write it, with no protocol of their own.
- Zones: the scores of `topology.go`, `detectShardColocation` and the topology
  status. They weigh candidates that the models choose between freely or by
  offset alone.
- Phases and conditions of `updateStatus` beyond the ones other steps read.
- Secrets that cannot be resolved.
- The lag of the pod lists, which come from the cache too; the Job and the resource
  are the cached objects that steer the topology step.
- Deletion: the operator only removes the finalizer; owned objects are garbage
  collected by Kubernetes.
- The steps are composed where they act on each other (health with topology,
  health with both repair steps, hook with failover), not all in one model: their
  product is out of TLC's reach.
- Kubernetes, controller-runtime and Valkey are external and modelled only as far
  as the operator observes them.
- `valkeymodule.h` is vendored and `zz_generated.deepcopy.go` generated.
