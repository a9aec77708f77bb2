------------------------- MODULE RollingUpdateProofs -------------------------
(* Proofs about RollingUpdate: types, and that pods are replaced one at a time. *)
EXTENDS RollingUpdate, TLAPS

USE PodsAssumption

\* At most one replica in a shard; updates and drains one after another.
Calm ==
    /\ OneAtATime
    /\ \A p, q, r \in Pods : q \in ShardPeers(p) /\ r \in ShardPeers(p) => q = r

Flagged == pfail \cup fail
Higher(p) == {q \in Pods : Ordinal(q) > Ordinal(p)}

\* The Kubernetes half: one pod at a time is not up, it is the only one that can
\* be flagged, and an update has passed every pod above it and above a flagged one.
OneDown ==
    /\ \A p, q \in Pods : phase[p] # "up" /\ phase[q] # "up" => p = q
    /\ \A p \in Pods : phase[p] # "up" \/ p \in Flagged => Higher(p) \subseteq new
    /\ \A p \in Pods : phase[p] # "up" => Flagged \subseteq {p}
    /\ \A p \in ready : p \notin Flagged /\ phase[p] # "down"
    /\ cordon # {} => new = Pods
    /\ \A p, q \in cordon : p = q
    /\ cordon # {} => \A p \in Pods : phase[p] # "up" => p \in cordon

-----------------------------------------------------------------------------
\* What the types rest on: commands go to pods, failovers stay in their shard.
Aimed ==
    /\ \A s \in Shards : mf[s] # NoPod => ShardOf[mf[s]] = s
    /\ \A p \in Pods : phase[p] = "send" => target[p] \in Pods
    /\ op \in {"send", "confirm"} => chosen \in Pods /\ victim \in Pods

LEMMA InitType == Init => TypeOK /\ Aimed
<1> SUFFICES ASSUME Init PROVE TypeOK /\ Aimed
  OBVIOUS
<1>1. /\ phase \in [Pods -> {"up", "down"} \cup Phases] /\ target \in [Pods -> Pods \cup {NoPod}]
      /\ role \in [Pods -> {"master", "slave"}] /\ off \in [Pods -> 0 .. MaxWrites]
      /\ link \in [Pods -> {"boot", "sync", "up", "lost"}] /\ mf \in [Shards -> Pods \cup {NoPod}]
  BY DEF Init
<1>2. owner \in [Shards -> Pods] /\ (\A s \in Shards : ShardOf[owner[s]] = s) /\ label \subseteq Pods
  BY DEF Init
<1>3. TypeOK
  BY <1>1, <1>2 DEF Init, TypeOK
<1>4. Aimed
  BY DEF Init, Aimed
<1> QED
  BY <1>3, <1>4

\* CLUSTER FAILOVER at a pod starts a failover in that pod's shard, or nothing.
LEMMA FailoverType ==
    ASSUME TypeOK, Aimed, NEW q \in Pods, ClusterFailover(q)
    PROVE  /\ mf' \in [Shards -> Pods \cup {NoPod}]
           /\ \A s \in Shards : mf'[s] # NoPod => ShardOf[mf'[s]] = s
<1>1. ShardOf[q] \in Shards /\ q # NoPod
  OBVIOUS
<1>2. mf' = mf \/ mf' = [mf EXCEPT ![ShardOf[q]] = q]
  BY DEF ClusterFailover
<1>3. CASE mf' = mf
  BY <1>3 DEF TypeOK, Aimed
<1>4. CASE mf' = [mf EXCEPT ![ShardOf[q]] = q]
  BY <1>1, <1>4 DEF TypeOK, Aimed
<1> QED
  BY <1>2, <1>3, <1>4

\* A promoted replica belongs to the shard.
LEMMA TakeoverType ==
    ASSUME TypeOK, Aimed, NEW s \in Shards, NEW q \in Pods, ShardOf[q] = s, Takeover(s, q)
    PROVE  TypeOK' /\ Aimed'
<1>1. /\ owner' = [owner EXCEPT ![s] = q] /\ role' = [role EXCEPT ![q] = "master"]
      /\ mf' = [mf EXCEPT ![s] = NoPod]
      /\ UNCHANGED <<hookVars, off, pfail, fail, kubeVars, opVars, faults>>
  BY DEF Takeover
<1>2. link' \in [Pods -> {"boot", "sync", "up", "lost"}]
  BY DEF Takeover, TypeOK
<1>3. /\ owner' \in [Shards -> Pods] /\ \A x \in Shards : ShardOf[owner'[x]] = x
      /\ role' \in [Pods -> {"master", "slave"}] /\ mf' \in [Shards -> Pods \cup {NoPod}]
      /\ \A x \in Shards : mf'[x] # NoPod => ShardOf[mf'[x]] = x
  BY <1>1 DEF TypeOK, Aimed
<1> QED
  BY <1>1, <1>2, <1>3 DEF TypeOK, Aimed, hookVars, kubeVars, opVars

LEMMA DownType ==
    ASSUME TypeOK, Aimed, NEW p \in Pods, Down(p), faults' \in 0 .. MaxFaults
    PROVE  TypeOK' /\ Aimed'
<1>1. /\ phase' = [phase EXCEPT ![p] = "down"] /\ target' = [target EXCEPT ![p] = NoPod]
      /\ ready' = ready \ {p}
      /\ UNCHANGED <<role, owner, off, pfail, fail, new, revisions, cordon, opVars>>
  BY DEF Down
<1>2. link' \in [Pods -> {"boot", "sync", "up", "lost"}]
  BY DEF Down, TypeOK
<1>3. \E x \in {NoPod, mf[ShardOf[p]]} : mf' = [mf EXCEPT ![ShardOf[p]] = x]
  BY Zenon DEF Down
<1>4. /\ mf' \in [Shards -> Pods \cup {NoPod}]
      /\ \A x \in Shards : mf'[x] # NoPod => ShardOf[mf'[x]] = x
  BY <1>3 DEF TypeOK, Aimed
<1>5. /\ phase' \in [Pods -> {"up", "down"} \cup Phases]
      /\ target' \in [Pods -> Pods \cup {NoPod}]
      /\ \A x \in Pods : phase'[x] = "send" => target'[x] \in Pods
  BY <1>1 DEF TypeOK, Aimed, Phases
<1> QED
  BY Zenon, <1>1, <1>2, <1>4, <1>5 DEF TypeOK, Aimed, opVars

\* Every step of a PreStop hook.
LEMMA HookType ==
    ASSUME TypeOK, Aimed, NEW p \in Pods,
           PreStop(p) \/ HookSafeExpires(p) \/ HookPollExpires(p)
    PROVE  TypeOK' /\ Aimed'
<1> USE DEF hookVars, valkeyVars, kubeVars, opVars, Hook
<1>1. ASSUME NEW to \in Phases \ {"send"}, phase' = [phase EXCEPT ![p] = to],
             UNCHANGED <<target, valkeyVars, kubeVars, opVars>>, faults' \in 0 .. MaxFaults
      PROVE  TypeOK' /\ Aimed'
  <2>1. /\ phase' \in [Pods -> {"up", "down"} \cup Phases]
        /\ \A x \in Pods : phase'[x] = "send" => target'[x] \in Pods
    BY <1>1 DEF TypeOK, Aimed, Phases
  <2> QED
    BY <1>1, <2>1 DEF TypeOK, Aimed
<1>2. CASE HookSafe(p) \/ HookRoleReplica(p) \/ HookRolePrimary(p) \/ HookFindNone(p)
           \/ HookPrepare(p) \/ HookPoll(p)
  BY SMTT(30), <1>1, <1>2 DEF HookSafe, HookRoleReplica, HookRolePrimary, HookFindNone, HookPrepare,
                    HookPoll, Phases, TypeOK
<1>3. CASE HookSafeExpires(p) \/ HookPollExpires(p)
  BY SMTT(30), <1>1, <1>3 DEF HookSafeExpires, HookPollExpires, Fault, Phases, TypeOK
<1>4. CASE HookFind(p)
  <2>1. PICK q \in Candidates(p) : target' = [target EXCEPT ![p] = q]
    BY Zenon, <1>4 DEF HookFind
  <2>2. q \in Pods
    BY DEF Candidates
  <2>3. phase' = [phase EXCEPT ![p] = "send"] /\ UNCHANGED <<valkeyVars, kubeVars, opVars, faults>>
    BY <1>4 DEF HookFind
  <2>4. /\ phase' \in [Pods -> {"up", "down"} \cup Phases]
        /\ target' \in [Pods -> Pods \cup {NoPod}]
        /\ \A x \in Pods : phase'[x] = "send" => target'[x] \in Pods
    BY <2>1, <2>2, <2>3 DEF TypeOK, Aimed, Phases
  <2> QED
    BY <2>3, <2>4 DEF TypeOK, Aimed
<1>5. CASE HookSend(p)
  <2>1. /\ phase[p] = "send" /\ phase' = [phase EXCEPT ![p] = "prepare"] /\ ClusterFailover(target[p])
        /\ UNCHANGED <<target, role, owner, off, link, pfail, fail, kubeVars, opVars, faults>>
    BY <1>5 DEF HookSend
  <2>2. /\ mf' \in [Shards -> Pods \cup {NoPod}]
        /\ \A s \in Shards : mf'[s] # NoPod => ShardOf[mf'[s]] = s
    BY <2>1, FailoverType DEF Aimed
  <2>3. /\ phase' \in [Pods -> {"up", "down"} \cup Phases]
        /\ \A x \in Pods : phase'[x] = "send" => target'[x] \in Pods
    BY <2>1 DEF TypeOK, Aimed, Phases
  <2> QED
    BY Zenon, <2>1, <2>2, <2>3 DEF TypeOK, Aimed
<1>6. CASE Terminate(p)
  BY Zenon, <1>6, DownType DEF Terminate, TypeOK
<1> QED
  BY <1>2, <1>3, <1>4, <1>5, <1>6 DEF PreStop

\* The StatefulSet, the kubelet, the clients.
LEMMA KubeType ==
    ASSUME TypeOK, Aimed,
           \/ \E p \in Pods : Probe(p) \/ Update(p) \/ Cordon(p) \/ Evict(p) \/ Start(p) \/ Crash(p)
           \/ NewRevision \/ \E s \in Shards : Write(s)
    PROVE  TypeOK' /\ Aimed'
<1> USE DEF hookVars, valkeyVars, kubeVars, opVars
<1>1. ASSUME NEW p \in Pods, Probe(p) PROVE TypeOK' /\ Aimed'
  <2>1. ready' \subseteq Pods /\ UNCHANGED <<hookVars, valkeyVars, new, revisions, cordon, opVars, faults>>
    BY <1>1 DEF Probe, TypeOK
  <2> QED
    BY Zenon, <2>1 DEF TypeOK, Aimed
<1>2. ASSUME NEW p \in Pods, Update(p) \/ Evict(p) PROVE TypeOK' /\ Aimed'
  <2>1. phase' = [phase EXCEPT ![p] = "safe"] /\ UNCHANGED <<target, valkeyVars, kubeVars, opVars, faults>>
    BY <1>2 DEF Update, Evict, Stopping
  <2>2. /\ phase' \in [Pods -> {"up", "down"} \cup Phases]
        /\ \A x \in Pods : phase'[x] = "send" => target'[x] \in Pods
    BY <2>1 DEF TypeOK, Aimed, Phases
  <2> QED
    BY Zenon, <2>1, <2>2 DEF TypeOK, Aimed
<1>3. ASSUME NEW p \in Pods, Cordon(p) PROVE TypeOK' /\ Aimed'
  BY SMTT(30), <1>3 DEF Cordon, TypeOK, Aimed
<1>4. ASSUME NEW p \in Pods, Start(p) PROVE TypeOK' /\ Aimed'
  <2>1. /\ phase' = [phase EXCEPT ![p] = "up"] /\ new' \in {new \ {p}, new \cup {p}}
        /\ cordon' = cordon \ {p} /\ UNCHANGED <<target, valkeyVars, ready, revisions, opVars, faults>>
    BY <1>4 DEF Start
  <2>2. /\ phase' \in [Pods -> {"up", "down"} \cup Phases]
        /\ \A x \in Pods : phase'[x] = "send" => target'[x] \in Pods
    BY <2>1 DEF TypeOK, Aimed, Phases
  <2> QED
    BY ZenonT(30), <2>1, <2>2 DEF TypeOK, Aimed
<1>5. ASSUME NEW p \in Pods, Crash(p) PROVE TypeOK' /\ Aimed'
  <2>1. Down(p) /\ faults < MaxFaults /\ faults' = faults + 1
    BY <1>5 DEF Crash, Fault
  <2>2. faults' \in 0 .. MaxFaults
    BY <2>1 DEF TypeOK
  <2> QED
    BY <2>1, <2>2, DownType
<1>6. CASE NewRevision
  <2>1. /\ revisions < Updates /\ revisions' = revisions + 1 /\ new' \subseteq Pods
        /\ UNCHANGED <<hookVars, valkeyVars, ready, cordon, opVars, faults>>
    BY <1>6 DEF NewRevision
  <2>2. revisions' \in 0 .. Updates
    BY <2>1 DEF TypeOK
  <2> QED
    BY <2>1, <2>2 DEF TypeOK, Aimed
<1>7. ASSUME NEW s \in Shards, Write(s) PROVE TypeOK' /\ Aimed'
  <2>1. /\ off' = [off EXCEPT ![owner[s]] = off[owner[s]] + 1] /\ off[owner[s]] < MaxWrites
        /\ UNCHANGED <<hookVars, role, owner, mf, link, pfail, fail, kubeVars, opVars, faults>>
    BY <1>7 DEF Write
  <2>2. off' \in [Pods -> 0 .. MaxWrites]
    BY <2>1 DEF TypeOK
  <2> QED
    BY SMTT(30), <2>1, <2>2 DEF TypeOK, Aimed
<1> QED
  BY <1>1, <1>2, <1>3, <1>4, <1>5, <1>6, <1>7

\* Replication, gossip and failovers.
LEMMA ValkeyType == ASSUME TypeOK, Aimed, Valkey PROVE TypeOK' /\ Aimed'
<1> USE DEF hookVars, kubeVars, opVars
<1>1. ASSUME NEW s \in Shards, Promote(s) PROVE TypeOK' /\ Aimed'
  <2>1. mf[s] \in Pods /\ ShardOf[mf[s]] = s /\ Takeover(s, mf[s])
    BY <1>1 DEF Promote, TypeOK, Aimed
  <2> QED
    BY <2>1, TakeoverType
<1>2. ASSUME NEW s \in Shards, Abandon(s) PROVE TypeOK' /\ Aimed'
  <2>1. /\ mf' = [mf EXCEPT ![s] = NoPod]
        /\ UNCHANGED <<hookVars, role, owner, off, link, pfail, fail, kubeVars, opVars, faults>>
    BY <1>2 DEF Abandon
  <2>2. /\ mf' \in [Shards -> Pods \cup {NoPod}]
        /\ \A x \in Shards : mf'[x] # NoPod => ShardOf[mf'[x]] = x
    BY <2>1 DEF TypeOK, Aimed
  <2> QED
    BY SMTT(30), <2>1, <2>2 DEF TypeOK, Aimed
<1>3. ASSUME NEW q \in Pods, Replicate(q) PROVE TypeOK' /\ Aimed'
  <2>1. owner[ShardOf[q]] \in Pods
    BY DEF TypeOK
  <2>2. off' = off \/ off' = [off EXCEPT ![q] = off[owner[ShardOf[q]]]]
    BY <1>3 DEF Replicate
  <2>3. link' = [link EXCEPT ![q] = "sync"] \/ link' = [link EXCEPT ![q] = "up"]
    BY <1>3 DEF Replicate
  <2>4. off' \in [Pods -> 0 .. MaxWrites] /\ link' \in [Pods -> {"boot", "sync", "up", "lost"}]
    <3>1. off \in [Pods -> 0 .. MaxWrites] /\ link \in [Pods -> {"boot", "sync", "up", "lost"}]
      BY DEF TypeOK
    <3>2. off[owner[ShardOf[q]]] \in 0 .. MaxWrites
      BY <2>1, <3>1
    <3>3. off' \in [Pods -> 0 .. MaxWrites]
      BY Zenon, <2>2, <3>1, <3>2
    <3> QED
      BY Zenon, <2>3, <3>1, <3>3
  <2>5. UNCHANGED <<hookVars, role, owner, mf, pfail, fail, kubeVars, opVars, faults>>
    BY <1>3 DEF Replicate
  <2> QED
    BY Zenon, <2>4, <2>5 DEF TypeOK, Aimed
<1>4. ASSUME NEW p \in Pods, Demote(p) PROVE TypeOK' /\ Aimed'
  <2>1. /\ role' = [role EXCEPT ![p] = "slave"] /\ link' = [link EXCEPT ![p] = "lost"]
        /\ UNCHANGED <<hookVars, owner, mf, off, pfail, fail, kubeVars, opVars, faults>>
    BY <1>4 DEF Demote
  <2>2. role' \in [Pods -> {"master", "slave"}] /\ link' \in [Pods -> {"boot", "sync", "up", "lost"}]
    BY <2>1 DEF TypeOK
  <2> QED
    BY <2>1, <2>2 DEF TypeOK, Aimed
<1>5. ASSUME NEW p \in Pods, Suspect(p) \/ MarkFail(p) \/ Unflag(p) PROVE TypeOK' /\ Aimed'
  <2>1. /\ pfail' \subseteq Pods /\ fail' \subseteq Pods
        /\ UNCHANGED <<hookVars, role, owner, mf, off, link, kubeVars, opVars, faults>>
    BY SMTT(30), <1>5 DEF Suspect, MarkFail, Unflag, TypeOK
  <2> QED
    BY <2>1 DEF TypeOK, Aimed
<1>6. ASSUME NEW q \in Pods, Elect(q) PROVE TypeOK' /\ Aimed'
  BY <1>6, TakeoverType DEF Elect
<1> QED
  BY <1>1, <1>2, <1>3, <1>4, <1>5, <1>6 DEF Valkey

LEMMA OperatorType == ASSUME TypeOK, Aimed, Operator PROVE TypeOK' /\ Aimed'
<1> USE DEF hookVars, valkeyVars, kubeVars, opVars
<1>1. CASE SyncRoleLabels
  BY SMTT(30), <1>1 DEF SyncRoleLabels, TypeOK, Aimed
<1>2. CASE DrainNothing
  BY <1>2 DEF DrainNothing, PassEnds, TypeOK, Aimed
<1>3. CASE DrainFailover
  <2>1. /\ victim' \in ToMove /\ chosen' \in Pods /\ op' = "send"
        /\ UNCHANGED <<hookVars, valkeyVars, kubeVars, label, faults>>
    BY <1>3 DEF DrainFailover, BestReplicas, ReplicaPods, ShardPeers
  <2>2. victim' \in Pods
    BY <2>1 DEF ToMove, TypeOK
  <2> QED
    BY Zenon, <2>1, <2>2 DEF TypeOK, Aimed
<1>4. CASE SendFailover
  <2>1. /\ op = "send"
        /\ UNCHANGED <<hookVars, role, owner, off, link, pfail, fail, kubeVars, label, faults>>
        /\ \/ op' = "confirm" /\ ClusterFailover(chosen) /\ UNCHANGED <<victim, chosen>>
           \/ PassEnds /\ UNCHANGED mf
    BY <1>4 DEF SendFailover
  <2>2. chosen \in Pods /\ victim \in Pods
    BY <2>1 DEF Aimed
  <2>3. /\ mf' \in [Shards -> Pods \cup {NoPod}]
        /\ \A s \in Shards : mf'[s] # NoPod => ShardOf[mf'[s]] = s
    BY <2>1, <2>2, FailoverType DEF TypeOK, Aimed
  <2>4. /\ op' \in {"idle", "confirm"} /\ victim' \in Pods \cup {NoPod} /\ chosen' \in Pods \cup {NoPod}
        /\ op' = "confirm" => chosen' \in Pods /\ victim' \in Pods
    BY <2>1, <2>2 DEF PassEnds
  <2> QED
    BY SMTT(30), <2>1, <2>3, <2>4 DEF TypeOK, Aimed
<1>5. CASE ConfirmFailover
  <2>1. chosen \in Pods /\ op' = "idle" /\ victim' = NoPod /\ chosen' = NoPod
    BY <1>5 DEF ConfirmFailover, PassEnds, Aimed
  <2>2. label' \subseteq Pods /\ UNCHANGED <<hookVars, valkeyVars, kubeVars, faults>>
    BY <1>5, <2>1 DEF ConfirmFailover, TypeOK
  <2> QED
    BY SMTT(30), <2>1, <2>2 DEF TypeOK, Aimed
<1> QED
  BY <1>1, <1>2, <1>3, <1>4, <1>5 DEF Operator

LEMMA TypeStep == TypeOK /\ Aimed /\ [Next]_vars => TypeOK' /\ Aimed'
<1> SUFFICES ASSUME TypeOK, Aimed, [Next]_vars PROVE TypeOK' /\ Aimed'
  OBVIOUS
<1>1. CASE UNCHANGED vars
  BY <1>1 DEF vars, hookVars, valkeyVars, kubeVars, opVars, TypeOK, Aimed
<1> QED
  BY <1>1, HookType, KubeType, ValkeyType, OperatorType DEF Next, Unplanned

\* For any pods, shards, updates, drains, writes and faults, overlapping or not,
\* every variable keeps its type; in particular the owner of a shard's slots is
\* always one of the shard's pods.
THEOREM TypeCorrect == Spec => []TypeOK
BY InitType, TypeStep, PTL DEF Spec

-----------------------------------------------------------------------------
\* Different pods have different ordinals.
LEMMA OrdinalFacts ==
    \A p, q \in Pods : /\ Ordinal(p) \in Int
                       /\ p # q => Ordinal(p) > Ordinal(q) \/ Ordinal(q) > Ordinal(p)
<1> SUFFICES ASSUME NEW p \in Pods, NEW q \in Pods
             PROVE  /\ Ordinal(p) \in Int
                    /\ p # q => Ordinal(p) > Ordinal(q) \/ Ordinal(q) > Ordinal(p)
  OBVIOUS
<1>1. Ordinal(p) \in DOMAIN PodSeq /\ PodSeq[Ordinal(p)] = p
  BY DEF Ordinal, Pods
<1>2. Ordinal(q) \in DOMAIN PodSeq /\ PodSeq[Ordinal(q)] = q
  BY DEF Ordinal, Pods
<1>3. DOMAIN PodSeq \subseteq Int
  OBVIOUS
<1>4. p # q => Ordinal(p) # Ordinal(q)
  BY <1>1, <1>2
<1> QED
  BY <1>1, <1>2, <1>3, <1>4

\* A step that is counted as a fault leaves the undisturbed states.
LEMMA NoFault ==
    ASSUME TypeOK, Unplanned PROVE faults' # 0
<1>1. faults' = faults + 1
  BY DEF Unplanned, HookSafeExpires, HookPollExpires, Crash, Fault
<1> QED
  BY <1>1 DEF TypeOK

\* The phases of a hook follow each other without the pod coming back up.
LEMMA HookPhase ==
    ASSUME NEW p \in Pods, PreStop(p)
    PROVE  /\ phase[p] \in Phases
           /\ \E to \in Phases \cup {"down"} : phase' = [phase EXCEPT ![p] = to]
           /\ UNCHANGED <<pfail, fail, new, cordon>> /\ ready' \in {ready, ready \ {p}}
           /\ phase'[p] = "down" /\ phase \in [Pods -> {"up", "down"} \cup Phases] => ready' = ready \ {p}
<1> USE DEF Hook, hookVars, valkeyVars, kubeVars, opVars, Phases
<1>1. CASE HookSafe(p) \/ HookRoleReplica(p) \/ HookRolePrimary(p)
  BY <1>1 DEF HookSafe, HookRoleReplica, HookRolePrimary
<1>2. CASE HookFind(p) \/ HookFindNone(p)
  BY <1>2 DEF HookFind, HookFindNone
<1>3. CASE HookSend(p) \/ HookPrepare(p) \/ HookPoll(p)
  BY <1>3 DEF HookSend, HookPrepare, HookPoll
<1>4. CASE Terminate(p)
  BY <1>4 DEF Terminate, Down
<1> QED
  BY <1>1, <1>2, <1>3, <1>4 DEF PreStop

\* Kubernetes replaces one pod at a time.
LEMMA OneDownStep ==
    ASSUME Calm, TypeOK, OneDown, [Next]_vars, faults' = 0
    PROVE  OneDown'
<1> USE DEF hookVars, valkeyVars, kubeVars, opVars
<1>0. /\ phase \in [Pods -> {"up", "down"} \cup Phases] /\ "up" \notin Phases /\ "down" \notin Phases
      /\ ready \subseteq Pods /\ new \subseteq Pods /\ cordon \subseteq Pods /\ Flagged \subseteq Pods
  BY DEF TypeOK, Flagged, Phases
<1>1. ASSUME UNCHANGED <<phase, pfail, fail, new, cordon, ready>> PROVE OneDown'
  BY <1>1 DEF OneDown, Flagged, Higher
<1>2. ASSUME NEW p \in Pods, PreStop(p) PROVE OneDown'
  <2>1. PICK to \in Phases \cup {"down"} : phase' = [phase EXCEPT ![p] = to]
    BY <1>2, HookPhase
  <2>2. /\ phase[p] # "up" /\ to # "up" /\ UNCHANGED <<pfail, fail, new, cordon>>
        /\ ready' \subseteq ready /\ (to = "down" => p \notin ready')
    BY <1>0, <1>2, <2>1, HookPhase
  <2>3. \A x \in Pods : (phase'[x] # "up" <=> phase[x] # "up") /\ (x # p => phase'[x] = phase[x])
    BY <1>0, <2>1, <2>2
  <2>4. \A x \in ready' : phase'[x] # "down"
    BY <1>0, <2>1, <2>2, <2>3 DEF OneDown
  <2> QED
    BY <2>2, <2>3, <2>4 DEF OneDown, Flagged, Higher
<1>3. ASSUME NEW p \in Pods, Probe(p) PROVE OneDown'
  <2>1. /\ ready' \subseteq ready \/ (ready' = ready \cup {p} /\ p \notin Flagged /\ phase[p] # "down")
        /\ UNCHANGED <<phase, pfail, fail, new, cordon>>
    BY <1>3 DEF Probe, Runs, Flagged
  <2> QED
    BY <2>1 DEF OneDown, Flagged, Higher
<1>4. ASSUME NEW p \in Pods, Update(p) \/ Evict(p) PROVE OneDown'
  <2>1. /\ phase[p] = "up" /\ phase' = [phase EXCEPT ![p] = "safe"]
        /\ UNCHANGED <<pfail, fail, new, cordon, ready>>
    BY <1>4 DEF Update, Evict, Stopping
  <2>2. \A q \in Pods : phase[q] = "up"
    <3>1. CASE Evict(p)
      BY <3>1 DEF Evict
    <3>2. ASSUME Update(p), NEW q \in Pods, phase[q] # "up" PROVE FALSE
      <4>1. CASE Ordinal(q) > Ordinal(p)
        BY <3>2, <4>1 DEF Update
      <4>2. CASE Ordinal(p) > Ordinal(q)
        BY <3>2, <4>2 DEF Update, OneDown, Higher
      <4> QED
        BY <2>1, <3>2, <4>1, <4>2, OrdinalFacts
    <3> QED
      BY <1>4, <3>1, <3>2
  <2>3. Flagged = {} \/ Flagged \subseteq {p}
    <3>1. CASE Evict(p)
      BY <1>0, <3>1 DEF Evict, OneDown
    <3>2. ASSUME Update(p), NEW q \in Flagged, q # p PROVE FALSE
      <4>1. CASE Ordinal(q) > Ordinal(p)
        BY <1>0, <3>2, <4>1 DEF Update, OneDown
      <4>2. CASE Ordinal(p) > Ordinal(q)
        BY <1>0, <3>2, <4>2 DEF Update, OneDown, Higher
      <4> QED
        BY <1>0, <3>2, <4>1, <4>2, OrdinalFacts
    <3> QED
      BY <1>4, <3>1, <3>2
  <2>4. Higher(p) \subseteq new /\ (cordon # {} => p \in cordon)
    BY <1>4 DEF Update, Evict, OneDown, Higher
  <2>5. \A x \in Pods : phase'[x] # "up" <=> x = p
    BY <1>0, <2>1, <2>2
  <2>6. \A x \in ready : phase'[x] # "down"
    BY <1>0, <2>1 DEF OneDown
  <2> QED
    BY <2>1, <2>3, <2>4, <2>5, <2>6 DEF OneDown, Flagged, Higher
<1>5. ASSUME NEW p \in Pods, Cordon(p) PROVE OneDown'
  <2>1. /\ cordon = {} /\ cordon' = {p} /\ new = Pods /\ \A q \in Pods : phase[q] = "up"
        /\ UNCHANGED <<phase, pfail, fail, new, ready>>
    BY <1>5 DEF Cordon, Calm, Settled
  <2> QED
    BY <2>1 DEF OneDown, Flagged, Higher
<1>6. ASSUME NEW p \in Pods, Start(p) PROVE OneDown'
  <2>1. /\ phase[p] = "down" /\ phase' = [phase EXCEPT ![p] = "up"]
        /\ new' = new \ {p} \/ new' = new \cup {p}
        /\ cordon' = cordon \ {p} /\ UNCHANGED <<pfail, fail, ready>>
    BY Zenon, <1>6 DEF Start
  <2>2. \A x \in Pods : phase'[x] = "up"
    BY <1>0, <2>1 DEF OneDown
  <2>3. cordon' = {} /\ Flagged \subseteq {p}
    BY <1>0, <2>1 DEF OneDown
  <2>4. \A x \in Flagged : Higher(x) \subseteq new'
    <3>1. p \notin Higher(p)
      BY OrdinalFacts DEF Higher
    <3>2. Higher(p) \subseteq new
      BY <2>1 DEF OneDown
    <3> QED
      BY <2>1, <2>3, <3>1, <3>2
  <2> QED
    BY <2>1, <2>2, <2>3, <2>4 DEF OneDown, Flagged, Higher
<1>7. CASE NewRevision
  <2>1. /\ cordon = {} /\ ready = Pods /\ \A q \in Pods : phase[q] = "up"
        /\ UNCHANGED <<phase, pfail, fail, cordon, ready>>
    BY <1>7 DEF NewRevision, Calm, Settled
  <2>2. Flagged = {}
    BY <1>0, <2>1 DEF OneDown
  <2> QED
    BY <2>1, <2>2 DEF OneDown, Flagged, Higher
<1>8. ASSUME NEW p \in Pods, Suspect(p) \/ MarkFail(p) \/ Unflag(p) PROVE OneDown'
  <2>1. UNCHANGED <<phase, new, cordon, ready>>
    BY <1>8 DEF Suspect, MarkFail, Unflag
  <2>2. Flagged' \subseteq Flagged \/ (Flagged' \subseteq Flagged \cup {p} /\ phase[p] = "down")
    BY <1>8 DEF Suspect, MarkFail, Unflag, Flagged, Runs
  <2>3. CASE Flagged' \subseteq Flagged
    BY <2>1, <2>3 DEF OneDown, Higher
  <2>4. CASE Flagged' \subseteq Flagged \cup {p} /\ phase[p] = "down"
    BY <2>1, <2>4 DEF OneDown, Higher
  <2> QED
    BY <2>2, <2>3, <2>4
<1>9. CASE Operator
  <2>1. CASE SyncRoleLabels \/ DrainNothing \/ DrainFailover
    BY <1>1, <2>1 DEF SyncRoleLabels, DrainNothing, DrainFailover
  <2>2. CASE SendFailover \/ ConfirmFailover
    BY <1>1, <2>2 DEF SendFailover, ConfirmFailover
  <2> QED
    BY <1>9, <2>1, <2>2 DEF Operator
<1>10. ASSUME NEW s \in Shards, Write(s) \/ Promote(s) \/ Abandon(s) PROVE OneDown'
  BY <1>1, <1>10 DEF Write, Promote, Abandon, Takeover
<1>11. ASSUME NEW q \in Pods, Replicate(q) \/ Demote(q) \/ Elect(q) PROVE OneDown'
  BY <1>1, <1>11 DEF Replicate, Demote, Elect, Takeover
<1>12. CASE UNCHANGED vars
  BY <1>1, <1>12 DEF vars
<1> QED
  BY <1>2, <1>3, <1>4, <1>5, <1>6, <1>7, <1>8, <1>9, <1>10, <1>11, <1>12, NoFault DEF Next, Valkey
==============================================================================
