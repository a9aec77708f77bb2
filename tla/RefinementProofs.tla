-------------------------- MODULE RefinementProofs ---------------------------
(* Kubernetes, Valkey and the operator keep the invariant too, and             *)
(* RollingUpdate implements ShardLog, for any number of shards, pods, updates, *)
(* drains and writes, with at most one replica in a shard and no drain during  *)
(* an update or another drain.                                                 *)
EXTENDS HandoverProofs

USE PodsAssumption

\* Pods that begin to stop, that start again, nodes that are cordoned.
LEMMA HandingKube ==
    ASSUME Calm, TypeOK, Aimed, OneDown, OneDown', Handing, NEW p \in Pods,
           Update(p) \/ Evict(p) \/ Cordon(p) \/ Start(p)
    PROVE  Handing'
<1> USE DEF hookVars, valkeyVars, kubeVars, opVars
<1>0. /\ phase \in [Pods -> {"up", "down"} \cup Phases] /\ cordon \subseteq Pods
      /\ \A s \in Shards : owner[s] \in Pods /\ ShardOf[owner[s]] = s /\ Owns(owner[s])
  BY OwnerFacts DEF TypeOK
<1>1. UNCHANGED <<role, owner, mf, target, op, victim, chosen>>
  BY DEF Update, Evict, Cordon, Start
<1>2. \A x \in Pods : Owns(x)' <=> Owns(x)
  BY <1>1 DEF Owns
<1>3. CASE Update(p) \/ Evict(p)
  <2>1. phase' = [phase EXCEPT ![p] = "safe"] /\ phase[p] = "up" /\ cordon' = cordon
    BY <1>3 DEF Update, Evict, Stopping
  <2>2. \A x \in Pods : phase'[x] = (IF x = p THEN "safe" ELSE phase[x])
    BY <1>0, <2>1
  <2>3. \A x \in Pods : phase[x] = "up"
    BY <2>1, <2>2 DEF OneDown
  <2>4. cordon # {} => p \in cordon
    BY <1>3 DEF Update, Evict, OneDown
  <2>5. \A s \in Shards : mf'[s] # NoPod =>
          /\ mf'[s] \in Pods /\ ShardOf[mf'[s]] = s /\ mf'[s] # owner'[s]
          /\ owner'[s] \in cordon' \/ phase'[owner'[s]] \in {"prepare", "poll"}
          /\ phase'[mf'[s]] = "up"
    <3> SUFFICES ASSUME NEW s \in Shards, mf[s] # NoPod
                 PROVE  /\ mf[s] \in Pods /\ ShardOf[mf[s]] = s /\ mf[s] # owner[s]
                        /\ owner[s] \in cordon /\ phase'[mf[s]] = "up"
      BY <1>1, <2>1
    <3>1. mf[s] \in Pods /\ ShardOf[mf[s]] = s /\ mf[s] # owner[s] /\ owner[s] \in cordon
      BY <1>0, <2>3 DEF Handing
    <3>2. owner[s] = p
      BY <2>4, <3>1 DEF OneDown
    <3> QED
      BY <2>2, <2>3, <3>1, <3>2
  <2>6. /\ op' \in {"send", "confirm"} => victim' \in cordon' /\ chosen' \in ShardPeers(victim')
        /\ \A x \in Pods : Owns(x)' => role'[x] = "master"
        /\ \A x \in Pods : phase'[x] \notin {"send", "role", "find", "exit", "down"}
    BY <1>1, <1>2, <2>1, <2>2, <2>3 DEF Handing
  <2> QED
    BY <2>5, <2>6 DEF Handing, ShardPeers
<1>4. CASE Cordon(p)
  <2>1. phase' = phase /\ cordon \subseteq cordon'
    BY <1>4 DEF Cordon
  <2> QED
    BY <1>1, <1>2, <2>1 DEF Handing, ShardPeers
<1>5. CASE Start(p)
  <2>1. /\ phase[p] = "down" /\ phase' = [phase EXCEPT ![p] = "up"] /\ cordon' = cordon \ {p}
        /\ op \notin {"send", "confirm"}
    BY <1>5 DEF Start
  <2>2. \A x \in Pods : phase'[x] = (IF x = p THEN "up" ELSE phase[x])
    BY <1>0, <2>1
  <2>3. ~Owns(p)
    BY <2>1 DEF Handing
  <2>4. \A s \in Shards : mf'[s] # NoPod =>
          /\ mf'[s] \in Pods /\ ShardOf[mf'[s]] = s /\ mf'[s] # owner'[s]
          /\ owner'[s] \in cordon' \/ phase'[owner'[s]] \in {"prepare", "poll"}
          /\ phase'[mf'[s]] = "up"
    BY <1>0, <1>1, <2>1, <2>2, <2>3 DEF Handing
  <2>5. /\ op' \notin {"send", "confirm"}
        /\ \A x \in Pods : Owns(x)' => role'[x] = "master"
        /\ \A x \in Pods : phase'[x] = "send" => target'[x] \in ShardPeers(x)
    BY <1>1, <1>2, <2>1, <2>2 DEF Handing
  <2>6. /\ \A x \in Pods : phase'[x] \in {"role", "find"} /\ Owns(x)' =>
             \E y \in ShardPeers(x) : role'[y] = "slave"
        /\ \A x \in Pods : phase'[x] \in {"exit", "down"} => ~Owns(x)'
    BY <1>1, <1>2, <2>2 DEF Handing
  <2> QED
    BY <2>4, <2>5, <2>6 DEF Handing, ShardPeers
<1> QED
  BY <1>3, <1>4, <1>5

\* A failover ends in the shard it was started in; no other shard notices.
LEMMA HandingValkey ==
    ASSUME Calm, TypeOK, Aimed, OneDown, Handing, Valkey
    PROVE  Handing'
<1> USE DEF hookVars, valkeyVars, kubeVars, opVars
<1>0. /\ UNCHANGED <<phase, target, cordon, op, victim, chosen>>
      /\ \A s \in Shards : owner[s] \in Pods /\ ShardOf[owner[s]] = s /\ Owns(owner[s])
  <2>1. \A s \in Shards : owner[s] \in Pods /\ ShardOf[owner[s]] = s /\ Owns(owner[s])
    BY OwnerFacts
  <2> QED
    BY <2>1 DEF Valkey, Promote, Abandon, Takeover, Replicate, Demote, Suspect, MarkFail, Unflag, Elect
<1>1. ASSUME UNCHANGED <<owner, role>>, \A s \in Shards : mf'[s] # NoPod => mf'[s] = mf[s]
      PROVE  Handing'
  <2>1. \A x \in Pods : Owns(x)' <=> Owns(x)
    BY <1>1 DEF Owns
  <2> QED
    BY <1>0, <1>1, <2>1 DEF Handing, ShardPeers
<1>2. ASSUME NEW s \in Shards, Promote(s) PROVE Handing'
  <2> DEFINE q == mf[s]
  <2>1. q # NoPod /\ Takeover(s, q)
    BY <1>2 DEF Promote
  <2>2. q \in Pods /\ ShardOf[q] = s /\ phase[q] = "up"
    BY <2>1 DEF Handing
  <2> HIDE DEF q
  <2>3. /\ owner' = [owner EXCEPT ![s] = q] /\ role' = [role EXCEPT ![q] = "master"]
        /\ mf' = [mf EXCEPT ![s] = NoPod]
    BY <2>1 DEF Takeover
  <2>4. /\ \A x \in Shards : owner'[x] = IF x = s THEN q ELSE owner[x]
        /\ \A x \in Pods : role'[x] = IF x = q THEN "master" ELSE role[x]
        /\ \A x \in Shards : mf'[x] = IF x = s THEN NoPod ELSE mf[x]
    BY <2>2, <2>3 DEF TypeOK
  <2>5. \A x \in Pods : Owns(x)' <=> IF ShardOf[x] = s THEN x = q ELSE Owns(x)
    BY <2>4 DEF Owns
  <2>6. /\ op' \in {"send", "confirm"} => victim' \in cordon' /\ chosen' \in ShardPeers(victim')
        /\ \A x \in Pods : Owns(x)' => role'[x] = "master"
        /\ \A x \in Pods : phase'[x] = "send" => target'[x] \in ShardPeers(x)
    BY <1>0, <2>2, <2>4, <2>5 DEF Handing
  <2>7. \A x \in Shards : mf'[x] # NoPod =>
          /\ mf'[x] \in Pods /\ ShardOf[mf'[x]] = x /\ mf'[x] # owner'[x]
          /\ owner'[x] \in cordon' \/ phase'[owner'[x]] \in {"prepare", "poll"}
          /\ phase'[mf'[x]] = "up"
    BY <1>0, <2>4 DEF Handing
  <2>8. \A x \in Pods : phase'[x] \in {"role", "find"} /\ Owns(x)' =>
          \E y \in ShardPeers(x) : role'[y] = "slave"
    <3> SUFFICES ASSUME NEW x \in Pods, phase[x] \in {"role", "find"}, Owns(x)'
                 PROVE  \E y \in ShardPeers(x) : role'[y] = "slave"
      BY <1>0
    <3>1. x # q /\ ShardOf[x] # s /\ Owns(x)
      BY <2>2, <2>5
    <3>2. PICK y \in ShardPeers(x) : role[y] = "slave"
      BY <3>1 DEF Handing
    <3>3. y \in Pods /\ y # q
      BY <2>2, <3>1 DEF ShardPeers
    <3> QED
      BY <2>4, <3>2, <3>3
  <2>9. \A x \in Pods : phase'[x] \in {"exit", "down"} => ~Owns(x)'
    BY <1>0, <2>2, <2>5 DEF Handing
  <2> QED
    BY <2>6, <2>7, <2>8, <2>9 DEF Handing, ShardPeers
<1>3. ASSUME NEW s \in Shards, Abandon(s) PROVE Handing'
  <2>1. UNCHANGED <<owner, role>> /\ mf' = [mf EXCEPT ![s] = NoPod]
    BY <1>3 DEF Abandon
  <2>2. \A x \in Shards : mf'[x] # NoPod => mf'[x] = mf[x]
    BY <2>1 DEF TypeOK
  <2> QED
    BY <1>1, <2>1, <2>2
<1>4. ASSUME NEW p \in Pods, Demote(p) PROVE Handing'
  <2>1. ~Owns(p) /\ role' = [role EXCEPT ![p] = "slave"] /\ UNCHANGED <<owner, mf>>
    BY <1>4 DEF Demote
  <2>2. \A x \in Pods : role'[x] = (IF x = p THEN "slave" ELSE role[x]) /\ (Owns(x)' <=> Owns(x))
    BY <2>1 DEF TypeOK, Owns
  <2>3. /\ op' \in {"send", "confirm"} => victim' \in cordon' /\ chosen' \in ShardPeers(victim')
        /\ \A x \in Pods : Owns(x)' => role'[x] = "master"
        /\ \A x \in Pods : phase'[x] = "send" => target'[x] \in ShardPeers(x)
        /\ \A x \in Pods : phase'[x] \in {"exit", "down"} => ~Owns(x)'
    BY <1>0, <2>1, <2>2 DEF Handing
  <2>4. \A x \in Shards : mf'[x] # NoPod =>
          /\ mf'[x] \in Pods /\ ShardOf[mf'[x]] = x /\ mf'[x] # owner'[x]
          /\ owner'[x] \in cordon' \/ phase'[owner'[x]] \in {"prepare", "poll"}
          /\ phase'[mf'[x]] = "up"
    BY <1>0, <2>1 DEF Handing
  <2>5. \A x \in Pods : phase'[x] \in {"role", "find"} /\ Owns(x)' =>
          \E y \in ShardPeers(x) : role'[y] = "slave"
    BY <1>0, <2>2 DEF Handing, ShardPeers
  <2> QED
    BY <2>3, <2>4, <2>5 DEF Handing, ShardPeers
<1>5. ASSUME NEW q \in Pods, Elect(q) PROVE Handing'
  BY <1>5, OwnersRun DEF Elect
<1>6. ASSUME NEW p \in Pods, Replicate(p) \/ Suspect(p) \/ MarkFail(p) \/ Unflag(p) PROVE Handing'
  BY <1>1, <1>6 DEF Replicate, Suspect, MarkFail, Unflag
<1> QED
  BY <1>2, <1>3, <1>4, <1>5, <1>6 DEF Valkey

\* The operator starts a failover only from the primary it drains.
LEMMA HandingOperator ==
    ASSUME Calm, TypeOK, Aimed, OneDown, Handing, Operator
    PROVE  Handing'
<1> USE DEF hookVars, valkeyVars, kubeVars, opVars
<1>0. UNCHANGED <<phase, target, cordon, owner, role>>
  BY DEF Operator, SyncRoleLabels, DrainNothing, DrainFailover, SendFailover, ConfirmFailover
<1>1. \A x \in Pods : Owns(x)' <=> Owns(x)
  BY <1>0 DEF Owns
<1>2. ASSUME \A s \in Shards : mf'[s] # NoPod =>
                /\ mf'[s] \in Pods /\ ShardOf[mf'[s]] = s /\ mf'[s] # owner[s]
                /\ owner[s] \in cordon \/ phase[owner[s]] \in {"prepare", "poll"}
                /\ phase[mf'[s]] = "up",
             op' \in {"send", "confirm"} => victim' \in cordon /\ chosen' \in ShardPeers(victim')
      PROVE  Handing'
  BY <1>0, <1>1, <1>2 DEF Handing, ShardPeers
<1>3. CASE SyncRoleLabels \/ DrainNothing \/ ConfirmFailover
  <2>1. UNCHANGED mf /\ op' \notin {"send", "confirm"}
    BY <1>3 DEF SyncRoleLabels, DrainNothing, ConfirmFailover, PassEnds
  <2> QED
    BY <1>2, <2>1 DEF Handing
<1>4. CASE DrainFailover
  <2>1. UNCHANGED mf /\ victim' \in cordon /\ chosen' \in ShardPeers(victim')
    BY <1>4 DEF DrainFailover, BestReplicas, ReplicaPods, ToMove
  <2> QED
    BY <1>2, <2>1 DEF Handing
<1>5. CASE SendFailover
  <2>1. op = "send" /\ victim \in cordon /\ chosen \in ShardPeers(victim) /\ victim \in Pods
    BY <1>5 DEF SendFailover, Handing, Aimed
  <2>2. CASE op' = "confirm" /\ ClusterFailover(chosen) /\ UNCHANGED <<victim, chosen>>
             /\ role[chosen] = "slave" /\ Runs(chosen)
    <3>1. /\ chosen \in Pods /\ chosen # victim /\ ShardOf[chosen] = ShardOf[victim]
          /\ owner[ShardOf[chosen]] \in {victim, chosen}
      BY <2>1, TwoPods
    <3>2. owner[ShardOf[chosen]] = victim
      BY <2>2, <3>1 DEF Handing, Owns
    <3>3. phase[chosen] = "up"
      BY <2>1, <3>1 DEF OneDown
    <3>4. \A s \in Shards : mf'[s] = mf[s] \/ (s = ShardOf[chosen] /\ mf'[s] = chosen)
      <4>1. mf' = mf \/ mf' = [mf EXCEPT ![ShardOf[chosen]] = chosen]
        BY <2>2 DEF ClusterFailover
      <4>2. mf \in [Shards -> Pods \cup {NoPod}]
        BY DEF TypeOK
      <4>3. CASE mf' = mf
        BY <4>3
      <4>4. CASE mf' = [mf EXCEPT ![ShardOf[chosen]] = chosen]
        BY <4>2, <4>4
      <4> QED
        BY <4>1, <4>3, <4>4
    <3>5. \A s \in Shards : mf'[s] # NoPod =>
                /\ mf'[s] \in Pods /\ ShardOf[mf'[s]] = s /\ mf'[s] # owner[s]
                /\ owner[s] \in cordon \/ phase[owner[s]] \in {"prepare", "poll"}
                /\ phase[mf'[s]] = "up"
      BY <2>1, <3>1, <3>2, <3>3, <3>4 DEF Handing
    <3> QED
      BY <1>2, <2>1, <2>2, <3>5
  <2>3. CASE PassEnds /\ UNCHANGED mf
    BY <1>2, <2>3 DEF PassEnds, Handing
  <2> QED
    BY <1>5, <2>2, <2>3 DEF SendFailover
<1> QED
  BY <1>3, <1>4, <1>5 DEF Operator

LEMMA FaultsKept ==
    ASSUME [Next]_vars, ~Unplanned PROVE faults' = faults
<1> USE DEF hookVars, valkeyVars, kubeVars, opVars
<1>1. CASE \E p \in Pods : PreStop(p) \/ Probe(p) \/ Update(p) \/ Cordon(p) \/ Evict(p) \/ Start(p)
  BY <1>1 DEF PreStop, HookSafe, HookRoleReplica, HookRolePrimary, HookFind, HookFindNone,
     HookSend, HookPrepare, HookPoll, Terminate, Probe, Update, Cordon, Evict, Start
<1>2. CASE Valkey
  BY <1>2 DEF Valkey, Promote, Abandon, Takeover, Replicate, Demote, Suspect, MarkFail, Unflag, Elect
<1> QED
  BY <1>1, <1>2 DEF Next, vars, Write, NewRevision, Operator, SyncRoleLabels, DrainNothing,
     DrainFailover, SendFailover, ConfirmFailover

LEMMA UndisturbedStep ==
    ASSUME Calm, TypeOK, Aimed, Undisturbed, [Next]_vars
    PROVE  Undisturbed'
<1> SUFFICES ASSUME faults' = 0 PROVE OneDown' /\ Handing'
  BY DEF Undisturbed
<1> USE DEF hookVars, valkeyVars, kubeVars, opVars
<1>1. ~Unplanned
  BY NoFault
<1>2. faults = 0
  BY <1>1, FaultsKept
<1>3. OneDown /\ Handing
  BY <1>2 DEF Undisturbed
<1>4. OneDown'
  BY <1>3, OneDownStep
<1>5. CASE UNCHANGED <<phase, target, cordon, owner, role, mf, op, victim, chosen>>
  BY <1>3, <1>4, <1>5 DEF Handing, Owns, ShardPeers
<1>6. CASE \/ UNCHANGED vars \/ NewRevision \/ (\E p \in Pods : Probe(p)) \/ \E s \in Shards : Write(s)
  BY <1>5, <1>6 DEF vars, NewRevision, Probe, Write
<1>7. ASSUME NEW p \in Pods, PreStop(p) PROVE Handing'
  BY <1>3, <1>7, HandingHook
<1>8. ASSUME NEW p \in Pods, Update(p) \/ Evict(p) \/ Cordon(p) \/ Start(p) PROVE Handing'
  BY <1>3, <1>4, <1>8, HandingKube
<1> QED
  BY <1>1, <1>3, <1>4, <1>6, <1>7, <1>8, HandingValkey, HandingOperator DEF Next

LEMMA UndisturbedInit == Init => Undisturbed
<1> SUFFICES ASSUME Init PROVE OneDown /\ Handing
  BY DEF Undisturbed
<1>1. /\ \A p \in Pods : phase[p] = "up" /\ role[p] = (IF Owns(p) THEN "master" ELSE "slave")
      /\ cordon = {} /\ Flagged = {} /\ new = Pods /\ ready = Pods /\ op = "idle"
      /\ \A s \in Shards : mf[s] = NoPod
  BY DEF Init, Flagged, Owns
<1>2. OneDown
  BY <1>1, "up" # "down" DEF OneDown, Higher
<1>3. Handing
  BY <1>1 DEF Handing
<1> QED
  BY <1>2, <1>3

-----------------------------------------------------------------------------
\* Replacing pods neither changes the log of a shard nor stops it, but for a write.
LEMMA LogStep ==
    ASSUME Calm, TypeOK, Handing, [Next]_vars, ~Unplanned
    PROVE  \/ \A s \in Shards : off'[owner'[s]] = off[owner[s]]
           \/ \E s \in Shards : Write(s)
<1> USE DEF hookVars, valkeyVars, kubeVars, opVars
<1>1. CASE UNCHANGED <<off, owner>>
  BY <1>1
<1>2. ASSUME NEW s \in Shards, Promote(s)
      PROVE  \A x \in Shards : off'[owner'[x]] = off[owner[x]]
  <2>1. owner' = [owner EXCEPT ![s] = mf[s]] /\ off' = off /\ off[mf[s]] = off[owner[s]]
    BY <1>2 DEF Promote, Takeover
  <2> QED
    BY <2>1 DEF TypeOK
<1>3. ASSUME NEW q \in Pods, Replicate(q)
      PROVE  \A x \in Shards : off'[owner'[x]] = off[owner[x]]
  <2>1. /\ owner' = owner /\ owner[ShardOf[q]] # q
        /\ off' = off \/ off' = [off EXCEPT ![q] = off[owner[ShardOf[q]]]]
    BY <1>3 DEF Replicate
  <2>2. \A x \in Shards : owner[x] \in Pods /\ owner[x] # q
    BY <2>1 DEF TypeOK
  <2> QED
    BY <2>1, <2>2 DEF TypeOK
<1>4. \A q \in Pods : ~Elect(q)
  BY OwnersRun DEF Elect
<1>5. CASE \E p \in Pods : PreStop(p) \/ Probe(p) \/ Update(p) \/ Cordon(p) \/ Evict(p) \/ Start(p)
  <2>1. ASSUME NEW p \in Pods, PreStop(p) PROVE UNCHANGED <<off, owner>>
    <3>1. CASE HookSafe(p) \/ HookRoleReplica(p) \/ HookRolePrimary(p) \/ HookFind(p) \/ HookFindNone(p)
      BY <3>1 DEF HookSafe, HookRoleReplica, HookRolePrimary, HookFind, HookFindNone
    <3>2. CASE HookSend(p) \/ HookPrepare(p) \/ HookPoll(p) \/ Terminate(p)
      BY <3>2 DEF HookSend, HookPrepare, HookPoll, Terminate, Down
    <3> QED
      BY <2>1, <3>1, <3>2 DEF PreStop
  <2>2. ASSUME NEW p \in Pods, Probe(p) \/ Update(p) \/ Cordon(p) \/ Evict(p) \/ Start(p)
        PROVE  UNCHANGED <<off, owner>>
    BY <2>2 DEF Probe, Update, Cordon, Evict, Start
  <2> QED
    BY <1>1, <1>5, <2>1, <2>2
<1>6. CASE NewRevision \/ Operator \/ UNCHANGED vars
  <2>1. CASE NewRevision \/ UNCHANGED vars
    BY <1>1, <2>1 DEF NewRevision, vars
  <2>2. ASSUME Operator PROVE UNCHANGED <<off, owner>>
    BY <2>2 DEF Operator, SyncRoleLabels, DrainNothing, DrainFailover, SendFailover, ConfirmFailover
  <2> QED
    BY <1>1, <1>6, <2>1, <2>2
<1>7. CASE Valkey
  <2>1. CASE \/ \E s \in Shards : Abandon(s)
             \/ \E p \in Pods : Demote(p) \/ Suspect(p) \/ MarkFail(p) \/ Unflag(p)
    BY <1>1, <2>1 DEF Abandon, Demote, Suspect, MarkFail, Unflag
  <2> QED
    BY <1>2, <1>3, <1>4, <1>7, <2>1 DEF Valkey
<1> QED
  BY <1>5, <1>6, <1>7 DEF Next

LEMMA KeptStep ==
    ASSUME Calm, TypeOK, TypeOK', Undisturbed, Undisturbed', [Next]_vars
    PROVE  [Kept!Next]_(Kept!vars)
<1> DEFINE log == [s \in Shards |-> off[owner[s]]]
           served == {s \in Shards : Runs(owner[s])}
           disturbed == IF faults > 0 THEN 1 ELSE 0
<1>1. log \in [Shards -> Nat] /\ log' \in [Shards -> Nat] /\ served' \in SUBSET Shards
  <2>1. \A s \in Shards : off[owner[s]] \in Nat
    <3>1. owner \in [Shards -> Pods] /\ off \in [Pods -> 0 .. MaxWrites]
      BY Zenon DEF TypeOK
    <3> QED
      BY <3>1
  <2>2. \A s \in Shards : off'[owner'[s]] \in Nat
    <3>1. owner' \in [Shards -> Pods] /\ off' \in [Pods -> 0 .. MaxWrites]
      BY Zenon DEF TypeOK
    <3> QED
      BY <3>1
  <2> QED
    BY <2>1, <2>2
<1>2. CASE faults' # 0
  <2>1. disturbed' = 1
    BY <1>2 DEF TypeOK
  <2> QED
    BY <1>1, <2>1 DEF Kept!Next, Kept!Disturb
<1>3. CASE faults' = 0
  <2>1. ~Unplanned
    BY <1>3, NoFault
  <2>2. faults = 0
    BY <1>3, <2>1, FaultsKept
  <2>3. Handing /\ Handing'
    BY <1>3, <2>2 DEF Undisturbed
  <2>4. disturbed = 0 /\ disturbed' = 0
    BY <1>3, <2>2
  <2>5. served = Shards
    BY <2>3, OwnersRun
  <2>6. served' = Shards
    <3>1. \A s \in Shards : owner'[s] \in Pods /\ owner'[ShardOf[owner'[s]]] = owner'[s]
      BY DEF TypeOK
    <3>2. \A s \in Shards : phase'[owner'[s]] # "down"
      BY <2>3, <3>1 DEF Handing, Owns
    <3> QED
      BY <3>2 DEF Runs
  <2>7. CASE \A s \in Shards : off'[owner'[s]] = off[owner[s]]
    <3>1. log' = log
      BY <2>7
    <3> QED
      BY <2>4, <2>5, <2>6, <3>1 DEF Kept!vars
  <2>8. ASSUME NEW s \in Shards, Write(s) PROVE Kept!Acknowledge(s)
    <3>1. owner' = owner /\ off' = [off EXCEPT ![owner[s]] = @ + 1]
      BY <2>8 DEF Write
    <3>2. \A x \in Shards : off'[owner'[x]] = IF x = s THEN off[owner[s]] + 1 ELSE off[owner[x]]
      BY <3>1 DEF TypeOK
    <3>3. log' = [log EXCEPT ![s] = log[s] + 1]
      BY <3>2
    <3> QED
      BY <2>4, <2>5, <2>6, <3>3 DEF Kept!Acknowledge
  <2> QED
    BY <2>1, <2>3, <2>7, <2>8, LogStep DEF Kept!Next
<1> QED
  BY <1>2, <1>3

\* For every cluster of shards with at most one replica each, replaced one pod
\* after another: until a crash or a hook that runs out of time, no acknowledged
\* write is lost and every shard has a running primary.
THEOREM Refinement ==
    ASSUME Calm PROVE Spec => PromiseKept
<1>1. Init => Kept!Init
  <2> SUFFICES ASSUME Init PROVE Kept!Init
    OBVIOUS
  <2>1. TypeOK /\ Undisturbed /\ faults = 0
    BY InitType, UndisturbedInit DEF Init
  <2>2. \A s \in Shards : Runs(owner[s])
    BY <2>1, OwnersRun DEF Undisturbed
  <2> QED
    BY <2>1, <2>2 DEF Kept!Init, TypeOK
<1>2. TypeOK /\ Aimed /\ Undisturbed /\ [Next]_vars
      => TypeOK' /\ Aimed' /\ Undisturbed' /\ [Kept!Next]_(Kept!vars)
  BY TypeStep, UndisturbedStep, KeptStep
<1> QED
  BY <1>1, <1>2, InitType, UndisturbedInit, PTL DEF Spec, PromiseKept, Kept!Spec
==============================================================================
