--------------------------- MODULE HandoverProofs ----------------------------
(* The inductive invariant of RollingUpdate: while nothing unplanned happens,  *)
(* one pod at a time is replaced, and a primary hands over before it goes. The *)
(* steps of the PreStop hook keep it.                                          *)
EXTENDS RollingUpdateProofs, FiniteSetTheorems

USE PodsAssumption

\* The failover half: an owner is a master; a manual failover is under way only
\* while the owner is to be drained or waits in its hook, and never to a pod that
\* stops; a hook that has a replica to hand over to does not end before it has.
Handing ==
    /\ op \in {"send", "confirm"} => victim \in cordon /\ chosen \in ShardPeers(victim)
    /\ \A p \in Pods : Owns(p) => role[p] = "master"
    /\ \A s \in Shards : mf[s] # NoPod =>
          /\ mf[s] \in Pods /\ ShardOf[mf[s]] = s /\ mf[s] # owner[s]
          /\ owner[s] \in cordon \/ phase[owner[s]] \in {"prepare", "poll"}
          /\ phase[mf[s]] = "up"
    /\ \A p \in Pods : phase[p] = "send" => target[p] \in ShardPeers(p)
    /\ \A p \in Pods : phase[p] \in {"role", "find"} /\ Owns(p) =>
          \E q \in ShardPeers(p) : role[q] = "slave"
    /\ \A p \in Pods : phase[p] \in {"exit", "down"} => ~Owns(p)

\* The inductive invariant.
Undisturbed == faults = 0 => OneDown /\ Handing

-----------------------------------------------------------------------------
\* With at most one replica in a shard, the owner is one of the two pods.
LEMMA TwoPods ==
    ASSUME Calm, TypeOK, NEW p \in Pods, NEW q \in ShardPeers(p)
    PROVE  /\ q \in Pods /\ q # p /\ ShardOf[q] = ShardOf[p] /\ p \in ShardPeers(q)
           /\ owner[ShardOf[p]] \in {p, q}
<1>1. q \in Pods /\ q # p /\ ShardOf[q] = ShardOf[p] /\ p \in ShardPeers(q)
  BY DEF ShardPeers
<1>2. owner[ShardOf[p]] \in Pods /\ ShardOf[owner[ShardOf[p]]] = ShardOf[p]
  BY DEF TypeOK
<1>3. owner[ShardOf[p]] = p \/ owner[ShardOf[p]] \in ShardPeers(p)
  BY <1>2 DEF ShardPeers
<1>4. \A x, y, z \in Pods : y \in ShardPeers(x) /\ z \in ShardPeers(x) => y = z
  BY Zenon DEF Calm
<1> QED
  BY <1>1, <1>2, <1>3, <1>4

\* A pod owns the slots of its own shard and of no other.
LEMMA OwnerFacts ==
    ASSUME TypeOK, NEW s \in Shards
    PROVE  owner[s] \in Pods /\ ShardOf[owner[s]] = s /\ Owns(owner[s])
BY DEF TypeOK, Owns

\* While the shards are undisturbed every owner runs.
LEMMA OwnersRun ==
    ASSUME TypeOK, Handing, NEW s \in Shards
    PROVE  Runs(owner[s])
BY OwnerFacts DEF Handing, Runs

\* CLUSTER.SAFE lets a primary go only if it has a replica.
LEMMA SafeHasReplica ==
    ASSUME TypeOK, NEW p \in Pods, role[p] = "master", ClusterSafe(Says(p))
    PROVE  \E q \in ShardPeers(p) : role[q] = "slave"
<1>1. Says(p).info = [role |-> "master", connected_slaves |-> Cardinality(Replicas(p)),
                      master_repl_offset |-> Offset(off[p])]
  BY DEF Says, Info
<1>2. Role(Says(p)) = "master" /\ FieldLL(Says(p).info, "connected_slaves") = Cardinality(Replicas(p))
  BY <1>1 DEF Role, FieldStr, FieldLL
<1>3. Cardinality(Replicas(p)) > 0
  BY Zenon, <1>2 DEF ClusterSafe
<1>4. Replicas(p) # {}
  <2>1. Cardinality({}) = 0
    BY FS_EmptySet
  <2>2. ~(Cardinality({}) > 0)
    BY <2>1
  <2> QED
    BY <1>3, <2>2, Zenon
<1> QED
  BY <1>4 DEF Replicas

\* A replica that is not flagged is a candidate of its primary's hook.
LEMMA CandidateFacts ==
    ASSUME TypeOK, NEW p \in Pods
    PROVE  /\ \A q \in ShardPeers(p) : role[q] = "slave" /\ Owns(p) /\ q \notin Flagged
                                       => q \in Candidates(p)
           /\ \A q \in Candidates(p) : role[q] = "slave" /\ owner[ShardOf[q]] = p
<1>1. \A q : Line(p, q).id = q /\ Line(p, q).flags = {role[q]} \cup (IF p = q THEN {"myself"} ELSE {})
               \cup (IF q \in fail THEN {"fail"} ELSE IF q \in pfail THEN {"fail?"} ELSE {})
  BY DEF Line
<1>2. Says(p).nodes = [i \in DOMAIN PodSeq |-> Line(p, PodSeq[i])]
  BY DEF Says
<1>3. ASSUME NEW q \in ShardPeers(p), role[q] = "slave", Owns(p), q \notin Flagged
      PROVE  q \in Candidates(p)
  <2>1. PICK i \in DOMAIN PodSeq : PodSeq[i] = q
    BY DEF ShardPeers, Pods
  <2>2. Line(p, q).flags = {"slave"}
    BY <1>1, <1>3 DEF Flagged, ShardPeers
  <2>3. Line(p, q).master = p /\ ~Failing(Line(p, q)) /\ q \in Pods
    BY <1>3, <2>2 DEF Line, Failing, Owns, ShardPeers
  <2>4. i \in DOMAIN Says(p).nodes /\ Says(p).nodes[i] = Line(p, q)
    BY <1>2, <2>1
  <2> QED
    BY <1>1, <2>2, <2>3, <2>4 DEF Candidates
<1>4. ASSUME NEW q \in Candidates(p) PROVE role[q] = "slave" /\ owner[ShardOf[q]] = p
  <2>1. PICK i \in DOMAIN PodSeq :
           LET l == Line(p, PodSeq[i]) IN l.id = q /\ "slave" \in l.flags /\ l.master = p
    BY <1>2 DEF Candidates
  <2>2. PodSeq[i] = q /\ "slave" \in Line(p, q).flags /\ Line(p, q).master = p
    BY <1>1, <2>1
  <2>3. role[q] = "slave"
    BY <1>1, <2>2
  <2> QED
    BY <2>2, <2>3 DEF Line
<1> QED
  BY <1>3, <1>4

\* The hook of a stopping pod hands over before it ends.
LEMMA HandingHook ==
    ASSUME Calm, TypeOK, Aimed, OneDown, Handing, NEW p \in Pods, PreStop(p)
    PROVE  Handing'
<1> USE DEF hookVars, valkeyVars, kubeVars, opVars, Hook
<1>0. /\ phase \in [Pods -> {"up", "down"} \cup Phases]
      /\ phase[p] # "up" /\ UNCHANGED cordon
      /\ \A s \in Shards : owner[s] \in Pods /\ ShardOf[owner[s]] = s /\ (owner[s] = p => Owns(p))
  <2>1. phase[p] \in Phases /\ UNCHANGED cordon
    BY HookPhase
  <2>2. \A s \in Shards : owner[s] \in Pods /\ ShardOf[owner[s]] = s /\ Owns(owner[s])
    BY OwnerFacts
  <2> QED
    BY SMTT(30), <2>1, <2>2 DEF TypeOK, Phases
\* a step of the hook that only moves it on
<1>1. ASSUME NEW to \in Phases, phase' = [phase EXCEPT ![p] = to],
             UNCHANGED <<role, owner, mf, op, victim, chosen>>,
             \A x \in Pods \ {p} : target'[x] = target[x],
             to = "send" => target'[p] \in ShardPeers(p),
             to \in {"role", "find"} /\ Owns(p) => \E q \in ShardPeers(p) : role[q] = "slave",
             to = "exit" => ~Owns(p),
             phase[p] \in {"prepare", "poll"} /\ Owns(p) => to \in {"prepare", "poll"}
      PROVE  Handing'
  <2>1. \A x \in Pods : phase'[x] = IF x = p THEN to ELSE phase[x]
    BY <1>0, <1>1
  <2>2. \A x \in Pods : Owns(x)' <=> Owns(x)
    BY <1>1 DEF Owns
  <2>3. \A s \in Shards : mf'[s] # NoPod =>
          /\ mf'[s] \in Pods /\ ShardOf[mf'[s]] = s /\ mf'[s] # owner'[s]
          /\ owner'[s] \in cordon' \/ phase'[owner'[s]] \in {"prepare", "poll"}
          /\ phase'[mf'[s]] = "up"
    BY SMTT(30), <1>0, <1>1, <2>1 DEF Handing
  <2>4. \A x \in Pods : phase'[x] = "send" => target'[x] \in ShardPeers(x)
    BY <1>1, <2>1 DEF Handing
  <2>5. \A x \in Pods : phase'[x] \in {"role", "find"} /\ Owns(x)' =>
          \E q \in ShardPeers(x) : role'[q] = "slave"
    BY <1>1, <2>1, <2>2 DEF Handing
  <2>6. \A x \in Pods : phase'[x] \in {"exit", "down"} => ~Owns(x)'
    BY <1>1, <2>1, <2>2 DEF Handing, Phases
  <2>7. op' \in {"send", "confirm"} => victim' \in cordon' /\ chosen' \in ShardPeers(victim')
    BY <1>0, <1>1 DEF Handing
  <2>8. \A x \in Pods : Owns(x)' => role'[x] = "master"
    BY <1>1, <2>2 DEF Handing
  <2> QED
    BY <2>3, <2>4, <2>5, <2>6, <2>7, <2>8 DEF Handing, ShardPeers
<1>2. CASE HookSafe(p)
  <2>1. Owns(p) => \E q \in ShardPeers(p) : role[q] = "slave"
    BY SMTT(30), <1>2, SafeHasReplica DEF HookSafe, Handing
  <2> QED
    BY <1>1, <1>2, <2>1 DEF HookSafe, Phases
<1>3. CASE HookRoleReplica(p) \/ HookRolePrimary(p)
  BY SMTT(30), <1>1, <1>3 DEF HookRoleReplica, HookRolePrimary, Phases, Handing
<1>4. CASE HookFind(p)
  <2>1. PICK q \in Candidates(p) : target' = [target EXCEPT ![p] = q]
    BY Zenon, <1>4 DEF HookFind
  <2>2. q \in Pods /\ role[q] = "slave" /\ owner[ShardOf[q]] = p
    BY CandidateFacts DEF Candidates
  <2>3. Owns(p) /\ ShardOf[q] = ShardOf[p]
    BY <1>0, <2>2
  <2>4. q \in ShardPeers(p)
    BY <2>2, <2>3 DEF Handing, ShardPeers
  <2>5. target'[p] = q /\ \A x \in Pods \ {p} : target'[x] = target[x]
    BY <2>1 DEF TypeOK
  <2> QED
    BY <1>1, <1>4, <2>4, <2>5 DEF HookFind, Phases
<1>5. CASE HookFindNone(p)
  <2>1. phase[p] = "find" /\ Candidates(p) = {}
    BY <1>5 DEF HookFindNone
  <2>2. \A q \in ShardPeers(p) : q \notin Flagged
    BY <1>0 DEF OneDown, ShardPeers
  <2>3. ~Owns(p)
    BY <2>1, <2>2, CandidateFacts DEF Handing
  <2> QED
    BY <1>1, <1>5, <2>3 DEF HookFindNone, Phases
<1>6. CASE HookPrepare(p)
  BY <1>1, <1>6 DEF HookPrepare, Phases
<1>7. CASE HookPoll(p)
  <2>1. ~Owns(p)
    BY <1>7 DEF HookPoll, Handing
  <2> QED
    BY <1>1, <1>7, <2>1 DEF HookPoll, Phases
<1>8. CASE HookSend(p)
  <2> DEFINE q == target[p]
  <2>1. /\ phase[p] = "send" /\ phase' = [phase EXCEPT ![p] = "prepare"] /\ ClusterFailover(q)
        /\ UNCHANGED <<target, role, owner, op, victim, chosen, cordon>>
    BY <1>8 DEF HookSend
  <2>2. q \in ShardPeers(p)
    BY <2>1 DEF Handing
  <2>3. q \in Pods /\ q # p /\ ShardOf[q] = ShardOf[p] /\ owner[ShardOf[p]] \in {p, q}
    BY <2>2, TwoPods
  <2> HIDE DEF q
  <2>4. \A x \in Pods : phase'[x] = IF x = p THEN "prepare" ELSE phase[x]
    BY <1>0, <2>1
  <2>5. mf' = mf \/ (mf' = [mf EXCEPT ![ShardOf[p]] = q] /\ role[q] = "slave")
    BY <2>1, <2>3 DEF ClusterFailover
  <2>6. phase[q] = "up"
    BY <1>0, <2>3 DEF OneDown
  <2>7. role[q] = "slave" => owner[ShardOf[p]] = p
    BY <2>3 DEF Handing, Owns
  <2>8. ASSUME NEW s \in Shards, mf'[s] # NoPod
        PROVE  /\ mf'[s] \in Pods /\ ShardOf[mf'[s]] = s /\ mf'[s] # owner'[s]
               /\ owner'[s] \in cordon' \/ phase'[owner'[s]] \in {"prepare", "poll"}
               /\ phase'[mf'[s]] = "up"
    <3>1. CASE mf'[s] = mf[s]
      BY SMTT(30), <1>0, <2>1, <2>4, <2>8, <3>1 DEF Handing
    <3>2. CASE mf'[s] # mf[s]
      <4>1. s = ShardOf[p] /\ mf'[s] = q /\ role[q] = "slave"
        BY <2>5, <3>2 DEF TypeOK
      <4> QED
        BY <2>1, <2>3, <2>4, <2>6, <2>7, <4>1
    <3> QED
      BY <3>1, <3>2
  <2>9. \A x \in Pods : Owns(x)' <=> Owns(x)
    BY SMTT(30), <2>1 DEF Owns
  <2>10. /\ op' \in {"send", "confirm"} => victim' \in cordon' /\ chosen' \in ShardPeers(victim')
         /\ \A x \in Pods : Owns(x)' => role'[x] = "master"
         /\ \A x \in Pods : phase'[x] = "send" => target'[x] \in ShardPeers(x)
    BY <2>1, <2>4, <2>9 DEF Handing
  <2>11. /\ \A x \in Pods : phase'[x] \in {"role", "find"} /\ Owns(x)' =>
              \E y \in ShardPeers(x) : role'[y] = "slave"
         /\ \A x \in Pods : phase'[x] \in {"exit", "down"} => ~Owns(x)'
    BY SMTT(30), <2>1, <2>4, <2>9 DEF Handing
  <2> QED
    BY <2>8, <2>10, <2>11 DEF Handing, ShardPeers
<1>9. CASE Terminate(p)
  <2>1. /\ phase[p] = "exit" /\ phase' = [phase EXCEPT ![p] = "down"]
        /\ target' = [target EXCEPT ![p] = NoPod]
        /\ UNCHANGED <<role, owner, op, victim, chosen, cordon>>
    BY <1>9 DEF Terminate, Down
  <2>2. \A s \in Shards : mf'[s] # NoPod => mf'[s] = mf[s]
    BY SMTT(30), <1>9 DEF Terminate, Down, TypeOK
  <2>3. ~Owns(p)
    BY <2>1 DEF Handing
  <2>4. \A x \in Pods : /\ phase'[x] = IF x = p THEN "down" ELSE phase[x]
                        /\ x # p => target'[x] = target[x]
    BY <1>0, <2>1 DEF TypeOK
  <2>5. \A x \in Pods : Owns(x)' <=> Owns(x)
    BY <2>1 DEF Owns
  <2>6. \A s \in Shards : mf'[s] # NoPod =>
          /\ mf'[s] \in Pods /\ ShardOf[mf'[s]] = s /\ mf'[s] # owner'[s]
          /\ owner'[s] \in cordon' \/ phase'[owner'[s]] \in {"prepare", "poll"}
          /\ phase'[mf'[s]] = "up"
    BY SMTT(30), <1>0, <2>1, <2>2, <2>3, <2>4 DEF Handing
  <2>7. /\ op' \in {"send", "confirm"} => victim' \in cordon' /\ chosen' \in ShardPeers(victim')
        /\ \A x \in Pods : Owns(x)' => role'[x] = "master"
        /\ \A x \in Pods : phase'[x] = "send" => target'[x] \in ShardPeers(x)
    BY SMTT(30), <2>1, <2>4, <2>5 DEF Handing
  <2>8. /\ \A x \in Pods : phase'[x] \in {"role", "find"} /\ Owns(x)' =>
             \E y \in ShardPeers(x) : role'[y] = "slave"
        /\ \A x \in Pods : phase'[x] \in {"exit", "down"} => ~Owns(x)'
    BY <2>1, <2>3, <2>4, <2>5 DEF Handing
  <2> QED
    BY SMTT(30), <2>6, <2>7, <2>8 DEF Handing, ShardPeers
<1> QED
  BY SMTT(30), <1>2, <1>3, <1>4, <1>5, <1>6, <1>7, <1>8, <1>9 DEF PreStop

-----------------------------------------------------------------------------
\* Every shard has a pod, and the pods are a sequence.
LEMMA ShardsFinite == IsFiniteSet(Shards)
<1> DEFINE n == Len(PodSeq)  f == [i \in 1 .. n |-> ShardOf[PodSeq[i]]]
<1>1. n \in Nat /\ DOMAIN PodSeq = 1 .. n /\ \A i \in 1 .. n : PodSeq[i] \in Pods
  OBVIOUS
<1>2. f \in [1 .. n -> Shards]
  BY <1>1
<1>3. ASSUME NEW s \in Shards PROVE \E i \in 1 .. n : f[i] = s
  <2>1. PICK i \in DOMAIN PodSeq : PodSeq[i] = First[s]
    BY DEF Pods
  <2> QED
    BY <1>1, <2>1
<1>4. f \in Surjection(1 .. n, Shards)
  BY <1>2, <1>3 DEF Surjection
<1>5. IsFiniteSet(1 .. n)
  BY <1>1, FS_Interval
<1> QED
  BY <1>4, <1>5, FS_Surjection

\* While masters own their slots, the masters that CLUSTER.SAFE counts are the
\* unsuspected primaries of different shards.
LEMMA CountedShards ==
    ASSUME TypeOK, \A q \in Pods : role[q] = "master" => Owns(q),
           NEW p \in Pods, role[p] = "master"
    PROVE  /\ Cardinality(HealthyOtherPrimaries(Says(p))) \in Nat
           /\ Cardinality(HealthyOtherPrimaries(Says(p)))
                <= Cardinality({s \in Shards \ {ShardOf[p]} : owner[s] \notin pfail \cup fail})
<1> DEFINE H == HealthyOtherPrimaries(Says(p))
           G == {s \in Shards \ {ShardOf[p]} : owner[s] \notin pfail \cup fail}
           f == [i \in H |-> ShardOf[PodSeq[i]]]
<1>1. /\ Says(p).nodes = [i \in DOMAIN PodSeq |-> Line(p, PodSeq[i])]
      /\ \A q : Line(p, q).flags = {role[q]} \cup (IF p = q THEN {"myself"} ELSE {})
               \cup (IF q \in fail THEN {"fail"} ELSE IF q \in pfail THEN {"fail?"} ELSE {})
  BY DEF Says, Line
<1>2. ASSUME NEW i \in H
      PROVE  /\ i \in DOMAIN PodSeq /\ PodSeq[i] \in Pods /\ PodSeq[i] # p
             /\ owner[ShardOf[PodSeq[i]]] = PodSeq[i] /\ PodSeq[i] \notin pfail \cup fail
  <2>1. /\ i \in DOMAIN PodSeq /\ "myself" \notin Line(p, PodSeq[i]).flags
        /\ "master" \in Line(p, PodSeq[i]).flags /\ ~Failing(Line(p, PodSeq[i]))
    BY <1>1 DEF HealthyOtherPrimaries
  <2>2. PodSeq[i] \in Pods /\ PodSeq[i] # p
    BY <1>1, <2>1 DEF Pods
  <2>3. role[PodSeq[i]] = "master"
    BY <1>1, <2>1
  <2>4. PodSeq[i] \notin pfail \cup fail
    BY ZenonT(30), <1>1, <2>1 DEF Failing
  <2> QED
    BY <2>1, <2>2, <2>3, <2>4 DEF Owns
<1>3. \A i \in H : ShardOf[PodSeq[i]] \in G
  <2> SUFFICES ASSUME NEW i \in H PROVE ShardOf[PodSeq[i]] \in G
    OBVIOUS
  <2>1. owner[ShardOf[p]] = p
    BY DEF Owns
  <2> HIDE DEF H
  <2> QED
    BY <1>2, <2>1
<1>4. \A i, j \in H : ShardOf[PodSeq[i]] = ShardOf[PodSeq[j]] => i = j
  <2> HIDE DEF H
  <2> QED
    BY <1>2, DistinctAssumption
<1>5. f \in Injection(H, G)
  <2> HIDE DEF H, G
  <2> QED
    BY <1>3, <1>4 DEF Injection, IsInjective
<1>6. IsFiniteSet(G)
  BY ShardsFinite, FS_Subset
<1> HIDE DEF H, G, f
<1>7. IsFiniteSet(H) /\ Cardinality(H) <= Cardinality(G)
  BY <1>5, <1>6, FS_Injection
<1>8. Cardinality(H) \in Nat
  BY <1>7, FS_CardinalityType
<1> QED
  BY SMTT(30), <1>7, <1>8 DEF H, G

\* Whatever happens to the pods, a primary that CLUSTER.SAFE lets go leaves a
\* majority of up to three shards with an unsuspected primary. Two other
\* primaries are no majority of four shards: the bound is that of the code.
THEOREM MajorityKept ==
    ASSUME Cardinality(Shards) <= 3 PROVE Spec => []SafeKeepsMajority
<1>1. TypeOK => SafeKeepsMajority
  <2> SUFFICES ASSUME TypeOK, \A q \in Pods : role[q] = "master" => Owns(q),
                      NEW p \in Pods, role[p] = "master", ClusterSafe(Says(p))
               PROVE  Majority({s \in Shards \ {ShardOf[p]} : owner[s] \notin pfail \cup fail})
    BY SMTT(30) DEF SafeKeepsMajority
  <2> DEFINE G == {s \in Shards \ {ShardOf[p]} : owner[s] \notin pfail \cup fail}
  <2>1. Role(Says(p)) = "master"
    BY DEF Says, Info, Role, FieldStr
  <2>2. Cardinality(HealthyOtherPrimaries(Says(p))) >= 2
    BY ZenonT(30), <2>1 DEF ClusterSafe
  <2>3. /\ Cardinality(HealthyOtherPrimaries(Says(p))) \in Nat
        /\ Cardinality(HealthyOtherPrimaries(Says(p))) <= Cardinality(G)
    BY CountedShards
  <2>4. IsFiniteSet(G) /\ Cardinality(Shards) \in Nat
    BY ShardsFinite, FS_Subset, FS_CardinalityType
  <2>5. Cardinality(G) \in Nat
    BY <2>4, FS_CardinalityType
  <2> HIDE DEF G
  <2>6. 2 * Cardinality(G) > Cardinality(Shards)
    BY <2>2, <2>3, <2>4, <2>5
  <2> QED
    BY <2>6 DEF Majority, G
<1> QED
  BY <1>1, TypeCorrect, PTL
==============================================================================
