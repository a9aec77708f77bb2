---------------------------- MODULE ReplicaRepair ----------------------------
(***************************************************************************)
(* How a replica that was lost becomes a replica again. Three parts of a   *)
(* pass work together: the health check raises ShardUnderReplicated and    *)
(* forgets nodes that are gone (health.go), reconcileReplicaRoles turns    *)
(* masters without slots into replicas, and reconcileOrphanReplicas makes  *)
(* standalone pods join (repair.go). Each reads CLUSTER NODES from the     *)
(* first Ready pod of a list in random order, and the pods' tables agree   *)
(* only after gossip. The health check reads CLUSTER NODES first and the   *)
(* pods it compares it with later. Primaries keep running here (see        *)
(* RollingUpdate); the operator's orders are carried out by TOPOLOGY.SET   *)
(* (NodeCommands).                                                         *)
(***************************************************************************)
EXTENDS NodeCommands

CONSTANTS
    PodSeq,           \* all pods
    Primaries,        \* those that own slots
    Home,             \* the primary each replica has at the start
    ReplicasPerShard,
    MayStop,          \* which replicas stop and how: pairs of a replica and
                      \* "crash", "evict" or "lose"
    MaxStops,         \* bound on stops
    MaxFaults         \* bound on API writes that fail

Pods == {PodSeq[i] : i \in DOMAIN PodSeq}
Replicas == Pods \ Primaries

ASSUME RepairAssumption ==
    /\ PodSeq \in Seq(Pods) /\ Primaries \subseteq Pods
    /\ Pods \cap {"none", "bare", "slots", "gone"} = {}
    /\ Home \in [Replicas -> Primaries]
    /\ ReplicasPerShard \in Nat /\ MaxStops \in Nat /\ MaxFaults \in Nat

ASSUME NameAssumption == "" \notin Pods

\* a node's id is new whenever its volume was lost
Ids == Pods \X (0 .. MaxStops)
IdSeq == [i \in 1 .. Len(PodSeq) * (MaxStops + 1) |->
            <<PodSeq[1 + (i - 1) \div (MaxStops + 1)], (i - 1) % (MaxStops + 1)>>]

VARIABLES
    phase,    \* "up" (Ready), "joining" (running, not Ready), "start", or "gone"
              \* (terminating or not there)
    inc,      \* how often the pod's volume was lost
    view,     \* what each node's CLUSTER NODES says of an id: "none", "slots",
              \* "bare" (a master without slots) or the primary it replicates
    failing,  \* ids flagged fail
    moved,    \* ids listed with an address their pod no longer has
    met,      \* CLUSTER MEET under way
    cond,     \* ShardUnderReplicated in the pass's copy of the resource
    stored,   \* and as last written to the API
    ann,      \* stale-since annotations
    op, seed, todo, stale,   \* the pass
    raw,      \* a table it has read, and for the health check
    down,     \* the ids flagged fail in it, and
    old,      \* those whose address in it is not their pod's (any more)
    stops, faults

apiVars == <<stored, ann, faults>>
podVars == <<phase, inc, stops>>
nodeVars == <<view, failing, moved, met>>
readVars == <<raw, down, old>>
passVars == <<op, seed, todo, stale>>
vars == <<podVars, nodeVars, passVars, readVars, cond, apiVars>>

Id(p) == <<p, inc[p]>>
Up == {p \in Pods : phase[p] \in {"up", "joining"}}
Ready == {p \in Pods : phase[p] = "up"}
Knows(q, id) == view[q][id] # "none"
Own(p) == view[p][Id(p)]
KnownNodes(q) == Cardinality({id \in Ids : Knows(q, id)})

Blank == [id \in Ids |-> "none"]

Init ==
    /\ phase = [p \in Pods |-> "up"] /\ inc = [p \in Pods |-> 0]
    /\ view = [q \in Pods |-> [id \in Ids |->
                 IF id[2] # 0 THEN "none" ELSE IF id[1] \in Primaries THEN "slots" ELSE Home[id[1]]]]
    /\ failing = {} /\ moved = {} /\ met = {}
    /\ cond = 0 /\ stored = 0 /\ ann = Blank
    /\ op = "health" /\ seed = "none" /\ todo = {} /\ stale = {}
    /\ raw = Blank /\ down = {} /\ old = {}
    /\ stops = 0 /\ faults = 0

-----------------------------------------------------------------------------
\* Pods and volumes

Stop(p, kind) ==
    /\ <<p, kind>> \in MayStop /\ p \in Replicas \cap Up
    /\ stops < MaxStops /\ stops' = stops + 1
    /\ met' = {m \in met : p \notin {m[1], m[2]}}
    /\ UNCHANGED <<failing, passVars, raw, down, cond, apiVars>>

\* the pod comes back with another address; a table that is being compared with
\* the pods has the one before
Moves(p) ==
    /\ moved' = moved \cup {Id(p)}
    /\ old' = IF op = "list" THEN old \cup {Id(p)} ELSE old

\* the container restarts in place; with a new sandbox the address changes too
Crash(p) ==
    /\ Stop(p, "crash") /\ phase' = [phase EXCEPT ![p] = "start"]
    /\ Moves(p) \/ UNCHANGED <<moved, old>>
    /\ UNCHANGED <<inc, view>>

\* the pod is deleted and its volume kept
Evict(p) ==
    /\ Stop(p, "evict") /\ phase' = [phase EXCEPT ![p] = "gone"]
    /\ Moves(p) /\ UNCHANGED <<inc, view>>

\* the pod is deleted and nodes.conf with it (crash-loop recovery, no volume)
Lose(p) ==
    /\ Stop(p, "lose") /\ phase' = [phase EXCEPT ![p] = "gone"]
    /\ inc' = [inc EXCEPT ![p] = @ + 1]
    /\ view' = [view EXCEPT ![p] = [Blank EXCEPT ![<<p, inc[p] + 1>>] = "bare"]]
    /\ UNCHANGED <<moved, old>>

Create(p) ==
    /\ phase[p] = "gone" /\ phase' = [phase EXCEPT ![p] = "start"]
    /\ UNCHANGED <<inc, stops, nodeVars, passVars, readVars, cond, apiVars>>

Start(p) ==
    /\ phase[p] = "start" /\ phase' = [phase EXCEPT ![p] = "up"]
    /\ UNCHANGED <<inc, stops, nodeVars, passVars, readVars, cond, apiVars>>

\* NODE.READY on a master without slots: it is Ready while it knows of no slots,
\* and again when it knows all of them and its cluster_state is ok
Half(p) ==
    LET known == {m \in Primaries : view[p][<<m, 0>>] = "slots"} IN
    Own(p) = "bare" /\ known # {} /\ known # Primaries

Probe(p) ==
    /\ p \in Up /\ (phase[p] = "up") = Half(p)
    /\ phase' = [phase EXCEPT ![p] = IF Half(p) THEN "joining" ELSE "up"]
    /\ UNCHANGED <<inc, stops, nodeVars, passVars, readVars, cond, apiVars>>

-----------------------------------------------------------------------------
\* Gossip

Suspect(id) ==
    /\ id \notin failing /\ \E q \in Up : Knows(q, id)
    /\ \A p \in Up : Id(p) # id
    /\ failing' = failing \cup {id}
    /\ UNCHANGED <<podVars, view, moved, met, passVars, readVars, cond, apiVars>>

\* a known node is heard again, at the address it has now
Recover(p) ==
    /\ p \in Up /\ Id(p) \in failing \cup moved
    /\ failing' = failing \ {Id(p)} /\ moved' = moved \ {Id(p)}
    /\ UNCHANGED <<podVars, view, met, passVars, readVars, cond, apiVars>>

\* q hears of p: from p itself when one knows the other (a node that gets no
\* ping from one it knows sends it a MEET) or meets it, or through a node that
\* both know
Heard(q, p) ==
    \/ Knows(q, Id(p)) \/ Knows(p, Id(q)) \/ {<<p, q>>, <<q, p>>} \cap met # {}
    \/ \E x \in Up : Knows(x, Id(p)) /\ Knows(x, Id(q)) /\ Knows(q, Id(x))

Learn(q, p) ==
    /\ p # q /\ p \in Up /\ q \in Up /\ view[q][Id(p)] # Own(p) /\ Heard(q, p)
    /\ view' = [view EXCEPT ![q][Id(p)] = Own(p)]
    /\ met' = IF Knows(p, Id(q)) THEN met \ {<<p, q>>, <<q, p>>} ELSE met
    /\ UNCHANGED <<podVars, failing, moved, passVars, readVars, cond, apiVars>>

-----------------------------------------------------------------------------
\* TOPOLOGY.SET on a pod, with the peers and the primary of table v

At(ip) == [ip |-> ip, port |-> "6379"]
Addr(id) == At(IF id = Id(id[1]) /\ id \notin moved THEN id[1] ELSE "gone")

Lines(v) ==
    LET ids == SelectSeq(IdSeq, LAMBDA id : v[id] # "none") IN
    [i \in DOMAIN ids |->
        [id |-> ids[i], addr |-> Addr(ids[i]),
         flags |-> {IF v[ids[i]] \in {"bare", "slots"} THEN "master" ELSE "slave"}
                   \cup (IF ids[i] \in failing THEN {"fail"} ELSE {}),
         master |-> v[ids[i]], slots |-> IF v[ids[i]] = "slots" THEN <<"all">> ELSE << >>]]

Says(p) ==
    [failed |-> {}, nodes |-> Lines(view[p]), acl |-> {}, cluster |-> << >>,
     info |-> IF Own(p) \in {"bare", "slots"} THEN [role |-> "master"]
              ELSE [role |-> "slave", master_host |-> Own(p), master_port |-> "6379"]]

Request(v, m) ==
    LET lines == Lines(v) IN
    [role |-> "replica", primary |-> At(m), peers |-> [i \in DOMAIN lines |-> lines[i].addr]]

TopologySet(p, v, m) ==
    LET req == Request(v, m) IN
    /\ met' = met \cup {<<p, q>> : q \in {x \in Pods : At(x) \in Meets(Says(p), req)}}
    /\ view' = IF Replicates(Says(p), req) THEN [view EXCEPT ![p][Id(p)] = m] ELSE view

-----------------------------------------------------------------------------
\* Reading a table of CLUSTER NODES

Count(v, m) == Cardinality({id \in Ids : v[id] = m})

Masters(v) == {m \in Primaries : v[<<m, 0>>] = "slots"}
Bare(v) == {p \in Pods : v[Id(p)] = "bare" /\ Id(p) \notin failing}

\* detectUnderReplicatedShards: failed replicas are counted, and masters
\* without slots are shards
UnderReplicated(v) ==
    \/ \E m \in Masters(v) : Count(v, m) < ReplicasPerShard
    \/ Bare(v) # {} /\ ReplicasPerShard > 0

\* mutant: the primary with the most replicas
BestMastersMost(v) ==
    {m \in Masters(v) : /\ Count(v, m) <= ReplicasPerShard
                        /\ \A x \in Masters(v) : Count(v, m) >= Count(v, x)}

\* pickMasterForReplica; which of several depends on their ids
BestMasters(v) ==
    {m \in Masters(v) : /\ Count(v, m) <= ReplicasPerShard
                        /\ \A x \in Masters(v) : Count(v, m) <= Count(v, x)}

-----------------------------------------------------------------------------
\* Step 8: reconcileClusterHealth, the part about replicas

Condition(s) == IF UnderReplicated(view[s]) THEN 1 ELSE 0

\* fetchClusterState, and the condition that follows from it
CheckNodes(s) ==
    /\ op = "health" /\ s \in Ready
    /\ op' = "list" /\ cond' = Condition(s)
    /\ raw' = view[s] /\ down' = failing /\ old' = moved
    /\ UNCHANGED <<podVars, nodeVars, seed, todo, stale, apiVars>>

\* forgetStaleNodes: the address in the node's line is one of a pod
IpKnown(id) == id = Id(id[1]) /\ id \notin old

Stale == {id \in down : raw[id] # "none" /\ ~IpKnown(id)}
Forgotten == {id \in Stale : ann[id] = "old"}

Annotated ==
    [id \in Ids |-> IF raw[id] = "none" THEN ann[id]
                    ELSE IF id \notin Stale \ Forgotten THEN "none"
                    ELSE IF ann[id] = "none" THEN "fresh" ELSE ann[id]]

Whole == \A p \in Pods : phase[p] # "gone"

Listing ==
    /\ op = "list" /\ raw' = Blank /\ down' = {} /\ old' = {}
    /\ UNCHANGED <<podVars, nodeVars, seed, stored>>

\* a pod is missing or terminating: nothing is forgotten
CheckGuarded ==
    /\ Listing /\ ~Whole /\ op' = "roles"
    /\ UNCHANGED <<todo, stale, cond, ann, faults>>

\* the patch of the annotations replaces the pass's copy by the stored
\* resource, and with it the condition just set
PatchAnnotations ==
    \/ /\ ann' = Annotated /\ UNCHANGED faults
       /\ cond' = IF ann' = ann THEN cond ELSE stored
    \/ /\ Annotated # ann /\ faults < MaxFaults /\ faults' = faults + 1
       /\ UNCHANGED <<ann, cond>>

\* mutant: no early return when nothing is stale
CheckStaleAlways ==
    /\ Listing /\ Whole /\ PatchAnnotations
    /\ stale' = Forgotten /\ todo' = Ready /\ op' = "forget"

CheckStale ==
    /\ Listing /\ Whole /\ PatchAnnotations
    /\ stale' = Forgotten
    /\ todo' = IF stale' = {} THEN {} ELSE Ready
    /\ op' = IF stale' = {} THEN "roles" ELSE "forget"

\* CLUSTER FORGET, which a node refuses for itself and for its primary
Forget(q) ==
    /\ op = "forget" /\ q \in todo
    /\ view' = IF q \in Up
               THEN [view EXCEPT ![q] = [id \in Ids |-> IF id \in stale \ {Id(q)} THEN "none" ELSE @[id]]]
               ELSE view
    /\ todo' = todo \ {q}
    /\ op' = IF todo' = {} THEN "roles" ELSE op
    /\ stale' = IF todo' = {} THEN {} ELSE stale
    /\ UNCHANGED <<podVars, failing, moved, met, seed, readVars, cond, apiVars>>

-----------------------------------------------------------------------------
\* Step 9: reconcileReplicaRoles

EndRoles == op' = "orphans" /\ todo' = {} /\ seed' = "none"

RolesSkip ==
    /\ op = "roles" /\ cond = 0 /\ EndRoles
    /\ UNCHANGED <<podVars, nodeVars, readVars, stale, cond, apiVars>>

GhostsGone(q) == KnownNodes(q) <= Cardinality(Pods)

\* the Ready pods it lists as masters without slots
Slotless(v) == {p \in Bare(v) \cap Ready : Id(p) \notin moved}

\* cluster_known_nodes is asked of a primary with slots, or of the seed
RolesBegin(s) ==
    /\ op = "roles" /\ cond = 1 /\ s \in Ready
    /\ \E stable \in IF Masters(view[s]) = {} THEN {s} ELSE Masters(view[s]) :
          IF GhostsGone(stable) /\ Slotless(view[s]) # {}
          THEN op' = "assign" /\ todo' = Slotless(view[s]) /\ seed' = s
          ELSE EndRoles
    /\ UNCHANGED <<podVars, nodeVars, readVars, stale, cond, apiVars>>

\* the table is read again for each pod, from the same seed if it answers
Assign(p) ==
    /\ op = "assign" /\ p \in todo
    /\ \E s \in IF seed \in Up THEN {seed} ELSE Ready :
          \/ /\ BestMasters(view[s]) = {} /\ EndRoles /\ UNCHANGED <<view, met>>
          \/ /\ \E m \in BestMasters(view[s]) :
                   IF p \in Up THEN TopologySet(p, view[s], m) ELSE UNCHANGED <<view, met>>
             /\ IF todo = {p} THEN EndRoles ELSE todo' = todo \ {p} /\ UNCHANGED <<op, seed>>
    /\ UNCHANGED <<podVars, failing, moved, readVars, stale, cond, apiVars>>

-----------------------------------------------------------------------------
\* Step 12: reconcileOrphanReplicas, when isStatefulSetStable

\* updateStatus
EndPass ==
    /\ op' = "health" /\ todo' = {} /\ raw' = Blank
    /\ \/ stored' = cond /\ UNCHANGED faults
       \/ stored # cond /\ faults < MaxFaults /\ faults' = faults + 1 /\ UNCHANGED stored

OrphansSkip ==
    /\ op = "orphans" /\ Ready # Pods /\ EndPass
    /\ UNCHANGED <<podVars, nodeVars, seed, stale, down, old, cond, ann>>

\* a pod is known by its address, or by the host name it had before
Listed(v) == {p \in Pods : \E k \in 0 .. MaxStops : v[<<p, k>>] # "none"}

OrphansBegin(s) ==
    /\ op = "orphans" /\ s \in Ready /\ Ready = Pods
    /\ IF Pods \ ({s} \cup Listed(view[s])) = {} THEN EndPass
       ELSE /\ op' = "reintegrate" /\ raw' = view[s]
            /\ todo' = Pods \ ({s} \cup Listed(view[s])) /\ UNCHANGED <<stored, faults>>
    /\ UNCHANGED <<podVars, nodeVars, seed, stale, down, old, cond, ann>>

\* mutant: off by one
OrphanStrict(p) == p \in Up /\ Own(p) \in {"bare", "slots"} /\ KnownNodes(p) < 1

\* reintegratePod, for a reachable master that knows no other node
Orphan(p) == p \in Up /\ Own(p) \in {"bare", "slots"} /\ KnownNodes(p) <= 1

Reintegrate(p) ==
    /\ op = "reintegrate" /\ p \in todo
    /\ IF Orphan(p) /\ BestMasters(raw) # {}
       THEN \E m \in BestMasters(raw) : TopologySet(p, raw, m)
       ELSE UNCHANGED <<view, met>>
    /\ IF todo = {p} THEN EndPass ELSE todo' = todo \ {p} /\ UNCHANGED <<op, raw, stored, faults>>
    /\ UNCHANGED <<podVars, failing, moved, seed, stale, down, old, cond, ann>>

\* staleNodeTimeout passes
Age(id) ==
    /\ ann[id] = "fresh" /\ ann' = [ann EXCEPT ![id] = "old"]
    /\ UNCHANGED <<podVars, nodeVars, passVars, readVars, cond, stored, faults>>

Operator ==
    \/ \E s \in Pods : CheckNodes(s) \/ RolesBegin(s) \/ OrphansBegin(s)
    \/ \E p \in Pods : Forget(p) \/ Assign(p) \/ Reintegrate(p)
    \/ CheckGuarded \/ CheckStale \/ RolesSkip \/ OrphansSkip

Gossip ==
    \/ \E p \in Pods : Recover(p) \/ \E q \in Pods : Learn(q, p)
    \/ \E id \in Ids : Suspect(id)

Next ==
    \/ \E p \in Pods : Crash(p) \/ Evict(p) \/ Lose(p) \/ Create(p) \/ Start(p) \/ Probe(p)
    \/ Gossip \/ Operator
    \/ \E id \in Ids : Age(id)

Spec == Init /\ [][Next]_vars

\* pods come back, gossip goes on, time passes, the operator is called again,
\* and a primary is first in the list of pods now and then
Fairness ==
    /\ WF_vars(\E p \in Pods : Create(p) \/ Start(p) \/ Recover(p))
    /\ WF_vars(\E p \in Pods : Probe(p))
    /\ WF_vars(Gossip) /\ WF_vars(\E id \in Ids : Age(id)) /\ WF_vars(Operator)
    /\ SF_vars(\E s \in Primaries : CheckNodes(s))
    /\ SF_vars(\E s \in Primaries : RolesBegin(s))
    /\ SF_vars(\E s \in Primaries : OrphansBegin(s))

FairSpec == Spec /\ Fairness

-----------------------------------------------------------------------------
Entries == {"none", "bare", "slots"} \cup Primaries

\* Every variable has its type, and CLUSTER FORGET goes to pods only while there
\* is a node to forget.
TypeOK ==
    /\ phase \in [Pods -> {"up", "joining", "start", "gone"}] /\ inc \in [Pods -> 0 .. MaxStops]
    /\ view \in [Pods -> [Ids -> Entries]] /\ failing \subseteq Ids /\ moved \subseteq Ids
    /\ met \subseteq Pods \X Pods
    /\ cond \in {0, 1} /\ stored \in {0, 1} /\ ann \in [Ids -> {"none", "fresh", "old"}]
    /\ op \in {"health", "list", "forget", "roles", "assign", "orphans", "reintegrate"}
    /\ seed \in Pods \cup {"none"} /\ todo \subseteq Pods /\ stale \subseteq Ids
    /\ op = "forget" => stale # {}
    /\ raw \in [Ids -> Entries] /\ down \subseteq Ids /\ old \subseteq Ids
    /\ stops \in 0 .. MaxStops /\ faults \in 0 .. MaxFaults

\* the replicas that a primary really has
Has(m) == Cardinality({p \in Replicas : Own(p) = m})

Helps(p) ==
    Own(p) = "bare" /\ Own(p)' \in Primaries => \A m \in Primaries : Has(Own(p)') <= Has(m)

\* A pod that lost its place is made a replica of a primary that has the
\* fewest replicas, if it is the only one that stopped and the tables of all
\* running nodes agree, so that none lists the node it was before
\* (reconcileReplicaRoles and, from a table read earlier, reintegratePod).
PlacedWhenAgreed ==
    [][stops <= 1 /\ (\A q, x \in Up : view[q] = view[x]) => \A p \in Replicas : Helps(p)]_vars

\* Every replica that stops, even with its data lost, ends up as a replica
\* again, known to all nodes: forgetting, joining and assigning, each of which
\* waits for another of them, bring the cluster back together.
Repaired ==
    <>[](\A p \in Replicas : /\ Own(p) \in Primaries
                              /\ \A q \in Pods : view[q][Id(p)] = Own(p))
=============================================================================
