------------------------- MODULE ReplicaRepairProofs -------------------------
(* Proofs about ReplicaRepair: for any pods, replicas, stops and failing       *)
(* writes, a lost replica is given to a primary with the fewest while the      *)
(* tables agree.                                                               *)
EXTENDS ReplicaRepair, FiniteSetTheorems, TLAPS

USE RepairAssumption

\* No table lists an id that its pod has not had yet.
Behind ==
    /\ \A p \in Pods : inc[p] <= stops
    /\ \A q \in Pods, id \in Ids : view[q][id] # "none" => id[2] <= inc[id[1]]

LEMMA IdFacts ==
    ASSUME TypeOK, NEW p \in Pods
    PROVE  Id(p) \in Ids /\ Id(p)[1] = p /\ Id(p)[2] = inc[p]
BY DEF TypeOK, Id, Ids

LEMMA InitInv == Init => TypeOK /\ Behind
<1> SUFFICES ASSUME Init PROVE TypeOK /\ Behind
  OBVIOUS
<1> USE DEF Init
<1>1. Blank \in [Ids -> {"none"}]
  BY DEF Blank
<1>2. view \in [Pods -> [Ids -> Entries]]
  <2>1. \A id \in Ids : id[1] \in Pods /\ id[2] \in 0 .. MaxStops
    BY DEF Ids
  <2>2. \A id \in Ids : id[1] \notin Primaries => Home[id[1]] \in Primaries
    BY <2>1 DEF Replicas
  <2> QED
    BY <2>1, <2>2 DEF Entries
<1>3. inc \in [Pods -> 0 .. MaxStops] /\ phase \in [Pods -> {"up", "joining", "start", "gone"}]
  OBVIOUS
<1>4. ann \in [Ids -> {"none", "fresh", "old"}] /\ raw \in [Ids -> Entries]
  BY <1>1 DEF Entries
<1>5. TypeOK
  BY <1>2, <1>3, <1>4 DEF TypeOK
<1>6. \A q \in Pods, id \in Ids : view[q][id] # "none" => id[2] <= inc[id[1]]
  <2> SUFFICES ASSUME NEW q \in Pods, NEW id \in Ids, view[q][id] # "none"
               PROVE  id[2] <= inc[id[1]]
    OBVIOUS
  <2>1. id[2] = 0 /\ id[1] \in Pods
    BY DEF Ids
  <2> QED
    BY <2>1
<1>7. Behind
  BY <1>6 DEF Behind
<1> QED
  BY <1>5, <1>7

\* What TOPOLOGY.SET can change: the role of the pod itself, and whom it meets.
LEMMA TopologySetFacts ==
    ASSUME TypeOK, NEW p \in Pods, NEW v, NEW m \in Primaries, TopologySet(p, v, m)
    PROVE  /\ view' = view \/ view' = [view EXCEPT ![p][Id(p)] = m]
           /\ met' \subseteq Pods \X Pods
<1>1. view' = view \/ view' = [view EXCEPT ![p][Id(p)] = m]
  BY DEF TopologySet
<1>2. met' = met \cup {<<p, q>> : q \in {x \in Pods : At(x) \in Meets(Says(p), Request(v, m))}}
  BY DEF TopologySet
<1>3. met' \subseteq Pods \X Pods
  BY <1>2 DEF TypeOK
<1> QED
  BY <1>1, <1>3

\* A table with one more entry for a pod's present id is still a table.
LEMMA ViewUpdate ==
    ASSUME TypeOK, Behind, NEW q \in Pods, NEW p \in Pods, NEW e \in Entries,
           view' = view \/ view' = [view EXCEPT ![q][Id(p)] = e]
    PROVE  /\ view' \in [Pods -> [Ids -> Entries]]
           /\ \A x \in Pods, id \in Ids : view'[x][id] # "none" => id[2] <= inc[id[1]]
<1>1. Id(p) \in Ids /\ Id(p)[1] = p /\ Id(p)[2] = inc[p] /\ inc[p] \in Nat
  BY IdFacts DEF TypeOK
<1>2. view \in [Pods -> [Ids -> Entries]]
  BY DEF TypeOK
<1>3. view' \in [Pods -> [Ids -> Entries]]
  <2>1. view[q] \in [Ids -> Entries]
    BY <1>2
  <2>2. [view[q] EXCEPT ![Id(p)] = e] \in [Ids -> Entries]
    BY <1>1, <2>1
  <2>3. view' = view \/ view' = [view EXCEPT ![q] = [view[q] EXCEPT ![Id(p)] = e]]
    BY <1>2
  <2> QED
    BY <1>2, <2>2, <2>3
<1>4. ASSUME NEW x \in Pods, NEW id \in Ids, view'[x][id] # "none" PROVE id[2] <= inc[id[1]]
  <2>1. CASE id = Id(p)
    BY <1>1, <2>1
  <2>2. CASE id # Id(p)
    <3>1. view'[x][id] = view[x][id]
      BY SMTT(30), <1>1, <1>2, <2>2
    <3> QED
      BY <1>4, <3>1 DEF Behind
  <2> QED
    BY <2>1, <2>2
<1> QED
  BY <1>3, <1>4

\* What the health check is to forget was flagged fail in the table it read.
LEMMA StaleDown ==
    ASSUME TypeOK
    PROVE  /\ Forgotten \subseteq down /\ Forgotten \subseteq Ids
           /\ Annotated \in [Ids -> {"none", "fresh", "old"}]
<1>1. Forgotten \subseteq down
  BY DEF Forgotten, Stale
<1>2. Annotated \in [Ids -> {"none", "fresh", "old"}]
  BY DEF Annotated, TypeOK
<1> QED
  BY <1>1, <1>2 DEF TypeOK

\* Every step keeps the types and Behind.
LEMMA InvStep == TypeOK /\ Behind /\ [Next]_vars => TypeOK' /\ Behind'
<1> SUFFICES ASSUME TypeOK, Behind, [Next]_vars PROVE TypeOK' /\ Behind'
  OBVIOUS
<1> USE DEF podVars, nodeVars, passVars, readVars, apiVars
<1>0. /\ inc \in [Pods -> 0 .. MaxStops] /\ view \in [Pods -> [Ids -> Entries]]
      /\ stops \in 0 .. MaxStops /\ Up \subseteq Pods
      /\ \A x \in Pods : Id(x) \in Ids /\ Id(x)[1] = x /\ Id(x)[2] = inc[x]
  BY IdFacts DEF TypeOK, Up
<1>1. ASSUME NEW p \in Pods, Crash(p) \/ Evict(p) PROVE TypeOK' /\ Behind'
  <2>1. /\ phase' \in {[phase EXCEPT ![p] = "start"], [phase EXCEPT ![p] = "gone"]}
        /\ stops' = stops + 1 /\ stops < MaxStops /\ met' \subseteq met
        /\ moved' \subseteq moved \cup {Id(p)} /\ old' \subseteq old \cup {Id(p)}
        /\ UNCHANGED <<inc, view, failing, passVars, raw, down, cond, apiVars>>
    BY <1>1 DEF Crash, Evict, Stop, Moves
  <2>2. TypeOK'
    <3>0. phase' \in [Pods -> {"up", "joining", "start", "gone"}]
      <4>1. CASE phase' = [phase EXCEPT ![p] = "start"]
        BY <4>1 DEF TypeOK
      <4>2. CASE phase' = [phase EXCEPT ![p] = "gone"]
        BY <4>2 DEF TypeOK
      <4> QED
        BY <2>1, <4>1, <4>2
    <3>1. stops' \in 0 .. MaxStops
      BY <1>0, <2>1
    <3>2. moved' \subseteq Ids /\ old' \subseteq Ids /\ met' \subseteq Pods \X Pods
      BY <1>0, <2>1 DEF TypeOK
    <3> QED
      BY <2>1, <3>0, <3>1, <3>2 DEF TypeOK
  <2>3. Behind'
    BY <1>0, <2>1 DEF Behind
  <2> QED
    BY <2>2, <2>3
<1>3. ASSUME NEW p \in Pods, Lose(p) PROVE TypeOK' /\ Behind'
  <2> DEFINE new == <<p, inc[p] + 1>>
             own == [Blank EXCEPT ![new] = "bare"]
  <2>1. /\ phase' = [phase EXCEPT ![p] = "gone"] /\ stops' = stops + 1 /\ stops < MaxStops
        /\ met' \subseteq met
        /\ inc' = [inc EXCEPT ![p] = inc[p] + 1] /\ view' = [view EXCEPT ![p] = own]
        /\ UNCHANGED <<moved, failing, passVars, readVars, cond, apiVars>>
    BY <1>3 DEF Lose, Stop
  <2>2. inc[p] + 1 \in 0 .. MaxStops /\ inc[p] + 1 <= stops'
    BY <1>0, <2>1 DEF Behind
  <2>3. new \in Ids /\ new[1] = p /\ new[2] = inc[p] + 1
    BY <2>2 DEF Ids
  <2>4. own \in [Ids -> Entries] /\ \A id \in Ids : own[id] # "none" => id = new
    BY <2>3 DEF Blank, Entries
  <2>5. inc' \in [Pods -> 0 .. MaxStops] /\ view' \in [Pods -> [Ids -> Entries]]
    <3> HIDE DEF own
    <3> QED
      BY <1>0, <2>1, <2>2, <2>4
  <2>6. TypeOK'
    BY <1>0, <2>1, <2>5 DEF TypeOK
  <2>7. \A x \in Pods : inc'[x] >= inc[x] /\ inc'[x] <= stops'
    BY <1>0, <2>1, <2>2 DEF Behind
  <2>8. ASSUME NEW q \in Pods, NEW id \in Ids, view'[q][id] # "none" PROVE id[2] <= inc'[id[1]]
    <3>0. id[1] \in Pods /\ id[2] \in 0 .. MaxStops
      BY DEF Ids
    <3>1. CASE q = p
      <4>1. view'[q] = own
        BY <1>0, <2>1, <3>1
      <4>2. id = new
        BY <2>4, <2>8, <4>1
      <4> QED
        BY <1>0, <2>1, <2>3, <4>2
    <3>2. CASE q # p
      <4>1. view'[q][id] = view[q][id]
        BY <1>0, <2>1, <3>2
      <4>2. id[2] <= inc[id[1]]
        BY <2>8, <4>1 DEF Behind
      <4> QED
        BY <1>0, <2>5, <2>7, <3>0, <4>2
    <3> QED
      BY <3>1, <3>2
  <2>9. Behind'
    BY <2>7, <2>8 DEF Behind
  <2> QED
    BY <2>6, <2>9
<1>4. ASSUME NEW p \in Pods, Create(p) \/ Start(p) \/ Probe(p) PROVE TypeOK' /\ Behind'
  <2>1. /\ phase' \in [Pods -> {"up", "joining", "start", "gone"}]
        /\ UNCHANGED <<inc, stops, nodeVars, passVars, readVars, cond, apiVars>>
    BY <1>4 DEF Create, Start, Probe, TypeOK
  <2> QED
    BY <2>1 DEF TypeOK, Behind
<1>5. ASSUME NEW id \in Ids, Suspect(id) PROVE TypeOK' /\ Behind'
  BY <1>5 DEF Suspect, TypeOK, Behind
<1>6. ASSUME NEW p \in Pods, Recover(p) PROVE TypeOK' /\ Behind'
  BY <1>6 DEF Recover, TypeOK, Behind
<1>7. ASSUME NEW p \in Pods, NEW q \in Pods, Learn(q, p) PROVE TypeOK' /\ Behind'
  <2>1. /\ view' = [view EXCEPT ![q][Id(p)] = Own(p)] /\ met' \subseteq met
        /\ UNCHANGED <<podVars, failing, moved, passVars, readVars, cond, apiVars>>
    BY <1>7 DEF Learn
  <2>2. Own(p) \in Entries
    BY <1>0 DEF Own
  <2>3. /\ view' \in [Pods -> [Ids -> Entries]]
        /\ \A x \in Pods, id \in Ids : view'[x][id] # "none" => id[2] <= inc[id[1]]
    BY <2>1, <2>2, ViewUpdate
  <2> QED
    BY <2>1, <2>3 DEF TypeOK, Behind
<1>8. ASSUME NEW s \in Pods, CheckNodes(s) PROVE TypeOK' /\ Behind'
  <2>1. cond' \in {0, 1} /\ raw' \in [Ids -> Entries]
    BY <1>0, <1>8 DEF CheckNodes, Condition
  <2> QED
    BY <1>8, <2>1 DEF CheckNodes, TypeOK, Behind
<1>9. Blank \in [Ids -> Entries]
  BY DEF Blank, Entries
<1>10. CASE CheckGuarded \/ CheckStale
  <2>1. /\ stale' \in {stale, Forgotten} /\ todo' \in {todo, {}, Ready}
        /\ op' = "roles" \/ (op' = "forget" /\ stale' # {})
        /\ ann' \in {ann, Annotated}
        /\ faults' = faults \/ (faults < MaxFaults /\ faults' = faults + 1)
        /\ cond' \in {stored, cond} /\ raw' = Blank /\ down' = {} /\ old' = {}
        /\ UNCHANGED <<podVars, nodeVars, seed, stored>>
    BY <1>10 DEF CheckGuarded, CheckStale, Listing, PatchAnnotations
  <2>2. stale' \subseteq Ids /\ ann' \in [Ids -> {"none", "fresh", "old"}]
    BY <2>1, StaleDown DEF TypeOK
  <2>3. cond' \in {0, 1} /\ faults' \in 0 .. MaxFaults /\ todo' \subseteq Pods
    BY <2>1 DEF TypeOK, Ready
  <2> QED
    BY <1>9, <2>1, <2>2, <2>3 DEF TypeOK, Behind
<1>11. ASSUME NEW q \in Pods, Forget(q) PROVE TypeOK' /\ Behind'
  <2> DEFINE own == [id \in Ids |-> IF id \in stale \ {Id(q)} THEN "none" ELSE view[q][id]]
  <2>1. /\ view' = view \/ view' = [view EXCEPT ![q] = own]
        /\ todo' = todo \ {q} /\ (op' = "roles" \/ UNCHANGED <<op, stale>>)
        /\ stale' \in {{}, stale}
        /\ UNCHANGED <<podVars, failing, moved, met, seed, readVars, cond, apiVars>>
    BY <1>11 DEF Forget
  <2>2. own \in [Ids -> Entries] /\ \A id \in Ids : own[id] # "none" => own[id] = view[q][id]
    BY <1>0 DEF Entries
  <2> HIDE DEF own
  <2>3. view' \in [Pods -> [Ids -> Entries]]
    BY ZenonT(30), <1>0, <2>1, <2>2
  <2>4. \A x \in Pods, id \in Ids : view'[x][id] # "none" => view'[x][id] = view[x][id]
    BY <1>0, <2>1, <2>2
  <2>5. TypeOK'
    BY <2>1, <2>3 DEF TypeOK
  <2>6. Behind'
    BY <2>1, <2>4 DEF Behind
  <2> QED
    BY <2>5, <2>6
<1>12. CASE RolesSkip
  BY <1>12 DEF RolesSkip, EndRoles, TypeOK, Behind
<1>13. ASSUME NEW s \in Pods, RolesBegin(s) PROVE TypeOK' /\ Behind'
  <2>1. /\ op' \in {"assign", "orphans"} /\ todo' \in {{}, Slotless(view[s])}
        /\ seed' \in {s, "none"}
        /\ UNCHANGED <<podVars, nodeVars, readVars, stale, cond, apiVars>>
    BY <1>13 DEF RolesBegin, EndRoles
  <2>2. Slotless(view[s]) \subseteq Pods
    BY <1>0 DEF Slotless, Bare
  <2> QED
    BY <2>1, <2>2 DEF TypeOK, Behind
<1>14. \A v : BestMasters(v) \subseteq Primaries /\ Primaries \subseteq Entries
  BY DEF BestMasters, Masters, Entries
\* TOPOLOGY.SET, or no change
<1>15. ASSUME NEW p \in Pods,
              \/ UNCHANGED <<view, met>>
              \/ \E v : \E m \in BestMasters(v) : TopologySet(p, v, m)
       PROVE  /\ view' \in [Pods -> [Ids -> Entries]] /\ met' \subseteq Pods \X Pods
              /\ \A x \in Pods, id \in Ids : view'[x][id] # "none" => id[2] <= inc[id[1]]
  <2>1. CASE UNCHANGED <<view, met>>
    BY <1>0, <2>1 DEF TypeOK, Behind
  <2>2. ASSUME NEW v, NEW m \in BestMasters(v), TopologySet(p, v, m)
        PROVE  /\ view' \in [Pods -> [Ids -> Entries]] /\ met' \subseteq Pods \X Pods
               /\ \A x \in Pods, id \in Ids : view'[x][id] # "none" => id[2] <= inc[id[1]]
    <3>1. m \in Primaries /\ m \in Entries
      BY <1>14
    <3> QED
      BY <2>2, <3>1, TopologySetFacts, ViewUpdate
  <2> QED
    BY <1>15, <2>1, <2>2
<1>16. ASSUME NEW p \in Pods, Assign(p) PROVE TypeOK' /\ Behind'
  <2>1. \/ UNCHANGED <<view, met>>
        \/ \E v : \E m \in BestMasters(v) : TopologySet(p, v, m)
    BY <1>16 DEF Assign
  <2>2. /\ op' \in {op, "orphans"} /\ todo' \subseteq todo /\ seed' \in {seed, "none"}
        /\ UNCHANGED <<podVars, failing, moved, readVars, stale, cond, apiVars>>
    BY <1>16 DEF Assign, EndRoles
  <2> QED
    BY <1>15, <2>1, <2>2 DEF TypeOK, Behind
<1>17. EndPass => /\ op' = "health" /\ todo' = {} /\ raw' \in [Ids -> Entries]
                  /\ stored' \in {0, 1} /\ faults' \in 0 .. MaxFaults
  BY DEF EndPass, TypeOK, Blank, Entries
<1>18. CASE OrphansSkip
  BY <1>17, <1>18 DEF OrphansSkip, TypeOK, Behind
<1>19. ASSUME NEW s \in Pods, OrphansBegin(s) PROVE TypeOK' /\ Behind'
  <2>1. /\ op' \in {"health", "reintegrate"} /\ todo' \subseteq Pods /\ raw' \in [Ids -> Entries]
        /\ stored' \in {0, 1} /\ faults' \in 0 .. MaxFaults
    BY <1>0, <1>17, <1>19 DEF OrphansBegin, TypeOK
  <2>2. UNCHANGED <<podVars, nodeVars, seed, stale, down, old, cond, ann>>
    BY <1>19 DEF OrphansBegin
  <2> QED
    BY <2>1, <2>2 DEF TypeOK, Behind
<1>20. ASSUME NEW p \in Pods, Reintegrate(p) PROVE TypeOK' /\ Behind'
  <2>1. \/ UNCHANGED <<view, met>>
        \/ \E v : \E m \in BestMasters(v) : TopologySet(p, v, m)
    BY <1>20 DEF Reintegrate
  <2>2. /\ op' \in {"health", op} /\ todo' \subseteq Pods /\ raw' \in [Ids -> Entries]
        /\ stored' \in {0, 1} /\ faults' \in 0 .. MaxFaults
    BY <1>17, <1>20 DEF Reintegrate, TypeOK
  <2>3. UNCHANGED <<podVars, failing, moved, seed, stale, down, old, cond, ann>>
    BY <1>20 DEF Reintegrate
  <2> QED
    BY <1>15, <2>1, <2>2, <2>3 DEF TypeOK, Behind
<1>21. ASSUME NEW id \in Ids, Age(id) PROVE TypeOK' /\ Behind'
  BY <1>21 DEF Age, TypeOK, Behind
<1>22. CASE UNCHANGED vars
  BY <1>22 DEF vars, TypeOK, Behind
<1> QED
  BY <1>1, <1>3, <1>4, <1>5, <1>6, <1>7, <1>8, <1>10, <1>11, <1>12, <1>13, <1>16,
     <1>18, <1>19, <1>20, <1>21, <1>22 DEF Next, Operator, Gossip

-----------------------------------------------------------------------------
\* For any pods, replicas, stops and failing writes every variable keeps its
\* type, and CLUSTER FORGET is sent only while there is a node to forget.
THEOREM TypeCorrect == Spec => []TypeOK
BY InitInv, InvStep, PTL DEF Spec

(***************************************************************************)
(* Where a lost replica is placed                                          *)
(***************************************************************************)

\* what a node that never stopped is to all the others
Place(q) == IF q \in Primaries THEN "slots" ELSE Home[q]

\* a node that runs, never lost its volume and is suspected by nobody, neither
\* now nor in what a pass has read
Settled(q) ==
    /\ inc[q] = 0 /\ phase[q] = "up"
    /\ <<q, 0>> \notin failing \cup down \cup stale

\* Only a node that lost its volume is a master without slots, its own table
\* does not list what it was before, and while it is the only one that stopped
\* the others list each other as at the start.
Rows ==
    /\ \A x \in Pods, id \in Ids : view[x][id] = "bare" => id[2] > 0
    /\ \A p \in Pods, k \in 0 .. MaxStops : k < inc[p] => view[p][<<p, k>>] = "none"
    /\ \A p \in Pods : inc[p] > 0 => p \in Replicas
    /\ stops = 0 => /\ \A q \in Pods : Settled(q)
                    /\ \A x, q \in Pods : view[x][<<q, 0>>] = Place(q)
    /\ stops <= 1 => \A p \in Pods : inc[p] > 0 =>
          /\ \A q \in Pods \ {p} : Settled(q)
          /\ \A x, q \in Pods \ {p} : view[x][<<q, 0>>] = Place(q)

\* What a pass works from: pods to assign have lost their volume, pods to
\* reintegrate are in no line of the table read for them, and that table has
\* every other node in its place.
Reads ==
    /\ op = "assign" => \A p \in todo : inc[p] > 0
    /\ op = "reintegrate" => \A p \in todo, k \in 0 .. MaxStops : raw[<<p, k>>] = "none"
    /\ stops = 0 => op # "reintegrate"
    /\ stops <= 1 /\ op = "reintegrate" => \A p \in todo : inc[p] > 0 =>
          \A q \in Pods \ {p} : /\ raw[<<q, 0>>] = Place(q)
                                /\ \A k \in 1 .. MaxStops : raw[<<q, k>>] = "none"

LostInv == TypeOK /\ Behind /\ Rows /\ Reads

\* Pods are finite, and so are ids.
LEMMA Finite == IsFiniteSet(Pods) /\ IsFiniteSet(Ids)
<1> DEFINE n == Len(PodSeq)  f == [i \in 1 .. n |-> PodSeq[i]]
<1>1. n \in Nat /\ DOMAIN PodSeq = 1 .. n /\ \A i \in 1 .. n : PodSeq[i] \in Pods
  OBVIOUS
<1>2. f \in [1 .. n -> Pods]
  BY <1>1
<1>3. ASSUME NEW s \in Pods PROVE \E i \in 1 .. n : f[i] = s
  BY <1>1 DEF Pods
<1>4. f \in Surjection(1 .. n, Pods)
  BY <1>2, <1>3 DEF Surjection
<1>5. IsFiniteSet(1 .. n) /\ IsFiniteSet(0 .. MaxStops)
  BY <1>1, FS_Interval
<1>6. IsFiniteSet(Pods)
  BY <1>4, <1>5, FS_Surjection
<1>7. IsFiniteSet(Pods \X (0 .. MaxStops))
  BY SMTT(30), <1>5, <1>6, FS_Product
<1> QED BY <1>6, <1>7 DEF Ids

\* A node that knows two ids is no orphan.
LEMMA KnowsTwo ==
    ASSUME NEW q \in Pods, NEW a \in Ids, NEW b \in Ids, a # b, Knows(q, a), Knows(q, b)
    PROVE  ~ (KnownNodes(q) <= 1)
<1> DEFINE K == {id \in Ids : Knows(q, id)}
<1>1. IsFiniteSet(K)
  BY Finite, FS_Subset
<1>2. IsFiniteSet({a}) /\ Cardinality({a}) = 1
  BY FS_Singleton
<1>3. Cardinality({a} \cup {b}) = 2
  <2>1. Cardinality({a} \cup {b}) = IF b \in {a} THEN Cardinality({a}) ELSE Cardinality({a}) + 1
    BY <1>2, FS_AddElement
  <2> QED BY <1>2, <2>1
<1>4. Cardinality({a} \cup {b}) <= Cardinality(K)
  <2>1. {a} \cup {b} \in SUBSET K
    OBVIOUS
  <2> QED BY <1>1, <2>1, FS_Subset
<1>5. Cardinality(K) \in Nat
  BY <1>1, FS_CardinalityType
<1>6. KnownNodes(q) = Cardinality(K)
  BY DEF KnownNodes
<1>7. 2 <= Cardinality(K)
  BY <1>3, <1>4
<1>8. \A n \in Nat : 2 <= n => ~ (n <= 1)
  OBVIOUS
<1> HIDE DEF K
<1> QED BY <1>5, <1>6, <1>7, <1>8, Zenon

\* A place is no master without slots.
LEMMA PlaceFacts ==
    ASSUME NEW q \in Pods
    PROVE  /\ Place(q) \notin {"none", "bare"} /\ <<q, 0>> \in Ids
           /\ q \in Replicas => Place(q) \in Primaries
           /\ q \in Primaries <=> Place(q) = "slots"
<1>1. q \in Primaries \/ (q \in Replicas /\ Home[q] \in Primaries)
  BY DEF Replicas
<1> QED BY <1>1 DEF Place, Replicas, Ids

\* At the start every node has its place.
LEMMA InitLost == Init => LostInv
<1> SUFFICES ASSUME Init PROVE LostInv
  OBVIOUS
<1>1. TypeOK /\ Behind
  BY InitInv
<1>2. \A x \in Pods, id \in Ids : view[x][id] = IF id[2] # 0 THEN "none" ELSE Place(id[1])
  BY DEF Init, Place
<1>3. \A x, q \in Pods : view[x][<<q, 0>>] = Place(q)
  <2>1. \A q \in Pods : <<q, 0>> \in Ids /\ <<q, 0>>[1] = q /\ <<q, 0>>[2] = 0
    BY DEF Ids
  <2> QED BY ZenonT(30), <1>2, <2>1
<1>4. \A x \in Pods, id \in Ids : view[x][id] = "bare" => id[2] > 0
  BY <1>2, PlaceFacts DEF Ids
<1>5. stops = 0 /\ op = "health" /\ \A q \in Pods : inc[q] = 0 /\ Settled(q)
  BY DEF Init, Settled
<1>6. Rows
  BY <1>3, <1>4, <1>5 DEF Rows
<1>7. Reads
  BY <1>5 DEF Reads
<1> QED BY <1>1, <1>6, <1>7 DEF LostInv

\* nothing is claimed of where x belongs
Free(x) == inc[x] > 0 \/ stops > 1 \/ (stops = 1 /\ \A l \in Pods : inc[l] = 0)

\* The ways an entry of a table changes while no pod stops: gossip, CLUSTER
\* FORGET, and CLUSTER REPLICATE on a pod that has no place to lose.
Change(x, id) ==
    \/ view'[x][id] = view[x][id]
    \/ view'[x][id] = "none" /\ id \in stale /\ id # Id(x)
    \/ \E p \in Pods : p # x /\ id = Id(p) /\ view'[x][id] = Own(p)
    \/ Free(x) /\ id = Id(x) /\ view'[x][id] \in Primaries

\* These changes keep the tables as Rows says.
LEMMA RowsChange ==
    ASSUME LostInv, UNCHANGED <<inc, stops>>, \A q \in Pods : Settled(q) => Settled(q)',
           \A x \in Pods, id \in Ids : Change(x, id)
    PROVE  Rows'
<1> USE DEF LostInv
<1>0. /\ \A x \in Pods : Id(x) \in Ids /\ Id(x)[1] = x /\ Id(x)[2] = inc[x] /\ inc[x] \in Nat
      /\ \A x \in Pods, k \in 0 .. MaxStops :
            <<x, k>> \in Ids /\ <<x, k>>[1] = x /\ <<x, k>>[2] = k
      /\ "bare" \notin Primaries /\ 0 \in 0 .. MaxStops
  <2>1. \A x \in Pods : Id(x) \in Ids /\ Id(x)[1] = x /\ Id(x)[2] = inc[x]
    BY IdFacts
  <2>2. \A x \in Pods : inc[x] \in Nat
    BY DEF TypeOK
  <2>3. \A x \in Pods, k \in 0 .. MaxStops : <<x, k>> \in Ids
    BY DEF Ids
  <2>4. "bare" \notin Primaries /\ 0 \in 0 .. MaxStops
    OBVIOUS
  <2> QED BY <2>1, <2>2, <2>3, <2>4
<1>1. ASSUME NEW x \in Pods, NEW id \in Ids, view'[x][id] = "bare" PROVE id[2] > 0
  <2>1. Change(x, id)
    OBVIOUS
  <2>2. \A p \in Pods : Own(p) = "bare" => Id(p)[2] > 0
    BY <1>0 DEF Rows, Own
  <2>3. view[x][id] = "bare" => id[2] > 0
    BY ZenonT(30) DEF Rows
  <2> QED BY <1>0, <1>1, <2>1, <2>2, <2>3 DEF Change
<1>2. ASSUME NEW p \in Pods, NEW k \in 0 .. MaxStops, k < inc[p] PROVE view'[p][<<p, k>>] = "none"
  <2>1. Change(p, <<p, k>>)
    BY <1>0
  <2>2. view[p][<<p, k>>] = "none"
    BY <1>2 DEF Rows
  <2>3. \A y \in Pods : <<p, k>> = Id(y) => y = p /\ k = inc[p]
    BY <1>0
  <2> QED BY SMTT(30), <1>0, <1>2, <2>1, <2>2, <2>3 DEF Change
<1>3. ASSUME NEW x \in Pods, NEW q \in Pods, view[x][<<q, 0>>] = Place(q), ~Free(x), Settled(q),
             view[q][<<q, 0>>] = Place(q)
      PROVE  view'[x][<<q, 0>>] = Place(q)
  <2>1. Change(x, <<q, 0>>)
    BY <1>0
  <2>2. <<q, 0>> \notin stale /\ inc[q] = 0
    BY <1>3 DEF Settled
  <2>3. \A y \in Pods : <<q, 0>> = Id(y) => Own(y) = Place(q)
    BY <1>3 DEF Own, Id
  <2> QED BY <1>0, <1>3, <2>1, <2>2, <2>3 DEF Change
<1>4. ASSUME stops = 0, NEW x \in Pods, NEW q \in Pods PROVE view'[x][<<q, 0>>] = Place(q)
  <2>1. /\ ~Free(x) /\ Settled(q)
        /\ view[x][<<q, 0>>] = Place(q) /\ view[q][<<q, 0>>] = Place(q)
    <3>1. \A y \in Pods : Settled(y)
      BY <1>4 DEF Rows
    <3>2. inc[x] = 0
      BY <3>1 DEF Settled
    <3>3. ~Free(x)
      BY <1>4, <3>2 DEF Free
    <3> QED BY <1>4, <3>1, <3>3 DEF Rows
  <2> QED BY <1>3, <2>1
<1>5. ASSUME stops <= 1, NEW p \in Pods, inc[p] > 0, NEW x \in Pods \ {p}, NEW q \in Pods \ {p}
      PROVE  view'[x][<<q, 0>>] = Place(q)
  <2>1. /\ \A y \in Pods \ {p} : Settled(y)
        /\ \A y, z \in Pods \ {p} : view[y][<<z, 0>>] = Place(z)
    BY <1>5 DEF Rows
  <2> HIDE DEF LostInv
  <2>2. inc[x] = 0 /\ Settled(q)
    BY ZenonT(30), <2>1 DEF Settled
  <2>3. view[x][<<q, 0>>] = Place(q) /\ view[q][<<q, 0>>] = Place(q)
    BY <2>1
  <2>4. ~Free(x)
    BY <1>5, <2>2 DEF LostInv, TypeOK, Free
  <2> QED BY <1>3, <2>2, <2>3, <2>4
<1> QED BY <1>1, <1>2, <1>4, <1>5 DEF Rows

\* A settled node stays settled while no pod stops: it is suspected by nobody
\* while it runs, and stays Ready because it is a replica or has slots.
LEMMA SettledStep ==
    ASSUME LostInv, Next, NEW q \in Pods, Settled(q),
           \A p \in Pods : ~Crash(p) /\ ~Evict(p) /\ ~Lose(p)
    PROVE  Settled(q)'
<1> USE DEF podVars, nodeVars, passVars, readVars, apiVars
<1>0. /\ phase \in [Pods -> {"up", "joining", "start", "gone"}]
      /\ q \in Up /\ Id(q) = <<q, 0>> /\ Id(q) \in Ids /\ Own(q) # "bare"
  <2>1. Id(q) = <<q, 0>> /\ Id(q) \in Ids
    BY IdFacts DEF LostInv, Settled, Id
  <2>2. Own(q) # "bare"
    BY <2>1 DEF LostInv, Rows, Own
  <2> QED BY <2>1, <2>2 DEF LostInv, TypeOK, Settled, Up
<1>1. ASSUME NEW p \in Pods, Create(p) \/ Start(p) \/ Probe(p) PROVE Settled(q)'
  <2>1. UNCHANGED <<inc, failing, down, stale>>
    BY <1>1 DEF Create, Start, Probe
  <2>2. phase'[q] = "up"
    BY <1>0, <1>1 DEF Create, Start, Probe, Half, Settled
  <2> QED BY <2>1, <2>2 DEF Settled
<1>2. ASSUME UNCHANGED podVars, <<q, 0>> \notin failing' \cup down' \cup stale'
      PROVE  Settled(q)'
  BY <1>2 DEF Settled
<1>3. ASSUME NEW id \in Ids, Suspect(id) PROVE Settled(q)'
  BY <1>0, <1>2, <1>3 DEF Suspect, Settled
<1>4. ASSUME NEW p \in Pods, Recover(p) \/ Forget(p) PROVE Settled(q)'
  BY <1>2, <1>4 DEF Recover, Forget, Settled
<1>5. ASSUME NEW s \in Pods, CheckNodes(s) PROVE Settled(q)'
  BY <1>2, <1>5 DEF CheckNodes, Settled
<1>6. CASE CheckGuarded \/ CheckStale
  <2>1. UNCHANGED <<podVars, failing>> /\ down' = {} /\ stale' \in {stale, Forgotten}
    BY <1>6 DEF CheckGuarded, CheckStale, Listing
  <2>2. Forgotten \subseteq down
    BY StaleDown DEF LostInv
  <2> QED BY <1>2, <2>1, <2>2 DEF Settled
<1>7. ASSUME UNCHANGED <<podVars, failing, down, stale>> PROVE Settled(q)'
  BY <1>2, <1>7 DEF Settled
<1>8. ASSUME NEW p \in Pods, Assign(p) \/ Reintegrate(p) \/ \E x \in Pods : Learn(x, p)
      PROVE  Settled(q)'
  BY <1>7, <1>8 DEF Assign, Reintegrate, Learn
<1>9. ASSUME NEW s \in Pods, RolesBegin(s) \/ OrphansBegin(s) PROVE Settled(q)'
  BY <1>7, <1>9 DEF RolesBegin, OrphansBegin
<1>10. ASSUME NEW id \in Ids, Age(id) PROVE Settled(q)'
  BY <1>7, <1>10 DEF Age
<1>11. CASE RolesSkip \/ OrphansSkip
  BY <1>7, <1>11 DEF RolesSkip, OrphansSkip
<1> QED BY <1>1, <1>3, <1>4, <1>5, <1>6, <1>8, <1>9, <1>10, <1>11 DEF Next, Operator, Gossip

\* Pods that stop keep Rows.
LEMMA RowsPods ==
    ASSUME LostInv, TypeOK', NEW p \in Pods, Crash(p) \/ Evict(p) \/ Lose(p)
    PROVE  Rows'
<1> USE DEF LostInv, podVars, nodeVars, passVars, readVars, apiVars
<1>0. /\ stops \in Nat /\ inc \in [Pods -> 0 .. MaxStops] /\ view \in [Pods -> [Ids -> Entries]]
      /\ phase \in [Pods -> {"up", "joining", "start", "gone"}]
  BY DEF TypeOK
<1>2. CASE Crash(p) \/ Evict(p)
  <2>1. stops' = stops + 1 /\ UNCHANGED <<inc, view>>
    BY SMTT(30), <1>2 DEF Crash, Evict, Stop
  <2>2. stops' <= 1 => \A q \in Pods : inc'[q] = 0
    <3> SUFFICES ASSUME stops' <= 1 PROVE \A q \in Pods : inc[q] = 0
      BY <2>1
    <3>1. stops = 0
      BY <1>0, <2>1
    <3>2. \A q \in Pods : Settled(q)
      BY ZenonT(30), <3>1 DEF Rows
    <3> HIDE DEF LostInv
    <3> QED BY <3>2, Zenon DEF Settled
  <2> QED BY <1>0, <2>1, <2>2 DEF Rows
<1>3. CASE Lose(p)
  <2> DEFINE new == <<p, inc[p] + 1>>
             own == [Blank EXCEPT ![new] = "bare"]
  <2>1. /\ stops' = stops + 1 /\ p \in Replicas
        /\ phase' = [phase EXCEPT ![p] = "gone"] /\ UNCHANGED <<failing, down, stale>>
        /\ inc' = [inc EXCEPT ![p] = inc[p] + 1] /\ view' = [view EXCEPT ![p] = own]
    BY <1>3 DEF Lose, Stop
  <2>2. inc'[p] = inc[p] + 1 /\ inc[p] \in Nat /\ inc'[p] \in 0 .. MaxStops
    BY <1>0, <2>1 DEF TypeOK
  <2>3. new \in Ids /\ new[1] = p /\ new[2] = inc[p] + 1
    BY <2>2 DEF Ids
  <2>4. own \in [Ids -> {"none", "bare"}] /\ \A id \in Ids : own[id] # "none" => id = new
    BY <2>3 DEF Blank
  <2>5. /\ view'[p] = own
        /\ \A x \in Pods \ {p} : view'[x] = view[x] /\ inc'[x] = inc[x] /\ phase'[x] = phase[x]
    <3> HIDE DEF own
    <3> QED BY <1>0, <2>1
  <2> HIDE DEF own
  <2>6. ASSUME NEW x \in Pods, NEW id \in Ids, view'[x][id] = "bare" PROVE id[2] > 0
    <3>1. CASE x = p
      BY <2>2, <2>3, <2>4, <2>5, <2>6, <3>1
    <3>2. CASE x # p
      BY <2>5, <2>6, <3>2 DEF Rows
    <3> QED BY SMTT(30), <3>1, <3>2
  <2>7. ASSUME NEW x \in Pods, NEW k \in 0 .. MaxStops, k < inc'[x]
        PROVE  view'[x][<<x, k>>] = "none"
    <3>1. CASE x = p
      <4>1. <<x, k>> \in Ids /\ <<x, k>> # new
        BY <2>2, <2>7, <3>1 DEF Ids
      <4> QED BY <2>4, <2>5, <3>1, <4>1
    <3>2. CASE x # p
      BY <2>5, <2>7, <3>2 DEF Rows
    <3> QED BY <3>1, <3>2
  <2>8. \A x \in Pods : inc'[x] > 0 => x \in Replicas
    BY <2>1, <2>5 DEF Rows
  <2>9. stops' # 0
    BY SMTT(30), <1>0, <2>1
  <2>10. ASSUME stops' <= 1, NEW x \in Pods, inc'[x] > 0
         PROVE  /\ \A q \in Pods \ {x} : Settled(q)'
                /\ \A y, q \in Pods \ {x} : view'[y][<<q, 0>>] = Place(q)
    <3>1. stops = 0
      BY <1>0, <2>1, <2>10
    <3>2. /\ \A q \in Pods : Settled(q)
          /\ \A y, q \in Pods : view[y][<<q, 0>>] = Place(q)
      BY SMTT(30), <3>1 DEF Rows
    <3>3. x = p
      <4>1. inc[x] = 0
        BY <3>2, Zenon DEF Settled
      <4> QED BY <2>5, <2>10, <4>1
    <3>4. ASSUME NEW q \in Pods \ {x} PROVE Settled(q)'
      <4>1. Settled(q) /\ inc'[q] = inc[q] /\ phase'[q] = phase[q]
        BY <2>5, <3>2, <3>3
      <4> QED BY ZenonT(30), <2>1, <4>1 DEF Settled
    <3> QED BY <2>5, <3>2, <3>3, <3>4
  <2> QED BY ZenonT(30), <2>6, <2>7, <2>8, <2>9, <2>10 DEF Rows
<1> QED BY <1>2, <1>3

\* An order to a pod that has no place to lose changes its own line only.
LEMMA Ordered ==
    ASSUME LostInv, NEW p \in Pods, NEW v, NEW m \in BestMasters(v), TopologySet(p, v, m),
           Free(p)
    PROVE  \A x \in Pods, id \in Ids : Change(x, id)
<1>1. m \in Primaries
  BY DEF BestMasters, Masters
<1>2. view' = view \/ view' = [view EXCEPT ![p][Id(p)] = m]
  BY <1>1, TopologySetFacts DEF LostInv
<1>3. view \in [Pods -> [Ids -> Entries]] /\ Id(p) \in Ids
  BY IdFacts DEF LostInv, TypeOK
<1> TAKE x \in Pods, id \in Ids
<1>4. view'[x][id] = view[x][id] \/ (x = p /\ id = Id(p) /\ view'[x][id] = m)
  BY <1>2, <1>3
<1> QED BY <1>1, <1>4 DEF Change

\* Gossip, CLUSTER FORGET and assignments change tables as Change says.
LEMMA StepChanges ==
    ASSUME LostInv, NEW p \in Pods,
           Forget(p) \/ Assign(p) \/ \E q \in Pods : Learn(q, p)
    PROVE  \A x \in Pods, id \in Ids : Change(x, id)
<1>0. view \in [Pods -> [Ids -> Entries]] /\ \A x \in Pods : Id(x) \in Ids
  BY IdFacts DEF LostInv, TypeOK
<1>1. CASE Forget(p)
  <2> DEFINE own == [id \in Ids |-> IF id \in stale \ {Id(p)} THEN "none" ELSE view[p][id]]
  <2>1. view' = view \/ view' = [view EXCEPT ![p] = own]
    BY SMTT(30), <1>1 DEF Forget
  <2>2. \A id \in Ids : own[id] = view[p][id] \/ (own[id] = "none" /\ id \in stale /\ id # Id(p))
    OBVIOUS
  <2> HIDE DEF own
  <2>3. \A x \in Pods : view'[x] = view[x] \/ (x = p /\ view'[x] = own)
    BY <1>0, <2>1
  <2> QED BY <2>2, <2>3 DEF Change
<1>2. CASE Assign(p)
  <2>1. UNCHANGED view \/ \E v : \E m \in BestMasters(v) : TopologySet(p, v, m)
    BY SMTT(30), <1>2 DEF Assign
  <2>2. Free(p)
    BY <1>2 DEF Assign, LostInv, Reads, Free
  <2> QED BY <2>1, <2>2, Ordered DEF Change
<1>3. ASSUME NEW q \in Pods, Learn(q, p) PROVE \A x \in Pods, id \in Ids : Change(x, id)
  <2>1. view' = [view EXCEPT ![q][Id(p)] = Own(p)] /\ p # q
    BY <1>3 DEF Learn
  <2> TAKE x \in Pods, id \in Ids
  <2>2. view'[x][id] = view[x][id] \/ (x = q /\ id = Id(p) /\ view'[x][id] = Own(p))
    BY <1>0, <2>1
  <2> QED BY <2>1, <2>2 DEF Change
<1> QED BY <1>1, <1>2, <1>3

\* While one pod only has stopped, the others are no orphans, because they know
\* the primary they would be given to.
LEMMA NoOtherOrphan ==
    ASSUME LostInv, NEW p \in Pods, Reintegrate(p), inc[p] = 0,
           stops <= 1, NEW l \in Pods, inc[l] > 0
    PROVE  UNCHANGED view
<1> SUFFICES ASSUME Orphan(p), NEW m \in BestMasters(raw) PROVE FALSE
  BY DEF Reintegrate
<1>1. m \in Primaries /\ raw[<<m, 0>>] = "slots" /\ m \in Pods
  BY DEF BestMasters, Masters
<1>2. op = "reintegrate" /\ p \in todo
  BY DEF Reintegrate
<1>3. Rows /\ Reads
  BY DEF LostInv
<1>4. raw[<<p, 0>>] = "none"
  BY <1>2, <1>3 DEF Reads
<1>5. l \in Replicas /\ \A x, q \in Pods \ {l} : view[x][<<q, 0>>] = Place(q)
  BY <1>3 DEF Rows
<1>6. p # m /\ p # l /\ m # l
  BY <1>1, <1>4, <1>5 DEF Replicas
<1>7. view[p][<<p, 0>>] = Place(p) /\ view[p][<<m, 0>>] = Place(m)
  BY <1>1, <1>5, <1>6
<1>8. Knows(p, <<p, 0>>) /\ Knows(p, <<m, 0>>) /\ <<p, 0>> \in Ids /\ <<m, 0>> \in Ids
  BY <1>1, <1>7, PlaceFacts DEF Knows
<1> QED BY <1>6, <1>8, KnowsTwo DEF Orphan

\* Reintegration changes tables as Change says.
LEMMA ReintegrateChanges ==
    ASSUME LostInv, NEW p \in Pods, Reintegrate(p)
    PROVE  \A x \in Pods, id \in Ids : Change(x, id)
<1>1. UNCHANGED view \/ \E v : \E m \in BestMasters(v) : TopologySet(p, v, m)
  BY DEF Reintegrate
<1>2. CASE Free(p)
  BY SMTT(30), <1>1, <1>2, Ordered DEF Change
<1>3. CASE ~Free(p)
  <2>1. stops # 0
    BY DEF LostInv, Reads, Reintegrate
  <2>2. stops <= 1 /\ inc[p] = 0 /\ \E l \in Pods : inc[l] > 0
    BY <1>3, <2>1 DEF Free, LostInv, TypeOK
  <2> QED BY <2>2, NoOtherOrphan DEF Change
<1> QED BY <1>2, <1>3

\* Every step keeps Rows.
LEMMA RowsStep == LostInv /\ TypeOK' /\ [Next]_vars => Rows'
<1> SUFFICES ASSUME LostInv, TypeOK', [Next]_vars PROVE Rows'
  OBVIOUS
<1> USE DEF podVars, nodeVars, passVars, readVars, apiVars
<1>1. ASSUME NEW p \in Pods, Crash(p) \/ Evict(p) \/ Lose(p) PROVE Rows'
  BY <1>1, RowsPods
<1> SUFFICES ASSUME \A p \in Pods : ~Crash(p) /\ ~Evict(p) /\ ~Lose(p) PROVE Rows'
  BY <1>1
<1>2. \A q \in Pods : Settled(q) => Settled(q)'
  <2>1. CASE Next
    BY <2>1, SettledStep
  <2>2. CASE UNCHANGED vars
    BY <2>2 DEF vars, Settled
  <2> QED BY <2>1, <2>2
<1>3. ASSUME UNCHANGED <<inc, stops>>, \A x \in Pods, id \in Ids : Change(x, id) PROVE Rows'
  BY <1>2, <1>3, RowsChange
<1>4. ASSUME UNCHANGED <<inc, stops, view>> PROVE Rows'
  BY <1>3, <1>4 DEF Change
<1>5. ASSUME NEW p \in Pods, Forget(p) \/ Assign(p) \/ (\E q \in Pods : Learn(q, p)) PROVE Rows'
  <2>1. UNCHANGED podVars
    BY <1>5 DEF Forget, Assign, Learn
  <2> QED BY <1>3, <1>5, <2>1, StepChanges
<1>6. ASSUME NEW p \in Pods, Reintegrate(p) PROVE Rows'
  <2>1. UNCHANGED podVars
    BY <1>6 DEF Reintegrate
  <2> QED BY <1>3, <1>6, <2>1, ReintegrateChanges
<1>7. ASSUME NEW s \in Pods, CheckNodes(s) \/ RolesBegin(s) \/ OrphansBegin(s) PROVE Rows'
  BY <1>4, <1>7 DEF CheckNodes, RolesBegin, OrphansBegin
<1>8. ASSUME NEW p \in Pods, Recover(p) \/ Create(p) \/ Start(p) \/ Probe(p) PROVE Rows'
  BY <1>4, <1>8 DEF Recover, Create, Start, Probe
<1>9. ASSUME NEW id \in Ids, Suspect(id) \/ Age(id) PROVE Rows'
  BY <1>4, <1>9 DEF Suspect, Age
<1>10. CASE CheckGuarded \/ CheckStale
  BY <1>4, <1>10 DEF CheckGuarded, CheckStale, Listing
<1>11. CASE RolesSkip \/ OrphansSkip \/ UNCHANGED vars
  BY <1>4, <1>11 DEF RolesSkip, OrphansSkip, vars
<1> QED BY <1>5, <1>6, <1>7, <1>8, <1>9, <1>10, <1>11 DEF Next, Operator, Gossip

\* Every step keeps Reads.
LEMMA ReadsStep == LostInv /\ TypeOK' /\ [Next]_vars => Reads'
<1> SUFFICES ASSUME LostInv, TypeOK', [Next]_vars PROVE Reads'
  OBVIOUS
<1> USE DEF podVars, nodeVars, passVars, readVars, apiVars, LostInv
<1>1. ASSUME NEW p \in Pods, Crash(p) \/ Evict(p) \/ Lose(p) PROVE Reads'
  <2>1. stops' = stops + 1 /\ UNCHANGED <<passVars, raw>>
    BY <1>1 DEF Crash, Evict, Lose, Stop
  <2>2. \A q \in Pods : inc[q] > 0 => inc'[q] > 0
    <3>1. inc' = inc \/ inc' = [inc EXCEPT ![p] = inc[p] + 1]
      BY <1>1 DEF Crash, Evict, Lose
    <3>2. inc \in [Pods -> 0 .. MaxStops]
      BY DEF TypeOK
    <3> QED BY <3>1, <3>2
  <2>3. stops' # 0 /\ (stops' <= 1 => op' # "reintegrate")
    BY <2>1 DEF Reads, TypeOK
  <2> QED BY <2>1, <2>2, <2>3 DEF Reads, TypeOK
<1>2. ASSUME UNCHANGED <<inc, stops, raw>>,
             todo' \subseteq todo, op' \in {op, "health", "list", "forget", "roles", "orphans"}
      PROVE  Reads'
  BY <1>2 DEF Reads
<1>3. ASSUME NEW p \in Pods,
             Create(p) \/ Start(p) \/ Probe(p) \/ Recover(p) \/ \E q \in Pods : Learn(q, p)
      PROVE  Reads'
  BY <1>2, <1>3 DEF Create, Start, Probe, Recover, Learn
<1>4. ASSUME NEW id \in Ids, Suspect(id) \/ Age(id) PROVE Reads'
  BY SMTT(30), <1>2, <1>4 DEF Suspect, Age
<1>5. ASSUME op' \in {"health", "list", "forget", "roles", "orphans"} PROVE Reads'
  BY ZenonT(30), <1>5 DEF Reads
<1>6. (\E s \in Pods : CheckNodes(s)) \/ CheckGuarded \/ CheckStale => Reads'
  BY <1>5 DEF CheckNodes, CheckGuarded, CheckStale
<1>7. ASSUME NEW q \in Pods, Forget(q) PROVE Reads'
  BY <1>2, <1>7 DEF Forget
<1>8. CASE RolesSkip \/ OrphansSkip
  BY <1>5, <1>8 DEF RolesSkip, OrphansSkip, EndRoles, EndPass
<1>9. ASSUME NEW s \in Pods, RolesBegin(s) PROVE Reads'
  <2>1. op' = "orphans" \/ (op' = "assign" /\ todo' = Slotless(view[s]))
    BY <1>9 DEF RolesBegin, EndRoles
  <2>2. \A p \in Slotless(view[s]) : inc[p] > 0
    <3> TAKE p \in Slotless(view[s])
    <3>1. p \in Pods /\ view[s][Id(p)] = "bare"
      BY DEF Slotless, Bare
    <3>2. Id(p) \in Ids /\ Id(p)[2] = inc[p]
      BY <3>1, IdFacts
    <3> QED BY <3>1, <3>2 DEF Rows
  <2>3. UNCHANGED inc
    BY <1>9 DEF RolesBegin
  <2> QED BY <1>5, <2>1, <2>2, <2>3 DEF Reads
<1>10. ASSUME NEW p \in Pods, Assign(p) PROVE Reads'
  BY <1>2, <1>5, <1>10 DEF Assign, EndRoles
<1>11. ASSUME NEW p \in Pods, Reintegrate(p) PROVE Reads'
  BY SMTT(30), <1>2, <1>5, <1>11 DEF Reintegrate, EndPass
<1>12. ASSUME NEW s \in Pods, OrphansBegin(s), op' # "health" PROVE Reads'
  <2> DEFINE T == Pods \ ({s} \cup Listed(view[s]))
  <2>1. op' = "reintegrate" /\ raw' = view[s] /\ todo' = T /\ T # {} /\ UNCHANGED <<inc, stops>>
    BY <1>12 DEF OrphansBegin, EndPass
  <2>2. \A p \in T, k \in 0 .. MaxStops : view[s][<<p, k>>] = "none"
    BY ZenonT(30) DEF Listed
  <2>3. \A x \in T : x \in Pods /\ x # s
    OBVIOUS
  <2> HIDE DEF T
  <2>4. stops # 0
    <3> SUFFICES ASSUME stops = 0 PROVE FALSE
      OBVIOUS
    <3>1. PICK x \in T : x \in Pods
      BY <2>1, <2>3
    <3>2. view[s][<<x, 0>>] = Place(x) /\ 0 \in 0 .. MaxStops
      BY <3>1 DEF Rows
    <3> QED BY <2>2, <3>1, <3>2, PlaceFacts
  <2>5. ASSUME stops <= 1, NEW p \in T, inc[p] > 0, NEW q \in Pods \ {p}
        PROVE  view[s][<<q, 0>>] = Place(q) /\ \A k \in 1 .. MaxStops : view[s][<<q, k>>] = "none"
    <3>1. p \in Pods /\ s \in Pods \ {p}
      BY <2>3
    <3>2. inc[q] = 0 /\ view[s][<<q, 0>>] = Place(q)
      <4>1. Settled(q) /\ view[s][<<q, 0>>] = Place(q)
        BY <2>5, <3>1 DEF Rows
      <4> QED BY <4>1 DEF Settled
    <3>3. ASSUME NEW k \in 1 .. MaxStops PROVE view[s][<<q, k>>] = "none"
      <4>1. <<q, k>> \in Ids /\ <<q, k>>[1] = q /\ <<q, k>>[2] = k
        BY DEF Ids
      <4>2. ~ (k <= inc[q])
        BY <3>2
      <4> QED BY <4>1, <4>2 DEF Behind
    <3> QED BY <3>2, <3>3
  <2> QED BY <2>1, <2>2, <2>4, <2>5 DEF Reads
<1>13. CASE UNCHANGED vars
  BY <1>2, <1>13 DEF vars
<1> QED BY SMTT(30), <1>1, <1>3, <1>4, <1>5, <1>6, <1>7, <1>8, <1>9, <1>10, <1>11, <1>12, <1>13
        DEF Next, Operator, Gossip

\* LostInv is inductive.
LEMMA LostStep == LostInv /\ [Next]_vars => LostInv'
<1>1. LostInv /\ [Next]_vars => TypeOK' /\ Behind'
  BY InvStep DEF LostInv
<1> QED BY <1>1, RowsStep, ReadsStep DEF LostInv

\* A table that lists all nodes but the lost one in their places, and the lost
\* one as no replica, has the right number of replicas for every primary.
LEMMA CountsRight ==
    ASSUME LostInv, stops <= 1, NEW p \in Pods, inc[p] > 0, Own(p) = "bare",
           NEW v \in [Ids -> Entries],
           \A q \in Pods \ {p} : /\ v[<<q, 0>>] = Place(q)
                                  /\ \A k \in 1 .. MaxStops : v[<<q, k>>] = "none",
           \A k \in 0 .. MaxStops : v[<<p, k>>] \notin Primaries
    PROVE  Masters(v) = Primaries /\ \A m \in Primaries : Count(v, m) = Has(m)
<1>0. Primaries \cap {"bare", "none", "slots"} = {} /\ 0 \in 0 .. MaxStops
  OBVIOUS
<1>1. p \in Replicas /\ \A q \in Pods \ {p} : Own(q) = Place(q)
  <2>1. p \in Replicas /\ \A q \in Pods \ {p} : Settled(q) /\ view[q][<<q, 0>>] = Place(q)
    BY DEF LostInv, Rows
  <2> QED BY ZenonT(30), <2>1 DEF Own, Id, Settled
<1>2. Masters(v) = Primaries
  <2>1. \A m \in Primaries : m \in Pods \ {p} /\ Place(m) = "slots"
    BY <1>1 DEF Replicas, Place
  <2> QED BY <2>1 DEF Masters
<1>3. ASSUME NEW m \in Primaries PROVE Count(v, m) = Has(m)
  <2> DEFINE A == {id \in Ids : v[id] = m}
             B == {q \in Replicas : Own(q) = m}
             f == [q \in B |-> <<q, 0>>]
  <2>1. ASSUME NEW q \in B PROVE q \in Pods \ {p} /\ <<q, 0>> \in A
    <3>1. q \in Pods \ {p} /\ Own(q) = m
      BY <1>0 DEF Replicas
    <3>2. v[<<q, 0>>] = m /\ <<q, 0>> \in Ids
      BY <1>1, <3>1, PlaceFacts
    <3> QED BY <3>1, <3>2
  <2>2. ASSUME NEW id \in A PROVE \E q \in B : <<q, 0>> = id
    <3>1. PICK q \in Pods, k \in 0 .. MaxStops : id = <<q, k>>
      BY DEF Ids
    <3>2. v[<<q, k>>] = m
      BY <3>1
    <3>3. q # p
      BY <3>2
    <3>4. k = 0
      <4> SUFFICES ASSUME k # 0 PROVE FALSE
        OBVIOUS
      <4>1. k \in 1 .. MaxStops
        OBVIOUS
      <4> QED BY ZenonT(30), <1>0, <3>2, <3>3, <4>1
    <3>5. Place(q) = m /\ Own(q) = m
      BY <1>1, <3>2, <3>3, <3>4
    <3>6. q \in Replicas
      BY <1>0, <3>5, PlaceFacts DEF Replicas
    <3> QED BY <3>1, <3>4, <3>5, <3>6
  <2>3. IsFiniteSet(B)
    <3>1. B \in SUBSET Pods
      BY DEF Replicas
    <3> QED BY <3>1, Finite, FS_Subset
  <2>4. Count(v, m) = Cardinality(A) /\ Has(m) = Cardinality(B)
    BY DEF Count, Has
  <2> HIDE DEF A, B
  <2>5. f \in Bijection(B, A)
    <3>1. f \in [B -> A]
      BY <2>1
    <3>2. \A a, b \in B : f[a] = f[b] => a = b
      OBVIOUS
    <3>3. \A id \in A : \E q \in B : f[q] = id
      BY <2>2
    <3> HIDE DEF f
    <3>4. f \in Injection(B, A)
      BY <3>1, <3>2 DEF Injection, IsInjective
    <3>5. f \in Surjection(B, A)
      BY <3>1, <3>3 DEF Surjection
    <3> QED BY <3>4, <3>5 DEF Bijection
  <2>6. ExistsBijection(B, A)
    BY <2>5 DEF ExistsBijection
  <2> QED BY <2>3, <2>4, <2>6, FS_Bijection
<1> QED BY <1>2, <1>3

\* Only an order of the pass makes a master without slots a replica.
LEMMA OrderedBy ==
    ASSUME LostInv, [Next]_vars, NEW p \in Pods, Own(p) = "bare", Own(p)' \in Primaries
    PROVE  \/ \E s \in Up : Own(p)' \in BestMasters(view[s]) /\ p \in Up
           \/ op = "reintegrate" /\ p \in todo /\ Own(p)' \in BestMasters(raw)
<1> USE DEF podVars, nodeVars, passVars, readVars, apiVars
<1>0. /\ view \in [Pods -> [Ids -> Entries]] /\ inc \in [Pods -> 0 .. MaxStops]
      /\ \A x \in Pods : Id(x) \in Ids /\ Id(x)[1] = x
      /\ "bare" \notin Primaries
  BY IdFacts DEF LostInv, TypeOK
<1>1. Own(p)' # Own(p)
  BY <1>0
<1>2. ASSUME UNCHANGED inc, view'[p][Id(p)] = view[p][Id(p)] PROVE FALSE
  BY ZenonT(30), <1>1, <1>2 DEF Own, Id
<1>3. ASSUME NEW q \in Pods, Crash(q) \/ Evict(q) \/ Create(q) \/ Start(q) \/ Probe(q) \/ Recover(q)
      PROVE FALSE
  BY <1>2, <1>3 DEF Crash, Evict, Create, Start, Probe, Recover
<1>4. ASSUME NEW q \in Pods, Lose(q) PROVE FALSE
  <2> DEFINE new == <<q, inc[q] + 1>>
             own == [Blank EXCEPT ![new] = "bare"]
  <2>1. inc' = [inc EXCEPT ![q] = inc[q] + 1] /\ view' = [view EXCEPT ![q] = own]
    BY <1>4 DEF Lose
  <2>2. TypeOK'
    BY InvStep DEF LostInv
  <2>3. CASE p = q
    <3>1. inc'[p] = inc[p] + 1 /\ <<p, inc'[p]>> \in Ids
      BY <1>0, <2>1, <2>2, <2>3 DEF TypeOK, Ids
    <3>2. view'[p] = own
      BY <1>0, <2>1, <2>3
    <3>3. Own(p)' = own[new]
      BY <2>3, <3>1, <3>2 DEF Own, Id
    <3>4. own[new] = "bare"
      BY <2>3, <3>1 DEF Blank
    <3> QED BY SMTT(30), <1>0, <3>3, <3>4
  <2>4. CASE p # q
    <3> HIDE DEF own
    <3>1. inc'[p] = inc[p] /\ view'[p] = view[p]
      BY <1>0, <2>1, <2>4
    <3> QED BY <1>1, <3>1 DEF Own, Id
  <2> QED BY <2>3, <2>4
<1>5. ASSUME NEW x \in Pods, NEW q \in Pods, Learn(q, x) PROVE FALSE
  <2>1. view' = [view EXCEPT ![q][Id(x)] = Own(x)] /\ x # q /\ UNCHANGED inc
    BY <1>5 DEF Learn
  <2>2. q = p => Id(x) # Id(p)
    BY ZenonT(30), <1>0, <2>1
  <2>3. view'[p][Id(p)] = view[p][Id(p)]
    BY <1>0, <2>1, <2>2
  <2> QED BY <1>2, <2>1, <2>3
<1>6. ASSUME NEW q \in Pods, Forget(q) PROVE FALSE
  <2> DEFINE own == [id \in Ids |-> IF id \in stale \ {Id(q)} THEN "none" ELSE view[q][id]]
  <2>1. (view' = view \/ view' = [view EXCEPT ![q] = own]) /\ UNCHANGED inc
    BY <1>6 DEF Forget
  <2>2. own[Id(q)] = view[q][Id(q)]
    BY <1>0
  <2> HIDE DEF own
  <2>3. view'[p][Id(p)] = view[p][Id(p)]
    BY SMTT(30), <1>0, <2>1, <2>2
  <2> QED BY <1>2, <2>1, <2>3
<1>7. ASSUME NEW q \in Pods, NEW v, NEW m \in BestMasters(v), TopologySet(q, v, m), UNCHANGED inc
      PROVE  p = q /\ Own(p)' = m
  <2>1. m \in Primaries
    BY DEF BestMasters, Masters
  <2>2. view' = view \/ view' = [view EXCEPT ![q][Id(q)] = m]
    BY <1>7, <2>1, TopologySetFacts DEF LostInv
  <2>3. view' = [view EXCEPT ![q][Id(q)] = m]
    BY <1>2, <1>7, <2>2
  <2>4. p = q
    BY <1>0, <1>2, <1>7, <2>3
  <2>5. view'[p][Id(p)] = m
    BY <1>0, <2>3, <2>4
  <2> QED BY <1>7, <2>4, <2>5 DEF Own, Id
<1>8. ASSUME NEW q \in Pods, Assign(q)
      PROVE  \E s \in Up : Own(p)' \in BestMasters(view[s]) /\ p \in Up
  <2>1. UNCHANGED inc
    BY <1>8 DEF Assign
  <2>2. ~UNCHANGED view
    BY <1>2, <2>1
  <2>3. PICK s \in Up : \E m \in BestMasters(view[s]) : q \in Up /\ TopologySet(q, view[s], m)
    <3>1. Ready \subseteq Up
      BY DEF Ready, Up
    <3> QED BY ZenonT(30), <1>8, <2>2, <3>1 DEF Assign
  <2> QED BY <1>7, <2>1, <2>3
<1>9. ASSUME NEW q \in Pods, Reintegrate(q)
      PROVE  op = "reintegrate" /\ p \in todo /\ Own(p)' \in BestMasters(raw)
  <2>1. UNCHANGED inc /\ op = "reintegrate" /\ q \in todo
    BY <1>9 DEF Reintegrate
  <2>2. ~UNCHANGED view
    BY <1>2, <2>1
  <2>3. PICK m \in BestMasters(raw) : TopologySet(q, raw, m)
    BY SMTT(30), <1>9, <2>2 DEF Reintegrate
  <2> QED BY <1>7, <2>1, <2>3
<1>10. ASSUME NEW s \in Pods, CheckNodes(s) \/ RolesBegin(s) \/ OrphansBegin(s) PROVE FALSE
  BY SMTT(30), <1>2, <1>10 DEF CheckNodes, RolesBegin, OrphansBegin
<1>11. ASSUME NEW id \in Ids, Suspect(id) \/ Age(id) PROVE FALSE
  BY ZenonT(30), <1>2, <1>11 DEF Suspect, Age
<1>12. ~ (CheckGuarded \/ CheckStale \/ RolesSkip \/ OrphansSkip \/ UNCHANGED vars)
  BY <1>2 DEF CheckGuarded, CheckStale, Listing, RolesSkip, OrphansSkip, vars
<1> QED BY SMTT(30), <1>3, <1>4, <1>5, <1>6, <1>8, <1>9, <1>10, <1>11, <1>12
        DEF Next, Operator, Gossip

\* The table of a master without slots places none of its own ids.
LEMMA OwnRow ==
    ASSUME LostInv, NEW p \in Pods, Own(p) = "bare"
    PROVE  \A k \in 0 .. MaxStops : view[p][<<p, k>>] \notin Primaries
<1>1. inc[p] \in 0 .. MaxStops /\ "bare" \notin Primaries /\ "none" \notin Primaries
  BY DEF LostInv, TypeOK
<1>2. Behind /\ Rows
  BY DEF LostInv
<1> TAKE k \in 0 .. MaxStops
<1>3. CASE k < inc[p]
  <2>1. view[p][<<p, k>>] = "none"
    BY Zenon, <1>2, <1>3 DEF Rows
  <2> QED BY <1>1, <2>1
<1>4. CASE k = inc[p]
  <2>1. view[p][<<p, k>>] = "bare"
    BY Zenon, <1>4 DEF Own, Id
  <2> QED BY <1>1, <2>1
<1>5. CASE k > inc[p]
  <2>1. <<p, k>> \in Ids /\ <<p, k>>[1] = p /\ <<p, k>>[2] = k /\ ~(k <= inc[p])
    BY <1>1, <1>5 DEF Ids
  <2>2. view[p][<<p, k>>] = "none"
    BY <1>2, <2>1 DEF Behind
  <2> QED BY <1>1, <2>2
<1> QED BY <1>1, <1>3, <1>4, <1>5

\* A step that gives a lost replica a primary gives it one with the fewest.
LEMMA PlacedStep ==
    ASSUME LostInv, [Next]_vars, stops <= 1, \A q, x \in Up : view[q] = view[x],
           NEW p \in Replicas
    PROVE  Helps(p)
<1> SUFFICES ASSUME Own(p) = "bare", Own(p)' \in Primaries
             PROVE  \A m \in Primaries : Has(Own(p)') <= Has(m)
  BY DEF Helps
<1>0. /\ p \in Pods /\ Id(p) \in Ids /\ Id(p)[2] = inc[p] /\ inc[p] \in Nat
      /\ "bare" \notin Primaries /\ "none" \notin Primaries
  <2>1. p \in Pods
    BY Zenon DEF Replicas
  <2>2. TypeOK
    BY Zenon DEF LostInv
  <2>3. Id(p) \in Ids /\ Id(p)[2] = inc[p]
    BY <2>1, <2>2, IdFacts, ZenonT(30)
  <2>4. inc[p] \in Nat
    BY <2>1, <2>2 DEF TypeOK
  <2>5. "bare" \notin Primaries /\ "none" \notin Primaries
    BY RepairAssumption
  <2> QED BY <2>1, <2>3, <2>4, <2>5, Zenon
<1>1. inc[p] > 0
  <2>1. view[p][Id(p)] = "bare"
    BY Zenon DEF Own
  <2>2. \A x \in Pods, id \in Ids : view[x][id] = "bare" => id[2] > 0
    BY Zenon DEF LostInv, Rows
  <2>3. Id(p)[2] > 0
    BY <1>0, <2>1, <2>2, Zenon
  <2> QED BY <1>0, <2>3, Zenon
<1>2. \A q \in Pods \ {p} : q \in Up /\ inc[q] = 0 /\ view[q][<<q, 0>>] = Place(q)
  <2>1. /\ \A q \in Pods \ {p} : Settled(q)
        /\ \A x, q \in Pods \ {p} : view[x][<<q, 0>>] = Place(q)
    BY SMTT(30), <1>0, <1>1 DEF LostInv, Rows
  <2> QED BY ZenonT(30), <2>1 DEF Up, Settled
<1>3. \A x, q \in Pods, k \in 0 .. MaxStops : k > inc[q] => view[x][<<q, k>>] = "none"
  <2> SUFFICES ASSUME NEW x \in Pods, NEW q \in Pods, NEW k \in 0 .. MaxStops, k > inc[q]
               PROVE  view[x][<<q, k>>] = "none"
    BY ZenonT(30)
  <2>1. <<q, k>> \in Ids /\ <<q, k>>[1] = q /\ <<q, k>>[2] = k /\ inc[q] \in Nat
    BY DEF Ids, LostInv, TypeOK
  <2> QED BY SMTT(30), <2>1 DEF LostInv, Behind
<1>4. ASSUME NEW v \in [Ids -> Entries], Own(p)' \in BestMasters(v),
             Masters(v) = Primaries, \A m \in Primaries : Count(v, m) = Has(m)
      PROVE  \A m \in Primaries : Has(Own(p)') <= Has(m)
  BY <1>4 DEF BestMasters
<1>5. ASSUME NEW s \in Up, Own(p)' \in BestMasters(view[s]), p \in Up
      PROVE  \A m \in Primaries : Has(Own(p)') <= Has(m)
  <2>1. s \in Pods /\ view[s] = view[p] /\ view[s] \in [Ids -> Entries]
    BY SMTT(30), <1>5 DEF Up, LostInv, TypeOK
  <2>2. ASSUME NEW q \in Pods \ {p}
        PROVE  view[s][<<q, 0>>] = Place(q) /\ \A k \in 1 .. MaxStops : view[s][<<q, k>>] = "none"
    <3>1. view[s] = view[q] /\ inc[q] = 0 /\ view[q][<<q, 0>>] = Place(q)
      BY <1>2
    <3>2. \A k \in 1 .. MaxStops : k \in 0 .. MaxStops /\ k > 0
      OBVIOUS
    <3>3. \A k \in 1 .. MaxStops : view[q][<<q, k>>] = "none"
      BY <1>3, <3>1, <3>2
    <3> QED BY <3>1, <3>3
  <2>3. \A k \in 0 .. MaxStops : view[s][<<p, k>>] \notin Primaries
    BY <1>0, <2>1, OwnRow
  <2>4. Masters(view[s]) = Primaries /\ \A m \in Primaries : Count(view[s], m) = Has(m)
    BY <1>0, <1>1, <2>1, <2>2, <2>3, CountsRight
  <2> QED BY <1>4, <1>5, <2>1, <2>4
<1>6. ASSUME op = "reintegrate", p \in todo, Own(p)' \in BestMasters(raw)
      PROVE  \A m \in Primaries : Has(Own(p)') <= Has(m)
  <2>1. raw \in [Ids -> Entries] /\ \A k \in 0 .. MaxStops : raw[<<p, k>>] \notin Primaries
    BY <1>0, <1>6 DEF LostInv, TypeOK, Reads
  <2>2. \A q \in Pods \ {p} : /\ raw[<<q, 0>>] = Place(q)
                              /\ \A k \in 1 .. MaxStops : raw[<<q, k>>] = "none"
    BY ZenonT(30), <1>1, <1>6 DEF LostInv, Reads
  <2>3. Masters(raw) = Primaries /\ \A m \in Primaries : Count(raw, m) = Has(m)
    BY <1>0, <1>1, <2>1, <2>2, CountsRight
  <2> QED BY <1>4, <1>6, <2>1, <2>3
<1> QED BY <1>0, <1>5, <1>6, OrderedBy

\* While one replica only was lost and the tables agree, it is made a replica
\* of a primary that has the fewest, whether reconcileReplicaRoles assigns it
\* or reconcileOrphanReplicas lets it join from a table it read before, for any
\* number of shards and of replicas of each.
THEOREM Placed == Spec => PlacedWhenAgreed
<1> DEFINE Good == stops <= 1 /\ (\A q, x \in Up : view[q] = view[x])
                     => \A p \in Replicas : Helps(p)
<1>1. Init => LostInv
  BY InitLost
<1>2. LostInv /\ [Next]_vars => LostInv'
  BY LostStep
<1>3. LostInv /\ [Next]_vars => [Good]_vars
  BY PlacedStep
<1> QED BY <1>1, <1>2, <1>3, PTL DEF Spec, PlacedWhenAgreed
=============================================================================
