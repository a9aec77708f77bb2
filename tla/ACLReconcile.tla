---------------------------- MODULE ACLReconcile ----------------------------
(***************************************************************************)
(* How the users of a ValkeyCluster reach its pods: baked into valkey.conf *)
(* through the ConfigMap (internal/controller/configmap.go), which a       *)
(* container reads when it starts, and pushed to live pods by reconcileACLs *)
(* (internal/controller/acl.go), which skips old pods while the hash in    *)
(* the acl-hash annotation is current.                                     *)
(*                                                                         *)
(* The Secrets and spec.aclUsers go through versions 1 to Last. A version  *)
(* gives each of its users, the metrics account included, an entry: the    *)
(* password, the key patterns, and the commands whose last rule is a plus  *)
(* or a minus. A version's number stands for its hash.                     *)
(***************************************************************************)
EXTENDS Integers

CONSTANTS
    Pods,         \* the pods of the StatefulSet
    Last,         \* the last version of the configuration
    Names,        \* names of users
    Users,        \* the entry of each user of each version
    Op,           \* the operator password of each version
    FaultKinds,   \* faults the environment may inject
    MaxFaults     \* how many of them

AllKeys   == "~*"
Versions  == 1 .. Last
Passwords == {Op[v] : v \in Versions}
NoPod     == "none"

ASSUME ConfigAssumption ==
    /\ Last \in Nat \ {0}
    /\ DOMAIN Users = Versions /\ DOMAIN Op = Versions
    /\ \A v \in Versions :
         /\ DOMAIN Users[v] \subseteq Names /\ DOMAIN Users[v] # {}
         /\ \A n \in DOMAIN Users[v] : Users[v][n].plus \cap Users[v][n].minus = {}
    /\ NoPod \notin Pods
    /\ FaultKinds \subseteq {"restart", "recreate", "deaf", "api"}
    /\ MaxFaults \in Nat

VARIABLES
    cur,        \* version of the Secrets and spec.aclUsers
    cm, vol,    \* version in the ConfigMap, and in each pod's volume of it
    ann,        \* version whose hash is in the annotation, 0 for none
    running,    \* pods whose phase is Running
    old,        \* pods older than aclSkipAge
    acl, ops,   \* per pod: its users, accepted operator passwords
    gate,       \* pods that do not redirect clients yet
    deaf, faults,
    \* the pass: place, resolved version, pods left to do, pod connected to,
    \* users left to set, pods done, connection lost
    pc, want, todo, conn, left, applied, lost,
    met,        \* history: pods whose running container some pass has listed
    missed      \* history: pods that a pass failed on, or whose container the first
                \* pass to list it skipped, with no success since

podVars  == <<running, old, acl, ops, gate, vol, met>>
envVars  == <<deaf, faults>>
passVars == <<pc, want, todo, conn, left, applied, lost, missed>>
vars == <<cur, cm, ann, podVars, envVars, passVars>>

-----------------------------------------------------------------------------
\* External: users of a Valkey node

NoUser == [pws |-> {}, keys |-> {}, cmds |-> {}]

\* what valkey.conf makes of an entry, and of a whole version
Loaded(e) == [pws |-> {e.pw}, keys |-> e.keys, cmds |-> e.plus]
Baked(v)  == [n \in Names |-> IF n \in DOMAIN Users[v] THEN Loaded(Users[v][n]) ELSE NoUser]

\* ACL SETUSER with the rules of buildACLRules: passwords and patterns are added,
\* commands added or taken away; a pattern beside ~* is refused, and then the
\* user stays as it is
Refused(u, e) == AllKeys \in u.keys /\ \E k \in e.keys : k # AllKeys
Updated(u, e) ==
    [pws  |-> u.pws \cup {e.pw},
     keys |-> IF AllKeys \in e.keys THEN {AllKeys} ELSE u.keys \cup e.keys,
     cmds |-> (u.cmds \cup e.plus) \ e.minus]

\* the user may do all that the entry gives
Grants(u, e) ==
    /\ e.pw \in u.pws /\ e.plus \subseteq u.cmds
    /\ AllKeys \in u.keys \/ e.keys \subseteq u.keys

Active(A) == {n \in Names : A[n] # NoUser}

-----------------------------------------------------------------------------
Init ==
    /\ cur = 1 /\ cm = 1 /\ ann = 0
    /\ vol = [p \in Pods |-> 1]
    /\ running = Pods /\ old = {} /\ met = {}
    /\ acl = [p \in Pods |-> Baked(1)] /\ ops = [p \in Pods |-> {Op[1]}]
    /\ gate = Pods
    /\ deaf = {} /\ faults = 0 /\ missed = {}
    /\ pc = "idle" /\ want = 1 /\ todo = {} /\ conn = NoPod
    /\ left = {} /\ applied = {} /\ lost = FALSE

-----------------------------------------------------------------------------
\* The pass

\* reconcileConfigMap: resolve the Secrets and write valkey.conf
WriteConfigMap ==
    /\ pc = "idle"
    /\ cm' = cur /\ pc' = "resolve"
    /\ UNCHANGED <<cur, ann, podVars, envVars, want, todo, conn, left, applied, lost, missed>>

\* mutant: the age alone decides
SkipByAge(p, new) == p \in old

\* shouldSkipACLPod
ShouldSkip(p, new) == ~new /\ p \in old

\* reconcileACLs up to the loop: resolve again, compare hashes, list the pods
ResolveACLs ==
    /\ pc = "resolve"
    /\ want' = cur
    /\ todo' = {p \in running : ~ShouldSkip(p, ann # cur)}
    /\ applied' = {} /\ pc' = "loop"
    /\ met' = met \cup running
    /\ missed' = missed \cup {p \in running \ met : ShouldSkip(p, ann # cur)}
    /\ UNCHANGED <<cur, cm, ann, running, old, acl, ops, gate, vol, envVars, conn, left, lost>>

\* applyACLsOnPod: connect as operator; the fallback without credentials is
\* refused because valkey.conf switches the default account off
CanConnect(p) == p \in running \ deaf /\ Op[want] \in ops[p]

Connect(p) ==
    /\ pc = "loop" /\ p \in todo
    /\ todo' = todo \ {p}
    /\ IF CanConnect(p)
       THEN /\ conn' = p /\ left' = DOMAIN Users[want] /\ lost' = FALSE /\ pc' = "set"
            /\ UNCHANGED missed
       ELSE missed' = missed \cup {p} /\ UNCHANGED <<conn, left, lost, pc>>
    /\ UNCHANGED <<cur, cm, ann, podVars, envVars, want, applied>>

Broken == lost \/ conn \in deaf
Refusing(n) == Refused(acl[conn][n], Users[want][n])

\* mutant: the failed connection is not given back
GiveUpHolding ==
    /\ \/ pc \in {"set", "clean"} /\ Broken
       \/ pc = "set" /\ \E n \in left : Refusing(n)
    /\ pc' = "loop" /\ left' = {} /\ lost' = FALSE /\ missed' = missed \cup {conn}
    /\ UNCHANGED <<cur, cm, ann, podVars, envVars, want, todo, conn, applied>>

\* a command fails, or SETUSER refuses its rules: the rest of the pod's rules is
\* given up
GiveUp ==
    /\ \/ pc \in {"set", "clean"} /\ Broken
       \/ pc = "set" /\ \E n \in left : Refusing(n)
    /\ pc' = "loop" /\ conn' = NoPod /\ left' = {} /\ lost' = FALSE
    /\ missed' = missed \cup {conn}
    /\ UNCHANGED <<cur, cm, ann, podVars, envVars, want, todo, applied>>

\* ACL SETUSER, in any order of the users
SetUser ==
    /\ pc = "set" /\ ~Broken
    /\ IF left = {}
       THEN pc' = "clean" /\ UNCHANGED <<acl, left>>
       ELSE \E n \in left :
            /\ ~Refusing(n)
            /\ acl' = [acl EXCEPT ![conn][n] = Updated(@, Users[want][n])]
            /\ left' = left \ {n} /\ UNCHANGED pc
    /\ UNCHANGED <<cur, cm, ann, running, old, ops, gate, vol, met, envVars, want,
                   todo, conn, applied, lost, missed>>

\* mutant: the users of the spec are not counted as desired
StaleUsersAll == Active(acl[conn])

\* removeStaleACLUsers: the users that the resolved version lacks
StaleUsers == Active(acl[conn]) \ DOMAIN Users[want]

\* ACL DELUSER, one user at a time; then the pod is done
DelUser ==
    /\ pc = "clean" /\ ~Broken
    /\ IF StaleUsers = {}
       THEN /\ applied' = applied \cup {conn} /\ missed' = missed \ {conn}
            /\ pc' = "loop" /\ conn' = NoPod /\ UNCHANGED acl
       ELSE /\ \E n \in StaleUsers : acl' = [acl EXCEPT ![conn][n] = NoUser]
            /\ UNCHANGED <<pc, conn, applied, missed>>
    /\ UNCHANGED <<cur, cm, ann, running, old, ops, gate, vol, met, envVars, want,
                   todo, left, lost>>

EndPass == pc' = "idle" /\ applied' = {}

PersistHash ==
    /\ pc = "loop" /\ todo = {}
    /\ ann' = IF ann # want /\ applied # {} THEN want ELSE ann
    /\ EndPass
    /\ UNCHANGED <<cur, cm, podVars, envVars, want, todo, conn, left, lost, missed>>

Pass ==
    \/ WriteConfigMap \/ ResolveACLs \/ GiveUp \/ SetUser \/ DelUser \/ PersistHash
    \/ \E p \in Pods : Connect(p)

-----------------------------------------------------------------------------
\* External: edits of the Secrets and the spec, containers, kubelet, time

Edit ==
    /\ cur < Last /\ cur' = cur + 1
    /\ UNCHANGED <<cm, ann, podVars, envVars, passVars>>

\* gate.c: the timer clears NO_REDIRECTION at the first active application user
GatePoll(p) ==
    /\ p \in running \cap gate /\ Active(acl[p]) # {}
    /\ gate' = gate \ {p}
    /\ UNCHANGED <<cur, cm, ann, running, old, acl, ops, vol, met, envVars, passVars>>

\* kubelet refreshes the volume, of a pod still on its way too
SyncVolume(p) ==
    /\ vol[p] # cm
    /\ vol' = [vol EXCEPT ![p] = cm]
    /\ UNCHANGED <<cur, cm, ann, running, old, acl, ops, gate, met, envVars, passVars>>

\* the age counts from before the volumes are mounted and the image is pulled
GrowOld(p) ==
    /\ p \notin old
    /\ old' = old \cup {p}
    /\ UNCHANGED <<cur, cm, ann, running, acl, ops, gate, vol, met, envVars, passVars>>

\* Gate_Init and valkey.conf: version v is loaded, the gate is armed
Boot(p, v) ==
    /\ acl' = [acl EXCEPT ![p] = Baked(v)]
    /\ ops' = [ops EXCEPT ![p] = {Op[v]}]
    /\ gate' = gate \cup {p}

PodStart(p) ==
    /\ p \notin running /\ running' = running \cup {p}
    /\ Boot(p, vol[p])
    /\ UNCHANGED <<cur, cm, ann, old, vol, met, envVars, passVars>>

-----------------------------------------------------------------------------
\* External: faults

Fault(kind) == kind \in FaultKinds /\ faults < MaxFaults /\ faults' = faults + 1

\* the container restarts in place: the pod keeps its start time
Restart(p) ==
    /\ p \in running /\ Fault("restart")
    /\ Boot(p, vol[p])
    /\ lost' = (lost \/ conn = p) /\ met' = met \ {p}
    /\ UNCHANGED <<cur, cm, ann, running, old, vol, deaf, pc, want, todo,
                   conn, left, applied, missed>>

\* the pod is deleted; the StatefulSet makes a new one, which mounts the volume
Recreate(p) ==
    /\ p \in running /\ Fault("recreate")
    /\ running' = running \ {p} /\ old' = old \ {p} /\ met' = met \ {p}
    /\ vol' = [vol EXCEPT ![p] = cm] /\ missed' = missed \ {p}
    /\ lost' = (lost \/ conn = p)
    /\ todo' = todo \ {p}      \* its address is gone
    /\ UNCHANGED <<cur, cm, ann, acl, ops, gate, deaf, pc, want, conn, left,
                   applied>>

Deafen(p) ==
    /\ p \notin deaf /\ Fault("deaf") /\ deaf' = deaf \cup {p}
    /\ UNCHANGED <<cur, cm, ann, podVars, passVars>>

Hear(p) ==
    /\ p \in deaf /\ deaf' = deaf \ {p}
    /\ UNCHANGED <<cur, cm, ann, podVars, faults, passVars>>

\* the patch of the annotation fails
PersistFails ==
    /\ pc = "loop" /\ todo = {} /\ ann # want /\ applied # {}
    /\ Fault("api") /\ EndPass
    /\ UNCHANGED <<cur, cm, ann, podVars, deaf, want, todo, conn, left, lost, missed>>

-----------------------------------------------------------------------------
PodStep(p) ==
    \/ GatePoll(p) \/ SyncVolume(p) \/ GrowOld(p) \/ PodStart(p)
    \/ Restart(p) \/ Recreate(p) \/ Deafen(p) \/ Hear(p)

Next == Pass \/ Edit \/ PersistFails \/ \E p \in Pods : PodStep(p)

Spec == Init /\ [][Next]_vars

\* the work queue requeues every pass; kubelet and the module's timer go on
Fairness ==
    /\ WF_vars(Pass)
    /\ \A p \in Pods :
        /\ WF_vars(GatePoll(p)) /\ WF_vars(SyncVolume(p)) /\ WF_vars(GrowOld(p))
        /\ WF_vars(PodStart(p)) /\ WF_vars(Hear(p))

FairSpec == Spec /\ Fairness

-----------------------------------------------------------------------------
\* Properties

Entries == UNION {{Users[v][n] : n \in DOMAIN Users[v]} : v \in Versions}
UserStates ==
    [pws  : SUBSET {e.pw : e \in Entries},
     keys : SUBSET ({AllKeys} \cup UNION {e.keys : e \in Entries}),
     cmds : SUBSET UNION {e.plus : e \in Entries}]

\* The type invariant.
TypeOK ==
    /\ cur \in Versions /\ cm \in Versions /\ ann \in 0 .. Last
    /\ vol \in [Pods -> Versions]
    /\ running \subseteq Pods /\ old \subseteq Pods /\ gate \subseteq Pods /\ met \subseteq Pods
    /\ acl \in [Pods -> [Names -> UserStates]] /\ ops \in [Pods -> SUBSET Passwords]
    /\ deaf \subseteq Pods /\ missed \subseteq Pods /\ faults \in 0 .. MaxFaults
    /\ pc \in {"idle", "resolve", "loop", "set", "clean"}
    /\ want \in Versions /\ lost \in BOOLEAN
    /\ todo \subseteq Pods /\ applied \subseteq Pods /\ conn \in Pods \cup {NoPod}
    /\ left \subseteq DOMAIN Users[want] /\ (left # {} => pc = "set")
    /\ pc \in {"set", "clean"} <=> conn # NoPod

\* A user that no edit has removed may at every moment do, on every running pod,
\* all that one version gives it, with that version's password: in the middle of
\* an update, after one that broke off or was refused, after an edit between the
\* resolution and the deletions, and after a restart from an old ConfigMap. No
\* update leaves it between two versions, although rules are added to and taken
\* from the user that is there.
CompleteUser ==
    \A p \in running : \A n \in Names :
       (\A v \in 1 .. cur : n \in DOMAIN Users[v])
          => \E v \in 1 .. cur : Grants(acl[p][n], Users[v][n])

UpToDate(p) ==
    /\ p \in running \ gate
    /\ Active(acl[p]) = DOMAIN Users[cur]
    /\ \A n \in DOMAIN Users[cur] : Grants(acl[p][n], Users[cur][n])

\* Every pod comes to serve the users of the last version, no other user, and to
\* redirect clients, whatever edits, pod recreations and failed annotation writes
\* a pass runs into, and whatever happens to another pod. Not so a pod on which
\* the last application failed, or whose container was already old when a pass
\* first listed it: the hash that the other pods let the pass persist keeps later
\* passes away from it, and a refused pattern is refused again.
UsersConverge == <>[](\A p \in Pods : UpToDate(p) \/ p \in missed)

\* A new operator password reaches the live pods without a restart.
RotationReachesPods ==
    (cur = Last) ~> (\A p \in Pods : Op[Last] \in ops[p])
==============================================================================
