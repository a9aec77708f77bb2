------------------------- MODULE ACLReconcileProofs -------------------------
(* Proofs about ACLReconcile: for any pods, versions, users and faults, a user *)
(* that no edit removed is never left between two versions on a running pod.  *)
EXTENDS ACLReconcile, TLAPS

\* No copy of the configuration is ahead of the Secrets.
Behind == want <= cur /\ cm <= cur /\ \A p \in Pods : vol[p] <= cur

\* The inductive invariant.
IInv == TypeOK /\ Behind /\ CompleteUser

USE ConfigAssumption

\* The parts of an entry are in the ranges the type invariant allows.
LEMMA EntryParts ==
    ASSUME NEW v \in Versions, NEW n \in DOMAIN Users[v]
    PROVE  /\ n \in Names /\ Users[v][n] \in Entries
           /\ Users[v][n].pw \in {e.pw : e \in Entries}
           /\ Users[v][n].keys \subseteq {AllKeys} \cup UNION {e.keys : e \in Entries}
           /\ Users[v][n].plus \subseteq UNION {e.plus : e \in Entries}
<1>1. n \in Names /\ Users[v][n] \in Entries
  BY DEF Entries
<1> QED BY <1>1

\* What valkey.conf loads is a function to user states.
LEMMA BakedType == ASSUME NEW v \in Versions PROVE Baked(v) \in [Names -> UserStates]
<1> SUFFICES ASSUME NEW n \in Names
             PROVE  (IF n \in DOMAIN Users[v] THEN Loaded(Users[v][n]) ELSE NoUser) \in UserStates
  BY DEF Baked
<1>1. NoUser \in UserStates
  BY DEF NoUser, UserStates
<1>2. ASSUME n \in DOMAIN Users[v] PROVE Loaded(Users[v][n]) \in UserStates
  BY <1>2, EntryParts DEF Loaded, UserStates
<1> QED BY <1>1, <1>2

\* ACL SETUSER makes a user state of a user state.
LEMMA UpdatedType ==
    ASSUME NEW u \in UserStates, NEW v \in Versions, NEW n \in DOMAIN Users[v]
    PROVE  Updated(u, Users[v][n]) \in UserStates
<1> DEFINE e == Users[v][n]
           P == {x.pw : x \in Entries}
           K == {AllKeys} \cup UNION {x.keys : x \in Entries}
           C == UNION {x.plus : x \in Entries}
<1>1. e.pw \in P /\ e.keys \subseteq K /\ e.plus \subseteq C
  BY EntryParts
<1>2. UserStates = [pws : SUBSET P, keys : SUBSET K, cmds : SUBSET C] /\ AllKeys \in K
  BY DEF UserStates
<1> HIDE DEF P, K, C, e
<1>3. u.pws \subseteq P /\ u.keys \subseteq K /\ u.cmds \subseteq C
  BY <1>2
<1>4. Updated(u, e) \in UserStates
  BY <1>1, <1>2, <1>3 DEF Updated
<1> QED BY <1>4 DEF e

\* A user just set may do all that the entry gives.
LEMMA UpdatedGrants ==
    ASSUME NEW u, NEW v \in Versions, NEW n \in DOMAIN Users[v]
    PROVE  Grants(Updated(u, Users[v][n]), Users[v][n])
<1>1. Users[v][n].plus \cap Users[v][n].minus = {}
  OBVIOUS
<1> QED BY <1>1 DEF Grants, Updated

\* So may a user loaded from valkey.conf.
LEMMA BakedGrants ==
    ASSUME NEW v \in Versions, NEW n \in DOMAIN Users[v]
    PROVE  Grants(Baked(v)[n], Users[v][n])
<1>1. Baked(v)[n] = Loaded(Users[v][n])
  BY EntryParts DEF Baked
<1> QED BY <1>1 DEF Grants, Loaded

\* Every copy of the configuration that exists at the start is the first version.
LEMMA InitInv == Init => IInv
<1> SUFFICES ASSUME Init PROVE IInv
  OBVIOUS
<1>1. 1 \in Versions
  BY DEF Versions
<1>2. Op[1] \in Passwords /\ Baked(1) \in [Names -> UserStates]
  BY <1>1, BakedType DEF Passwords
<1>3. /\ cur = 1 /\ cm = 1 /\ ann = 0 /\ want = 1
      /\ vol = [p \in Pods |-> 1]
      /\ acl = [p \in Pods |-> Baked(1)] /\ ops = [p \in Pods |-> {Op[1]}]
      /\ lost \in BOOLEAN
  BY DEF Init
<1>4. TypeOK
  <2>1. /\ running = Pods /\ old = {} /\ met = {} /\ gate = Pods /\ deaf = {} /\ faults = 0 /\ missed = {}
        /\ pc = "idle" /\ todo = {} /\ conn = NoPod /\ left = {} /\ applied = {}
    BY DEF Init
  <2> QED
    BY <1>1, <1>2, <1>3, <2>1 DEF TypeOK
<1>5. Behind
  BY <1>3 DEF Behind
<1>6. CompleteUser
  <2> SUFFICES ASSUME NEW p \in running, NEW n \in Names,
                      \A v \in 1 .. cur : n \in DOMAIN Users[v]
               PROVE  \E v \in 1 .. cur : Grants(acl[p][n], Users[v][n])
    BY DEF CompleteUser
  <2>1. 1 \in 1 .. cur /\ n \in DOMAIN Users[1] /\ acl[p] = Baked(1)
    BY <1>3, <1>4 DEF TypeOK
  <2> QED
    BY <1>1, <2>1, BakedGrants
<1> QED
  BY <1>4, <1>5, <1>6 DEF IInv

\* Every action keeps the types.
LEMMA TypeStep == TypeOK /\ [Next]_vars => TypeOK'
<1> SUFFICES ASSUME TypeOK, [Next]_vars PROVE TypeOK'
  OBVIOUS
<1> USE DEF TypeOK, podVars, envVars, passVars
<1>0. \A v \in Versions : Baked(v) \in [Names -> UserStates] /\ Op[v] \in Passwords
  BY BakedType DEF Passwords
<1>1. CASE WriteConfigMap
  BY <1>1 DEF WriteConfigMap
<1>2. CASE ResolveACLs
  <2>1. left = {}
    BY <1>2 DEF ResolveACLs
  <2> QED
    BY <1>2, <2>1 DEF ResolveACLs, Versions
<1>3. ASSUME NEW p \in Pods, Connect(p) PROVE TypeOK'
  BY <1>0, <1>3 DEF Connect
<1>4. CASE GiveUp
  BY <1>4 DEF GiveUp
<1>5. CASE SetUser
  <2>1. pc = "set" /\ conn \in Pods
    BY <1>5 DEF SetUser
  <2>2. acl' \in [Pods -> [Names -> UserStates]]
    <3>1. CASE left = {}
      BY <1>5, <3>1 DEF SetUser
    <3>2. CASE left # {}
      <4>1. PICK n \in left : acl' = [acl EXCEPT ![conn][n] = Updated(@, Users[want][n])]
        BY <1>5, <3>2 DEF SetUser
      <4>2. n \in Names /\ Updated(acl[conn][n], Users[want][n]) \in UserStates
        BY <2>1, EntryParts, UpdatedType
      <4> QED
        BY <2>1, <4>1, <4>2
    <3> QED BY <3>1, <3>2
  <2> QED
    BY <1>5, <2>1, <2>2 DEF SetUser
<1>6. CASE DelUser
  <2>1. pc = "clean" /\ conn \in Pods
    BY <1>6 DEF DelUser
  <2>2. NoUser \in UserStates
    BY DEF NoUser, UserStates
  <2> QED
    BY <1>6, <2>1, <2>2 DEF DelUser
<1>7. CASE PersistHash
  BY <1>7 DEF PersistHash, EndPass, Versions
<1>8. CASE Edit
  BY <1>8 DEF Edit, Versions
<1>9. CASE PersistFails
  BY SMTT(30), <1>9 DEF PersistFails, EndPass, Fault
<1>10. ASSUME NEW p \in Pods, PodStep(p) PROVE TypeOK'
  <2>1. CASE GatePoll(p)
    BY <2>1 DEF GatePoll
  <2>2. CASE SyncVolume(p)
    BY <2>2 DEF SyncVolume
  <2>3. CASE GrowOld(p)
    BY <2>3 DEF GrowOld
  <2>4. CASE PodStart(p)
    BY <1>0, <2>4 DEF PodStart, Boot
  <2>5. CASE Restart(p)
    BY <1>0, <2>5 DEF Restart, Boot, Fault
  <2>6. CASE Recreate(p)
    BY <2>6 DEF Recreate, Fault
  <2>7. CASE Deafen(p)
    BY <2>7 DEF Deafen, Fault
  <2>8. CASE Hear(p)
    BY <2>8 DEF Hear
  <2> QED
    BY <1>10, <2>1, <2>2, <2>3, <2>4, <2>5, <2>6, <2>7, <2>8 DEF PodStep
<1>11. CASE UNCHANGED vars
  BY <1>11 DEF vars
<1> QED
  BY <1>1, <1>2, <1>3, <1>4, <1>5, <1>6, <1>7, <1>8, <1>9, <1>10, <1>11 DEF Next, Pass

\* Every action leaves the copies behind the Secrets.
LEMMA BehindStep == TypeOK /\ Behind /\ [Next]_vars => Behind'
<1> SUFFICES ASSUME TypeOK, Behind, [Next]_vars PROVE Behind'
  OBVIOUS
<1> USE DEF Behind, podVars, envVars, passVars
<1>0. cur \in Nat /\ cm \in Nat /\ want \in Nat /\ \A p \in Pods : vol[p] \in Nat
  BY DEF TypeOK, Versions
<1>1. CASE WriteConfigMap \/ ResolveACLs \/ Edit
  BY <1>0, <1>1 DEF WriteConfigMap, ResolveACLs, Edit
<1>2. CASE GiveUp \/ SetUser \/ DelUser \/ PersistHash \/ PersistFails
  <2>1. UNCHANGED <<cur, cm, want, vol>>
    BY <1>2 DEF GiveUp, SetUser, DelUser, PersistHash, PersistFails
  <2> QED
    BY <2>1
<1>3. ASSUME NEW p \in Pods, Connect(p) PROVE Behind'
  BY <1>3 DEF Connect
<1>4. ASSUME NEW p \in Pods, PodStep(p) PROVE Behind'
  <2>1. CASE SyncVolume(p) \/ Recreate(p)
    <3>1. vol' = [vol EXCEPT ![p] = cm] /\ UNCHANGED <<cur, cm, want>>
      BY <2>1 DEF SyncVolume, Recreate
    <3>2. vol \in [Pods -> Versions]
      BY DEF TypeOK
    <3> QED
      BY <1>0, <3>1, <3>2
  <2>2. CASE GatePoll(p) \/ GrowOld(p) \/ PodStart(p) \/ Restart(p) \/ Deafen(p) \/ Hear(p)
    <3>1. UNCHANGED <<cur, cm, want, vol>>
      BY <2>2 DEF GatePoll, GrowOld, PodStart, Restart, Deafen, Hear
    <3> QED
      BY <3>1
  <2> QED
    BY <1>4, <2>1, <2>2 DEF PodStep
<1>5. CASE UNCHANGED vars
  BY <1>5 DEF vars
<1> QED
  BY <1>1, <1>2, <1>3, <1>4, <1>5 DEF Next, Pass

\* Only four actions touch the users of a pod or make one run: setting gives the
\* user the whole entry, deletion meets only users some version lacks, and a
\* start loads a whole version.
LEMMA CompleteStep == TypeOK /\ Behind /\ CompleteUser /\ [Next]_vars => CompleteUser'
<1> SUFFICES ASSUME TypeOK, Behind, CompleteUser, [Next]_vars PROVE CompleteUser'
  OBVIOUS
<1> USE DEF podVars, envVars, passVars
<1>0. /\ cur \in Nat /\ cur \in Versions /\ 1 .. cur \subseteq Versions
      /\ cm \in 1 .. cur /\ want \in 1 .. cur /\ \A p \in Pods : vol[p] \in 1 .. cur
  BY DEF TypeOK, Versions, Behind
<1> DEFINE Lasting(n) == \A v \in 1 .. cur : n \in DOMAIN Users[v]
           Served(A, n) == \E v \in 1 .. cur : Grants(A[n], Users[v][n])
<1>1. ASSUME cur' = cur,
             \A p \in running' : \A n \in Names :
                Lasting(n) => Served(acl'[p], n) \/ (p \in running /\ acl'[p][n] = acl[p][n])
      PROVE  CompleteUser'
  BY <1>1 DEF CompleteUser
<1>2. CASE SetUser
  <2>1. conn \in Pods /\ UNCHANGED <<cur, running>>
    BY <1>2 DEF SetUser, TypeOK
  <2>2. CASE left = {}
    BY <1>1, <1>2, <2>1, <2>2 DEF SetUser
  <2>3. CASE left # {}
    <3>1. PICK m \in left : acl' = [acl EXCEPT ![conn][m] = Updated(@, Users[want][m])]
      BY <1>2, <2>3 DEF SetUser
    <3>2. m \in DOMAIN Users[want] /\ want \in Versions /\ m \in Names
      BY <1>0, EntryParts DEF TypeOK
    <3>3. Grants(Updated(acl[conn][m], Users[want][m]), Users[want][m])
      BY <3>2, UpdatedGrants
    <3>4. acl'[conn][m] = Updated(acl[conn][m], Users[want][m])
      BY <2>1, <3>1, <3>2 DEF TypeOK
    <3>5. \A p \in Pods, n \in Names : p # conn \/ n # m => acl'[p][n] = acl[p][n]
      BY <2>1, <3>1 DEF TypeOK
    <3>6. Served(acl'[conn], m)
      BY <1>0, <3>3, <3>4
    <3> HIDE DEF Served, Lasting
    <3>7. \A p \in running', n \in Names : Served(acl'[p], n) \/ (p \in running /\ acl'[p][n] = acl[p][n])
      BY <2>1, <3>5, <3>6 DEF TypeOK
    <3> QED
      BY <1>1, <2>1, <3>7
  <2> QED BY <2>2, <2>3
<1>3. CASE DelUser
  <2>1. conn \in Pods /\ UNCHANGED <<cur, running>>
    BY <1>3 DEF DelUser, TypeOK
  <2>2. CASE StaleUsers = {}
    BY <1>1, <1>3, <2>1, <2>2 DEF DelUser
  <2>3. CASE StaleUsers # {}
    <3>1. PICK m \in StaleUsers : acl' = [acl EXCEPT ![conn][m] = NoUser]
      BY <1>3, <2>3 DEF DelUser
    <3>2. ~Lasting(m)
      BY <1>0 DEF StaleUsers
    <3>3. \A p \in Pods, n \in Names : n # m => acl'[p][n] = acl[p][n]
      BY <2>1, <3>1 DEF TypeOK
    <3> HIDE DEF Served, Lasting
    <3>4. \A p \in running', n \in Names : Lasting(n) => p \in running /\ acl'[p][n] = acl[p][n]
      BY <2>1, <3>2, <3>3 DEF TypeOK
    <3> QED
      BY <1>1, <2>1, <3>4
  <2> QED BY <2>2, <2>3
<1>4. CASE Edit
  <2>1. cur' = cur + 1 /\ UNCHANGED <<acl, running>> /\ 1 .. cur \subseteq 1 .. cur'
    BY <1>0, <1>4 DEF Edit
  <2> QED
    BY <2>1 DEF CompleteUser
<1>5. ASSUME NEW p \in Pods, PodStart(p) \/ Restart(p) PROVE CompleteUser'
  <2>1. /\ cur' = cur /\ acl' = [acl EXCEPT ![p] = Baked(vol[p])]
        /\ running' \subseteq running \cup {p}
    BY <1>5 DEF PodStart, Restart, Boot
  <2>2. \A n \in Names : Lasting(n) => Served(Baked(vol[p]), n)
    BY <1>0, BakedGrants
  <2>3. acl'[p] = Baked(vol[p]) /\ \A q \in Pods \ {p} : acl'[q] = acl[q]
    BY <2>1 DEF TypeOK
  <2> HIDE DEF Served, Lasting
  <2>4. \A q \in running', n \in Names :
           Lasting(n) => Served(acl'[q], n) \/ (q \in running /\ acl'[q][n] = acl[q][n])
    BY <2>1, <2>2, <2>3 DEF TypeOK
  <2> QED
    BY <1>1, <2>1, <2>4
<1>6. ASSUME UNCHANGED <<acl, cur>>, running' \subseteq running PROVE CompleteUser'
  BY ZenonT(30), <1>6 DEF CompleteUser
<1>7. CASE WriteConfigMap \/ ResolveACLs \/ GiveUp \/ PersistHash \/ PersistFails
  <2>1. UNCHANGED <<acl, cur, running>>
    BY <1>7 DEF WriteConfigMap, ResolveACLs, GiveUp, PersistHash, PersistFails
  <2> QED BY Zenon, <1>6, <2>1
<1>8. ASSUME NEW p \in Pods, Connect(p) PROVE CompleteUser'
  <2>1. UNCHANGED <<acl, cur, running>>
    BY Zenon, <1>8 DEF Connect
  <2> QED BY Zenon, <1>6, <2>1
<1>9. ASSUME NEW p \in Pods,
             GatePoll(p) \/ SyncVolume(p) \/ GrowOld(p) \/ Recreate(p) \/ Deafen(p) \/ Hear(p)
      PROVE CompleteUser'
  <2>1. UNCHANGED <<acl, cur>> /\ running' \subseteq running
    BY <1>9 DEF GatePoll, SyncVolume, GrowOld, Recreate, Deafen, Hear
  <2> QED BY Zenon, <1>6, <2>1
<1>10. CASE UNCHANGED vars
  <2>1. UNCHANGED <<acl, cur, running>>
    BY <1>10 DEF vars
  <2> QED BY Zenon, <1>6, <2>1
<1> QED
  BY <1>2, <1>3, <1>4, <1>5, <1>7, <1>8, <1>9, <1>10 DEF Next, Pass, PodStep

\* Every variable of the ACL step keeps its type.
THEOREM TypeCorrect == Spec => []TypeOK
<1>1. Init => TypeOK
  BY InitInv DEF IInv
<1> QED
  BY <1>1, TypeStep, PTL DEF Spec

\* A user that no edit has removed may at every moment do all that one version
\* gives it on every running pod, for any number of pods, versions, users and
\* faults, with rules that add, take away and are refused.
THEOREM UserComplete == Spec => []CompleteUser
<1>1. IInv /\ [Next]_vars => IInv'
  BY TypeStep, BehindStep, CompleteStep DEF IInv
<1>2. IInv => CompleteUser
  BY DEF IInv
<1> QED
  BY <1>1, <1>2, InitInv, PTL DEF Spec
=============================================================================
