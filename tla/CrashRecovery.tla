--------------------------- MODULE CrashRecovery ---------------------------
(***************************************************************************)
(* CrashLoop recovery of one pod (internal/controller/recovery.go): the    *)
(* crash-since annotation, the cleanup Job that deletes dump.rdb and       *)
(* nodes.conf from the pod's volume, and the deletion of the pod. The loop *)
(* over the pods treats them independently, each with its own annotation,  *)
(* volume and Job.                                                         *)
(*                                                                         *)
(* External: kubelet restarts the container after a back-off; the Job      *)
(* controller counts a Job's pending and running pods as active. The Job's *)
(* pod has the labels of the cluster's pods, so their required             *)
(* anti-affinity (the default node spread policy, Hard) keeps it and the   *)
(* pod whose volume it needs from being scheduled beside each other: it    *)
(* stays pending until that pod is deleted, and then the two race.         *)
(***************************************************************************)
EXTENDS Integers

CONSTANTS
    Threshold,     \* crashLoopThreshold, in ticks
    MaxBackoff,    \* kubelet's longest back-off, in ticks
    HardSpread,    \* whether NodeSpreadPolicy is Hard
    JobTTL,        \* TTLSecondsAfterFinished, in ticks
    FaultKinds,    \* faults the environment may inject
    MaxFaults      \* how many of them

ASSUME RecoveryAssumption ==
    /\ Threshold \in Nat \ {0}
    /\ MaxBackoff \in Nat /\ Threshold + 1 < MaxBackoff
    /\ HardSpread \in BOOLEAN
    /\ JobTTL \in Nat /\ Threshold < JobTTL
    /\ FaultKinds \subseteq {"corrupt", "env", "jobfail", "api"}
    /\ MaxFaults \in Nat

VARIABLES
    data,      \* the volume: "good", "corrupt" or "empty"
    env,       \* "bad" while something else (memory, node, image) stops Valkey
    ctr,       \* the container: "running", "loading", "backoff", "gone"
    restarts,  \* RestartCount, capped where the back-off is longest
    wait,      \* ticks left of the back-off
    job, done, \* the cleanup Job, and ticks since it finished
    ann,       \* age of the crash-since annotation, -1 when absent
    pc, mem,   \* the pass and its in-memory annotation
    faults,
    passed,    \* 1 if a pass has run since the last tick
    well, ill, \* history: ticks the container has run without a break, up to 1,
               \* and ticks since it last ran for a whole one
    missed     \* history: 1 while the timer is one that a failed patch left behind

vars == <<data, env, ctr, restarts, wait, job, done, ann, pc, mem, faults, passed, well, ill, missed>>

NoTime == -1
Ages   == -1 .. Threshold
Older(a) == IF a = NoTime \/ a = Threshold THEN a ELSE a + 1

MaxRestarts == MaxBackoff + 2

JobStates == {"absent", "created", "pending", "mounted", "succeeded", "failed"}

Init ==
    /\ data = "good" /\ env = "ok" /\ ctr = "running" /\ restarts = 0 /\ wait = 0
    /\ job = "absent" /\ done = 0 /\ ann = NoTime
    /\ pc = "idle" /\ mem = NoTime
    /\ faults = 0 /\ passed = 0
    /\ well = 0 /\ ill = 0 /\ missed = 0

-----------------------------------------------------------------------------
\* The pass: reconcileCrashLoopRecovery

\* isCrashLoopBackOff
CrashLoopBackOff == ctr = "backoff" /\ restarts >= 3

\* mutants: a healthy pod keeps its timer; every look starts it anew
TimerKept == IF CrashLoopBackOff /\ ann = NoTime THEN 0 ELSE ann
TimerRestarted == IF CrashLoopBackOff THEN 0 ELSE NoTime

\* clear, start or read the timer; that of a pod not in the list stays
Timer ==
    CASE ctr = "gone"                      -> ann
      [] CrashLoopBackOff /\ ann # NoTime  -> ann
      [] CrashLoopBackOff /\ ann = NoTime  -> 0
      [] OTHER                             -> NoTime

\* mutant: the threshold is not looked at
DueAtOnce == ann # NoTime

Due == ann >= Threshold

\* list the pods and look at this one
Observe ==
    /\ pc = "idle"
    /\ mem' = Timer
    /\ pc' = IF CrashLoopBackOff /\ Due THEN "recover" ELSE "patch"
    /\ UNCHANGED <<data, env, ctr, restarts, wait, job, done, ann, faults, passed, well, ill, missed>>

\* recoverCorruptedPod: create the Job, give up on a failed one, delete the pod
\* for an active or finished one, or wait
RecoverCorruptedPod ==
    /\ pc = "recover" /\ pc' = "patch"
    /\ \/ job = "absent" /\ job' = "created" /\ UNCHANGED <<ctr, well, mem>>
       \/ /\ job \in {"pending", "mounted", "succeeded"} /\ UNCHANGED job
          /\ ctr' = "gone" /\ well' = 0 /\ mem' = NoTime
       \/ job \in {"failed", "created"} /\ UNCHANGED <<job, ctr, well, mem>>
    /\ UNCHANGED <<data, env, restarts, wait, done, ann, faults, passed, ill, missed>>

PatchAnnotations ==
    /\ pc = "patch" /\ pc' = "idle"
    /\ ann' = mem /\ mem' = NoTime /\ passed' = 1
    /\ missed' = IF mem <= 0 THEN 0 ELSE missed
    /\ UNCHANGED <<data, env, ctr, restarts, wait, job, done, faults, well, ill>>

Pass == Observe \/ RecoverCorruptedPod \/ PatchAnnotations

-----------------------------------------------------------------------------
\* External: the cleanup Job built by buildOneOffJob

JobSchedule ==
    /\ job = "created" /\ job' = "pending"
    /\ UNCHANGED <<data, env, ctr, restarts, wait, done, ann, pc, mem, faults, passed, well, ill, missed>>

\* the Job's pod gets onto the node of the volume
JobMount ==
    /\ job = "pending" /\ (HardSpread => ctr = "gone") /\ job' = "mounted"
    /\ UNCHANGED <<data, env, ctr, restarts, wait, done, ann, pc, mem, faults, passed, well, ill, missed>>

\* rm -f /data/dump.rdb /data/nodes.conf
JobCleanup ==
    /\ job = "mounted" /\ job' = "succeeded" /\ data' = "empty" /\ done' = 0
    /\ UNCHANGED <<env, ctr, restarts, wait, ann, pc, mem, faults, passed, well, ill, missed>>

\* TTLSecondsAfterFinished
Expired == job \in {"succeeded", "failed"} /\ done = JobTTL

JobExpire ==
    /\ Expired /\ job' = "absent"
    /\ UNCHANGED <<data, env, ctr, restarts, wait, done, ann, pc, mem, faults, passed, well, ill, missed>>

-----------------------------------------------------------------------------
\* External: kubelet, the StatefulSet controller and time

\* the back-off grows with the restarts; the first ones are shorter than a tick
Fall ==
    /\ ctr' = "backoff" /\ well' = 0
    /\ wait' = IF restarts < 3 THEN 0 ELSE restarts - 2

StartContainer ==
    /\ ctr = "backoff" /\ wait = 0 /\ ctr' = "loading"
    /\ restarts' = IF restarts < MaxRestarts THEN restarts + 1 ELSE restarts
    /\ UNCHANGED <<data, env, wait, job, done, ann, pc, mem, faults, passed, well, ill, missed>>

\* Valkey exits on a corrupt file; an empty volume starts a fresh node
Load ==
    /\ ctr = "loading"
    /\ IF data = "corrupt" \/ env = "bad"
       THEN Fall /\ UNCHANGED data
       ELSE ctr' = "running" /\ data' = "good" /\ UNCHANGED <<wait, well>>
    /\ UNCHANGED <<env, restarts, job, done, ann, pc, mem, faults, passed, ill, missed>>

\* and so does the new pod, while the Job's is not there
RecreatePod ==
    /\ ctr = "gone" /\ (HardSpread => job # "mounted") /\ ctr' = "loading" /\ restarts' = 0 /\ wait' = 0
    /\ UNCHANGED <<data, env, job, done, ann, pc, mem, faults, passed, well, ill, missed>>

\* the other cause goes away
EnvHeals ==
    /\ env = "bad" /\ env' = "ok"
    /\ UNCHANGED <<data, ctr, restarts, wait, job, done, ann, pc, mem, faults, passed, well, ill, missed>>

\* A tick is a minute: at least one pass runs in it, kubelet starts a
\* container whose back-off is over, and a Job past its TTL is collected.
Tick ==
    /\ pc = "idle" /\ passed = 1
    /\ ~(ctr = "backoff" /\ wait = 0) /\ ~Expired
    /\ done' = IF job \in {"succeeded", "failed"} THEN done + 1 ELSE 0
    /\ passed' = 0
    /\ ann' = Older(ann)
    /\ wait' = IF wait > 0 THEN wait - 1 ELSE 0
    /\ well' = IF ctr = "running" THEN 1 ELSE 0
    /\ ill' = IF well = 1 THEN 0 ELSE Older(ill)
    /\ UNCHANGED <<data, env, ctr, restarts, job, pc, mem, faults, missed>>

-----------------------------------------------------------------------------
\* External: faults

Fault(kind) == kind \in FaultKinds /\ faults < MaxFaults /\ faults' = faults + 1

\* Valkey dies over its files or over something else
Crash ==
    /\ ctr = "running"
    /\ \/ Fault("corrupt") /\ data' = "corrupt" /\ UNCHANGED env
       \/ Fault("env") /\ env' = "bad" /\ UNCHANGED data
    /\ Fall
    /\ UNCHANGED <<restarts, job, done, ann, pc, mem, passed, ill, missed>>

JobFails ==
    /\ job \in {"pending", "mounted"} /\ Fault("jobfail") /\ job' = "failed" /\ done' = 0
    /\ UNCHANGED <<data, env, ctr, restarts, wait, ann, pc, mem, passed, well, ill, missed>>

\* the Get, Create or Delete of recoverCorruptedPod fails
RecoverFails ==
    /\ pc = "recover" /\ Fault("api") /\ pc' = "patch"
    /\ UNCHANGED <<data, env, ctr, restarts, wait, job, done, ann, mem, passed, well, ill, missed>>

\* the patch of the annotations fails
PatchFails ==
    /\ pc = "patch" /\ Fault("api")
    /\ pc' = "idle" /\ mem' = NoTime /\ passed' = 1 /\ missed' = 1
    /\ UNCHANGED <<data, env, ctr, restarts, wait, job, done, ann, well, ill>>

-----------------------------------------------------------------------------
Kubelet == StartContainer \/ Load \/ RecreatePod
Next ==
    \/ Pass \/ JobSchedule \/ JobMount \/ JobCleanup \/ JobExpire \/ Kubelet \/ EnvHeals \/ Tick
    \/ Crash \/ JobFails \/ RecoverFails \/ PatchFails

Spec == Init /\ [][Next]_vars

\* Every controller goes on. The clock is strongly fair: it stops only in the
\* model, during a pass. So is the mount: each deletion of the pod is a new race
\* between the Job's pod, which is waiting, and a pod still to be created, and
\* the Job's pod does not lose all of them.
Fairness ==
    /\ WF_vars(Pass) /\ WF_vars(JobSchedule) /\ SF_vars(JobMount) /\ WF_vars(JobCleanup)
    /\ WF_vars(JobExpire) /\ WF_vars(Kubelet) /\ WF_vars(EnvHeals) /\ SF_vars(Tick)

FairSpec == Spec /\ Fairness

-----------------------------------------------------------------------------
\* Properties

\* The type invariant.
TypeOK ==
    /\ data \in {"good", "corrupt", "empty"}
    /\ ctr \in {"running", "loading", "backoff", "gone"}
    /\ restarts \in 0 .. MaxRestarts /\ wait \in 0 .. MaxBackoff
    /\ job \in JobStates /\ done \in 0 .. JobTTL /\ env \in {"ok", "bad"}
    /\ ann \in Ages /\ mem \in Ages
    /\ pc \in {"idle", "recover", "patch"} /\ (pc = "recover" => mem = Threshold)
    /\ faults \in 0 .. MaxFaults /\ passed \in 0 .. 1
    /\ well \in 0 .. 1 /\ ill \in 0 .. Threshold /\ missed \in 0 .. 1

\* reconcileCrashLoopRecovery sends a cleanup Job only to a pod that has not run
\* through a whole tick for crashLoopThreshold: the timer of an earlier crash
\* loop never makes a later one look long, unless the patch that should have
\* cleared it failed and none has cleared or started it since.
PatientRecovery ==
    [][job = "absent" /\ job' = "created" => ill = Threshold \/ missed = 1]_vars

\* The pod is deleted only when the Job has mounted its volume ("The Job must
\* mount the PVC exclusively before the pod is deleted", recoverCorruptedPod).
MountedFirst ==
    [][ctr # "gone" /\ ctr' = "gone" => job \in {"mounted", "succeeded"}]_vars

\* A pod with a corrupt volume comes to run for good, although the pod deleted
\* before the Job has mounted may come back first, the short back-offs of the
\* first restarts clear the timer, Jobs fail and expire, and API calls fail.
Recovers == <>[](ctr = "running")
=============================================================================
