------------------------ MODULE CrashRecoveryProofs ------------------------
(***************************************************************************)
(* PatientRecovery for any threshold, back-off, TTL and number of faults.  *)
(***************************************************************************)
EXTENDS CrashRecovery, TLAPS

\* Unless a failed patch left it behind, the timer, in the API server and in the pass, never exceeds the time since
\* the pod last ran through a whole tick; and once it has run since a tick, the
\* pass that runs before the next one clears the timer.
Honest ==
    /\ ann <= ill \/ missed = 1
    /\ pc # "idle" => mem <= ill \/ missed = 1
    /\ well = 1 => /\ ctr = "running" /\ pc # "recover"
                   /\ pc = "patch" => mem = NoTime
                   /\ passed = 1 => ann = NoTime \/ missed = 1

IInv == TypeOK /\ Honest

\* Init establishes the invariant.
LEMMA InitInv == Init => IInv
  BY RecoveryAssumption DEF Init, IInv, Honest, TypeOK, Ages, JobStates, MaxRestarts, NoTime

\* Every step keeps the types, whatever faults there are.
LEMMA TypeStep == TypeOK /\ [Next]_vars => TypeOK'
<1> SUFFICES ASSUME TypeOK, [Next]_vars PROVE TypeOK'
  OBVIOUS
<1> USE RecoveryAssumption
<1>1. CASE Observe
  BY <1>1 DEF Observe, Timer, Due, CrashLoopBackOff, TypeOK, Ages, JobStates, MaxRestarts, NoTime
<1>2. CASE RecoverCorruptedPod
  BY <1>2 DEF RecoverCorruptedPod, TypeOK, Ages, JobStates, MaxRestarts, NoTime
<1>3. CASE PatchAnnotations
  BY <1>3 DEF PatchAnnotations, TypeOK, Ages, JobStates, MaxRestarts, NoTime
<1>4. CASE JobSchedule
  BY <1>4 DEF JobSchedule, TypeOK, Ages, JobStates, MaxRestarts, NoTime
<1>5. CASE JobMount
  BY <1>5 DEF JobMount, TypeOK, Ages, JobStates, MaxRestarts, NoTime
<1>6. CASE JobCleanup
  BY <1>6 DEF JobCleanup, TypeOK, Ages, JobStates, MaxRestarts, NoTime
<1>7. CASE JobExpire
  BY <1>7 DEF JobExpire, Expired, TypeOK, Ages, JobStates, MaxRestarts, NoTime
<1>8. CASE StartContainer
  BY <1>8 DEF StartContainer, TypeOK, Ages, JobStates, MaxRestarts, NoTime
<1>9. CASE Load
  BY <1>9 DEF Load, Fall, TypeOK, Ages, JobStates, MaxRestarts, NoTime
<1>10. CASE RecreatePod
  BY <1>10 DEF RecreatePod, TypeOK, Ages, JobStates, MaxRestarts, NoTime
<1>11. CASE EnvHeals
  BY <1>11 DEF EnvHeals, TypeOK, Ages, JobStates, MaxRestarts, NoTime
<1>12. CASE Tick
  BY <1>12 DEF Tick, Older, Expired, TypeOK, Ages, JobStates, MaxRestarts, NoTime
<1>13. CASE Crash
  BY <1>13 DEF Crash, Fall, Fault, TypeOK, Ages, JobStates, MaxRestarts, NoTime
<1>14. CASE JobFails
  BY <1>14 DEF JobFails, Fault, TypeOK, Ages, JobStates, MaxRestarts, NoTime
<1>15. CASE RecoverFails
  BY <1>15 DEF RecoverFails, Fault, TypeOK, Ages, JobStates, MaxRestarts, NoTime
<1>16. CASE PatchFails
  BY <1>16 DEF PatchFails, Fault, TypeOK, Ages, JobStates, MaxRestarts, NoTime
<1>17. CASE UNCHANGED vars
  BY <1>17 DEF vars, TypeOK, Ages, JobStates, MaxRestarts, NoTime
<1> QED
  BY <1>1, <1>2, <1>3, <1>4, <1>5, <1>6, <1>7, <1>8, <1>9, <1>10, <1>11, <1>12, <1>13, <1>14, <1>15, <1>16, <1>17 DEF Next, Pass, Kubelet

\* Every step keeps the timer honest.
LEMMA HonestStep ==
  ASSUME TypeOK, Honest, [Next]_vars
  PROVE  Honest'
<1> USE RecoveryAssumption
<1>1. CASE Observe
  BY <1>1 DEF Observe, Timer, Due, CrashLoopBackOff, Honest, TypeOK, Ages, JobStates, MaxRestarts, NoTime
<1>2. CASE RecoverCorruptedPod
  BY <1>2 DEF RecoverCorruptedPod, Honest, TypeOK, Ages, JobStates, MaxRestarts, NoTime
<1>3. CASE PatchAnnotations
  BY <1>3 DEF PatchAnnotations, Honest, TypeOK, Ages, JobStates, MaxRestarts, NoTime
<1>4. CASE JobSchedule
  BY <1>4 DEF JobSchedule, Honest, TypeOK, Ages, JobStates, MaxRestarts, NoTime
<1>5. CASE JobMount
  BY <1>5 DEF JobMount, Honest, TypeOK, Ages, JobStates, MaxRestarts, NoTime
<1>6. CASE JobCleanup
  BY <1>6 DEF JobCleanup, Honest, TypeOK, Ages, JobStates, MaxRestarts, NoTime
<1>7. CASE JobExpire
  BY <1>7 DEF JobExpire, Expired, Honest, TypeOK, Ages, JobStates, MaxRestarts, NoTime
<1>8. CASE StartContainer
  BY <1>8 DEF StartContainer, Honest, TypeOK, Ages, JobStates, MaxRestarts, NoTime
<1>9. CASE Load
  BY <1>9 DEF Load, Fall, Honest, TypeOK, Ages, JobStates, MaxRestarts, NoTime
<1>10. CASE RecreatePod
  BY <1>10 DEF RecreatePod, Honest, TypeOK, Ages, JobStates, MaxRestarts, NoTime
<1>11. CASE EnvHeals
  BY <1>11 DEF EnvHeals, Honest, TypeOK, Ages, JobStates, MaxRestarts, NoTime
<1>12. CASE Tick
  BY <1>12 DEF Tick, Older, Expired, Honest, TypeOK, Ages, JobStates, MaxRestarts, NoTime
<1>13. CASE Crash
  BY <1>13 DEF Crash, Fall, Fault, Honest, TypeOK, Ages, JobStates, MaxRestarts, NoTime
<1>14. CASE JobFails
  BY <1>14 DEF JobFails, Fault, Honest, TypeOK, Ages, JobStates, MaxRestarts, NoTime
<1>15. CASE RecoverFails
  BY <1>15 DEF RecoverFails, Fault, Honest, TypeOK, Ages, JobStates, MaxRestarts, NoTime
<1>16. CASE PatchFails
  BY <1>16 DEF PatchFails, Fault, Honest, TypeOK, Ages, JobStates, MaxRestarts, NoTime
<1>17. CASE UNCHANGED vars
  BY <1>17 DEF vars, Honest, TypeOK, Ages, JobStates, MaxRestarts, NoTime
<1> QED
  BY <1>1, <1>2, <1>3, <1>4, <1>5, <1>6, <1>7, <1>8, <1>9, <1>10, <1>11, <1>12, <1>13, <1>14, <1>15, <1>16, <1>17 DEF Next, Pass, Kubelet

\* CrashRecovery is type correct.
THEOREM TypeCorrect == Spec => []TypeOK
<1>1. Init => TypeOK
  BY InitInv DEF IInv
<1> QED
  BY <1>1, TypeStep, PTL DEF Spec

\* A cleanup Job is only sent to a pod that has not run through a whole tick for
\* crashLoopThreshold, unless a failed patch left an old timer behind.
THEOREM Patient == Spec => PatientRecovery
<1>1. IInv /\ [Next]_vars => IInv'
  BY TypeStep, HonestStep DEF IInv
<1>2. IInv /\ [Next]_vars => [job = "absent" /\ job' = "created" => ill = Threshold \/ missed = 1]_vars
  <2> SUFFICES ASSUME IInv, Next, job = "absent", job' = "created" PROVE ill = Threshold \/ missed = 1
    BY DEF vars
  <2>1. RecoverCorruptedPod
    BY DEF Next, Pass, Kubelet, Observe, PatchAnnotations, JobSchedule, JobMount, JobCleanup, JobExpire, StartContainer, Load, RecreatePod, EnvHeals, Tick, Crash, JobFails, RecoverFails, PatchFails
  <2> QED
    BY <2>1 DEF RecoverCorruptedPod, IInv, Honest, TypeOK, Ages, NoTime
<1> QED
  BY InitInv, <1>1, <1>2, PTL DEF Spec, PatientRecovery
=============================================================================
