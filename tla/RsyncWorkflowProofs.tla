------------------------ MODULE RsyncWorkflowProofs ------------------------
(* Proofs about RsyncWorkflow, for any number of workflows and pods.        *)
EXTENDS RsyncWorkflow, TLAPS

(* What the API-server operators do to the types of their variables. *)

ApiTypes == /\ pvc \in Lock
            /\ copy \in [Workflow -> Lock]
            /\ current \in [Workflow -> BOOLEAN]

\* An absent lock is a value of the annotations' type.
LEMMA UnlockedType == Unlocked \in Lock
  BY ConstantsOK DEF Unlocked, Lock, Age

\* Ageing a timestamp keeps it in range: ages saturate above the timeout.
LEMMA OlderType == \A age \in Age : Older(age) \in Age
  BY ConstantsOK DEF Older, Age

\* Ageing a lock keeps its type, its owner and the state of its timestamp.
LEMMA OlderLockType ==
  \A lock \in Lock : /\ OlderLock(lock) \in Lock
                     /\ OlderLock(lock).owner = lock.owner
                     /\ OlderLock(lock).stamp = lock.stamp
                     /\ OlderLock(lock).age >= lock.age
  BY ConstantsOK DEF OlderLock, Lock, Older, Age

\* Get keeps the types when the object prepared for Update is well formed.
LEMMA FetchType ==
  ASSUME ApiTypes, NEW w \in Workflow, NEW obj \in Lock, Fetch(w, obj)
  PROVE  ApiTypes'
  BY DEF ApiTypes, Fetch

\* Update keeps the types, whatever its outcome.
LEMMA UpdateType ==
  ASSUME ApiTypes, NEW w \in Workflow, NEW ok \in BOOLEAN, UpdatePVC(w, ok)
  PROVE  ApiTypes'
<1>1. CASE Store(w)
  BY <1>1, UnlockedType DEF ApiTypes, Store
<1>2. CASE Discard(w)
  BY <1>2, UnlockedType DEF ApiTypes, Discard
<1> QED
  BY <1>1, <1>2 DEF UpdatePVC

\* TypeOK is inductive: every step keeps every variable in its type.
LEMMA TypeStep == TypeOK /\ [Next]_vars => TypeOK'
<1> SUFFICES ASSUME TypeOK, [Next]_vars PROVE TypeOK'
  OBVIOUS
<1> USE ConstantsOK
<1> DEFINE Ctl == /\ pc \in [Workflow -> Steps]
                  /\ outcome \in [Workflow -> Outcome]
           Rest == /\ lease \in [Workflow -> Age]
                   /\ own \in [Workflow -> BOOLEAN]
                   /\ orphans \in BOOLEAN
                   /\ crashes \in 0..MaxCrashes
<1>t. ApiTypes /\ Ctl /\ Rest
  BY DEF TypeOK, ApiTypes
<1>q. ApiTypes' /\ Ctl' /\ Rest' => TypeOK'
  BY DEF TypeOK, ApiTypes
<1>n. NoApiCall => ApiTypes'
  BY <1>t DEF NoApiCall, ApiTypes
<1>c. ASSUME NEW w \in Workflow, NEW s \in Steps, Continue(w, s)
      PROVE  Ctl'
  BY <1>t, <1>c DEF Continue, Goto
<1>l. ASSUME NEW w \in Workflow, NEW how \in Outcome, Leave(w, how)
      PROVE  Ctl'
  BY <1>t, <1>l DEF Leave, Goto, Steps, Working
<1>r. ASSUME NEW w \in Workflow, NEW how \in Outcome, Return(w, how)
      PROVE  Ctl'
  BY <1>t, <1>r DEF Return, Goto, Steps, Resting
<1>o. "error" \in Outcome /\ "nothing" \in Outcome
  BY DEF Outcome
<1>s. Working \subseteq Steps /\ "lockPut" \in Steps /\ "returned" \in Steps
      /\ "lockGet" \in Steps /\ "idle" \in Steps /\ "dead" \in Steps
  BY DEF Steps, Resting
<1>k. ASSUME NEW w \in Workflow, NEW from, NEW to \in Working, NEW able,
             Step(w, from, to, able)
      PROVE  TypeOK'
  <2>1. Ctl'
    BY <1>k, <1>c, <1>l, <1>o, <1>s DEF Step
  <2>2. ApiTypes' /\ Rest'
    BY <1>k, <1>n, <1>t DEF Step
  <2> QED
    BY <2>1, <2>2, <1>q
<1>p. ASSUME NEW w \in Workflow, NEW from, NEW to \in Working, Skip(w, from, to)
      PROVE  TypeOK'
  BY <1>p, <1>c, <1>s, <1>n, <1>t, <1>q DEF Skip
<1>1. ASSUME NEW w \in Workflow, StartWorkflow(w) PROVE TypeOK'
  BY <1>1, <1>t, <1>q, <1>n, <1>s DEF StartWorkflow, Goto, Outcome
<1>2. ASSUME NEW w \in Workflow, AcquireGet(w) PROVE TypeOK'
  <2>1. [owner |-> PodOf[w], age |-> 0, stamp |-> "ok"] \in Lock
    BY DEF Lock, Age
  <2>2. ApiTypes'
    BY <1>2, <1>t, <1>n, <2>1, FetchType DEF AcquireGet
  <2>3. Ctl'
    BY <1>2, <1>c, <1>r, <1>o, <1>s DEF AcquireGet, Working
  <2>4. Rest'
    BY <1>2, <1>t DEF AcquireGet, ApiTypes, Lock
  <2> QED
    BY <2>2, <2>3, <2>4, <1>q
<1>3. ASSUME NEW w \in Workflow, AcquireUpdate(w) PROVE TypeOK'
  <2>1. ApiTypes'
    BY <1>3, <1>t, UpdateType DEF AcquireUpdate
  <2>2. Ctl'
    BY <1>3, <1>c, <1>r, <1>o, <1>s DEF AcquireUpdate, Working
  <2>3. Rest'
    BY <1>3, <1>t DEF AcquireUpdate, ApiTypes, Lock
  <2> QED
    BY <2>1, <2>2, <2>3, <1>q
<1>4. ASSUME NEW w \in Workflow, CleanupExistingDeployments(w) PROVE TypeOK'
  <2>1. ApiTypes' /\ Rest'
    BY <1>4, <1>t, <1>n DEF CleanupExistingDeployments
  <2>2. Ctl'
    BY <1>4, <1>c, <1>l, <1>o, <1>s DEF CleanupExistingDeployments, Working
  <2> QED
    BY <2>1, <2>2, <1>q
<1>5. ASSUME NEW w \in Workflow, CreateRsyncDeployment(w) PROVE TypeOK'
  <2>1. ApiTypes' /\ Rest'
    BY <1>5, <1>t, <1>n DEF CreateRsyncDeployment
  <2>2. Ctl'
    BY <1>5, <1>c, <1>l, <1>o, <1>s DEF CreateRsyncDeployment, Working
  <2> QED
    BY <2>1, <2>2, <1>q
<1>6. ASSUME NEW w \in Workflow, WaitForPodReady(w) PROVE TypeOK'
  <2>1. ApiTypes' /\ Rest'
    BY <1>6, <1>t, <1>n DEF WaitForPodReady, Abandon
  <2>2. Ctl'
    BY <1>6, <1>c, <1>l, <1>o, <1>s DEF WaitForPodReady, Working
  <2> QED
    BY <2>1, <2>2, <1>q
<1>7. ASSUME NEW w \in Workflow,
             ObtainKeys(w) \/ HasVolumeAttachments(w) \/ ConnectToAgent(w)
      PROVE  TypeOK'
  <2>1. {"publicKey", "mounted", "node", "connect", "rsync"} \subseteq Working
    BY DEF Working
  <2>2. CASE pc[w] = "mounted" /\ Leave(w, "nothing") /\ NoApiCall
             /\ UNCHANGED <<lease, own, orphans, crashes>>
    BY <2>2, <1>l, <1>o, <1>n, <1>t, <1>q
  <2> QED
    BY <1>7, <1>k, <1>p, <2>1, <2>2 DEF ObtainKeys, generateSSHKeys, GenerateSSHKeys, getPublicKey,
       HasVolumeAttachments, ConnectToAgent, PushPublicKeyToAgent, TestSSHConnectivity
<1>8. ASSUME NEW w \in Workflow, FindMountPath(w) PROVE TypeOK'
  <2>1. {"agent", "path", "push"} \subseteq Working /\ "cachePut" \in Steps
    BY <1>s DEF Working
  <2>2. CASE Fetch(w, pvc) /\ Continue(w, "cachePut")
             /\ UNCHANGED <<lease, own, orphans, crashes>>
    <3>1. ApiTypes'
      BY <2>2, <1>t, FetchType DEF ApiTypes
    <3> QED
      BY <3>1, <2>2, <2>1, <1>c, <1>t, <1>q
  <2> QED
    BY <1>8, <1>k, <1>p, <2>1, <2>2 DEF FindMountPath, FindPVCNode, FindAgentPod,
       FindPVCMountPath, getMountPathFromCache
<1>9. ASSUME NEW w \in Workflow, SaveMountPathToCache(w) \/ StatusUpdate(w)
      PROVE  TypeOK'
  <2>1. AfterStatus(w) \in Steps /\ "push" \in Steps
    BY DEF AfterStatus, Steps, Working
  <2>2. ApiTypes' /\ Ctl'
    BY <1>9, <2>1, <1>c, <1>t, UpdateType DEF SaveMountPathToCache, StatusUpdate
  <2> QED
    BY <1>9, <2>2, <1>t, <1>q DEF SaveMountPathToCache, StatusUpdate
<1>10. ASSUME NEW w \in Workflow, StatusGet(w) \/ AnnotateGet(w) PROVE TypeOK'
  <2>1. AfterStatus(w) \in Steps /\ "statusPut" \in Steps /\ "annotatePut" \in Steps
    BY DEF AfterStatus, Steps, Working
  <2>2. Ctl'
    BY <1>10, <2>1, <1>c, <1>l, <1>o DEF StatusGet, AnnotateGet
  <2>3. ApiTypes'
    <3>1. Fetch(w, pvc) \/ NoApiCall
      BY <1>10 DEF StatusGet, AnnotateGet
    <3> QED
      BY <3>1, <1>n, <1>t, FetchType DEF ApiTypes
  <2> QED
    BY <1>10, <2>2, <2>3, <1>t, <1>q DEF StatusGet, AnnotateGet
<1>11. ASSUME NEW w \in Workflow, PerformRsync(w) PROVE TypeOK'
  BY <1>11, <1>n, <1>t, <1>q DEF PerformRsync, Goto, Outcome, Steps, Working
<1>12. ASSUME NEW w \in Workflow, AnnotateUpdate(w) PROVE TypeOK'
  <2>1. ApiTypes'
    BY <1>12, <1>t, UpdateType DEF AnnotateUpdate
  <2>2. Ctl'
    BY <1>12, <1>c, <1>l, <1>o, <1>s DEF AnnotateUpdate, Working
  <2> QED
    BY <1>12, <2>1, <2>2, <1>t, <1>q DEF AnnotateUpdate
<1>13. ASSUME NEW w \in Workflow, CleanupResources(w) PROVE TypeOK'
  <2>1. Ctl'
    BY <1>13, <1>c, <1>s DEF CleanupResources, Cleanup, Working
  <2> QED
    BY <1>13, <2>1, <1>n, <1>t, <1>q DEF CleanupResources, Cleanup, Abandon
<1>14. ASSUME NEW w \in Workflow, ReleaseGet(w) PROVE TypeOK'
  <2>1. ApiTypes'
    BY <1>14, <1>n, <1>t, FetchType, UnlockedType DEF ReleaseGet
  <2>2. Ctl'
    BY <1>14, <1>c, <1>s DEF ReleaseGet, Working
  <2> QED
    BY <1>14, <2>1, <2>2, <1>t, <1>q DEF ReleaseGet, Age
<1>15. ASSUME NEW w \in Workflow, ReleaseUpdate(w) PROVE TypeOK'
  <2>1. ApiTypes'
    BY <1>15, <1>t, UpdateType DEF ReleaseUpdate
  <2>2. Ctl'
    BY <1>15, <1>c, <1>s DEF ReleaseUpdate
  <2> QED
    BY <1>15, <2>1, <2>2, <1>t, <1>q DEF ReleaseUpdate, Age
<1>16. ASSUME NEW w \in Workflow, Recover(w) PROVE TypeOK'
  <2>1. ApiTypes'
    BY <1>16, <1>t, UnlockedType DEF Recover, Discard, ApiTypes
  <2>2. Ctl'
    BY <1>16, <1>l, <1>r, <1>o DEF Recover
  <2> QED
    BY <1>16, <2>1, <2>2, <1>t, <1>q DEF Recover, Abandon
<1>17. CASE Tick
  BY <1>17, <1>t, <1>q, OlderType, OlderLockType DEF Tick, ApiTypes
<1>18. CASE ForeignWrite
  BY <1>18, <1>t, <1>q DEF ForeignWrite, ApiTypes
<1>19. CASE EditTimestamp
  BY <1>19, <1>t, <1>q DEF EditTimestamp, ApiTypes, Lock
<1>20. ASSUME NEW p \in Pod, Crash(p) PROVE TypeOK'
  <2>1. ApiTypes'
    BY <1>20, <1>t, UnlockedType DEF Crash, ApiTypes
  <2>2. Ctl'
    BY <1>20, <1>t, <1>s DEF Crash, Outcome
  <2>3. Rest'
    BY <1>20, <1>t DEF Crash, Age
  <2> QED
    BY <2>1, <2>2, <2>3, <1>q
<1>21. CASE UNCHANGED vars
  BY <1>21, <1>t, <1>q DEF vars, ApiTypes
<1> QED
  BY <1>1, <1>2, <1>3, <1>4, <1>5, <1>6, <1>7, <1>8, <1>9, <1>10, <1>11, <1>12,
     <1>13, <1>14, <1>15, <1>16, <1>17, <1>18, <1>19, <1>20, <1>21 DEF Next, Run

\* The type invariant: every variable of the replication workflow keeps its type.
THEOREM TypeCorrect == Spec => []TypeOK
<1>1. ASSUME Init PROVE TypeOK
  <2>1. pvc \in Lock /\ copy \in [Workflow -> Lock]
    BY <1>1, UnlockedType DEF Init
  <2>2. current \in [Workflow -> BOOLEAN] /\ own \in [Workflow -> BOOLEAN]
    BY <1>1 DEF Init
  <2>3. pc \in [Workflow -> Steps] /\ outcome \in [Workflow -> Outcome]
    BY <1>1 DEF Init, Steps, Resting, Outcome
  <2>4. lease \in [Workflow -> Age] /\ crashes \in 0..MaxCrashes
    BY <1>1, ConstantsOK DEF Init, Age
  <2>5. orphans \in BOOLEAN
    BY <1>1 DEF Init
  <2> QED
    BY <2>1, <2>2, <2>3, <2>4, <2>5 DEF TypeOK
<1> QED
  BY <1>1, TypeStep, PTL DEF Spec

----------------------------------------------------------------------------
(* The lock annotations are not subject to lost updates. *)

\* The steps at which a workflow has a copy of the PVC waiting for Update.
PutSteps == {"lockPut", "cachePut", "statusPut", "annotatePut", "releasePut"}

\* What a pending Update may do to the lock.  An outdated copy may say anything:
\* the server refuses it.  One that is still current takes a lock that is
\* takeable now, or releases the writer's own, or writes back what is there.
PendingInv ==
    \A w \in Workflow :
        /\ pc[w] = "lockPut" => /\ copy[w].owner = PodOf[w]
                                /\ current[w] => Takeable(pvc, PodOf[w])
        /\ pc[w] = "releasePut" => /\ copy[w].owner = NoPod
                                   /\ current[w] => pvc.owner = PodOf[w]
        /\ pc[w] \in PutSteps \ {"lockPut", "releasePut"} /\ current[w] => copy[w] = pvc

\* A step of w leaves the control points and copies of the others alone.  It
\* changes the PVC only by storing a current copy, which outdates all others.
LocalStep(w) ==
    /\ \A v \in Workflow \ {w} : /\ pc'[v] = pc[v]
                                 /\ copy'[v] = copy[v]
                                 /\ current'[v] => current[v]
    /\ pvc' # pvc => /\ pc[w] \in PutSteps /\ pc'[w] # pc[w]
                     /\ current[w] /\ pvc' = copy[w]
                     /\ \A v \in Workflow : ~current'[v]

\* w arrives at a pending Update only by a Get that decided on what is there.
Arrival(w) ==
    /\ pc'[w] = "lockPut" => /\ Takeable(pvc, PodOf[w]) /\ pvc' = pvc
                             /\ copy'[w] = [owner |-> PodOf[w], age |-> 0, stamp |-> "ok"]
    /\ pc'[w] = "releasePut" => /\ pvc.owner = PodOf[w] /\ pvc' = pvc
                                /\ copy'[w] = Unlocked
    /\ pc'[w] \in PutSteps \ {"lockPut", "releasePut"} => pvc' = pvc /\ copy'[w] = pvc

\* Every step of a workflow is local, and arrives at an Update only by a Get.
LEMMA RunIsLocal ==
  ASSUME TypeOK, NEW w \in Workflow, Run(w) \/ Recover(w)
  PROVE  LocalStep(w) /\ Arrival(w)
<1>0. pc \in [Workflow -> Steps] /\ copy \in [Workflow -> Lock] /\ current \in [Workflow -> BOOLEAN]
  BY DEF TypeOK
<1> USE DEF LocalStep, Arrival, PutSteps, NoApiCall, Fetch, UpdatePVC, Store,
            Discard, Goto, Continue, Leave, Return, Working, Tracked, Resting
<1>1. CASE StartWorkflow(w)
  BY <1>0, <1>1 DEF StartWorkflow
<1>2. CASE AcquireGet(w)
  BY <1>0, <1>2 DEF AcquireGet
<1>3. CASE AcquireUpdate(w)
  BY <1>0, <1>3 DEF AcquireUpdate
<1>4. CASE CleanupExistingDeployments(w)
  BY <1>0, <1>4 DEF CleanupExistingDeployments
<1>5. CASE CreateRsyncDeployment(w)
  BY <1>0, <1>5 DEF CreateRsyncDeployment
<1>6. CASE WaitForPodReady(w)
  BY <1>0, <1>6 DEF WaitForPodReady, Abandon
<1>7. CASE ObtainKeys(w)
  BY <1>0, <1>7 DEF ObtainKeys, generateSSHKeys, GenerateSSHKeys, getPublicKey, Skip, Step
<1>8. CASE HasVolumeAttachments(w)
  BY <1>0, <1>8 DEF HasVolumeAttachments, Step
<1>9. CASE FindMountPath(w)
  BY <1>0, <1>9 DEF FindMountPath, FindPVCNode, FindAgentPod, FindPVCMountPath,
              getMountPathFromCache, Skip, Step
<1>10. CASE SaveMountPathToCache(w)
  BY <1>0, <1>10 DEF SaveMountPathToCache
<1>11. CASE ConnectToAgent(w)
  BY <1>0, <1>11 DEF ConnectToAgent, PushPublicKeyToAgent, TestSSHConnectivity, Skip, Step
<1>12. CASE StatusGet(w)
  BY <1>0, <1>12 DEF StatusGet, AfterStatus
<1>13. CASE StatusUpdate(w)
  BY <1>0, <1>13 DEF StatusUpdate, AfterStatus
<1>14. CASE PerformRsync(w)
  BY <1>0, <1>14 DEF PerformRsync
<1>15. CASE AnnotateGet(w)
  BY <1>0, <1>15 DEF AnnotateGet
<1>16. CASE AnnotateUpdate(w)
  BY <1>0, <1>16 DEF AnnotateUpdate
<1>17. CASE CleanupResources(w)
  BY <1>0, <1>17 DEF CleanupResources, Cleanup, Abandon
<1>18. CASE ReleaseGet(w)
  BY <1>0, <1>18 DEF ReleaseGet
<1>19. CASE ReleaseUpdate(w)
  BY <1>0, <1>19 DEF ReleaseUpdate
<1>20. CASE Recover(w)
  BY <1>0, <1>20 DEF Recover, Abandon
<1> QED
  BY <1>1, <1>2, <1>3, <1>4, <1>5, <1>6, <1>7, <1>8, <1>9, <1>10, <1>11, <1>12,
     <1>13, <1>14, <1>15, <1>16, <1>17, <1>18, <1>19, <1>20 DEF Run

\* PendingInv is inductive: an Update that is still current was decided on the
\* annotations the server has now, although they were read steps ago.
LEMMA PendingStep == TypeOK /\ PendingInv /\ [Next]_vars => PendingInv'
<1> SUFFICES ASSUME TypeOK, PendingInv, [Next]_vars PROVE PendingInv'
  OBVIOUS
<1>1. ASSUME NEW w \in Workflow, Run(w) \/ Recover(w) PROVE PendingInv'
  <2>1. LocalStep(w) /\ Arrival(w)
    BY <1>1, RunIsLocal
  <2>2. SUFFICES ASSUME NEW v \in Workflow
                 PROVE  /\ pc'[v] = "lockPut" => /\ copy'[v].owner = PodOf[v]
                                                 /\ current'[v] => Takeable(pvc', PodOf[v])
                        /\ pc'[v] = "releasePut" => /\ copy'[v].owner = NoPod
                                                    /\ current'[v] => pvc'.owner = PodOf[v]
                        /\ pc'[v] \in PutSteps \ {"lockPut", "releasePut"} /\ current'[v]
                              => copy'[v] = pvc'
    BY DEF PendingInv, Takeable
  <2>3. CASE v = w
    BY <2>1, <2>3 DEF Arrival, Unlocked
  <2>4. CASE v # w
    <3>1. pc'[v] = pc[v] /\ copy'[v] = copy[v] /\ (current'[v] => current[v])
      BY <2>1, <2>2, <2>4 DEF LocalStep
    <3>2. pvc' # pvc => ~current'[v]
      BY <2>1, <2>2 DEF LocalStep
    <3> QED
      BY <3>1, <3>2 DEF PendingInv
  <2> QED
    BY <2>3, <2>4
<1>2. CASE Tick
  <2>1. /\ pc' = pc /\ current' = current /\ pvc' = OlderLock(pvc)
        /\ \A w \in Workflow : copy'[w] = OlderLock(copy[w])
    BY <1>2 DEF Tick
  <2>2. \A w \in Workflow : copy'[w].owner = copy[w].owner
    BY <2>1, OlderLockType DEF TypeOK
  <2>3. pvc'.owner = pvc.owner
    BY <2>1, OlderLockType DEF TypeOK
  <2>4. \A w \in Workflow : Takeable(pvc, PodOf[w]) => Takeable(pvc', PodOf[w])
    BY <2>1, ConstantsOK DEF Takeable, OlderLock, Older, TypeOK, Lock, Age
  <2> QED
    BY <2>1, <2>2, <2>3, <2>4 DEF PendingInv
<1>3. CASE ForeignWrite
  BY <1>3 DEF ForeignWrite, PendingInv
<1>4. CASE EditTimestamp
  BY <1>4 DEF EditTimestamp, PendingInv
<1>5. ASSUME NEW p \in Pod, Crash(p) PROVE PendingInv'
  <2>1. ASSUME NEW w \in Workflow, pc'[w] \in PutSteps
        PROVE  pc'[w] = pc[w] /\ copy'[w] = copy[w] /\ (current'[w] => current[w])
    BY <1>5, <2>1 DEF Crash, PutSteps
  <2>2. pvc' = pvc
    BY <1>5 DEF Crash
  <2> QED
    BY <2>1, <2>2 DEF PendingInv, PutSteps, Takeable
<1>6. CASE UNCHANGED vars
  BY <1>6 DEF vars, PendingInv, Takeable
<1> QED
  BY <1>1, <1>2, <1>3, <1>4, <1>5, <1>6 DEF Next

\* TypeOK and PendingInv hold throughout.
LEMMA PendingHolds == Spec => [](TypeOK /\ PendingInv)
<1>1. Init => PendingInv
  BY DEF Init, PendingInv, PutSteps
<1> QED
  BY <1>1, TypeCorrect, PendingStep, PTL DEF Spec

\* Resource versions make the lock safe from lost updates: with any number of
\* workflows, faults, edits and crashes, its owner changes only by a legal
\* acquisition or by its owner's release, and its timestamp never goes back.
THEOREM LockDisciplineHolds == Spec => LockDiscipline
<1>1. ASSUME TypeOK, PendingInv, [Next]_vars PROVE [LockDisciplineStep]_vars
  <2>1. ASSUME NEW w \in Workflow, Run(w) \/ Recover(w) PROVE LockDisciplineStep
    <3>1. LocalStep(w)
      BY <1>1, <2>1, RunIsLocal
    <3>2. CASE pvc' = pvc
      <4>1. pvc.age >= pvc.age
        BY <1>1, ConstantsOK DEF TypeOK, Lock, Age
      <4> QED
        BY <3>2, <4>1 DEF LockDisciplineStep
    <3>3. CASE pvc' # pvc
      <4>1. /\ pc[w] \in PutSteps /\ pc'[w] # pc[w]
            /\ current[w] /\ pvc' = copy[w]
        BY <3>1, <3>3 DEF LocalStep
      <4>2. PodOf[w] \in Pod /\ PodOf[w] # NoPod
        BY ConstantsOK
      <4>3. CASE pc[w] = "lockPut"
        BY <1>1, <4>1, <4>2, <4>3 DEF PendingInv, Takeable, LockDisciplineStep
      <4>4. CASE pc[w] = "releasePut"
        BY <1>1, <4>1, <4>2, <4>4 DEF PendingInv, LockDisciplineStep
      <4> QED
        BY <1>1, <3>3, <4>1, <4>3, <4>4 DEF PendingInv
    <3> QED
      BY <3>2, <3>3
  <2>2. CASE Tick
    <3>1. pvc'.owner = pvc.owner /\ pvc'.age >= pvc.age
      BY <1>1, <2>2, OlderLockType DEF Tick, TypeOK
    <3> QED
      BY <3>1 DEF LockDisciplineStep
  <2>3. CASE ForeignWrite \/ EditTimestamp \/ \E p \in Pod : Crash(p)
    BY <1>1, <2>3 DEF ForeignWrite, EditTimestamp, Crash, LockDisciplineStep, TypeOK, Lock, Age
  <2> QED
    BY <1>1, <2>1, <2>2, <2>3 DEF Next
<1> QED
  BY <1>1, PendingHolds, PTL DEF Spec, LockDiscipline

----------------------------------------------------------------------------
(* Mutual exclusion of workflows within the timeout. *)

\* Nobody edits timestamps by hand: every one on the server or in a copy parses.
StampInv == pvc.stamp = "ok" /\ \A w \in Workflow : copy[w].stamp = "ok"

\* A workflow whose timestamp has not expired still owns the lock, and the
\* timestamp on the PVC is the one it relies on.
LeaseInv ==
    \A w \in Workflow :
        Holding(w) /\ Fresh(w) => pvc.owner = PodOf[w] /\ pvc.age = lease[w]

\* A deployment a workflow tracks belongs to one that is still to clean it up.
OwnInv == \A w \in Workflow : own[w] => pc[w] \in Tracked \cup {"ready"}

LeaseFacts == StampInv /\ LeaseInv /\ OwnInv

\* How a step of w may leave w holding the lock, and what it does to leases.
LeaseStep(w) ==
    /\ \A v \in Workflow \ {w} : lease'[v] = lease[v]
    /\ pc'[w] \in Working =>
          \/ pc[w] \in Working \ {"releasePut"} /\ lease'[w] = lease[w]
          \/ pvc' = pvc /\ pvc.owner = PodOf[w] /\ lease'[w] = pvc.age
          \/ pc[w] = "lockPut" /\ current[w] /\ pvc' = copy[w] /\ lease'[w] = copy[w].age

\* Every step of a workflow treats leases so.
LEMMA RunLease ==
  ASSUME TypeOK, NEW w \in Workflow, Run(w) \/ Recover(w)
  PROVE  LeaseStep(w)
<1>0. pc \in [Workflow -> Steps] /\ lease \in [Workflow -> Age]
  BY DEF TypeOK
<1> USE DEF LeaseStep, NoApiCall, Fetch, UpdatePVC, Store,
            Discard, Goto, Continue, Leave, Return, Working, Tracked, Resting
<1>1. CASE StartWorkflow(w)
  BY <1>0, <1>1 DEF StartWorkflow
<1>2. CASE AcquireGet(w)
  BY <1>0, <1>2 DEF AcquireGet
<1>3. CASE AcquireUpdate(w)
  BY <1>0, <1>3 DEF AcquireUpdate
<1>4. CASE CleanupExistingDeployments(w)
  BY <1>0, <1>4 DEF CleanupExistingDeployments
<1>5. CASE CreateRsyncDeployment(w)
  BY <1>0, <1>5 DEF CreateRsyncDeployment
<1>6. CASE WaitForPodReady(w)
  BY <1>0, <1>6 DEF WaitForPodReady
<1>7. CASE ObtainKeys(w)
  BY <1>0, <1>7 DEF ObtainKeys, generateSSHKeys, GenerateSSHKeys, getPublicKey, Skip, Step
<1>8. CASE HasVolumeAttachments(w)
  BY <1>0, <1>8 DEF HasVolumeAttachments, Step
<1>9. CASE FindMountPath(w)
  BY <1>0, <1>9 DEF FindMountPath, FindPVCNode, FindAgentPod, FindPVCMountPath,
              getMountPathFromCache, Skip, Step
<1>10. CASE SaveMountPathToCache(w)
  BY <1>0, <1>10 DEF SaveMountPathToCache
<1>11. CASE ConnectToAgent(w)
  BY <1>0, <1>11 DEF ConnectToAgent, PushPublicKeyToAgent, TestSSHConnectivity, Skip, Step
<1>12. CASE StatusGet(w)
  BY <1>0, <1>12 DEF StatusGet, AfterStatus
<1>13. CASE StatusUpdate(w)
  BY <1>0, <1>13 DEF StatusUpdate, AfterStatus
<1>14. CASE PerformRsync(w)
  BY <1>0, <1>14 DEF PerformRsync
<1>15. CASE AnnotateGet(w)
  BY <1>0, <1>15 DEF AnnotateGet
<1>16. CASE AnnotateUpdate(w)
  BY <1>0, <1>16 DEF AnnotateUpdate
<1>17. CASE CleanupResources(w)
  BY <1>0, <1>17 DEF CleanupResources, Cleanup
<1>18. CASE ReleaseGet(w)
  BY <1>0, <1>18 DEF ReleaseGet
<1>19. CASE ReleaseUpdate(w)
  BY <1>0, <1>19 DEF ReleaseUpdate
<1>20. CASE Recover(w)
  BY <1>0, <1>20 DEF Recover
<1> QED
  BY <1>1, <1>2, <1>3, <1>4, <1>5, <1>6, <1>7, <1>8, <1>9, <1>10, <1>11, <1>12,
     <1>13, <1>14, <1>15, <1>16, <1>17, <1>18, <1>19, <1>20 DEF Run

\* Copies of parsable timestamps parse.
LEMMA RunStamp ==
  ASSUME TypeOK, StampInv, NEW w \in Workflow, Run(w) \/ Recover(w)
  PROVE  StampInv'
<1>0. copy \in [Workflow -> Lock]
  BY DEF TypeOK
<1>a. ASSUME NoApiCall PROVE StampInv'
  BY <1>a DEF NoApiCall, StampInv
<1>b. ASSUME NEW lock, lock.stamp = "ok", Fetch(w, lock) PROVE StampInv'
  BY <1>0, <1>b DEF Fetch, StampInv
<1>c. ASSUME NEW ok \in BOOLEAN, UpdatePVC(w, ok) PROVE StampInv'
  BY <1>0, <1>c DEF UpdatePVC, Store, Discard, Unlocked, StampInv
<1>d. pvc.stamp = "ok" /\ Unlocked.stamp = "ok"
  BY DEF StampInv, Unlocked
<1>1. CASE StartWorkflow(w)
  BY <1>a, <1>1 DEF StartWorkflow
<1>2. CASE AcquireGet(w)
  BY <1>a, <1>b, <1>2 DEF AcquireGet
<1>3. CASE AcquireUpdate(w)
  BY <1>a, <1>c, <1>3 DEF AcquireUpdate
<1>4. CASE CleanupExistingDeployments(w)
  BY <1>a, <1>4 DEF CleanupExistingDeployments
<1>5. CASE CreateRsyncDeployment(w)
  BY <1>a, <1>5 DEF CreateRsyncDeployment
<1>6. CASE WaitForPodReady(w)
  BY <1>a, <1>6 DEF WaitForPodReady
<1>7. CASE ObtainKeys(w)
  BY <1>a, <1>7 DEF ObtainKeys, generateSSHKeys, GenerateSSHKeys, getPublicKey, Skip, Step
<1>8. CASE HasVolumeAttachments(w)
  BY <1>a, <1>8 DEF HasVolumeAttachments, Step
<1>9. CASE FindMountPath(w)
  BY <1>a, <1>b, <1>d, <1>9 DEF FindMountPath, FindPVCNode, FindAgentPod, FindPVCMountPath,
              getMountPathFromCache, Skip, Step
<1>10. CASE SaveMountPathToCache(w)
  BY <1>c, <1>10 DEF SaveMountPathToCache
<1>11. CASE ConnectToAgent(w)
  BY <1>a, <1>11 DEF ConnectToAgent, PushPublicKeyToAgent, TestSSHConnectivity, Skip, Step
<1>12. CASE StatusGet(w)
  BY <1>a, <1>b, <1>d, <1>12 DEF StatusGet, AfterStatus
<1>13. CASE StatusUpdate(w)
  BY <1>c, <1>13 DEF StatusUpdate, AfterStatus
<1>14. CASE PerformRsync(w)
  BY <1>a, <1>14 DEF PerformRsync
<1>15. CASE AnnotateGet(w)
  BY <1>a, <1>b, <1>d, <1>15 DEF AnnotateGet
<1>16. CASE AnnotateUpdate(w)
  BY <1>c, <1>16 DEF AnnotateUpdate
<1>17. CASE CleanupResources(w)
  BY <1>a, <1>b, <1>d, <1>17 DEF CleanupResources, Cleanup
<1>18. CASE ReleaseGet(w)
  BY <1>a, <1>b, <1>d, <1>18 DEF ReleaseGet
<1>19. CASE ReleaseUpdate(w)
  BY <1>c, <1>19 DEF ReleaseUpdate
<1>20. CASE Recover(w)
  BY <1>0, <1>20 DEF Recover, Discard, Unlocked, StampInv
<1> QED
  BY <1>1, <1>2, <1>3, <1>4, <1>5, <1>6, <1>7, <1>8, <1>9, <1>10, <1>11, <1>12,
     <1>13, <1>14, <1>15, <1>16, <1>17, <1>18, <1>19, <1>20 DEF Run

\* A workflow leaves the steps that track its deployment only without one.
LEMMA RunOwn ==
  ASSUME TypeOK, OwnInv, NEW w \in Workflow, Run(w) \/ Recover(w)
  PROVE  OwnInv'
<1> DEFINE Keeps == /\ \A v \in Workflow \ {w} : own'[v] => own[v]
                    /\ own'[w] => pc'[w] \in Tracked \cup {"ready"}
<1>0. /\ pc \in [Workflow -> Steps] /\ own \in [Workflow -> BOOLEAN]
      /\ own[w] => pc[w] \in Tracked \cup {"ready"}
  BY DEF TypeOK, OwnInv
<1> USE DEF Goto, Continue, Leave, Return, Working, Tracked, Resting, Abandon
<1>1. ASSUME StartWorkflow(w) PROVE Keeps
  BY <1>0, <1>1 DEF StartWorkflow
<1>2. ASSUME AcquireGet(w) PROVE Keeps
  BY <1>0, <1>2 DEF AcquireGet
<1>3. ASSUME AcquireUpdate(w) PROVE Keeps
  BY <1>0, <1>3 DEF AcquireUpdate
<1>4. ASSUME CleanupExistingDeployments(w) PROVE Keeps
  BY <1>0, <1>4 DEF CleanupExistingDeployments
<1>5. ASSUME CreateRsyncDeployment(w) PROVE Keeps
  BY <1>0, <1>5 DEF CreateRsyncDeployment
<1>6. ASSUME WaitForPodReady(w) PROVE Keeps
  BY <1>0, <1>6 DEF WaitForPodReady
<1>7. ASSUME ObtainKeys(w) PROVE Keeps
  BY <1>0, <1>7 DEF ObtainKeys, generateSSHKeys, GenerateSSHKeys, getPublicKey, Skip, Step
<1>8. ASSUME HasVolumeAttachments(w) PROVE Keeps
  BY <1>0, <1>8 DEF HasVolumeAttachments, Step
<1>9. ASSUME FindMountPath(w) PROVE Keeps
  BY <1>0, <1>9 DEF FindMountPath, FindPVCNode, FindAgentPod, FindPVCMountPath,
              getMountPathFromCache, Skip, Step
<1>10. ASSUME SaveMountPathToCache(w) PROVE Keeps
  BY <1>0, <1>10 DEF SaveMountPathToCache
<1>11. ASSUME ConnectToAgent(w) PROVE Keeps
  BY <1>0, <1>11 DEF ConnectToAgent, PushPublicKeyToAgent, TestSSHConnectivity, Skip, Step
<1>12. ASSUME StatusGet(w) PROVE Keeps
  BY <1>0, <1>12 DEF StatusGet, AfterStatus
<1>13. ASSUME StatusUpdate(w) PROVE Keeps
  BY <1>0, <1>13 DEF StatusUpdate, AfterStatus
<1>14. ASSUME PerformRsync(w) PROVE Keeps
  BY <1>0, <1>14 DEF PerformRsync
<1>15. ASSUME AnnotateGet(w) PROVE Keeps
  BY <1>0, <1>15 DEF AnnotateGet
<1>16. ASSUME AnnotateUpdate(w) PROVE Keeps
  BY <1>0, <1>16 DEF AnnotateUpdate
<1>17. ASSUME CleanupResources(w) PROVE Keeps
  BY <1>0, <1>17 DEF CleanupResources, Cleanup
<1>18. ASSUME ReleaseGet(w) PROVE Keeps
  BY <1>0, <1>18 DEF ReleaseGet
<1>19. ASSUME ReleaseUpdate(w) PROVE Keeps
  BY <1>0, <1>19 DEF ReleaseUpdate
<1>20. ASSUME Recover(w) PROVE Keeps
  BY <1>0, <1>20 DEF Recover
<1>21. Keeps
  BY <1>1, <1>2, <1>3, <1>4, <1>5, <1>6, <1>7, <1>8, <1>9, <1>10, <1>11, <1>12,
     <1>13, <1>14, <1>15, <1>16, <1>17, <1>18, <1>19, <1>20, Zenon DEF Run
<1>22. \A v \in Workflow \ {w} : pc'[v] = pc[v]
  BY RunIsLocal DEF LocalStep
<1> QED
  BY <1>21, <1>22, Zenon DEF OwnInv

\* The lease facts are inductive when each pod runs one workflow for the PVC and
\* nobody edits timestamps: a taker finds the holder's timestamp expired, a
\* releaser is the holder itself, and any other write puts back the same lock.
LEMMA LeaseFactsStep ==
  ASSUME OnePerPod, "edit" \notin Faults, TypeOK, PendingInv, LeaseFacts, [Next]_vars
  PROVE  LeaseFacts'
<1>1. ASSUME NEW w \in Workflow, Run(w) \/ Recover(w) PROVE LeaseFacts'
  <2>1. LocalStep(w) /\ LeaseStep(w)
    BY <1>1, RunIsLocal, RunLease
  <2>2. StampInv' /\ OwnInv'
    BY <1>1, RunStamp, RunOwn DEF LeaseFacts
  <2>3. ASSUME NEW v \in Workflow, Holding(v)', Fresh(v)'
        PROVE  pvc'.owner = PodOf[v] /\ pvc'.age = lease'[v]
    <3>1. \A u \in Workflow : PodOf[u] # NoPod
      BY ConstantsOK
    <3>2. ASSUME Holding(v), Fresh(v), lease'[v] = lease[v], v = w => pc[w] # "releasePut"
          PROVE  pvc'.owner = PodOf[v] /\ pvc'.age = lease'[v]
      <4>1. pvc.owner = PodOf[v] /\ pvc.age = lease[v] /\ pvc.stamp = "ok"
        BY <3>2 DEF LeaseFacts, LeaseInv, StampInv
      <4>2. CASE pvc' = pvc
        BY <4>1, <4>2, <3>2
      <4>3. CASE pvc' # pvc
        <5>1. pc[w] \in PutSteps /\ current[w] /\ pvc' = copy[w]
          BY <2>1, <4>3 DEF LocalStep
        <5>2. pc[w] # "lockPut"
          <6>1. SUFFICES ASSUME pc[w] = "lockPut" PROVE FALSE
            OBVIOUS
          <6>2. Takeable(pvc, PodOf[w])
            BY <5>1, <6>1 DEF PendingInv
          <6>3. ~(pvc.age > LockTimeout)
            BY <3>2, <4>1, ConstantsOK DEF Fresh, TypeOK, Age
          <6> QED
            BY <6>2, <6>3, <4>1, <3>1 DEF Takeable
        <5>3. pc[w] # "releasePut"
          <6>1. SUFFICES ASSUME pc[w] = "releasePut" PROVE FALSE
            OBVIOUS
          <6>2. pvc.owner = PodOf[w]
            BY <5>1, <6>1 DEF PendingInv
          <6>3. v = w
            BY <4>1, <6>2 DEF OnePerPod
          <6> QED
            BY <3>2, <6>1, <6>3
        <5>4. copy[w] = pvc
          BY <5>1, <5>2, <5>3 DEF PendingInv
        <5> QED
          BY <5>1, <5>4, <4>3
      <4> QED
        BY <4>2, <4>3
    <3>3. CASE v # w
      BY <2>1, <2>3, <3>2, <3>3 DEF LocalStep, LeaseStep, Holding, Fresh
    <3>4. CASE v = w
      <4>1. CASE pc[w] \in Working \ {"releasePut"} /\ lease'[w] = lease[w]
        BY <2>3, <3>2, <3>4, <4>1 DEF Holding, Fresh
      <4>2. CASE pvc' = pvc /\ pvc.owner = PodOf[w] /\ lease'[w] = pvc.age
        BY <3>4, <4>2
      <4>3. CASE /\ pc[w] = "lockPut" /\ current[w]
                 /\ pvc' = copy[w] /\ lease'[w] = copy[w].age
        BY <3>4, <4>3 DEF PendingInv
      <4> QED
        BY <2>1, <2>3, <3>4, <4>1, <4>2, <4>3 DEF LeaseStep, Holding
    <3> QED
      BY <3>3, <3>4
  <2> QED
    BY <2>2, <2>3 DEF LeaseFacts, LeaseInv
<1>2. CASE Tick
  <2>1. /\ pc' = pc /\ own' = own /\ pvc' = OlderLock(pvc)
        /\ \A w \in Workflow : copy'[w] = OlderLock(copy[w])
        /\ \A w \in Workflow : pc[w] \in Working => lease'[w] = Older(lease[w])
    BY <1>2 DEF Tick
  <2>2. StampInv'
    BY <2>1, OlderLockType DEF StampInv, LeaseFacts, TypeOK
  <2>3. ASSUME NEW w \in Workflow, Holding(w)', Fresh(w)'
        PROVE  pvc'.owner = PodOf[w] /\ pvc'.age = lease'[w]
    <3>1. pc[w] \in Working /\ lease'[w] = Older(lease[w])
      BY <2>1, <2>3 DEF Holding
    <3>2. Fresh(w)
      BY <2>3, <3>1, ConstantsOK DEF Fresh, Older, TypeOK, Age
    <3>3. pvc.owner = PodOf[w] /\ pvc.age = lease[w] /\ PodOf[w] # NoPod
      BY <3>1, <3>2, ConstantsOK DEF LeaseFacts, LeaseInv, Holding
    <3> QED
      BY <2>1, <3>1, <3>3 DEF OlderLock, TypeOK, Lock
  <2>4. OwnInv'
    BY <2>1 DEF LeaseFacts, OwnInv
  <2> QED
    BY <2>2, <2>3, <2>4 DEF LeaseFacts, LeaseInv
<1>3. CASE ForeignWrite
  BY <1>3 DEF ForeignWrite, LeaseFacts, StampInv, LeaseInv, OwnInv, Holding, Fresh
<1>4. CASE EditTimestamp
  BY <1>4 DEF EditTimestamp
<1>5. ASSUME NEW p \in Pod, Crash(p) PROVE LeaseFacts'
  <2>1. StampInv'
    BY <1>5 DEF Crash, LeaseFacts, StampInv, Unlocked, TypeOK
  <2>2. LeaseInv'
    BY <1>5 DEF Crash, LeaseFacts, LeaseInv, Holding, Fresh, Working, TypeOK
  <2>3. OwnInv'
    BY <1>5 DEF Crash, LeaseFacts, OwnInv, TypeOK
  <2> QED
    BY <2>1, <2>2, <2>3 DEF LeaseFacts
<1>6. CASE UNCHANGED vars
  BY <1>6 DEF vars, LeaseFacts, StampInv, LeaseInv, OwnInv, Holding, Fresh
<1> QED
  BY <1>1, <1>2, <1>3, <1>4, <1>5, <1>6 DEF Next

\* All the invariants hold throughout, under the same two assumptions.
LEMMA LeaseFactsHold ==
  ASSUME OnePerPod, "edit" \notin Faults
  PROVE  Spec => [](TypeOK /\ PendingInv /\ LeaseFacts)
<1>1. Init => LeaseFacts
  BY DEF Init, LeaseFacts, StampInv, LeaseInv, OwnInv, Unlocked, Holding, Working
<1>2. TypeOK /\ PendingInv /\ LeaseFacts /\ [Next]_vars => LeaseFacts'
  BY LeaseFactsStep
<1> QED
  BY <1>1, <1>2, PendingHolds, PTL DEF Spec

\* Mutual exclusion: when each pod runs one workflow for the PVC and nobody edits
\* the timestamp, AcquirePVCLock and ReleasePVCLock never let two workflows with
\* unexpired timestamps work at once, whatever fails and whoever crashes.
THEOREM Exclusion ==
  ASSUME OnePerPod, "edit" \notin Faults
  PROVE  Spec => []ExclusiveWhileFresh
<1>1. LeaseFacts => ExclusiveWhileFresh
  BY DEF LeaseFacts, LeaseInv, ExclusiveWhileFresh, OnePerPod
<1> QED
  BY <1>1, LeaseFactsHold, PTL

\* Under the same assumptions CleanupExistingDeployments never deletes the rsync
\* deployment of a workflow that is within its timeout, unless it is itself
\* running on an expired timestamp.
THEOREM PurgeSparesFreshHolds ==
  ASSUME OnePerPod, "edit" \notin Faults
  PROVE  Spec => PurgeSparesFresh
<1>1. ASSUME TypeOK, LeaseFacts, [Next]_vars PROVE [PurgeStep]_vars
  <2>1. SUFFICES ASSUME NEW w \in Workflow, own[w], ~own'[w], pc'[w] = pc[w], Next
                 PROVE  \/ ~Fresh(w)
                        \/ \E v \in Workflow : pc[v] = "purge" /\ pc'[v] # "purge" /\ ~Fresh(v)
    BY <1>1 DEF PurgeStep
  <2>2. pc[w] \in Tracked \cup {"ready"}
    BY <1>1, <2>1 DEF LeaseFacts, OwnInv
  <2>3. Holding(w) /\ pc[w] # "purge"
    BY <2>2 DEF Holding, Tracked, Working
  <2>4. ASSUME NEW v \in Workflow, Run(v) \/ Recover(v)
        PROVE  pc[v] = "purge" /\ pc'[v] # "purge"
    <3>1. v # w => pc[v] = "purge" /\ pc'[v] # "purge"
      BY <1>1, <2>1, <2>4 DEF Run, Recover, StartWorkflow, AcquireGet, AcquireUpdate,
         CleanupExistingDeployments, CreateRsyncDeployment, WaitForPodReady, ObtainKeys,
         generateSSHKeys, GenerateSSHKeys, getPublicKey, HasVolumeAttachments, FindMountPath, FindPVCNode,
         FindAgentPod, FindPVCMountPath, getMountPathFromCache, SaveMountPathToCache, ConnectToAgent,
         PushPublicKeyToAgent, TestSSHConnectivity, Skip,
         StatusGet, StatusUpdate, PerformRsync, AnnotateGet, AnnotateUpdate,
         CleanupResources, Cleanup, ReleaseGet, ReleaseUpdate, Abandon, Step, Continue, Leave,
         Goto, TypeOK, Tracked
    <3>2. v # w
      BY <1>1, <2>1, <2>2, <2>4 DEF Run, Recover, StartWorkflow, AcquireGet, AcquireUpdate,
         CleanupExistingDeployments, CreateRsyncDeployment, WaitForPodReady, ObtainKeys,
         generateSSHKeys, GenerateSSHKeys, getPublicKey, HasVolumeAttachments, FindMountPath, FindPVCNode,
         FindAgentPod, FindPVCMountPath, getMountPathFromCache, SaveMountPathToCache, ConnectToAgent,
         PushPublicKeyToAgent, TestSSHConnectivity, Skip,
         StatusGet, StatusUpdate, PerformRsync, AnnotateGet, AnnotateUpdate,
         CleanupResources, Cleanup, ReleaseGet, ReleaseUpdate, Abandon, Step, Continue, Leave,
         Goto, TypeOK, Tracked, Working
    <3> QED
      BY <3>1, <3>2
  <2>5. ASSUME NEW v \in Workflow, Run(v) \/ Recover(v)
        PROVE  ~Fresh(w) \/ ~Fresh(v)
    <3>1. pc[v] = "purge" /\ v # w /\ Holding(v)
      BY <2>3, <2>4, <2>5 DEF Holding, Working
    <3> QED
      BY <1>1, <2>3, <3>1 DEF LeaseFacts, LeaseInv, OnePerPod
  <2>6. CASE Tick \/ ForeignWrite \/ EditTimestamp
    BY <2>1, <2>6 DEF Tick, ForeignWrite, EditTimestamp
  <2>7. ASSUME NEW p \in Pod, Crash(p) PROVE FALSE
    BY <1>1, <2>1, <2>2, <2>7 DEF Crash, Tracked, Working, TypeOK
  <2> QED
    BY <2>1, <2>4, <2>5, <2>6, <2>7 DEF Next
<1> QED
  BY <1>1, LeaseFactsHold, PTL DEF Spec, PurgeSparesFresh

----------------------------------------------------------------------------
(* The lock implements the abstract lease. *)

\* At most one workflow may rely on the lock.
LEMMA OneLeased ==
  ASSUME OnePerPod, LeaseFacts, NEW v \in Leased, NEW w \in Leased
  PROVE  v = w
BY DEF Leased, LeaseFacts, LeaseInv, OnePerPod

\* A workflow that comes to rely on the lock finds that no other does.  It found
\* its own pod's name on the PVC, or its Update took a lock that was takeable;
\* the annotations of a workflow within its timeout rule out both.
LEMMA LeaseBegins ==
  ASSUME OnePerPod, "edit" \notin Faults, TypeOK, PendingInv, LeaseFacts, [Next]_vars,
         NEW c \in Workflow, c \notin Leased, Holding(c)', Fresh(c)'
  PROVE  Leased = {}
<1>1. SUFFICES ASSUME NEW d \in Leased PROVE FALSE
  OBVIOUS
<1>2. /\ d \in Workflow /\ PodOf[d] # PodOf[c] /\ PodOf[d] # NoPod
      /\ pvc.owner = PodOf[d] /\ pvc.stamp = "ok" /\ ~(pvc.age > LockTimeout)
  BY <1>1, ConstantsOK DEF Leased, LeaseFacts, LeaseInv, StampInv, Fresh, OnePerPod, TypeOK, Age
<1>3. ASSUME NEW w \in Workflow, Run(w) \/ Recover(w) PROVE FALSE
  <2>1. LocalStep(w) /\ LeaseStep(w)
    BY <1>3, RunIsLocal, RunLease
  <2>2. c = w
    BY <2>1 DEF LocalStep, LeaseStep, Leased, Holding, Fresh
  <2>3. CASE pc[w] \in Working \ {"releasePut"} /\ lease'[w] = lease[w]
    BY <2>2, <2>3 DEF Leased, Holding, Fresh
  <2>4. CASE pvc.owner = PodOf[w]
    BY <1>2, <2>2, <2>4
  <2>5. CASE pc[w] = "lockPut" /\ current[w]
    BY <1>2, <2>2, <2>5 DEF PendingInv, Takeable
  <2> QED
    BY <2>1, <2>2, <2>3, <2>4, <2>5 DEF LeaseStep, Holding
<1>4. CASE Tick
  BY <1>4, ConstantsOK DEF Tick, Leased, Holding, Fresh, Older, TypeOK, Age
<1>5. CASE ForeignWrite \/ EditTimestamp \/ UNCHANGED vars
  BY <1>5 DEF ForeignWrite, EditTimestamp, vars, Leased, Holding, Fresh
<1>6. ASSUME NEW p \in Pod, Crash(p) PROVE FALSE
  BY <1>6 DEF Crash, Leased, Holding, Fresh, Working, TypeOK
<1> QED
  BY <1>3, <1>4, <1>5, <1>6 DEF Next

\* Under the assumptions of Exclusion the lock implements Lease: every step of
\* a workflow, of the clock and of the environment takes the free lock for one
\* workflow, ends the time in which one may rely on it, or does neither.
THEOREM LockRefinesLease ==
  ASSUME OnePerPod, "edit" \notin Faults
  PROVE  Spec => LockIsLease
<1>1. Init => Held!Init
  BY DEF Init, Held!Init, Leased, Holding, Working
<1>2. ASSUME TypeOK, PendingInv, LeaseFacts, [Next]_vars
      PROVE  [Held!Next]_Leased
  <2>1. LeaseFacts'
    BY <1>2, LeaseFactsStep
  <2>2. CASE Leased' = {}
    BY <2>2 DEF Held!Next, Held!End
  <2>3. ASSUME NEW c \in Leased', c \notin Leased PROVE \E d \in Workflow : Held!Take(d)
    <3>1. c \in Workflow /\ Holding(c)' /\ Fresh(c)'
      BY <2>3 DEF Leased, Holding, Fresh
    <3>2. Leased = {}
      BY <1>2, <2>3, <3>1, LeaseBegins
    <3>3. Leased' = {c}
      BY <2>1, <2>3 DEF Leased, Holding, Fresh, LeaseFacts, LeaseInv, OnePerPod
    <3> QED
      BY <3>1, <3>2, <3>3 DEF Held!Take
  <2>4. CASE Leased' # {} /\ Leased' \subseteq Leased
    BY <1>2, <2>4, OneLeased
  <2> QED
    BY <2>2, <2>3, <2>4 DEF Held!Next
<1>3. TypeOK /\ PendingInv /\ LeaseFacts /\ [Next]_vars => [Held!Next]_Leased
  BY <1>2
<1> QED
  BY <1>1, <1>3, LeaseFactsHold, PTL DEF Spec, LockIsLease, Held!Spec
=============================================================================
