------------------------ MODULE RemoteClusterProofs ------------------------
(***************************************************************************)
(* Proofs about the RemoteCluster controller, for any number of edits,     *)
(* outages and crashes, and about the election among the agents it deploys *)
(* to a cluster, for any number of them.                                   *)
(***************************************************************************)
EXTENDS RemoteCluster, TLAPS

\* The worker's copy of the object.
WorkCopy == [spec : Specification, st : Status, based : BOOLEAN, fresh : BOOLEAN]

Types == TypeOK /\ work \in WorkCopy

\* The cache shows the secret that exists, one that is gone, or none yet.
KeyInv == (keyCache = "same" => mainKey) /\ (keyCache = "old" => ~mainKey)

Served == agent /\ remoteKey = PushedKey /\ pubKey = PushedKey

\* While a reconcile runs, what its copy of the status says beyond the stored
\* one is what this reconcile has done itself.
WorkerInv ==
    work.based =>
        /\ pc = "verify" => work.st = obj.st
        /\ pc = "sync" => work.st.phase = obj.st.phase
        /\ pc = "write" =>
              /\ work.st.phase = "Current" => obj.st.phase = "Current" \/ Served
              /\ work.st.phase = "none" => obj.st.phase = "none" \/ ~agent

Inv == Types /\ KeyInv /\ WorkerInv

\* A worker that is not reconciling holds a well-typed copy.
LEMMA IdleType == Idle \in WorkCopy
BY DEF Idle, WorkCopy, NoSpec, Specification, Sync, Enabled, Pods, Schedule, Status, NoStatus

\* Initial states satisfy the invariant.
LEMMA InitInv == Init => Inv
<1> SUFFICES ASSUME Init PROVE Inv
  OBVIOUS
<1>1. obj \in Object /\ cache \in Object
  <2>1. [NoSpec EXCEPT !.sync = "on"] \in Specification
    BY DEF NoSpec, Specification, Sync, Enabled, Pods, Schedule
  <2>2. NoStatus \in Status
    BY DEF NoStatus, Status
  <2> QED
    BY <2>1, <2>2 DEF Init, Object
<1>2. Types
  <2>1. {queued, timer, mainKey, rsyncKey, agent} \subseteq BOOLEAN
    BY DEF Init
  <2>2. {keyCache, remoteKey, pubKey, rsyncRemote, loaded} \subseteq Copy /\ template \in Pods
    BY DEF Init, Pods, Copy
  <2>3. upsets \in 0..MaxUpsets
    BY ClusterConstants DEF Init
  <2> QED
    BY <1>1, <2>1, <2>2, <2>3, IdleType DEF Init, Types, TypeOK
<1>3. WorkerInv /\ KeyInv
  BY DEF Init, WorkerInv, Idle, KeyInv
<1> QED
  BY <1>2, <1>3 DEF Inv

-----------------------------------------------------------------------------
(* The shape of the state. *)

\* Marking a copy deleted keeps its type.
LEMMA DeletedType == \A c \in Copy : Deleted(c) \in Copy
BY DEF Deleted, Copy

\* One step of the worker leaves the count of outages within its bound.
LEMMA OutageType ==
    ASSUME Types, NEW f \in BOOLEAN, Outage(f)
    PROVE  upsets' \in 0..MaxUpsets /\ world' = world
BY ClusterConstants DEF Types, TypeOK, Outage, Upset

\* A deployment, however far it gets, leaves keys and agents well formed.
LEMMA DeployType ==
    ASSUME Types, NEW far \in 0..6, NEW k \in Copy, NEW f \in BOOLEAN, DeployTo(far, k, f)
    PROVE  /\ mainKey' \in BOOLEAN /\ rsyncKey' \in BOOLEAN /\ agent' \in BOOLEAN
           /\ remoteKey' \in Copy /\ pubKey' \in Copy /\ rsyncRemote' \in Copy
           /\ loaded' \in Copy /\ template' \in Pods
<1>1. mainKey' \in BOOLEAN /\ remoteKey' \in Copy /\ pubKey' \in Copy
  BY DEF DeployTo, DeployKeys, EnsureKeys, Types, TypeOK, Copy
<1>2. rsyncKey' \in BOOLEAN /\ rsyncRemote' \in Copy
  BY DEF DeployTo, EnsureRsyncKeys, Types, TypeOK, Copy
<1>3. agent' \in BOOLEAN /\ loaded' \in Copy /\ template' \in Pods
  <2>1. CASE far < 5
    BY <2>1 DEF DeployTo, agents, Types, TypeOK
  <2>2. CASE far >= 5
    BY <2>2, <1>2 DEF DeployTo, ApplyDaemonSet, Template, Types, TypeOK, WorkCopy, Specification, Copy
  <2> QED
    BY <2>1, <2>2
<1> QED
  BY <1>1, <1>2, <1>3

\* So does a cleanup.
LEMMA CleanType ==
    ASSUME Types, NEW far \in 0..3, NEW f \in BOOLEAN, CleanTo(far, f)
    PROVE  /\ mainKey' \in BOOLEAN /\ rsyncKey' \in BOOLEAN /\ agent' \in BOOLEAN
           /\ remoteKey' \in Copy /\ pubKey' \in Copy /\ rsyncRemote' \in Copy
           /\ loaded' \in Copy /\ template' \in Pods
<1>1. agent' \in BOOLEAN /\ template' \in Pods
  BY DEF CleanTo, Types, TypeOK, Pods
<1>2. CASE far = 0
  BY <1>1, <1>2 DEF CleanTo, keys, Types, TypeOK
<1>3. CASE far >= 1
  <2>1. mainKey' \in BOOLEAN /\ remoteKey' \in Copy /\ pubKey' \in Copy
    BY <1>3, DeletedType DEF CleanTo, DeleteKeys, Types, TypeOK, Copy
  <2>2. rsyncKey' \in BOOLEAN /\ rsyncRemote' \in Copy /\ loaded' \in Copy
    BY <1>3, DeletedType DEF CleanTo, DeleteRsyncKeys, Types, TypeOK, Copy
  <2> QED
    BY <1>1, <2>1, <2>2
<1> QED
  BY <1>2, <1>3

\* Writing a status keeps the object well formed.
LEMMA WriteType ==
    ASSUME Types, NEW st \in Status, Write(st)
    PROVE  obj' \in Object
BY DEF Types, TypeOK, Write, Object

\* The check of the schedule leaves a set of conditions.
LEMMA CheckedType ==
    ASSUME Types
    PROVE  Checked \in SUBSET (Trouble \cup {"schedule"})
<1>1. work.spec.schedule \in Schedule /\ work.st.bad \in SUBSET (Trouble \cup {"schedule"})
  BY DEF Types, WorkCopy, Specification, Status
<1> QED
  BY <1>1 DEF Checked, Schedule

\* How far a deployment gets is one of its steps.
LEMMA StopsType == \A k \in Copy, f \in BOOLEAN : DeployStops(k, f) \subseteq 0..6
BY DEF DeployStops

\* Every step keeps the types.
LEMMA TypesStep ==
    ASSUME Types, [Next]_vars
    PROVE  Types'
<1>1. CASE Edit
  <2>1. obj' \in Object
    BY <1>1 DEF Edit, Types, TypeOK, Object, Specification
  <2>2. work' \in WorkCopy
    BY <1>1 DEF Edit, Types, WorkCopy
  <2> QED
    BY <1>1, <2>1, <2>2, ClusterConstants DEF Edit, Upset, Types, TypeOK, queue, keys, agents
<1>2. CASE SyncCache \/ SyncKeyCache \/ TimerFires
  BY <1>2 DEF SyncCache, SyncKeyCache, Listed, TimerFires, Types, TypeOK, Copy,
              env, queue, worker, keys, agents
<1>3. CASE ChangeWorld
  <2>1. queued' \in BOOLEAN /\ world' \in {"ok"} \cup Trouble
    BY <1>3 DEF ChangeWorld, Types, TypeOK
  <2> QED
    BY <1>3, <2>1, ClusterConstants
       DEF ChangeWorld, Upset, Types, TypeOK, worker, keys, agents
<1>4. CASE OtherCluster
  BY <1>4, ClusterConstants, DeletedType
     DEF OtherCluster, Upset, Types, TypeOK, queue, worker, agents
<1>5. CASE HourPasses
  BY <1>5 DEF HourPasses, Types, TypeOK, Object, Status, env, queue, worker, keys, agents
<1>6. CASE Begin
  BY <1>6 DEF Begin, Types, TypeOK, WorkCopy, Object, env, keys, agents
<1>7. CASE Verify
  <2>1. [work.st EXCEPT !.bad = Checked \ Trouble] \in Status
    BY CheckedType DEF Types, WorkCopy, Status
  <2>2. work' \in WorkCopy
    BY <1>7, <2>1 DEF Verify, Types, TypeOK, WorkCopy, Object
  <2> QED
    BY <1>7, <2>2 DEF Verify, Types, TypeOK, env, queue, keys, agents
<1>8. ASSUME NEW f \in BOOLEAN, VerifyFails(f)
      PROVE  Types'
  <2>1. obj' \in Object
    <3>1. \A e \in Failures(f) : e.bad \in SUBSET (Trouble \cup {"schedule"})
      <4>1. Meets(f) \subseteq Trouble
        BY DEF Meets, Types, TypeOK, Trouble
      <4>2. Checked \in SUBSET (Trouble \cup {"schedule"}) /\ "config" \in Trouble
        BY CheckedType DEF Trouble
      <4> QED
        BY <4>1, <4>2 DEF Failures, Failure
    <3>2. \A e \in Failures(f) : [work.st EXCEPT !.bad = e.bad] \in Status
      BY <3>1 DEF Types, WorkCopy, Status
    <3> QED
      BY <1>8, <3>2, WriteType DEF VerifyFails, Types, TypeOK
  <2> QED
    BY <1>8, <2>1, IdleType, OutageType
       DEF VerifyFails, RequeueNow, Done, Types, TypeOK, keys, agents
<1>9. ASSUME NEW f \in BOOLEAN, Skip(f)
      PROVE  Types'
  BY <1>9, OutageType DEF Skip, Types, TypeOK, WorkCopy, Status, queue, keys, agents
<1>10. ASSUME NEW f \in BOOLEAN, Deploy(f)
       PROVE  Types'
  <2>1. PICK k \in Copy, far \in 0..6 : /\ DeployTo(far, k, f)
                                        /\ keyCache' = IF k = "same" THEN k ELSE keyCache
    BY <1>10, StopsType DEF Deploy
  <2>2. work' \in WorkCopy
    BY <1>10 DEF Deploy, Types, WorkCopy, Status
  <2> QED
    BY <1>10, <2>1, <2>2, DeployType, OutageType DEF Deploy, Types, TypeOK, queue
<1>11. ASSUME NEW f \in BOOLEAN, Clean(f)
       PROVE  Types'
  <2>1. PICK far \in 0..3 : CleanTo(far, f)
    BY <1>11 DEF Clean
  <2>2. work' \in WorkCopy
    BY <1>11 DEF Clean, Types, WorkCopy, Status
  <2> QED
    BY <1>11, <2>1, <2>2, CleanType, DeletedType, OutageType DEF Clean, Types, TypeOK, queue
<1>12. ASSUME NEW f \in BOOLEAN, UpdateStatus(f)
       PROVE  Types'
  <2>1. work.st \in Status
    BY DEF Types, WorkCopy
  <2> QED
    BY <1>12, <2>1, IdleType, OutageType, WriteType
       DEF UpdateStatus, RequeueNow, Done, Types, TypeOK, keys, agents
<1>13. CASE Crash
  <2> DEFINE Formed ==
        /\ mainKey' \in BOOLEAN /\ rsyncKey' \in BOOLEAN /\ agent' \in BOOLEAN
        /\ remoteKey' \in Copy /\ pubKey' \in Copy /\ rsyncRemote' \in Copy
        /\ loaded' \in Copy /\ template' \in Pods
  <2>1. Formed
    <3>1. CASE UNCHANGED <<keys, agents>>
      BY <3>1 DEF keys, agents, Types, TypeOK
    <3>2. ASSUME NEW k \in Copy, NEW far \in DeployStops(k, TRUE), DeployTo(far, k, FALSE)
          PROVE  Formed
      <4>1. far \in 0..6 /\ FALSE \in BOOLEAN
        BY StopsType
      <4> QED
        BY <3>2, <4>1, DeployType
    <3>3. ASSUME NEW far \in 1..2, CleanTo(far, FALSE)
          PROVE  Formed
      <4>1. far \in 0..3 /\ FALSE \in BOOLEAN
        OBVIOUS
      <4> QED
        BY <3>3, <4>1, CleanType
    <3> QED
      BY <1>13, <3>1, <3>2, <3>3 DEF Crash
  <2> QED
    BY <1>13, <2>1, IdleType, OutageType DEF Crash, Listed, Copy, Types, TypeOK
<1>14. CASE UNCHANGED vars
  BY <1>14 DEF vars, Types, TypeOK, env, queue, worker, keys, agents
<1> QED
  BY <1>1, <1>2, <1>3, <1>4, <1>5, <1>6, <1>7, <1>8, <1>9, <1>10, <1>11, <1>12, <1>13,
     <1>14 DEF Next, Reconcile

\* The cache follows the secret: it is written and deleted by this controller
\* only, which makes a new one when the cache shows none.
LEMMA KeyStep ==
    ASSUME Types, KeyInv, [Next]_vars
    PROVE  KeyInv'
<1>1. CASE UNCHANGED <<mainKey, keyCache>>
  BY <1>1 DEF KeyInv
<1>2. CASE OtherCluster
  BY <1>2 DEF OtherCluster, Deleted, KeyInv, Types, TypeOK
<1>3. CASE SyncKeyCache
  BY <1>3 DEF SyncKeyCache, Listed, KeyInv, keys
<1>4. ASSUME NEW f \in BOOLEAN, Deploy(f)
      PROVE  KeyInv'
  <2>1. PICK k \in Copy, far \in 0..6 : /\ DeployTo(far, k, f)
                                        /\ keyCache' = IF k = "same" THEN k ELSE keyCache
    BY <1>4, StopsType DEF Deploy
  <2>2. CASE far = 0
    BY <2>1, <2>2 DEF DeployTo, DeployKeys, KeyInv
  <2>3. CASE far >= 1
    BY <2>1, <2>3 DEF DeployTo, DeployKeys, EnsureKeys, KeyInv
  <2> QED
    BY <2>2, <2>3
<1>5. ASSUME NEW f \in BOOLEAN, Clean(f)
      PROVE  KeyInv'
  <2>1. mainKey' = mainKey \/ ~mainKey'
    BY <1>5 DEF Clean, CleanTo, DeleteKeys, keys
  <2>2. keyCache' = IF mainKey' THEN keyCache ELSE Deleted(keyCache)
    BY <1>5 DEF Clean
  <2> QED
    BY <2>1, <2>2 DEF KeyInv, Deleted
<1>6. CASE Crash
  BY <1>6 DEF Crash, Listed, KeyInv
<1> QED
  BY <1>1, <1>2, <1>3, <1>4, <1>5, <1>6 DEF Next, Reconcile, Edit, ChangeWorld, SyncCache,
     HourPasses, TimerFires, Begin, Verify, VerifyFails, Skip, UpdateStatus, vars, keys

-----------------------------------------------------------------------------
(* What a reconcile has done. *)

\* Steps that leave the worker, the stored status and what was deployed alone.
LEMMA WorkerKept ==
    ASSUME WorkerInv, pc' = pc, work'.st = work.st, work'.based = work.based,
           obj'.st = obj.st, UNCHANGED <<agent, mainKey, remoteKey, pubKey>>
    PROVE  WorkerInv'
BY DEF WorkerInv, Served, PushedKey

\* A reconcile that has ended claims nothing.
LEMMA WorkerEnds ==
    ASSUME work' = Idle
    PROVE  WorkerInv'
BY DEF WorkerInv, Idle

\* Every step keeps what is known of each worker.
LEMMA WorkerStep ==
    ASSUME Types, KeyInv, WorkerInv, [Next]_vars
    PROVE  WorkerInv'
<1>1. CASE Edit
  <2>1. obj'.st = obj.st
    BY <1>1 DEF Edit, Types, TypeOK, Object, Specification
  <2>2. work'.st = work.st /\ work'.based = work.based
    BY <1>1 DEF Edit, Types, WorkCopy
  <2> QED
    BY <1>1, <2>1, <2>2, WorkerKept DEF Edit, keys, agents
<1>2. CASE SyncCache \/ SyncKeyCache \/ TimerFires \/ UNCHANGED vars
  BY <1>2, WorkerKept DEF SyncCache, SyncKeyCache, TimerFires, vars, worker, keys, agents
<1>3. CASE ChangeWorld
  BY <1>3, WorkerKept DEF ChangeWorld, worker, keys, agents
<1>4. CASE OtherCluster \/ HourPasses
  BY <1>4 DEF OtherCluster, HourPasses, WorkerInv, worker
<1>5. CASE Begin
  BY <1>5 DEF Begin, WorkerInv
<1>6. CASE Verify
  BY <1>6 DEF Verify, WorkerInv, Types, WorkCopy, Status
<1>7. ASSUME NEW f \in BOOLEAN, Skip(f)
      PROVE  WorkerInv'
  BY <1>7 DEF Skip, AgentsCurrent, WorkerInv, Types, WorkCopy, Status
<1>8. ASSUME NEW f \in BOOLEAN, Deploy(f)
      PROVE  WorkerInv'
  <2>1. PICK c \in Connects(f), r \in Ready, k \in Copy :
          \E far \in IF c THEN DeployStops(k, f) ELSE {0} :
          /\ DeployTo(far, k, f)
          /\ keyCache' = IF k = "same" THEN k ELSE keyCache
          /\ work' = [work EXCEPT !.st.phase = IF far < 6 THEN "Failed"
                                               ELSE IF r THEN "Current" ELSE "Deployed"]
    BY <1>8, Zenon DEF Deploy
  <2>2. PICK far \in 0..6 :
          /\ DeployTo(far, k, f)
          /\ work' = [work EXCEPT !.st.phase = IF far < 6 THEN "Failed"
                                               ELSE IF r THEN "Current" ELSE "Deployed"]
    BY <2>1, StopsType
  <2>3. pc' = "write" /\ work'.st.phase # "none"
    BY <1>8, <2>2 DEF Deploy, Types, WorkCopy, Status
  <2>4. ASSUME work'.st.phase = "Current"
        PROVE  Served'
    <3>1. far = 6
      BY <2>2, <2>4 DEF Types, WorkCopy, Status
    <3>2. far >= 1 /\ far >= 2 /\ far >= 3 /\ far >= 5
      BY <3>1
    <3>3. k # "none" /\ EnsureKeys(k) /\ remoteKey' = k /\ pubKey' = k
      BY <2>2, <3>2, Zenon DEF DeployTo, DeployKeys
    <3>5. k = PushedKey'
      BY <3>3 DEF EnsureKeys, KeyInv, PushedKey, Copy
    <3>4. agent'
      BY <2>2, <3>2, Zenon DEF DeployTo, ApplyDaemonSet
    <3> QED
      BY <3>3, <3>4, <3>5 DEF Served
  <2> QED
    BY <2>3, <2>4 DEF WorkerInv
<1>9. ASSUME NEW f \in BOOLEAN, Clean(f)
      PROVE  WorkerInv'
  <2>1. PICK far \in 0..3 :
          /\ CleanTo(far, f)
          /\ work' = IF Clears(far) THEN [work EXCEPT !.st.phase = "none"] ELSE work
    BY <1>9 DEF Clean
  <2>2. CASE far = 3
    <3>1. ~agent'
      <4>1. ~(far < 2)
        BY <2>2
      <4> QED
        BY <2>1, <4>1, Zenon DEF CleanTo
    <3>2. work'.st.phase = "none"
      BY <2>1, <2>2 DEF Clears, Types, WorkCopy, Status
    <3> QED
      BY <1>9, <3>1, <3>2 DEF Clean, WorkerInv
  <2>3. CASE far # 3
    BY <1>9, <2>1, <2>3 DEF Clean, Clears, WorkerInv
  <2> QED
    BY <2>2, <2>3
<1>10. CASE Crash \/ \E f \in BOOLEAN : VerifyFails(f) \/ UpdateStatus(f)
  BY <1>10, WorkerEnds DEF Crash, VerifyFails, UpdateStatus, Done
<1> QED
  BY <1>1, <1>2, <1>3, <1>4, <1>5, <1>6, <1>7, <1>8, <1>9, <1>10 DEF Next, Reconcile

\* The invariant is inductive.
LEMMA InvHolds == Spec => []Inv
<1>1. Inv /\ [Next]_vars => Inv'
  BY TypesStep, KeyStep, WorkerStep DEF Inv
<1> QED
  BY <1>1, InitInv, PTL DEF Spec

\* The state keeps its shape through every reconcile, outage and crash.
THEOREM TypeCorrect == Spec => []TypeOK
<1>1. Inv => TypeOK
  BY DEF Inv, Types
<1> QED
  BY <1>1, InvHolds, PTL

-----------------------------------------------------------------------------
(* What the stored status says. *)

\* The stored phase changes when a deployment ages or a status is written.
LEMMA WhoWrites ==
    ASSUME Inv, Next, Based, obj'.st.phase # obj.st.phase
    PROVE  \/ HourPasses
           \/ /\ pc = "write" /\ obj'.st = work.st
              /\ UNCHANGED <<agent, mainKey, remoteKey, pubKey>>
<1> USE DEF Inv, Types, TypeOK
<1>1. ~Edit
  BY DEF Edit, Object, Specification
<1>2. ASSUME NEW f \in BOOLEAN, VerifyFails(f)
      PROVE  FALSE
  <2>1. work.st = obj.st
    BY <1>2 DEF VerifyFails, WorkerInv, Based
  <2> QED
    BY <1>2, <2>1 DEF VerifyFails, Write, Object, Status, WorkCopy
<1>3. ASSUME NEW f \in BOOLEAN, UpdateStatus(f)
      PROVE  /\ pc = "write" /\ obj'.st = work.st
             /\ UNCHANGED <<agent, mainKey, remoteKey, pubKey>>
  BY <1>3 DEF UpdateStatus, Write, Object, keys, agents
<1> QED
  BY <1>1, <1>2, <1>3 DEF Next, Reconcile, OtherCluster, ChangeWorld, Crash, SyncCache,
     SyncKeyCache, TimerFires, Begin, Verify, Skip, Deploy, Clean

\* A recorded deployment is a whole one, however many edits, outages and crashes
\* came before and whatever other clusters did to the key they share, when the
\* status that records it replaces the one it was derived from.  Without that
\* hypothesis it fails: cluster_controller.go sets the status of the first read on
\* the object of the second.
THEOREM RecordedDeployment == Spec => RecordedMeansDeployed
<1>1. Inv /\ [Next]_vars
        => [Based /\ obj.st.phase # "Current" /\ obj'.st.phase = "Current"
              => agent' /\ remoteKey' = PushedKey' /\ pubKey' = PushedKey']_vars
  <2> SUFFICES ASSUME Inv, Next, Based, obj.st.phase # "Current", obj'.st.phase = "Current"
               PROVE  Served'
    BY DEF Served
  <2>1. ~HourPasses
    BY DEF HourPasses
  <2> QED
    BY <2>1, WhoWrites DEF Inv, WorkerInv, Based, Served, PushedKey
<1> QED
  BY <1>1, InvHolds, PTL DEF Spec, RecordedMeansDeployed

\* Status.PVCSync is cleared only by a reconcile that removed the agent, when the
\* status written replaces the one it was derived from.  A status of an older
\* first read clears it without that.
THEOREM ClearedStatus == Spec => ClearedMeansGone
<1>1. Inv /\ [Next]_vars
        => [Based /\ obj.st.phase # "none" /\ obj'.st.phase = "none" => ~agent']_vars
  <2> SUFFICES ASSUME Inv, Next, Based, obj.st.phase # "none", obj'.st.phase = "none"
               PROVE  ~agent'
    OBVIOUS
  <2>1. ~HourPasses
    BY DEF HourPasses, Inv, Types, TypeOK, Object, Status
  <2> QED
    BY <2>1, WhoWrites DEF Inv, WorkerInv, Based
<1> QED
  BY <1>1, InvHolds, PTL DEF Spec, ClearedMeansGone

-----------------------------------------------------------------------------
(* The agents that the controller deploys (AgentKeys.tla): for any set of    *)
(* them, at most one believes that it leads.  The exclusion is not inductive *)
(* as it stands: what makes it hold is that the agent that leads is the      *)
(* holder the lease names and has renewed it within RenewDeadline, which is  *)
(* less than LeaseDuration.                                                  *)

CONSTANTS Agent, MaxMishaps

VARIABLES secret, main, run, gen, lease, failing, mishaps

Agents == INSTANCE AgentKeys

ElectionLease == [holder : Agent \cup {Agents!Nobody}, age : Int]

\* The shape of the variables that the election reads.
ElectionTypes ==
    /\ run \in [Agent -> {"off", "check", "campaign", "lead", "over"}]
    /\ lease \in ElectionLease

LeaderHolds ==
    \A a \in Agent : run[a] = "lead" => lease.holder = a /\ lease.age <= Agents!RenewDeadline

LeaderInv == ElectionTypes /\ LeaderHolds

\* Initial states satisfy the invariant.
LEMMA LeaderInit == Agents!Init => LeaderInv
BY DEF Agents!Init, LeaderInv, ElectionTypes, LeaderHolds, ElectionLease, Agents!LeaseDuration

\* The end of a process keeps the invariant, whether or not the lease is given
\* back: only the leader gives it back, and then no one leads.
LEMMA ExitKeepsLeader ==
    ASSUME LeaderInv, NEW a \in Agent, Agents!Exit(a)
    PROVE  LeaderInv'
<1>1. ElectionTypes'
  BY DEF LeaderInv, ElectionTypes, Agents!Exit, ElectionLease
<1>2. LeaderHolds'
  <2> SUFFICES ASSUME NEW b \in Agent, run'[b] = "lead"
               PROVE  lease'.holder = b /\ lease'.age <= Agents!RenewDeadline
    BY DEF LeaderHolds
  <2>1. b # a /\ run[b] = "lead"
    BY DEF Agents!Exit, LeaderInv, ElectionTypes
  <2>2. lease.holder = b /\ lease.age <= Agents!RenewDeadline
    BY <2>1 DEF LeaderInv, LeaderHolds
  <2>3. run[a] # "lead"
    BY <2>1, <2>2 DEF LeaderInv, LeaderHolds
  <2> QED
    BY <2>2, <2>3 DEF Agents!Exit
<1> QED
  BY <1>1, <1>2 DEF LeaderInv

\* The steps of an agent keep the invariant.
LEMMA AgentStepKeepsLeader ==
    ASSUME Agents!Nobody \notin Agent, LeaderInv, NEW a \in Agent, Agents!AgentStep(a)
    PROVE  LeaderInv'
<1> USE DEF LeaderInv, ElectionTypes, LeaderHolds, ElectionLease
<1>1. CASE Agents!Start(a)
  BY <1>1 DEF Agents!Start
<1>2. CASE Agents!DaemonStart(a)
  <2>1. CASE Agents!Exit(a)
    BY <2>1, ExitKeepsLeader
  <2>2. CASE UNCHANGED <<run, gen, lease>>
    BY <2>2
  <2> QED
    BY <1>2, <2>1, <2>2 DEF Agents!DaemonStart
<1>3. CASE Agents!RunCheck(a)
  BY <1>3 DEF Agents!RunCheck
<1>4. CASE Agents!Acquire(a)
  <2>1. \A b \in Agent \ {a} : run[b] # "lead"
    BY <1>4 DEF Agents!Acquire, Agents!Identity, Agents!RenewDeadline, Agents!LeaseDuration
  <2>2. ElectionTypes'
    BY <1>4 DEF Agents!Acquire, Agents!Identity
  <2>3. \A b \in Agent : run'[b] = "lead" => b = a
    BY <1>4, <2>1 DEF Agents!Acquire, Agents!Identity
  <2>4. lease'.holder = a /\ lease'.age <= Agents!RenewDeadline
    BY <1>4 DEF Agents!Acquire, Agents!Identity, Agents!RenewDeadline
  <2>5. LeaderHolds'
    BY <2>3, <2>4 DEF LeaderHolds
  <2> QED
    BY <2>2, <2>5 DEF LeaderInv
<1>5. CASE Agents!Renew(a)
  BY <1>5 DEF Agents!Renew, Agents!RenewDeadline, Agents!threads
<1>6. CASE Agents!StopLeading(a)
  BY <1>6 DEF Agents!StopLeading
<1>7. CASE Agents!CreateKey(a)
  BY <1>7 DEF Agents!CreateKey
<1>8. CASE Agents!UpdateKey(a)
  BY <1>8 DEF Agents!UpdateKey
<1> QED
  BY <1>1, <1>2, <1>3, <1>4, <1>5, <1>6, <1>7, <1>8 DEF Agents!AgentStep

\* Every step keeps the invariant.
LEMMA LeaderNext ==
    ASSUME Agents!Nobody \notin Agent, LeaderInv, [Agents!Next]_(Agents!vars)
    PROVE  LeaderInv'
<1>1. ASSUME NEW a \in Agent, Agents!AgentStep(a) PROVE LeaderInv'
  BY <1>1, AgentStepKeepsLeader
<1>2. ASSUME NEW a \in Agent, Agents!Kill(a) PROVE LeaderInv'
  BY <1>2, ExitKeepsLeader DEF Agents!Kill
<1>3. CASE Agents!PushKeys \/ Agents!DeleteSecret \/ Agents!Outage \/ UNCHANGED Agents!vars
  BY <1>3 DEF LeaderInv, ElectionTypes, LeaderHolds, Agents!PushKeys, Agents!DeleteSecret,
              Agents!Outage, Agents!vars, Agents!threads
<1>4. CASE Agents!Tick
  BY <1>4 DEF LeaderInv, ElectionTypes, LeaderHolds, ElectionLease, Agents!Tick,
              Agents!threads, Agents!RenewDeadline
<1> QED
  BY <1>1, <1>2, <1>3, <1>4 DEF Agents!Next

\* An agent begins to lead only when none leads: Acquire finds the lease given
\* back, its own, or not renewed for LeaseDuration.
LEMMA LeaderBegins ==
    ASSUME Agents!Nobody \notin Agent, LeaderInv, [Agents!Next]_(Agents!vars),
           NEW c \in Agent, run[c] # "lead", run'[c] = "lead"
    PROVE  \A a \in Agent : run[a] # "lead"
<1>1. ASSUME NEW a \in Agent, Agents!Acquire(a) PROVE \A b \in Agent : run[b] # "lead"
  BY <1>1 DEF Agents!Acquire, Agents!Identity, Agents!RenewDeadline, Agents!LeaseDuration,
              LeaderInv, ElectionTypes, ElectionLease, LeaderHolds
<1>2. ASSUME NEW a \in Agent, Agents!AgentStep(a), ~Agents!Acquire(a) PROVE FALSE
  BY <1>2 DEF Agents!AgentStep, Agents!Start, Agents!DaemonStart, Agents!Exit, Agents!RunCheck,
              Agents!Renew, Agents!StopLeading, Agents!CreateKey, Agents!UpdateKey,
              Agents!threads, LeaderInv, ElectionTypes
<1>3. ASSUME NEW a \in Agent, Agents!Kill(a) PROVE FALSE
  BY <1>3 DEF Agents!Kill, Agents!Exit, LeaderInv, ElectionTypes
<1>4. CASE Agents!PushKeys \/ Agents!DeleteSecret \/ Agents!Outage \/ Agents!Tick
           \/ UNCHANGED Agents!vars
  BY <1>4 DEF Agents!PushKeys, Agents!DeleteSecret, Agents!Outage, Agents!Tick,
              Agents!vars, Agents!threads
<1> QED
  BY <1>1, <1>2, <1>3, <1>4 DEF Agents!Next

\* The election among the agents implements Lease, for any number of agents,
\* kills and outages, when no pod is named like the mark of a lease that nobody
\* holds: at most one agent leads, and it began when no other did.
THEOREM ElectionRefinesLease ==
    ASSUME Agents!Nobody \notin Agent
    PROVE  Agents!Spec => Agents!ElectionIsLease
<1> DEFINE Leaders == Agents!Leaders
<1>1. Agents!Init => Agents!Election!Init
  BY DEF Agents!Init, Agents!Election!Init, Agents!Leaders
<1>2. ASSUME LeaderInv, [Agents!Next]_(Agents!vars)
      PROVE  [Agents!Election!Next]_(Agents!Leaders)
  <2>1. LeaderInv'
    BY <1>2, LeaderNext
  <2>2. CASE Leaders' = {}
    BY <2>2 DEF Agents!Election!Next, Agents!Election!End
  <2>3. ASSUME NEW c \in Leaders', c \notin Leaders
        PROVE  \E a \in Agent : Agents!Election!Take(a)
    <3>1. c \in Agent /\ run[c] # "lead" /\ run'[c] = "lead"
      BY <2>3 DEF Agents!Leaders
    <3>2. Leaders = {}
      BY <1>2, <3>1, LeaderBegins DEF Agents!Leaders
    <3>3. Leaders' = {c}
      BY <2>1, <3>1 DEF Agents!Leaders, LeaderInv, LeaderHolds
    <3> QED
      BY <3>1, <3>2, <3>3 DEF Agents!Election!Take
  <2>4. CASE Leaders' # {} /\ Leaders' \subseteq Leaders
    BY <1>2, <2>4 DEF Agents!Leaders, LeaderInv, LeaderHolds
  <2> QED
    BY <2>2, <2>3, <2>4 DEF Agents!Election!Next
<1>3. LeaderInv /\ [Agents!Next]_(Agents!vars) => [Agents!Election!Next]_(Agents!Leaders)
  BY <1>2
<1>4. LeaderInv /\ [Agents!Next]_(Agents!vars) => LeaderInv'
  BY LeaderNext
<1> QED
  BY <1>1, <1>3, <1>4, LeaderInit, PTL
     DEF Agents!Spec, Agents!ElectionIsLease, Agents!Election!Spec
=============================================================================
