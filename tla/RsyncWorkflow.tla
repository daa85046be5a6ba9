--------------------------- MODULE RsyncWorkflow ---------------------------
(***************************************************************************)
(* PVC replication by rsync: the lock kept in annotations of the source    *)
(* PVC (AcquirePVCLock, ReleasePVCLock), the steps of RsyncWorkflow, and   *)
(* the rsync deployments it creates in the destination namespace.          *)
(*                                                                         *)
(* Each element of Workflow is one goroutine running RsyncWorkflow for the *)
(* same source and destination PVC, in controller pod PodOf[w]; the lock's *)
(* owner is the pod's name, so goroutines of one pod share an identity.    *)
(*                                                                         *)
(* The API server is modelled by optimistic concurrency: a Get hands out a *)
(* copy, an Update of a copy whose resourceVersion is no longer the        *)
(* server's is refused with a conflict.  resourceVersions are only ever    *)
(* compared with the current one, so current[w] keeps that comparison's    *)
(* result instead of the number.  Timestamps are kept as ages that         *)
(* saturate just above LockTimeout (one hour), the only age tested.        *)
(***************************************************************************)
EXTENDS Integers, FiniteSets

CONSTANTS Workflow,     \* goroutines that may run RsyncWorkflow for this PVC
          Pod,          \* controller pod names (POD_NAME)
          PodOf,        \* the pod each goroutine runs in
          NoPod,        \* absence of the lock-owner annotation
          LockTimeout,  \* one hour, in clock ticks
          Faults,       \* which faults the environment may inject
          MaxCrashes    \* bound on controller crashes

ASSUME ConstantsOK ==
    /\ PodOf \in [Workflow -> Pod]
    /\ NoPod \notin Pod
    /\ LockTimeout \in Nat
    /\ MaxCrashes \in Nat
    /\ Faults \subseteq {"api", "panic", "write", "edit"}

VARIABLES
    pvc,        \* lock annotations of the source PVC
    copy,       \* the object each workflow is about to send with Update
    current,    \* whether that copy still has the server's resourceVersion
    pc,         \* the step each workflow is at
    outcome,    \* how this invocation is going to return
    lease,      \* age of the lock timestamp the workflow relies on
    own,        \* the rsync deployment created by the workflow exists
    orphans,    \* some rsync deployment exists that no workflow tracks
    crashes     \* crashes so far

vars == <<pvc, copy, current, pc, outcome, lease, own, orphans, crashes>>

Age == 0..LockTimeout + 1

Lock == [owner: Pod \cup {NoPod}, age: Age, stamp: {"ok", "missing", "garbled"}]

Unlocked == [owner |-> NoPod, age |-> 0, stamp |-> "ok"]

\* Where a workflow may rest: not started, returned, or its pod replaced.
Resting == {"idle", "returned", "dead"}

\* "copied": rsync transferred the data; "nothing": returns nil without having
\* finished a transfer (lock held elsewhere, PVC not mounted, a panic).
Outcome == {"running", "copied", "nothing", "error"}

\* Steps between a successful AcquirePVCLock and the return of RsyncWorkflow.
Working == {"purge", "deploy", "ready", "keys", "publicKey", "mounted", "node",
            "agent", "path", "cachePut", "push", "connect", "rsync", "statusPut",
            "final", "annotate", "annotatePut", "cleanup", "release", "releasePut"}

Steps == Resting \cup Working \cup {"lockGet", "lockPut"}

\* Steps at which destRsyncPod is non-nil, so the error paths clean it up.
Tracked == Working \ {"purge", "deploy", "ready", "release", "releasePut"}

TypeOK ==
    /\ pvc \in Lock
    /\ copy \in [Workflow -> Lock]
    /\ current \in [Workflow -> BOOLEAN]
    /\ pc \in [Workflow -> Steps]
    /\ outcome \in [Workflow -> Outcome]
    /\ lease \in [Workflow -> Age]
    /\ own \in [Workflow -> BOOLEAN]
    /\ orphans \in BOOLEAN
    /\ crashes \in 0..MaxCrashes

Init ==
    /\ pvc = Unlocked
    /\ copy = [w \in Workflow |-> Unlocked]
    /\ current = [w \in Workflow |-> FALSE]
    /\ pc = [w \in Workflow |-> "idle"]
    /\ outcome = [w \in Workflow |-> "running"]
    /\ lease = [w \in Workflow |-> 0]
    /\ own = [w \in Workflow |-> FALSE]
    /\ orphans = FALSE
    /\ crashes = 0

----------------------------------------------------------------------------
(* The API server. *)

\* An API call, an exec or a key operation may return an error.
ApiFault == "api" \in Faults

\* w reads the PVC and prepares obj, derived from what it read, for Update.
Fetch(w, obj) ==
    /\ copy' = [copy EXCEPT ![w] = obj]
    /\ current' = [current EXCEPT ![w] = TRUE]
    /\ UNCHANGED pvc

\* The server stores w's copy: every copy handed out before is now outdated.
Store(w) ==
    /\ pvc' = copy[w]
    /\ copy' = [copy EXCEPT ![w] = Unlocked]
    /\ current' = [v \in Workflow |-> FALSE]

Discard(w) ==
    /\ copy' = [copy EXCEPT ![w] = Unlocked]
    /\ current' = [current EXCEPT ![w] = FALSE]
    /\ UNCHANGED pvc

\* Mutant of UpdatePVC: the copy is stored whatever its resourceVersion.
UpdatePVCUnversioned(w, ok) == ok /\ Store(w)

\* Update of w's copy.  It succeeds (ok); or it fails, with a conflict or for
\* another reason; or it is stored and the reply is lost, an error to w.
UpdatePVC(w, ok) ==
    \/ ok /\ current[w] /\ Store(w)
    \/ ~ok /\ (~current[w] \/ ApiFault) /\ Discard(w)
    \/ ~ok /\ current[w] /\ ApiFault /\ Store(w)

NoApiCall == UNCHANGED <<pvc, copy, current>>

Goto(w, step) == pc' = [pc EXCEPT ![w] = step]

Continue(w, step) == Goto(w, step) /\ UNCHANGED outcome

\* The return path of a step: remember how, clean up what is tracked, release.
Leave(w, how) ==
    /\ outcome' = [outcome EXCEPT ![w] = how]
    /\ Goto(w, IF pc[w] \in Tracked THEN "cleanup" ELSE "release")

Return(w, how) ==
    /\ outcome' = [outcome EXCEPT ![w] = how]
    /\ Goto(w, "returned")

----------------------------------------------------------------------------
(* AcquirePVCLock. *)

\* SyncPVCWithNamespaceMapping checks mounts and validates (returning early
\* without touching state), then calls RsyncWorkflow.
StartWorkflow(w) ==
    /\ pc[w] \in {"idle", "returned"}
    /\ Goto(w, "lockGet")
    /\ outcome' = [outcome EXCEPT ![w] = "running"]
    /\ NoApiCall
    /\ UNCHANGED <<lease, own, orphans, crashes>>

\* Mutant of Takeable: off by one at the timeout.
TakeableEarly(lock, pod) ==
    \/ lock.owner = NoPod
    \/ lock.owner # pod /\ (lock.stamp = "garbled" \/ lock.age >= LockTimeout)

\* Mutant of Takeable: a lock is never stale.
TakeableNeverStale(lock, pod) == lock.owner = NoPod

\* A lock another pod may take: free, older than the timeout, or carrying a
\* timestamp that does not parse.  An owner with no timestamp is respected.
Takeable(lock, pod) ==
    \/ lock.owner = NoPod
    \/ /\ lock.owner # pod
       /\ \/ lock.stamp = "garbled"
          \/ lock.stamp = "ok" /\ lock.age > LockTimeout

\* Get of the source PVC and the decision taken on it.  A pod that finds its
\* own name goes on at once, on the timestamp that is there.
AcquireGet(w) ==
    /\ pc[w] = "lockGet"
    /\ \/ /\ ApiFault
          /\ Return(w, "error")
          /\ NoApiCall /\ UNCHANGED lease
       \/ /\ Takeable(pvc, PodOf[w])
          /\ Fetch(w, [owner |-> PodOf[w], age |-> 0, stamp |-> "ok"])
          /\ Continue(w, "lockPut")
          /\ UNCHANGED lease
       \/ /\ pvc.owner = PodOf[w]
          /\ lease' = [lease EXCEPT ![w] = pvc.age]
          /\ Continue(w, "purge")
          /\ NoApiCall
       \/ /\ pvc.owner \notin {NoPod, PodOf[w]}
          /\ ~Takeable(pvc, PodOf[w])
          /\ Return(w, "nothing")
          /\ NoApiCall /\ UNCHANGED lease
    /\ UNCHANGED <<own, orphans, crashes>>

AcquireUpdate(w) ==
    /\ pc[w] = "lockPut"
    /\ \E ok \in BOOLEAN :
        /\ UpdatePVC(w, ok)
        /\ IF ok THEN /\ lease' = [lease EXCEPT ![w] = copy[w].age]
                      /\ Continue(w, "purge")
                 ELSE Return(w, "error") /\ UNCHANGED lease
    /\ UNCHANGED <<own, orphans, crashes>>

----------------------------------------------------------------------------
(* Steps 1 to 12 of RsyncWorkflow. *)

\* NewManager may fail.  CleanupExistingDeployments deletes every rsync
\* deployment of the destination PVC; failures are skipped or only logged.
CleanupExistingDeployments(w) ==
    /\ pc[w] = "purge"
    /\ \/ ApiFault /\ Leave(w, "error") /\ UNCHANGED <<own, orphans>>
       \/ /\ \E kept \in SUBSET Workflow, keep \in BOOLEAN :
                /\ ApiFault \/ (kept = {} /\ ~keep)
                /\ own' = [u \in Workflow |-> own[u] /\ u \in kept]
                /\ orphans' = (orphans /\ keep)
          /\ Continue(w, "deploy")
    /\ NoApiCall
    /\ UNCHANGED <<lease, crashes>>

CreateRsyncDeployment(w) ==
    /\ pc[w] = "deploy"
    /\ \/ ApiFault /\ Leave(w, "error") /\ UNCHANGED own
       \/ own' = [own EXCEPT ![w] = TRUE] /\ Continue(w, "ready")
    /\ NoApiCall
    /\ UNCHANGED <<lease, orphans, crashes>>

\* w's deployment, if it is still there, is no longer tracked by anyone.
Abandon(w) ==
    /\ own' = [own EXCEPT ![w] = FALSE]
    /\ orphans' = (orphans \/ own[w])

\* Up to five minutes.  On a timeout deployRsyncPod returns nil, so the error
\* path has nothing to clean up and the deployment stays.
WaitForPodReady(w) ==
    /\ pc[w] = "ready"
    /\ \/ own[w] /\ Continue(w, "keys") /\ UNCHANGED <<own, orphans>>
       \/ (~own[w] \/ ApiFault) /\ Leave(w, "error") /\ Abandon(w)
    /\ NoApiCall
    /\ UNCHANGED <<lease, crashes>>

\* A step that calls out and changes nothing but the control point; `able' is
\* whether the call can succeed at all.
Step(w, from, to, able) ==
    /\ pc[w] = from
    /\ \/ able /\ Continue(w, to)
       \/ (~able \/ ApiFault) /\ Leave(w, "error")
    /\ NoApiCall
    /\ UNCHANGED <<lease, own, orphans, crashes>>

\* A step that is skipped.
Skip(w, from, to) ==
    /\ pc[w] = from /\ Continue(w, to)
    /\ NoApiCall
    /\ UNCHANGED <<lease, own, orphans, crashes>>

\* Keys are generated in the destination pod, unless the deployment mounts
\* cached ones; then both this step and the next are skipped.
GenerateSSHKeys(w) == Step(w, "keys", "publicKey", own[w])

generateSSHKeys(w) == Skip(w, "keys", "mounted") \/ GenerateSSHKeys(w)

getPublicKey(w) == Step(w, "publicKey", "mounted", own[w])

ObtainKeys(w) == generateSSHKeys(w) \/ getPublicKey(w)

\* A PVC no pod mounts is skipped: RsyncWorkflow returns nil.
HasVolumeAttachments(w) ==
    \/ Step(w, "mounted", "node", TRUE)
    \/ /\ pc[w] = "mounted"
       /\ Leave(w, "nothing")
       /\ NoApiCall
       /\ UNCHANGED <<lease, own, orphans, crashes>>

\* The node of a pod that mounts the PVC, and the agent pod on that node.
FindPVCNode(w) == Step(w, "node", "agent", TRUE)

FindAgentPod(w) == Step(w, "agent", "path", TRUE)

\* A cached path that is still valid.
getMountPathFromCache(w) == Skip(w, "path", "push")

\* The PVC may be unreadable or the path not found.  A path that was found is
\* written to the PVC's annotations.
FindPVCMountPath(w) ==
    \/ getMountPathFromCache(w)
    \/ Step(w, "path", "push", TRUE)
    \/ /\ pc[w] = "path"
       /\ Fetch(w, pvc)
       /\ Continue(w, "cachePut")
       /\ UNCHANGED <<lease, own, orphans, crashes>>

FindMountPath(w) == FindPVCNode(w) \/ FindAgentPod(w) \/ FindPVCMountPath(w)

\* A failure to write the cache is only logged.
SaveMountPathToCache(w) ==
    /\ pc[w] = "cachePut"
    /\ \E ok \in BOOLEAN : UpdatePVC(w, ok)
    /\ Continue(w, "push")
    /\ UNCHANGED <<lease, own, orphans, crashes>>

\* The public key goes to the agent pod; cached keys are there already.
PushPublicKeyToAgent(w) == Skip(w, "push", "connect") \/ Step(w, "push", "connect", TRUE)

\* From the destination pod.
TestSSHConnectivity(w) == Step(w, "connect", "rsync", own[w])

ConnectToAgent(w) == PushPublicKeyToAgent(w) \/ TestSSHConnectivity(w)

AfterStatus(w) ==
    CASE outcome[w] = "running" -> "rsync"
      [] outcome[w] = "copied"  -> "annotate"
      [] OTHER                  -> "cleanup"

\* UpdateSyncStatus, called by performRsync at its start, by its progress
\* goroutine while rsync runs, and once more when rsync has ended.
StatusGet(w) ==
    /\ pc[w] \in {"rsync", "final"}
    /\ \/ Fetch(w, pvc) /\ Continue(w, "statusPut")
       \/ ApiFault /\ NoApiCall /\ Continue(w, AfterStatus(w))
    /\ UNCHANGED <<lease, own, orphans, crashes>>

\* Whether or not the status could be written, performRsync goes on.
StatusUpdate(w) ==
    /\ pc[w] = "statusPut"
    /\ \E ok \in BOOLEAN : UpdatePVC(w, ok)
    /\ Continue(w, AfterStatus(w))
    /\ UNCHANGED <<lease, own, orphans, crashes>>

\* The transfer, its retries and its verification, in the destination pod
\* (RsyncTransfer.tla).  It may fail without a fault: an empty volume does.
PerformRsync(w) ==
    /\ pc[w] = "rsync"
    /\ \E how \in {"copied", "error"} :
        /\ how = "copied" => own[w]
        /\ outcome' = [outcome EXCEPT ![w] = how]
    /\ Goto(w, "final")
    /\ NoApiCall
    /\ UNCHANGED <<lease, own, orphans, crashes>>

\* UpdateSourcePVCAnnotations: here a refused Update fails the workflow.
AnnotateGet(w) ==
    /\ pc[w] = "annotate"
    /\ \/ ApiFault /\ Leave(w, "error") /\ NoApiCall
       \/ Fetch(w, pvc) /\ Continue(w, "annotatePut")
    /\ UNCHANGED <<lease, own, orphans, crashes>>

AnnotateUpdate(w) ==
    /\ pc[w] = "annotatePut"
    /\ \E ok \in BOOLEAN :
        /\ UpdatePVC(w, ok)
        /\ IF ok THEN Continue(w, "cleanup") ELSE Leave(w, "error")
    /\ UNCHANGED <<lease, own, orphans, crashes>>

\* Cleanup of the deployment: deleted, or gone already; or the call fails.
Cleanup(w) ==
    \/ own' = [own EXCEPT ![w] = FALSE] /\ UNCHANGED orphans
    \/ ApiFault /\ Abandon(w)

\* cleanupResources: a failure is only logged.
CleanupResources(w) ==
    /\ pc[w] = "cleanup"
    /\ Cleanup(w)
    /\ Continue(w, "release")
    /\ NoApiCall
    /\ UNCHANGED <<lease, crashes>>

----------------------------------------------------------------------------
(* ReleasePVCLock; its errors are only logged. *)

\* Mutant of ReleaseGet: the owner is not compared with the pod's name.
ReleaseGetAnyOwner(w) ==
    /\ pc[w] = "release"
    /\ Fetch(w, Unlocked)
    /\ Continue(w, "releasePut")
    /\ UNCHANGED <<lease, own, orphans, crashes>>

ReleaseGet(w) ==
    /\ pc[w] = "release"
    /\ \/ /\ ApiFault \/ pvc.owner # PodOf[w]
          /\ Continue(w, "returned")
          /\ lease' = [lease EXCEPT ![w] = 0]
          /\ NoApiCall
       \/ /\ pvc.owner = PodOf[w]
          /\ Fetch(w, Unlocked)
          /\ Continue(w, "releasePut")
          /\ UNCHANGED lease
    /\ UNCHANGED <<own, orphans, crashes>>

\* On the success path LockReleased and SyncCompleted are emitted next, also
\* when the Update was refused.
ReleaseUpdate(w) ==
    /\ pc[w] = "releasePut"
    /\ \E ok \in BOOLEAN : UpdatePVC(w, ok)
    /\ Continue(w, "returned")
    /\ lease' = [lease EXCEPT ![w] = 0]
    /\ UNCHANGED <<own, orphans, crashes>>

\* The deferred recover: a panic cleans up, releases what was acquired, and
\* returns nil.
Recover(w) ==
    /\ "panic" \in Faults
    /\ pc[w] \notin Resting \cup {"cleanup", "release", "releasePut"}
    /\ IF pc[w] \in Working THEN Leave(w, "nothing") ELSE Return(w, "nothing")
    /\ Discard(w)
    /\ IF pc[w] = "ready" THEN Abandon(w) ELSE UNCHANGED <<own, orphans>>
    /\ UNCHANGED <<lease, crashes>>

----------------------------------------------------------------------------
(* The environment. *)

\* One tick of the clock ages every timestamp, those in copies included.
Older(age) == IF age > LockTimeout THEN age ELSE age + 1

OlderLock(lock) ==
    IF lock.owner = NoPod THEN lock ELSE [lock EXCEPT !.age = Older(lock.age)]

Tick ==
    /\ pvc' = OlderLock(pvc)
    /\ copy' = [w \in Workflow |-> OlderLock(copy[w])]
    /\ lease' = [w \in Workflow |->
                    IF pc[w] \in Working THEN Older(lease[w]) ELSE lease[w]]
    /\ UNCHANGED <<current, pc, outcome, own, orphans, crashes>>

\* Another client of the API server updates the PVC.
ForeignWrite ==
    /\ "write" \in Faults
    /\ \E w \in Workflow : current[w]
    /\ current' = [w \in Workflow |-> FALSE]
    /\ UNCHANGED <<pvc, copy, pc, outcome, lease, own, orphans, crashes>>

\* Somebody removes or garbles the timestamp annotation of a held lock.
EditTimestamp ==
    /\ "edit" \in Faults
    /\ pvc.owner # NoPod /\ pvc.stamp = "ok"
    /\ \E stamp \in {"missing", "garbled"} : pvc' = [pvc EXCEPT !.stamp = stamp]
    /\ current' = [w \in Workflow |-> FALSE]
    /\ UNCHANGED <<copy, pc, outcome, lease, own, orphans, crashes>>

\* A controller pod dies.  Its container is restarted under the same name, or
\* the pod is replaced and its name never comes back.
Crash(p) ==
    LET lost == {w \in Workflow : PodOf[w] = p}
    IN  /\ crashes < MaxCrashes
        /\ \E w \in lost : pc[w] \notin Resting
        /\ crashes' = crashes + 1
        /\ \E after \in {"idle", "dead"} :
              pc' = [w \in Workflow |-> IF w \in lost THEN after ELSE pc[w]]
        /\ outcome' = [w \in Workflow |-> IF w \in lost THEN "running" ELSE outcome[w]]
        /\ copy' = [w \in Workflow |-> IF w \in lost THEN Unlocked ELSE copy[w]]
        /\ current' = [w \in Workflow |-> current[w] /\ w \notin lost]
        /\ lease' = [w \in Workflow |-> IF w \in lost THEN 0 ELSE lease[w]]
        /\ own' = [w \in Workflow |-> own[w] /\ w \notin lost]
        /\ orphans' = (orphans \/ \E w \in lost : own[w])
        /\ UNCHANGED pvc

----------------------------------------------------------------------------
\* One step of the code of workflow w.
Run(w) ==
    \/ StartWorkflow(w)
    \/ AcquireGet(w)
    \/ AcquireUpdate(w)
    \/ CleanupExistingDeployments(w)
    \/ CreateRsyncDeployment(w)
    \/ WaitForPodReady(w)
    \/ ObtainKeys(w)
    \/ HasVolumeAttachments(w)
    \/ FindMountPath(w)
    \/ SaveMountPathToCache(w)
    \/ ConnectToAgent(w)
    \/ StatusGet(w)
    \/ StatusUpdate(w)
    \/ PerformRsync(w)
    \/ AnnotateGet(w)
    \/ AnnotateUpdate(w)
    \/ CleanupResources(w)
    \/ ReleaseGet(w)
    \/ ReleaseUpdate(w)

Next ==
    \/ \E w \in Workflow : Run(w) \/ Recover(w)
    \/ Tick
    \/ ForeignWrite
    \/ EditTimestamp
    \/ \E p \in Pod : Crash(p)

Spec == Init /\ [][Next]_vars

\* The code is scheduled: reconciles are requeued, calls return, rsync ends (at
\* the latest at its 24-hour timeout, however often its progress is reported).
Fairness ==
    /\ WF_vars(Tick)
    /\ \A w \in Workflow : WF_vars(Run(w)) /\ SF_vars(PerformRsync(w))

FairSpec == Spec /\ Fairness

----------------------------------------------------------------------------
(* Properties. *)

\* w is between a successful AcquirePVCLock and its return.
Holding(w) == pc[w] \in Working

\* The timestamp w acquired the lock under is not older than the timeout.
Fresh(w) == lease[w] <= LockTimeout

OnePerPod == \A v, w \in Workflow : PodOf[v] = PodOf[w] => v = w

\* AcquirePVCLock excludes: two workflows of different pods work on the PVC at
\* once only when one of them relies on an expired timestamp.
ExclusiveWhileFresh ==
    \A v, w \in Workflow :
        Holding(v) /\ Fresh(v) /\ Holding(w) /\ Fresh(w) => v = w

\* The workflows that may rely on the lock.
Leased == {w \in Workflow : Holding(w) /\ Fresh(w)}

Held == INSTANCE Lease WITH Client <- Workflow, holders <- Leased

\* The lock implements Lease: through failed and lost calls, panics and crashes,
\* AcquirePVCLock lets a workflow in only when none is within its timeout, and
\* the lock never passes from one workflow to another in one step.
LockIsLease == Held!Spec

\* No lost updates on the lock: whatever was read by Get long ago, the owner
\* changes only by an acquisition of a lock that is takeable at that moment, or
\* by a release of its owner; and no write (status, cache, annotations) makes
\* the timestamp of a held lock younger.
LockDisciplineStep ==
    /\ pvc'.owner \notin {pvc.owner, NoPod} =>
          \E w \in Workflow : /\ pc[w] = "lockPut" /\ pc'[w] # "lockPut"
                              /\ pvc'.owner = PodOf[w]
                              /\ Takeable(pvc, PodOf[w])
    /\ pvc'.owner = NoPod /\ pvc.owner # NoPod =>
          \E w \in Workflow : /\ pc[w] = "releasePut" /\ pc'[w] # "releasePut"
                              /\ pvc.owner = PodOf[w]
    /\ pvc'.owner = pvc.owner => pvc'.age >= pvc.age

LockDiscipline == [][LockDisciplineStep]_vars

\* CleanupExistingDeployments removes the rsync deployment of a running
\* workflow only if that workflow, or the one cleaning up, has an expired
\* timestamp: a sync within its hour is never cut short by another.
PurgeStep ==
    \A w \in Workflow :
        own[w] /\ ~own'[w] /\ pc'[w] = pc[w] =>
            \/ ~Fresh(w)
            \/ \E v \in Workflow : pc[v] = "purge" /\ pc'[v] # "purge" /\ ~Fresh(v)

PurgeSparesFresh == [][PurgeStep]_vars

\* A lock never stays with one pod for ever: it is released, or, when its owner
\* crashed, taken over after the timeout.  The exception is a lock that lost its
\* timestamp, which AcquirePVCLock respects whatever its age.
LockMovesOn ==
    \A p \in Pod : pvc.owner = p ~> (pvc.owner # p \/ pvc.stamp = "missing")
=============================================================================
