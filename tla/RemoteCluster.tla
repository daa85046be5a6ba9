--------------------------- MODULE RemoteCluster ---------------------------
(***************************************************************************)
(* The RemoteCluster controller (pkg/controllers/cluster_controller.go)    *)
(* with what one reconcile drives: PVCSyncManager                          *)
(* (pkg/controller/remotecluster/pvc_sync.go), the SSH KeyManager          *)
(* (pkg/agent/ssh/keys.go) and the agent Deployer                          *)
(* (pkg/agent/deploy/deploy.go).                                           *)
(*                                                                         *)
(* One RemoteCluster is modelled in full.  The others share the worker,    *)
(* which reconciles one object at a time, and, without a KeySecretRef of   *)
(* their own, the agent key secret mainKey.  Objects and secrets are read  *)
(* from a cache that may lag, and a reconcile reads its object twice: the  *)
(* status it writes comes from the first read, the spec and the resource   *)
(* version from the second.                                                *)
(***************************************************************************)
EXTENDS Integers, FiniteSets

CONSTANTS MaxUpsets     \* bound on edits of this and other RemoteClusters,
                        \* breakdowns and repairs, outages and crashes

VARIABLES obj,          \* the RemoteCluster in the API server
          cache,        \* the manager's cached copy
          world,        \* what a connection attempt to the cluster meets
          queued, timer,\* work queue: ready, or waiting for RequeueAfter
          pc, work,     \* the worker: its step and its copy of the object
          mainKey,      \* whether the default agent key secret exists
          keyCache,     \* its copy in the manager's cache
          remoteKey,    \* its copy in the remote cluster
          pubKey,       \* dr-syncer-sshkey-<cluster> in the controller cluster
          rsyncKey,     \* whether dr-syncer-rsync-keys-<cluster> exists
          rsyncRemote,  \* its copy in the remote cluster
          agent,        \* whether the agent DaemonSet exists
          template,     \* what its pod template took from the specification
          loaded,       \* the rsync key its pods mounted when they started
          upsets

keys == <<mainKey, remoteKey, pubKey, rsyncKey, rsyncRemote>>
agents == <<agent, template, loaded>>
env == <<world, upsets>>
queue == <<queued, timer>>
worker == <<pc, work>>
vars == <<obj, cache, env, queue, worker, keyCache, keys, agents>>

ASSUME ClusterConstants == MaxUpsets \in Nat

\* Spec.PVCSync enabled, enabled without its optional SSH section or image,
\* disabled with its SSH section, or without one.
Enabled == {"on", "noSSH", "noImage"}
Sync == Enabled \cup {"off", "absent"}

\* Spec.DefaultSchedule: empty, parsed by the cron library, or refused.
Schedule == {"none", "valid", "invalid"}

\* The kubeconfig secret or its key is missing, what it holds cannot be used, or
\* the cluster does not answer.
Trouble == {"secret", "config", "down"}

\* The pod template the specification gives: what createOrUpdateDaemonSet
\* compares with the DaemonSet it finds (image, annotations, environment).  An
\* edit of what it does not compare (resources, tolerations, node selector,
\* host network, privileges) waits for the next edit of the former.
Pods == {"first", "second"}

\* Status: which of the conditions ScheduleValid, KubeconfigAvailable,
\* KubeconfigValid and ClusterAvailable are False, and Status.PVCSync: none,
\* Failed, or Deployed, which is Current while agents are ready and
\* LastDeploymentTime is younger than DefaultSyncPeriod.  The condition
\* PVCSyncReady is left out: every reconcile that gets to the final update sets
\* it anew from the same outcome as the phase, and from node counts.
Status == [bad : SUBSET (Trouble \cup {"schedule"}),
           phase : {"none", "Failed", "Deployed", "Current"}]
Specification == [sync : Sync, pods : Pods, schedule : Schedule]
Object == [spec : Specification, st : Status]

NoStatus == [bad |-> {}, phase |-> "none"]

\* A copy is absent, of the key that exists now, or of one deleted since.
Copy == {"none", "same", "old"}

\* Deleting a key makes its copies old; generateKeyPair never makes the same
\* key again.
Deleted(copy) == IF copy = "same" THEN "old" ELSE copy

NoSpec == [sync |-> "absent", pods |-> "first", schedule |-> "none"]
Idle == [spec |-> NoSpec, st |-> NoStatus, based |-> FALSE, fresh |-> FALSE]

Init ==
    /\ obj = [spec |-> [NoSpec EXCEPT !.sync = "on"], st |-> NoStatus] /\ cache = obj
    /\ world = "ok"
    /\ queued = TRUE /\ timer = FALSE
    /\ pc = "idle" /\ work = Idle
    /\ mainKey = FALSE /\ keyCache = "none" /\ remoteKey = "none" /\ pubKey = "none"
    /\ rsyncKey = FALSE /\ rsyncRemote = "none"
    /\ agent = FALSE /\ template = "first" /\ loaded = "none"
    /\ upsets = 0

-----------------------------------------------------------------------------
(* The environment: users, clusters, the informer and the clock. *)

Upset == upsets < MaxUpsets /\ upsets' = upsets + 1

Edit ==
    /\ Upset
    /\ \/ \E x \in Sync \ {obj.spec.sync} : obj' = [obj EXCEPT !.spec.sync = x]
       \/ \E x \in Pods \ {obj.spec.pods} : obj' = [obj EXCEPT !.spec.pods = x]
       \/ \E x \in Schedule \ {obj.spec.schedule} : obj' = [obj EXCEPT !.spec.schedule = x]
    /\ work' = [work EXCEPT !.fresh = FALSE]
    /\ UNCHANGED <<cache, world, queue, pc, keyCache, keys, agents>>

\* The informer delivers the object; SetupWithManager passes on changes of the
\* generation only.
SyncCache ==
    /\ cache # obj
    /\ cache' = obj
    /\ queued' = (queued \/ cache.spec # obj.spec)
    /\ UNCHANGED <<obj, env, timer, worker, keyCache, keys, agents>>

\* What the informer of the secrets shows once it has caught up.
Listed(key) == IF key THEN "same" ELSE "none"

SyncKeyCache ==
    /\ keyCache # Listed(mainKey)
    /\ keyCache' = Listed(mainKey)
    /\ UNCHANGED <<obj, cache, env, queue, worker, keys, agents>>

\* The cluster or its kubeconfig secret breaks or is repaired.  Events of the
\* secret reach the queue (findRemoteClustersForSecret).
ChangeWorld ==
    /\ Upset
    /\ \E w \in Trouble :
           /\ \/ world = "ok" /\ world' = w
              \/ world = w /\ world' = "ok"
           /\ queued' = (queued \/ w # "down")
    /\ UNCHANGED <<obj, cache, timer, worker, keyCache, keys, agents>>

\* Another RemoteCluster is reconciled while the worker has none of the steps
\* of this one to do: its cleanup deletes the shared secret; its deployment
\* creates it, if the cache shows none.
OtherCluster ==
    /\ pc = "idle" /\ Upset
    /\ mainKey \/ keyCache = "none"
    /\ mainKey' = ~mainKey
    /\ remoteKey' = Deleted(remoteKey) /\ pubKey' = Deleted(pubKey)
    /\ keyCache' = Deleted(keyCache)
    /\ UNCHANGED <<obj, cache, world, queue, worker, rsyncKey, rsyncRemote, agents>>

\* Whether API calls fail during one step of the worker.
Outage(f) ==
    /\ IF f THEN Upset ELSE UNCHANGED upsets
    /\ UNCHANGED world

\* DefaultSyncPeriod passes since the recorded deployment.
HourPasses ==
    /\ pc = "idle" /\ obj.st.phase = "Current"
    /\ obj' = [obj EXCEPT !.st.phase = "Deployed"]
    /\ cache' = IF cache.st.phase = "Current" THEN [cache EXCEPT !.st.phase = "Deployed"] ELSE cache
    /\ UNCHANGED <<env, queue, worker, keyCache, keys, agents>>

TimerFires ==
    /\ timer /\ timer' = FALSE /\ queued' = TRUE
    /\ UNCHANGED <<obj, cache, env, worker, keyCache, keys, agents>>

-----------------------------------------------------------------------------
(* One reconcile. *)

\* Reconcile: the object is read; its status is the base of what is written.
Begin ==
    /\ pc = "idle" /\ queued
    /\ queued' = FALSE /\ pc' = "verify"
    /\ work' = [spec |-> cache.spec, st |-> cache.st,
                based |-> cache.st = obj.st, fresh |-> cache = obj]
    /\ UNCHANGED <<obj, cache, env, timer, keyCache, keys, agents>>

Done == pc' = "idle" /\ work' = Idle

\* An error, or Requeue: the queue retries at a limited rate.
RequeueNow == queued' = TRUE /\ UNCHANGED timer

\* Status().Update is accepted for the version that was read; it replaces the
\* whole status.
Write(st) == obj' = [obj EXCEPT !.st = st]

\* The conditions after the check of the schedule: an empty one is not checked,
\* so that what was said of an earlier one stays.
Checked ==
    CASE work.spec.schedule = "none" -> work.st.bad
      [] work.spec.schedule = "valid" -> work.st.bad \ {"schedule"}
      [] work.spec.schedule = "invalid" -> work.st.bad \cup {"schedule"}

\* What the checks after that of the schedule find.  While API calls fail, a
\* kubeconfig secret that cannot be read counts as missing.
Meets(f) == (IF world = "ok" THEN {} ELSE {world}) \cup (IF ~f THEN {} ELSE
                {"secret"} \cup (IF world = "ok" THEN {"down"} ELSE {}))

\* The conditions a failing check leaves, and whether they are stored on a second
\* read of the object: the first check that fails sets its own and leaves the
\* others.  A secret without the key is stored on the first read.  client.New
\* comes after all checks, when the three conditions are set to True.
Failure(conditions, second) == [bad |-> conditions, reread |-> second]

Failures(f) ==
    IF work.spec.schedule = "invalid" THEN {Failure(Checked, TRUE)}
    ELSE {Failure(Checked \cup {t}, FALSE) : t \in Meets(f)}
         \cup {Failure(Checked \cup {t}, TRUE) : t \in Meets(f) \cap {"secret"}}
         \cup (IF f /\ world = "ok" THEN {Failure((Checked \ Trouble) \cup {"config"}, TRUE)}
               ELSE {})

\* Reconcile ends early; where the object is not read again, the outcome of the
\* update is ignored.
VerifyFails(f) ==
    /\ pc = "verify"
    /\ \E e \in Failures(f) :
           LET fresh == IF e.reread THEN cache = obj ELSE work.fresh
           IN  \/ fresh /\ Write([work.st EXCEPT !.bad = e.bad])
               \/ (~fresh \/ f) /\ UNCHANGED obj
    /\ RequeueNow /\ Done /\ Outage(f)
    /\ UNCHANGED <<cache, keyCache, keys, agents>>

\* A plausible bug: a condition that is there already is not set to True.
VerifyKeeps ==
    /\ pc = "verify" /\ world = "ok" /\ work.spec.schedule # "invalid"
    /\ work' = [work EXCEPT !.spec = cache.spec, !.fresh = (cache = obj), !.st.bad = Checked]
    /\ pc' = "sync"
    /\ UNCHANGED <<obj, cache, env, queue, keyCache, keys, agents>>

\* The cluster answers: the conditions but ScheduleValid are set to True, and the
\* object is read again for its spec and version.
Verify ==
    /\ pc = "verify" /\ world = "ok" /\ work.spec.schedule # "invalid"
    /\ work' = [work EXCEPT !.spec = cache.spec, !.fresh = (cache = obj),
                            !.st.bad = Checked \ Trouble]
    /\ pc' = "sync"
    /\ UNCHANGED <<obj, cache, env, queue, keyCache, keys, agents>>

\* A plausible bug: a running agent is never deployed again.
AgentsCurrentAlways == work.st.phase \in {"Deployed", "Current"}

\* agentsRunning, and the last deployment is younger than DefaultSyncPeriod.
AgentsCurrent == work.st.phase = "Current"

\* EnsureKeys returns the key k: the cached copy, which may have been deleted, or
\* a new one.  There is none, and an error, when the cache does not show the
\* secret yet, before the creation or in the read after it.
EnsureKeys(k) ==
    \/ keyCache # "none" /\ k = keyCache /\ UNCHANGED mainKey
    \/ keyCache = "none" /\ mainKey /\ k = "none" /\ UNCHANGED mainKey
    \/ keyCache = "none" /\ ~mainKey /\ k \in {"none", "same"} /\ mainKey' = TRUE

\* A plausible bug: a failed push is only logged.
DeployKeysLogged(far, k, f) ==
    /\ IF far >= 1 THEN EnsureKeys(k) ELSE k = "none" /\ UNCHANGED mainKey
    /\ far >= 2 => k # "none"
    /\ remoteKey' = IF far >= 2 /\ ~f THEN k ELSE remoteKey
    /\ pubKey' = IF far >= 3 THEN k ELSE pubKey

\* EnsureKeys, PushKeysToRemoteCluster and EnsureKeysInControllerCluster, in
\* this order, when the deployment gets as far as step far.
DeployKeys(far, k, f) ==
    /\ IF far >= 1 THEN EnsureKeys(k) ELSE k = "none" /\ UNCHANGED mainKey
    /\ far >= 2 => k # "none"
    /\ remoteKey' = IF far >= 2 THEN k ELSE remoteKey
    /\ pubKey' = IF far >= 3 THEN k ELSE pubKey

\* EnsureRsyncKeys and PushRsyncKeysToCluster; failures are only logged, and
\* the cached read after the creation may still miss the secret.
EnsureRsyncKeys(f) ==
    \/ rsyncKey' = TRUE /\ rsyncRemote' = "same"
    \/ (f \/ ~rsyncKey) /\ rsyncKey' = TRUE /\ UNCHANGED rsyncRemote
    \/ f /\ UNCHANGED <<rsyncKey, rsyncRemote>>

\* A plausible bug: an existing DaemonSet is left as it is.
ApplyDaemonSetOnce(f) ==
    /\ agent' = TRUE
    /\ template' = IF agent THEN template ELSE work.spec.pods
    /\ loaded' = IF agent THEN loaded ELSE rsyncRemote'

\* Whether the pod template mounts the rsync key: a failed read of the secret
\* counts as no secret.
Mounts(f) == {rsyncRemote' # "none"} \cup (IF f THEN {FALSE} ELSE {})

\* The pod template is built from the specification of the second read.
Template == work.spec.pods

\* The comparison with the DaemonSet that is there.
NeedsUpdate(mount) ==
    \/ template # Template
    \/ (loaded # "none") # mount

\* createOrUpdateDaemonSet: a DaemonSet that is written replaces the whole
\* template and restarts the pods.  They mount the rsync key by subPath, so
\* they see the key of the day they started.
ApplyDaemonSet(f) ==
    \E mount \in Mounts(f) :
        /\ agent' = TRUE
        /\ IF ~agent \/ NeedsUpdate(mount)
           THEN /\ template' = Template
                /\ loaded' = IF mount THEN rsyncRemote' ELSE "none"
           ELSE UNCHANGED <<template, loaded>>

\* The deployment branch of PVCSyncManager.Reconcile up to step far: 0 the
\* remote client and namespace, 1 the key, 2 its copy in the remote cluster,
\* 3 its public part, 4 the rsync key and waitForKeySecret, 5 the DaemonSet,
\* 6 its status.
DeployTo(far, k, f) ==
    /\ DeployKeys(far, k, f)
    /\ IF far >= 4 THEN EnsureRsyncKeys(f) ELSE UNCHANGED <<rsyncKey, rsyncRemote>>
    /\ IF far >= 5 THEN ApplyDaemonSet(f) ELSE UNCHANGED agents

\* How far it gets: EnsureKeys fails without an SSH section or without the key,
\* createOrUpdateDaemonSet without an image; while API calls fail it may stop
\* anywhere before.
DeployStops(k, f) ==
    LET last == CASE work.spec.sync = "noSSH" -> 0
                  [] work.spec.sync # "noSSH" /\ k = "none" -> 1
                  [] work.spec.sync = "noImage" /\ k # "none" -> 4
                  [] OTHER -> 6
    IN  IF f THEN 0..last ELSE {last}

\* getRemoteClient and ensureDrSyncerNamespace, the first calls of every
\* reconcile of an enabled cluster; a namespace that exists is fine.
Connects(f) == IF f THEN BOOLEAN ELSE {TRUE}

\* updateAgentStatus: whether the DaemonSet has ready pods; one that was just
\* created has none.
Ready == IF agent THEN BOOLEAN ELSE {FALSE}

Deploy(f) ==
    /\ pc = "sync" /\ pc' = "write"
    /\ work.spec.sync \in Enabled /\ ~AgentsCurrent
    /\ \E c \in Connects(f), r \in Ready, k \in Copy :
       \E far \in IF c THEN DeployStops(k, f) ELSE {0} :
           /\ DeployTo(far, k, f)
           /\ keyCache' = IF k = "same" THEN k ELSE keyCache
           /\ work' = [work EXCEPT !.st.phase = IF far < 6 THEN "Failed"
                                                ELSE IF r THEN "Current" ELSE "Deployed"]
    /\ Outage(f)
    /\ UNCHANGED <<obj, cache, queue>>

\* Nothing to do: never enabled, or deployed within the hour and the remote
\* client and namespace are found.
Skip(f) ==
    /\ pc = "sync" /\ pc' = "write"
    /\ \/ work.spec.sync \notin Enabled /\ work.st.phase = "none" /\ ~f /\ UNCHANGED work
       \/ work.spec.sync \in Enabled /\ AgentsCurrent
          /\ \E c \in Connects(f) :
                 work' = IF c THEN work ELSE [work EXCEPT !.st.phase = "Failed"]
    /\ Outage(f)
    /\ UNCHANGED <<obj, cache, queue, keyCache, keys, agents>>

\* DeleteKeys removes the shared secret and, if possible, its public part; it
\* does nothing when the specification has no SSH section.
DeleteKeys(f) ==
    IF work.spec.sync = "off"
    THEN /\ mainKey' = FALSE /\ remoteKey' = Deleted(remoteKey)
         /\ pubKey' \in {"none"} \cup (IF f THEN {Deleted(pubKey)} ELSE {})
    ELSE UNCHANGED <<mainKey, remoteKey, pubKey>>

\* DeleteRsyncKeys here, gone, and the deletion of the remote copy; failures
\* are only logged.
DeleteRsyncKeys(gone, f) ==
    /\ rsyncKey' = (rsyncKey /\ ~gone)
    /\ rsyncRemote' \in {"none"}
           \cup (IF f THEN {IF gone THEN Deleted(rsyncRemote) ELSE rsyncRemote} ELSE {})

\* cleanupPVCSync up to step far: 1 the keys, 2 the DaemonSet, 3 RBAC and the
\* service account.
CleanTo(far, f) ==
    /\ IF far >= 1
       THEN /\ DeleteKeys(f)
            /\ \E gone \in (IF f THEN BOOLEAN ELSE {TRUE}) :
                   /\ DeleteRsyncKeys(gone, f)
                   /\ loaded' = IF far >= 2 THEN "none" ELSE IF gone THEN Deleted(loaded) ELSE loaded
       ELSE UNCHANGED <<keys, loaded>>
    /\ agent' = (agent /\ far < 2)
    /\ template' = IF far < 2 THEN template ELSE "first"

\* A plausible bug: the status is cleared although Cleanup failed.
ClearsAnyway(far) == far >= 1

\* A plausible bug: Status.PVCSync is not cleared.
ClearsNever(far) == FALSE

\* Status.PVCSync = nil is the last step of cleanupPVCSync.
Clears(far) == far = 3

Clean(f) ==
    /\ pc = "sync" /\ pc' = "write"
    /\ work.spec.sync \notin Enabled /\ work.st.phase # "none"
    /\ \E far \in (IF f THEN 0..3 ELSE {3}) :
           /\ CleanTo(far, f)
           /\ work' = IF Clears(far) THEN [work EXCEPT !.st.phase = "none"] ELSE work
    /\ keyCache' = IF mainKey' THEN keyCache ELSE Deleted(keyCache)
    /\ Outage(f)
    /\ UNCHANGED <<obj, cache, queue>>

\* The final update: a success waits DefaultSyncPeriod, also when the agent
\* could not be deployed; a conflict or an error is retried.  An update that
\* reports an error may have been stored.
UpdateStatus(f) ==
    /\ pc = "write"
    /\ \/ work.fresh /\ ~f /\ Write(work.st) /\ timer' = TRUE /\ UNCHANGED queued
       \/ work.fresh /\ f /\ Write(work.st) /\ RequeueNow
       \/ (~work.fresh \/ f) /\ RequeueNow /\ UNCHANGED obj
    /\ Done /\ Outage(f)
    /\ UNCHANGED <<cache, keyCache, keys, agents>>

\* The process dies, in the middle of a deployment or a cleanup too, and
\* another starts: the object is listed and queued.
Crash ==
    /\ pc # "idle" /\ Outage(TRUE)
    /\ \/ UNCHANGED <<keys, agents>>
       \/ pc = "sync" /\ work.spec.sync \in Enabled /\ ~AgentsCurrent
          /\ \E k \in Copy : \E far \in DeployStops(k, TRUE) \ {6} : DeployTo(far, k, FALSE)
       \/ pc = "sync" /\ work.spec.sync \notin Enabled /\ work.st.phase # "none"
          /\ \E far \in 1..2 : CleanTo(far, FALSE)
    /\ pc' = "idle" /\ work' = Idle
    /\ queued' = TRUE /\ timer' = FALSE /\ cache' = obj /\ keyCache' = Listed(mainKey')
    /\ UNCHANGED obj

Reconcile ==
    \/ Verify
    \/ \E f \in BOOLEAN : VerifyFails(f) \/ Skip(f) \/ Deploy(f) \/ Clean(f) \/ UpdateStatus(f)

Next ==
    \/ Edit \/ OtherCluster \/ ChangeWorld \/ Crash
    \/ SyncCache \/ SyncKeyCache \/ HourPasses \/ TimerFires
    \/ Begin \/ Reconcile

Spec == Init /\ [][Next]_vars

\* The informers deliver, timers fire, the clock moves, and the worker takes
\* what is queued and finishes the reconcile it began.
FairSpec ==
    /\ Spec
    /\ WF_vars(SyncCache) /\ WF_vars(SyncKeyCache) /\ SF_vars(HourPasses) /\ WF_vars(TimerFires)
    /\ WF_vars(Begin) /\ WF_vars(Reconcile)

-----------------------------------------------------------------------------
TypeOK ==
    /\ obj \in Object /\ cache \in Object
    /\ world \in {"ok"} \cup Trouble
    /\ {queued, timer, mainKey, rsyncKey, agent} \subseteq BOOLEAN
    /\ pc \in {"idle", "verify", "sync", "write"}
    /\ {keyCache, remoteKey, pubKey, rsyncRemote, loaded} \subseteq Copy /\ template \in Pods
    /\ upsets \in 0..MaxUpsets

\* The status written replaces the one it was derived from.  It does not when the
\* first read was older than the status stored at that moment and the second was
\* not: the object of the second read then gets the status of the first.
Based == work.based

\* The key that a deployment has just pushed: that of the shared secret, or, when
\* the cache still showed a secret that is gone, the deleted one.
PushedKey == IF mainKey THEN "same" ELSE "old"

\* A recorded deployment is a whole one: when LastDeploymentTime is renewed in
\* the stored status, the agent exists and its cluster and the controller's have
\* the agent key that was pushed, whatever failed in between.  The statement is
\* about a status that replaces the one it was derived from (Based): one taken
\* from an older first read is stored with whatever it says, so that it may record
\* an agent that has since been removed.
RecordedMeansDeployed ==
    [][Based /\ obj.st.phase # "Current" /\ obj'.st.phase = "Current"
          => agent' /\ remoteKey' = PushedKey' /\ pubKey' = PushedKey']_vars

\* Status.PVCSync is cleared only when the agent is gone, because a cleared
\* status is what makes the next reconcile skip the cleanup.  This too is about a
\* status that replaces the one it was derived from (Based): an older first read
\* that has no record yet clears a later one, and the agent stays.
ClearedMeansGone ==
    [][Based /\ obj.st.phase # "none" /\ obj'.st.phase = "none" => ~agent']_vars

\* The cluster answers and its schedule is not refused.
Sound == world = "ok" /\ obj.spec.schedule # "invalid"

\* A cluster whose PVC sync stays disabled is cleaned up, whatever failed on
\* the way: its recorded status does not stay.
DisabledIsCleared ==
    <>[](Sound /\ obj.spec.sync \notin Enabled) => <>[](obj.st.phase = "none")

\* A cluster whose PVC sync stays enabled, with SSH section and image, ends with
\* an agent of the template it asks for and with the shared key on both sides,
\* even if the cleanup of another cluster deleted that key, if a deleted key was
\* pushed from the cache, if updates of the status were refused or made from an
\* older read, and if the template changed within the hour in which a deployment
\* is taken to be current.
EnabledIsServed ==
    <>[](Sound /\ obj.spec.sync = "on")
        => <>[](/\ agent /\ template = obj.spec.pods
                /\ mainKey /\ remoteKey = "same" /\ pubKey = "same")

\* The agent of an enabled cluster ends with an rsync key mounted and with the
\* stored key in its cluster, also when the key could not be made or copied
\* before the agent was first deployed and only a warning said so.
RsyncKeyMounted ==
    <>[](Sound /\ obj.spec.sync = "on")
        => <>[](loaded # "none" /\ rsyncKey /\ rsyncRemote = "same")

\* What Reconcile finds is what the conditions end up saying, for a broken
\* cluster as for a repaired one, whatever older status was written over a later
\* one: the first check that fails has its condition False; when all succeed
\* those of the cluster are not False; and a schedule that was False does not
\* stay so once it is valid (once it is removed, it does).  PVC sync that is
\* enabled without SSH section or image ends as Failed.
OutcomeReported ==
    /\ <>[](obj.spec.schedule = "invalid") => <>[]("schedule" \in obj.st.bad)
    /\ <>[](obj.spec.schedule = "valid") => <>[]("schedule" \notin obj.st.bad)
    /\ \A t \in Trouble : <>[](world = t /\ obj.spec.schedule # "invalid") => <>[](t \in obj.st.bad)
    /\ <>[]Sound => <>[](obj.st.bad \cap Trouble = {})
    /\ <>[](Sound /\ obj.spec.sync \in Enabled \ {"on"}) => <>[](obj.st.phase = "Failed")

\* Once PVC sync stays disabled no agent stays behind: "If PVC sync was
\* previously enabled, clean up".
NothingLeftBehind == <>[](Sound /\ obj.spec.sync \notin Enabled) => <>[]~agent
=============================================================================
