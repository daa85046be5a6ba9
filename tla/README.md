# A TLA+ model of DR-Syncer

DR-Syncer copies Kubernetes namespaces from a source cluster to a destination
cluster for disaster recovery.  A controller (`src/main.go`) watches three
custom resources; a command line tool (`src/cmd/cli`) does the same by hand; an
agent in the remote clusters lets rsync reach the data of mounted PVCs.  This
directory models the parts of that program whose correctness depends on the
order of steps, checks them with TLC on small instances and proves their safety
properties with TLAPS.

All paths below are relative to `src/`.

## 1. Inventory

| Part | State | Operations | What is hard about it |
|---|---|---|---|
| PVC replication `pkg/controller/replication/rsync_workflow.go`, `rsync_helpers.go` | lock annotations on the source PVC, rsync deployments in the destination | acquire, purge, deploy, keys, mount lookup, rsync, annotate, clean up, release | several controllers, several workflows per controller, lock expiry during a transfer, read-modify-write of one object by many, crashes |
| Rsync transfer `perform_rsync.go`, `withRetryConfig` in `pvc_sync.go`, `sync_status.go` | the two volumes, attempts, the status annotations, a progress goroutine | attempts and retries, progress reports, verification | a reporter that outlives the transfer, a connection that breaks with exit status zero, cancellation, a source that keeps changing |
| Global concurrency `global_concurrency.go`, used in `syncer/pvc_handler.go` | semaphore, waiters, counters, the current manager | acquire, cancel, release, replace the manager | cancellation racing a grant, replacement while slots are held |
| ClusterMapping controller `pkg/controllers/cluster_mapping_controller*.go` | phase, failure count, attempt times in the status | phase handlers, key distribution, connectivity tests in a worker pool, backoff, hourly verification | stale cache, lost writes, missing requeues |
| Backoff `pkg/util/backoff.go` | none | `CalculateBackoff` | 64-bit wrap-around |
| NamespaceMapping controller `pkg/controllers/namespacemapping_controller.go`, `modes/reconciler.go` | phase, retry status, next sync time, finalizer, trigger annotation | Scheduled, Manual and Continuous reconciliation, resolution of the clusters, deletion | a ClusterMapping that comes and goes, stale cache, user edits at any moment, deletion during a sync |
| Watch manager `pkg/controllers/watch/watch.go` | `watching`, two channels, informers | start, stop, background sync | created anew in every reconcile |
| Resource syncer `pkg/controllers/syncer` | objects of the destination namespace, its CRDs | CRDs, copy per type, scale override, PVCs and their data | failure in the middle, passes side by side |
| RemoteCluster controller `pkg/controllers/cluster_controller.go`, `pkg/controller/remotecluster`, `pkg/agent/ssh/keys.go`, `pkg/agent/deploy` | conditions, health, agent DaemonSet with its template, key secrets | connection test, agent deployment, key copies, clean-up | a status written from an older read, partial failure, a key shared by clusters |
| CLI `pkg/cli` | both namespaces, the replica annotation | Stage, Cutover, Failback | a mode that fails or is killed halfway |
| Agent program `cmd/agent`, `pkg/agent/daemon`, `pkg/agent/leader`, `keygen.go` | the lease, the key secret, three threads per agent | start-up checks, election, key creation | a deposed leader that still writes, a secret with two writers |
| Temporary pods, health, DaemonSet workflow and others | pods, secrets | see section 8 | code without callers |

How they interact: the RemoteCluster controller connects to a cluster, deploys
the agent there and sets the process-wide limit on PVC syncs.  A ClusterMapping
pairs two RemoteClusters and is reconciled when they change.  A
NamespaceMapping, in one of three modes, runs the resource syncer, which copies
objects and then, for PVCs, takes a slot of the limit and runs the rsync
workflow; the workflow locks the source PVC, because another controller pod may
do the same.  The CLI works on two namespaces without any of this.

What must be right: no two controllers replicate one PVC at once; a lock, a
slot or a wake-up is never lost; a status tells the truth about what was done;
a mode of the CLI never loses the count a workload is to be restored to;
nothing waits for ever.

## 2. Modules and runs

| Module | Models | MC module | Runs |
|---|---|---|---|
| `RsyncWorkflow` | the PVC lock and the steps of `RsyncWorkflow` | `MCRsyncWorkflow` | `lock`, `lock_liveness` |
| `Lease` | abstract: what a lease promises | | implemented by `RsyncWorkflow` and `AgentKeys` |
| `RsyncWorkflowProofs` | theorems about it, the implementation among them | | |
| `RsyncTransfer` | `performRsync`, the workflow's step `rsync` from inside | `MCRsyncTransfer` | `transfer` |
| `RsyncTransferProofs` | theorems about it | | |
| `GlobalConcurrency` | `GlobalConcurrencyManager` over a weighted semaphore | `MCGlobalConcurrency` | `slots` |
| `SyncSlots` | abstract: a limited number of slots | | implemented by `GlobalConcurrency` |
| `GlobalConcurrencyProofs` | theorems about both, the implementation among them | | |
| `Backoff` | `CalculateBackoff` in int64, as operators | | used and checked by `mapping` |
| `ClusterMapping` | the ClusterMapping reconciler and its work queue, extending `Backoff` | `MCClusterMapping` | `mapping` |
| `ClusterMappingProofs` | theorems about it and about `Backoff` | | |
| `NamespaceMapping` | Scheduled and Manual mode, deletion | `MCNamespaceMapping` | `namespace`, `no_clients` |
| `NamespaceMappingProofs` | theorems about it | | |
| `Syncer` | passes of `SyncNamespaceResources` over two namespaces | | used by `ContinuousMode` |
| `ContinuousMode` | Continuous mode and the watch manager, extending `Syncer` | `MCContinuousMode` | `continuous` |
| `ContinuousModeProofs` | a theorem about both | | |
| `RemoteCluster` | the RemoteCluster reconciler, keys and agent | `MCRemoteCluster` | `remote`, `agent_left` |
| `AgentKeys` | the agent program, its leader election and key secret | `MCAgentKeys` | `agents` |
| `RemoteClusterProofs` | theorems about `RemoteCluster`, and about `AgentKeys` as its instance `Agents` | | |
| `CLIModes` | Stage, Cutover, Failback | `MCCLIModes` | `cli` |
| `CLIModesProofs` | theorems about it | | |

`PROJECT.json` maps every definition to the lines it models, names for every
property a mutant of the code that violates it, and lists the hazards the
properties are aimed at.  Definitions called "Mutant of ..." or "A plausible
bug" are those mutants; no specification uses them.

To check a run: `tlc -config lock.cfg MCRsyncWorkflow`.  To check the proofs:
`tlapm RsyncWorkflowProofs.tla`, and so for each of the eight modules whose name
ends in `Proofs` (minutes each; `CLIModesProofs` and `GlobalConcurrencyProofs` are
the longest).

## 3. How the modules correspond to the code

**The Kubernetes API.**  Every module that writes objects has the same view of
the API server: a write carries the version of the object it was derived from
and is refused if the object has changed since; a call may fail, and a call that
fails may nevertheless have taken effect.  Versions are only compared for
equality with the current one, so a copy has a Boolean (`current`, `fresh`,
`based`) in place of a number.  Controllers read from a cache that lags; `queued` and
`timer` are the controller-runtime work queue and `RequeueAfter`.

**RsyncWorkflow.**  A workflow is one goroutine; `pc` follows the twelve
numbered steps in `rsync_workflow.go`, with the Get and the Update of every
read-modify-write of the PVC as two steps.  `copy` and `current` are the object
about to be sent.  Timestamps are ages that saturate above the timeout.  Calls
that write nothing the model keeps (finding the node, the agent, the mount path,
pushing the key, testing SSH) are instances of `Step`: they go on or leave by the
error path, which cleans up when `destRsyncPod` is set (`Tracked`) and releases.
`Recover` is the deferred recover, `Crash` the death of a pod, whose name comes
back or does not.

**RsyncTransfer.**  The two volumes are a relation per file: absent on both
sides, missing, same, older, extra, or different in a way size and time do not
show.  An attempt copies any part of what is outdated before it breaks off;
`ExecuteCommandInPod` turns what the command did into what the caller sees, and
`isTransientError` decides on a retry.  The progress goroutine reads and writes
the PVC on its own; the call cancels it and waits (`Joined`).

**GlobalConcurrency.**  `Acquire` is split where another goroutine can get in
between: count as waiting, enter the semaphore, count as active, set the gauge;
`golang.org/x/sync/semaphore` is modelled as its queue.  A replaced manager lives
on for the goroutines that captured it.

**ClusterMapping.**  One object.  A reconcile is one step of the one worker, over
a cached copy that may lag.  The world it meets says how far keys can be
distributed (no RemoteCluster, not reachable, no key, ready) and which pairs of
agents connect; `SubmitAndWait` is the worker pool, which returns
when every test has run.  The delays come from `Backoff`, rounded to ticks.

**NamespaceMapping.**  One object.  A reconcile marks Running, syncs and writes
the outcome in steps, during which users pause, annotate and delete, and the
ClusterMapping it refers to appears and disappears (`clusters`).  Times are ticks.

**Syncer, ContinuousMode.**  A pass first copies the CRDs when the mapping asks
for it, then prepares the namespace, lists, gets and puts each type, and copies
the data of claims if the mapping says so, one call per step, for any number of
workers side by side.  It covers the types of the switch at `sync.go:313` and
nothing else: other types, and `spec.namespaceScopedResources`, are never copied.
A content is the number of the edit that made it, and a mark (`fixed`) for the
fields no update may change: the API server refuses a put over another mark every
time.  Continuous mode adds the goroutines: each reconcile starts a set of them,
with the informers and the loop that the mapping then asks for, and none is ever
stopped.  A reconcile may come at any time, because every status write of a handler
wakes one.  The status itself is left out.

**RemoteCluster.**  One cluster in full and the others as far as they delete the
key they share.  A key copy is absent, the same as the key, or older; keys are read
from a cache (`keyCache`) that may still show a deleted one.  PVC sync is off, on,
or on without its SSH section or image, with which it fails for ever.  Each
condition is kept by itself (`bad`), and a check that fails leaves the later ones as
they are.  Of the pod
template the specification asks for, `Pods` keeps whether two of them differ in
what `createOrUpdateDaemonSet` compares; `NeedsUpdate` is that comparison.

**AgentKeys.**  An agent is three threads: main with its start-up checks,
`leader.Run`, and the goroutine of `OnStartedLeading`, which works in
`context.Background()` and goes on after the lease is lost.  The lease is that of
client-go, in ticks of five seconds; it names its holder by `HOSTNAME`, and a leader
that gives up hands it back if the call gets through.  The key secret records who
wrote it and whether it holds host keys: the controller's copy does, a leader's does not, and
each write replaces the whole.  The agent is modelled as a program that may read
and write secrets and leases; the deployed ClusterRole grants neither.

**CLIModes.**  A mode is a list of phases, a phase a set of API calls; runs are
started in any order, killed anywhere, and meet failing calls or an operator who
rescales (`trouble` remembers which).  `singular` says whether the API server
fills in `singularName` in its discovery, as those since 1.27 do: where it does,
`mode.go:188` skips every workload in the sync phase.  An upgrade may come between
two runs.

## 4. What the runs check

| Run | Bounds | Shows |
|---|---|---|
| `lock` | two pods with one workflow each, timeout of two ticks, one crash, failing and half-failing API calls, panics, writes of other clients | `ExclusiveWhileFresh`: two workflows work at once only if one is past the timeout. `LockIsLease`: the lock implements `Lease`, so it is free before the next workflow may rely on it. `LockDiscipline`: no stale copy ever takes, frees or rejuvenates the lock. `PurgeSparesFresh`: a sync within its hour does not lose its deployment to another within its own |
| `lock_liveness` | the same without API faults, timeout zero, timestamps edited by hand | `LockMovesOn`: no lock stays with a pod for ever, unless its timestamp was removed |
| `transfer` | two files, two attempts, sample of half | success without interference means that everything rsync can see was copied; a claim of full verification is true; a late progress report never replaces the final phase; every call returns |
| `slots` | three goroutines, limits 1 and 2, two managers | tokens and counters exact, nobody waits beside a free slot, each manager implements `SyncSlots`, everyone who waits is served |
| `mapping` | two target agents, one source, six worlds of keys and links, outages, restarts, edits; the delays of `Backoff` for counts 0 to 70 and every jitter in per cent | no wake-up is lost; a healthy mapping becomes Connected, also after delays that have wrapped around; an outage is noticed |
| `namespace` | two ticks between runs, two retries, outages, failing syncs, pausing, triggers, deletion, a ClusterMapping that is there or not | no wake-up is lost; nothing is synced for an object that is gone; syncs recur, triggers are served, deletions complete |
| `continuous` | two goroutines: a loop with an informer for deployments, or the loops of two sets; CRDs and data on, one edit, one fault, crashes | a pass that succeeds has copied the types it has cases for; loops bring the destination up to date, type by type up to the first refused update; the data arrive |
| `remote` | two upsets: edits of switch, template or schedule, a key deleted for another cluster, breakage and repair, outages, a crash | what a status records was done, if it replaces the status it came from; conditions, agent, template and keys follow the specification in the end |
| `agents` | three agents, two kills or deletions of the secret, outages at any time | leadership implements `Lease`: at most one agent leads, and it began when no other did; whatever was written or deleted, all agents serve in the end |
| `cli` | a Deployment and a StatefulSet, up to two replicas, one kind of trouble, API servers of both kinds | the count is kept, success means moved, a destination starts only after its source stopped, a stage leaves no copy running; that the copies exist only where `singularName` is empty |
| `no_clients` | violation | with the clients the controller passes, no sync completes |
| `agent_left` | violation | a disabled cluster may keep its agent for ever |

Why the bounds are enough.  The lock is contended by two parties at a time, and
two ticks tell apart a timestamp that is fresh, at the limit and past it.  For
liveness a timeout of zero keeps the two cases that matter (not expired,
expired).  Two files tell "all" from "some", two attempts a retry from the last
attempt.  Three goroutines at a limit of one leave two waiting, so that one can
be cancelled while another is granted.  The counts of `Backoff` pass every bit
of the shifted second.  Two agents make "some pair fails" different from "all
fail".  An edit and a fault are each one extra party that can strike between
any two steps, and `remote` needs the second upset to switch PVC sync off and on
again, or to break and repair.  Two goroutines are enough for passes that
overtake each other, lose conflicts and cut off each other's data copy; the loops
are what brings the destination up to date, so each set has one.  Three agents are a leader,
one that takes over and one that looks on; two mishaps allow the secret to be
deleted and the leader to be killed while it writes the new one.

Larger instances have been checked once: `remote` with three upsets (2,302,767
states), `cli` with two kinds of trouble (15,103,592 states), `continuous` with sets
that may lack the loop, two informers side by side among them (642,863 states), and
with three goroutines of any kind but without CRDs and faults (11,713,616 states).

Where a property has a condition it says what the code cannot promise, and each of
these conditions leaves out something the code really does:

- `SuccessMeansTransferred` leaves out a source that others write during the copy.
- `SuccessMeansCopied` leaves out edits of the clusters during the pass and a pass
  that writes what it had listed before an edit, beside this one.  It is about the
  types that have a case; the others are not copied with success all the same.
- `Converges` ends at the first refused update, which ends every pass for ever, and
  `DataArrives` leaves out loops that always copy one claim at once.
- `CountKept` leaves out an annotation that failed and a workload rescaled while it
  carries one: in both the code loses the count.
- `HandOver` and the others of the CLI leave out the failed updates that they name,
  which the tool only logs.
- `RecordedMeansDeployed` and `ClearedMeansGone` are about a status that replaces the
  one it was derived from (`Based`).  `cluster_controller.go:212` sets the status of
  the first read on the object of the second; when the first was older, what is
  stored may record an agent that is gone or clear the record of one that runs.
- `NoLostWakeup` of `ClusterMapping` leaves out the phase Failed, whose first failure
  asks for a requeue after zero, that is for none.

## 5. Fairness

Weak fairness of the code's own steps: goroutines are scheduled, API calls
return, controller-runtime delivers cache events and fires timers, and takes
queued requests.  Nothing is assumed about the environment's edits, faults,
crashes and cancellations, except in these places:

- clocks tick (weak fairness of `Tick`; strong fairness of `HourPasses` in
  `RemoteCluster`, because an hour passes however often the object is reconciled);
- rsync ends (strong fairness of `PerformRsync`, which progress reports
  interrupt): the command has a 24-hour timeout;
- the progress goroutine sees that its context is done although its ticker
  keeps firing (strong fairness of `ReportDone`): `select` chooses at random
  among ready cases;
- in `AgentKeys`, the kubelet starts a container that ended and the RemoteCluster
  controller pushes the keys again, both in time but in no particular order; no
  fairness of the election is assumed;
- in `ClusterMapping`, a RemoteCluster that can be reached is reconciled, and
  with it its mappings: that controller stamps `LastSyncTime` in every period.

Liveness properties of the reconcilers are conditional on the world staying as
it is from some time on (`<>[]...`).

## 6. What is proved

`RsyncWorkflowProofs` proves five theorems for any sets of workflows and pods,
any timeout, any faults and any number of crashes, from `ConstantsOK`:

- `TypeCorrect`: `Spec => []TypeOK`.
- `LockDisciplineHolds`: `Spec => LockDiscipline`.  `TypeOK` says nothing of what
  a waiting Update may do, so the invariant is `TypeOK /\ PendingInv`: a copy that
  is still current either takes a lock that is takeable now, or frees the
  writer's own, or writes back what is there.  `RunIsLocal` says that a step
  changes the PVC only by storing a current copy, which outdates all the others;
  from this each action keeps `PendingInv`, and every change of the lock is one of
  those three.  The clock keeps it because a takeable lock only gets older.
- `Exclusion`: `Spec => []ExclusiveWhileFresh`, if every pod runs one workflow for
  the PVC (`OnePerPod`) and nobody edits the timestamp.  The invariant is
  `LeaseFacts`: a workflow that works on an unexpired timestamp owns the lock, and
  the timestamp on the PVC is the one it relies on (`LeaseInv`); every timestamp
  parses (`StampInv`).  Two such workflows would own the lock both.
- `LockRefinesLease`: `Spec => LockIsLease` under the same two assumptions.  The
  holders of the abstract lease are the workflows that work on an unexpired
  timestamp (`Leased`).  Exclusion alone would allow the lock to pass from one to
  another in a single step; `LeaseBegins` rules that out: a workflow enters
  `Leased` by finding its own pod's name or by storing a takeable lock, and
  `LeaseInv` says that neither is there to be found while another is in it.
- `PurgeSparesFreshHolds`: `Spec => PurgeSparesFresh` under the same two
  assumptions, using `OwnInv`: a deployment that is tracked belongs to a workflow
  that has still to clean it up.

Both assumptions are needed.  The lock is re-entrant by pod name, and
`EditTimestamp` can make a fresh lock takeable.

`GlobalConcurrencyProofs` proves five theorems for any finite set of goroutines,
any set of limits, any number of managers and cancellations at any time, from
`ConstantsOK`.  None of the properties is inductive alone: `SlotsExact` counts who
is inside, and a grant needs to know that the first in the queue is waiting and
is there once.  The invariant is `TypeOK` with

- `PlaceInv`: a goroutine captured a manager that exists, or works without one;
- `QueueInv`: a queue holds exactly those who wait for it, each once;
- `CountInv`: tokens, `waitingCount` and `activeCount` are the numbers of the
  goroutines at the steps that hold or count;
- `LimitInv`: no more tokens than the limit, and all of them taken while
  somebody waits.

`CountMove` and `CountHandOver` say by how much a count changes when one goroutine
moves, and when a release or a cancellation moves a second one.  From the
invariant follow `TypeCorrect` (tokens never below zero), `ExactSlots`,
`ExactCounters` and `BusySlots`.  `Refinement` is `Spec => ManagersAreSlots`: with
who asks and who is inside as the mapping, every step of a manager is a step of
`SyncSlots` or a stutter; leaving and handing the slot to the next is one step of
it, and `LimitInv` is what makes an entry legal.

`RsyncTransferProofs` proves `Transferring` (`SuccessMeansTransferred`),
`FullVerification` (`FullMeansEqual`) and `FinalPhase` (`FinalPhaseSticks`) for any
files, attempts and size of the sample.  The invariant carries what the last
attempt achieved through verification and clean-up (`TransferInv`), ties the claim
of the result to the configuration of the call (`ClaimInv`), and bounds the life of
the progress goroutine by that of the transfer (`ReporterInv`), from which it
follows that no report comes after the final phase.

`RemoteClusterProofs` proves `TypeCorrect`, `RecordedDeployment`
(`RecordedMeansDeployed`) and `ClearedStatus` (`ClearedMeansGone`) for any number of
edits, outages and crashes, with the condition `Based` of section 4.  What is
written was decided steps earlier, so the invariant `WorkerInv` relates the
worker's copy to the stored object at each step: where the copy says more than the
stored status, this reconcile has done it, and what it did is still there.

The same module proves `ElectionRefinesLease`, `Agents!Spec => Agents!ElectionIsLease`,
for any set of agents and any number of kills, deletions and outages; it assumes
what `AgentConstants` says of names, that no pod is called like the mark of a free
lease.  Who believes to lead says nothing about the lease object, so the invariant
is `LeaderHolds`: an agent that leads is the holder of a lease no older than
`RenewDeadline`, which is less than `LeaseDuration`.  Another agent can then not
acquire it (`LeaderBegins`), and the clock keeps the bound because `Tick` waits for
a leader at its deadline.

`NamespaceMappingProofs` proves `Wakeups` (`NoLostWakeup`) and `DeletionWaits`
(`NoSyncAfterDeletion`) for any period, retries and backoff.  `NoLostWakeup` is not
inductive: a user's edit may be undone before the cache has seen it, and then it
brings no event.  `WakeupInv` therefore states the wake-up for the cached copy, and
counts as one a write of the controller that the cache has not seen.
`FinalizerInv` says that a cached finalizer is there, that a reconcile at work has
one, and that an object that is gone leaves a copy which starts nothing.

`ClusterMappingProofs` proves `Wakeups` (`NoLostWakeup`) for any agents, delays and
periods, from `MappingConstants`.  Here too the invariant has to leave out the
stored pause, which may be lifted before the cache saw it.  That the ages are
numbers needs a longest delay; `GreatestInteger` finds it with the least-number
principle of `WellFoundedInduction`.

It also proves what the delays are: `EveryDelay`, `\A n \in Nat : DelaysAre(n)`, for
every failure count.  They double up to 33 failures and keep to the cap; at 35 they
are negative and from 56 on zero, whatever the jitter.
`DoubledValues` finds the values of the recursive reference `Doubled`: a function
given value by value satisfies its equation, so some function does, and a least
count at which the two differ would contradict it.  `Shifted` has the powers of two
that matter, and `NoWrap` says that nothing wraps before the 34th failure.

`ContinuousModeProofs` proves `SuccessfulPasses` (`SuccessMeansCopied`) for any workers
and passes, edits, refusals and faults.  That a pass has succeeded says nothing
about the passes that are still on their way, so the invariant `PassInv` is about
every step of every pass: its place in the list of types is one the loop can be at,
it comes to the data and the end only at the last type, and, as long as it is
`quiet`, it holds the object as it is at the source and has left every type behind
it as it should be at the destination.  A pass that writes what is still at the
source leaves the others so (`StoredStep`); only a late copy disturbs them.

`CLIModesProofs` proves `KeptCounts` (`CountKept`), `OrderedHandOver` (`HandOver`),
`SuccessfulMoves` (`SuccessMeansMoved`) and `SuccessfulStages` (`StageCopies`), for any
workloads and counts, API servers of both kinds, and any sequence of runs, kills and
kinds of trouble.  The argument is
about phases.  `PlanInv` says that what is left of the plan has the phases in the
order the modes rely on; `Through(phase, w)` says that the run has this phase behind
it for workload `w`.  `SourceInv`, `StopInv`, `CopyInv` and `RestoreInv` say what then
holds of `w`, and it stays so, because the phases that could undo it come earlier
or belong to other modes.  The counts at the source (`SourceInv`) survive kills
between runs, which is what makes a repeated run start from a good state.

Only model-checked are the liveness properties, which are out of the prover's
reach.  Every invariant, action property and refinement that a run checks is also
a theorem, apart from the two that are violated.

Theorems are about `Spec`, without fairness; the runs with liveness check `FairSpec`,
which implies it.

## 7. Behaviour worth knowing

These were met while modelling.  The first two are kept as violation runs.  The
others are behaviour that the models contain, also where it disagrees with a
document or a test; the statements of the checked properties name it.

- `namespacemapping_controller.go:241`: all clients given to the mode handler are
  nil, so every sync fails in `verifyClusterAccess` (`no_clients`).  For the same
  reason deletion never cleans up the destination.
- `remotecluster/pvc_sync.go:182`: disabling PVC sync during the first deployment
  leaves agent and keys behind (`agent_left`).
- Lock: goroutines of one pod share it (`rsync_helpers.go:1049`), and the first to
  finish releases it for all.  Nothing renews the timestamp, and rsync may run 24
  hours: after one hour two controllers replicate at once, although
  `docs/docs/features.md:553` speaks of preventing conflicting changes.  An owner
  without timestamp is respected for ever.  `LockReleased` is also recorded for a
  release that was refused.  A deployment that does not become ready is leaked
  until the next acquisition.
- Transfer: an empty volume always fails verification.  Progress lines are only
  there after an attempt has ended.  A sample whose files could not be read
  claims a match; a mismatch still completes.  The final phase stays Syncing when
  its write fails or the context is done.  `MaxRetries` of zero always fails, the
  wait follows the last attempt too, and `MaxBackoff` bounds neither the first wait
  nor the jitter (`api/v1alpha1/types.go:308`).  The retryable error of `rsyncpod` is
  not the type `withRetryConfig` looks for.
- Limit: replacing the manager lets old and new holders exceed either limit
  together; the gauge may be set from an older count.
- ClusterMapping: keys are appended to `/home/syncer/.ssh/authorized_keys`, which
  `build/sshd_config:15` does not make sshd read.  The first failure returns
  `RequeueAfter` zero; the failure count is never reset by a recovery;
  `CalculateBackoff` may be negative at 34 failures, where the product of delay and
  jitter first wraps, is negative at 35 and zero from 56 on, although
  `pkg/util/backoff_test.go:128` says that "10+ failures should always hit the cap"
  (`EveryDelay`).
- NamespaceMapping: a stale cache starts a scheduled sync early
  (`reconciler.go:81`); the backoff is ignored (`:113`) and retries go on at zero
  (`:115`); the trigger annotation is never removed (`:361`); a mapping without a
  destination cluster cannot be deleted (`namespacemapping_controller.go:153`);
  when the ClusterMapping is gone, deletion skips the clean-up.
- Continuous mode: every reconcile starts another set of watchers and none is
  stopped; without the background loop an edit made during a pass may stay
  uncopied, although `docs/docs/architecture.md:147` says that changes are
  replicated immediately.  The status does not settle: a handler's writes wake a
  reconcile, whose new informers replay their Adds and say Running again; a final
  update that fails, or meets five conflicts, leaves Running (`reconciler.go:292`).
  A set keeps the specification it was started with, so that loops from before and
  after an edit of `scaleToZero` undo each other's writes for ever.
- Syncer: failures to copy PVC data are reported as success (`pvc_handler.go:270`);
  an override label that is no number keeps the replicas of the source
  (`resource_handlers.go:128`).  Custom resources are never copied: the conversion
  of their list to a slice fails, which is logged (`sync.go:473`), although
  `api/v1alpha1/namespacemapping_types.go:83` lists them "to replicate"; nor are
  types without a case (`sync.go:313`), such as the StatefulSets of
  `docs/docs/installation.md:599`.  An update of an immutable field or to a smaller
  claim is refused every time and ends every pass there (`sync.go:835`);
  `spec.immutableResourceConfig` is not looked at.  Of an existing claim only the
  size is updated.  A claim that no pod mounts is skipped with
  success.  CRDs come before the access checks, and an error there ends the pass.
  `CompleteNamespaceMappingPVCSync` works on a dummy mapping and is refused.
- RemoteCluster: pods keep the rsync key they mounted (subPath, `deploy.go:402`); a
  status may combine two reads (`cluster_controller.go:212`) and then record what is
  not there; there is no finalizer.  A schedule that is removed does not reset
  `ScheduleValid` (`cluster_controller.go:59`).  A stale cache may push a deleted key
  (`keys.go:70`).  PVC sync without SSH section or image fails for ever.
  `createOrUpdateDaemonSet` compares image, annotations, volumes and environment:
  an edit of resources, tolerations, node selector, host network, privileges,
  labels or pull policy waits for an edit of one of those.  Cleaning up deletes the
  controller's copy of the agent key and never the remote secret.  The kubeconfig
  secret is read from `dr-syncer` whatever namespace the specification names.
- Agents: the goroutine of `ScheduleKeyRotation` ends with the 30-second context
  it is given, so keys are never rotated, although `docs/docs/features.md:394`
  promises it.  Any error of the Get counts as a missing secret; a create that
  failed is never retried; a leader's Update drops the host keys, and no agent
  starts until the controller pushes them again.
- CLI: where discovery fills in `singularName`, that is with API servers since
  1.27, Stage and Cutover create no workload at the destination and report success;
  Cutover has then stopped the source and started nothing (`mode.go:188`, whose
  comment speaks of subresources; `README.md:194` and `:207` promise the copies).
  A workload whose annotation failed is scaled to zero all the same; an
  annotation from an earlier cutover is restored later; a staged workload runs
  until it is scaled down.  Cutover migrates PVC data after the destination starts,
  Failback before it stops, so either may lose what the destination wrote.

## 8. What is not modelled

Components with status `not_modelled` in `PROJECT.json`, and why:

- Code without callers: the DaemonSet workflow, the older `RsyncController` and
  replication manager (which take no lock), `pvc_lock.go`, temporary pod keys, the
  agent-side coordinator, health checks, temporary pods, the command executor,
  `sync/immutable.go` and `sync/pvc.go`.
- Parsing of rsync's output: what it computes is reported and never decided on.
  API declarations, generated code, metrics, logging, configuration, wiring, test
  utilities.

Left out of modelled parts, and why:

- the CLI's volume data: scaling to zero returns while pods still terminate and
  write, so no promise about the contents of a migrated volume follows from the
  order of the tool's steps; the phase `migrate` has only its abort.  The choice of
  resource types by flags changes which objects a run is about, not its steps;
- `CleanupResources` of the mode handler, never called with a client; `RotateSSHKeys`
  and `ForceSync`, without a caller that gets past an unstarted cache; `StopWatching`
  and `StopBackgroundSync`, without callers;
- the channel that bounds how many connectivity tests run at once: the caller
  waits for all of them either way;
- of custom rsync options everything but whether they ask for checksums;
- for `ClusterMapping`, a RemoteCluster with PVC sync disabled counts as absent; the
  code refuses it in the Pending phase only;
- bytes, speeds and durations, the contents of resources apart from replicas,
  sizes and labels, and the labels that select agents.

## 9. Plan

Built so far: the modules of section 2, in the order RsyncWorkflow,
GlobalConcurrency, Backoff, ClusterMapping, CLIModes, NamespaceMapping,
RemoteCluster, Syncer with ContinuousMode, RsyncTransfer, AgentKeys; proofs about all
of them.

Next, modelling:

1. The composition of `GlobalConcurrency` with `RsyncWorkflow` (slots held while a
   workflow runs).
2. A NamespaceMapping run over `Syncer` in place of its abstract sync.
3. The code of section 8 that has no callers, should it be put to use.

Next, proofs: none of the checked safety properties is left.  A composition would
bring its own, for which `Lease` and `SyncSlots` could stand in for the components
that implement them.
