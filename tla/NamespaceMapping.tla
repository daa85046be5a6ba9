-------------------------- MODULE NamespaceMapping --------------------------
(***************************************************************************)
(* One NamespaceMapping in Scheduled or Manual mode: the controller        *)
(* (namespacemapping_controller.go) and the mode reconciler                *)
(* (modes/reconciler.go).                                                  *)
(*                                                                         *)
(* A reconcile marks the mapping Running, syncs, and writes the outcome;   *)
(* the controller watches without a predicate, so every one of these       *)
(* status writes queues the mapping again when the cache learns of it.     *)
(* updateStatus retries until its copy is current or gives up with an      *)
(* error.  Times are counted in ticks that are left: 0 is a time that has  *)
(* passed.                                                                 *)
(***************************************************************************)
EXTENDS Integers

CONSTANTS Modes,        \* subset of {"Scheduled", "Manual"}
          HasClients,   \* whether the mode handler is given cluster clients
          Period,       \* ticks from one scheduled run to the next
          MaxRetries,   \* 10 in the code
          MaxBackoff,   \* 5 * time.Minute in ticks
          Faults        \* the failures and edits that may happen

VARIABLES obj,     \* the object in the API server
          cache,   \* the controller's cached copy
          queued,  \* the request is in the work queue, or dirty while worked on
          timer,   \* ticks until a delayed request is queued, or None
          pc,      \* "idle", or where the reconcile at work stands
          local,   \* the reconcile's own copy of the retry status
          mode,    \* spec.replicationMode
          clusters,\* what becomes of the clusters the spec names
          failing  \* an outage: API calls may fail or lose their answer

vars == <<obj, cache, queued, timer, pc, local, mode, clusters, failing>>
given == <<mode, clusters, failing>>

None == -1
Phases == {"", "Pending", "Running", "Completed", "Failed", "gone"}
FaultKinds == {"outage", "sync", "pause", "trigger", "untrigger", "delete", "clusters"}

\* The clusters are named, by the spec or by a ClusterMapping it refers to; the
\* ClusterMapping does not exist; or neither way is used.
Clusters == {"known", "missing", "unnamed"}
NoRetry == [left |-> None, backoff |-> None]

ASSUME NamespaceConstants ==
    /\ Modes \subseteq {"Scheduled", "Manual"} /\ HasClients \in BOOLEAN
    /\ Period \in Nat \ {0} /\ MaxRetries \in Nat \ {0} /\ MaxBackoff \in Nat \ {0}
    /\ Faults \subseteq FaultKinds

Least(a, b) == IF a < b THEN a ELSE b
Sooner(t) == IF t > 0 THEN t - 1 ELSE t
Ticked(o) == [o EXCEPT !.next = Sooner(@)]

Init ==
    /\ obj = [phase |-> "", next |-> None, retry |-> NoRetry,
              syncNow |-> FALSE, paused |-> FALSE, finalizer |-> FALSE,
              deleting |-> FALSE, stamp |-> 0]
    /\ cache = obj /\ queued = TRUE /\ timer = None
    /\ pc = "idle" /\ local = NoRetry
    /\ mode \in Modes /\ failing = FALSE
    /\ clusters \in IF "clusters" \in Faults THEN Clusters ELSE {"known"}

-----------------------------------------------------------------------------
\* The end of a reconcile: RequeueAfter d, or an error, which is requeued at
\* the rate limiter's pace whatever RequeueAfter says.
After(d) ==
    /\ pc' = "idle"
    /\ timer' = IF d <= 0 THEN timer
                ELSE IF timer = None THEN d ELSE Least(timer, d)
    /\ UNCHANGED <<queued, given>>

Error == pc' = "idle" /\ queued' = TRUE /\ UNCHANGED <<timer, given>>

\* The request leaves the queue while it is worked on.
Taken(d) ==
    /\ pc' = "idle"
    /\ timer' = IF d <= 0 THEN timer
                ELSE IF timer = None THEN d ELSE Least(timer, d)
    /\ queued' = FALSE
    /\ UNCHANGED given

\* A write; the times in a status make every one of them a new version.
Written(o) == obj' = [o EXCEPT !.stamp = 1 - @] /\ cache' = cache

Current == cache = obj /\ obj.phase # "gone"

\* A write of the copy that was read: accepted if it is current.  Otherwise, or
\* when the server fails, an error; the write may still have been made.
Update(o) == Current /\ Written(o)

UpdateFails(o) ==
    \/ (cache # obj \/ failing) /\ UNCHANGED <<obj, cache>>
    \/ Current /\ failing /\ Written(o)

\* updateStatus reads again after a conflict until its copy is current, and
\* gives up with an error after five attempts or another failure.
updateStatus(o) == Current /\ Written(o)

updateStatusFails(o) ==
    /\ failing
    /\ UNCHANGED <<obj, cache>> \/ (Current /\ Written(o))

\* A change of the copy that leaves the status as it is succeeds unwritten.
StatusUnchanged(o) == o = cache /\ UNCHANGED <<obj, cache>>

\* A failure before the first write of a reconcile is retried from the start:
\* a stuttering step.
Begins == pc = "idle" /\ queued
Live == cache.phase # "gone" /\ ~cache.deleting /\ ~cache.paused

\* The clusters must be known.  No client is made for them.
setupModeHandlerForNamespaceMapping == clusters = "known"

\* A plausible bug: work starts before the finalizer is there.
WorksUnfinalized == Begins /\ Live /\ setupModeHandlerForNamespaceMapping

Works == Begins /\ Live /\ cache.finalizer /\ setupModeHandlerForNamespaceMapping

\* The decision is made on the cached copy; the writes that follow re-read it.
Proceed(step) ==
    /\ pc' = step /\ queued' = FALSE
    /\ UNCHANGED <<obj, cache, timer, local, given>>

\* Early returns of Reconcile: the object is gone, or paused.
ReconcileNothing ==
    /\ Begins
    /\ cache.phase = "gone" \/ (cache.paused /\ ~cache.deleting)
    /\ Taken(0)
    /\ UNCHANGED <<obj, cache, local>>

\* A plausible bug: a ClusterMapping that is gone is an error like any other.
handleDeletionMapped ==
    /\ Begins /\ cache.phase # "gone" /\ cache.deleting /\ clusters = "known"
    /\ UNCHANGED local
    /\ LET gone == [obj EXCEPT !.phase = "gone"]
       IN  \/ Update(gone) /\ Taken(0)
           \/ UpdateFails(gone) /\ Error

\* handleDeletion: CleanupResources has no destination client and does nothing,
\* and is left out when the ClusterMapping is gone; then the finalizer is
\* removed, and the object goes.  Clusters that are not named are an error.
handleDeletion ==
    /\ Begins /\ cache.phase # "gone" /\ cache.deleting /\ clusters # "unnamed"
    /\ UNCHANGED local
    /\ LET gone == [obj EXCEPT !.phase = "gone"]
       IN  \/ Update(gone) /\ Taken(0)
           \/ UpdateFails(gone) /\ Error

AddFinalizer ==
    /\ Begins /\ Live /\ ~cache.finalizer
    /\ UNCHANGED local
    /\ LET added == [obj EXCEPT !.finalizer = TRUE]
       IN  \/ Update(added) /\ Taken(0)
           \/ UpdateFails(added) /\ Error

\* A plausible bug: the wait for the next run is not asked for again.
SkipUntilNextForgets ==
    /\ Works /\ mode = "Scheduled"
    /\ cache.phase = "Completed" /\ cache.next > 0
    /\ Taken(0)
    /\ UNCHANGED <<obj, cache, local>>

\* ReconcileScheduled returns at once while the next run is not due.
SkipUntilNext ==
    /\ Works /\ mode = "Scheduled"
    /\ cache.phase = "Completed" /\ cache.next > 0
    /\ Taken(cache.next)
    /\ UNCHANGED <<obj, cache, local>>

\* ReconcileManual without an annotation: wait, or go back to Pending.
ManualWaits ==
    /\ Works /\ mode = "Manual" /\ ~cache.syncNow
    /\ cache.phase = "Pending"
    /\ Taken(0)
    /\ UNCHANGED <<obj, cache, local>>

ManualResets ==
    /\ Works /\ mode = "Manual" /\ ~cache.syncNow
    /\ cache.phase \in {"", "Completed", "Failed"}
    /\ Proceed(IF cache.phase = "" THEN "pend" ELSE "reset")

Pended(o) ==
    IF pc = "pend" THEN [o EXCEPT !.phase = "Pending"]
    ELSE [o EXCEPT !.phase = "Pending", !.next = None, !.retry = NoRetry]

SetPending ==
    /\ pc \in {"pend", "reset"}
    /\ UNCHANGED local
    /\ \/ updateStatus(Pended(obj)) /\ After(0)
       \/ StatusUnchanged(Pended(cache)) /\ After(0)
       \/ updateStatusFails(Pended(obj)) /\ Error

\* A plausible bug: the annotation is only looked at in the Pending phase.
SyncsFromPending ==
    IF mode = "Manual" THEN (cache.syncNow /\ cache.phase = "Pending") \/ cache.phase = "Running"
    ELSE ~(cache.phase = "Completed" /\ cache.next > 0)

\* Whether this reconcile goes on to a sync.
Syncs ==
    IF mode = "Manual" THEN cache.syncNow \/ cache.phase = "Running"
    ELSE ~(cache.phase = "Completed" /\ cache.next > 0)

\* A plausible bug: a mapping that is Running is taken to be worked on already,
\* and its request is dropped.
DecideToSyncOnce ==
    /\ Works /\ Syncs
    /\ IF cache.phase = "Running" THEN Proceed("idle") ELSE Proceed("mark")

DecideToSync ==
    /\ Works /\ Syncs
    /\ Proceed("mark")

\* Both modes mark the mapping Running before they sync (Manual does it twice).
MarkRunning ==
    /\ pc = "mark"
    /\ LET running == [obj EXCEPT !.phase = "Running"]
       IN  \/ updateStatus(running) /\ pc' = "sync" /\ local' = obj.retry
              /\ UNCHANGED <<queued, timer, given>>
           \/ updateStatusFails(running) /\ Error /\ UNCHANGED local

\* syncResources; without clients verifyClusterAccess refuses at once.
syncResources ==
    /\ pc = "sync"
    /\ pc' \in (IF HasClients THEN {"synced"} ELSE {})
               \cup (IF ~HasClients \/ "sync" \in Faults THEN {"broken"} ELSE {})
    /\ UNCHANGED <<obj, cache, queued, timer, local, given>>

\* A failure to reset the retry status is only logged.
resetRetryStatus ==
    /\ pc = "synced" /\ pc' = "done"
    /\ UNCHANGED <<queued, timer, local, given>>
    /\ LET reset == [obj EXCEPT !.retry = NoRetry]
       IN  \/ local = NoRetry /\ UNCHANGED <<obj, cache>>
           \/ local # NoRetry /\ updateStatus(reset)
           \/ local # NoRetry /\ updateStatusFails(reset)

\* The write of Completed, and of the time of the next run.
CompleteScheduled ==
    /\ pc = "done" /\ mode = "Scheduled"
    /\ UNCHANGED local
    /\ LET done == [obj EXCEPT !.phase = "Completed", !.next = Period]
       IN  \/ updateStatus(done) /\ After(Period)
           \/ updateStatusFails(done) /\ Error

CompleteManual ==
    /\ pc = "done" /\ mode = "Manual"
    /\ UNCHANGED local
    /\ LET done == [obj EXCEPT !.phase = "Completed"]
       IN  \/ updateStatus(done) /\ After(0)
           \/ updateStatusFails(done) /\ Error

\* One retry fewer, and twice the backoff up to the maximum.
NextRetry(r) ==
    LET left == IF r.left = None THEN MaxRetries ELSE r.left
        base == IF r.backoff = None THEN 1 ELSE r.backoff
    IN  [left |-> IF left > 0 THEN left - 1 ELSE 0, backoff |-> Least(2 * base, MaxBackoff)]

\* Scheduled returns the error with the backoff, Manual only the backoff, and
\* both return the error once no retries are left.
Retried(retry) == IF mode = "Manual" /\ retry.left > 0 THEN After(retry.backoff) ELSE Error

handleRetry ==
    /\ pc = "broken"
    /\ UNCHANGED local
    /\ LET r == NextRetry(local)
           failed == [obj EXCEPT !.phase = "Failed", !.retry = r]
       IN  \/ updateStatus(failed) /\ Retried(r)
           \/ updateStatusFails(failed) /\ Error

Reconcile ==
    \/ ReconcileNothing \/ handleDeletion \/ AddFinalizer
    \/ SkipUntilNext \/ ManualWaits \/ ManualResets \/ SetPending
    \/ DecideToSync \/ MarkRunning \/ syncResources
    \/ resetRetryStatus \/ CompleteScheduled \/ CompleteManual \/ handleRetry

-----------------------------------------------------------------------------
\* The watch has no predicate: whatever changed, the mapping is queued.
CacheSync ==
    /\ cache # obj
    /\ cache' = obj /\ queued' = TRUE
    /\ UNCHANGED <<obj, timer, pc, local, given>>

\* A user pauses or resumes the mapping, or sets or removes the sync-now
\* annotation.
Pause ==
    /\ "pause" \in Faults /\ obj.phase # "gone"
    /\ obj' = [obj EXCEPT !.paused = ~@]
    /\ UNCHANGED <<cache, queued, timer, pc, local, given>>

Annotate ==
    /\ mode = "Manual" /\ obj.phase # "gone"
    /\ (IF obj.syncNow THEN "untrigger" ELSE "trigger") \in Faults
    /\ obj' = [obj EXCEPT !.syncNow = ~@]
    /\ UNCHANGED <<cache, queued, timer, pc, local, given>>

Delete ==
    /\ "delete" \in Faults /\ obj.phase # "gone" /\ ~obj.deleting
    /\ obj' = IF obj.finalizer THEN [obj EXCEPT !.deleting = TRUE]
              ELSE [obj EXCEPT !.phase = "gone"]
    /\ UNCHANGED <<cache, queued, timer, pc, local, given>>

Tick ==
    /\ obj' = Ticked(obj) /\ cache' = Ticked(cache)
    /\ timer' = IF timer \in {None, 1} THEN None ELSE timer - 1
    /\ queued' = (queued \/ timer = 1)
    /\ UNCHANGED <<pc, local, given>>

Outage ==
    /\ "outage" \in Faults /\ failing' = ~failing
    /\ UNCHANGED <<obj, cache, queued, timer, pc, local, mode, clusters>>

\* A ClusterMapping is created or deleted; a user names the clusters.
ClustersChange ==
    /\ "clusters" \in Faults
    /\ clusters' = IF clusters = "known" THEN "missing" ELSE "known"
    /\ UNCHANGED <<obj, cache, queued, timer, pc, local, mode, failing>>

Next == Reconcile \/ CacheSync \/ Pause \/ Annotate \/ Delete \/ Tick \/ Outage
        \/ ClustersChange

Spec == Init /\ [][Next]_vars

FairSpec == Spec /\ WF_vars(Reconcile) /\ WF_vars(CacheSync) /\ WF_vars(Tick)

-----------------------------------------------------------------------------
\* A mapping that has something to do (Scheduled: always; Manual: while it has
\* the annotation) and is not paused always has a wake-up coming, although most
\* returns of the reconcile ask for none: a queued request, a timer, an event
\* the cache has yet to deliver, or a reconcile at work.
NoLostWakeup ==
    (mode = "Scheduled" \/ obj.syncNow) /\ ~obj.paused /\ obj.phase # "gone"
    => queued \/ timer # None \/ cache # obj \/ pc # "idle"

\* The finalizer holds a deleted mapping until the sync at work has ended: no
\* sync runs, or is still to be accounted for, when the object is gone.
NoSyncAfterDeletion == pc \in {"sync", "synced", "done", "broken"} => obj.phase # "gone"

\* A deleted mapping that is left alone does not stay, paused or not, with its
\* ClusterMapping or without, whatever the reconcile was doing when it was
\* deleted, once the API server works: unless it names no clusters at all.
DeletionCompletes ==
    \A p, n \in BOOLEAN :
        ~<>[](/\ obj.deleting /\ obj.phase # "gone" /\ ~failing
              /\ obj.paused = p /\ obj.syncNow = n /\ clusters # "unnamed")

Undisturbed ==
    ~obj.paused /\ ~obj.deleting /\ obj.phase # "gone" /\ ~failing /\ clusters = "known"

\* A scheduled mapping that stays unpaused and is not deleted is synced again
\* and again, also after syncs that failed, outages that ended and a
\* ClusterMapping that came late.
SyncsForever == <>[](mode = "Scheduled" /\ Undisturbed) => []<>(pc = "sync")

\* A sync-now annotation that is left in place is served, the first one and any
\* later one, whatever phase earlier syncs left the mapping in: from then on
\* syncs recur, as nothing in the code takes the annotation away and the status
\* writes of one sync wake the next.
TriggerServed == <>[](obj.syncNow /\ Undisturbed) => []<>(pc = "sync")

\* A mapping whose clusters work is synced some time.
SomeTimeCompleted == <>(obj.phase = "Completed")
=============================================================================
