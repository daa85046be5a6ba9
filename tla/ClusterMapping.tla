--------------------------- MODULE ClusterMapping ---------------------------
(***************************************************************************)
(* One ClusterMapping and its reconciler (cluster_mapping_controller.go    *)
(* and cluster_mapping_controller_retry.go): the phases, the backoff       *)
(* guard, the hourly verification, and the wake-ups that keep it going.    *)
(*                                                                         *)
(* The controller has one worker, so a reconcile is one step; it reads the *)
(* informer cache, which lags behind the API server, while a status write  *)
(* re-reads the object and is refused unless that copy is current.  A      *)
(* wake-up is a queued request or a timer (Result.RequeueAfter); a timer   *)
(* of zero or less is none at all.                                         *)
(***************************************************************************)
EXTENDS Integers, FiniteSets, Backoff

CONSTANTS Target, Source,  \* the agent pods of the two clusters
          MaxFailures,     \* bound: counts from here on are not told apart
          Delays,          \* failure count -> the ticks CalculateBackoff may give
          FailedDelay,     \* 5 * time.Minute in ticks
          Hour,            \* time.Hour in ticks
          World,           \* the worlds tried, some of Worlds below
          Faulty           \* whether the API server may have outages

VARIABLES obj,      \* the object in the API server
          cache,    \* the controller's cached copy of it
          queued,   \* the request is in the work queue
          timer,    \* ticks until a delayed request is queued, or Never
          clusters, \* what validation and the cluster clients meet
          links,    \* the <<target, source>> pairs an SSH test succeeds on
          failing   \* an outage: API writes may fail or lose their answer

vars == <<obj, cache, queued, timer, clusters, links, failing>>
world == <<clusters, links, failing>>

Never == -1
Longest == Hour + 1    \* ages are counted up to here
Phases == {"", "Pending", "Connecting", "Connected", "Failed"}

\* What validation, the cluster clients, the key distribution and the SSH tests
\* can meet.  "keyless": SSHKeySecretRef names a secret, or a key of it, that is
\* not there.
Worlds ==
    {w \in {"missing", "unreachable", "keyless", "ready"} \X SUBSET (Target \X Source) :
        w[1] \in {"missing", "unreachable"} => w[2] = {}}

ASSUME MappingConstants ==
    /\ MaxFailures \in Nat /\ Delays \in [0..MaxFailures -> SUBSET (Never..Hour)]
    /\ Delays[0] = {0} /\ \A n \in 0..MaxFailures : Delays[n] # {}
    /\ Hour \in Nat /\ FailedDelay \in 1..Hour /\ Faulty \in BOOLEAN
    /\ IsFiniteSet(Target) /\ IsFiniteSet(Source)
    /\ World \subseteq Worlds

LongestWait == CHOOSE d \in UNION {Delays[n] : n \in 0..MaxFailures} :
                   \A n \in 0..MaxFailures : \A e \in Delays[n] : e <= d
Older(age, cap) == IF age = Never THEN Never ELSE Least(age + 1, cap)
Aged(o) == [o EXCEPT !.attempt = Older(@, LongestWait),
                     !.verified = Older(@, Longest)]

\* getClusters, getClusterClients and the lists of agent pods succeed.
Reachable == clusters \in {"keyless", "ready"}

-----------------------------------------------------------------------------
\* What a reconcile returns: Requeue or an error (Again), or RequeueAfter d.
Again == queued' = TRUE /\ timer' = timer

After(d) ==
    /\ queued' = FALSE
    /\ timer' = IF d <= 0 THEN timer
                ELSE IF timer = Never THEN d ELSE Least(timer, d)

\* updateStatusWithRetry: base is the object it re-reads, new the result.  An
\* error, after which the write may or may not have happened, requeues.
updateStatusWithRetry(base, new, Result) ==
    \/ obj' = new /\ cache' = base /\ Result
    \/ failing /\ obj' \in {base, new} /\ cache' \in {cache, base} /\ Again

\* updateLastAttemptTimeWithRetry, whose error is only logged.
Attempted ==
    {[obj EXCEPT !.attempt = 0]} \cup (IF failing THEN {obj} ELSE {})

TooSoon(d) == cache.failures > 0 /\ cache.attempt # Never /\ cache.attempt < d

\* Reconcile gets past the backoff guard and the pause.
Proceeds ==
    /\ queued
    /\ \E d \in Delays[cache.failures] : ~TooSoon(d)
    /\ ~cache.paused

ReconcileTooSoon ==
    /\ queued
    /\ \E d \in Delays[cache.failures] : TooSoon(d) /\ After(d - cache.attempt)
    /\ UNCHANGED <<obj, cache, world>>

ReconcilePaused ==
    /\ queued /\ cache.paused
    /\ \E d \in Delays[cache.failures] : ~TooSoon(d)
    /\ After(0)
    /\ UNCHANGED <<obj, cache, world>>

\* setFailedStatusWithRetry increments the stored count and then computes the
\* delay from the count of the copy the reconcile started with.
setFailedStatus(base) ==
    \E d \in Delays[cache.failures] :
        updateStatusWithRetry(base,
            [base EXCEPT !.phase = "Failed",
                         !.failures = Least(@ + 1, MaxFailures)], After(d))

\* Distribution fails only where it cannot start: a key that cannot be read from
\* one target or appended on one source is logged and passed over.  What it
\* appends changes no link: the agents' sshd reads the mounted key files.
distributeSSHKeys == Reachable /\ clusters # "keyless"

\* An exec in the target's pod; an error counts as no connection.
testSSHConnection(pair) == pair \in links

\* Every task is run once before SubmitAndWait returns.
SubmitAndWait(tasks) == {pair \in tasks : testSSHConnection(pair)}

\* A target agent counts as connected when any source answers it.
verifyConnectivity ==
    LET connectedTargets == {pair[1] : pair \in SubmitAndWait(Target \X Source)}
    IN  Cardinality(connectedTargets) = Cardinality(Target) /\ Target # {}

\* A plausible bug: the hourly check is not scheduled again after it succeeds.
handleConnectedPhaseOnce ==
    /\ Proceeds /\ cache.phase = "Connected"
    /\ UNCHANGED world
    /\ \E base \in Attempted :
         \/ /\ obj' = [base EXCEPT !.verified = 0]
            /\ cache' = base /\ After(0)
         \/ setFailedStatus(base)

\* A plausible bug: an expired verification is not carried out again.
handleConnectedPhaseIdle ==
    /\ Proceeds /\ cache.phase = "Connected"
    /\ UNCHANGED world
    /\ \E base \in Attempted : obj' = base /\ cache' \in {cache, obj} /\ After(Hour)

\* A plausible bug: a failed mapping is reported again instead of retried.
handleFailedPhaseStays ==
    /\ Proceeds /\ cache.phase = "Failed"
    /\ UNCHANGED world
    /\ \E base \in Attempted : updateStatusWithRetry(base, base, After(FailedDelay))

\* A new object, and any phase the switch does not know, becomes Pending.
ReconcileNew ==
    /\ Proceeds /\ cache.phase = ""
    /\ UNCHANGED world
    /\ \E base \in Attempted :
         updateStatusWithRetry(base, [base EXCEPT !.phase = "Pending"], Again)

handlePendingPhase ==
    /\ Proceeds /\ cache.phase = "Pending"
    /\ UNCHANGED world
    /\ \E base \in Attempted :
         IF clusters = "missing"
         THEN setFailedStatus(base)
         ELSE updateStatusWithRetry(base, [base EXCEPT !.phase = "Connecting"], Again)

handleConnectingPhase ==
    /\ Proceeds /\ cache.phase = "Connecting"
    /\ UNCHANGED world
    /\ \E base \in Attempted :
         IF ~distributeSSHKeys
         THEN setFailedStatus(base)
         ELSE LET ok == cache.verify => verifyConnectivity
              IN  updateStatusWithRetry(base,
                      [base EXCEPT !.verified = 0,
                                   !.phase = IF ok THEN "Connected" ELSE "Failed"],
                      After(IF ok THEN Hour ELSE FailedDelay))

handleConnectedPhase ==
    /\ Proceeds /\ cache.phase = "Connected"
    /\ UNCHANGED world
    /\ \E base \in Attempted :
         IF ~cache.verify \/ cache.verified \in 0..Hour
         THEN obj' = base /\ cache' \in {cache, obj} /\ After(Hour)
         ELSE IF ~Reachable
         THEN setFailedStatus(base)
         ELSE updateStatusWithRetry(base,
                  [base EXCEPT !.verified = 0,
                               !.phase = IF verifyConnectivity THEN "Connected"
                                             ELSE "Failed"],
                  After(Hour))

handleFailedPhase ==
    /\ Proceeds /\ cache.phase = "Failed"
    /\ UNCHANGED world
    /\ \E base \in Attempted :
         updateStatusWithRetry(base, [base EXCEPT !.phase = "Pending"], After(FailedDelay))

Reconcile ==
    \/ ReconcileTooSoon \/ ReconcilePaused \/ ReconcileNew
    \/ handlePendingPhase \/ handleConnectingPhase
    \/ handleConnectedPhase \/ handleFailedPhase

-----------------------------------------------------------------------------
\* The watch brings the cache up to date; the predicate of SetupWithManager
\* queues a request only when the generation, that is the spec, changed.
CacheSync ==
    /\ cache # obj
    /\ cache' = obj
    /\ queued' = (queued \/ cache.paused # obj.paused)
    /\ UNCHANGED <<obj, timer, world>>

\* A user pauses or resumes the mapping.
EditSpec ==
    /\ obj' = [obj EXCEPT !.paused = ~@]
    /\ UNCHANGED <<cache, queued, timer, world>>

\* A RemoteCluster or Secret the mapping refers to changed, its status included.
findClusterMappings ==
    /\ ~queued
    /\ queued' = TRUE
    /\ UNCHANGED <<obj, cache, timer, world>>

\* The clusters and the network between them change behind the controller.
WorldChanges ==
    /\ \E w \in World \ {<<clusters, links>>} : clusters' = w[1] /\ links' = w[2]
    /\ UNCHANGED <<obj, cache, queued, timer, failing>>

Outage ==
    /\ Faulty /\ failing' = ~failing
    /\ UNCHANGED <<obj, cache, queued, timer, clusters, links>>

\* The controller restarts: timers are lost and every object is listed anew.
Restart ==
    /\ cache' = obj /\ queued' = TRUE /\ timer' = Never
    /\ UNCHANGED <<obj, world>>

Tick ==
    /\ obj' = Aged(obj) /\ cache' = Aged(cache)
    /\ timer' = IF timer \in {Never, 1} THEN Never ELSE timer - 1
    /\ queued' = (queued \/ timer = 1)
    /\ UNCHANGED world

Init ==
    /\ \E v \in BOOLEAN :
         obj = [paused |-> FALSE, verify |-> v, phase |-> "", failures |-> 0,
                attempt |-> Never, verified |-> Never]
    /\ cache = obj
    /\ queued = TRUE
    /\ timer = Never
    /\ \E w \in World : clusters = w[1] /\ links = w[2]
    /\ failing = FALSE

Controller == Reconcile \/ CacheSync \/ Tick
Environment == EditSpec \/ findClusterMappings \/ WorldChanges \/ Outage \/ Restart
Next == Controller \/ Environment

Spec == Init /\ [][Next]_vars

\* The controller keeps working and time passes; and the RemoteCluster
\* controller stamps LastSyncTime every sync period while it can reach the
\* cluster, which queues the mapping.
FairSpec ==
    /\ Spec
    /\ WF_vars(Reconcile) /\ WF_vars(CacheSync) /\ WF_vars(Tick)
    /\ WF_vars(Reachable /\ findClusterMappings)

-----------------------------------------------------------------------------
\* A mapping that is neither paused nor Failed always has a wake-up coming: a
\* queued request, a timer, or a spec change whose event will queue it.  No
\* early return of Reconcile, lost answer or stale read drops the mapping.  (A
\* Failed one may have none: the delay of its first failure is that of count 0,
\* and the delay of a count past 33 may have wrapped to zero or less.)
NoLostWakeup ==
    ~obj.paused /\ ~cache.paused /\ obj.phase # "Failed" => queued \/ timer # Never

\* If from some time on the spec stays unpaused, the clusters stay ready and
\* every target can reach a source, the mapping becomes and stays Connected,
\* whatever failures came before: also so many that the delay has wrapped and
\* no timer is set, when only the stamps of the RemoteClusters wake it.
RecoversWhenHealthy ==
    <>[](~obj.paused /\ clusters = "ready" /\ verifyConnectivity /\ ~failing)
        => <>[](obj.phase = "Connected")

\* A Connected mapping that asks for verification is verified again and again:
\* an outage does not stay unnoticed for ever.
OutageNoticed ==
    <>[](~obj.paused /\ obj.verify /\ ~Reachable /\ ~failing)
        => []<>(obj.phase # "Connected")
=============================================================================
