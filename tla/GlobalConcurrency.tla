------------------------- MODULE GlobalConcurrency -------------------------
(***************************************************************************)
(* The process-wide limit on concurrent PVC syncs: GlobalConcurrencyManager *)
(* (a weighted semaphore with two counters and two gauges), its creation   *)
(* and replacement by the RemoteCluster reconciler, and the syncing        *)
(* goroutines that take a slot around SyncPVCWithNamespaceMapping.         *)
(*                                                                         *)
(* InitGlobalConcurrencyManager replaces the manager whenever a            *)
(* RemoteCluster asks for another limit, and goroutines keep the manager   *)
(* they got.  Managers are numbered in the order of their creation; the    *)
(* global one is the latest, 0 stands for nil.                             *)
(***************************************************************************)
EXTENDS Integers, Sequences, FiniteSets

CONSTANTS Syncer,       \* goroutines replicating PVCs
          Limits,       \* limits the RemoteClusters are configured with
          MaxManagers   \* bound on the number of managers ever created

ASSUME ConstantsOK ==
    /\ IsFiniteSet(Syncer)
    /\ Limits \subseteq Nat \ {0}
    /\ MaxManagers \in Nat

Manager == 1..MaxManagers

VARIABLES
    managers,       \* managers created so far, the last one being global
    limit,          \* maxWeight of each manager
    held,           \* tokens taken from each manager's semaphore
    queue,          \* waiters of each semaphore, first come first
    activeCount,
    waitingCount,
    gauge,          \* PVCSyncConcurrentCount
    gcm,            \* the manager each goroutine captured
    seen,           \* the activeCount it read under mu, to be put in the gauge
    pc

vars == <<managers, limit, held, queue, activeCount, waitingCount, gauge, gcm, seen, pc>>

\* Steps at which a goroutine has a token of its manager's semaphore.
Holding == {"granted", "publish", "sync"}

Steps == Holding \cup {"idle", "count", "acquire", "queued", "cancelled", "leave", "unpublish"}

TypeOK ==
    /\ managers \in 0..MaxManagers
    /\ limit \in [Manager -> Nat]
    /\ held \in [Manager -> Nat]
    /\ queue \in [Manager -> Seq(Syncer)]
    /\ activeCount \in [Manager -> Int]
    /\ waitingCount \in [Manager -> Int]
    /\ gauge \in Int
    /\ gcm \in [Syncer -> 0..MaxManagers]
    /\ seen \in [Syncer -> Int]
    /\ pc \in [Syncer -> Steps]

Init ==
    /\ managers = 0
    /\ limit = [m \in Manager |-> 0]
    /\ held = [m \in Manager |-> 0]
    /\ queue = [m \in Manager |-> <<>>]
    /\ activeCount = [m \in Manager |-> 0]
    /\ waitingCount = [m \in Manager |-> 0]
    /\ gauge = 0
    /\ gcm = [s \in Syncer |-> 0]
    /\ seen = [s \in Syncer |-> 0]
    /\ pc = [s \in Syncer |-> "idle"]

Goto(s, step) == pc' = [pc EXCEPT ![s] = step]

----------------------------------------------------------------------------
\* Mutant of InitGlobalConcurrencyManager: the limit is changed in place.
InitInPlace(l) ==
    /\ managers < MaxManagers
    /\ managers' = IF managers = 0 THEN 1 ELSE managers
    /\ limit' = [limit EXCEPT ![managers'] = l]
    /\ gauge' = 0
    /\ UNCHANGED <<held, queue, activeCount, waitingCount, gcm, seen, pc>>

\* Called by the RemoteCluster reconciler with that cluster's limit.  The new
\* manager starts with nobody inside, whoever still syncs under the old one.
InitGlobalConcurrencyManager(l) ==
    /\ managers < MaxManagers
    /\ managers > 0 => limit[managers] # l
    /\ managers' = managers + 1
    /\ limit' = [limit EXCEPT ![managers + 1] = l]
    /\ gauge' = 0
    /\ UNCHANGED <<held, queue, activeCount, waitingCount, gcm, seen, pc>>

\* A PVC's turn in the handler's loop.  Without a manager it syncs at once.
GetGlobalConcurrencyManager(s) ==
    /\ pc[s] = "idle"
    /\ gcm' = [gcm EXCEPT ![s] = managers]
    /\ Goto(s, IF managers = 0 THEN "sync" ELSE "count")
    /\ UNCHANGED <<managers, limit, held, queue, activeCount, waitingCount, gauge, seen>>

\* Acquire, first critical section.
CountWaiting(s) ==
    /\ pc[s] = "count"
    /\ waitingCount' = [waitingCount EXCEPT ![gcm[s]] = @ + 1]
    /\ Goto(s, "acquire")
    /\ UNCHANGED <<managers, limit, held, queue, activeCount, gauge, gcm, seen>>

\* Mutant of SemaphoreAcquire: off by one at the limit.
SemaphoreAcquireOneMore(s) ==
    /\ pc[s] = "acquire"
    /\ LET m == gcm[s] IN
       IF held[m] <= limit[m]
         THEN /\ held' = [held EXCEPT ![m] = @ + 1]
              /\ Goto(s, "granted")
              /\ UNCHANGED queue
         ELSE /\ queue' = [queue EXCEPT ![m] = Append(@, s)]
              /\ Goto(s, "queued")
              /\ UNCHANGED held
    /\ UNCHANGED <<managers, limit, activeCount, waitingCount, gauge, gcm, seen>>

\* semaphore.Acquire: a free token is taken unless others wait already.
SemaphoreAcquire(s) ==
    /\ pc[s] = "acquire"
    /\ LET m == gcm[s] IN
       IF held[m] < limit[m] /\ queue[m] = <<>>
         THEN /\ held' = [held EXCEPT ![m] = @ + 1]
              /\ Goto(s, "granted")
              /\ UNCHANGED queue
         ELSE /\ queue' = [queue EXCEPT ![m] = Append(@, s)]
              /\ Goto(s, "queued")
              /\ UNCHANGED held
    /\ UNCHANGED <<managers, limit, activeCount, waitingCount, gauge, gcm, seen>>

\* Mutant of PassOn: the token is returned and also given to the first waiter.
PassOnTwice(s, step) ==
    LET m == gcm[s] IN
    /\ held' = [held EXCEPT ![m] = @ - 1]
    /\ IF queue[m] = <<>>
         THEN Goto(s, step) /\ UNCHANGED queue
         ELSE /\ queue' = [queue EXCEPT ![m] = Tail(@)]
              /\ pc' = [pc EXCEPT ![s] = step, ![Head(queue[m])] = "granted"]

\* Mutant of PassOn: the waiters are not notified.
PassOnSilently(s, step) ==
    /\ held' = [held EXCEPT ![gcm[s]] = @ - 1]
    /\ Goto(s, step)
    /\ UNCHANGED queue

\* Mutant of PassOn: the last waiter is served first.
PassOnLast(s, step) ==
    LET m == gcm[s]
        n == Len(queue[m])
    IN IF n = 0
         THEN /\ held' = [held EXCEPT ![m] = @ - 1]
              /\ Goto(s, step)
              /\ UNCHANGED queue
         ELSE /\ queue' = [queue EXCEPT ![m] = SubSeq(@, 1, n - 1)]
              /\ pc' = [pc EXCEPT ![s] = step, ![queue[m][n]] = "granted"]
              /\ UNCHANGED held

\* s gives its token back and goes to `step'; the first waiter, if any, gets
\* the token.
PassOn(s, step) ==
    LET m == gcm[s] IN
    IF queue[m] = <<>>
      THEN /\ held' = [held EXCEPT ![m] = @ - 1]
           /\ Goto(s, step)
           /\ UNCHANGED queue
      ELSE /\ queue' = [queue EXCEPT ![m] = Tail(@)]
           /\ pc' = [pc EXCEPT ![s] = step, ![Head(queue[m])] = "granted"]
           /\ UNCHANGED held

\* q with its i-th element removed.
Without(q, i) == [j \in 1..Len(q) - 1 |-> IF j < i THEN q[j] ELSE q[j + 1]]

\* The context is cancelled while waiting: s leaves the queue, or passes on the
\* token it was given in the meantime.
SemaphoreCancel(s) ==
    /\ \/ /\ pc[s] = "queued"
          /\ \E i \in 1..Len(queue[gcm[s]]) :
                /\ queue[gcm[s]][i] = s
                /\ queue' = [queue EXCEPT ![gcm[s]] = Without(@, i)]
          /\ Goto(s, "cancelled")
          /\ UNCHANGED held
       \/ /\ pc[s] = "granted"
          /\ PassOn(s, "cancelled")
    /\ UNCHANGED <<managers, limit, activeCount, waitingCount, gauge, gcm, seen>>

\* Acquire, second critical section, with a token and without.
CountActive(s) ==
    /\ pc[s] = "granted"
    /\ waitingCount' = [waitingCount EXCEPT ![gcm[s]] = @ - 1]
    /\ activeCount' = [activeCount EXCEPT ![gcm[s]] = @ + 1]
    /\ seen' = [seen EXCEPT ![s] = activeCount[gcm[s]] + 1]
    /\ Goto(s, "publish")
    /\ UNCHANGED <<managers, limit, held, queue, gauge, gcm>>

\* Mutant of CountCancelled: a cancelled waiter is not counted out.
CountCancelledForgets(s) ==
    /\ pc[s] = "cancelled"
    /\ seen' = [seen EXCEPT ![s] = activeCount[gcm[s]]]
    /\ Goto(s, "unpublish")
    /\ UNCHANGED <<managers, limit, held, queue, activeCount, waitingCount, gauge, gcm>>

CountCancelled(s) ==
    /\ pc[s] = "cancelled"
    /\ waitingCount' = [waitingCount EXCEPT ![gcm[s]] = @ - 1]
    /\ seen' = [seen EXCEPT ![s] = activeCount[gcm[s]]]
    /\ Goto(s, "unpublish")
    /\ UNCHANGED <<managers, limit, held, queue, activeCount, gauge, gcm>>

\* The gauge is set after mu is unlocked, to the count read under it.
SetGauge(s) ==
    /\ pc[s] \in {"publish", "unpublish"}
    /\ gauge' = seen[s]
    /\ seen' = [seen EXCEPT ![s] = 0]
    /\ gcm' = [gcm EXCEPT ![s] = IF pc[s] = "publish" THEN @ ELSE 0]
    /\ Goto(s, IF pc[s] = "publish" THEN "sync" ELSE "idle")
    /\ UNCHANGED <<managers, limit, held, queue, activeCount, waitingCount>>

\* The sync returns: Release first gives the token back, ...
Release(s) ==
    /\ pc[s] = "sync"
    /\ IF gcm[s] = 0 THEN Goto(s, "idle") /\ UNCHANGED <<held, queue>>
                     ELSE PassOn(s, "leave")
    /\ UNCHANGED <<managers, limit, activeCount, waitingCount, gauge, gcm, seen>>

\* ... then counts itself out.
CountLeaving(s) ==
    /\ pc[s] = "leave"
    /\ activeCount' = [activeCount EXCEPT ![gcm[s]] = @ - 1]
    /\ seen' = [seen EXCEPT ![s] = activeCount[gcm[s]] - 1]
    /\ Goto(s, "unpublish")
    /\ UNCHANGED <<managers, limit, held, queue, waitingCount, gauge, gcm>>

----------------------------------------------------------------------------
\* One step of goroutine s; only a cancellation is not its own doing.
Run(s) ==
    \/ GetGlobalConcurrencyManager(s)
    \/ CountWaiting(s)
    \/ SemaphoreAcquire(s)
    \/ CountActive(s)
    \/ CountCancelled(s)
    \/ SetGauge(s)
    \/ Release(s)
    \/ CountLeaving(s)

Next ==
    \/ \E l \in Limits : InitGlobalConcurrencyManager(l)
    \/ \E s \in Syncer : Run(s) \/ SemaphoreCancel(s)

Spec == Init /\ [][Next]_vars

\* Goroutines are scheduled and a sync ends (rsync has a 24-hour timeout).
FairSpec == Spec /\ \A s \in Syncer : WF_vars(Run(s))

----------------------------------------------------------------------------
\* The goroutines with a token of manager m.
Inside(m) == {s \in Syncer : gcm[s] = m /\ pc[s] \in Holding}

\* Acquire and Release keep each manager's promise: no more of its goroutines
\* hold a slot than its limit, and tokens are neither leaked nor made up,
\* however cancellations, grants and replacements of the manager interleave.
SlotsExact ==
    \A m \in 1..managers : held[m] = Cardinality(Inside(m)) /\ held[m] <= limit[m]

\* The counters GetStats reports are those of the goroutines that have counted
\* themselves in and not yet out.
CountersExact ==
    \A m \in Manager :
        /\ waitingCount[m] = Cardinality({s \in Syncer : gcm[s] = m /\
               pc[s] \in {"acquire", "queued", "granted", "cancelled"}})
        /\ activeCount[m] = Cardinality({s \in Syncer : gcm[s] = m /\
               pc[s] \in {"publish", "sync", "leave"}})

\* The goroutines that have asked manager m for a token and have none.
Asking(m) == {s \in Syncer : gcm[s] = m /\ pc[s] \in {"acquire", "queued"}}

Slots(m) == INSTANCE SyncSlots WITH
                limit <- limit[m], waiting <- Asking(m), inside <- Inside(m)

\* Each manager implements SyncSlots: Acquire, cancellation and Release are, seen
\* from outside, askings, entries, hand-overs and leavings within the limit.
\* Written as one formula: all start in an initial state, and a step is, for
\* every manager, a step of SyncSlots or leaves its three variables unchanged.
ManagersAreSlots ==
    /\ \A m \in Manager : Slots(m)!Init
    /\ [][\A m \in Manager : Slots(m)!Next \/ UNCHANGED Slots(m)!vars]_vars

\* Nobody waits while a slot is free, even at a manager that was replaced.
NoIdleSlot == \A m \in 1..managers : queue[m] # <<>> => held[m] = limit[m]

\* Every goroutine that waits for a slot eventually stops waiting.
QueueServed == \A s \in Syncer : pc[s] = "queued" ~> pc[s] # "queued"
=============================================================================
