----------------------- MODULE NamespaceMappingProofs -----------------------
(***************************************************************************)
(* Proofs about the NamespaceMapping controller, for any period, number of *)
(* retries, backoff and combination of failures and edits.                 *)
(***************************************************************************)
EXTENDS NamespaceMapping, TLAPS

RetryStatus == [left : Int, backoff : Int]

Object == [phase : Phases, next : Int, retry : RetryStatus, syncNow : BOOLEAN,
           paused : BOOLEAN, finalizer : BOOLEAN, deleting : BOOLEAN, stamp : {0, 1}]

Types ==
    /\ obj \in Object /\ cache \in Object /\ local \in RetryStatus
    /\ timer \in {None} \cup (Nat \ {0})

\* The finalizer stays once it is there, so the cache never claims one that is
\* not; and an object that is gone leaves a cached copy that starts no work.
FinalizerInv ==
    /\ cache.finalizer => obj.finalizer
    /\ obj.phase = "gone" => cache.phase = "gone" \/ cache.deleting \/ ~cache.finalizer
    /\ pc # "idle" => obj.finalizer /\ obj.phase # "gone"

\* What the cached copy asks for, and what will bring it back: the last of the
\* three is a write of the controller itself that the cache has not seen yet.
Waits == (mode = "Scheduled" \/ cache.syncNow) /\ ~cache.paused /\ cache.phase # "gone"
Coming == queued \/ timer # None \/ cache.stamp # obj.stamp

\* An edit that is undone before the cache learns of it brings nothing, so the
\* wake-up must be there for the cached copy, not only for the stored one.
WakeupInv == pc \in {"idle", "pend", "reset"} /\ Waits => Coming

Inv == Types /\ FinalizerInv /\ WakeupInv

\* Waits in ticks are integers.
LEMMA TickTypes == None \in Int /\ Period \in Int /\ Period > 0
BY NamespaceConstants DEF None

\* Initial states satisfy the invariant.
LEMMA InitInv == Init => Inv
<1> SUFFICES ASSUME Init PROVE Inv
  OBVIOUS
<1>1. NoRetry \in RetryStatus
  BY DEF NoRetry, RetryStatus, None
<1>2. Types
  <2>1. obj \in Object
    BY <1>1, TickTypes DEF Init, Object, Phases
  <2> QED
    BY <1>1, <2>1 DEF Init, Types
<1>3. FinalizerInv /\ WakeupInv
  BY DEF Init, FinalizerInv, WakeupInv, Coming
<1> QED
  BY <1>2, <1>3 DEF Inv

-----------------------------------------------------------------------------
(* The copies the reconcile writes. *)

\* What a retry writes to the status is well typed.
LEMMA RetryTypes ==
    /\ NoRetry \in RetryStatus
    /\ \A r \in RetryStatus : NextRetry(r) \in RetryStatus
BY NamespaceConstants DEF NoRetry, RetryStatus, None, NextRetry, Least

\* A write changes the stamp and what it sets, and leaves the cache behind.
LEMMA WrittenEffect ==
    ASSUME NEW o \in Object, Written(o)
    PROVE  /\ obj' \in Object /\ cache' = cache
           /\ obj'.phase = o.phase /\ obj'.finalizer = o.finalizer
           /\ obj'.stamp # o.stamp
BY DEF Written, Object

\* The delay After and Taken set is a positive number of ticks.
LEMMA TimerType ==
    ASSUME Types, NEW d \in Int,
           timer' = IF d <= 0 THEN timer
                    ELSE IF timer = None THEN d ELSE Least(timer, d)
    PROVE  /\ timer' \in {None} \cup (Nat \ {0})
           /\ d > 0 => timer' # None
           /\ timer # None => timer' # None
BY DEF Types, None, Least

\* A write of the reconcile: accepted for the current copy, it changes the stamp,
\* keeps the finalizer, and makes the object go only at the end of a deletion.
Stores ==
    /\ Current /\ obj' \in Object /\ obj'.stamp # obj.stamp
    /\ obj.finalizer => obj'.finalizer
    /\ obj'.phase = "gone" => pc = "idle" /\ cache.deleting

\* What the four kinds of write do with a copy made from the stored object.
LEMMA WriteEffect ==
    ASSUME Types, NEW o \in Object, o.stamp = obj.stamp, obj.finalizer => o.finalizer,
           o.phase = "gone" => obj.phase = "gone" \/ (pc = "idle" /\ cache.deleting),
           \/ updateStatus(o) \/ updateStatusFails(o) \/ Update(o) \/ UpdateFails(o)
    PROVE  /\ cache' = cache
           /\ obj' = obj \/ Stores
           /\ updateStatus(o) \/ Update(o) => Stores
BY WrittenEffect DEF updateStatus, updateStatusFails, Update, UpdateFails, Current, Stores,
   Types

\* Whatever a reconcile writes is such a write, and leaves the cache alone.
LEMMA ReconcileWrites ==
    ASSUME Types, Reconcile
    PROVE  cache' = cache /\ (obj' = obj \/ Stores)
<1> USE DEF Types
<1>1. CASE \/ ReconcileNothing \/ SkipUntilNext \/ ManualWaits \/ ManualResets
           \/ DecideToSync \/ syncResources
  BY <1>1 DEF ReconcileNothing, SkipUntilNext, ManualWaits, ManualResets, DecideToSync,
     Proceed, syncResources
<1>2. CASE handleDeletion
  <2> DEFINE o == [obj EXCEPT !.phase = "gone"]
  <2>1. o \in Object /\ o.stamp = obj.stamp /\ o.finalizer = obj.finalizer
    BY DEF Object, Phases
  <2>2. pc = "idle" /\ cache.deleting /\ (Update(o) \/ UpdateFails(o))
    BY <1>2 DEF handleDeletion, Begins
  <2> HIDE DEF o
  <2> QED
    BY <2>1, <2>2, WriteEffect
<1>3. CASE AddFinalizer
  <2> DEFINE o == [obj EXCEPT !.finalizer = TRUE]
  <2>1. o \in Object /\ o.stamp = obj.stamp /\ o.finalizer /\ o.phase = obj.phase
    BY DEF Object
  <2>2. Update(o) \/ UpdateFails(o)
    BY <1>3 DEF AddFinalizer
  <2> HIDE DEF o
  <2> QED
    BY <2>1, <2>2, WriteEffect
<1>4. CASE SetPending
  <2> DEFINE o == Pended(obj)
  <2>1. /\ o \in Object /\ o.stamp = obj.stamp /\ o.finalizer = obj.finalizer
        /\ o.phase = "Pending"
    <3>1. CASE pc = "pend"
      BY <3>1 DEF Pended, Object, Phases
    <3>2. CASE pc # "pend"
      BY <3>2, RetryTypes, TickTypes DEF Pended, Object, Phases
    <3> QED
      BY <3>1, <3>2
  <2>2. updateStatus(o) \/ updateStatusFails(o) \/ UNCHANGED <<obj, cache>>
    BY <1>4 DEF SetPending, StatusUnchanged
  <2> HIDE DEF o
  <2> QED
    BY <2>1, <2>2, WriteEffect
<1>5. CASE MarkRunning
  <2> DEFINE o == [obj EXCEPT !.phase = "Running"]
  <2>1. /\ o \in Object /\ o.stamp = obj.stamp /\ o.finalizer = obj.finalizer
        /\ o.phase = "Running"
    BY DEF Object, Phases
  <2>2. updateStatus(o) \/ updateStatusFails(o)
    BY <1>5 DEF MarkRunning
  <2> HIDE DEF o
  <2> QED
    BY <2>1, <2>2, WriteEffect
<1>6. CASE resetRetryStatus
  <2> DEFINE o == [obj EXCEPT !.retry = NoRetry]
  <2>1. /\ o \in Object /\ o.stamp = obj.stamp /\ o.finalizer = obj.finalizer
        /\ o.phase = obj.phase
    BY RetryTypes DEF Object
  <2>2. updateStatus(o) \/ updateStatusFails(o) \/ UNCHANGED <<obj, cache>>
    BY <1>6 DEF resetRetryStatus
  <2> HIDE DEF o
  <2> QED
    BY <2>1, <2>2, WriteEffect
<1>7. CASE CompleteScheduled
  <2> DEFINE o == [obj EXCEPT !.phase = "Completed", !.next = Period]
  <2>1. /\ o \in Object /\ o.stamp = obj.stamp /\ o.finalizer = obj.finalizer
        /\ o.phase = "Completed"
    BY TickTypes DEF Object, Phases
  <2>2. updateStatus(o) \/ updateStatusFails(o)
    BY <1>7 DEF CompleteScheduled
  <2> HIDE DEF o
  <2> QED
    BY <2>1, <2>2, WriteEffect
<1>8. CASE CompleteManual
  <2> DEFINE o == [obj EXCEPT !.phase = "Completed"]
  <2>1. /\ o \in Object /\ o.stamp = obj.stamp /\ o.finalizer = obj.finalizer
        /\ o.phase = "Completed"
    BY DEF Object, Phases
  <2>2. updateStatus(o) \/ updateStatusFails(o)
    BY <1>8 DEF CompleteManual
  <2> HIDE DEF o
  <2> QED
    BY <2>1, <2>2, WriteEffect
<1>9. CASE handleRetry
  <2> DEFINE o == [obj EXCEPT !.phase = "Failed", !.retry = NextRetry(local)]
  <2>1. /\ o \in Object /\ o.stamp = obj.stamp /\ o.finalizer = obj.finalizer
        /\ o.phase = "Failed"
    BY RetryTypes DEF Object, Phases
  <2>2. updateStatus(o) \/ updateStatusFails(o)
    BY <1>9 DEF handleRetry
  <2> HIDE DEF o
  <2> QED
    BY <2>1, <2>2, WriteEffect
<1> QED
  BY <1>1, <1>2, <1>3, <1>4, <1>5, <1>6, <1>7, <1>8, <1>9 DEF Reconcile

-----------------------------------------------------------------------------
(* What a reconcile leaves to wake the mapping. *)

\* How one step of a reconcile ends: it goes on with its work or there is a
\* wake-up, the cached copy asks for none, or it left the queue as it was.
LEMMA ReconcileEnds ==
    ASSUME Types, Reconcile
    PROVE  /\ timer' \in {None} \cup (Nat \ {0})
           /\ local' \in RetryStatus /\ mode' = mode
           /\ \/ pc' \notin {"idle", "pend", "reset"}
              \/ queued' \/ timer' # None \/ Stores \/ ~Waits
              \/ /\ pc \in {"pend", "reset"} /\ UNCHANGED queued
                 /\ timer # None => timer' # None
           /\ pc = "idle" /\ pc' # "idle" => Works
<1> USE DEF Types
<1>1. CASE ReconcileNothing
  <2>1. timer' = timer
    BY <1>1 DEF ReconcileNothing, Taken
  <2>2. (~cache.paused /\ cache.phase = "gone") \/ cache.paused
    BY <1>1 DEF ReconcileNothing, Object
  <2> QED
    BY <1>1, <2>1, <2>2 DEF ReconcileNothing, Taken, given, Waits
<1>2. CASE handleDeletion
  <2> DEFINE o == [obj EXCEPT !.phase = "gone"]
  <2>1. /\ o \in Object /\ o.stamp = obj.stamp /\ o.finalizer = obj.finalizer
        /\ pc = "idle" /\ cache.deleting
    BY <1>2 DEF Object, Phases, handleDeletion, Begins
  <2>2. \/ Update(o) /\ Taken(0)
        \/ UpdateFails(o) /\ Error
    BY <1>2 DEF handleDeletion
  <2>3. pc' = "idle" /\ UNCHANGED <<timer, local, mode>> /\ (queued' \/ Update(o))
    BY <1>2, <2>2 DEF handleDeletion, Taken, Error, given
  <2> HIDE DEF o
  <2>4. queued' \/ Stores
    BY <2>1, <2>3, WriteEffect
  <2> QED
    BY <2>3, <2>4
<1>3. CASE AddFinalizer
  <2> DEFINE o == [obj EXCEPT !.finalizer = TRUE]
  <2>1. o \in Object /\ o.stamp = obj.stamp /\ o.finalizer /\ o.phase = obj.phase
    BY DEF Object
  <2>2. \/ Update(o) /\ Taken(0)
        \/ UpdateFails(o) /\ Error
    BY <1>3 DEF AddFinalizer
  <2>3. pc' = "idle" /\ UNCHANGED <<timer, local, mode>> /\ (queued' \/ Update(o))
    BY <1>3, <2>2 DEF AddFinalizer, Taken, Error, given
  <2> HIDE DEF o
  <2>4. queued' \/ Stores
    BY <2>1, <2>3, WriteEffect
  <2> QED
    BY <2>3, <2>4
<1>4. CASE SkipUntilNext
  <2>1. cache.next \in Int /\ cache.next > 0
    BY <1>4 DEF SkipUntilNext, Object
  <2>2. timer' = IF cache.next <= 0 THEN timer
                 ELSE IF timer = None THEN cache.next ELSE Least(timer, cache.next)
    BY <1>4 DEF SkipUntilNext, Taken
  <2>3. timer' \in {None} \cup (Nat \ {0}) /\ timer' # None
    BY <2>1, <2>2, TimerType
  <2> QED
    BY <1>4, <2>3 DEF SkipUntilNext, Taken, given
<1>5. CASE ManualWaits
  BY <1>5 DEF ManualWaits, Taken, given, Waits
<1>6. CASE ManualResets
  BY <1>6 DEF ManualResets, Proceed, given, Waits
<1>7. CASE SetPending
  <2>1. timer' = timer /\ local' = local /\ mode' = mode /\ pc' = "idle"
    BY <1>7 DEF SetPending, After, Error, given
  <2>2. queued' \/ UNCHANGED queued
    BY <1>7 DEF SetPending, After, Error
  <2>3. pc \in {"pend", "reset"}
    BY <1>7 DEF SetPending
  <2> QED
    BY <2>1, <2>2, <2>3
<1>8. CASE DecideToSync
  BY <1>8 DEF DecideToSync, Proceed, given
<1>9. CASE MarkRunning
  <2>1. obj.retry \in RetryStatus
    BY DEF Object
  <2> QED
    BY <1>9, <2>1 DEF MarkRunning, Error, given
<1>10. CASE syncResources \/ resetRetryStatus
  BY <1>10 DEF syncResources, resetRetryStatus, given
<1>11. CASE CompleteScheduled
  <2>1. pc' = "idle" /\ local' = local /\ mode' = mode /\ pc # "idle"
    BY <1>11 DEF CompleteScheduled, After, Error, given
  <2>2. CASE After(Period)
    <3>1. timer' = IF Period <= 0 THEN timer
                   ELSE IF timer = None THEN Period ELSE Least(timer, Period)
      BY <2>2 DEF After
    <3>2. timer' \in {None} \cup (Nat \ {0}) /\ timer' # None
      BY <3>1, TickTypes, TimerType
    <3> QED
      BY <2>1, <3>2
  <2>3. CASE Error
    BY <2>1, <2>3 DEF Error
  <2> QED
    BY <1>11, <2>2, <2>3 DEF CompleteScheduled
<1>12. CASE CompleteManual
  <2> DEFINE o == [obj EXCEPT !.phase = "Completed"]
  <2>1. /\ o \in Object /\ o.stamp = obj.stamp /\ o.finalizer = obj.finalizer
        /\ o.phase = "Completed"
    BY DEF Object, Phases
  <2>2. \/ updateStatus(o) /\ After(0)
        \/ updateStatusFails(o) /\ Error
    BY <1>12 DEF CompleteManual
  <2>3. /\ pc' = "idle" /\ UNCHANGED <<timer, local, mode>> /\ pc # "idle"
        /\ queued' \/ updateStatus(o)
    BY <1>12, <2>2 DEF CompleteManual, After, Error, given
  <2> HIDE DEF o
  <2>4. queued' \/ Stores
    BY <2>1, <2>3, WriteEffect
  <2> QED
    BY <2>3, <2>4
<1>13. CASE handleRetry
  <2> DEFINE r == NextRetry(local)
             o == [obj EXCEPT !.phase = "Failed", !.retry = r]
  <2>1. /\ o \in Object /\ o.stamp = obj.stamp /\ o.finalizer = obj.finalizer
        /\ o.phase = "Failed" /\ r \in RetryStatus
    BY RetryTypes DEF Object, Phases
  <2>2. \/ updateStatus(o) /\ Retried(r)
        \/ updateStatusFails(o) /\ Error
    BY <1>13 DEF handleRetry
  <2>3. local' = local /\ pc # "idle"
    BY <1>13 DEF handleRetry
  <2> HIDE DEF o, r
  <2>4. CASE Error
    BY <2>3, <2>4 DEF Error, given
  <2>5. CASE updateStatus(o) /\ After(r.backoff)
    <3>1. r.backoff \in Int
      BY <2>1 DEF RetryStatus
    <3>2. timer' \in {None} \cup (Nat \ {0})
      BY <2>5, <3>1, TimerType DEF After
    <3>3. Stores
      BY <2>1, <2>5, WriteEffect
    <3> QED
      BY <2>3, <2>5, <3>2, <3>3 DEF After, given
  <2> QED
    BY <2>2, <2>4, <2>5 DEF Retried
<1> QED
  BY <1>1, <1>2, <1>3, <1>4, <1>5, <1>6, <1>7, <1>8, <1>9, <1>10, <1>11, <1>12, <1>13
     DEF Reconcile

-----------------------------------------------------------------------------
(* Time passes: nothing but the time of the next run changes. *)

\* Timers stay timers as time passes.
LEMMA TickedType ==
    ASSUME NEW o \in Object
    PROVE  /\ Ticked(o) \in Object /\ Ticked(o).phase = o.phase
           /\ Ticked(o).finalizer = o.finalizer /\ Ticked(o).deleting = o.deleting
           /\ Ticked(o).syncNow = o.syncNow /\ Ticked(o).paused = o.paused
           /\ Ticked(o).stamp = o.stamp
BY DEF Ticked, Sooner, Object

\* Users change the stored object only, and never its stamp or its finalizer.
LEMMA EditType ==
    ASSUME Types, Pause \/ Annotate \/ Delete
    PROVE  /\ obj' \in Object /\ obj'.stamp = obj.stamp /\ obj'.finalizer = obj.finalizer
           /\ obj'.phase # obj.phase => obj'.phase = "gone" /\ ~obj.finalizer
           /\ UNCHANGED <<cache, queued, timer, pc, local, mode>>
<1>1. CASE Pause
  BY <1>1 DEF Pause, Types, Object, given
<1>2. CASE Annotate
  BY <1>2 DEF Annotate, Types, Object, given
<1>3. CASE Delete
  BY <1>3 DEF Delete, Types, Object, Phases, given
<1> QED
  BY <1>1, <1>2, <1>3

\* Every step keeps the types.
LEMMA TypesStep ==
    ASSUME Types, [Next]_vars
    PROVE  Types'
<1>1. CASE Reconcile
  BY <1>1, ReconcileWrites, ReconcileEnds DEF Types, Stores
<1>2. CASE CacheSync
  BY <1>2 DEF CacheSync, Types
<1>3. CASE Pause \/ Annotate \/ Delete
  BY <1>3, EditType DEF Types
<1>4. CASE Tick
  <2>1. timer' \in {None} \cup (Nat \ {0})
    BY <1>4 DEF Tick, Types, None
  <2> QED
    BY <1>4, <2>1, TickedType DEF Tick, Types
<1>5. CASE Outage \/ ClustersChange \/ UNCHANGED vars
  BY <1>5 DEF Outage, ClustersChange, vars, Types
<1> QED
  BY <1>1, <1>2, <1>3, <1>4, <1>5 DEF Next

\* Every step keeps the finalizer on what is reconciled.
LEMMA FinalizerStep ==
    ASSUME Types, FinalizerInv, [Next]_vars
    PROVE  FinalizerInv'
<1>1. CASE Reconcile
  <2>1. cache' = cache /\ (obj' = obj \/ Stores)
    BY <1>1, ReconcileWrites
  <2>2. pc' # "idle" => pc # "idle" \/ Works
    BY <1>1, ReconcileEnds
  <2>3. cache.finalizer => obj'.finalizer
    BY <2>1 DEF FinalizerInv, Stores
  <2>4. obj'.phase = "gone" => cache.phase = "gone" \/ cache.deleting \/ ~cache.finalizer
    BY <2>1 DEF FinalizerInv, Stores
  <2>5. ASSUME pc' # "idle"
        PROVE  obj'.finalizer /\ obj'.phase # "gone"
    <3>1. CASE Works
      BY <2>1, <2>3, <2>4, <3>1 DEF Works, Live
    <3>2. CASE pc # "idle"
      BY <2>1, <3>2 DEF FinalizerInv, Stores
    <3> QED
      BY <2>2, <2>5, <3>1, <3>2
  <2> QED
    BY <2>1, <2>3, <2>4, <2>5 DEF FinalizerInv
<1>2. CASE CacheSync
  BY <1>2 DEF CacheSync, FinalizerInv
<1>3. CASE Pause \/ Annotate \/ Delete
  BY <1>3, EditType DEF FinalizerInv
<1>4. CASE Tick
  BY <1>4, TickedType DEF Tick, Types, FinalizerInv
<1>5. CASE Outage \/ ClustersChange \/ UNCHANGED vars
  BY <1>5 DEF Outage, ClustersChange, vars, FinalizerInv
<1> QED
  BY <1>1, <1>2, <1>3, <1>4, <1>5 DEF Next

\* Every step leaves a waiting mapping with something that will wake it.
LEMMA WakeupStep ==
    ASSUME Types, WakeupInv, [Next]_vars
    PROVE  WakeupInv'
<1>1. CASE Reconcile
  <2> SUFFICES ASSUME pc' \in {"idle", "pend", "reset"}, Waits'
               PROVE  Coming'
    BY DEF WakeupInv
  <2>1. cache' = cache /\ (obj' = obj \/ Stores)
    BY <1>1, ReconcileWrites
  <2>2. Waits
    BY <1>1, <2>1, ReconcileEnds DEF Waits
  <2>3. CASE Stores
    BY <2>1, <2>3 DEF Stores, Current, Coming
  <2>4. CASE queued' \/ timer' # None
    BY <2>4 DEF Coming
  <2>5. CASE /\ obj' = obj
             /\ pc \in {"pend", "reset"} /\ UNCHANGED queued
             /\ timer # None => timer' # None
    BY <2>1, <2>2, <2>5 DEF WakeupInv, Coming
  <2> QED
    BY <1>1, <2>1, <2>2, <2>3, <2>4, <2>5, ReconcileEnds
<1>2. CASE CacheSync
  BY <1>2 DEF CacheSync, WakeupInv, Coming
<1>3. CASE Pause \/ Annotate \/ Delete
  BY <1>3, EditType DEF WakeupInv, Waits, Coming
<1>4. CASE Tick
  <2>1. Waits' = Waits /\ pc' = pc
    BY <1>4, TickedType DEF Tick, Types, Waits, given
  <2>2. Coming => Coming'
    <3>1. cache'.stamp = cache.stamp /\ obj'.stamp = obj.stamp
      BY <1>4, TickedType DEF Tick, Types
    <3>2. timer # None /\ timer # 1 => timer' # None
      BY <1>4 DEF Tick, Types, None
    <3>3. queued \/ timer = 1 => queued'
      BY <1>4, Zenon DEF Tick
    <3> QED
      BY <3>1, <3>2, <3>3 DEF Coming
  <2> QED
    BY <2>1, <2>2 DEF WakeupInv
<1>5. CASE Outage \/ ClustersChange \/ UNCHANGED vars
  BY <1>5 DEF Outage, ClustersChange, vars, WakeupInv, Waits, Coming
<1> QED
  BY <1>1, <1>2, <1>3, <1>4, <1>5 DEF Next

\* The invariant is inductive.
LEMMA InvHolds == Spec => []Inv
<1>1. Inv /\ [Next]_vars => Inv'
  BY TypesStep, FinalizerStep, WakeupStep DEF Inv
<1> QED
  BY <1>1, InitInv, PTL DEF Spec

\* No mapping is forgotten: although most returns of the reconcile ask for no
\* wake-up, a mapping with something to do has one coming.
THEOREM Wakeups == Spec => []NoLostWakeup
<1>1. Inv => NoLostWakeup
  BY DEF Inv, WakeupInv, Waits, Coming, NoLostWakeup
<1> QED
  BY <1>1, InvHolds, PTL

\* The finalizer holds a deleted object until the reconcile at work has ended,
\* so no sync runs or is accounted for on an object that is gone.
THEOREM DeletionWaits == Spec => []NoSyncAfterDeletion
<1>1. Inv => NoSyncAfterDeletion
  BY DEF Inv, FinalizerInv, NoSyncAfterDeletion
<1> QED
  BY <1>1, InvHolds, PTL
=============================================================================
