--------------------------- MODULE ContinuousMode ---------------------------
(***************************************************************************)
(* ReconcileContinuous (modes/reconciler.go) and the WatchManager          *)
(* (watch/watch.go), around the passes of Syncer, for a mode handler that  *)
(* has its clients.                                                        *)
(*                                                                         *)
(* Every reconcile makes a mode handler with a watch manager of its own,   *)
(* so it always finds nothing watched and starts another set of            *)
(* goroutines: an informer for each type in spec.resourceTypes, and the    *)
(* background loop if an interval is given.  No set is ever stopped.  An   *)
(* informer hands its events to the handler one after another; the         *)
(* informers and the loops of all sets run side by side.                   *)
(*                                                                         *)
(* The workers are the goroutines in the order in which they are started.  *)
(* Their number bounds the sets.  The status that the handlers write is    *)
(* left out: it decides nothing here but that it wakes the reconcile.      *)
(***************************************************************************)
EXTENDS Syncer

CONSTANTS MaxWorkers,  \* bound on the goroutines that are started
          Specs        \* what the user gives as spec.resourceTypes, and whether
                       \* with spec.continuous.backgroundSyncInterval

VARIABLES jobs,   \* what the goroutines started so far are, in their order
          events  \* the events each informer has yet to hand out

watch == <<jobs, events>>
vars == <<syncVars, watch>>

Started(w) == w <= Len(jobs)
Informer(w) == Started(w) /\ jobs[w] # "background"
Loop(w) == Started(w) /\ jobs[w] = "background"

ASSUME ContinuousConstants ==
    /\ MaxWorkers \in Nat /\ Workers = 1 .. MaxWorkers
    /\ Specs \subseteq [types : Seq(Kinds), background : BOOLEAN]

Init ==
    /\ SyncInit
    /\ jobs = <<>> /\ events = [w \in Workers |-> 0]

\* getResourceGVRs: an empty list stands for every type in a pass, but for none
\* here.
Set(s) == s.types \o (IF s.background THEN <<"background">> ELSE <<>>)

\* ReconcileContinuous, for the specification as it is: another set.  An informer
\* that has listed reports every object as added.  The reconcile is called again
\* after an hour, and whenever a handler has written the status, as the controller
\* has no predicate: it may come at any time.
Reconcile ==
    \E s \in Specs :
        /\ Len(jobs) + Len(Set(s)) <= MaxWorkers
        /\ jobs' = jobs \o Set(s)
        /\ events' = [w \in Workers |->
                         LET n == w - Len(jobs) IN
                         IF n \in DOMAIN s.types /\ src[s.types[n]].v # 0 THEN 1 ELSE events[w]]
        /\ UNCHANGED syncVars

\* An added, updated or deleted object of a watched type is an event for every
\* set.
SourceChanges(k) ==
    /\ EditSource(k)
    /\ events' = [w \in Workers |->
                     IF Started(w) /\ jobs[w] = k THEN events[w] + 1 ELSE events[w]]
    /\ UNCHANGED jobs

DestinationChanges ==
    /\ DeleteNamespace \/ \E k \in Kinds : EditDest(k)
    /\ UNCHANGED watch

Starts(w) == Goes(w, NewPass)

\* The handler is given an event: the status says Running before the sync
\* begins.  When that cannot be written, because a call fails or five attempts
\* met with the writes of others, the event is dropped.
Handle(w) ==
    /\ Informer(w) /\ pass[w].pc = "idle" /\ events[w] > 0
    /\ events' = [events EXCEPT ![w] = @ - 1]
    /\ Starts(w) \/ UNCHANGED pass
    /\ UNCHANGED <<objects, edits, faults, jobs>>

\* The ticker of StartBackgroundSync; ticks during a sync are dropped.
Tick(w) ==
    /\ Loop(w) /\ pass[w].pc = "idle"
    /\ Starts(w)
    /\ UNCHANGED <<objects, edits, faults, watch>>

\* A plausible bug: the loop ends with the first sync that fails.
ReturnsFromLoop(w) ==
    /\ pass[w].pc = "done" \/ (pass[w].pc = "failed" /\ ~Loop(w))
    /\ Goes(w, IdlePass)
    /\ UNCHANGED <<objects, edits, faults, watch>>

\* The handler records the outcome in the status and waits out the backoff of a
\* failure; the loop logs a failure.  Neither syncs again.
Returns(w) ==
    /\ pass[w].pc \in {"done", "failed"}
    /\ Goes(w, IdlePass)
    /\ UNCHANGED <<objects, edits, faults, watch>>

\* The process dies with its goroutines; the next one reconciles the mapping.
Crash ==
    /\ jobs # <<>> /\ Outage(TRUE)
    /\ jobs' = <<>> /\ events' = [w \in Workers |-> 0]
    /\ pass' = [w \in Workers |-> IdlePass]
    /\ UNCHANGED objects

Works(w) ==
    \/ PassStep(w) /\ UNCHANGED watch
    \/ Handle(w) \/ Tick(w) \/ Returns(w)

Next ==
    \/ Reconcile \/ DestinationChanges \/ Crash
    \/ \E k \in Kinds : SourceChanges(k)
    \/ \E w \in Workers : Works(w)

Spec == Init /\ [][Next]_vars

\* The controller reconciles what is queued, and goroutines are scheduled.
FairSpec ==
    /\ Spec /\ WF_vars(Reconcile)
    /\ \A w \in Workers : WF_vars(Works(w))

-----------------------------------------------------------------------------
LoopRuns == \E w \in Workers : Loop(w)

\* The API server refuses to turn the copy of type number i into what is wanted.
Refuses(i) ==
    LET k == Types[i] IN
    k \in Kinds /\ ~Skipped(src[k]) /\ dst[k].v # 0 /\ dst[k].fixed # src[k].fixed

\* The passes get past the first n types.
Passable(n) == \A i \in 1 .. n : ~Refuses(i)

\* While a background loop runs, however many there are and whatever happened to
\* the passes, the destination ends up with the objects of the source as the
\* mapping wants them, type by type up to the first whose update the API server
\* refuses: a pass that listed before an edit and wrote after a newer pass, one
\* that lost a conflict, and one that was cut off are all made up for.  A refused
\* update ends every pass, so the types behind it are never reached.
Converges ==
    <>[]LoopRuns =>
        <>[](\A n \in DOMAIN Types : Types[n] \in Kinds /\ Passable(n) => UpToDate(Types[n]))

\* Two passes copy the claim at once.
Crowded == \E w \in Workers : pass[w].pc = "data" /\ Contended(w)

\* A data copy that failed, found the claim attached nowhere or was cut off is
\* made up for too, provided that from some time on no two loops copy the claim at
\* once: those that do may cut each other off for ever.
DataArrives ==
    <>[](LoopRuns /\ ~Crowded) =>
        <>[](SyncData /\ ~Skipped(src[Claim]) /\ FindPVCNode /\ Passable(Len(Types)) => volume)
=============================================================================
