------------------------------ MODULE CLIModes ------------------------------
(***************************************************************************)
(* The command line tool (pkg/cli): Stage, Cutover and Failback, run by an *)
(* operator in any order, over the Deployments and StatefulSets of one     *)
(* namespace and its copy.                                                 *)
(*                                                                         *)
(* A mode is a list of phases.  A phase lists the workloads of one kind,   *)
(* updates them one API call at a time, and goes on to the next kind; an   *)
(* error of a list ends the run, an error of an update is only logged.     *)
(* An update carries the resource version of the list, so it fails if the  *)
(* object changed in between.                                              *)
(***************************************************************************)
EXTENDS Integers, Sequences, FiniteSets

CONSTANTS Workload, Kind,   \* Kind[w] is "Deployment" or "StatefulSet"
          MaxReplicas,
          MaxTrouble        \* bound on the kinds of trouble a behaviour meets

VARIABLES replicas,   \* [side -> [workload -> count or Absent]]
          note,       \* the original-replicas annotation, or Absent
          wanted,     \* the count the operator last asked for
          mode,       \* "idle" or the mode that is running
          plan,       \* the phases left, <<phase, kind>> each
          todo,       \* the workloads of the current phase left to update
          outcome,    \* how the last run ended: <<mode, result>>
          trouble,    \* the kinds of trouble met so far
          singular    \* whether the source's discovery fills in singularName

vars == <<replicas, note, wanted, mode, plan, todo, outcome, trouble, singular>>
objects == <<replicas, note>>

Absent == -1
Count == 0..MaxReplicas
Side == {"source", "dest"}
Kinds == <<"Deployment", "StatefulSet">>

ASSUME CLIConstants ==
    /\ Kind \in [Workload -> {"Deployment", "StatefulSet"}]
    /\ MaxReplicas \in Nat /\ MaxTrouble \in Nat

Init ==
    /\ wanted \in [Workload -> Count]
    /\ replicas = [s \in Side |-> IF s = "source" THEN wanted
                                  ELSE [w \in Workload |-> Absent]]
    /\ note = [s \in Side |-> [w \in Workload |-> Absent]]
    /\ mode = "idle" /\ plan = <<>> /\ todo = {}
    /\ outcome = <<"none", "none">> /\ trouble = {}
    /\ singular \in BOOLEAN

-----------------------------------------------------------------------------
BothKinds(phase) == <<<<phase, Kinds[1]>>, <<phase, Kinds[2]>>>>
Migration(m) == IF m THEN <<<<"migrate", "pvc">>>> ELSE <<>>

\* A plausible bug: Cutover does not stop the statefulsets of the source.
PhasesDeploymentsOnly(m, migratePVC) ==
    CASE m = "Stage" -> BothKinds("sync") \o BothKinds("scaleDest")
      [] m = "Cutover" -> BothKinds("sync") \o BothKinds("annotate")
             \o <<<<"scaleSource", Kinds[1]>>>> \o BothKinds("restoreDest")
      [] m = "Failback" -> BothKinds("scaleDest") \o BothKinds("restoreSource")

\* A plausible bug: Stage does not copy the statefulsets.
PhasesStageDeployments(m, migratePVC) ==
    CASE m = "Stage" -> <<<<"sync", Kinds[1]>>>> \o BothKinds("scaleDest")
      [] m = "Cutover" -> BothKinds("sync") \o BothKinds("annotate")
             \o BothKinds("scaleSource") \o BothKinds("restoreDest")
      [] m = "Failback" -> BothKinds("scaleDest") \o BothKinds("restoreSource")

\* A plausible bug: the destination is started before the source is stopped.
PhasesStartFirst(m, migratePVC) ==
    CASE m = "Stage" -> BothKinds("sync") \o BothKinds("scaleDest")
      [] m = "Cutover" -> BothKinds("sync") \o BothKinds("annotate")
             \o BothKinds("restoreDest") \o BothKinds("scaleSource")
      [] m = "Failback" -> BothKinds("scaleDest") \o BothKinds("restoreSource")

\* executeStageModeSync, executeCutoverModeSync, executeFailbackModeSync.
Phases(m, migratePVC) ==
    CASE m = "Stage" ->
           BothKinds("sync") \o BothKinds("scaleDest") \o Migration(migratePVC)
      [] m = "Cutover" ->
           BothKinds("sync") \o BothKinds("annotate") \o BothKinds("scaleSource")
             \o BothKinds("restoreDest") \o Migration(migratePVC)
      [] m = "Failback" ->
           Migration(migratePVC) \o BothKinds("scaleDest") \o BothKinds("restoreSource")

\* The namespace whose workloads a phase lists.
Listed(phase) == IF phase = "scaleDest" THEN "dest" ELSE "source"

\* syncResources skips a type whose singular name is given and differs from its
\* name.  API servers fill it in since Kubernetes 1.27, and for workloads it
\* always differs.
Skipped(phase) == phase = "sync" /\ singular

Items(p) ==
    IF Skipped(p[1]) THEN {}
    ELSE {w \in Workload : Kind[w] = p[2] /\ replicas[Listed(p[1])][w] # Absent}

\* Enter the first phase of p, or end the run.
Enter(p) ==
    /\ plan' = p
    /\ todo' = IF p = <<>> THEN {} ELSE Items(Head(p))
    /\ mode' = IF p = <<>> THEN "idle" ELSE mode
    /\ outcome' = IF p = <<>> THEN <<mode, "ok">> ELSE outcome

Stop(result) ==
    /\ mode' = "idle" /\ plan' = <<>> /\ todo' = {}
    /\ outcome' = <<mode, result>>
    /\ UNCHANGED <<objects, wanted>>

Meets(kind) ==
    /\ Cardinality(trouble \cup {kind}) <= MaxTrouble
    /\ trouble' = trouble \cup {kind}

Run(m) ==
    /\ mode = "idle"
    /\ mode' = m
    /\ \E migratePVC \in BOOLEAN :
         plan' = <<<<"start", "none">>>> \o Phases(m, migratePVC)
    /\ todo' = {}
    /\ UNCHANGED <<objects, wanted, outcome, trouble>>

\* The current phase is through; the list of the next one may fail, which ends
\* the run except in syncResources, where a type that cannot be listed is skipped.
NextPhase ==
    /\ mode # "idle" /\ todo = {}
    /\ Enter(Tail(plan))
    /\ UNCHANGED <<objects, wanted, trouble>>

ListFails ==
    /\ mode # "idle" /\ todo = {} /\ Len(plan) > 1 /\ Meets("list")
    /\ IF plan[2][1] = "sync"
       THEN /\ plan' = Tail(plan)
            /\ UNCHANGED <<objects, wanted, mode, todo, outcome>>
       ELSE Stop("error")

-----------------------------------------------------------------------------
Handled(w) == todo' = todo \ {w} /\ UNCHANGED <<wanted, mode, plan, outcome>>
Done(w) == Handled(w) /\ UNCHANGED trouble
In(phase, w) == w \in todo /\ Head(plan)[1] = phase

\* syncResources and transformResource: Create, with the source's present
\* count in spec and annotation.  The test for "already exists" never succeeds,
\* so an existing copy stays as it is.
SyncItem(w) ==
    /\ In("sync", w)
    /\ IF replicas["dest"][w] = Absent
       THEN /\ replicas' = [replicas EXCEPT !["dest"][w] = replicas["source"][w]]
            /\ note' = [note EXCEPT !["dest"][w] = replicas["source"][w]]
       ELSE UNCHANGED objects
    /\ Done(w)

\* scaleDeployments with zero replicas.
ScaleItem(s, w) ==
    /\ In(IF s = "dest" THEN "scaleDest" ELSE "scaleSource", w)
    /\ replicas' = [replicas EXCEPT ![s][w] = 0]
    /\ UNCHANGED note
    /\ Done(w)

\* A plausible bug: every cutover annotates the count it finds.
AnnotateItemAgain(w) ==
    /\ In("annotate", w)
    /\ note' = [note EXCEPT !["source"][w] = replicas["source"][w]]
    /\ UNCHANGED replicas
    /\ Done(w)

\* annotateOriginalReplicas leaves an existing annotation alone.
AnnotateItem(w) ==
    /\ In("annotate", w)
    /\ note' = IF note["source"][w] # Absent THEN note
               ELSE [note EXCEPT !["source"][w] = replicas["source"][w]]
    /\ UNCHANGED replicas
    /\ Done(w)

\* restoreDeploymentScales gives the copy the count noted at the source.
RestoreDestItem(w) ==
    /\ In("restoreDest", w)
    /\ replicas' = IF note["source"][w] = Absent \/ replicas["dest"][w] = Absent
                   THEN replicas
                   ELSE [replicas EXCEPT !["dest"][w] = note["source"][w]]
    /\ UNCHANGED note
    /\ Done(w)

\* restoreOriginalReplicas; the annotation stays.
RestoreSourceItem(w) ==
    /\ In("restoreSource", w)
    /\ replicas' = IF note["source"][w] = Absent THEN replicas
                   ELSE [replicas EXCEPT !["source"][w] = note["source"][w]]
    /\ UNCHANGED note
    /\ Done(w)

\* An update that fails, or conflicts with an edit, is logged and passed over.
ItemFails(w) ==
    /\ w \in todo /\ Meets(Head(plan)[1])
    /\ UNCHANGED objects
    /\ Handled(w)

\* The process is killed.
Kill ==
    /\ mode # "idle"
    /\ Stop("killed")
    /\ UNCHANGED trouble

\* The operator gives a workload that runs at the source another count, before
\* or after a cutover has annotated it.
UserScales(w) ==
    /\ mode = "idle" /\ Meets(IF note["source"][w] = Absent THEN "rescale" ELSE "stale")
    /\ replicas["source"][w] > 0
    /\ \E n \in Count \ {0} :
         /\ replicas' = [replicas EXCEPT !["source"][w] = n]
         /\ wanted' = [wanted EXCEPT ![w] = n]
    /\ outcome' = <<"none", "none">>
    /\ UNCHANGED <<note, mode, plan, todo>>

\* The API server of the source is upgraded.
Upgrade ==
    /\ mode = "idle" /\ ~singular /\ singular' = TRUE
    /\ UNCHANGED <<objects, wanted, mode, plan, todo, outcome, trouble>>

Item(w) ==
    \/ SyncItem(w) \/ (\E s \in Side : ScaleItem(s, w)) \/ AnnotateItem(w)
    \/ RestoreDestItem(w) \/ RestoreSourceItem(w)

Tool ==
    \/ \E m \in {"Stage", "Cutover", "Failback"} : Run(m)
    \/ NextPhase \/ ListFails \/ Kill
    \/ \E w \in Workload : Item(w) \/ ItemFails(w)

Next ==
    \/ Upgrade
    \/ UNCHANGED singular /\ (Tool \/ \E w \in Workload : UserScales(w))

Spec == Init /\ [][Next]_vars

-----------------------------------------------------------------------------
\* The count the operator asked for is the source's count or its annotation,
\* however the modes are run, killed, aborted and repeated, and whichever other
\* updates fail.  This is what annotating before scaling down, and never twice,
\* is for.  There are two exceptions, in which the code loses the count: an
\* annotation that fails is logged and the workload is scaled down all the same;
\* and a workload that is rescaled while it carries the annotation of an earlier
\* cutover keeps that one.
CountKept ==
    trouble \cap {"annotate", "stale"} = {} =>
        \A w \in Workload : wanted[w] \in {replicas["source"][w], note["source"][w]}

\* A cutover starts a workload at the destination only once it is stopped at the
\* source, also after runs that were killed, unless stopping one has failed,
\* which is only logged.
HandOver ==
    [][\A w \in Workload :
          /\ "scaleSource" \notin trouble
          /\ mode = "Cutover" /\ plan # <<>> /\ Head(plan)[1] = "restoreDest"
          /\ replicas'["dest"][w] > replicas["dest"][w]
          => replicas["source"][w] = 0]_vars

\* When no call has failed and no annotated workload was rescaled, a run that
\* reports success has moved the workloads, whatever runs were killed before:
\* after a cutover every one is stopped at the source, and its copy, if it has
\* one, has the count asked for; after a failback the copy is stopped and the
\* source has it.  Only an API server that leaves singularName empty makes sure
\* of the copy: with any other the cutover creates none, stops the source and
\* still reports success.
SuccessMeansMoved ==
    trouble \subseteq {"rescale"} /\ mode = "idle" =>
        \A w \in Workload :
            /\ outcome = <<"Cutover", "ok">> =>
                  /\ replicas["source"][w] = 0
                  /\ replicas["dest"][w] \in {wanted[w], Absent}
                  /\ ~singular => replicas["dest"][w] # Absent
            /\ outcome = <<"Failback", "ok">> =>
                  replicas["dest"][w] \in {0, Absent} /\ replicas["source"][w] = wanted[w]

\* A stage that reports success, when no list, creation or scaling of copies has
\* failed, has left no copy running, and has created every one if the API server
\* leaves singularName empty.
StageCopies ==
    /\ trouble \cap {"list", "sync", "scaleDest"} = {}
    /\ mode = "idle" /\ outcome = <<"Stage", "ok">>
    => \A w \in Workload : /\ replicas["dest"][w] \in {0, Absent}
                           /\ ~singular => replicas["dest"][w] # Absent
=============================================================================
