------------------------------- MODULE Syncer -------------------------------
(***************************************************************************)
(* The resource syncer (pkg/controllers/syncer): SyncNamespaceResources    *)
(* copies the objects of a source namespace into a destination namespace.  *)
(*                                                                         *)
(* A pass works through the resource types in order.  For each it lists    *)
(* the source, then gets and creates or updates every object with the      *)
(* version it has just read; the first error ends the pass.  Several       *)
(* goroutines run passes over the same pair of namespaces.                 *)
(*                                                                         *)
(* There is one object of each type that SyncNamespaceResources has a case *)
(* for.  Deployments stand for configmaps, secrets, services and ingresses *)
(* too, which go through SyncResource like them.  Definitions of custom    *)
(* resources take the same path, belong to no namespace and come before    *)
(* everything else; persistent volume claims have a path of their own and  *)
(* a data copy at the end.  Types without a case (StatefulSets...) and     *)
(* spec.namespaceScopedResources are never copied, with or without an      *)
(* error, and have no object here.                                         *)
(*                                                                         *)
(* A content is a version: the number of the edit that made it, 0 for no   *)
(* object.  That of a claim is the size it asks for, the one field of a    *)
(* claim that is updated.  fixed tells apart contents that no update leads *)
(* from one to the other: an immutable field differs, or a claim would     *)
(* shrink or cannot be expanded.                                           *)
(***************************************************************************)
EXTENDS Integers, Sequences

CONSTANTS Workers,      \* the goroutines that run passes
          ScaleToZero,  \* spec.scaleToZero
          SyncCRDs,     \* spec.syncCRDs
          SyncData,     \* spec.pvcConfig is given, with syncData
          MaxEdits,     \* bound on changes made by others in both clusters
          MaxFaults     \* bound on steps during which API calls fail

VARIABLES src,     \* the source objects, by type
          dst,     \* the destination objects, by type
          ns,      \* the destination namespace exists
          volume,  \* the destination claim holds a copy of the data
          pass,    \* what each worker is doing
          edits, faults

objects == <<src, dst, ns, volume>>
syncVars == <<src, dst, ns, volume, pass, edits, faults>>

ASSUME SyncerConstants ==
    /\ ScaleToZero \in BOOLEAN /\ SyncCRDs \in BOOLEAN /\ SyncData \in BOOLEAN
    /\ MaxEdits \in Nat /\ MaxFaults \in Nat

Types == <<"customresourcedefinitions", "deployments", "persistentvolumeclaims">>
FirstNamespaced == 2
Kinds == {Types[i] : i \in (IF SyncCRDs THEN 1 ELSE FirstNamespaced) .. Len(Types)}

IsCRD(k) == k = "customresourcedefinitions"
IsPVC(k) == k = "persistentvolumeclaims"
Scales(k) == k = "deployments"

\* dr-syncer.io/ignore, and dr-syncer.io/scale-override with a number or not.
\* A claim is unused while it is attached nowhere.
Labels(k) ==
    {"plain", "ignore"} \cup (IF Scales(k) THEN {"override", "garbled"} ELSE {})
                       \cup (IF IsPVC(k) THEN {"unused"} ELSE {})

Gone == [v |-> 0, fixed |-> 1, label |-> "plain"]
NoObject == [v |-> 0, fixed |-> 1, replicas |-> "none"]

IdlePass == [pc |-> "idle", i |-> 1, item |-> Gone, seen |-> FALSE, fresh |-> FALSE,
             quiet |-> TRUE]

\* CRDs are synced before anything else is looked at.
NewPass == IF SyncCRDs THEN [IdlePass EXCEPT !.pc = "list"]
           ELSE [IdlePass EXCEPT !.pc = "prepare", !.i = FirstNamespaced]

SyncInit ==
    /\ src = [k \in Kinds |-> [v |-> 1, fixed |-> 1, label |-> "plain"]]
    /\ dst = [k \in Kinds |-> NoObject]
    /\ ns = FALSE /\ volume = FALSE
    /\ pass = [w \in Workers |-> IdlePass]
    /\ edits = 0 /\ faults = 0

\* ShouldIgnoreResource, or nothing listed.
Skipped(item) == item.v = 0 \/ item.label = "ignore"

\* syncDeployments: a label that is there decides, and one that is no number
\* leaves the replicas of the source.
Replicas(k, label) ==
    IF ~Scales(k) THEN "none"
    ELSE IF label = "override" THEN "override"
    ELSE IF label = "garbled" \/ ~ScaleToZero THEN "source"
    ELSE "zero"

Wanted(k, item) == [v |-> item.v, fixed |-> item.fixed, replicas |-> Replicas(k, item.label)]

-----------------------------------------------------------------------------
(* What others do in the two clusters. *)

KindOf(w) == Types[pass[w].i]

\* A write of dst[k] makes the copies read earlier conflict.
Stales(k, p) == IF p.pc = "put" /\ Types[p.i] = k THEN [p EXCEPT !.fresh = FALSE] ELSE p

\* quiet records that nobody has edited either cluster since the pass began, nor
\* has another pass written an object it had listed before it was edited.
Disturbed == [w \in Workers |-> [pass[w] EXCEPT !.quiet = (pass[w].pc = "idle")]]

Edits == edits < MaxEdits /\ edits' = edits + 1 /\ UNCHANGED faults

\* An edit sets a label, or changes what an update may not.
Edited(k) == {o \in [v : {edits + 2}, fixed : 1..2, label : Labels(k)] :
                 o.fixed = 2 => o.label = "plain"}

EditSource(k) ==
    /\ Edits
    /\ src' \in {[src EXCEPT ![k] = o] : o \in {Gone} \cup Edited(k)}
    /\ src' # src
    /\ pass' = Disturbed
    /\ UNCHANGED <<dst, ns, volume>>

\* An operator scales the standby up, or its controllers write its status.
EditDest(k) ==
    /\ Edits /\ dst[k].v # 0
    /\ dst' = [dst EXCEPT ![k].replicas = IF Scales(k) THEN "source" ELSE @]
    /\ pass' = [w \in Workers |-> Stales(k, Disturbed[w])]
    /\ UNCHANGED <<src, ns, volume>>

DeleteNamespace ==
    /\ Edits /\ ns /\ ns' = FALSE
    /\ dst' = [k \in Kinds |-> IF IsCRD(k) THEN dst[k] ELSE NoObject] /\ volume' = FALSE
    /\ pass' = [w \in Workers |->
                   IF IsCRD(KindOf(w)) THEN Disturbed[w]
                   ELSE [Disturbed[w] EXCEPT !.fresh = FALSE]]
    /\ UNCHANGED src

\* Whether API calls fail during one step of a pass.
Outage(f) ==
    /\ f => faults < MaxFaults
    /\ faults' = IF f THEN faults + 1 ELSE faults
    /\ UNCHANGED edits

-----------------------------------------------------------------------------
(* One pass of SyncNamespaceResources. *)

\* spec.namespaceScopedResources ends a pass: the list of custom resources is
\* converted to a slice, which the conversion refuses whatever the list is.  The
\* error is logged like every other one here, and no object is written.
CustomResources(p) == [p EXCEPT !.pc = "done"]

Goes(w, p) == pass' = [pass EXCEPT ![w] = p]
Failed == [IdlePass EXCEPT !.pc = "failed"]
Fails(w) == Goes(w, Failed)

\* The pass of w with its current type behind it.
Advanced(w) ==
    LET i == pass[w].i
        rest == [pass[w] EXCEPT !.item = Gone, !.seen = FALSE, !.fresh = FALSE]
    IN  IF i = Len(Types) THEN CustomResources(rest)
        ELSE [rest EXCEPT !.pc = (IF i + 1 = FirstNamespaced THEN "prepare" ELSE "list"),
                          !.i = i + 1]

\* The access checks, EnsureNamespaceExists and the second namespace loop.
\* The first loop forgives failed calls, everything else ends the pass, with
\* the namespace made or not.
Prepare(w, f) ==
    /\ pass[w].pc = "prepare"
    /\ \/ ns' = TRUE /\ Goes(w, [pass[w] EXCEPT !.pc = "list"])
       \/ f /\ ns' \in {ns, TRUE} /\ Fails(w)
    /\ Outage(f) /\ UNCHANGED <<src, dst, volume>>

List(w, f) ==
    /\ pass[w].pc = "list"
    /\ LET item == src[KindOf(w)] IN
       \/ f /\ Fails(w)
       \/ ~f /\ Skipped(item) /\ Goes(w, Advanced(w))
       \/ ~f /\ ~Skipped(item) /\ Goes(w, [pass[w] EXCEPT !.pc = "get", !.item = item])
    /\ Outage(f) /\ UNCHANGED objects

\* A claim that cannot be read counts as absent.  Objects are compared with
\* their status, so one that is equal in all else is updated or left.
Get(w, f) ==
    /\ pass[w].pc = "get"
    /\ LET k == KindOf(w)
           Read(seen) == [pass[w] EXCEPT !.pc = "put", !.seen = seen, !.fresh = seen]
       IN  \/ f /\ IsPVC(k) /\ Goes(w, Read(FALSE))
           \/ f /\ ~IsPVC(k) /\ Fails(w)
           \/ ~f /\ Goes(w, Read(dst[k].v # 0))
           \/ ~f /\ ~IsPVC(k) /\ dst[k] = Wanted(k, pass[w].item) /\ Goes(w, Advanced(w))
    /\ Outage(f) /\ UNCHANGED objects

\* Create needs the namespace and no such object.  Update needs the version read
\* and a change that the API server allows: the code knows of no other way, and
\* its configuration for immutable resources is not looked at.
Accepted(w) ==
    LET k == KindOf(w) IN
    IF pass[w].seen THEN pass[w].fresh /\ dst[k].fixed = pass[w].item.fixed
    ELSE (IsCRD(k) \/ ns) /\ dst[k].v = 0

\* The copy of an object that has been edited since it was listed.
Late(k, item) == ~Skipped(src[k]) /\ Wanted(k, item) # Wanted(k, src[k])

Stored(w, p) ==
    LET k == KindOf(w)
        late == Late(k, pass[w].item)
    IN  /\ dst' = [dst EXCEPT ![k] = Wanted(k, pass[w].item)]
        /\ pass' = [x \in Workers |->
                       IF x = w THEN p
                       ELSE [Stales(k, pass[x]) EXCEPT
                                !.quiet = @ /\ (late => pass[x].pc = "idle")]]

\* The data of a claim are copied when the mapping says so.
AfterPut(w) == IF IsPVC(KindOf(w)) /\ SyncData THEN [pass[w] EXCEPT !.pc = "data"]
               ELSE Advanced(w)

\* A plausible bug: a refused or failed call is logged and the pass goes on.
PutLogged(w, f) ==
    /\ pass[w].pc = "put"
    /\ \/ Accepted(w) /\ Stored(w, AfterPut(w))
       \/ (f \/ ~Accepted(w)) /\ Goes(w, AfterPut(w)) /\ UNCHANGED dst
    /\ Outage(f) /\ UNCHANGED <<src, ns, volume>>

\* A plausible bug: claims that were there are left out of the data copy.
PutNewClaims(w, f) ==
    /\ pass[w].pc = "put"
    /\ \/ ~f /\ Accepted(w) /\ Stored(w, IF pass[w].seen THEN Advanced(w) ELSE AfterPut(w))
       \/ f /\ Accepted(w) /\ Stored(w, Failed)
       \/ (f \/ ~Accepted(w)) /\ Fails(w) /\ UNCHANGED dst
    /\ Outage(f) /\ UNCHANGED <<src, ns, volume>>

\* A refused or failed call ends the pass; one whose answer is lost was made.
Put(w, f) ==
    /\ pass[w].pc = "put"
    /\ \/ ~f /\ Accepted(w) /\ Stored(w, AfterPut(w))
       \/ f /\ Accepted(w) /\ Stored(w, Failed)
       \/ (f \/ ~Accepted(w)) /\ Fails(w) /\ UNCHANGED dst
    /\ Outage(f) /\ UNCHANGED <<src, ns, volume>>

(* The data of the claim. *)

Claim == "persistentvolumeclaims"

\* A node has the source claim mounted or attached.
FindPVCNode == src[Claim].v # 0 /\ src[Claim].label # "unused"

\* Both claims are still there.
ValidatePVCSync == src[Claim].v # 0 /\ dst[Claim].v # 0

\* The copy ends well, and is recorded in a mapping that exists in this call
\* only: the annotations of its completion are refused, which is logged.
SyncPVCWithNamespaceMapping == FindPVCNode /\ ValidatePVCSync /\ volume' = TRUE

\* Another worker is copying the claim.  The lock is that of the pod, so it
\* keeps out neither, and each purges the rsync deployment of the other.
Contended(w) == \E x \in Workers \ {w} : pass[x].pc = "data"

\* A copy that fails, is not possible or is cut off is only logged.  No PVC
\* syncer at all is an error.
CopyData(w, f) ==
    /\ pass[w].pc = "data"
    /\ \/ SyncPVCWithNamespaceMapping /\ Goes(w, Advanced(w))
       \/ /\ f \/ Contended(w) \/ ~FindPVCNode \/ ~ValidatePVCSync
          /\ UNCHANGED volume /\ Goes(w, Advanced(w))
       \/ f /\ UNCHANGED volume /\ Fails(w)
    /\ Outage(f) /\ UNCHANGED <<src, dst, ns>>

PassStep(w) ==
    \E f \in BOOLEAN :
        Prepare(w, f) \/ List(w, f) \/ Get(w, f) \/ Put(w, f) \/ CopyData(w, f)

-----------------------------------------------------------------------------
UpToDate(k) == ~Skipped(src[k]) => dst[k] = Wanted(k, src[k])

Copied == \A k \in Kinds : UpToDate(k)

\* SyncNamespaceResources returns no error only when the destination has every
\* object of the source that is of a type it has a case for, as the source has it
\* now, whatever other passes did beside it; unless somebody edited one of the
\* clusters while it ran, or another pass then wrote what it had listed before an
\* edit.  (Objects of other types, and those of spec.namespaceScopedResources, are
\* not copied, and no error says so.)
SuccessMeansCopied ==
    [][\A w \in Workers :
          pass[w].pc # "done" /\ pass'[w].pc = "done" /\ pass'[w].quiet => Copied']_syncVars
=============================================================================
