--------------------------- MODULE RsyncTransfer ---------------------------
(***************************************************************************)
(* performRsync (pkg/controller/replication/perform_rsync.go): one step    *)
(* "rsync" of RsyncWorkflow.tla, seen from inside.  The transfer is run in *)
(* the destination pod and repeated after transient failures, a goroutine  *)
(* reports progress meanwhile, and the outcome is verified and written to  *)
(* the annotations of the source PVC.                                      *)
(*                                                                         *)
(* Volumes are compared file by file: data[f] says how the destination's   *)
(* copy of f relates to the source.  "silent" is a difference that size    *)
(* and modification time do not show, which rsync sees only with           *)
(* --checksum.  The length of the waits between attempts is left out.      *)
(***************************************************************************)
EXTENDS Integers, FiniteSets

CONSTANTS File,           \* names of files in the volume
          MaxRetries,     \* RetryConfig.MaxRetries
          SamplePercent   \* the percentage of files a sample takes

ASSUME TransferConstants ==
    /\ IsFiniteSet(File) /\ MaxRetries \in Nat /\ SamplePercent \in 1..100

VARIABLES
    data,       \* how each file of the destination relates to the source
    pc,         \* where performRsync is
    attempt,    \* transfers that have ended, in this call
    mode,       \* resolved verification mode
    checksum,   \* rsync is given --checksum
    result,     \* what the call returns
    claim,      \* VerificationResult: none, or whether the checksums matched
    phase,      \* the annotation dr-syncer.io/phase of the source PVC
    reporter,   \* the progress goroutine
    current,    \* its copy of the PVC has the server's resourceVersion
    output,     \* accumulatedOutput holds a progress line
    cancelled,  \* the context of the call is done
    touched     \* the source has been written since the last transfer began

call == <<attempt, mode, checksum, result, claim>>
progress == <<reporter, current, output>>
vars == <<data, pc, call, phase, progress, cancelled, touched>>

Mode == {"none", "sample", "full"}
Resting == {"idle", "returned"}

Init ==
    /\ data \in [File -> {"none", "missing"}]
    /\ pc = "idle" /\ attempt = 0 /\ mode = "none" /\ checksum = FALSE
    /\ result = "none" /\ claim = "none" /\ phase = "none"
    /\ reporter = "gone" /\ current = FALSE /\ output = FALSE
    /\ cancelled = FALSE /\ touched = FALSE

Goto(step) == pc' = step

\* UpdateSyncStatus by the calling goroutine: a Get and an Update whose errors
\* are only logged.  A write outdates the copy the reporter may hold.
UpdateSyncStatus(p) ==
    \/ ~cancelled /\ phase' = p /\ current' = FALSE
    \/ UNCHANGED <<phase, current>>

-----------------------------------------------------------------------------
\* InitSyncStatus.
Begin ==
    /\ pc \in Resting
    /\ Goto("configure")
    /\ cancelled' = FALSE
    /\ attempt' = 0 /\ result' = "none" /\ claim' = "none"
    /\ mode' = "none" /\ checksum' = FALSE
    /\ output' = FALSE /\ reporter' = "gone"
    /\ (phase' = "Initializing" \/ UNCHANGED phase) /\ current' = FALSE
    /\ UNCHANGED <<data, touched>>

\* The mode set at the most specific level that could be read and sets a valid
\* one; an annotation that is no mode counts as unset.
getVerificationConfig(remote, mapping, annotation) ==
    IF annotation \in Mode THEN annotation
    ELSE IF mapping \in Mode THEN mapping
    ELSE IF remote \in Mode THEN remote ELSE "none"

\* A plausible bug: full verification is taken for a flag of the status only.
UseChecksumOptionOnly(m, option) == option

\* The options rsync is run with: --checksum by a custom option or full mode.
UseChecksum(m, option) == option \/ m = "full"

\* NamespaceMapping, RemoteCluster and annotations are read, each if it can be,
\* then the phase becomes Syncing and the progress goroutine is started.
Configure ==
    /\ pc = "configure"
    /\ \E remote, mapping, annotation \in Mode \cup {"unset"}, option \in BOOLEAN :
          /\ mode' = getVerificationConfig(remote, mapping, annotation)
          /\ checksum' = UseChecksum(mode', option)
    /\ UpdateSyncStatus("Syncing")
    /\ reporter' = "waiting"
    /\ Goto("attempt")
    /\ UNCHANGED <<data, attempt, result, claim, output, cancelled, touched>>

-----------------------------------------------------------------------------
(* withRetryConfig and the transfer. *)

\* withRetryConfig returns: nil, the error, or "operation failed after".
EndRetries(how) == Goto("stop") /\ result' = how

\* The head of the loop: another transfer, or no attempts are left.
Attempt ==
    /\ pc = "attempt"
    /\ \/ attempt < MaxRetries /\ Goto("running") /\ touched' = FALSE /\ UNCHANGED result
       \/ attempt = MaxRetries /\ EndRetries("error") /\ UNCHANGED touched
    /\ UNCHANGED <<data, attempt, mode, checksum, claim, phase, progress, cancelled>>

\* The files rsync finds different.
Outdated ==
    {f \in File : \/ data[f] \in {"missing", "older", "extra"}
                  \/ checksum /\ data[f] = "silent"}

\* rsync -a --delete of the files in fs.
Transferred(fs) ==
    [f \in File |-> IF f \notin fs THEN data[f]
                    ELSE IF data[f] = "extra" THEN "none" ELSE "same"]

\* A plausible bug: only the error of the command is tested, not its stderr.
isTransientErrorOfExec(exit, stderr) == exit = "transient"

\* isTransientError, first on the error, then on what the command printed.
isTransientError(exit, stderr) ==
    \/ exit = "transient"
    \/ exit = "zero" /\ stderr

\* The command ends.  With status zero and no connection trouble on stderr it
\* has transferred everything it saw; otherwise any part.
ExecuteCommandInPod(exit, stderr, fs) ==
    /\ exit = "zero" => ~cancelled
    /\ exit = "zero" /\ ~stderr => touched \/ fs = Outdated
    /\ data' = Transferred(fs)

\* One call of the operation given to withRetryConfig.
RunRsync ==
    /\ pc = "running"
    /\ \E exit \in {"zero", "transient", "fatal"}, stderr \in BOOLEAN,
          fs \in SUBSET Outdated :
          /\ ExecuteCommandInPod(exit, stderr, fs)
          /\ IF isTransientError(exit, stderr) THEN Goto("backoff") /\ UNCHANGED result
             ELSE EndRetries(IF exit = "zero" THEN "ok" ELSE "error")
    /\ attempt' = attempt + 1
    /\ output' \in {output, TRUE}
    /\ UNCHANGED <<mode, checksum, claim, phase, reporter, current, cancelled, touched>>

\* The wait follows every transient failure, the last one included.
Backoff ==
    /\ pc = "backoff"
    /\ \/ cancelled /\ EndRetries("error")
       \/ Goto("attempt") /\ UNCHANGED result
    /\ UNCHANGED <<data, attempt, mode, checksum, claim, phase, progress, cancelled, touched>>

-----------------------------------------------------------------------------
(* The progress goroutine.  Output is only accumulated when a transfer ends. *)

ReportGet ==
    /\ reporter = "waiting" /\ output /\ ~cancelled
    /\ reporter' = "writing" /\ current' = TRUE
    /\ UNCHANGED <<data, pc, call, phase, output, cancelled, touched>>

ReportUpdate ==
    /\ reporter = "writing" /\ reporter' = "waiting"
    /\ \/ current /\ ~cancelled /\ phase' = "Syncing"
       \/ UNCHANGED phase
    /\ current' = FALSE
    /\ UNCHANGED <<data, pc, call, output, cancelled, touched>>

\* A plausible bug: progressCancel is never called.
ReportEndUnasked == reporter = "waiting" /\ cancelled /\ reporter' = "gone"

\* The goroutine sees progressCtx done: the call's context, or progressCancel.
ReportEnd ==
    /\ reporter = "waiting" /\ (cancelled \/ pc = "stop")
    /\ reporter' = "gone"

ReportDone ==
    /\ ReportEnd
    /\ UNCHANGED <<data, pc, call, phase, current, output, cancelled, touched>>

Reporter == ReportGet \/ ReportUpdate \/ ReportDone

-----------------------------------------------------------------------------
(* Verification and the final status. *)

\* A plausible bug: the goroutine is told to stop, but not waited for.
JoinedNot == TRUE

\* <-progressDone.
Joined == reporter = "gone"

\* The goroutine has ended.  A failed transfer is recorded and returned.
StopProgress ==
    /\ pc = "stop" /\ Joined
    /\ IF result = "ok" THEN Goto("verify") /\ UNCHANGED <<phase, current>>
                        ELSE Goto("returned") /\ UpdateSyncStatus("Failed")
    /\ UNCHANGED <<data, call, reporter, output, cancelled, touched>>

\* Files the destination holds.
Present == {f \in File : data[f] \in {"same", "older", "silent", "extra"}}

\* The directory is listed; an empty one counts as a failed transfer.
Verify ==
    /\ pc = "verify"
    /\ \/ /\ ~cancelled /\ Present # {}
          /\ Goto(IF mode = "sample" THEN "sample" ELSE "finish")
          /\ claim' = IF mode = "full" THEN "full" ELSE claim
          /\ UNCHANGED <<phase, current, result>>
       \/ /\ Goto("returned") /\ result' = "error"
          /\ UpdateSyncStatus("Failed")
          /\ UNCHANGED claim
    /\ UNCHANGED <<data, attempt, mode, checksum, reporter, output, cancelled, touched>>

NumSamples(n) ==
    LET k == (n * SamplePercent) \div 100 IN IF k < 1 THEN 1 ELSE k

\* performSampleVerification: files whose checksum cannot be had are skipped,
\* and a listing that fails counts as a mismatch.  Neither fails the call.
SampleVerification ==
    /\ pc = "sample"
    /\ \/ claim' = "mismatch"
       \/ \E checked \in SUBSET Present :
             /\ Cardinality(checked) <= NumSamples(Cardinality(Present))
             /\ claim' = IF \A f \in checked : data[f] = "same" THEN "match" ELSE "mismatch"
    /\ Goto("finish")
    /\ UNCHANGED <<data, attempt, mode, checksum, result, phase, progress, cancelled, touched>>

\* CompleteSyncStatusWithVerification, whose error is only logged.
Complete ==
    /\ pc = "finish"
    /\ UpdateSyncStatus("Completed")
    /\ Goto("returned")
    /\ UNCHANGED <<data, call, reporter, output, cancelled, touched>>

-----------------------------------------------------------------------------
(* The environment. *)

\* What a write or a deletion in the source makes of a file.
Changes(r) ==
    CASE r = "none" -> {"missing"}
      [] r = "missing" -> {"none"}
      [] r = "same" -> {"older", "silent", "extra"}
      [] r = "extra" -> {"older"}
      [] OTHER -> {"extra"}

\* The volume is in use: its files change at any time.
SourceWrites ==
    /\ \E f \in File : \E r \in Changes(data[f]) : data' = [data EXCEPT ![f] = r]
    /\ touched' = TRUE
    /\ UNCHANGED <<pc, call, phase, progress, cancelled>>

\* The controller is shut down, or gives up the call.
Cancel ==
    /\ pc \notin Resting /\ ~cancelled
    /\ cancelled' = TRUE
    /\ UNCHANGED <<data, pc, call, phase, progress, touched>>

\* The controller dies with both goroutines.
Crash ==
    /\ pc \notin Resting
    /\ Goto("idle") /\ reporter' = "gone"
    /\ UNCHANGED <<data, call, phase, current, output, cancelled, touched>>

Run == \/ Configure \/ Attempt \/ RunRsync \/ Backoff
       \/ StopProgress \/ Verify \/ SampleVerification \/ Complete

Next == Begin \/ Run \/ Reporter \/ SourceWrites \/ Cancel \/ Crash

Spec == Init /\ [][Next]_vars

\* Commands end (rsync at its 24-hour timeout at the latest), and a goroutine
\* whose context is done sees it although its ticker goes on.
FairSpec == Spec /\ WF_vars(Run) /\ WF_vars(ReportUpdate) /\ SF_vars(ReportDone)

-----------------------------------------------------------------------------
\* A call that returns nil has transferred every difference rsync can see, if
\* the source was not written since the last transfer began, however many
\* attempts broke off before.
SuccessMeansTransferred ==
    pc = "returned" /\ result = "ok" /\ ~touched => Outdated = {}

\* A status that claims full verification is true: every file is equal, also
\* where size and time would not show it.
FullMeansEqual ==
    pc = "returned" /\ result = "ok" /\ claim = "full" /\ ~touched =>
        \A f \in File : data[f] \in {"none", "same"}

\* A final phase on the PVC is the last word of its call: a late progress
\* report never turns Completed or Failed back into Syncing.
FinalPhaseStep ==
    phase \in {"Completed", "Failed"} /\ phase' = "Syncing" => pc \notin Resting

FinalPhaseSticks == [][FinalPhaseStep]_vars

\* Every call ends, with the reporter out of the way, whenever it is cancelled.
CallReturns == pc \notin Resting ~> pc \in Resting
=============================================================================
