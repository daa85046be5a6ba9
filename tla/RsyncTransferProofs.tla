------------------------ MODULE RsyncTransferProofs ------------------------
(***************************************************************************)
(* Proofs about performRsync, for any set of files, any number of attempts *)
(* and any size of the sample.                                             *)
(***************************************************************************)
EXTENDS RsyncTransfer, TLAPS

FileState == {"none", "missing", "same", "older", "extra", "silent"}

\* The shape of the variables that the proofs read.
Types ==
    /\ data \in [File -> FileState]
    /\ touched \in BOOLEAN /\ checksum \in BOOLEAN

\* The steps of performRsync after withRetryConfig has returned.
Ended == {"stop", "verify", "sample", "finish", "returned"}

\* A transfer that ended well left no difference rsync can see, and the source
\* had to be written for one to appear since.
TransferInv == pc \in Ended /\ result = "ok" /\ ~touched => Outdated = {}

\* Full verification is claimed only by a call that ran rsync with --checksum.
ClaimInv ==
    /\ mode = "full" => checksum
    /\ claim = "full" => mode = "full"
    /\ pc = "configure" => claim = "none"

\* The progress goroutine lives only while the call waits for the transfer.
ReporterInv ==
    reporter # "gone" => pc \in {"attempt", "running", "backoff", "stop"}

Inv == Types /\ TransferInv /\ ClaimInv /\ ReporterInv

\* Initial states satisfy the invariant.
LEMMA InitInv == Init => Inv
BY DEF Init, Inv, Types, FileState, TransferInv, Ended, ClaimInv, ReporterInv

\* Every step keeps the shape of the variables.
LEMMA TypesStep ==
    ASSUME Types, [Next]_vars
    PROVE  Types'
<1> USE DEF Types, FileState
<1>1. CASE Begin \/ Configure \/ Attempt \/ Backoff \/ StopProgress \/ Verify
           \/ SampleVerification \/ Complete
  BY <1>1 DEF Begin, Configure, UseChecksum, Attempt, Backoff, StopProgress, Verify,
     SampleVerification, Complete, call
<1>2. CASE RunRsync
  BY <1>2 DEF RunRsync, ExecuteCommandInPod, Transferred, Outdated
<1>3. CASE Reporter \/ Cancel \/ Crash \/ UNCHANGED vars
  BY <1>3 DEF Reporter, ReportGet, ReportUpdate, ReportDone, Cancel, Crash, vars, call
<1>4. CASE SourceWrites
  BY <1>4 DEF SourceWrites, Changes, call
<1> QED
  BY <1>1, <1>2, <1>3, <1>4 DEF Next, Run

\* rsync of everything it finds different leaves nothing different.
LEMMA TransferredAll ==
    ASSUME Types, data' = Transferred(Outdated), checksum' = checksum
    PROVE  Outdated' = {}
BY DEF Types, FileState, Transferred, Outdated

\* What no step of the transfer touches keeps the differences as they are.
LEMMA OutdatedKept == UNCHANGED <<data, checksum>> => UNCHANGED Outdated
BY DEF Outdated

\* Every step keeps what was transferred.
LEMMA TransferStep ==
    ASSUME Types, TransferInv, [Next]_vars
    PROVE  TransferInv'
<1> USE DEF TransferInv, Ended
<1>1. CASE Begin \/ Configure
  BY <1>1 DEF Begin, Configure, Goto
<1>2. CASE Attempt \/ Backoff
  BY <1>2 DEF Attempt, Backoff, Goto, EndRetries
<1>3. CASE RunRsync
  <2>1. PICK exit \in {"zero", "transient", "fatal"}, stderr \in BOOLEAN,
             fs \in SUBSET Outdated :
          /\ ExecuteCommandInPod(exit, stderr, fs)
          /\ IF isTransientError(exit, stderr) THEN Goto("backoff") /\ UNCHANGED result
             ELSE EndRetries(IF exit = "zero" THEN "ok" ELSE "error")
    BY <1>3 DEF RunRsync
  <2>2. CASE exit = "zero" /\ ~stderr /\ ~touched
    <3>1. Outdated' = {}
      BY <1>3, <2>1, <2>2, TransferredAll DEF ExecuteCommandInPod, RunRsync
    <3> QED
      BY <3>1
  <2>3. CASE touched
    BY <1>3, <2>3 DEF RunRsync
  <2>4. CASE ~(exit = "zero" /\ ~stderr)
    BY <2>1, <2>4 DEF isTransientError, Goto, EndRetries
  <2> QED
    BY <2>2, <2>3, <2>4 DEF Types
<1>4. CASE StopProgress
  BY <1>4, OutdatedKept DEF StopProgress, Goto, call
<1>5. CASE Verify
  BY <1>5, OutdatedKept DEF Verify, Goto
<1>6. CASE SampleVerification \/ Complete
  BY <1>6, OutdatedKept DEF SampleVerification, Complete, Goto, call
<1>7. CASE Reporter \/ Cancel \/ UNCHANGED vars
  BY <1>7, OutdatedKept DEF Reporter, ReportGet, ReportUpdate, ReportDone, Cancel, vars, call
<1>8. CASE SourceWrites \/ Crash
  BY <1>8 DEF SourceWrites, Crash, Goto
<1> QED
  BY <1>1, <1>2, <1>3, <1>4, <1>5, <1>6, <1>7, <1>8 DEF Next, Run

\* Every step keeps what a call claims.
LEMMA ClaimStep ==
    ASSUME ClaimInv, [Next]_vars
    PROVE  ClaimInv'
<1> USE DEF ClaimInv
<1>1. CASE Begin
  BY <1>1 DEF Begin, Goto
<1>2. CASE Configure
  BY <1>2 DEF Configure, UseChecksum, Goto
<1>3. CASE Attempt \/ RunRsync \/ Backoff \/ StopProgress \/ Complete
  BY <1>3 DEF Attempt, RunRsync, Backoff, StopProgress, Complete, Goto, EndRetries, call
<1>4. CASE Verify
  BY <1>4 DEF Verify, Goto
<1>5. CASE SampleVerification
  BY <1>5 DEF SampleVerification, Goto
<1>6. CASE Reporter \/ SourceWrites \/ Cancel \/ Crash \/ UNCHANGED vars
  BY <1>6 DEF Reporter, ReportGet, ReportUpdate, ReportDone, SourceWrites, Cancel, Crash,
     vars, call, Goto
<1> QED
  BY <1>1, <1>2, <1>3, <1>4, <1>5, <1>6 DEF Next, Run

\* StopProgress is the only way past the transfer, and waits for the goroutine.
LEMMA ReporterStep ==
    ASSUME ReporterInv, [Next]_vars
    PROVE  ReporterInv'
<1> USE DEF ReporterInv
<1>1. CASE Begin \/ Configure \/ Crash
  BY <1>1 DEF Begin, Configure, Crash, Goto
<1>2. CASE Attempt \/ RunRsync \/ Backoff
  BY <1>2 DEF Attempt, RunRsync, Backoff, Goto, EndRetries, progress
<1>3. CASE StopProgress
  BY <1>3 DEF StopProgress, Joined
<1>4. CASE Verify \/ SampleVerification \/ Complete
  BY <1>4 DEF Verify, SampleVerification, Complete, progress
<1>5. CASE Reporter
  BY <1>5 DEF Reporter, ReportGet, ReportUpdate, ReportDone, ReportEnd
<1>6. CASE SourceWrites \/ Cancel \/ UNCHANGED vars
  BY <1>6 DEF SourceWrites, Cancel, vars, progress
<1> QED
  BY <1>1, <1>2, <1>3, <1>4, <1>5, <1>6 DEF Next, Run

\* The invariant is inductive.
LEMMA InvHolds == Spec => []Inv
<1>1. Inv /\ [Next]_vars => Inv'
  BY TypesStep, TransferStep, ClaimStep, ReporterStep DEF Inv
<1> QED
  BY <1>1, InitInv, PTL DEF Spec

\* performRsync returns nil only after a transfer that left nothing to do, for
\* any number of files, attempts and interruptions.
THEOREM Transferring == Spec => []SuccessMeansTransferred
<1>1. Inv => SuccessMeansTransferred
  BY DEF Inv, TransferInv, Ended, SuccessMeansTransferred
<1> QED
  BY <1>1, InvHolds, PTL

\* A result that claims full verification comes from a transfer with --checksum,
\* which left every file equal.
THEOREM FullVerification == Spec => []FullMeansEqual
<1>1. Inv => FullMeansEqual
  BY DEF Inv, Types, FileState, TransferInv, Ended, ClaimInv, Outdated, FullMeansEqual
<1> QED
  BY <1>1, InvHolds, PTL

\* No progress report follows the final phase of a call: the goroutine has ended
\* when the phase is written.
THEOREM FinalPhase == Spec => FinalPhaseSticks
<1>1. Inv /\ [Next]_vars => [FinalPhaseStep]_vars
  <2> SUFFICES ASSUME Inv, Next, phase # "Syncing", phase' = "Syncing", pc \in Resting
               PROVE  FALSE
    BY DEF FinalPhaseStep
  <2>1. ~Configure /\ ~Run
    BY DEF Resting, Run, Configure, Attempt, RunRsync, Backoff, StopProgress, Verify,
       SampleVerification, Complete
  <2>2. ~Reporter
    BY DEF Inv, ReporterInv, Resting, Reporter, ReportGet, ReportUpdate, ReportDone, ReportEnd
  <2> QED
    BY <2>1, <2>2 DEF Next, Begin, SourceWrites, Cancel, Crash
<1> QED
  BY <1>1, InvHolds, PTL DEF Spec, FinalPhaseSticks
=============================================================================
