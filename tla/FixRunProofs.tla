---------------------------- MODULE FixRunProofs ----------------------------
(***************************************************************************)
(* Proofs about FixRun, for any number of files and of changes by other      *)
(* programs. RunInv is inductive: what the selections are from, what the      *)
(* findings are from, and what the statuses say of the files so far.          *)
(***************************************************************************)
EXTENDS FixRun, TLAPS

OneFile == {"reanalyze", "refresh", "validate", "replace"}

(* The steps for one file are for a file; only package runs analyze anew. *)
AtFile ==
  /\ phase \in OneFile => index \in Files
  /\ phase \in {"analyze", "snapshot"} => index = 1 /\ changed = {} /\ ~stale
  /\ phase \in {"reanalyze", "refresh"} => packageMode

(* Unless they are marked stale, the selections still to come are from an analysis of *)
(* everything this run has changed; and a stale mark never reaches a fix.              *)
SelectionsFresh ==
  packageMode =>
    /\ phase \in {"validate", "replace"} => ~stale
    /\ \/ phase \in {"snapshot", "refresh"}
       \/ phase \in {"loop", "validate", "replace"} /\ ~stale
       => \A f \in Files : f >= index => basis[f] = changed

(* A file analyzed alone has its present findings at all times, the others in the end. *)
FindingsCurrent ==
  \/ phase \notin {"analyze", "done"} /\ ~packageMode
  \/ phase \in {"final", "report"}
  => \A f \in Files : result[f] = Seen(f)

(* What the statuses say of the files up to the present one is so. *)
StatusTrue ==
  phase # "done" =>
    /\ \A f \in Files : f >= index => status[f] = "pending" /\ f \notin changed \cup applied
    /\ ~diff => Fixed(status) = changed
    /\ Possibly(status) = {}
    /\ \A f \in applied \ changed : status[f] = "conflict"

RunInv ==
  /\ TypeOK /\ AtFile /\ SelectionsFresh /\ FindingsCurrent /\ StatusTrue
  /\ ReportTrue /\ ReportCurrent

-----------------------------------------------------------------------------
(* What the outputs say. *)

Codes == {0, 1, 2, 3, 4, 5, 6, 130}

(* What is said when the reporting itself may fail. *)
LEMMA ReportSays ==
  ASSUME NEW code \in Codes, NEW complete, NEW names, NEW certain,
         NEW e \in report(code, complete, names, certain)
  PROVE  /\ e.complete = complete
         /\ code >= ExitConflict => e.code >= ExitConflict
         /\ e.told => e.named = names /\ e.certain = certain
BY DEF report, Exit, Codes, ExitFilesystemError, ExitConflict

(* The failure report as text: the fixed files and the one that may be. *)
LEMMA CompletedSays ==
  ASSUME NEW code \in Codes, NEW complete, NEW files, NEW e \in Completed(code, complete, files)
  PROVE  /\ e.complete = complete
         /\ code >= ExitConflict => e.code >= ExitConflict
         /\ e.told => /\ e.named = Fixed(files) \cup Possibly(files)
                      /\ e.certain \subseteq Fixed(files)
BY ReportSays DEF Completed

(* A code that is made more severe is one, and is at least that of a conflict. *)
LEMMA MoreSevere ==
  ASSUME NEW code \in Codes, NEW other \in {ExitInternalError, ExitFilesystemError}
  PROVE  /\ moreSevereExitCode(code, other) \in Codes
         /\ moreSevereExitCode(code, other) >= ExitConflict
BY DEF moreSevereExitCode, Codes, ExitInternalError, ExitFilesystemError, ExitCanceled,
       ExitConflict

(* The JSON report, or what standard error says instead of it. *)
LEMMA JSONSays ==
  ASSUME NEW code \in Codes, NEW complete, NEW files,
         NEW e \in reportLintFixJSON(code, complete, files)
  PROVE  /\ e.complete = complete
         /\ code >= ExitConflict => e.code >= ExitConflict
         /\ e.told => /\ e.named = Fixed(files) \cup Possibly(files)
                      /\ e.certain \subseteq Fixed(files)
<1>1. CASE e = Exit(code, complete, TRUE, Fixed(files) \cup Possibly(files), Fixed(files))
  BY <1>1 DEF Exit
<1>2. CASE e \in Completed(moreSevereExitCode(code, ExitInternalError), complete, files)
  BY <1>2, MoreSevere, CompletedSays
<1>3. CASE e \in Completed(moreSevereExitCode(code, ExitFilesystemError), complete, files)
  BY <1>3, MoreSevere, CompletedSays
<1> QED
  BY <1>1, <1>2, <1>3 DEF reportLintFixJSON

(* The reports that name no file. *)
LEMMA IntegrationSays ==
  ASSUME NEW code \in Codes, NEW complete, NEW e \in reportIntegrationOutput(code, complete)
  PROVE  /\ e.complete = complete
         /\ code >= ExitConflict => e.code >= ExitConflict
         /\ e.told => e.named = {} /\ e.certain = {}
<1>1. CASE e = Exit(code, complete, TRUE, {}, {})
  BY <1>1 DEF Exit
<1>2. CASE e \in report(moreSevereExitCode(code, ExitInternalError), complete, {}, {})
  BY <1>2, MoreSevere, ReportSays
<1>3. CASE e \in report(moreSevereExitCode(code, ExitFilesystemError), complete, {}, {})
  BY <1>3, MoreSevere, ReportSays
<1> QED
  BY <1>1, <1>2, <1>3 DEF reportIntegrationOutput

(* A run that stops does not claim to be complete; a text or JSON report names every *)
(* file that is or may be fixed.                                                     *)
LEMMA FailureSays ==
  ASSUME NEW code \in Codes, NEW files, NEW e \in reportLintFixFailure(code, files)
  PROVE  /\ ~e.complete
         /\ e.told => /\ e.named \subseteq Fixed(files) \cup Possibly(files)
                      /\ reporter # "integration"
                           => Fixed(files) \cup Possibly(files) \subseteq e.named
                      /\ e.certain \subseteq Fixed(files)
<1>1. CASE reporter = "json"
  BY <1>1, JSONSays DEF reportLintFixFailure
<1>2. CASE reporter = "integration"
  BY <1>2, IntegrationSays DEF reportLintFixFailure
<1>3. CASE reporter \notin {"json", "integration"}
  BY <1>3, CompletedSays DEF reportLintFixFailure
<1> QED
  BY <1>1, <1>2, <1>3

(* A run that stops with these statuses has told the truth. *)
LEMMA StopTrue ==
  ASSUME NEW code \in Codes, NEW files, StopWith(code, files),
         UNCHANGED <<invocation, index>>,
         ~diff => /\ Fixed(files) \subseteq changed'
                  /\ changed' \subseteq Fixed(files) \cup Possibly(files)
                  /\ Fixed(files) \cup Possibly(files) \subseteq changed' \cup {index}
  PROVE  phase' = "done" /\ ReportTrue' /\ ReportCurrent'
<1>1. /\ phase' = "done"
      /\ diff' = diff /\ (reporter' = reporter)
  BY DEF StopWith, diff, reporter
<1>2. /\ ~exit'.complete
      /\ exit'.told =>
           /\ exit'.named \subseteq Fixed(files) \cup Possibly(files)
           /\ reporter # "integration" => Fixed(files) \cup Possibly(files) \subseteq exit'.named
           /\ exit'.certain \subseteq Fixed(files)
  BY FailureSays DEF StopWith
<1>3. ReportTrue'
  BY <1>1, <1>2 DEF ReportTrue
<1>4. ReportCurrent'
  BY <1>1, <1>2 DEF ReportCurrent
<1> QED
  BY <1>1, <1>3, <1>4

-----------------------------------------------------------------------------
(* The steps. *)

(* A run begins with nothing changed and every status pending. *)
LEMMA InitInv == ASSUME Init PROVE RunInv
<1> USE FileCountAssumption DEF Init, Files
<1>1. TypeOK
  BY DEF TypeOK, Phases, Statuses
<1>2. AtFile /\ SelectionsFresh /\ FindingsCurrent
  BY DEF AtFile, SelectionsFresh, FindingsCurrent, OneFile
<1>3. StatusTrue
  BY DEF StatusTrue, Fixed, Possibly
<1>4. ReportTrue /\ ReportCurrent
  BY DEF ReportTrue, ReportCurrent
<1> QED
  BY <1>1, <1>2, <1>3, <1>4 DEF RunInv

(* Once the run is done, only its reports matter. *)
LEMMA DoneKeeps ==
  ASSUME TypeOK', phase' = "done", ReportTrue', ReportCurrent'
  PROVE  RunInv'
BY DEF RunInv, AtFile, SelectionsFresh, FindingsCurrent, StatusTrue, OneFile

(* Until then, they say nothing. *)
LEMMA NotDone ==
  ASSUME phase' # "done"
  PROVE  ReportTrue' /\ ReportCurrent'
BY DEF ReportTrue, ReportCurrent

(* A run that fails has named the files its statuses call fixed: all that were changed. *)
LEMMA FailsStep ==
  ASSUME RunInv, phase # "done", NEW codes, codes \subseteq Codes, Fails(codes)
  PROVE  RunInv'
<1>1. PICK code \in codes : StopWith(code, status)
  BY DEF Fails
<1>2. UNCHANGED <<invocation, index, changed>>
  BY DEF Fails
<1>3. phase' = "done" /\ ReportTrue' /\ ReportCurrent'
  <2>1. ~diff => Fixed(status) = changed
    BY DEF RunInv, StatusTrue
  <2>2. Possibly(status) = {}
    BY DEF RunInv, StatusTrue
  <2>3. code \in Codes
    BY <1>1
  <2> QED
    BY <1>1, <1>2, <2>1, <2>2, <2>3, StopTrue
<1>4. TypeOK'
  BY <1>3 DEF Fails, RunInv, TypeOK, Phases
<1> QED
  BY <1>3, <1>4, DoneKeeps

(* The codes of failures are exit codes. *)
LEMMA FailureCodes ==
  ToolFailures \cup Canceled \subseteq Codes /\ {ExitConflict, ExitCanceled} \subseteq Codes
BY DEF ToolFailures, Canceled, Codes, ExitConflict, ExitCanceled

(* The first analysis: nothing was changed yet. *)
LEMMA AnalyzeStep == ASSUME RunInv, Analyze PROVE RunInv'
<1>1. CASE Fails(ToolFailures \cup Canceled)
  BY <1>1, FailsStep, FailureCodes DEF Analyze
<1>2. CASE ~Fails(ToolFailures \cup Canceled)
  <2>1. index = 1 /\ changed = {} /\ ~stale
    BY DEF RunInv, AtFile, Analyze
  <2>2. \A f \in Files : Seen(f) = {}
    BY <2>1 DEF Seen
  <2>3. /\ phase' = "snapshot"
        /\ basis' = [f \in Files |-> {}] /\ (result' = [f \in Files |-> {}])
        /\ current' = Files
        /\ UNCHANGED <<invocation, index, stale, changed, status, rejected, applied>>
    BY <1>2, <2>2 DEF Analyze
  <2>4. TypeOK'
    BY <2>3 DEF RunInv, TypeOK, Phases
  <2>5. AtFile' /\ SelectionsFresh' /\ FindingsCurrent'
    BY <2>1, <2>3 DEF RunInv, AtFile, SelectionsFresh, FindingsCurrent, OneFile, packageMode, Seen
  <2>6. StatusTrue'
    BY <2>3 DEF RunInv, StatusTrue, Fixed, Possibly, diff, Analyze
  <2> QED
    BY <2>3, <2>4, <2>5, <2>6, NotDone DEF RunInv
<1> QED
  BY <1>1, <1>2

(* A snapshot of files that were not fixed yet. *)
LEMMA SnapshotStep ==
  ASSUME RunInv, NEW files, NEW next,
         \/ phase = "snapshot" /\ next = "loop" /\ files = Files
         \/ phase = "refresh" /\ next = "validate" /\ files = Remaining,
         Snapshot(files, next)
  PROVE  RunInv'
<1>1. CASE Fails(ToolFailures \cup Canceled)
  BY <1>1, FailsStep, FailureCodes
<1>2. CASE Fails({ExitConflict})
  BY <1>2, FailsStep, FailureCodes
<1>3. CASE ~Fails(ToolFailures \cup Canceled) /\ ~Fails({ExitConflict})
  <2>1. /\ phase' = next /\ stale' = FALSE
        /\ UNCHANGED <<invocation, index, basis, result, current, changed, rejected, applied>>
        /\ status' = [f \in Files |-> IF f \in files THEN "pending" ELSE status[f]]
    BY <1>3 DEF Snapshot
  <2>2. \A f \in files : f \in Files /\ f >= index
    <3>1. CASE phase = "snapshot" /\ files = Files
      BY <3>1, FileCountAssumption DEF RunInv, AtFile, Files
    <3>2. CASE files = Remaining
      BY <3>2 DEF Remaining
    <3> QED
      BY <3>1, <3>2
  <2>3. status' = status
    <3>1. \A f \in files : status[f] = "pending"
      BY <2>2 DEF RunInv, StatusTrue
    <3> QED
      BY <2>1, <3>1 DEF RunInv, TypeOK
  <2>4. TypeOK'
    BY <2>1, <2>3 DEF RunInv, TypeOK, Phases
  <2>5. AtFile' /\ SelectionsFresh' /\ FindingsCurrent'
    BY <2>1 DEF RunInv, AtFile, SelectionsFresh, FindingsCurrent, OneFile, packageMode, Seen
  <2>6. StatusTrue'
    BY <2>1, <2>3 DEF RunInv, StatusTrue, Fixed, Possibly, diff
  <2> QED
    BY <2>1, <2>4, <2>5, <2>6, NotDone DEF RunInv
<1> QED
  BY <1>1, <1>2, <1>3 DEF Snapshot

(* The files still to come are analyzed as they are now. *)
LEMMA ReanalyzeStep == ASSUME RunInv, Reanalyze PROVE RunInv'
<1>1. CASE Fails(ToolFailures \cup Canceled)
  BY <1>1, FailsStep, FailureCodes DEF Reanalyze
<1>2. CASE ~Fails(ToolFailures \cup Canceled)
  <2>1. packageMode /\ index \in Files
    BY DEF RunInv, AtFile, OneFile, Reanalyze
  <2>2. /\ phase' = "refresh"
        /\ basis' = [f \in Files |-> IF f \in Remaining THEN changed ELSE basis[f]]
        /\ result' = [f \in Files |-> IF f \in Remaining THEN changed ELSE result[f]]
        /\ current' = current \cup Remaining
        /\ UNCHANGED <<invocation, index, stale, changed, status, rejected, applied>>
    BY <1>2 DEF Reanalyze
  <2>3. TypeOK'
    <3>1. basis' \in [Files -> SUBSET Files] /\ result' \in [Files -> SUBSET Files]
      BY <2>2 DEF RunInv, TypeOK
    <3>2. current' \subseteq Files
      BY <2>2 DEF RunInv, TypeOK, Remaining
    <3> QED
      BY <2>2, <3>1, <3>2 DEF RunInv, TypeOK, Phases
  <2>4. AtFile' /\ FindingsCurrent'
    BY <2>1, <2>2 DEF RunInv, AtFile, FindingsCurrent, OneFile, packageMode
  <2>5. SelectionsFresh'
    BY <2>2 DEF RunInv, SelectionsFresh, Remaining
  <2>6. StatusTrue'
    BY <2>2 DEF RunInv, StatusTrue, Fixed, Possibly, diff, Reanalyze
  <2> QED
    BY <2>2, <2>3, <2>4, <2>5, <2>6, NotDone DEF RunInv
<1> QED
  BY <1>1, <1>2

(* A stale mark leads to a new analysis, and to no fix before it. *)
LEMMA NextFileStep == ASSUME RunInv, NextFile PROVE RunInv'
<1>1. CASE Fails({ExitCanceled})
  BY <1>1, FailsStep, FailureCodes DEF NextFile
<1>2. CASE ~Fails({ExitCanceled})
  <2>1. index \in Files
    BY FileCountAssumption DEF RunInv, TypeOK, MoreFiles, Files, NextFile
  <2>2. /\ \/ phase' = "reanalyze" /\ packageMode
           \/ phase' = "validate" /\ ~(packageMode /\ stale)
        /\ UNCHANGED <<invocation, index, stale, basis, result, current, changed, status,
                       rejected, applied>>
    BY <1>2 DEF NextFile
  <2>3. TypeOK'
    BY <2>2 DEF RunInv, TypeOK, Phases
  <2>4. AtFile' /\ SelectionsFresh' /\ FindingsCurrent'
    BY <2>1, <2>2 DEF RunInv, AtFile, SelectionsFresh, FindingsCurrent, OneFile, packageMode, Seen,
                      NextFile
  <2>5. StatusTrue'
    BY <2>2 DEF RunInv, StatusTrue, Fixed, Possibly, diff, NextFile
  <2> QED
    BY <2>2, <2>3, <2>4, <2>5, NotDone DEF RunInv
<1> QED
  BY <1>1, <1>2

(* What the steps on one file start from. *)
LEMMA AtOneFile ==
  ASSUME RunInv, phase \in {"validate", "replace"}
  PROVE  /\ index \in Files /\ index \in 1..FileCount /\ index \in Nat
         /\ index + 1 \in 1..(FileCount + 1)
         /\ \A f \in Files : f >= index + 1 => f >= index /\ f # index
BY FileCountAssumption DEF RunInv, AtFile, OneFile, Files

(* A file that is left as it is: only its status is set. *)
LEMMA FileLeft ==
  ASSUME RunInv, phase = "validate", NEW shown \in {"conflict", "unchanged"},
         status' = [status EXCEPT ![index] = shown], rejected' \subseteq rejected \cup {index},
         Advance, UNCHANGED <<invocation, stale, basis, result, current, changed, applied>>
  PROVE  RunInv'
<1>1. /\ index \in Files /\ index + 1 \in 1..(FileCount + 1)
      /\ \A f \in Files : f >= index + 1 => f >= index /\ f # index
  BY AtOneFile
<1>2. status' = [status EXCEPT ![index] = shown] /\ rejected' \subseteq rejected \cup {index}
  OBVIOUS
<1>3. /\ phase = "validate" /\ phase' = "loop" /\ index' = index + 1
      /\ UNCHANGED <<invocation, stale, basis, result, current, changed, applied>>
  BY DEF Advance
<1>4. TypeOK'
  BY <1>1, <1>2, <1>3 DEF RunInv, TypeOK, Phases, Statuses
<1>5. AtFile' /\ SelectionsFresh' /\ FindingsCurrent'
  BY <1>1, <1>3 DEF RunInv, AtFile, SelectionsFresh, FindingsCurrent, OneFile, packageMode, Seen
<1>6. StatusTrue'
  <2>1. index \notin changed \cup applied /\ status[index] = "pending"
    BY <1>1, FileCountAssumption, <1>3 DEF RunInv, StatusTrue, Files
  <2>2. Fixed(status') = Fixed(status) /\ Possibly(status') = Possibly(status)
    BY <1>1, <1>2, <2>1 DEF RunInv, TypeOK, Fixed, Possibly
  <2>3. \A f \in Files \ {index} : status'[f] = status[f]
    BY <1>2 DEF RunInv, TypeOK
  <2> QED
    BY <1>1, <1>3, <2>1, <2>2, <2>3 DEF RunInv, StatusTrue, TypeOK, diff
<1> QED
  BY <1>3, <1>4, <1>5, <1>6, NotDone DEF RunInv

(* A file without a fix that validates. *)
LEMMA LeaveFileStep == ASSUME RunInv, LeaveFile PROVE RunInv'
<1>1. PICK conflict \in BOOLEAN : Unwritten(conflict)
  BY DEF LeaveFile
<1>2. PICK shown \in {"conflict", "unchanged"} :
        /\ status' = [status EXCEPT ![index] = shown]
        /\ rejected' \subseteq rejected \cup {index}
  BY <1>1 DEF Unwritten
<1> QED
  BY <1>2, FileLeft DEF LeaveFile

(* The preview of such a file finds another one. *)
LEMMA PreviewStaleStep == ASSUME RunInv, PreviewStale PROVE RunInv'
<1>1. rejected' \subseteq rejected \cup {index}
  BY DEF PreviewStale
<1> QED
  BY <1>1, FileLeft DEF PreviewStale

(* The fixed text validates: nothing is written yet. *)
LEMMA ValidateFileStep == ASSUME RunInv, ValidateFile PROVE RunInv'
<1>1. index \in Files
  BY AtOneFile DEF ValidateFile
<1>2. /\ phase = "validate" /\ phase' = "replace"
      /\ UNCHANGED <<invocation, index, stale, basis, result, current, changed, status, applied>>
      /\ rejected' \subseteq rejected \cup {index}
  BY DEF ValidateFile
<1>3. TypeOK'
  BY <1>1, <1>2 DEF RunInv, TypeOK, Phases
<1>4. AtFile' /\ SelectionsFresh' /\ FindingsCurrent'
  BY <1>1, <1>2 DEF RunInv, AtFile, SelectionsFresh, FindingsCurrent, OneFile, packageMode, Seen
<1>5. StatusTrue'
  BY <1>2 DEF RunInv, StatusTrue, Fixed, Possibly, diff
<1> QED
  BY <1>2, <1>3, <1>4, <1>5, NotDone DEF RunInv

(* The run stops at a file before it wrote to it: the files before are named. *)
LEMMA StopsUnwritten ==
  ASSUME RunInv, phase = "validate", NEW shown \in {"conflict", "unchanged"}, NEW code \in Codes,
         status' = [status EXCEPT ![index] = shown], rejected' \subseteq rejected \cup {index},
         StopWith(code, status'),
         UNCHANGED <<invocation, index, stale, basis, result, current, changed, applied>>
  PROVE  RunInv'
<1>1. index \in Files
  BY AtOneFile
<1>2. Fixed(status') = Fixed(status) /\ Possibly(status') = Possibly(status)
  <2>1. status[index] = "pending"
    BY <1>1, AtOneFile DEF RunInv, StatusTrue
  <2> QED
    BY <1>1, <2>1 DEF RunInv, TypeOK, Fixed, Possibly
<1>3. ~diff => Fixed(status) = changed /\ Possibly(status) = {}
  BY DEF RunInv, StatusTrue
<1>4. phase' = "done" /\ ReportTrue' /\ ReportCurrent'
  BY <1>2, <1>3, StopTrue
<1>5. TypeOK'
  BY <1>1, <1>4 DEF RunInv, TypeOK, Phases, Statuses
<1> QED
  BY <1>4, <1>5, DoneKeeps

(* The validating analysis fails as a whole. *)
LEMMA ValidationFailsStep == ASSUME RunInv, ValidationFails PROVE RunInv'
<1>1. PICK conflict \in BOOLEAN : Unwritten(conflict)
  BY DEF ValidationFails
<1>2. PICK shown \in {"conflict", "unchanged"} :
        /\ status' = [status EXCEPT ![index] = shown]
        /\ rejected' \subseteq rejected \cup {index}
  BY <1>1 DEF Unwritten
<1>3. PICK code \in {ExitSourceError, ExitInternalError} \cup Canceled : StopWith(code, status')
  BY DEF ValidationFails
<1>4. code \in Codes
  BY <1>3 DEF Codes, Canceled, ExitSourceError, ExitInternalError, ExitCanceled
<1> QED
  BY <1>2, <1>3, <1>4, StopsUnwritten DEF ValidationFails

(* The preview of a file that keeps its text cannot look at it. *)
LEMMA PreviewFailsStep == ASSUME RunInv, PreviewFails PROVE RunInv'
<1>1. PICK conflict \in BOOLEAN : Unwritten(conflict)
  BY DEF PreviewFails
<1>2. PICK shown \in {"conflict", "unchanged"} :
        /\ status' = [status EXCEPT ![index] = shown]
        /\ rejected' \subseteq rejected \cup {index}
  BY <1>1 DEF Unwritten
<1>3. ExitFilesystemError \in Codes
  BY DEF Codes, ExitFilesystemError
<1> QED
  BY <1>2, <1>3, StopsUnwritten DEF PreviewFails

(* The fixes of a file cannot be coordinated. *)
LEMMA CoordinationFailsStep == ASSUME RunInv, CoordinationFails PROVE RunInv'
<1>1. ExitFilesystemError \in Codes
  BY DEF Codes, ExitFilesystemError
<1>2. /\ status' = [status EXCEPT ![index] = "unchanged"]
      /\ rejected' \subseteq rejected \cup {index}
  BY DEF CoordinationFails
<1> QED
  BY <1>1, <1>2, StopsUnwritten DEF CoordinationFails

(* The file is fixed: the selections after it are marked stale. *)
LEMMA ReplaceFileStep == ASSUME RunInv, ReplaceFile PROVE RunInv'
<1>1. /\ index \in Files /\ index + 1 \in 1..(FileCount + 1) /\ index \in Nat
      /\ \A f \in Files : f >= index + 1 => f >= index /\ f # index
  BY AtOneFile DEF ReplaceFile
<1>2. /\ phase = "replace" /\ phase' = "loop" /\ index' = index + 1
      /\ applied' = applied \cup {index} /\ changed' = changed \cup {index}
      /\ result' = [result EXCEPT ![index] = Validated]
      /\ status' = [status EXCEPT ![index] = IF diff THEN NotPerformed ELSE "fixed"]
      /\ stale' = (stale \/ packageMode)
      /\ UNCHANGED <<invocation, basis, current, rejected>>
  BY DEF ReplaceFile, Apply, Advance, StaleAfterFix
<1>3. status[index] = "pending" /\ index \notin changed \cup applied
  BY <1>1, <1>2 DEF RunInv, StatusTrue
<1>4. TypeOK'
  <2>1. Validated \in SUBSET Files
    BY <1>1 DEF RunInv, TypeOK, Validated
  <2>2. result' \in [Files -> SUBSET Files]
    BY <1>1, <1>2, <2>1 DEF RunInv, TypeOK
  <2>3. status' \in [Files -> Statuses]
    BY <1>1, <1>2 DEF RunInv, TypeOK, Statuses, NotPerformed
  <2> QED
    BY <1>1, <1>2, <2>2, <2>3 DEF RunInv, TypeOK, Phases
<1>5. AtFile' /\ SelectionsFresh'
  BY <1>1, <1>2 DEF RunInv, AtFile, SelectionsFresh, OneFile, packageMode
<1>6. FindingsCurrent'
  <2>1. ASSUME ~packageMode, NEW f \in Files
        PROVE  result'[f] = changed' \cap {f}
    <3>1. result[f] = changed \cap {f}
      BY <1>2, <2>1 DEF RunInv, FindingsCurrent, Seen
    <3>2. CASE f = index
      BY <1>1, <1>2, <2>1, <3>2 DEF RunInv, TypeOK, Validated
    <3>3. CASE f # index
      BY <1>1, <1>2, <3>1, <3>3 DEF RunInv, TypeOK
    <3> QED
      BY <3>2, <3>3
  <2> QED
    BY <1>2, <2>1 DEF FindingsCurrent, packageMode, Seen
<1>7. StatusTrue'
  <2>1. \A f \in Files \ {index} : status'[f] = status[f]
    BY <1>2 DEF RunInv, TypeOK
  <2>2. Possibly(status') = Possibly(status)
    BY <1>1, <1>2, <1>3 DEF RunInv, TypeOK, Possibly, NotPerformed
  <2>3. ~diff => Fixed(status') = Fixed(status) \cup {index}
    BY <1>1, <1>2 DEF RunInv, TypeOK, Fixed
  <2> QED
    BY <1>1, <1>2, <2>1, <2>2, <2>3 DEF RunInv, StatusTrue, TypeOK, diff
<1> QED
  BY <1>2, <1>4, <1>5, <1>6, <1>7, NotDone DEF RunInv

(* The file was not touched: its fix was applied to nothing, and a conflict says so. *)
LEMMA ReplaceStaleStep == ASSUME RunInv, ReplaceStale PROVE RunInv'
<1>1. /\ index \in Files /\ index + 1 \in 1..(FileCount + 1) /\ index \in Nat
      /\ \A f \in Files : f >= index + 1 => f >= index /\ f # index
  BY AtOneFile DEF ReplaceStale
<1>2. /\ phase = "replace" /\ phase' = "loop" /\ index' = index + 1
      /\ applied' = applied \cup {index}
      /\ status' = [status EXCEPT ![index] = "conflict"]
      /\ UNCHANGED <<invocation, stale, basis, result, current, changed, rejected>>
  BY DEF ReplaceStale, Apply, Advance
<1>3. status[index] = "pending" /\ index \notin changed \cup applied
  BY <1>1, <1>2 DEF RunInv, StatusTrue
<1>4. TypeOK'
  BY <1>1, <1>2 DEF RunInv, TypeOK, Phases, Statuses
<1>5. AtFile' /\ SelectionsFresh' /\ FindingsCurrent'
  BY <1>1, <1>2 DEF RunInv, AtFile, SelectionsFresh, FindingsCurrent, OneFile, packageMode, Seen
<1>6. StatusTrue'
  <2>1. \A f \in Files \ {index} : status'[f] = status[f]
    BY <1>2 DEF RunInv, TypeOK
  <2>2. Fixed(status') = Fixed(status) /\ Possibly(status') = Possibly(status)
    BY <1>1, <1>2, <1>3 DEF RunInv, TypeOK, Fixed, Possibly
  <2>3. status'[index] = "conflict"
    BY <1>1, <1>2 DEF RunInv, TypeOK
  <2> QED
    BY <1>1, <1>2, <2>1, <2>2, <2>3 DEF RunInv, StatusTrue, TypeOK, diff
<1> QED
  BY <1>2, <1>4, <1>5, <1>6, NotDone DEF RunInv

(* The replacement fails: the file is the one in doubt. *)
LEMMA ReplaceFailsStep == ASSUME RunInv, ReplaceFails PROVE RunInv'
<1>1. index \in Files
  BY AtOneFile DEF ReplaceFails
<1>2. /\ phase = "replace"
      /\ applied' = applied \cup {index}
      /\ \/ changed' = changed
         \/ ~diff /\ changed' = changed \cup {index}
      /\ result' = [result EXCEPT ![index] = Validated]
      /\ status' = [status EXCEPT ![index] = IF diff THEN NotPerformed ELSE "possibly_fixed"]
      /\ StopWith(ExitFilesystemError, status')
      /\ UNCHANGED <<invocation, index, basis, current, rejected>>
  BY DEF ReplaceFails, Apply
<1>3. status[index] = "pending"
  BY <1>1, <1>2 DEF RunInv, StatusTrue, Files
<1>4. ~diff => /\ Fixed(status') \subseteq changed'
               /\ changed' \subseteq Fixed(status') \cup Possibly(status')
               /\ Fixed(status') \cup Possibly(status') \subseteq changed' \cup {index}
  <2>1. SUFFICES ASSUME ~diff
                 PROVE  Fixed(status') = Fixed(status) /\ Possibly(status') = {index}
    BY <1>2, <2>1 DEF RunInv, StatusTrue
  <2>2. Possibly(status) = {}
    BY <1>2 DEF RunInv, StatusTrue
  <2> QED
    BY <1>1, <1>2, <1>3, <2>1, <2>2 DEF RunInv, TypeOK, Fixed, Possibly
<1>5. phase' = "done" /\ ReportTrue' /\ ReportCurrent'
  BY <1>2, <1>4, StopTrue DEF Codes, ExitFilesystemError
<1>6. TypeOK'
  <2>1. Validated \in SUBSET Files
    BY <1>1 DEF RunInv, TypeOK, Validated
  <2>2. result' \in [Files -> SUBSET Files]
    BY <1>1, <1>2, <2>1 DEF RunInv, TypeOK
  <2>3. status' \in [Files -> Statuses]
    BY <1>1, <1>2 DEF RunInv, TypeOK, Statuses, NotPerformed
  <2> QED
    BY <1>1, <1>2, <1>5, <2>2, <2>3 DEF RunInv, TypeOK, Phases
<1> QED
  BY <1>5, <1>6, DoneKeeps

(* The last analysis gives every file its present findings. *)
LEMMA FinalStep == ASSUME RunInv, Final PROVE RunInv'
<1>1. CASE Fails(ToolFailures \cup Canceled)
  BY <1>1, FailsStep, FailureCodes DEF Final
<1>2. CASE ~Fails(ToolFailures \cup Canceled)
  <2>1. /\ phase = "loop" /\ phase' = "final"
        /\ result' = [f \in Files |-> FinalResult(f)]
        /\ UNCHANGED <<invocation, index, stale, basis, current, changed, status, rejected,
                       applied>>
    BY <1>2 DEF Final
  <2>2. \A f \in Files : result'[f] = Seen(f)
    BY <2>1 DEF RunInv, FindingsCurrent, FinalResult, Seen
  <2>3. TypeOK'
    <3>1. result' \in [Files -> SUBSET Files]
      BY <2>1 DEF RunInv, TypeOK, FinalResult
    <3> QED
      BY <2>1, <3>1 DEF RunInv, TypeOK, Phases
  <2>4. AtFile' /\ SelectionsFresh'
    BY <2>1 DEF AtFile, SelectionsFresh, OneFile, packageMode
  <2>5. FindingsCurrent'
    BY <2>1, <2>2 DEF FindingsCurrent, Seen, packageMode
  <2>6. StatusTrue'
    BY <2>1 DEF RunInv, StatusTrue, Fixed, Possibly, diff
  <2> QED
    BY <2>1, <2>3, <2>4, <2>5, <2>6, NotDone DEF RunInv
<1> QED
  BY <1>1, <1>2

(* The changed lines are found: nothing else is touched. *)
LEMMA ScopeStep == ASSUME RunInv, Scope PROVE RunInv'
<1>1. CASE Fails(ToolFailures \cup Canceled) \/ Fails({ExitCanceled})
  BY <1>1, FailsStep, FailureCodes DEF Scope
<1>2. CASE ~Fails(ToolFailures \cup Canceled) /\ ~Fails({ExitCanceled})
  <2>1. /\ phase = "final" /\ phase' = "report"
        /\ UNCHANGED <<invocation, index, stale, basis, result, current, changed, status,
                       rejected, applied>>
    BY <1>2 DEF Scope
  <2>2. TypeOK'
    BY <2>1 DEF RunInv, TypeOK, Phases
  <2>3. AtFile' /\ SelectionsFresh' /\ FindingsCurrent'
    BY <2>1 DEF RunInv, AtFile, SelectionsFresh, FindingsCurrent, OneFile, packageMode, Seen
  <2>4. StatusTrue'
    BY <2>1 DEF RunInv, StatusTrue, Fixed, Possibly, diff
  <2> QED
    BY <2>1, <2>2, <2>3, <2>4, NotDone DEF RunInv
<1> QED
  BY <1>1, <1>2

(* The last report: a fix that is not there is of a file with a conflict, and the *)
(* code says so.                                                                  *)
LEMMA ReportStep == ASSUME RunInv, Report PROVE RunInv'
<1>1. /\ phase = "report" /\ phase' = "done"
      /\ UNCHANGED <<invocation, index, stale, basis, result, current, changed, status, rejected,
                     applied>>
  BY DEF Report
<1>2. PICK code \in ExitCodes :
        exit' \in
          CASE reporter = "json" -> reportLintFixJSON(code, TRUE, status)
            [] reporter = "integration" -> reportIntegrationOutput(code, TRUE)
            [] OTHER -> {Exit(code, TRUE, TRUE, {}, {})}
                 \cup reportLintFixFailure(moreSevereExitCode(code, ExitInternalError), status)
                 \cup reportLintFixFailure(moreSevereExitCode(code, ExitFilesystemError), status)
  BY DEF Report
<1>3. /\ code \in Codes
      /\ ~(applied \subseteq changed) => code >= ExitConflict
  <2>1. applied \subseteq Files
    BY DEF RunInv, TypeOK
  <2>2. \A f \in applied \ changed : status[f] = "conflict"
    BY <1>1 DEF RunInv, StatusTrue
  <2> QED
    BY <2>1, <2>2 DEF ExitCodes, Codes, ExitConflict, ExitFindings, ExitSuccess
<1>4. /\ exit'.told =>
           /\ exit'.named \subseteq Fixed(status) \cup Possibly(status)
           /\ reporter = "json" \/ (reporter = "text" /\ ~exit'.complete)
                => Fixed(status) \cup Possibly(status) \subseteq exit'.named
           /\ exit'.certain \subseteq Fixed(status)
      /\ exit'.complete /\ code >= ExitConflict => exit'.code >= ExitConflict
  <2>1. CASE reporter = "json"
    BY <1>2, <1>3, <2>1, JSONSays
  <2>2. CASE reporter = "integration"
    BY <1>2, <1>3, <2>2, IntegrationSays
  <2>3. CASE reporter \notin {"json", "integration"}
    <3>1. CASE exit' = Exit(code, TRUE, TRUE, {}, {})
      BY <2>3, <3>1 DEF Exit
    <3>2. CASE \E other \in {ExitInternalError, ExitFilesystemError} :
                 exit' \in reportLintFixFailure(moreSevereExitCode(code, other), status)
      BY <1>3, <3>2, MoreSevere, FailureSays
    <3> QED
      BY <1>2, <2>3, <3>1, <3>2
  <2> QED
    BY <2>1, <2>2, <2>3
<1>5. ReportTrue'
  BY <1>1, <1>3, <1>4 DEF RunInv, StatusTrue, ReportTrue, diff, reporter
<1>6. ReportCurrent'
  BY <1>1 DEF RunInv, FindingsCurrent, ReportCurrent, Seen, packageMode
<1>7. TypeOK'
  BY <1>1 DEF RunInv, TypeOK, Phases
<1> QED
  BY <1>1, <1>5, <1>6, <1>7, DoneKeeps

(* What the environment does changes nothing the invariant speaks of. *)
LEMMA EnvironmentStep ==
  ASSUME RunInv, current' \subseteq Files,
         UNCHANGED <<invocation, phase, index, stale, basis, result, changed, status, rejected,
                     applied, exit>>
  PROVE  RunInv'
<1>1. TypeOK'
  BY DEF RunInv, TypeOK
<1>2. AtFile' /\ SelectionsFresh' /\ FindingsCurrent'
  BY DEF RunInv, AtFile, SelectionsFresh, FindingsCurrent, OneFile, packageMode, Seen
<1>3. StatusTrue'
  BY DEF RunInv, StatusTrue, Fixed, Possibly, diff
<1>4. ReportTrue' /\ ReportCurrent'
  BY DEF RunInv, ReportTrue, ReportCurrent, diff, reporter, Seen, packageMode
<1> QED
  BY <1>1, <1>2, <1>3, <1>4 DEF RunInv

(* Every step keeps the invariant. *)
LEMMA NextInv == ASSUME RunInv, [Next]_vars PROVE RunInv'
<1>1. CASE FirstSnapshot
  BY <1>1, SnapshotStep DEF FirstSnapshot
<1>2. CASE Refresh
  BY <1>2, SnapshotStep DEF Refresh
<1>3. CASE EndContext \/ UNCHANGED vars
  BY <1>3, EnvironmentStep DEF EndContext, vars, RunInv, TypeOK
<1>4. CASE Edit
  BY <1>4, EnvironmentStep DEF Edit, RunInv, TypeOK
<1> QED
  BY <1>1, <1>2, <1>3, <1>4, AnalyzeStep, NextFileStep, ReanalyzeStep, LeaveFileStep,
     ValidateFileStep, PreviewStaleStep, PreviewFailsStep, CoordinationFailsStep,
     ValidationFailsStep, ReplaceFileStep, ReplaceStaleStep, ReplaceFailsStep, FinalStep,
     ScopeStep, ReportStep DEF Next

(* A file comes to hold a fix only where it is replaced, with a selection that is fresh. *)
LEMMA FixIsFresh ==
  ASSUME RunInv, [Next]_vars
  PROVE  \A f \in changed' \ changed : packageMode => basis[f] = changed
<1>1. SUFFICES ASSUME NEW f \in changed' \ changed, packageMode
               PROVE  basis[f] = changed
  OBVIOUS
<1>2. phase = "replace" /\ f = index
  BY <1>1 DEF Next, vars, Analyze, FirstSnapshot, Snapshot, NextFile, Reanalyze, Refresh,
              LeaveFile, ValidateFile, PreviewStale, PreviewFails, CoordinationFails,
              ValidationFails, ReplaceFile, ReplaceStale, ReplaceFails,
              Final, Scope, Report, EndContext, Edit, Fails
<1>3. index \in Files /\ index >= index
  BY <1>2, AtOneFile
<1> QED
  BY <1>1, <1>2, <1>3 DEF RunInv, SelectionsFresh

-----------------------------------------------------------------------------
(* The theorems. *)

(* The invariant holds in every run. *)
THEOREM Invariance == Spec => []RunInv
<1>1. Init => RunInv
  BY InitInv
<1>2. RunInv /\ [Next]_vars => RunInv'
  BY NextInv
<1> QED
  BY <1>1, <1>2, PTL DEF Spec

(* The variables of a fix run keep their types. *)
THEOREM TypeCorrect == Spec => []TypeOK
<1>1. RunInv => TypeOK
  BY DEF RunInv
<1> QED
  BY <1>1, Invariance, PTL

(* runLintFix never applies a fix that was selected before an earlier fix of the package. *)
THEOREM SelectionsNeverStale == Spec => FreshSelections
<1>1. RunInv /\ [Next]_vars
        => [\A f \in changed' \ changed : packageMode => basis[f] = changed]_vars
  BY FixIsFresh
<1> QED
  BY <1>1, Invariance, PTL DEF Spec, FreshSelections

(* Wherever a run stops, its text or JSON report names every file it replaced or may   *)
(* have replaced, and so does the JSON report of its end; no report calls a file fixed  *)
(* that is not; and a fix that was validated and not written costs the run its success. *)
THEOREM ReportsTrue == Spec => []ReportTrue
<1>1. RunInv => ReportTrue
  BY DEF RunInv
<1> QED
  BY <1>1, Invariance, PTL

(* The findings of a complete report are of the files as the run leaves them. *)
THEOREM FindingsOfFinalFiles == Spec => []ReportCurrent
<1>1. RunInv => ReportCurrent
  BY DEF RunInv
<1> QED
  BY <1>1, Invariance, PTL
=============================================================================
