------------------------------- MODULE FixRun -------------------------------
(***************************************************************************)
(* internal/cli/lint.go: runLintFix, glippy lint --fix on several files, and  *)
(* CoordinateAndReplace of internal/fix, one file after the other. When rules *)
(* look at the whole package, a fix written to one file makes the findings of *)
(* the files after it stale: they are found anew before the next is fixed,    *)
(* and all of them once more before the report. With --diff nothing is        *)
(* written and the fixed texts are an overlay of the package.                  *)
(*                                                                         *)
(* Other programs save files, the context ends, and analyses, replacements    *)
(* and outputs fail at any point. An analysis is the set of files that held   *)
(* this run's fixes when it was made. A replacement has the outcomes of       *)
(* AtomicReplace; what becomes of the selected fixes of a file is one of the   *)
(* outcomes of FixCoordinator.                                               *)
(***************************************************************************)
EXTENDS Integers, FiniteSets

CONSTANTS
  FileCount,   \* how many files are linted
  MaxEdits     \* BOUND on the files other programs save

ASSUME FileCountAssumption == FileCount \in Nat /\ MaxEdits \in Nat

VARIABLES
  invocation,     \* packageMode, diff and reporter
  contextEnded,
  phase,
  index,          \* the execution at hand
  stale,          \* packageSelectionsStale
  basis,          \* the analysis the selections of each file are from
  result,         \* the analysis the reported findings of each file are from
  current,        \* files no other program changed since the analysis or the snapshot
  changed,        \* files that hold a fix of this run, on disk or in the overlay
  status,         \* outcome.Status of each execution
  rejected,       \* executions with a fix that was rejected for a conflict
  applied,        \* executions with a fixed text that validated and was to be written
  edits,          \* how many files other programs saved
  exit

vars == <<invocation, contextEnded, phase, index, stale, basis, result, current, changed,
          status, rejected, applied, edits, exit>>

Files == 1..FileCount
Reporters == {"text", "json", "integration"}
Statuses == {"pending", "unchanged", "fixed", "conflict", "possibly_fixed"}
Phases == {"analyze", "snapshot", "loop", "reanalyze", "refresh", "validate", "replace",
           "final", "report", "done"}
ExitSuccess == 0
ExitFindings == 1
ExitSourceError == 2
ExitConflict == 4
ExitFilesystemError == 5
ExitInternalError == 6
ExitCanceled == 130

(* What makes an analysis fail: sources, configuration, conflict, files, the tool. *)
ToolFailures == {2, 3, 5, 6}

moreSevereExitCode(left, right) ==
  IF ExitCanceled \in {left, right} THEN ExitCanceled ELSE IF left > right THEN left ELSE right

packageMode == invocation.packageMode
diff == invocation.diff
reporter == invocation.reporter

Running == [code |-> -1, complete |-> FALSE, told |-> FALSE, named |-> {}, certain |-> {}]

(* Only the text report shows a preview. *)
Invocations ==
  {i \in [packageMode : BOOLEAN, diff : BOOLEAN, reporter : Reporters] :
     i.diff => i.reporter = "text"}

Init ==
  /\ invocation \in Invocations
  /\ contextEnded = FALSE
  /\ phase = "analyze"
  /\ index = 1
  /\ stale = FALSE
  /\ basis = [f \in Files |-> {}]
  /\ result = [f \in Files |-> {}]
  /\ current = Files
  /\ changed = {}
  /\ status = [f \in Files |-> "pending"]
  /\ rejected = {}
  /\ applied = {}
  /\ edits = 0
  /\ exit = Running

-----------------------------------------------------------------------------
(* Reports. *)

Exit(code, complete, told, named, certain) ==
  [code |-> code, complete |-> complete, told |-> told, named |-> named, certain |-> certain]

Fixed(files) == {f \in Files : files[f] = "fixed"}
Possibly(files) == {f \in Files : files[f] = "possibly_fixed"}

(* report: when standard error fails too, nothing is told. *)
report(code, complete, named, certain) ==
  {Exit(code, complete, TRUE, named, certain),
   Exit(IF code < ExitFilesystemError THEN ExitFilesystemError ELSE code,
        complete, FALSE, {}, {})}

(* completedLintFixPaths and the headings that go with it. *)
Completed(code, complete, files) ==
  report(code, complete, Fixed(files) \cup Possibly(files),
         IF Possibly(files) = {} THEN Fixed(files) ELSE {})

(* The JSON report: written with the status of every file, or standard error    *)
(* says why not and names the files.                                           *)
reportLintFixJSON(code, complete, files) ==
  {Exit(code, complete, TRUE, Fixed(files) \cup Possibly(files), Fixed(files))}
    \cup Completed(moreSevereExitCode(code, ExitInternalError), complete, files)
    \cup Completed(moreSevereExitCode(code, ExitFilesystemError), complete, files)

(* The reports for GitHub and SARIF say what was found, never what was replaced. *)
reportIntegrationOutput(code, complete) ==
  {Exit(code, complete, TRUE, {}, {})}
    \cup report(moreSevereExitCode(code, ExitInternalError), complete, {}, {})
    \cup report(moreSevereExitCode(code, ExitFilesystemError), complete, {}, {})

reportLintFixFailure(code, files) ==
  CASE reporter = "json" -> reportLintFixJSON(code, FALSE, files)
    [] reporter = "integration" -> reportIntegrationOutput(code, FALSE)
    [] OTHER -> Completed(code, FALSE, files)

StopWith(code, files) ==
  /\ phase' = "done"
  /\ exit' \in reportLintFixFailure(code, files)

(* A step that fails with a code of the tool, or because the context ended. *)
Fails(codes) ==
  /\ \E code \in codes : StopWith(code, status)
  /\ UNCHANGED <<invocation, contextEnded, index, stale, basis, result, current, changed,
                 status, rejected, applied, edits>>

Canceled == IF contextEnded THEN {ExitCanceled} ELSE {}

-----------------------------------------------------------------------------
(* Analyses. *)

(* The analysis of the whole package reads the disk and the overlay as they are; the *)
(* analysis of one file reads that file.                                              *)
Seen(f) == IF packageMode THEN changed ELSE changed \cap {f}

(* The first analysis, of every file. *)
Analyze ==
  /\ phase = "analyze"
  /\ \/ Fails(ToolFailures \cup Canceled)
     \/ /\ phase' = "snapshot"
        /\ basis' = [f \in Files |-> Seen(f)]
        /\ result' = basis'
        /\ current' = Files
        /\ UNCHANGED <<invocation, contextEnded, index, stale, changed, status, rejected,
                       applied, edits, exit>>

(* prepareLintPackageSnapshot: a file that is not as the analysis saw it ends the run. *)
(* Without a package the snapshot comes first and the analysis is of its bytes.        *)
Snapshot(files, next) ==
  \/ Fails(ToolFailures \cup Canceled)
  \/ packageMode /\ ~(files \subseteq current) /\ Fails({ExitConflict})
  \/ /\ packageMode => files \subseteq current
     /\ phase' = next
     /\ UNCHANGED <<invocation, contextEnded, index, basis, result, current, changed, rejected,
                    applied, edits, exit>>
     /\ stale' = FALSE
     /\ status' = [f \in Files |-> IF f \in files THEN "pending" ELSE status[f]]

FirstSnapshot == phase = "snapshot" /\ Snapshot(Files, "loop")

\* Mutant: a refresh begins again with every file.
AllFiles == Files

Remaining == {f \in Files : f >= index}

(* refreshLintPackageFixExecutions: the files not yet fixed are found and read anew. *)
Reanalyze ==
  /\ phase = "reanalyze"
  /\ \/ Fails(ToolFailures \cup Canceled)
     \/ /\ phase' = "refresh"
        /\ basis' = [f \in Files |-> IF f \in Remaining THEN changed ELSE basis[f]]
        /\ result' = [f \in Files |-> IF f \in Remaining THEN changed ELSE result[f]]
        /\ current' = current \cup Remaining
        /\ UNCHANGED <<invocation, contextEnded, index, stale, changed, status, rejected,
                       applied, edits, exit>>

Refresh == phase = "refresh" /\ Snapshot(Remaining, "validate")

-----------------------------------------------------------------------------
(* One file. *)

\* Mutant: the loop runs once too often.
MoreFilesBeyond == index <= FileCount + 1

MoreFiles == index <= FileCount

NextFile ==
  /\ phase = "loop"
  /\ MoreFiles
  /\ \/ contextEnded /\ Fails({ExitCanceled})
     \/ /\ ~contextEnded
        /\ phase' = IF packageMode /\ stale THEN "reanalyze" ELSE "validate"
        /\ UNCHANGED <<invocation, contextEnded, index, stale, basis, result, current, changed,
                       status, rejected, applied, edits, exit>>

Advance ==
  /\ phase' = "loop"
  /\ index' = index + 1

(* Without a replacement a file shows only whether a fix of it was rejected for a conflict. *)
Unwritten(conflict) ==
  /\ status' = [status EXCEPT ![index] = IF conflict THEN "conflict" ELSE "unchanged"]
  /\ rejected' = IF conflict THEN rejected \cup {index} ELSE rejected

(* Nothing is replaced: no fix was selected, all were rejected, some for a conflict, or *)
(* the fixed text is the text. The findings are those before, or of the validation. A   *)
(* preview looks whether the file is the one of the snapshot all the same.              *)
LeaveFile ==
  /\ phase = "validate"
  /\ diff => index \in current
  /\ Advance
  /\ \E conflict \in BOOLEAN : Unwritten(conflict)
  /\ UNCHANGED <<invocation, contextEnded, stale, basis, result, current, changed, applied,
                 edits, exit>>

(* The package is analyzed with the fixed text, and fixes remain that validate. *)
ValidateFile ==
  /\ phase = "validate"
  /\ phase' = "replace"
  /\ \E conflict \in BOOLEAN : rejected' = IF conflict THEN rejected \cup {index} ELSE rejected
  /\ UNCHANGED <<invocation, contextEnded, index, stale, basis, result, current, changed,
                 status, applied, edits, exit>>

(* The preview of a file that keeps its text finds another file, or cannot look. *)
PreviewStale ==
  /\ phase = "validate"
  /\ diff
  /\ Advance
  /\ status' = [status EXCEPT ![index] = "conflict"]
  /\ \E conflict \in BOOLEAN : rejected' = IF conflict THEN rejected \cup {index} ELSE rejected
  /\ UNCHANGED <<invocation, contextEnded, stale, basis, result, current, changed, applied,
                 edits, exit>>

PreviewFails ==
  /\ phase = "validate"
  /\ diff
  /\ \E conflict \in BOOLEAN : Unwritten(conflict)
  /\ StopWith(ExitFilesystemError, status')
  /\ UNCHANGED <<invocation, contextEnded, index, stale, basis, result, current, changed,
                 applied, edits>>

(* The text of the snapshot is not one that fixes can be coordinated on. *)
CoordinationFails ==
  /\ phase = "validate"
  /\ status' = [status EXCEPT ![index] = "unchanged"]
  /\ StopWith(ExitFilesystemError, status')
  /\ UNCHANGED <<invocation, contextEnded, index, stale, basis, result, current, changed,
                 rejected, applied, edits>>

(* This analysis fails as a whole: its fixes are rejected, and the run ends. *)
ValidationFails ==
  /\ phase = "validate"
  /\ \E conflict \in BOOLEAN : Unwritten(conflict)
  /\ \E code \in {ExitSourceError, ExitInternalError} \cup Canceled : StopWith(code, status')
  /\ UNCHANGED <<invocation, contextEnded, index, stale, basis, result, current, changed,
                 applied, edits>>

\* Mutant: a preview does not count as a change of the package.
StaleWhenWritten == stale \/ (packageMode /\ ~diff)

StaleAfterFix == stale \/ packageMode

(* The analysis that validated the fixed text. *)
Validated == IF packageMode THEN changed \cup {index} ELSE {index}

Apply == applied' = applied \cup {index}

(* Without a replacement a file shows only the conflict of its fixes. *)
NotPerformed == IF index \in rejected THEN "conflict" ELSE "unchanged"

(* The file is still the one of its snapshot when it is looked at: it is replaced, or *)
(* its fixed text is previewed.                                                       *)
ReplaceFile ==
  /\ phase = "replace"
  /\ index \in current
  /\ Apply
  /\ changed' = changed \cup {index}
  /\ result' = [result EXCEPT ![index] = Validated]
  /\ status' = [status EXCEPT ![index] = IF diff THEN NotPerformed ELSE "fixed"]
  /\ stale' = StaleAfterFix
  /\ Advance
  /\ UNCHANGED <<invocation, contextEnded, basis, current, rejected, edits, exit>>

(* It is reported stale and was not touched: it changed, before its turn or during the *)
(* call, or it could not be looked up or opened. The run goes on with the next file.   *)
ReplaceStale ==
  /\ phase = "replace"
  /\ Apply
  /\ status' = [status EXCEPT ![index] = "conflict"]
  /\ Advance
  /\ UNCHANGED <<invocation, contextEnded, stale, basis, result, current, changed, rejected,
                 edits, exit>>

(* The replacement fails, before or after the file was renamed. A preview writes nothing. *)
ReplaceFails ==
  /\ phase = "replace"
  /\ Apply
  /\ \/ UNCHANGED changed
     \/ ~diff /\ index \in current /\ changed' = changed \cup {index}
  /\ result' = [result EXCEPT ![index] = Validated]
  /\ status' = [status EXCEPT ![index] = IF diff THEN NotPerformed ELSE "possibly_fixed"]
  /\ StopWith(ExitFilesystemError, status')
  /\ UNCHANGED <<invocation, contextEnded, index, stale, basis, current, rejected, edits>>

-----------------------------------------------------------------------------
(* The end. *)

\* Mutant: the findings of the last refresh are kept.
FinalUnrefreshed(f) == result[f]

FinalResult(f) == IF packageMode THEN changed ELSE result[f]

(* refreshFinalLintPackageResults: the findings of every file, as it is now. *)
Final ==
  /\ phase = "loop"
  /\ ~MoreFiles
  /\ \/ packageMode /\ Fails(ToolFailures \cup Canceled)
     \/ /\ phase' = "final"
        /\ result' = [f \in Files |-> FinalResult(f)]
        /\ UNCHANGED <<invocation, contextEnded, index, stale, basis, current, changed, status,
                       rejected, applied, edits, exit>>

(* The changed lines are found anew, unless nothing was written, and the context checked. *)
Scope ==
  /\ phase = "final"
  /\ \/ ~diff /\ Fails(ToolFailures \cup Canceled)
     \/ contextEnded /\ Fails({ExitCanceled})
     \/ /\ ~contextEnded
        /\ phase' = "report"
        /\ UNCHANGED <<invocation, contextEnded, index, stale, basis, result, current, changed,
                       status, rejected, applied, edits, exit>>

(* lintFixExitCode: a conflict counts more than findings or a rejected fix, and a *)
(* preview counts as a finding.                                                     *)
ExitCodes ==
  IF rejected # {} \/ \E f \in Files : status[f] = "conflict" THEN {ExitConflict}
  ELSE IF diff /\ changed # {} THEN {ExitFindings}
  ELSE {ExitSuccess, ExitFindings}

(* The report of a run that got to its end. As text it says what was found and which *)
(* fixes were rejected, and names no file for having been fixed.                      *)
Report ==
  /\ phase = "report"
  /\ phase' = "done"
  /\ \E code \in ExitCodes :
       exit' \in
         CASE reporter = "json" -> reportLintFixJSON(code, TRUE, status)
           [] reporter = "integration" -> reportIntegrationOutput(code, TRUE)
           [] OTHER -> {Exit(code, TRUE, TRUE, {}, {})}
                \cup reportLintFixFailure(moreSevereExitCode(code, ExitInternalError), status)
                \cup reportLintFixFailure(moreSevereExitCode(code, ExitFilesystemError), status)
  /\ UNCHANGED <<invocation, contextEnded, index, stale, basis, result, current, changed,
                 status, rejected, applied, edits>>

-----------------------------------------------------------------------------
EndContext ==
  /\ phase # "done"
  /\ ~contextEnded
  /\ contextEnded' = TRUE
  /\ UNCHANGED <<invocation, phase, index, stale, basis, result, current, changed, status,
                 rejected, applied, edits, exit>>

(* Another program changes a file that is still to come. A change during the call that *)
(* replaces it is one the call may report, overwrite or not see: it is among the        *)
(* outcomes of that call.                                                               *)
Edit ==
  /\ phase \notin {"analyze", "done"}
  /\ edits < MaxEdits
  /\ edits' = edits + 1
  /\ \E f \in current :
       /\ f > index \/ (f = index /\ phase # "replace")
       /\ current' = current \ {f}
  /\ UNCHANGED <<invocation, contextEnded, phase, index, stale, basis, result, changed, status,
                 rejected, applied, exit>>

Next ==
  \/ Analyze
  \/ FirstSnapshot
  \/ NextFile
  \/ Reanalyze
  \/ Refresh
  \/ LeaveFile
  \/ ValidateFile
  \/ PreviewStale
  \/ PreviewFails
  \/ CoordinationFails
  \/ ValidationFails
  \/ ReplaceFile
  \/ ReplaceStale
  \/ ReplaceFails
  \/ Final
  \/ Scope
  \/ Report
  \/ EndContext
  \/ Edit

Spec == Init /\ [][Next]_vars

-----------------------------------------------------------------------------
(* Properties. *)

(* The variables have their types. *)
TypeOK ==
  /\ invocation \in Invocations
  /\ phase \in Phases
  /\ index \in 1..(FileCount + 1)
  /\ basis \in [Files -> SUBSET Files]
  /\ result \in [Files -> SUBSET Files]
  /\ current \subseteq Files
  /\ changed \subseteq Files
  /\ status \in [Files -> Statuses]
  /\ rejected \subseteq Files
  /\ applied \subseteq Files

(* Where rules look at the whole package, no fix is applied that was selected     *)
(* before an earlier fix of this run: it may be of code that is not there any     *)
(* more. The previews of --diff count as fixes.                                   *)
FreshSelections ==
  [][\A f \in changed' \ changed : packageMode => basis[f] = changed]_vars

(* A text or JSON report of a run that stops, and the JSON report of one that      *)
(* comes to its end, names every file the run replaced or may have replaced. No    *)
(* report calls a file fixed that is not, and one file at most is left in doubt.   *)
(* A run that comes to its end without a fix it validated says so with at least    *)
(* the exit code of a conflict. (What the reports for GitHub and SARIF leave out   *)
(* is CancellationReportsWrites.)                                                  *)
ReportTrue ==
  phase = "done" /\ exit.told =>
    /\ ~diff /\ (reporter = "json" \/ (reporter = "text" /\ ~exit.complete))
         => changed \subseteq exit.named
    /\ ~diff => exit.certain \subseteq changed /\ exit.named \ changed \subseteq {index}
    /\ exit.complete /\ ~(applied \subseteq changed) => exit.code >= ExitConflict

(* Cancellation reports the writes that were confirmed before it, whatever the     *)
(* reporter.                                                                       *)
CancellationReportsWrites ==
  phase = "done" /\ exit.told /\ exit.code = ExitCanceled /\ ~diff
    => Fixed(status) \subseteq exit.named

(* The findings a complete run reports are of the files as the run leaves them,   *)
(* also those of the files that came before the last one it fixed.                *)
ReportCurrent ==
  phase = "done" /\ exit.complete => \A f \in Files : result[f] = Seen(f)
=============================================================================
