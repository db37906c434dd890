---------------------------- MODULE FormatWrite ----------------------------
(***************************************************************************)
(* internal/cli/run.go: glippy fmt --write on several files. A pool of       *)
(* workers reads and formats every file, then the files are replaced one by  *)
(* one in the order of their paths, and what was replaced is disclosed when  *)
(* the run does not end well. The context may end at any moment, other       *)
(* programs save files, any call and any output may fail. A replacement is   *)
(* a call with the outcomes of AtomicReplace.                                *)
(***************************************************************************)
EXTENDS Integers, FiniteSets

CONSTANTS
  TaskCount,  \* how many files are selected
  Workers     \* the pool: boundedFormatWorkerLimit goroutines

ASSUME TaskCountAssumption == TaskCount \in Nat

VARIABLES
  fate,           \* what reading and formatting each file comes to
  contextEnded,   \* the invocation was canceled
  phase,          \* where the main goroutine is
  next,           \* the index it sends to the workers next
  closed,         \* the channel jobs is closed
  dispatchErr,    \* the context ended while indices were sent
  worker,         \* where each worker is and the task it has
  errorsByTask,   \* the error of each task that is done, else "none"
  prepared,       \* tasks whose result is set
  edited,         \* files another program changed between their read and their turn
  index,          \* the file replaced next
  written,        \* files whose path this run gave its output
  replaced,       \* files the run knows it replaced
  status,         \* the status of each file in the JSON report
  exit            \* the exit code and what the output names

poolVars == <<next, closed, dispatchErr, worker, errorsByTask, prepared>>
writeVars == <<index, written, replaced, status>>
vars == <<fate, contextEnded, phase, poolVars, edited, writeVars, exit>>

Tasks == 1..TaskCount
ExitSuccess == 0
ExitSourceError == 2
ExitConflict == 4
ExitFilesystemError == 5
ExitInternalError == 6
ExitCanceled == 130

(* What the work function comes to: a result, an error that stops it after the   *)
(* read (a symlink, a file that cannot be read or is too large), or a later one  *)
(* (a source that does not parse, a generated file, a formatter that fails).     *)
Unreadable == {"unreadable", "tooLarge"}
Unformattable == {"unparsable", "generated", "internal"}
Formattable == {"changed", "unchanged"}
Fates == Formattable \cup Unformattable \cup Unreadable
TaskErrors == Unreadable \cup Unformattable \cup {"canceled"}
Changed == {t \in Tasks : fate[t] = "changed"}

(* formatTaskError.exitCode, which the error of an ended context does not have. *)
TaskErrorCode ==
  [unreadable |-> ExitFilesystemError, tooLarge |-> ExitFilesystemError,
   generated |-> ExitFilesystemError, unparsable |-> ExitSourceError,
   internal |-> ExitInternalError]

formatTaskErrorSeverity(error) ==
  IF error \in DOMAIN TaskErrorCode THEN TaskErrorCode[error] ELSE ExitInternalError

(* exitCodeForError looks at what the error wraps before its own code counts. *)
formatTaskErrorExitCode(error) ==
  CASE error = "canceled" -> ExitCanceled
    [] error = "tooLarge" -> ExitSourceError
    [] OTHER -> TaskErrorCode[error]

Worse(t, u) ==
  LET a == formatTaskErrorSeverity(errorsByTask[t])
      b == formatTaskErrorSeverity(errorsByTask[u])
  IN  a > b \/ (a = b /\ t <= u)

FailedTasks == {t \in Tasks : errorsByTask[t] # "none"}

(* The first error of the highest severity, in the order of the tasks. *)
selectFormatTaskError ==
  errorsByTask[CHOOSE t \in FailedTasks : \A u \in FailedTasks : Worse(t, u)]

moreSevereExitCode(left, right) ==
  IF ExitCanceled \in {left, right} THEN ExitCanceled ELSE IF left > right THEN left ELSE right

Statuses ==
  {"pending", "unchanged", "formatted", "conflict", "failed", "possibly_formatted"}
Running ==
  [category |-> -1, code |-> -1, told |-> FALSE, named |-> {}, certain |-> {}]
Phases == {"discover", "dispatch", "wait", "write", "replace", "done"}

Init ==
  /\ fate \in [Tasks -> Fates]
  /\ contextEnded = FALSE
  /\ phase = "discover"
  /\ next = 1
  /\ closed = FALSE
  /\ dispatchErr = FALSE
  /\ worker = [w \in Workers |-> [pc |-> "receive", task |-> 0]]
  /\ errorsByTask = [t \in Tasks |-> "none"]
  /\ prepared = {}
  /\ edited = {}
  /\ index = 1
  /\ written = {}
  /\ replaced = {}
  /\ status = [t \in Tasks |-> "pending"]
  /\ exit = Running

-----------------------------------------------------------------------------
(* How a run ends: with a category, an exit code, and what its output names. *)

(* told: some output got out. named: the files it calls replaced or possibly *)
(* replaced. certain: those it calls replaced.                               *)
Silent(category, code) ==
  [category |-> category, code |-> code, told |-> FALSE, named |-> {}, certain |-> {}]
Telling(category, code, named, certain) ==
  [category |-> category, code |-> code, told |-> TRUE, named |-> named, certain |-> certain]

(* report: standard error takes the message, or the exit code becomes 5 at least. *)
report(category, code, named, certain) ==
  {Telling(category, code, named, certain),
   Silent(category, IF code < ExitFilesystemError THEN ExitFilesystemError ELSE code)}

WithDoubt(doubtful, files) == IF doubtful = {} THEN files ELSE {}

(* The text report of a failure names the replaced files and the doubtful one. *)
reportFormatWriteFailure(code, files, doubtful) ==
  report(code, code, files \cup doubtful, WithDoubt(doubtful, files))

(* The JSON report carries the status of every file; when standard output   *)
(* fails, standard error names the files that were or may be replaced.      *)
reportFormatJSON(code, files) ==
  LET sure == {t \in DOMAIN files : files[t] = "formatted"}
      doubtful == {t \in DOMAIN files : files[t] = "possibly_formatted"}
  IN  {Telling(code, code, sure \cup doubtful, sure)}
        \cup report(code, moreSevereExitCode(code, ExitFilesystemError),
                    sure \cup doubtful, WithDoubt(doubtful, sure))

Finish(reports) ==
  /\ phase' = "done"
  /\ exit' \in reports

(* The preparation fails: no file has a status yet. *)
StopUnprepared(code) ==
  Finish(report(code, code, {}, {}) \cup reportFormatJSON(code, <<>>))

(* The replacement fails; doubtful is the file that may have been replaced. *)
StopWriting(code, doubtful, files) ==
  Finish(reportFormatWriteFailure(code, replaced, doubtful) \cup reportFormatJSON(code, files))

-----------------------------------------------------------------------------
(* prepareFormatTasks: discovery and configuration, before any file is read. *)
Discover ==
  /\ phase = "discover"
  /\ \/ phase' = "dispatch" /\ UNCHANGED exit
     \/ \E code \in {2, 3, 5, 6} : StopUnprepared(code)
     \/ contextEnded /\ StopUnprepared(ExitCanceled)
  /\ UNCHANGED <<fate, contextEnded, poolVars, edited, writeVars>>

(* The main goroutine sends the next index; select may do so after the context ended. *)
Send(w) ==
  /\ phase = "dispatch"
  /\ next <= TaskCount
  /\ worker[w].pc = "receive"
  /\ worker' = [worker EXCEPT ![w] = [pc |-> "begin", task |-> next]]
  /\ next' = next + 1
  /\ UNCHANGED <<fate, contextEnded, phase, closed, dispatchErr, errorsByTask, prepared,
                 edited, writeVars, exit>>

DispatchCanceled ==
  /\ phase = "dispatch"
  /\ next <= TaskCount
  /\ contextEnded
  /\ dispatchErr' = TRUE

\* Mutant: nothing more is sent once a task has failed.
DispatchedUntilError == next > TaskCount \/ FailedTasks # {}

Dispatched == next > TaskCount

\* Mutant: a dispatch that the context ended leaves the channel open.
DispatchLeavingOpen ==
  /\ \/ DispatchCanceled
     \/ phase = "dispatch" /\ Dispatched /\ UNCHANGED dispatchErr
  /\ closed' = ~dispatchErr'
  /\ phase' = "wait"
  /\ UNCHANGED <<fate, contextEnded, next, worker, errorsByTask, prepared, edited,
                 writeVars, exit>>

Dispatch ==
  /\ \/ DispatchCanceled
     \/ phase = "dispatch" /\ Dispatched /\ UNCHANGED dispatchErr
  /\ closed' = TRUE
  /\ phase' = "wait"
  /\ UNCHANGED <<fate, contextEnded, next, worker, errorsByTask, prepared, edited,
                 writeVars, exit>>

-----------------------------------------------------------------------------
(* A worker. *)

(* The task of w is done, with an error or a result. *)
Return(w, error) ==
  LET t == worker[w].task IN
  /\ errorsByTask' = [errorsByTask EXCEPT ![t] = error]
  /\ prepared' = IF error = "none" THEN prepared \cup {t} ELSE prepared
  /\ worker' = [worker EXCEPT ![w] = [pc |-> "receive", task |-> 0]]

Go(w, pc) ==
  /\ worker' = [worker EXCEPT ![w].pc = pc]
  /\ UNCHANGED <<errorsByTask, prepared>>

(* The context is checked before the task is begun. *)
Begin(w) ==
  /\ worker[w].pc = "begin"
  /\ IF contextEnded THEN Return(w, "canceled") ELSE Go(w, "read")

(* The file is read and its version captured; the context is checked again. *)
Read(w) ==
  /\ worker[w].pc = "read"
  /\ LET outcome == fate[worker[w].task] IN
     IF outcome \in Unreadable THEN Return(w, outcome)
     ELSE IF contextEnded THEN Return(w, "canceled")
     ELSE Go(w, "format")

Format(w) ==
  /\ worker[w].pc = "format"
  /\ LET outcome == fate[worker[w].task] IN
     IF outcome \in Unformattable THEN Return(w, outcome)
     ELSE Return(w, IF contextEnded THEN "canceled" ELSE "none")

(* The channel is closed and empty. *)
Leave(w) ==
  /\ worker[w].pc = "receive"
  /\ closed
  /\ Go(w, "left")

Work(w) ==
  /\ Begin(w) \/ Read(w) \/ Format(w) \/ Leave(w)
  /\ UNCHANGED <<fate, contextEnded, phase, next, closed, dispatchErr, edited, writeVars, exit>>

-----------------------------------------------------------------------------
(* The results. *)

\* Mutant: the workers are not waited for.
JoinedAtOnce == TRUE

Joined == \A w \in Workers : worker[w].pc = "left"

(* The error of the dispatch, then of the context, then of the tasks. *)
Collect ==
  /\ phase = "wait"
  /\ Joined
  /\ IF dispatchErr \/ contextEnded
     THEN StopUnprepared(ExitCanceled)
     ELSE IF FailedTasks # {}
     THEN StopUnprepared(formatTaskErrorExitCode(selectFormatTaskError))
     ELSE phase' = "write" /\ UNCHANGED exit
  /\ UNCHANGED <<fate, contextEnded, poolVars, edited, writeVars>>

-----------------------------------------------------------------------------
(* The replacement, file by file. *)

\* Mutant: the loop runs once too often.
PendingBeyond == index <= TaskCount + 1

Pending == index <= TaskCount

(* The context is checked before each file. *)
NextFile ==
  /\ phase = "write"
  /\ Pending
  /\ IF contextEnded
     THEN StopWriting(ExitCanceled, {}, status)
     ELSE phase' = "replace" /\ UNCHANGED exit
  /\ UNCHANGED <<fate, contextEnded, poolVars, edited, writeVars>>

\* Mutant: an unchanged file is not validated.
ReplacedUnchecked ==
  /\ index \in edited => index \notin Changed
  /\ written' = written \cup ({index} \cap Changed)
  /\ replaced' = replaced \cup ({index} \cap Changed)
  /\ status' = [status EXCEPT ![index] = IF index \in Changed THEN "formatted" ELSE "unchanged"]
  /\ index' = index + 1
  /\ phase' = "write"
  /\ UNCHANGED exit

(* Snapshot.Replace succeeds: the file was still the one that was read when the *)
(* call validated it, and its path has got the output since.                   *)
Replaced ==
  /\ index \notin edited
  /\ written' = written \cup ({index} \cap Changed)
  /\ replaced' = replaced \cup ({index} \cap Changed)
  /\ status' = [status EXCEPT ![index] = IF index \in Changed THEN "formatted" ELSE "unchanged"]
  /\ index' = index + 1
  /\ phase' = "write"
  /\ UNCHANGED exit

(* It reports ErrStale and has not touched the file: the file changed, before its *)
(* turn or during the call, or it could not be looked up or opened.              *)
ReplaceStale ==
  /\ status' = [status EXCEPT ![index] = "conflict"]
  /\ StopWriting(ExitConflict, {}, status')
  /\ UNCHANGED <<index, written, replaced>>

\* Mutant: a failed replacement is taken to have left the file alone.
DoubtfulNever == {}

Doubtful == {index} \cap Changed

(* It fails otherwise: before the rename, or after it when the directory is not synced. *)
ReplaceFails ==
  /\ \/ UNCHANGED written
     \/ index \notin edited /\ written' = written \cup ({index} \cap Changed)
  /\ status' = [status EXCEPT ![index] =
                  IF Doubtful = {} THEN "failed" ELSE "possibly_formatted"]
  /\ StopWriting(ExitFilesystemError, Doubtful, status')
  /\ UNCHANGED <<index, replaced>>

Replace ==
  /\ phase = "replace"
  /\ Replaced \/ ReplaceStale \/ ReplaceFails
  /\ UNCHANGED <<fate, contextEnded, poolVars, edited>>

(* After the last file the context is checked once more; a text report of success is empty. *)
Complete ==
  /\ phase = "write"
  /\ ~Pending
  /\ IF contextEnded
     THEN StopWriting(ExitCanceled, {}, status)
     ELSE Finish({Telling(ExitSuccess, ExitSuccess, {}, {})}
                   \cup reportFormatJSON(ExitSuccess, status))
  /\ UNCHANGED <<fate, contextEnded, poolVars, edited, writeVars>>

-----------------------------------------------------------------------------
(* A signal, or the deadline of the caller. *)
EndContext ==
  /\ phase # "done"
  /\ ~contextEnded
  /\ contextEnded' = TRUE
  /\ UNCHANGED <<fate, phase, poolVars, edited, writeVars, exit>>

(* Another program gives a file another content, after it was read and before its *)
(* turn. A change during the call that replaces the file is one the call may      *)
(* report, overwrite or not see: it is among the outcomes of Replace.             *)
Edit ==
  /\ phase # "done"
  /\ \E t \in Tasks \ edited :
       /\ t > index \/ (t = index /\ phase # "replace")
       /\ t \in prepared \/ \E w \in Workers : worker[w] = [pc |-> "format", task |-> t]
       /\ edited' = edited \cup {t}
  /\ UNCHANGED <<fate, contextEnded, phase, poolVars, writeVars, exit>>

Main ==
  \/ Discover
  \/ \E w \in Workers : Send(w)
  \/ Dispatch
  \/ Collect
  \/ NextFile
  \/ Replace
  \/ Complete

Next ==
  \/ Main
  \/ \E w \in Workers : Work(w)
  \/ EndContext
  \/ Edit

Spec == Init /\ [][Next]_vars

(* The goroutines are scheduled, and a read, a format and a replacement return. *)
FairSpec == Spec /\ WF_vars(Main) /\ \A w \in Workers : WF_vars(Work(w))

-----------------------------------------------------------------------------
(* Properties. *)

(* The variables have their types. *)
TypeOK ==
  /\ fate \in [Tasks -> Fates]
  /\ contextEnded \in BOOLEAN
  /\ phase \in Phases
  /\ next \in 1..(TaskCount + 1)
  /\ closed \in BOOLEAN
  /\ dispatchErr \in BOOLEAN
  /\ worker \in [Workers -> [pc : {"receive", "begin", "read", "format", "left"},
                             task : 0..TaskCount]]
  /\ errorsByTask \in [Tasks -> TaskErrors \cup {"none"}]
  /\ prepared \subseteq Tasks
  /\ edited \subseteq Tasks
  /\ index \in 1..(TaskCount + 1)
  /\ written \subseteq Tasks
  /\ replaced \subseteq Tasks
  /\ status \in [Tasks -> Statuses]

(* No file is replaced before every file was read and formatted without error, *)
(* so a source that does not parse leaves all files alone.                     *)
PreparedFirst == written # {} => prepared = Tasks /\ FailedTasks = {}

(* The order in which the workers happen to run does not show: a run that       *)
(* stops at its tasks has tried all of them, once each, and reports the first   *)
(* in the order of the paths among the most severe.                             *)
FailureIndependent ==
  phase = "done" /\ next > 1 /\ index = 1 /\ exit.category \notin {ExitCanceled, ExitSuccess} =>
    \/ prepared = Tasks
    \/ \E t \in Tasks :
         /\ fate[t] \notin Formattable
         /\ exit.category = formatTaskErrorExitCode(fate[t])
         /\ \A u \in Tasks \ {t} : fate[u] \notin Formattable =>
              \/ formatTaskErrorSeverity(fate[t]) > formatTaskErrorSeverity(fate[u])
              \/ formatTaskErrorSeverity(fate[t]) = formatTaskErrorSeverity(fate[u]) /\ t < u

(* Unless neither output works, a run that fails names every file that holds   *)
(* its output, calls none replaced that is not, and leaves at most the file    *)
(* whose replacement failed in doubt.                                          *)
Disclosed ==
  phase = "done" /\ exit.told =>
    /\ exit.code # ExitSuccess => written \subseteq exit.named
    /\ exit.certain \subseteq written
    /\ exit.named \ written \subseteq {index} \cap Changed

(* Success means that every file that had to change was replaced and none was   *)
(* changed by another program before its turn, which no run overwrites. A       *)
(* conflict or a canceled run stopped between two files: all before it were     *)
(* replaced, none after, and its output knows exactly which. A run is called    *)
(* canceled only when its context ended.                                        *)
OutcomeTrue ==
  phase = "done" =>
    /\ exit.code = ExitSuccess => written = Changed /\ edited = {}
    /\ written \cap edited = {}
    /\ exit.category \in {ExitConflict, ExitCanceled} =>
         /\ written = {t \in Changed : t < index}
         /\ exit.told => exit.named = written /\ exit.certain = written
    /\ exit.category = ExitCanceled => contextEnded

(* The run ends, whatever fails and whenever the context ends. *)
Terminates == <>(phase = "done")
=============================================================================
