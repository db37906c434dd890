------------------------- MODULE FormatWriteProofs -------------------------
(***************************************************************************)
(* Proofs about FormatWrite, for any number of files and workers. WriteInv  *)
(* is inductive. Its part on the pool says that no index is forgotten: each  *)
(* one sent has a result, an error, or a worker that has it. Its part on the *)
(* replacement says that what is written, what the run knows and what the   *)
(* statuses say agree between any two files.                               *)
(***************************************************************************)
EXTENDS FormatWrite, WellFoundedInduction, TLAPS

Unstarted == {"discover", "dispatch", "wait"}
Writing == {"write", "replace"}
Working == {"begin", "read", "format"}

(* A worker that works has a task. *)
Assigned == \A w \in Workers : worker[w].pc \in Working => worker[w].task \in Tasks

(* Every index that was sent has a result, an error, or a worker. *)
Accounted ==
  \A t \in Tasks : t < next =>
    \/ t \in prepared
    \/ errorsByTask[t] # "none"
    \/ \E w \in Workers : worker[w].pc \in Working /\ worker[w].task = t

(* The dispatch ends with the last index, or with the context. *)
Sent ==
  /\ phase = "discover" => next = 1
  /\ phase \in {"discover", "dispatch"} => ~dispatchErr
  /\ phase = "wait" => dispatchErr \/ next > TaskCount
  /\ dispatchErr => contextEnded

(* Only the end of the context makes a task canceled. *)
CanceledTasks == \A t \in Tasks : errorsByTask[t] = "canceled" => contextEnded

(* A task fails with its own fate, and has a result when its fate is to have one. *)
Results ==
  /\ \A t \in Tasks : errorsByTask[t] \in {"none", "canceled", fate[t]}
  /\ \A t \in prepared : fate[t] \in Formattable
  /\ \A w \in Workers : worker[w].pc = "format" => fate[worker[w].task] \notin Unreadable

(* The pool is joined and every task prepared before the first file is replaced. *)
JoinedFirst ==
  phase \in Writing \/ written # {} => Joined /\ prepared = Tasks /\ FailedTasks = {}

(* Before that, nothing was done. *)
Untouched ==
  phase \in Unstarted =>
    /\ written = {} /\ replaced = {} /\ index = 1
    /\ \A t \in Tasks : status[t] = "pending"

(* Between two files, the run knows what it wrote, and no file it wrote was saved since. *)
InStep ==
  phase \in Writing =>
    /\ written = {t \in Changed : t < index}
    /\ replaced = written
    /\ \A t \in Tasks : status[t] = "formatted" <=> t \in written
    /\ \A t \in Tasks : status[t] # "possibly_formatted"

EditedAhead == phase # "done" => \A t \in edited : t >= index
ReplaceIndex == phase = "replace" => index \in Tasks

WriteInv ==
  /\ TypeOK /\ Assigned /\ Accounted /\ Sent /\ CanceledTasks /\ JoinedFirst /\ Untouched
  /\ InStep /\ EditedAhead /\ ReplaceIndex /\ Results /\ FailureIndependent /\ Disclosed
  /\ OutcomeTrue

-----------------------------------------------------------------------------
(* What the outputs say. *)

FormattedIn(files) == {t \in DOMAIN files : files[t] = "formatted"}
PossiblyIn(files) == {t \in DOMAIN files : files[t] = "possibly_formatted"}
FailureCodes == {2, 3, 4, 5, 6, 130}

(* The text report of a failure keeps the category, is not success, and names *)
(* the replaced files and the doubtful one.                                  *)
LEMMA FailureReport ==
  ASSUME NEW code \in FailureCodes, NEW files, NEW doubtful,
         NEW e \in reportFormatWriteFailure(code, files, doubtful)
  PROVE  /\ e.category = code
         /\ e.code # ExitSuccess
         /\ e.told => e.named = files \cup doubtful /\ e.certain \subseteq files
         /\ e.told /\ doubtful = {} => e.certain = files
BY DEF reportFormatWriteFailure, report, Telling, Silent, WithDoubt, FailureCodes, ExitSuccess,
       ExitFilesystemError

(* So does the JSON report, from the statuses of the files. *)
LEMMA JSONReport ==
  ASSUME NEW code \in FailureCodes \cup {ExitSuccess}, NEW files,
         NEW e \in reportFormatJSON(code, files)
  PROVE  /\ e.category = code
         /\ e.code = ExitSuccess => code = ExitSuccess
         /\ e.told => /\ e.named = FormattedIn(files) \cup PossiblyIn(files)
                      /\ e.certain \subseteq FormattedIn(files)
         /\ e.told /\ PossiblyIn(files) = {} => e.certain = FormattedIn(files)
<1>1. PICK other \in {5, 6, 130} : moreSevereExitCode(code, ExitFilesystemError) = other
  BY DEF moreSevereExitCode, FailureCodes, ExitSuccess, ExitFilesystemError, ExitCanceled
<1> QED
  BY <1>1 DEF reportFormatJSON, report, Telling, Silent, WithDoubt, FormattedIn, PossiblyIn,
              FailureCodes, ExitSuccess, ExitFilesystemError

(* The first of the most severe failures. *)
First(t) ==
  /\ fate[t] \notin Formattable
  /\ \A u \in Tasks \ {t} : fate[u] \notin Formattable =>
       \/ formatTaskErrorSeverity(fate[t]) > formatTaskErrorSeverity(fate[u])
       \/ formatTaskErrorSeverity(fate[t]) = formatTaskErrorSeverity(fate[u]) /\ t < u

(* A run that stops before it wrote anything names no file. *)
LEMMA Unprepared ==
  ASSUME WriteInv, phase \in Unstarted, NEW code \in FailureCodes, StopUnprepared(code),
         code = ExitCanceled => contextEnded, code # ExitConflict,
         next > 1 /\ code # ExitCanceled =>
           \E t \in Tasks : First(t) /\ code = formatTaskErrorExitCode(fate[t]),
         UNCHANGED <<fate, contextEnded, poolVars, edited, writeVars>>
  PROVE  WriteInv'
<1> USE DEF poolVars, writeVars, Tasks
<1>1. phase' = "done" /\ written' = {} /\ index' = 1
  BY DEF StopUnprepared, Finish, WriteInv, Untouched
<1>2. /\ exit'.category = code
      /\ exit'.code # ExitSuccess
      /\ exit'.told => exit'.named = {} /\ exit'.certain = {}
  <2>1. CASE exit' \in report(code, code, {}, {})
    BY <2>1 DEF report, Telling, Silent, FailureCodes, ExitSuccess, ExitFilesystemError
  <2>2. CASE exit' \in reportFormatJSON(code, <<>>)
    <3>1. FormattedIn(<<>>) = {} /\ PossiblyIn(<<>>) = {}
      BY DEF FormattedIn, PossiblyIn
    <3> QED
      BY <2>2, <3>1, JSONReport DEF FailureCodes, ExitSuccess
  <2> QED
    BY <2>1, <2>2 DEF StopUnprepared, Finish
<1>3. TypeOK'
  BY <1>1 DEF WriteInv, TypeOK, Phases
<1>4. Assigned' /\ Accounted' /\ CanceledTasks' /\ Results'
  BY DEF WriteInv, Assigned, Accounted, CanceledTasks, Results
<1>5. Sent' /\ JoinedFirst' /\ Untouched' /\ InStep' /\ EditedAhead' /\ ReplaceIndex'
  BY <1>1 DEF WriteInv, Sent, JoinedFirst, Untouched, InStep, EditedAhead, ReplaceIndex,
              Unstarted, Writing
<1>6. Disclosed'
  BY <1>1, <1>2 DEF Disclosed
<1>7. OutcomeTrue'
  <2>1. {t \in Changed' : t < index'} = {}
    BY <1>1, TaskCountAssumption DEF Changed
  <2>2. exit'.told => exit'.named = written' /\ exit'.certain = written'
    BY <1>1, <1>2
  <2>3. /\ exit'.code # ExitSuccess /\ exit'.category = code
        /\ code = ExitCanceled => contextEnded'
    BY <1>2
  <2> QED
    BY <1>1, <1>2, <2>1, <2>2, <2>3 DEF OutcomeTrue
<1>8. FailureIndependent'
  BY <1>2 DEF FailureIndependent, First, formatTaskErrorSeverity
<1> QED
  BY <1>3, <1>4, <1>5, <1>6, <1>7, <1>8 DEF WriteInv

-----------------------------------------------------------------------------
(* The pool. *)

LEMMA InitInv == ASSUME Init PROVE WriteInv
<1> USE TaskCountAssumption DEF Init
<1>1. TypeOK
  <2>1. worker \in [Workers -> [pc : {"receive", "begin", "read", "format", "left"},
                               task : 0..TaskCount]]
    OBVIOUS
  <2>2. fate \in [Tasks -> Fates] /\ errorsByTask \in [Tasks -> TaskErrors \cup {"none"}]
    OBVIOUS
  <2>3. status \in [Tasks -> Statuses]
    BY DEF Statuses
  <2>4. next \in 1..(TaskCount + 1) /\ index \in 1..(TaskCount + 1)
    OBVIOUS
  <2> QED
    BY <2>1, <2>2, <2>3, <2>4 DEF TypeOK, Phases
<1>2. Assigned /\ Accounted /\ Sent /\ CanceledTasks /\ Results
  BY DEF Assigned, Accounted, Sent, CanceledTasks, Results, Working, Tasks
<1>3. JoinedFirst /\ Untouched /\ InStep /\ EditedAhead /\ ReplaceIndex
  BY DEF JoinedFirst, Untouched, InStep, EditedAhead, ReplaceIndex, Writing, Unstarted
<1>4. FailureIndependent /\ Disclosed /\ OutcomeTrue
  BY DEF FailureIndependent, Disclosed, OutcomeTrue
<1> QED
  BY <1>1, <1>2, <1>3, <1>4 DEF WriteInv

LEMMA DiscoverStep == ASSUME WriteInv, Discover PROVE WriteInv'
<1>1. phase \in Unstarted
  BY DEF Discover, Unstarted
<1>2. CASE phase' = "dispatch" /\ UNCHANGED exit
  <2> USE <1>2 DEF Discover, poolVars, writeVars, Tasks
  <2>1. TypeOK'
    BY DEF WriteInv, TypeOK, Phases
  <2>2. Assigned' /\ Accounted' /\ Sent' /\ CanceledTasks' /\ Results'
    BY DEF WriteInv, Assigned, Accounted, Sent, CanceledTasks, Results
  <2>3. /\ JoinedFirst' /\ Untouched' /\ InStep' /\ EditedAhead' /\ ReplaceIndex'
        /\ FailureIndependent' /\ Disclosed' /\ OutcomeTrue'
    BY DEF WriteInv, JoinedFirst, Untouched, InStep, EditedAhead, ReplaceIndex,
           FailureIndependent, Disclosed, OutcomeTrue, Unstarted, Writing
  <2> QED
    BY <2>1, <2>2, <2>3 DEF WriteInv
<1>3. ASSUME NEW code \in {2, 3, 5, 6}, StopUnprepared(code)
      PROVE  WriteInv'
  BY <1>1, <1>3, Unprepared DEF Discover, FailureCodes, ExitCanceled, ExitConflict, WriteInv,
                                Sent
<1>4. CASE contextEnded /\ StopUnprepared(ExitCanceled)
  BY <1>1, <1>4, Unprepared DEF Discover, FailureCodes, ExitCanceled, ExitConflict
<1> QED
  BY <1>2, <1>3, <1>4 DEF Discover

(* The parts that only speak of what comes after the pool. *)
LEMMA PoolOnly ==
  ASSUME WriteInv, phase \in Unstarted, phase' \in Unstarted,
         UNCHANGED <<fate, edited, writeVars, exit>>
  PROVE  /\ JoinedFirst' /\ Untouched' /\ InStep' /\ EditedAhead' /\ ReplaceIndex'
         /\ FailureIndependent' /\ Disclosed' /\ OutcomeTrue'
BY DEF WriteInv, JoinedFirst, Untouched, InStep, EditedAhead, ReplaceIndex, FailureIndependent,
       Disclosed, OutcomeTrue, Unstarted, Writing, writeVars

LEMMA SendStep == ASSUME WriteInv, NEW w \in Workers, Send(w) PROVE WriteInv'
<1> USE TaskCountAssumption DEF Send, Tasks
<1>1. TypeOK'
  BY DEF WriteInv, TypeOK, writeVars
<1>2. Assigned' /\ Accounted'
  <2>1. Assigned'
    BY DEF WriteInv, TypeOK, Assigned, Working
  <2>2. ASSUME NEW t \in Tasks, t < next'
        PROVE  \/ t \in prepared'
               \/ errorsByTask'[t] # "none"
               \/ \E v \in Workers : worker'[v].pc \in Working /\ worker'[v].task = t
    <3>1. CASE t = next
      BY <3>1 DEF WriteInv, TypeOK, Working
    <3>2. CASE t < next
      <4>1. CASE t \in prepared \/ errorsByTask[t] # "none"
        BY <4>1
      <4>2. ASSUME NEW v \in Workers, worker[v].pc \in Working, worker[v].task = t
            PROVE  worker'[v].pc \in Working /\ worker'[v].task = t
        BY <4>2 DEF WriteInv, TypeOK, Working
      <4> QED
        BY <3>2, <4>1, <4>2 DEF WriteInv, Accounted
    <3> QED
      BY <2>2, <3>1, <3>2 DEF WriteInv, TypeOK
  <2> QED
    BY <2>1, <2>2 DEF Accounted
<1>3. Sent' /\ CanceledTasks' /\ Results'
  <2>1. Sent' /\ CanceledTasks'
    BY DEF WriteInv, Sent, CanceledTasks
  <2>2. \A v \in Workers : worker'[v].pc = "format" => worker'[v] = worker[v]
    BY DEF WriteInv, TypeOK
  <2> QED
    BY <2>1, <2>2 DEF WriteInv, Results
<1>4. /\ JoinedFirst' /\ Untouched' /\ InStep' /\ EditedAhead' /\ ReplaceIndex'
      /\ FailureIndependent' /\ Disclosed' /\ OutcomeTrue'
  BY PoolOnly DEF Unstarted
<1> QED
  BY <1>1, <1>2, <1>3, <1>4 DEF WriteInv

LEMMA DispatchStep == ASSUME WriteInv, Dispatch PROVE WriteInv'
<1> USE DEF Dispatch, DispatchCanceled, Dispatched, Tasks
<1>1. TypeOK'
  BY DEF WriteInv, TypeOK, Phases, writeVars
<1>2. Assigned' /\ Accounted' /\ Sent' /\ CanceledTasks' /\ Results'
  BY DEF WriteInv, Assigned, Accounted, Sent, CanceledTasks, Results
<1>3. /\ JoinedFirst' /\ Untouched' /\ InStep' /\ EditedAhead' /\ ReplaceIndex'
      /\ FailureIndependent' /\ Disclosed' /\ OutcomeTrue'
  BY PoolOnly DEF Unstarted
<1> QED
  BY <1>1, <1>2, <1>3 DEF WriteInv

(* A worker that returns: its task is then accounted for. *)
LEMMA ReturnAccounted ==
  ASSUME WriteInv, NEW w \in Workers, worker[w].pc \in Working, UNCHANGED next,
         NEW error \in TaskErrors \cup {"none"}, Return(w, error)
  PROVE  /\ Assigned' /\ Accounted'
         /\ worker' \in [Workers -> [pc : {"receive", "begin", "read", "format", "left"},
                                    task : 0..TaskCount]]
         /\ errorsByTask' \in [Tasks -> TaskErrors \cup {"none"}]
         /\ prepared' \subseteq Tasks
<1> USE TaskCountAssumption DEF Return, Tasks
<1>1. worker[w].task \in Tasks
  BY DEF WriteInv, Assigned
<1>2. /\ worker' \in [Workers -> [pc : {"receive", "begin", "read", "format", "left"},
                                  task : 0..TaskCount]]
      /\ errorsByTask' \in [Tasks -> TaskErrors \cup {"none"}]
      /\ prepared' \subseteq Tasks
  <2>1. worker' \in [Workers -> [pc : {"receive", "begin", "read", "format", "left"},
                                task : 0..TaskCount]]
    BY DEF WriteInv, TypeOK
  <2>2. errorsByTask' \in [Tasks -> TaskErrors \cup {"none"}]
    BY DEF WriteInv, TypeOK
  <2>3. prepared' \subseteq Tasks
    BY <1>1 DEF WriteInv, TypeOK
  <2> QED
    BY <2>1, <2>2, <2>3
<1>3. \A v \in Workers : v # w => worker'[v] = worker[v]
  BY DEF WriteInv, TypeOK
<1>4. worker'[w].pc \notin Working
  BY DEF WriteInv, TypeOK, Working
<1>5. Assigned'
  BY <1>3, <1>4 DEF WriteInv, Assigned
<1>6. ASSUME NEW t \in Tasks, t < next'
      PROVE  \/ t \in prepared'
             \/ errorsByTask'[t] # "none"
             \/ \E v \in Workers : worker'[v].pc \in Working /\ worker'[v].task = t
  <2>1. CASE t = worker[w].task
    BY <1>1, <2>1 DEF WriteInv, TypeOK
  <2>2. CASE t # worker[w].task
    <3>1. \/ t \in prepared \/ errorsByTask[t] # "none"
          \/ \E v \in Workers : worker[v].pc \in Working /\ worker[v].task = t
      BY <1>6 DEF WriteInv, Accounted
    <3>2. CASE t \in prepared
      BY <3>2
    <3>3. CASE errorsByTask[t] # "none"
      BY <2>2, <3>3 DEF WriteInv, TypeOK
    <3>4. ASSUME NEW v \in Workers, worker[v].pc \in Working, worker[v].task = t
          PROVE  worker'[v].pc \in Working /\ worker'[v].task = t
      BY <1>3, <2>2, <3>4
    <3> QED
      BY <3>1, <3>2, <3>3, <3>4
  <2> QED
    BY <2>1, <2>2
<1> QED
  BY <1>2, <1>5, <1>6 DEF Accounted

(* What a worker does cannot happen when the pool is joined. *)
LEMMA WorkKeeps ==
  ASSUME WriteInv, NEW w \in Workers, worker[w].pc # "left", TypeOK',
         Assigned', Accounted', CanceledTasks', Results', prepared \subseteq prepared',
         UNCHANGED <<fate, contextEnded, phase, next, closed, dispatchErr, edited, writeVars, exit>>
  PROVE  WriteInv'
<1> USE DEF writeVars, Tasks
<1>1. ~Joined
  BY DEF Joined
<1>2. phase \notin Writing /\ written = {}
  BY <1>1 DEF WriteInv, JoinedFirst
<1>3. Sent' /\ JoinedFirst' /\ Untouched' /\ InStep' /\ EditedAhead' /\ ReplaceIndex'
  BY <1>2 DEF WriteInv, Sent, JoinedFirst, Untouched, InStep, EditedAhead, ReplaceIndex,
              Unstarted, Writing
<1>4. Disclosed' /\ OutcomeTrue'
  BY DEF WriteInv, Disclosed, OutcomeTrue, Changed
<1>5. FailureIndependent'
  BY DEF WriteInv, FailureIndependent, TypeOK
<1> QED
  BY <1>3, <1>4, <1>5 DEF WriteInv

LEMMA ReturnStep ==
  ASSUME WriteInv, NEW w \in Workers, worker[w].pc \in Working,
         NEW error \in TaskErrors \cup {"none"}, Return(w, error),
         error \in {"none", "canceled", fate[worker[w].task]},
         error = "none" => fate[worker[w].task] \in Formattable,
         error = "canceled" => contextEnded,
         UNCHANGED <<fate, contextEnded, phase, next, closed, dispatchErr, edited, writeVars, exit>>
  PROVE  WriteInv'
<1>1. TypeOK' /\ Assigned' /\ Accounted'
  BY ReturnAccounted DEF WriteInv, TypeOK, writeVars, Tasks
<1>2. worker[w].task \in Tasks
  BY DEF WriteInv, Assigned
<1>3. CanceledTasks'
  BY <1>2 DEF WriteInv, TypeOK, CanceledTasks, Return, Tasks
<1>4. Results'
  <2>1. \A t \in Tasks : errorsByTask'[t] \in {"none", "canceled", fate[t]}
    BY <1>2 DEF WriteInv, TypeOK, Results, Return
  <2>2. \A t \in prepared' : fate[t] \in Formattable
    BY DEF WriteInv, Results, Return
  <2>3. \A v \in Workers : worker'[v].pc = "format" => worker'[v] = worker[v]
    BY DEF WriteInv, TypeOK, Return
  <2> QED
    BY <2>1, <2>2, <2>3 DEF WriteInv, Results, Tasks
<1>5. prepared \subseteq prepared' /\ worker[w].pc # "left"
  BY DEF Return, Working
<1> QED
  BY <1>1, <1>3, <1>4, <1>5, WorkKeeps

LEMMA GoStep ==
  ASSUME WriteInv, NEW w \in Workers, NEW pc \in {"read", "format", "left"}, Go(w, pc),
         worker[w].pc # "left", (worker[w].pc \in Working) <=> (pc \in Working),
         pc = "format" => fate[worker[w].task] \notin Unreadable,
         UNCHANGED <<fate, contextEnded, phase, next, closed, dispatchErr, edited, writeVars, exit>>
  PROVE  WriteInv'
<1> USE TaskCountAssumption DEF Go, Tasks
<1>1. /\ \A v \in Workers : worker'[v].task = worker[v].task
      /\ \A v \in Workers : (worker'[v].pc \in Working) <=> (worker[v].pc \in Working)
      /\ \A v \in Workers : worker'[v].pc = "format" => worker[v].pc = "format" \/ v = w
      /\ worker'[w].pc = pc
  BY DEF WriteInv, TypeOK, Working
<1>2. TypeOK'
  <2>1. worker' \in [Workers -> [pc : {"receive", "begin", "read", "format", "left"},
                                task : 0..TaskCount]]
    BY DEF WriteInv, TypeOK
  <2> QED
    BY <2>1 DEF WriteInv, TypeOK, writeVars
<1>3. Assigned' /\ CanceledTasks' /\ Results'
  BY <1>1 DEF WriteInv, Assigned, CanceledTasks, Results
<1>4. Accounted'
  BY <1>1 DEF WriteInv, Accounted
<1> QED
  BY <1>2, <1>3, <1>4, WorkKeeps

LEMMA WorkStep == ASSUME WriteInv, NEW w \in Workers, Work(w) PROVE WriteInv'
<1>1. worker[w].pc \in Working => worker[w].task \in Tasks /\ fate[worker[w].task] \in Fates
  BY DEF WriteInv, Assigned, TypeOK
<1>2. CASE Begin(w)
  <2>1. CASE contextEnded
    BY <1>2, <2>1, ReturnStep DEF Begin, Work, Working, TaskErrors
  <2>2. CASE ~contextEnded
    BY <1>2, <2>2, GoStep DEF Begin, Work, Working
  <2> QED
    BY <2>1, <2>2
<1>3. CASE Read(w)
  <2>1. CASE fate[worker[w].task] \in Unreadable
    <3>1. Return(w, fate[worker[w].task]) /\ worker[w].pc \in Working
      BY <1>3, <2>1 DEF Read, Working
    <3>2. fate[worker[w].task] \in TaskErrors /\ fate[worker[w].task] \notin {"none", "canceled"}
      BY <2>1 DEF TaskErrors, Unreadable
    <3> QED
      BY <3>1, <3>2, ReturnStep DEF Work
  <2>2. CASE fate[worker[w].task] \notin Unreadable /\ contextEnded
    BY <1>3, <2>2, ReturnStep DEF Read, Work, Working, TaskErrors
  <2>3. CASE fate[worker[w].task] \notin Unreadable /\ ~contextEnded
    BY <1>3, <2>3, GoStep DEF Read, Work, Working
  <2> QED
    BY <2>1, <2>2, <2>3
<1>4. CASE Format(w)
  <2>1. CASE fate[worker[w].task] \in Unformattable
    <3>1. Return(w, fate[worker[w].task]) /\ worker[w].pc \in Working
      BY <1>4, <2>1 DEF Format, Working
    <3>2. fate[worker[w].task] \in TaskErrors /\ fate[worker[w].task] \notin {"none", "canceled"}
      BY <2>1 DEF TaskErrors, Unformattable
    <3> QED
      BY <3>1, <3>2, ReturnStep DEF Work
  <2>2. CASE fate[worker[w].task] \notin Unformattable
    <3>1. fate[worker[w].task] \in Formattable /\ worker[w].pc \in Working
      BY <1>1, <1>4, <2>2 DEF Format, WriteInv, Results, Fates, Working
    <3>2. Return(w, IF contextEnded THEN "canceled" ELSE "none")
      BY <1>4, <2>2 DEF Format
    <3> QED
      BY <3>1, <3>2, ReturnStep DEF Work, TaskErrors
  <2> QED
    BY <2>1, <2>2
<1>5. CASE Leave(w)
  BY <1>5, GoStep DEF Leave, Work, Working
<1> QED
  BY <1>2, <1>3, <1>4, <1>5 DEF Work

-----------------------------------------------------------------------------
(* The results. *)

LEMMA Least ==
  ASSUME NEW S, S \subseteq Nat, S # {}
  PROVE  \E m \in S : \A k \in S : m <= k
<1> DEFINE R == OpToRel(<, Nat)
<1>1. IsWellFoundedOn(R, Nat)
  BY NatLessThanWellFounded
<1>2. \A x, y \in Nat : y < x => <<y, x>> \in R
  BY DEF OpToRel
<1> HIDE DEF R
<1>3. PICK m \in S : \A y \in S : <<y, m>> \notin R
  BY <1>1, WFMin, Zenon
<1>4. ASSUME NEW k \in S
      PROVE  m <= k
  <2>1. k \in Nat /\ m \in Nat
    OBVIOUS
  <2>2. ~(k < m)
    BY <1>2, <1>3, <2>1, Zenon
  <2> QED
    BY <2>1, <2>2
<1> QED
  BY <1>4

(* selectFormatTaskError finds the first of the most severe. *)
LEMMA Selected ==
  ASSUME TypeOK, FailedTasks # {}
  PROVE  \E t \in FailedTasks : /\ selectFormatTaskError = errorsByTask[t]
                               /\ \A u \in FailedTasks : Worse(t, u)
<1> DEFINE Severity(t) == formatTaskErrorSeverity(errorsByTask[t])
           Of(n) == {t \in FailedTasks : Severity(t) = n}
<1>1. FailedTasks \subseteq Nat
  BY TaskCountAssumption DEF FailedTasks, Tasks
<1>2. \A t \in FailedTasks : Severity(t) \in {2, 5, 6}
  BY DEF formatTaskErrorSeverity, TaskErrorCode, ExitSourceError, ExitFilesystemError,
         ExitInternalError
<1>3. PICK n \in {2, 5, 6} : Of(n) # {} /\ \A t \in FailedTasks : Severity(t) <= n
  <2>1. CASE Of(6) # {}
    BY <1>2, <2>1
  <2>2. CASE Of(6) = {} /\ Of(5) # {}
    BY <1>2, <2>2
  <2>3. CASE Of(6) = {} /\ Of(5) = {}
    BY <1>2, <2>3
  <2> QED
    BY <2>1, <2>2, <2>3
<1>4. PICK t \in Of(n) : \A u \in Of(n) : t <= u
  BY <1>1, <1>3, Least
<1>5. t \in FailedTasks /\ \A u \in FailedTasks : Worse(t, u)
  BY <1>2, <1>3, <1>4 DEF Worse
<1>6. \E v \in FailedTasks : \A u \in FailedTasks : Worse(v, u)
  BY <1>5
<1> QED
  BY <1>6 DEF selectFormatTaskError

LEMMA CollectStep == ASSUME WriteInv, Collect PROVE WriteInv'
<1> USE DEF Tasks
<1>1. phase \in Unstarted /\ Joined /\ (dispatchErr => contextEnded)
  BY DEF Collect, Unstarted, WriteInv, Sent
<1>2. CASE dispatchErr \/ contextEnded
  BY <1>1, <1>2, Unprepared DEF Collect, FailureCodes, ExitCanceled, ExitConflict
<1> SUFFICES ASSUME ~dispatchErr, ~contextEnded
             PROVE  WriteInv'
  BY <1>2
<1>3. next > TaskCount
  BY DEF Collect, WriteInv, Sent
<1>4. ASSUME NEW t \in Tasks
      PROVE  /\ t \in prepared \/ t \in FailedTasks
             /\ t \in FailedTasks => errorsByTask[t] = fate[t] /\ fate[t] \notin Formattable
             /\ t \in FailedTasks <=> fate[t] \notin Formattable
  <2>1. t < next
    BY <1>3, TaskCountAssumption DEF WriteInv, TypeOK
  <2>2. t \in prepared \/ t \in FailedTasks
    BY <1>1, <2>1 DEF WriteInv, Accounted, Joined, Working, FailedTasks
  <2>3. t \in FailedTasks => errorsByTask[t] = fate[t]
    BY DEF WriteInv, Results, CanceledTasks, FailedTasks
  <2>4. errorsByTask[t] \in TaskErrors \cup {"none"}
    BY DEF WriteInv, TypeOK
  <2>5. t \in FailedTasks => fate[t] \notin Formattable
    BY <2>3, <2>4 DEF FailedTasks, TaskErrors, Formattable, Unreadable, Unformattable
  <2> QED
    BY <2>2, <2>3, <2>5 DEF WriteInv, Results
<1>5. CASE FailedTasks # {}
  <2>1. PICK t \in FailedTasks : /\ selectFormatTaskError = errorsByTask[t]
                                /\ \A u \in FailedTasks : Worse(t, u)
    BY <1>5, Selected DEF WriteInv
  <2> DEFINE code == formatTaskErrorExitCode(selectFormatTaskError)
  <2>2. t \in Tasks /\ errorsByTask[t] = fate[t] /\ fate[t] \in Unformattable \cup Unreadable
    BY <1>4 DEF FailedTasks, WriteInv, TypeOK, Fates
  <2>3. code = formatTaskErrorExitCode(fate[t]) /\ code \in {2, 5, 6}
    BY <2>1, <2>2 DEF formatTaskErrorExitCode, TaskErrorCode, Unformattable, Unreadable,
                      ExitSourceError, ExitFilesystemError, ExitInternalError, ExitCanceled
  <2>4. First(t)
    <3>1. ASSUME NEW u \in Tasks \ {t}, fate[u] \notin Formattable
          PROVE  \/ formatTaskErrorSeverity(fate[t]) > formatTaskErrorSeverity(fate[u])
                 \/ /\ formatTaskErrorSeverity(fate[t]) = formatTaskErrorSeverity(fate[u])
                    /\ t < u
      <4>1. u \in FailedTasks /\ errorsByTask[u] = fate[u]
        BY <1>4, <3>1
      <4> QED
        BY <2>1, <2>2, <4>1, TaskCountAssumption DEF Worse
    <3> QED
      BY <1>4, <2>2, <3>1 DEF First
  <2>5. StopUnprepared(code)
    BY <1>5 DEF Collect
  <2>6. /\ code \in FailureCodes /\ code # ExitConflict /\ code # ExitCanceled
        /\ \E v \in Tasks : First(v) /\ code = formatTaskErrorExitCode(fate[v])
    BY <2>2, <2>3, <2>4 DEF FailureCodes, ExitConflict, ExitCanceled
  <2>7. UNCHANGED <<fate, contextEnded, poolVars, edited, writeVars>>
    BY DEF Collect
  <2> HIDE DEF code
  <2> QED
    BY <1>1, <2>5, <2>6, <2>7, Unprepared
<1>6. CASE FailedTasks = {}
  <2> USE <1>6 DEF poolVars, writeVars
  <2>1. phase' = "write" /\ UNCHANGED <<fate, contextEnded, poolVars, edited, writeVars, exit>>
    BY DEF Collect
  <2>2. prepared = Tasks
    BY <1>4 DEF WriteInv, TypeOK
  <2>3. TypeOK'
    BY <2>1 DEF WriteInv, TypeOK, Phases
  <2>4. Assigned' /\ Accounted' /\ Sent' /\ CanceledTasks' /\ Results'
    BY <2>1 DEF WriteInv, Assigned, Accounted, Sent, CanceledTasks, Results
  <2>5. JoinedFirst' /\ Untouched' /\ EditedAhead' /\ ReplaceIndex'
    BY <1>1, <2>1, <2>2 DEF WriteInv, JoinedFirst, Untouched, EditedAhead, ReplaceIndex, Joined,
                            FailedTasks, Unstarted, Collect
  <2>6. InStep'
    <3>1. {t \in Changed : t < 1} = {}
      BY TaskCountAssumption DEF Changed
    <3> QED
      BY <1>1, <2>1, <3>1 DEF WriteInv, Untouched, InStep, Changed
  <2>7. FailureIndependent' /\ Disclosed' /\ OutcomeTrue'
    BY <2>1 DEF FailureIndependent, Disclosed, OutcomeTrue
  <2> QED
    BY <2>3, <2>4, <2>5, <2>6, <2>7 DEF WriteInv
<1> QED
  BY <1>5, <1>6

-----------------------------------------------------------------------------
(* The replacement. *)

(* A run that stops here names what it replaced, and the doubtful file. *)
LEMMA Stopped ==
  ASSUME WriteInv, phase \in Writing, NEW code \in FailureCodes, NEW doubtful,
         StopWriting(code, doubtful, status'),
         status' \in [Tasks -> Statuses],
         FormattedIn(status') = replaced, PossiblyIn(status') = doubtful,
         doubtful \subseteq {index} \cap Changed,
         written \subseteq written', written' \subseteq written \cup doubtful,
         written' \cap edited = {}, code = ExitCanceled => contextEnded,
         code \in {ExitConflict, ExitCanceled} => doubtful = {},
         UNCHANGED <<fate, contextEnded, poolVars, edited, index, replaced>>
  PROVE  WriteInv'
<1> USE DEF poolVars, Tasks
<1>1. phase' = "done" /\ Changed' = Changed
  BY DEF StopWriting, Finish, Changed
<1>2. /\ exit'.category = code /\ exit'.code # ExitSuccess
      /\ exit'.told => exit'.named = replaced \cup doubtful /\ exit'.certain \subseteq replaced
      /\ exit'.told /\ doubtful = {} => exit'.certain = replaced
  <2>1. CASE exit' \in reportFormatWriteFailure(code, replaced, doubtful)
    BY <2>1, FailureReport
  <2>2. CASE exit' \in reportFormatJSON(code, status')
    BY <2>2, JSONReport DEF FailureCodes, ExitSuccess
  <2> QED
    BY <2>1, <2>2 DEF StopWriting, Finish
<1>3. written = replaced
  BY DEF WriteInv, InStep
<1>4. TypeOK'
  BY <1>1 DEF WriteInv, TypeOK, Phases, Changed
<1>5. Assigned' /\ Accounted' /\ Sent' /\ CanceledTasks' /\ Results'
  BY <1>1 DEF WriteInv, Assigned, Accounted, Sent, CanceledTasks, Results
<1>6. JoinedFirst' /\ Untouched' /\ InStep' /\ EditedAhead' /\ ReplaceIndex'
  BY <1>1 DEF WriteInv, JoinedFirst, Untouched, InStep, EditedAhead, ReplaceIndex, Joined,
              FailedTasks, Unstarted, Writing
<1>7. FailureIndependent'
  BY DEF WriteInv, JoinedFirst, FailureIndependent
<1>8. Disclosed'
  BY <1>1, <1>2, <1>3 DEF Disclosed
<1>9. OutcomeTrue'
  <2>1. written = {t \in Changed : t < index}
    BY DEF WriteInv, InStep
  <2>2. code \in {ExitConflict, ExitCanceled} => written' = written /\ doubtful = {}
    OBVIOUS
  <2> QED
    BY <1>1, <1>2, <1>3, <2>1, <2>2 DEF OutcomeTrue, WriteInv
<1> QED
  BY <1>4, <1>5, <1>6, <1>7, <1>8, <1>9 DEF WriteInv

(* Between two files nothing is in doubt. *)
LEMMA NothingDoubtful ==
  ASSUME WriteInv, phase \in Writing
  PROVE  FormattedIn(status) = replaced /\ PossiblyIn(status) = {}
BY DEF WriteInv, TypeOK, InStep, FormattedIn, PossiblyIn, Changed

(* No file whose turn has passed was changed before it. *)
LEMMA WrittenNotEdited ==
  ASSUME WriteInv, phase \in Writing
  PROVE  written \cap edited = {} /\ index \notin written
<1>1. \A t \in edited : t \in Tasks /\ t >= index
  BY DEF WriteInv, TypeOK, EditedAhead, Writing
<1>2. \A t \in written : t < index
  BY DEF WriteInv, InStep
<1>3. index \in Nat
  BY TaskCountAssumption DEF WriteInv, TypeOK
<1> QED
  BY <1>1, <1>2, <1>3, TaskCountAssumption DEF Tasks

LEMMA CanceledWriting ==
  ASSUME WriteInv, phase \in Writing, contextEnded, StopWriting(ExitCanceled, {}, status),
         UNCHANGED <<fate, contextEnded, poolVars, edited, writeVars>>
  PROVE  WriteInv'
<1>1. StopWriting(ExitCanceled, {}, status') /\ written' = written /\ status' = status
  BY DEF writeVars
<1>2. FormattedIn(status') = replaced /\ PossiblyIn(status') = {}
  BY <1>1, NothingDoubtful
<1>3. UNCHANGED <<fate, contextEnded, poolVars, edited, index, replaced>>
  BY DEF writeVars
<1>4. ExitCanceled \in FailureCodes /\ ExitCanceled # ExitConflict
  BY DEF FailureCodes, ExitCanceled, ExitConflict
<1>5. status' \in [Tasks -> Statuses]
  BY <1>1 DEF WriteInv, TypeOK
<1>6. written' \cap edited = {}
  BY <1>1, WrittenNotEdited
<1> QED
  BY <1>1, <1>2, <1>3, <1>4, <1>5, <1>6, Stopped

LEMMA NextFileStep == ASSUME WriteInv, NextFile PROVE WriteInv'
<1> USE DEF NextFile, Pending, poolVars, writeVars, Tasks, Writing
<1>1. CASE contextEnded
  BY <1>1, CanceledWriting
<1>2. CASE ~contextEnded
  <2> USE <1>2
  <2>1. TypeOK' /\ ReplaceIndex'
    BY DEF WriteInv, TypeOK, Phases, ReplaceIndex
  <2>2. Assigned' /\ Accounted' /\ Sent' /\ CanceledTasks' /\ Results'
    BY DEF WriteInv, Assigned, Accounted, Sent, CanceledTasks, Results
  <2>3. JoinedFirst' /\ Untouched' /\ InStep' /\ EditedAhead'
    BY DEF WriteInv, JoinedFirst, Untouched, InStep, EditedAhead, Joined, FailedTasks, Changed,
           Unstarted
  <2>4. FailureIndependent' /\ Disclosed' /\ OutcomeTrue'
    BY DEF FailureIndependent, Disclosed, OutcomeTrue
  <2> QED
    BY <2>1, <2>2, <2>3, <2>4 DEF WriteInv
<1> QED
  BY <1>1, <1>2

LEMMA ReplacedStep ==
  ASSUME WriteInv, phase = "replace", Replaced,
         UNCHANGED <<fate, contextEnded, poolVars, edited>>
  PROVE  WriteInv'
<1> USE DEF Replaced, poolVars, Tasks, Writing
<1>1. index \in Tasks /\ Changed' = Changed
  BY DEF WriteInv, ReplaceIndex, Changed
<1>2. TypeOK'
  <2>1. status' \in [Tasks -> Statuses]
    BY DEF WriteInv, TypeOK, Statuses
  <2>2. index' \in 1..(TaskCount + 1) /\ phase' \in Phases
    BY <1>1, TaskCountAssumption DEF Phases
  <2>3. written' \subseteq Tasks /\ replaced' \subseteq Tasks
    BY <1>1 DEF WriteInv, TypeOK
  <2> QED
    BY <2>1, <2>2, <2>3 DEF WriteInv, TypeOK
<1>3. Assigned' /\ Accounted' /\ Sent' /\ CanceledTasks' /\ Results'
  BY DEF WriteInv, Assigned, Accounted, Sent, CanceledTasks, Results
<1>4. JoinedFirst' /\ Untouched' /\ ReplaceIndex'
  BY DEF WriteInv, JoinedFirst, Untouched, ReplaceIndex, Joined, FailedTasks, Unstarted
<1>5. InStep'
  <2>1. written' = {t \in Changed : t < index + 1}
    BY <1>1, TaskCountAssumption DEF WriteInv, InStep, Changed
  <2>2. \A t \in Tasks : status'[t] = "formatted" <=> t \in written'
    BY <1>1, TaskCountAssumption DEF WriteInv, TypeOK, InStep, Changed
  <2>3. \A t \in Tasks : status'[t] # "possibly_formatted"
    BY <1>1 DEF WriteInv, TypeOK, InStep
  <2> QED
    BY <1>1, <2>1, <2>2, <2>3 DEF WriteInv, InStep
<1>6. EditedAhead'
  BY <1>1, TaskCountAssumption DEF WriteInv, TypeOK, EditedAhead
<1>7. FailureIndependent' /\ Disclosed' /\ OutcomeTrue'
  BY DEF FailureIndependent, Disclosed, OutcomeTrue
<1> QED
  BY <1>2, <1>3, <1>4, <1>5, <1>6, <1>7 DEF WriteInv

LEMMA ReplaceStep == ASSUME WriteInv, Replace PROVE WriteInv'
<1> USE DEF Replace, Tasks
<1>1. phase \in Writing /\ index \in Tasks
  BY DEF Writing, WriteInv, ReplaceIndex
<1>2. CASE Replaced
  BY <1>2, ReplacedStep
<1>3. CASE ReplaceStale
  <2>1. status' \in [Tasks -> Statuses]
    BY <1>3 DEF ReplaceStale, WriteInv, TypeOK, Statuses
  <2>2. status[index] # "formatted"
    BY <1>1, TaskCountAssumption DEF WriteInv, InStep, Changed
  <2>3. FormattedIn(status') = FormattedIn(status) /\ PossiblyIn(status') = PossiblyIn(status)
    <3>1. status[index] # "possibly_formatted"
      BY <1>1 DEF WriteInv, InStep
    <3> QED
      BY <1>3, <2>2, <3>1 DEF ReplaceStale, FormattedIn, PossiblyIn, WriteInv, TypeOK
  <2> QED
    <3>1. FormattedIn(status') = replaced /\ PossiblyIn(status') = {}
      BY <1>1, <2>3, NothingDoubtful
    <3>2. /\ ExitConflict \in FailureCodes /\ ExitConflict # ExitCanceled
          /\ StopWriting(ExitConflict, {}, status') /\ written' = written
          /\ UNCHANGED <<fate, contextEnded, poolVars, edited, index, replaced>>
      BY <1>3 DEF ReplaceStale, FailureCodes, ExitConflict, ExitCanceled
    <3>3. written' \cap edited = {}
      BY <1>1, <3>2, WrittenNotEdited
    <3> QED
      BY <1>1, <2>1, <3>1, <3>2, <3>3, Stopped
<1>4. CASE ReplaceFails
  <2>1. status' \in [Tasks -> Statuses]
    BY <1>4 DEF ReplaceFails, WriteInv, TypeOK, Statuses
  <2>2. status[index] \notin {"formatted", "possibly_formatted"}
    BY <1>1, TaskCountAssumption DEF WriteInv, InStep, Changed
  <2>3. FormattedIn(status') = replaced
    BY <1>1, <1>4, <2>2, NothingDoubtful DEF ReplaceFails, FormattedIn, WriteInv, TypeOK
  <2>4. PossiblyIn(status') = Doubtful
    BY <1>1, <1>4, <2>2, NothingDoubtful DEF ReplaceFails, PossiblyIn, WriteInv, TypeOK, Doubtful
  <2>5. written \subseteq written' /\ written' \subseteq written \cup Doubtful
    BY <1>4 DEF ReplaceFails, Doubtful
  <2>6. written' \cap edited = {}
    BY <1>1, <1>4, WrittenNotEdited DEF ReplaceFails
  <2> QED
    <3>1. /\ ExitFilesystemError \in FailureCodes
          /\ ExitFilesystemError \notin {ExitConflict, ExitCanceled}
          /\ StopWriting(ExitFilesystemError, Doubtful, status')
          /\ Doubtful \subseteq {index} \cap Changed
          /\ UNCHANGED <<fate, contextEnded, poolVars, edited, index, replaced>>
      BY <1>4 DEF ReplaceFails, Doubtful, FailureCodes, ExitFilesystemError, ExitConflict,
                  ExitCanceled
    <3> QED
      BY <1>1, <2>1, <2>3, <2>4, <2>5, <2>6, <3>1, Stopped
<1> QED
  BY <1>2, <1>3, <1>4

LEMMA CompleteStep == ASSUME WriteInv, Complete PROVE WriteInv'
<1> USE DEF Complete, poolVars, writeVars, Tasks
<1>1. phase \in Writing
  BY DEF Writing
<1>2. CASE contextEnded
  BY <1>1, <1>2, CanceledWriting
<1>3. CASE ~contextEnded
  <2>1. phase' = "done" /\ Changed' = Changed
    BY <1>3 DEF Finish, Changed
  <2>2. written = Changed /\ edited = {} /\ replaced = written
    BY <1>1, TaskCountAssumption
       DEF WriteInv, TypeOK, InStep, EditedAhead, Pending, Changed, Writing
  <2>3. /\ exit'.category = ExitSuccess
        /\ exit'.told => exit'.named \subseteq written /\ exit'.certain \subseteq written
        /\ exit'.told /\ exit'.code # ExitSuccess => written \subseteq exit'.named
    <3>1. CASE exit' = Telling(ExitSuccess, ExitSuccess, {}, {})
      BY <3>1 DEF Telling
    <3>2. CASE exit' \in reportFormatJSON(ExitSuccess, status)
      BY <1>1, <2>2, <3>2, JSONReport, NothingDoubtful
    <3> QED
      BY <1>3, <3>1, <3>2 DEF Finish
  <2>4. TypeOK'
    BY <2>1 DEF WriteInv, TypeOK, Phases
  <2>5. Assigned' /\ Accounted' /\ Sent' /\ CanceledTasks' /\ Results'
    BY <2>1 DEF WriteInv, Assigned, Accounted, Sent, CanceledTasks, Results
  <2>6. JoinedFirst' /\ Untouched' /\ InStep' /\ EditedAhead' /\ ReplaceIndex'
    BY <1>1, <2>1 DEF WriteInv, JoinedFirst, Untouched, InStep, EditedAhead, ReplaceIndex, Joined,
                FailedTasks, Unstarted, Writing
  <2>7. FailureIndependent' /\ Disclosed' /\ OutcomeTrue'
    BY <2>1, <2>2, <2>3 DEF FailureIndependent, Disclosed, OutcomeTrue, ExitSuccess, ExitConflict,
                            ExitCanceled
  <2> QED
    BY <2>4, <2>5, <2>6, <2>7 DEF WriteInv
<1> QED
  BY <1>2, <1>3

LEMMA EndContextStep == ASSUME WriteInv, EndContext PROVE WriteInv'
<1> USE DEF EndContext, poolVars, writeVars, Tasks
<1>1. TypeOK' /\ Assigned' /\ Accounted' /\ Sent' /\ CanceledTasks' /\ Results'
  BY DEF WriteInv, TypeOK, Assigned, Accounted, Sent, CanceledTasks, Results
<1>2. JoinedFirst' /\ Untouched' /\ InStep' /\ EditedAhead' /\ ReplaceIndex'
  BY DEF WriteInv, JoinedFirst, Untouched, InStep, EditedAhead, ReplaceIndex, Joined, FailedTasks,
         Changed
<1>3. FailureIndependent' /\ Disclosed' /\ OutcomeTrue'
  BY DEF FailureIndependent, Disclosed, OutcomeTrue
<1> QED
  BY <1>1, <1>2, <1>3 DEF WriteInv

LEMMA EditStep == ASSUME WriteInv, Edit PROVE WriteInv'
<1> USE DEF Edit, poolVars, writeVars, Tasks
<1>1. TypeOK' /\ Assigned' /\ Accounted' /\ Sent' /\ CanceledTasks' /\ Results'
  BY DEF WriteInv, TypeOK, Assigned, Accounted, Sent, CanceledTasks, Results
<1>2. JoinedFirst' /\ Untouched' /\ InStep' /\ ReplaceIndex'
  BY DEF WriteInv, JoinedFirst, Untouched, InStep, ReplaceIndex, Joined, FailedTasks, Changed
<1>3. EditedAhead'
  <2>1. index \in Int /\ \A t \in edited : t \in Int /\ t >= index
    BY TaskCountAssumption DEF WriteInv, TypeOK, EditedAhead
  <2>2. PICK t \in Tasks : (t > index \/ t = index) /\ edited' = edited \cup {t}
    OBVIOUS
  <2>3. t >= index
    BY <2>1, <2>2, TaskCountAssumption
  <2> QED
    BY <2>1, <2>2, <2>3 DEF EditedAhead
<1>4. FailureIndependent' /\ Disclosed' /\ OutcomeTrue'
  BY DEF FailureIndependent, Disclosed, OutcomeTrue
<1> QED
  BY <1>1, <1>2, <1>3, <1>4 DEF WriteInv

-----------------------------------------------------------------------------
(* The theorems. *)

LEMMA Stutter == ASSUME WriteInv, UNCHANGED vars PROVE WriteInv'
<1> USE DEF vars, poolVars, writeVars
<1>1. TypeOK' /\ Assigned' /\ Accounted' /\ Sent' /\ CanceledTasks' /\ Results'
  BY DEF WriteInv, TypeOK, Assigned, Accounted, Sent, CanceledTasks, Results
<1>2. JoinedFirst' /\ Untouched' /\ InStep' /\ EditedAhead' /\ ReplaceIndex'
  BY DEF WriteInv, JoinedFirst, Untouched, InStep, EditedAhead, ReplaceIndex, Joined, FailedTasks,
         Changed
<1>3. FailureIndependent' /\ Disclosed' /\ OutcomeTrue'
  BY DEF WriteInv, FailureIndependent, Disclosed, OutcomeTrue, Changed
<1> QED
  BY <1>1, <1>2, <1>3 DEF WriteInv

LEMMA Step == ASSUME WriteInv, [Next]_vars PROVE WriteInv'
<1>1. CASE Main
  <2>1. CASE \E w \in Workers : Send(w)
    BY <2>1, SendStep
  <2> QED
    BY <1>1, <2>1, DiscoverStep, DispatchStep, CollectStep, NextFileStep, ReplaceStep,
       CompleteStep DEF Main
<1>2. CASE \E w \in Workers : Work(w)
  BY <1>2, WorkStep
<1> QED
  BY <1>1, <1>2, EndContextStep, EditStep, Stutter DEF Next

(* For any number of files and workers the variables have their types. *)
THEOREM TypeCorrect == Spec => []TypeOK
<1>1. WriteInv => TypeOK
  BY DEF WriteInv
<1> QED
  BY <1>1, InitInv, Step, PTL DEF Spec

(* A file is replaced only when all files were read and formatted, whatever the *)
(* workers do and whenever the context ends.                                   *)
THEOREM AllPreparedFirst == Spec => []PreparedFirst
<1>1. WriteInv => PreparedFirst
  BY DEF WriteInv, JoinedFirst, PreparedFirst
<1> QED
  BY <1>1, InitInv, Step, PTL DEF Spec

(* The error a run stops with does not depend on the order of its workers. *)
THEOREM ErrorDeterministic == Spec => []FailureIndependent
<1>1. WriteInv => FailureIndependent
  BY DEF WriteInv
<1> QED
  BY <1>1, InitInv, Step, PTL DEF Spec

(* A run that stops names every file it replaced, calls only those certain, and names *)
(* besides them at most the changed file it was at.                                   *)
THEOREM DisclosureComplete == Spec => []Disclosed
<1>1. WriteInv => Disclosed
  BY DEF WriteInv
<1> QED
  BY <1>1, InitInv, Step, PTL DEF Spec

(* The outcome of a run says what it did: success, that every file that had to      *)
(* change was replaced and none was changed by another program before its turn; a   *)
(* conflict or a cancellation, that exactly the files before the one it stopped at  *)
(* were replaced, and that its output names these and calls them certain.           *)
THEOREM OutcomesTrue == Spec => []OutcomeTrue
<1>1. WriteInv => OutcomeTrue
  BY DEF WriteInv
<1> QED
  BY <1>1, InitInv, Step, PTL DEF Spec
=============================================================================
