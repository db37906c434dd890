-------------------------- MODULE LspRequestProofs --------------------------
(***************************************************************************)
(* The session of LspServer: one analysis at a time, what the client shows *)
(* when there is none, and what becomes of every request.                  *)
(***************************************************************************)
EXTENDS LspServerProofs, FiniteSetTheorems

USE VersionsAssumption, BoundsAssumption, FileBackendAssumption,
    NotificationsAssumption, SessionsAssumption, NilAssumption

-----------------------------------------------------------------------------
(***************************************************************************)
(* One analysis at a time, and what the client shows when there is none.   *)
(***************************************************************************)

\* The generations that are analyzed, or of which a result waits.
Generations ==
    {w.generation : w \in running}
    \cup {analysisResults[i].generation : i \in DOMAIN analysisResults}

\* Of these, the ones that were canceled.
CanceledGenerations ==
    {w.generation : w \in {v \in running : v.canceled}}
    \cup {analysisResults[i].generation :
            i \in {j \in DOMAIN analysisResults : analysisResults[j].outcome = "canceled"}}

AnyOpen == \E u \in Uris : documents[u] # Nil

\* There is one worker, or one result, or neither.
Alone ==
    /\ \A v, w \in running : v = w
    /\ Len(analysisResults) <= 1
    /\ running # {} => analysisResults = <<>>

\* Without an active analysis there is neither.
Inactive == analysisCancel = 0 /\ ~shutdown => running = {} /\ analysisResults = <<>>

\* Nothing is kept or shown of a closed document.
ClosedClear ==
    \A u \in Uris : documents[u] = Nil =>
        /\ published[u].document = Nil /\ published[u].kind # "diagnostics"
        /\ analyses[u] = Nil

\* The pending request is the newest, and waits for an older analysis.
PendingLast ==
    analysisPending # Nil =>
        /\ analysisCancel # 0
        /\ analysisPending.generation = analysisGeneration
        /\ analysisGeneration \notin Generations

\* The newest analysis is canceled by nothing but the end of the context.
NewestNotCanceled == analysisGeneration \in CanceledGenerations => ctxDone

\* While documents are open, older work has a successor: queued file changes, or a
\* pending request.
Succeeded ==
    ~shutdown /\ Empty(pendingWorkspaceChanges) /\ analysisPending = Nil /\ AnyOpen =>
        Generations \subseteq {analysisGeneration}

WorkInv ==
    /\ Alone /\ Inactive
    /\ status = "running" =>
         /\ ClosedClear /\ PendingLast /\ NewestNotCanceled /\ Succeeded /\ Settled
         /\ shutdown => analysisCancel = 0

LEMMA WorkInit == Init => WorkInv
BY DEF Init, WorkInv, Alone, Inactive, ClosedClear, PendingLast, NewestNotCanceled,
   CanceledGenerations, Succeeded, AnyOpen, Settled

\* Steps that leave the workers and their results alone.
LEMMA SameWork ==
    ASSUME UNCHANGED <<running, analysisResults>>
    PROVE  /\ Generations' = Generations
           /\ CanceledGenerations' = CanceledGenerations
           /\ Alone => Alone'
BY DEF Generations, CanceledGenerations, Alone

\* Canceling keeps the workers and their generations.
LEMMA CanceledWork ==
    ASSUME TypeOK, NEW generation, running' = Cancel(generation),
           UNCHANGED analysisResults
    PROVE  /\ Generations' = Generations
           /\ Alone => Alone'
           /\ running = {} => running' = {}
<1>1. ASSUME NEW w \in running
      PROVE  [w EXCEPT !.canceled = TRUE].generation = w.generation
  BY DEF TypeOK, AnalysisTypes, Worker
<1>2. {v.generation : v \in running'} = {w.generation : w \in running}
  <2>1. ASSUME NEW v \in Cancel(generation)
        PROVE  \E w \in running : v.generation = w.generation
    BY <1>1 DEF Cancel
  <2>2. ASSUME NEW w \in running
        PROVE  \E v \in Cancel(generation) : v.generation = w.generation
    <3>1. (IF w.generation = generation THEN [w EXCEPT !.canceled = TRUE] ELSE w)
             \in Cancel(generation)
      BY DEF Cancel
    <3> QED
      BY <1>1, <3>1
  <2> QED
    BY <2>1, <2>2
<1> QED
  BY <1>2 DEF Generations, Alone, Cancel

\* A worker that starts where nothing ran is alone, and is not canceled.
LEMMA StartedWork ==
    ASSUME NEW request, running = {}, analysisResults' = <<>>,
           running' = running \cup {StartedWorker(request)}
    PROVE  /\ Generations' = {request.generation}
           /\ CanceledGenerations' = {}
           /\ Alone'
<1>1. /\ StartedWorker(request).generation = request.generation
      /\ ~StartedWorker(request).canceled
  BY DEF StartedWorker
<1>2. running' = {StartedWorker(request)}
  OBVIOUS
<1>3. DOMAIN analysisResults' = {}
  OBVIOUS
<1> QED
  BY <1>1, <1>2, <1>3 DEF Generations, CanceledGenerations, Alone

\* A result that waits is the only work there is.
LEMMA OneResult ==
    ASSUME TypeOK, Alone, Complete
    PROVE  /\ running = {}
           /\ analysisResults' = <<>>
           /\ Completed \in Completion
           /\ Completed = analysisResults[1]
           /\ Completed.generation \in Generations
           /\ Completed.outcome = "canceled" => Completed.generation \in CanceledGenerations
<1>1. /\ analysisResults \in Seq(Completion)
      /\ analysisResults # <<>> /\ analysisResults' = Tail(analysisResults)
  BY DEF TypeOK, AnalysisTypes, Complete
<1>2. Len(analysisResults) = 1 /\ running = {}
  <2>1. Len(analysisResults) <= 1 /\ running = {}
    BY <1>1 DEF Alone
  <2>2. analysisResults \in Seq(Completion) /\ analysisResults # <<>>
    BY <1>1
  <2>3. Len(analysisResults) \in Nat /\ Len(analysisResults) # 0
    BY <2>2
  <2>4. \A n \in Nat : n # 0 /\ n <= 1 => n = 1
    OBVIOUS
  <2> QED
    BY <2>1, <2>3, <2>4
<1>3. 1 \in DOMAIN analysisResults /\ Completed = analysisResults[1]
  BY <1>1, <1>2 DEF Completed
<1>4. Completed.generation \in Generations
  BY <1>3 DEF Generations
<1>5. Completed.outcome = "canceled" => Completed.generation \in CanceledGenerations
  BY <1>3 DEF CanceledGenerations
<1> QED
  BY <1>1, <1>2, <1>3, <1>4, <1>5

\* With nothing left, there is nothing to be alone or canceled.
LEMMA NoWork ==
    ASSUME running' = {}, analysisResults' = <<>>
    PROVE  Alone' /\ Generations' = {} /\ CanceledGenerations' = {}
BY DEF Alone, Generations, CanceledGenerations

\* What scheduling does: an active analysis is canceled and a request for the newest
\* generation waits; without one, that request starts at once.
LEMMA ScheduledWork ==
    ASSUME TypeOK, Alone,
           NEW snapshot, NEW debounce, NEW generation \in Nat,
           NEW active \in Nat, NEW pending,
           Schedule(snapshot, debounce, generation, active, pending),
           \/ active # 0 /\ UNCHANGED analysisResults
           \/ active = 0 /\ running = {} /\ analysisResults' = <<>>
    PROVE  /\ Alone'
           /\ analysisGeneration' = generation + 1
           /\ analysisCancel' \in Nat \ {0}
           /\ \/ /\ Generations' = Generations
                 /\ analysisPending'.generation = generation + 1
                 /\ active # 0
              \/ /\ Generations' = {generation + 1}
                 /\ CanceledGenerations' = {}
                 /\ analysisPending' = pending
                 /\ active = 0
<1> DEFINE request == AnalysisRequest(generation + 1, snapshot, debounce)
<1>1. request.generation = generation + 1 /\ generation + 1 \in Nat \ {0}
  BY DEF AnalysisRequest
<1>2. /\ analysisGeneration' = generation + 1
      /\ \/ /\ active # 0
            /\ analysisPending' = request
            /\ running' = Cancel(active)
            /\ analysisCancel' = active
         \/ /\ active = 0
            /\ analysisPending' = pending
            /\ analysisCancel' = request.generation
            /\ running' = running \cup {StartedWorker(request)}
  BY DEF Schedule, Start
<1> HIDE DEF request
<1>3. CASE active # 0
  BY <1>1, <1>2, <1>3, CanceledWork
<1>4. CASE active = 0
  BY <1>1, <1>2, <1>4, StartedWork
<1> QED
  BY <1>3, <1>4

\* The newest analysis has the largest generation.
LEMMA OlderGenerations ==
    ASSUME TypeOK, NewestAnalysis, status = "running"
    PROVE  /\ CanceledGenerations \subseteq Generations
           /\ \A g \in Generations : g \in Nat /\ g <= analysisGeneration
<1>1. \A w \in running : w.generation \in Nat /\ w.generation <= analysisGeneration
  BY DEF TypeOK, AnalysisTypes, Worker, NewestAnalysis, WorkerNewest
<1>2. ASSUME NEW i \in DOMAIN analysisResults
      PROVE  /\ analysisResults[i].generation \in Nat
             /\ analysisResults[i].generation <= analysisGeneration
  <2>1. analysisResults[i] \in Completion
    BY DEF TypeOK, AnalysisTypes
  <2> QED
    BY <2>1 DEF Completion, NewestAnalysis, ResultNewest
<1>3. \A g \in Generations : g \in Nat /\ g <= analysisGeneration
  BY <1>1, <1>2 DEF Generations
<1> QED
  BY <1>3 DEF Generations, CanceledGenerations

\* Once the context has ended, it stays so.
LEMMA ContextStays ==
    ASSUME [Next]_vars, ctxDone, ctxDone \in BOOLEAN
    PROVE  ctxDone'
<1>1. CASE Handle
  BY <1>1 DEF Handle, HandleResponse, HandleInitialize, HandleInitialized, HandleShutdown,
     HandleUnavailable, HandleExit, HandleDidOpen, HandleDidChange, HandleDidClose,
     HandleWatchedFiles, HandleWatchedFilesFails, HandleCodeAction, HandleFormatting,
     HandleUnknown, HandleInvalid, HandleEndOfInput, Receive
<1>2. CASE CompleteAnalysis
  BY <1>2 DEF CompleteAnalysis, CompleteWithFileChanges, CompleteSuperseded,
     CompleteCanceled, CompleteFailed, CompleteCurrent, Complete
<1>3. CASE Reader \/ Serving \/ RunAnalysis
  BY <1>3 DEF Reader, Read, ReadCancel, Serving, ServeNext, CheckRequest, CallBackend,
     BackendReturns, Respond, ServeStep,
     FinishRequest, RunAnalysis, WorkerBegin, WorkerAbandon, WorkerFinish, WorkerDrop,
     WorkerStep, serveVars
<1>4. CASE ReturnAfterDrain \/ ReturnContextError \/ EndContext \/ OutputFails \/ UNCHANGED vars
  BY <1>4 DEF ReturnAfterDrain, ReturnContextError, EndContext, OutputFails, vars, serveVars
<1> QED
  BY <1>1, <1>2, <1>3, <1>4 DEF Next, MainLoop

\* A worker posts its result and ends, or only ends, or stays; it makes no generation
\* and cancels none but its own, when its context has ended.
LEMMA WorkerEffect ==
    ASSUME TypeOK, Alone, RunAnalysis
    PROVE  /\ Alone'
           /\ Generations' \subseteq Generations
           /\ CanceledGenerations' \subseteq CanceledGenerations \/ ctxDone
           /\ UNCHANGED <<status, ctxDone, shutdown, documents, published, analyses,
                          analysisGeneration, analysisCancel, analysisPending,
                          pendingWorkspaceChanges>>
<1> PICK w \in running : WorkerBegin(w) \/ WorkerAbandon(w) \/ WorkerFinish(w) \/ WorkerDrop(w)
  BY DEF RunAnalysis
<1>1. /\ w \in Worker
      /\ running = {w}
      /\ analysisResults = <<>>
  BY DEF TypeOK, AnalysisTypes, Alone
<1>2. UNCHANGED <<status, ctxDone, shutdown, documents, published, analyses,
                  analysisGeneration, analysisCancel, analysisPending,
                  pendingWorkspaceChanges>>
  BY DEF WorkerBegin, WorkerAbandon, WorkerFinish, WorkerDrop, WorkerStep, serveVars,
     sessionVars, documentVars, fileVars
<1>3. CASE WorkerBegin(w)
  <2> DEFINE v == [w EXCEPT !.phase = "analyzing", !.basis = told]
  <2>1. v.generation = w.generation /\ v.canceled = w.canceled
    BY <1>1 DEF Worker
  <2>2. running' = {v} /\ analysisResults' = analysisResults
    BY <1>1, <1>3 DEF WorkerBegin
  <2> HIDE DEF v
  <2>3. Alone'
    BY <1>1, <2>2 DEF Alone
  <2>4. Generations' = Generations
    BY <1>1, <2>1, <2>2 DEF Generations
  <2>5. CanceledGenerations' = CanceledGenerations
    BY <1>1, <2>1, <2>2 DEF CanceledGenerations
  <2> QED
    BY <1>2, <2>3, <2>4, <2>5
<1>4. ASSUME NEW outcome, NEW errors, Post(w, outcome, errors),
             outcome = "canceled" => w.canceled \/ ctxDone
      PROVE  /\ Alone'
             /\ Generations' \subseteq Generations
             /\ CanceledGenerations' \subseteq CanceledGenerations \/ ctxDone
  <2> DEFINE completion == [generation |-> w.generation, documents |-> w.documents,
                            basis |-> w.basis, outcome |-> outcome, errors |-> errors]
  <2>1. completion.generation = w.generation /\ completion.outcome = outcome
    OBVIOUS
  <2>2. analysisResults' = <<completion>> /\ running' = {}
    BY <1>1, <1>4 DEF Post
  <2> HIDE DEF completion
  <2>3. Alone'
    BY <2>2 DEF Alone
  <2>4. /\ DOMAIN analysisResults' = {1}
        /\ analysisResults'[1].generation = w.generation
        /\ analysisResults'[1].outcome = outcome
    BY <2>1, <2>2
  <2>5. Generations' \subseteq Generations
    BY <1>1, <2>2, <2>4 DEF Generations
  <2>6. CanceledGenerations' \subseteq CanceledGenerations \/ ctxDone
    BY <1>1, <1>4, <2>2, <2>4 DEF CanceledGenerations
  <2> QED
    BY <2>3, <2>5, <2>6
<1>5. CASE WorkerAbandon(w)
  BY <1>2, <1>4, <1>5 DEF WorkerAbandon, ContextEnded
<1>6. CASE WorkerFinish(w)
  BY <1>2, <1>4, <1>6 DEF WorkerFinish, ContextEnded
<1>7. CASE WorkerDrop(w)
  <2>1. running' = {} /\ analysisResults' = <<>>
    BY <1>1, <1>7 DEF WorkerDrop
  <2> QED
    BY <1>2, <2>1, NoWork
<1> QED
  BY <1>3, <1>5, <1>6, <1>7

\* The generation that waits is not 0, because an older one was completed.
LEMMA PendingStarts ==
    ASSUME CurrentInv, WorkInv, CompleteSuperseded, analysisPending # Nil
    PROVE  analysisCancel' # 0
<1>1. /\ Complete /\ status = "running" /\ Superseded(Completed)
      /\ analysisCancel' = analysisPending.generation
  BY DEF CompleteSuperseded, Start, Complete, Selecting
<1>2. TypeOK /\ Alone /\ PendingLast /\ NewestAnalysis /\ analysisGeneration \in Nat
  BY <1>1 DEF CurrentInv, TypeOK, AnalysisTypes, WorkInv
<1>3. Completed.generation \in Nat /\ Completed.generation <= analysisGeneration
  BY <1>1, <1>2, OneResult, OlderGenerations
<1>4. analysisGeneration # 0
  BY <1>1, <1>2, <1>3 DEF Superseded
<1> QED
  BY <1>1, <1>2, <1>4 DEF PendingLast

\* The steps that start, cancel or end analysis work.
LEMMA WorkSteps ==
    ASSUME [Next]_vars
    PROVE  \/ UNCHANGED <<running, analysisResults, analysisCancel, shutdown>>
           \/ HandleShutdown \/ HandleExit
           \/ HandleDidOpen \/ HandleDidChange \/ HandleDidClose \/ HandleWatchedFiles
           \/ CompleteAnalysis
           \/ RunAnalysis
<1>1. CASE HandleResponse \/ HandleInitialize \/ HandleInitialized \/ HandleUnavailable
           \/ HandleUnknown \/ HandleWatchedFilesFails \/ HandleInvalid \/ HandleEndOfInput
           \/ HandleCodeAction \/ HandleFormatting
  BY <1>1 DEF HandleResponse, HandleInitialize, HandleInitialized, HandleUnavailable,
     HandleUnknown, HandleWatchedFilesFails, HandleInvalid, HandleEndOfInput,
     HandleCodeAction, HandleFormatting, Fail, sessionVars, analysisVars
<1>2. CASE Serving \/ ReturnAfterDrain \/ ReturnContextError \/ EndContext \/ OutputFails
           \/ Reader \/ UNCHANGED vars
  BY <1>2 DEF Serving, ServeNext, CheckRequest, CallBackend,
     BackendReturns, Respond, ServeStep, FinishRequest,
     ReturnAfterDrain, ReturnContextError, EndContext, OutputFails, Reader, Read, ReadCancel,
     Fail, sessionVars, analysisVars, vars
<1> QED
  BY <1>1, <1>2 DEF Next, MainLoop, Handle

\* Scheduling starts a worker only where none is left, a completion starts one after
\* the last result was taken, and shutdown is what parts analysisCancel from the worker.
LEMMA AloneStep ==
    ASSUME CurrentInv, WorkInv, [Next]_vars
    PROVE  Alone' /\ Inactive'
<1>1. /\ TypeOK /\ Alone /\ Inactive
      /\ analysisGeneration \in Nat /\ analysisCancel \in Nat
      /\ analysisGeneration + 1 \in Nat
  BY DEF CurrentInv, TypeOK, AnalysisTypes, WorkInv
<1>2. CASE UNCHANGED <<running, analysisResults, analysisCancel, shutdown>>
  BY <1>1, <1>2 DEF Alone, Inactive
<1>3. CASE HandleShutdown
  <2>1. running' = Cancel(analysisCancel) /\ analysisResults' = analysisResults /\ shutdown'
    BY <1>3 DEF HandleShutdown
  <2> QED
    BY <1>1, <2>1, CanceledWork DEF Inactive
<1>4. ASSUME running' = Cancel(analysisCancel),
             UNCHANGED <<analysisResults, analysisCancel, shutdown>>
      PROVE  Alone' /\ Inactive'
  <2>1. Alone' /\ (running = {} => running' = {})
    BY <1>1, <1>4, CanceledWork
  <2> QED
    BY <1>1, <1>4, <2>1 DEF Inactive
<1>5. CASE HandleExit
  BY <1>4, <1>5 DEF HandleExit, sessionVars
<1>6. ASSUME NEW snapshot, NEW debounce, NEW generation \in Nat, NEW pending,
             Schedule(snapshot, debounce, generation, analysisCancel, pending), ~shutdown,
             UNCHANGED analysisResults
      PROVE  Alone' /\ Inactive'
  <2>1. analysisCancel = 0 => running = {} /\ analysisResults' = <<>>
    BY <1>1, <1>6 DEF Inactive
  <2>2. Alone' /\ analysisCancel' \in Nat \ {0}
    BY <1>1, <1>6, <2>1, ScheduledWork
  <2> QED
    BY <2>2 DEF Inactive
<1>7. CASE HandleDidOpen
  BY <1>1, <1>6, <1>7 DEF HandleDidOpen, Available
<1>8. CASE HandleDidChange
  BY <1>1, <1>2, <1>6, <1>8 DEF HandleDidChange, Available, Fail, analysisVars, sessionVars
<1>9. CASE HandleDidClose
  BY <1>1, <1>4, <1>6, <1>9 DEF HandleDidClose, Available, sessionVars
<1>10. CASE HandleWatchedFiles
  <2>1. ~shutdown /\ UNCHANGED <<shutdown, analysisResults>>
    BY <1>10 DEF HandleWatchedFiles, Available, sessionVars, analysisVars
  <2>2. \/ UNCHANGED <<running, analysisCancel>>
        \/ running' = Cancel(analysisCancel) /\ UNCHANGED analysisCancel
        \/ Schedule(documents, TRUE, analysisGeneration + 1, analysisCancel, Nil)
    BY <1>10 DEF HandleWatchedFiles, analysisVars
  <2> QED
    BY <1>1, <1>2, <1>4, <1>6, <2>1, <2>2
<1>11. CASE CompleteAnalysis
  <2>1. Complete /\ UNCHANGED shutdown
    BY <1>11 DEF CompleteAnalysis, CompleteWithFileChanges, CompleteSuperseded,
       CompleteCanceled, CompleteFailed, CompleteCurrent, Complete, sessionVars
  <2>2. running = {} /\ analysisResults' = <<>>
    BY <1>1, <2>1, OneResult
  <2>3. \/ UNCHANGED running
        \/ Schedule(documents, TRUE, analysisGeneration, 0, Nil)
        \/ CompleteSuperseded /\ analysisPending # Nil
    BY <1>11 DEF CompleteAnalysis, CompleteWithFileChanges, CompleteSuperseded,
       CompleteCanceled, CompleteFailed, CompleteCurrent
  <2>4. CASE UNCHANGED running
    BY <2>2, <2>4, NoWork DEF Inactive
  <2>5. CASE Schedule(documents, TRUE, analysisGeneration, 0, Nil)
    <3>1. 0 \in Nat
      OBVIOUS
    <3>2. Alone' /\ analysisCancel' \in Nat \ {0}
      BY <1>1, <2>2, <2>5, <3>1, ScheduledWork
    <3> QED
      BY <3>2 DEF Inactive
  <2>6. CASE CompleteSuperseded /\ analysisPending # Nil
    <3>1. analysisCancel' # 0
      BY <2>6, PendingStarts
    <3>2. Alone'
      BY <2>2, <2>6, StartedWork DEF CompleteSuperseded, Start
    <3> QED
      BY <3>1, <3>2 DEF Inactive
  <2> QED
    BY <2>3, <2>4, <2>5, <2>6
<1>12. CASE RunAnalysis
  <2>1. Alone' /\ UNCHANGED <<analysisCancel, shutdown>>
    BY <1>1, <1>12, WorkerEffect
  <2>2. running # {}
    BY <1>12 DEF RunAnalysis
  <2> QED
    BY <1>1, <2>1, <2>2 DEF Inactive
<1> QED
  BY <1>2, <1>3, <1>5, <1>7, <1>8, <1>9, <1>10, <1>11, <1>12, WorkSteps

\* The document an editor opens or changes.
LEMMA ReceivedDocument ==
    ASSUME TypeOK, HandleDidOpen \/ HandleDidChange
    PROVE  [version |-> Message1.version, text |-> Message1.text] \in Document
<1>1. CASE HandleDidOpen
  <2>1. Receive({"didOpen"})
    BY <1>1 DEF HandleDidOpen
  <2>2. Message1 \in Message /\ Message1.kind = "didOpen"
    BY <2>1, ReceiveTypes
  <2> QED
    BY <2>2, MessageFields
<1>2. CASE HandleDidChange
  <2>1. Receive({"didChange"})
    BY <1>2 DEF HandleDidChange
  <2>2. Message1 \in Message /\ Message1.kind = "didChange"
    BY <2>1, ReceiveTypes
  <2> QED
    BY <2>2, MessageFields
<1> QED
  BY <1>1, <1>2

\* Documents, what is shown of them, and what is kept of them, change together.
LEMMA ClosedClearStep ==
    ASSUME CurrentInv, ClosedClear, [Next]_vars
    PROVE  ClosedClear'
<1>1. /\ DOMAIN documents = Uris /\ DOMAIN published = Uris /\ DOMAIN analyses = Uris
  BY DEF CurrentInv, TypeOK, DocumentTypes, Documents
<1>2. CASE UNCHANGED <<documents, published>> /\ UNCHANGED analyses
  BY <1>2 DEF ClosedClear
<1>3. CASE UNCHANGED <<documents, published>> /\ analyses' = NoAnalyses
  BY <1>3 DEF ClosedClear, NoAnalyses
<1>4. CASE HandleDidOpen \/ HandleDidChange
  <2> DEFINE document == [version |-> Message1.version, text |-> Message1.text]
  <2>1. CASE UNCHANGED <<documents, published, analyses>>
    BY <1>2, <2>1
  <2>2. CASE /\ documents' = [documents EXCEPT ![Message1.uri] = document]
             /\ UNCHANGED published /\ analyses' = NoAnalyses
             /\ document \in Document
    <3>1. \A u \in Uris : documents'[u] = Nil => documents[u] = Nil
      BY <1>1, <2>2
    <3> QED
      BY <2>2, <3>1 DEF ClosedClear, NoAnalyses
  <2>3. TypeOK
    BY DEF CurrentInv
  <2>4. document \in Document
    BY <1>4, <2>3, ReceivedDocument
  <2> QED
    BY <1>4, <2>1, <2>2, <2>4 DEF HandleDidOpen, HandleDidChange, Schedule, Fail,
       documentVars
<1>5. CASE HandleDidClose
  <2>1. /\ documents' = [documents EXCEPT ![Message1.uri] = Nil]
        /\ published' = [published EXCEPT ![Message1.uri] =
                            [kind |-> "cleared", document |-> Nil]]
        /\ \/ analyses' = NoAnalyses
           \/ analyses' = [analyses EXCEPT ![Message1.uri] = Nil]
    BY <1>5 DEF HandleDidClose, Schedule
  <2> QED
    BY <1>1, <2>1 DEF ClosedClear, NoAnalyses
<1>6. CASE CompleteCurrent
  <2>1. UNCHANGED documents
    BY <1>6 DEF CompleteCurrent, Complete
  <2>2. CASE SnapshotCurrent(Completed.documents)
    <3>1. /\ Completed.documents = documents
          /\ analyses' = PublishedAnalyses(Completed)
          /\ published' = PublishedDiagnostics(Completed)
      BY <1>6, <2>2 DEF CompleteCurrent, SnapshotCurrent
    <3>2. \A u \in Uris : documents[u] = Nil =>
              published'[u] = published[u] /\ analyses'[u] = analyses[u]
      BY <3>1 DEF PublishedAnalyses, PublishedDiagnostics
    <3> QED
      BY <2>1, <3>2 DEF ClosedClear
  <2>3. CASE ~SnapshotCurrent(Completed.documents)
    BY <1>2, <1>6, <2>1, <2>3 DEF CompleteCurrent
  <2> QED
    BY <2>2, <2>3
<1>7. CASE HandleWatchedFiles \/ CompleteWithFileChanges
  BY <1>2, <1>3, <1>7 DEF HandleWatchedFiles, CompleteWithFileChanges, Complete, Schedule,
     documentVars
<1>8. CASE CompleteSuperseded \/ CompleteCanceled \/ HandleShutdown \/ RunAnalysis
  BY <1>2, <1>8 DEF CompleteSuperseded, CompleteCanceled, Complete, HandleShutdown,
     RunAnalysis, WorkerBegin, WorkerAbandon, WorkerFinish, WorkerDrop, WorkerStep,
     documentVars
<1> QED
  BY <1>2, <1>4, <1>5, <1>6, <1>7, <1>8, StepKinds DEF Quiet

\* Every step that goes on and cancels or drops work makes a newer generation, or
\* leaves no work; only a scheduled request for the newest generation waits.
LEMMA GenerationStep ==
    ASSUME CurrentInv, WorkInv, [Next]_vars, status = "running", status' = "running"
    PROVE  PendingLast' /\ NewestNotCanceled'
<1>1. /\ TypeOK /\ Alone /\ Inactive /\ PendingLast /\ NewestNotCanceled
      /\ analysisGeneration \in Nat /\ analysisCancel \in Nat
      /\ analysisGeneration + 1 \in Nat
      /\ CanceledGenerations \subseteq Generations
      /\ \A g \in Generations : g \in Nat /\ g <= analysisGeneration
  BY OlderGenerations DEF CurrentInv, TypeOK, AnalysisTypes, WorkInv
<1>2. ctxDone => ctxDone'
  BY <1>1, ContextStays DEF TypeOK, ServeTypes
<1>3. CanceledGenerations' \subseteq Generations'
  BY DEF CanceledGenerations, Generations
<1>4. ASSUME Generations' \subseteq Generations, analysisPending' = Nil,
             analysisGeneration' \in Nat, analysisGeneration' > analysisGeneration
      PROVE  PendingLast' /\ NewestNotCanceled'
  <2>1. analysisGeneration' \notin Generations'
    BY <1>1, <1>4
  <2> QED
    BY <1>3, <1>4, <2>1 DEF PendingLast, NewestNotCanceled
<1>5. ASSUME analysisPending' = Nil, CanceledGenerations' = {}
      PROVE  PendingLast' /\ NewestNotCanceled'
  BY <1>5 DEF PendingLast, NewestNotCanceled
<1>6. CASE Quiet
  BY <1>1, <1>2, <1>6, SameWork DEF Quiet, analysisVars, PendingLast, NewestNotCanceled
<1>7. CASE HandleShutdown
  <2>1. /\ running' = Cancel(analysisCancel) /\ analysisResults' = analysisResults
        /\ analysisGeneration' = analysisGeneration + 1 /\ analysisPending' = Nil
    BY <1>7 DEF HandleShutdown
  <2>2. Generations' = Generations
    BY <1>1, <2>1, CanceledWork
  <2> QED
    BY <1>1, <1>4, <2>1, <2>2
<1>8. ASSUME NEW snapshot, NEW debounce, NEW generation \in Nat,
             NEW pending \in {Nil, analysisPending},
             Schedule(snapshot, debounce, generation, analysisCancel, pending), ~shutdown,
             generation >= analysisGeneration,
             UNCHANGED analysisResults
      PROVE  PendingLast' /\ NewestNotCanceled'
  <2>1. analysisCancel = 0 => running = {} /\ analysisResults' = <<>>
    BY <1>1, <1>8 DEF Inactive
  <2>2. /\ analysisGeneration' = generation + 1
        /\ analysisCancel' \in Nat \ {0}
        /\ \/ /\ Generations' = Generations
              /\ analysisPending'.generation = generation + 1
              /\ analysisCancel # 0
           \/ /\ CanceledGenerations' = {}
              /\ analysisPending' = pending
              /\ analysisCancel = 0
    BY <1>1, <1>8, <2>1, ScheduledWork
  <2>3. CASE analysisCancel # 0
    <3>1. analysisGeneration' \notin Generations'
      BY <1>1, <1>8, <2>2, <2>3
    <3> QED
      BY <1>3, <2>2, <2>3, <3>1 DEF PendingLast, NewestNotCanceled
  <2>4. CASE analysisCancel = 0
    <3>1. analysisPending = Nil
      BY <1>1, <2>4 DEF PendingLast
    <3> QED
      BY <1>5, <2>2, <2>4, <3>1
  <2> QED
    BY <2>3, <2>4
<1>9. CASE HandleDidOpen \/ HandleDidChange
  <2>1. /\ ~shutdown /\ UNCHANGED analysisResults
        /\ \E snapshot, debounce :
              Schedule(snapshot, debounce, analysisGeneration, analysisCancel, analysisPending)
    BY <1>9 DEF HandleDidOpen, HandleDidChange, Available, Fail
  <2>2. analysisGeneration >= analysisGeneration /\ analysisPending \in {Nil, analysisPending}
    BY <1>1
  <2> QED
    BY <1>1, <1>8, <2>1, <2>2
<1>10. ASSUME running' = running \/ running' = Cancel(analysisCancel),
              analysisGeneration' = analysisGeneration + 1, analysisPending' = Nil,
              UNCHANGED analysisResults
       PROVE  PendingLast' /\ NewestNotCanceled'
  <2>1. Generations' = Generations
    BY <1>1, <1>10, CanceledWork, SameWork
  <2> QED
    BY <1>1, <1>4, <1>10, <2>1
<1>11. CASE HandleDidClose
  <2>1. ~shutdown /\ UNCHANGED analysisResults
    BY <1>11 DEF HandleDidClose, Available
  <2>2. analysisGeneration + 1 >= analysisGeneration
    BY <1>1
  <2> QED
    BY <1>1, <1>8, <1>10, <1>11, <2>1, <2>2 DEF HandleDidClose
<1>12. CASE HandleWatchedFiles
  <2>1. ~shutdown /\ UNCHANGED <<shutdown, analysisResults, ctxDone>>
    BY <1>12 DEF HandleWatchedFiles, Available, sessionVars, analysisVars, Receive
  <2>2. \/ UNCHANGED analysisVars
        \/ /\ running' = running \/ running' = Cancel(analysisCancel)
           /\ analysisGeneration' = analysisGeneration + 1
           /\ analysisPending' = Nil
        \/ Schedule(documents, TRUE, analysisGeneration + 1, analysisCancel, Nil)
    BY <1>12 DEF HandleWatchedFiles
  <2>3. CASE UNCHANGED analysisVars
    BY <1>1, <2>1, <2>3, SameWork DEF analysisVars, PendingLast, NewestNotCanceled
  <2>4. analysisGeneration + 1 >= analysisGeneration
    BY <1>1
  <2> QED
    BY <1>1, <1>8, <1>10, <2>1, <2>2, <2>3, <2>4
<1>13. CASE CompleteWithFileChanges \/ CompleteSuperseded \/ CompleteCanceled \/ CompleteCurrent
  <2>1. Complete
    BY <1>13 DEF CompleteWithFileChanges, CompleteSuperseded, CompleteCanceled, CompleteCurrent
  <2>2. running = {} /\ analysisResults' = <<>> /\ Completed.generation \in Generations
    BY <1>1, <2>1, OneResult
  <2>3. analysisPending' = Nil
    <3>1. CASE CompleteWithFileChanges
      BY <1>13, <3>1, <2>2 DEF CompleteWithFileChanges, Schedule
    <3>2. CASE CompleteSuperseded
      BY <3>2 DEF CompleteSuperseded
    <3>3. CASE CompleteCanceled \/ CompleteCurrent
      BY <1>1, <2>2, <3>3 DEF CompleteCanceled, CompleteCurrent, Superseded, PendingLast
    <3> QED
      BY <1>13, <3>1, <3>2, <3>3
  <2>4. CanceledGenerations' = {}
    <3>1. \/ UNCHANGED running
          \/ Schedule(documents, TRUE, analysisGeneration, 0, Nil)
          \/ Start(analysisPending)
      BY <1>13 DEF CompleteWithFileChanges, CompleteSuperseded, CompleteCanceled,
         CompleteCurrent
    <3>2. CASE UNCHANGED running
      BY <2>2, <3>2, NoWork
    <3>3. CASE Start(analysisPending)
      BY <2>2, <3>3, StartedWork DEF Start
    <3>4. CASE Schedule(documents, TRUE, analysisGeneration, 0, Nil)
      <4>1. 0 \in Nat
        OBVIOUS
      <4> QED
        BY <1>1, <2>2, <3>4, <4>1, ScheduledWork
    <3> QED
      BY <3>1, <3>2, <3>3, <3>4
  <2> QED
    BY <1>5, <2>3, <2>4
<1>14. CASE RunAnalysis
  BY <1>1, <1>2, <1>14, WorkerEffect DEF PendingLast, NewestNotCanceled
<1> QED
  BY <1>6, <1>7, <1>9, <1>11, <1>12, <1>13, <1>14, StepKinds

\* A change of the open documents or of files leaves no older work without a successor.
LEMMA SucceededStep ==
    ASSUME CurrentInv, WorkInv, [Next]_vars, status = "running", status' = "running"
    PROVE  Succeeded'
<1>1. /\ TypeOK /\ Alone /\ Inactive /\ PendingLast /\ Succeeded
      /\ analysisGeneration \in Nat /\ analysisCancel \in Nat
      /\ analysisGeneration + 1 \in Nat
  BY DEF CurrentInv, TypeOK, AnalysisTypes, WorkInv
<1>2. CASE Quiet
  BY <1>1, <1>2, SameWork DEF Quiet, analysisVars, fileVars, Succeeded, AnyOpen
<1>3. CASE HandleShutdown
  BY <1>3 DEF HandleShutdown, Succeeded
<1>4. ASSUME NEW snapshot \in Documents, NEW debounce \in BOOLEAN, NEW generation \in Nat,
             NEW pending \in {Nil, analysisPending},
             Schedule(snapshot, debounce, generation, analysisCancel, pending), ~shutdown,
             UNCHANGED analysisResults
      PROVE  Succeeded'
  <2>1. analysisCancel = 0 => running = {} /\ analysisResults' = <<>>
    BY <1>1, <1>4 DEF Inactive
  <2>2. /\ analysisGeneration' = generation + 1
        /\ analysisCancel # 0 \/ Generations' = {generation + 1}
    BY <1>1, <1>4, <2>1, ScheduledWork
  <2>3. CASE analysisCancel # 0
    <3>1. AnalysisRequest(generation + 1, snapshot, debounce) \in Request
      BY <1>4 DEF AnalysisRequest, Request
    <3>2. analysisPending' # Nil
      BY <1>4, <2>3, <3>1 DEF Schedule
    <3> QED
      BY <3>2 DEF Succeeded
  <2>4. CASE analysisCancel = 0
    BY <2>2, <2>4 DEF Succeeded
  <2> QED
    BY <2>3, <2>4
<1>5. CASE HandleDidOpen \/ HandleDidChange
  <2> DEFINE document == [version |-> Message1.version, text |-> Message1.text]
             snapshot == [documents EXCEPT ![Message1.uri] = document]
  <2>1. /\ ~shutdown /\ UNCHANGED analysisResults
        /\ \/ Schedule(snapshot, FALSE, analysisGeneration, analysisCancel, analysisPending)
           \/ Schedule(snapshot, TRUE, analysisGeneration, analysisCancel, analysisPending)
    BY <1>5 DEF HandleDidOpen, HandleDidChange, Available, Fail
  <2>2. document \in Document
    BY <1>1, <1>5, ReceivedDocument
  <2>3. snapshot \in Documents
    BY <1>1, <2>2, SnapshotTypes DEF TypeOK
  <2> HIDE DEF snapshot
  <2>4. analysisPending \in {Nil, analysisPending} /\ TRUE \in BOOLEAN /\ FALSE \in BOOLEAN
    OBVIOUS
  <2> QED
    BY <1>1, <1>4, <2>1, <2>3, <2>4
<1>6. CASE HandleDidClose
  <2> DEFINE snapshot == [documents EXCEPT ![Message1.uri] = Nil]
  <2>1. /\ ~shutdown /\ UNCHANGED analysisResults
        /\ documents' = snapshot
        /\ \/ Schedule(snapshot, FALSE, analysisGeneration + 1, analysisCancel, Nil)
           \/ ~\E u \in Uris : snapshot[u] # Nil
    BY <1>6 DEF HandleDidClose, Available
  <2>2. snapshot \in Documents
    BY <1>1, SnapshotTypes DEF TypeOK
  <2> HIDE DEF snapshot
  <2>3. CASE Schedule(snapshot, FALSE, analysisGeneration + 1, analysisCancel, Nil)
    BY <1>1, <1>4, <2>1, <2>2, <2>3
  <2>4. CASE ~\E u \in Uris : snapshot[u] # Nil
    BY <2>1, <2>4 DEF Succeeded, AnyOpen
  <2> QED
    BY <2>1, <2>3, <2>4
<1>7. CASE HandleWatchedFiles
  <2>1. ~shutdown /\ UNCHANGED <<shutdown, analysisResults, documents>>
        /\ documents \in Documents
    BY <1>1, <1>7 DEF HandleWatchedFiles, Available, sessionVars, analysisVars, documentVars,
       TypeOK, DocumentTypes
  <2>2. CASE UNCHANGED <<documentVars, analysisVars, fileVars, queueVars>>
    BY <1>1, <2>1, <2>2, SameWork DEF analysisVars, fileVars, Succeeded, AnyOpen
  <2>3. CASE /\ ~Empty(WatchedFileChanges(Message1.changes))
             /\ pendingWorkspaceChanges' = QueuedChanges(WatchedFileChanges(Message1.changes))
    <3>1. ~Empty(pendingWorkspaceChanges')
      BY <2>3 DEF Empty, QueuedChanges
    <3> QED
      BY <3>1 DEF Succeeded
  <2>4. CASE Schedule(documents, TRUE, analysisGeneration + 1, analysisCancel, Nil)
    BY <1>1, <1>4, <2>1, <2>4
  <2>5. CASE ~\E u \in Uris : documents[u] # Nil
    BY <2>1, <2>5 DEF Succeeded, AnyOpen
  <2> QED
    BY <1>7, <2>2, <2>3, <2>4, <2>5 DEF HandleWatchedFiles
<1>8. CASE CompleteWithFileChanges \/ CompleteSuperseded \/ CompleteCanceled \/ CompleteCurrent
  <2>1. Complete
    BY <1>8 DEF CompleteWithFileChanges, CompleteSuperseded, CompleteCanceled, CompleteCurrent
  <2>2. running = {} /\ analysisResults' = <<>>
    BY <1>1, <2>1, OneResult
  <2>3. \/ UNCHANGED running
        \/ Schedule(documents, TRUE, analysisGeneration, 0, Nil)
        \/ /\ Start(analysisPending) /\ analysisPending # Nil
           /\ UNCHANGED analysisGeneration
    BY <1>8 DEF CompleteWithFileChanges, CompleteSuperseded, CompleteCanceled,
       CompleteCurrent
  <2>4. CASE UNCHANGED running
    BY <2>2, <2>4, NoWork DEF Succeeded
  <2>5. CASE /\ Start(analysisPending) /\ analysisPending # Nil
             /\ UNCHANGED analysisGeneration
    <3>1. Generations' = {analysisPending.generation}
      BY <2>2, <2>5, StartedWork DEF Start
    <3> QED
      BY <1>1, <2>5, <3>1 DEF PendingLast, Succeeded
  <2>6. CASE Schedule(documents, TRUE, analysisGeneration, 0, Nil)
    <3>1. 0 \in Nat
      OBVIOUS
    <3>2. /\ analysisGeneration' = analysisGeneration + 1
          /\ Generations' = {analysisGeneration + 1}
      BY <1>1, <2>2, <2>6, <3>1, ScheduledWork
    <3> QED
      BY <3>2 DEF Succeeded
  <2> QED
    BY <2>3, <2>4, <2>5, <2>6
<1>9. CASE RunAnalysis
  BY <1>1, <1>9, WorkerEffect DEF Succeeded, AnyOpen
<1> QED
  BY <1>2, <1>3, <1>5, <1>6, <1>7, <1>8, <1>9, StepKinds

\* After shutdown no analysis is active: nothing starts one any more.
LEMMA ShutdownStep ==
    ASSUME CurrentInv, WorkInv, [Next]_vars, status = "running", status' = "running"
    PROVE  shutdown' => analysisCancel' = 0
<1>1. shutdown => analysisCancel = 0 /\ analysisPending = Nil
  BY DEF WorkInv, CurrentInv, NewestAnalysis, PendingNewest
<1>2. CASE Quiet \/ HandleShutdown \/ RunAnalysis
  BY <1>1, <1>2, WorkerEffect DEF Quiet, HandleShutdown, analysisVars, CurrentInv, WorkInv
<1>3. CASE HandleDidOpen \/ HandleDidChange \/ HandleDidClose \/ HandleWatchedFiles
  BY <1>3 DEF HandleDidOpen, HandleDidChange, HandleDidClose, HandleWatchedFiles, Available,
     sessionVars, Fail
<1>4. CASE CompleteWithFileChanges \/ CompleteSuperseded \/ CompleteCanceled \/ CompleteCurrent
  BY <1>1, <1>4 DEF CompleteWithFileChanges, CompleteSuperseded, CompleteCanceled,
     CompleteCurrent, Complete, sessionVars
<1> QED
  BY <1>2, <1>3, <1>4, StepKinds

\* An analysis becomes inactive when its results are published, when the context has
\* ended, or when no document is open any more; and inactive, only the last close
\* and file changes without a document change anything.
LEMMA SettledStep ==
    ASSUME CurrentInv, WorkInv, [Next]_vars, status = "running", status' = "running"
    PROVE  Settled'
<1>1. /\ TypeOK /\ Alone /\ Inactive /\ PendingLast /\ Succeeded /\ Settled
      /\ NewestNotCanceled
      /\ analysisGeneration \in Nat /\ analysisCancel \in Nat
      /\ analysisGeneration + 1 \in Nat
      /\ documents \in Documents
      /\ analysisPending \in Request \cup {Nil}
  BY DEF CurrentInv, TypeOK, AnalysisTypes, WorkInv, DocumentTypes
<1>2. ctxDone => ctxDone'
  BY <1>1, ContextStays DEF TypeOK, ServeTypes
<1>3. ClosedClear'
  BY ClosedClearStep DEF CurrentInv, WorkInv
<1>4. ASSUME \A u \in Uris : documents'[u] = Nil
      PROVE  Settled'
  BY <1>3, <1>4 DEF ClosedClear, Settled
<1>5. ASSUME UNCHANGED <<documents, published, analyses, analysisCancel, shutdown>>
      PROVE  Settled'
  BY <1>1, <1>2, <1>5 DEF Settled
<1>6. ASSUME analysisCancel' # 0 \/ shutdown'
      PROVE  Settled'
  BY <1>6 DEF Settled
<1>7. ASSUME NEW snapshot, NEW debounce, NEW generation \in Nat, NEW pending,
             Schedule(snapshot, debounce, generation, analysisCancel, pending)
      PROVE  Settled'
  <2>1. analysisCancel' # 0
    BY <1>1, <1>7 DEF Schedule, Start, AnalysisRequest
  <2> QED
    BY <1>6, <2>1
<1>8. CASE Quiet
  BY <1>5, <1>8 DEF Quiet, analysisVars
<1>9. CASE HandleShutdown
  BY <1>6, <1>9 DEF HandleShutdown
<1>10. CASE HandleDidOpen \/ HandleDidChange
  <2>1. \E snapshot, debounce :
            Schedule(snapshot, debounce, analysisGeneration, analysisCancel, analysisPending)
    BY <1>10 DEF HandleDidOpen, HandleDidChange, Fail
  <2> QED
    BY <1>1, <1>7, <2>1
<1>11. CASE HandleDidClose
  <2> DEFINE snapshot == [documents EXCEPT ![Message1.uri] = Nil]
  <2>1. /\ documents' = snapshot
        /\ \/ Schedule(snapshot, FALSE, analysisGeneration + 1, analysisCancel, Nil)
           \/ ~\E u \in Uris : snapshot[u] # Nil
    BY <1>11 DEF HandleDidClose
  <2> HIDE DEF snapshot
  <2> QED
    BY <1>1, <1>4, <1>7, <2>1
<1>12. CASE HandleWatchedFiles
  <2>1. UNCHANGED <<shutdown, documents, published>>
    BY <1>12 DEF HandleWatchedFiles, sessionVars, documentVars
  <2>2. \/ UNCHANGED <<analyses, analysisCancel>>
        \/ analysisCancel' # 0
        \/ Schedule(documents, TRUE, analysisGeneration + 1, analysisCancel, Nil)
        \/ ~\E u \in Uris : documents[u] # Nil
    BY <1>12 DEF HandleWatchedFiles, documentVars, analysisVars
  <2> QED
    BY <1>1, <1>4, <1>5, <1>6, <1>7, <2>1, <2>2
<1>13. CASE CompleteWithFileChanges
  <2>1. Complete /\ UNCHANGED <<documents, shutdown>>
    BY <1>13 DEF CompleteWithFileChanges, Complete, sessionVars
  <2>2. \/ Schedule(documents, TRUE, analysisGeneration, 0, Nil)
        \/ shutdown
        \/ ~\E u \in Uris : documents[u] # Nil
    BY <1>13 DEF CompleteWithFileChanges
  <2>3. Schedule(documents, TRUE, analysisGeneration, 0, Nil) => analysisCancel' # 0
    BY <1>1 DEF Schedule, Start, AnalysisRequest
  <2> QED
    BY <1>4, <1>6, <2>1, <2>2, <2>3
<1>14. CASE CompleteSuperseded
  <2>1. Complete /\ UNCHANGED <<documents, shutdown>>
    BY <1>14 DEF CompleteSuperseded, Complete, sessionVars
  <2>2. Completed.generation \in Generations /\ Completed.generation # analysisGeneration
    BY <1>1, <1>14, <2>1, OneResult DEF CompleteSuperseded, Superseded
  <2>3. CASE analysisPending # Nil
    BY <1>6, <1>14, <2>3, PendingStarts
  <2>4. CASE analysisPending = Nil
    <3>1. shutdown \/ ~AnyOpen
      BY <1>1, <1>14, <2>2, <2>4 DEF CompleteSuperseded, Succeeded
    <3> QED
      BY <1>4, <1>6, <2>1, <3>1 DEF AnyOpen
  <2> QED
    BY <2>3, <2>4
<1>15. CASE CompleteCanceled
  <2>1. Complete
    BY <1>15 DEF CompleteCanceled
  <2>2. analysisGeneration \in CanceledGenerations
    BY <1>1, <1>15, <2>1, OneResult DEF CompleteCanceled, Superseded
  <2>3. ctxDone'
    BY <1>1, <1>2, <2>2 DEF NewestNotCanceled
  <2> QED
    BY <2>3 DEF Settled
<1>16. CASE CompleteCurrent
  <2>1. Complete /\ UNCHANGED documents
    BY <1>16 DEF CompleteCurrent, Complete
  <2>2. /\ Completed = analysisResults[1] /\ Completed \in Completion
        /\ analysisResults # <<>> /\ analysisResults \in Seq(Completion)
    BY <1>1, <2>1, OneResult DEF Complete, TypeOK, AnalysisTypes
  <2>3. Completed.documents = documents
    <3>1. 1 \in DOMAIN analysisResults
      BY <2>2
    <3>2. ResultNewest(Completed)
      BY <2>2, <3>1 DEF CurrentInv, NewestAnalysis
    <3> QED
      BY <1>16, <3>2 DEF CompleteCurrent, Superseded, ResultNewest
  <2>4. /\ analyses' = PublishedAnalyses(Completed)
        /\ published' = PublishedDiagnostics(Completed)
    BY <1>16, <2>3 DEF CompleteCurrent, SnapshotCurrent
  <2> SUFFICES ASSUME NEW u \in Uris
               PROVE  /\ published'[u].document = documents'[u]
                      /\ analyses'[u] = Nil <=> published'[u].kind # "diagnostics"
    BY DEF Settled
  <2>5. CASE documents[u] = Nil
    BY <1>3, <2>1, <2>5 DEF ClosedClear
  <2>6. CASE documents[u] # Nil
    <3>1. documents[u].text # Nil
      BY <1>1, <2>6 DEF Documents, Document
    <3>2. /\ analyses'[u] = IF u \in Completed.errors THEN Nil ELSE documents[u].text
          /\ published'[u] = [kind |-> IF u \in Completed.errors THEN "error"
                                                                 ELSE "diagnostics",
                              document |-> documents[u]]
      BY <2>3, <2>4, <2>6 DEF PublishedAnalyses, PublishedDiagnostics
    <3> QED
      BY <2>1, <3>1, <3>2
  <2> QED
    BY <2>5, <2>6
<1>17. CASE RunAnalysis
  BY <1>1, <1>5, <1>17, WorkerEffect
<1> QED
  BY <1>8, <1>9, <1>10, <1>11, <1>12, <1>13, <1>14, <1>15, <1>16, <1>17, StepKinds

LEMMA WorkStep ==
    ASSUME CurrentInv, WorkInv, [Next]_vars
    PROVE  WorkInv'
<1>1. Alone' /\ Inactive'
  BY AloneStep
<1>2. CASE status = "running" /\ status' = "running"
  BY <1>1, <1>2, ClosedClearStep, GenerationStep, SucceededStep, SettledStep, ShutdownStep
     DEF WorkInv
<1>3. CASE status' # "running"
  BY <1>1, <1>3 DEF WorkInv
<1>4. CASE status # "running"
  BY <1>1, <1>3, <1>4, RunningStep DEF vars, serveVars
<1> QED
  BY <1>2, <1>3, <1>4

\* Supersession never runs two analyses at once: a worker that was canceled is waited
\* for before the next one starts, in every order of edits, file changes, results and
\* shutdown (scheduleAnalysis, completeAnalysis).
THEOREM OneAnalysisAtATime == Spec => []SingleAnalysis
<1>1. WorkInv /\ TypeOK => SingleAnalysis
  <2> SUFFICES ASSUME WorkInv, TypeOK PROVE Cardinality(running) + Len(analysisResults) <= 1
    BY DEF WorkInv, Inactive, SingleAnalysis
  <2>1. analysisResults \in Seq(Completion)
    BY DEF TypeOK, AnalysisTypes
  <2>2. CASE running = {}
    <3>1. Cardinality(running) = 0 /\ Len(analysisResults) <= 1 /\ Len(analysisResults) \in Nat
      BY <2>1, <2>2, FS_EmptySet DEF WorkInv, Alone
    <3> QED
      BY <3>1
  <2>3. CASE running # {}
    <3>1. PICK w \in running : running = {w}
      BY <2>3 DEF WorkInv, Alone
    <3>2. Cardinality(running) = 1
      BY <3>1, FS_Singleton
    <3>3. Len(analysisResults) = 0
      BY <2>3 DEF WorkInv, Alone
    <3> QED
      BY <3>2, <3>3
  <2> QED
    BY <2>2, <2>3
<1>2. CurrentInv => TypeOK
  BY DEF CurrentInv
<1> QED
  BY CurrentInit, CurrentStep, WorkInit, WorkStep, <1>1, <1>2, PTL DEF Spec

\* Whenever no analysis is active the client sees the open documents as they are:
\* superseded work has a successor until the newest snapshot is published
\* (scheduleAnalysis, completeAnalysis, publishAnalysis, didClose).
THEOREM SettledDiagnostics == Spec => []Settled
<1>1. WorkInv => Settled
  BY DEF WorkInv, Settled
<1> QED
  BY CurrentInit, CurrentStep, WorkInit, WorkStep, <1>1, PTL DEF Spec

-----------------------------------------------------------------------------
(***************************************************************************)
(* Where every request is.                                                 *)
(***************************************************************************)

\* The id of a message that is a request.
IdOf(message) == IF message.kind \in RequestKinds THEN {message.id} ELSE {}

\* No request occurs twice.
NoRepeats(requests) ==
    \A i, j \in DOMAIN requests : i # j => IdOf(requests[i]) \cap IdOf(requests[j]) = {}

Unread == IdsIn(readResults)
Queued == IdsIn(pendingAnalysisRequests)
Cycled == IdsIn(cycle)
Held == IF call # Nil /\ call.phase # "answered" THEN {call.request.id} ELSE {}
Done == {id \in Ids : answers[id] # <<>>}

\* Every request the client sent is in one place, once.
Placed ==
    /\ NoRepeats(readResults) /\ NoRepeats(pendingAnalysisRequests) /\ NoRepeats(cycle)
    /\ Unread \cap (Queued \cup Cycled \cup Held \cup Done) = {}
    /\ Queued \cap (Cycled \cup Held \cup Done) = {}
    /\ Cycled \cap (Held \cup Done) = {}
    /\ Held \cap Done = {}
    /\ sent = Unread \cup Queued \cup Cycled \cup Held \cup Done

\* The documents that requests were asked about are open, unchanged, until they are
\* answered.
AskedCurrent ==
    /\ \A i \in DOMAIN pendingAnalysisRequests :
          asked[pendingAnalysisRequests[i].id] = documents[pendingAnalysisRequests[i].uri]
    /\ \A i \in DOMAIN cycle : asked[cycle[i].id] = documents[cycle[i].uri]
    /\ Held # {} => asked[call.request.id] = documents[call.request.uri]

\* An accepted cancellation is remembered until the request begins, and then is the
\* end of its context; it is not remembered beside it.
CancelMarked ==
    /\ \A id \in canceledIds \ Done :
          id \in pendingCancellations \/ (Held = {id} /\ call.canceled)
    /\ call # Nil =>
          /\ call.request.id \notin pendingCancellations
          /\ call.phase = "answered" => call.request.id \in Done

\* Only the last message ends the input, and nothing is read after it.
LastMessage ==
    /\ \A i \in DOMAIN readResults :
          readResults[i].kind \in {"exit", "eof", "readError"} =>
              i = Len(readResults) /\ ~reading
    /\ ~inputOpen => readResults = <<>> /\ ~reading

\* Code actions wait only for an active analysis.
QueueServed == analysisCancel = 0 => pendingAnalysisRequests = <<>>

\* A request that will get a result without another look at its context is not
\* counted as canceled.
LastLook ==
    /\ call # Nil
    /\ call.phase = "returned" \/ (call.phase = "checked" /\ ~Answerable)
    => call.request.id \notin canceledIds

AnsweredOnce == \A id \in Ids : Len(answers[id]) <= 1

RequestInv ==
    /\ AnsweredOnce /\ ActionsMatchRequest /\ CancellationHonored
    /\ status = "running" =>
         Placed /\ AskedCurrent /\ CancelMarked /\ LastMessage /\ QueueServed

LEMMA InIds ==
    ASSUME NEW requests
    PROVE  \A id : id \in IdsIn(requests) <=> \E i \in DOMAIN requests : id \in IdOf(requests[i])
BY DEF IdsIn, IdOf

LEMMA NoIds == IdsIn(<<>>) = {} /\ NoRepeats(<<>>)
BY DEF IdsIn, NoRepeats

LEMMA AppendIds ==
    ASSUME NEW S, NEW s \in Seq(S), NEW m
    PROVE  /\ IdsIn(Append(s, m)) = IdsIn(s) \cup IdOf(m)
           /\ NoRepeats(s) /\ IdOf(m) \cap IdsIn(s) = {} => NoRepeats(Append(s, m))
<1> DEFINE t == Append(s, m)
<1>1. /\ DOMAIN t = DOMAIN s \cup {Len(s) + 1}
      /\ \A i \in DOMAIN s : t[i] = s[i]
      /\ t[Len(s) + 1] = m
  OBVIOUS
<1> HIDE DEF t
<1>2. \A id : id \in IdsIn(t) <=> id \in IdsIn(s) \/ id \in IdOf(m)
  BY <1>1, InIds
<1>3. ASSUME NoRepeats(s), IdOf(m) \cap IdsIn(s) = {}
      PROVE  NoRepeats(t)
  <2>1. \A i \in DOMAIN s : IdOf(m) \cap IdOf(s[i]) = {}
    BY <1>3, InIds
  <2> QED
    BY <1>1, <1>3, <2>1 DEF NoRepeats
<1>4. IdsIn(t) = IdsIn(s) \cup IdOf(m)
  BY <1>2
<1> QED
  BY <1>3, <1>4 DEF t

LEMMA TailIds ==
    ASSUME NEW S, NEW s \in Seq(S), s # <<>>, NoRepeats(s)
    PROVE  /\ IdsIn(Tail(s)) = IdsIn(s) \ IdOf(Head(s))
           /\ IdOf(Head(s)) \subseteq IdsIn(s)
           /\ NoRepeats(Tail(s))
<1> DEFINE t == Tail(s)
<1>1. /\ Len(s) \in Nat /\ Len(s) # 0 /\ DOMAIN s = 1..Len(s)
      /\ DOMAIN t = 1..(Len(s) - 1)
      /\ \A i \in DOMAIN t : t[i] = s[i + 1]
      /\ Head(s) = s[1]
  OBVIOUS
<1> HIDE DEF t
<1>2. /\ 1 \in DOMAIN s
      /\ \A i \in DOMAIN t : i + 1 \in DOMAIN s /\ i + 1 # 1
      /\ \A j \in DOMAIN s : j # 1 => j - 1 \in DOMAIN t /\ t[j - 1] = s[j]
      /\ \A i, j \in DOMAIN t : i # j => i + 1 # j + 1
  BY <1>1
<1>3. NoRepeats(t)
  BY <1>1, <1>2 DEF NoRepeats
<1>4. IdOf(Head(s)) \subseteq IdsIn(s)
  BY <1>1, <1>2, InIds
<1>5. ASSUME NEW id \in IdsIn(t)
      PROVE  id \in IdsIn(s) \ IdOf(Head(s))
  <2>1. PICK i \in DOMAIN t : id \in IdOf(t[i])
    BY InIds
  <2>2. id \in IdOf(s[i + 1]) /\ i + 1 \in DOMAIN s /\ i + 1 # 1
    BY <1>1, <1>2, <2>1
  <2>3. id \in IdsIn(s)
    BY <2>2, InIds
  <2>4. IdOf(s[i + 1]) \cap IdOf(s[1]) = {}
    BY <1>2, <2>2 DEF NoRepeats
  <2> QED
    BY <1>1, <2>2, <2>3, <2>4
<1>6. ASSUME NEW id \in IdsIn(s), id \notin IdOf(Head(s))
      PROVE  id \in IdsIn(t)
  <2>1. PICK j \in DOMAIN s : id \in IdOf(s[j])
    BY InIds
  <2>2. j # 1
    BY <1>1, <1>6, <2>1
  <2>3. id \in IdOf(t[j - 1]) /\ j - 1 \in DOMAIN t
    BY <1>2, <2>1, <2>2
  <2> QED
    BY <2>3, InIds
<1>7. IdsIn(t) = IdsIn(s) \ IdOf(Head(s))
  BY <1>5, <1>6
<1> QED
  BY <1>3, <1>4, <1>7 DEF t

\* A query is a request.
LEMMA QueryIds ==
    ASSUME NEW query \in Query
    PROVE  IdOf(query) = {query.id} /\ query.id \in Ids
BY DEF Query, IdOf, RequestKinds

LEMMA QueuedIds ==
    ASSUME TypeOK
    PROVE  Queued = PendingIds
<1>1. ASSUME NEW i \in DOMAIN pendingAnalysisRequests
      PROVE  pendingAnalysisRequests[i].kind \in RequestKinds
  <2>1. pendingAnalysisRequests[i] \in Query
    BY DEF TypeOK, QueueTypes
  <2> QED
    BY <2>1 DEF Query, RequestKinds
<1> QED
  BY <1>1 DEF Queued, IdsIn, PendingIds

\* An answer to a request that has none.
LEMMA AnswerOne ==
    ASSUME TypeOK, AnsweredOnce, NEW id \in Ids, id \notin Done, NEW outcome, NEW document,
           answers' = Answered(id, outcome, document)
    PROVE  /\ AnsweredOnce'
           /\ Done' = Done \cup {id}
           /\ answers'[id] = <<[outcome |-> outcome, document |-> document]>>
           /\ \A other \in Ids : other # id => answers'[other] = answers[other]
<1>1. DOMAIN answers = Ids /\ answers[id] = <<>>
  BY DEF TypeOK, QueueTypes, Done
<1>2. /\ answers'[id] = <<[outcome |-> outcome, document |-> document]>>
      /\ \A other \in Ids : other # id => answers'[other] = answers[other]
  BY <1>1 DEF Answered
<1>3. Len(answers'[id]) = 1 /\ answers'[id] # <<>>
  BY <1>2
<1>4. ASSUME NEW other \in Ids
      PROVE  Len(answers'[other]) <= 1
  <2>1. CASE other = id
    <3>1. Len(answers'[other]) = 1
      BY <1>3, <2>1
    <3> QED
      BY <3>1
  <2>2. CASE other # id
    BY <1>2, <2>2 DEF AnsweredOnce
  <2> QED
    BY <2>1, <2>2
<1>5. Done' = Done \cup {id}
  BY <1>2, <1>3 DEF Done
<1> QED
  BY <1>2, <1>4, <1>5 DEF AnsweredOnce

\* Rejection answers every queued code action once, without success.
LEMMA AnswerQueued ==
    ASSUME TypeOK, AnsweredOnce, Queued \cap Done = {}, NEW rejected,
           rejected = RejectedAnswers
    PROVE  /\ \A id \in Ids : Len(rejected[id]) <= 1
           /\ {id \in Ids : rejected[id] # <<>>} = Done \cup Queued
           /\ \A id \in Ids : \/ rejected[id] = answers[id]
                              \/ /\ answers[id] = <<>>
                                 /\ \E a : /\ rejected[id] = <<a>>
                                           /\ a.outcome \in {"canceled", "modified"}
<1>1. Queued = PendingIds /\ Queued \subseteq Ids
  BY QueuedIds, PendingIdsTypes DEF TypeOK
<1>2. ASSUME NEW id \in Ids, id \in Queued
      PROVE  \E a : /\ rejected[id] = <<a>> /\ a.outcome \in {"canceled", "modified"}
                    /\ Len(rejected[id]) = 1 /\ rejected[id] # <<>>
  <2> DEFINE outcome == IF id \in pendingCancellations THEN "canceled" ELSE "modified"
             a == [outcome |-> outcome, document |-> Nil]
  <2>1. answers[id] = <<>>
    BY <1>2 DEF Done
  <2>2. rejected[id] = Append(answers[id], a)
    BY <1>1, <1>2 DEF RejectedAnswers
  <2>3. a.outcome \in {"canceled", "modified"}
    OBVIOUS
  <2> HIDE DEF a
  <2>4. rejected[id] = <<a>>
    BY <2>1, <2>2
  <2>5. Len(rejected[id]) = 1 /\ rejected[id] # <<>>
    BY <2>4
  <2> QED
    BY <2>3, <2>4, <2>5
<1>3. ASSUME NEW id \in Ids, id \notin Queued
      PROVE  rejected[id] = answers[id]
  BY <1>1, <1>3 DEF RejectedAnswers
<1>4. ASSUME NEW id \in Ids
      PROVE  Len(rejected[id]) <= 1
  <2>1. CASE id \in Queued
    <3>1. Len(rejected[id]) = 1
      BY <1>2, <2>1
    <3> QED
      BY <3>1
  <2>2. CASE id \notin Queued
    BY <1>3, <2>2 DEF AnsweredOnce
  <2> QED
    BY <2>1, <2>2
<1>5. ASSUME NEW id \in Ids
      PROVE  rejected[id] # <<>> <=> id \in Done \cup Queued
  BY <1>2, <1>3 DEF Done
<1>6. Done \subseteq Ids
  BY DEF Done
<1>7. ASSUME NEW id \in Ids
      PROVE  \/ rejected[id] = answers[id]
             \/ /\ answers[id] = <<>>
                /\ \E a : rejected[id] = <<a>> /\ a.outcome \in {"canceled", "modified"}
  BY <1>2, <1>3 DEF Done
<1> QED
  BY <1>1, <1>4, <1>5, <1>6, <1>7

-----------------------------------------------------------------------------
(***************************************************************************)
(* The steps of the input.                                                 *)
(***************************************************************************)

\* New answers that are no success keep what is said of answers.
LEMMA AnswersSafe ==
    ASSUME ActionsMatchRequest, CancellationHonored, canceledIds' \subseteq Ids,
           \A id \in Ids :
              \/ /\ answers'[id] = answers[id]
                 /\ \/ answers[id] = <<>>
                    \/ asked'[id] = asked[id] /\ (id \in canceledIds' => id \in canceledIds)
              \/ \E a : answers'[id] = <<a>> /\ a.outcome \notin {"none", "actions", "edits"}
    PROVE  ActionsMatchRequest' /\ CancellationHonored'
<1>1. ASSUME NEW id \in Ids, NEW i \in DOMAIN answers'[id]
      PROVE  /\ answers'[id][i].outcome \in {"actions", "edits"} =>
                  answers'[id][i].document = asked'[id]
             /\ id \in canceledIds' =>
                  answers'[id][i].outcome \notin {"none", "actions", "edits"}
  <2>1. CASE /\ answers'[id] = answers[id]
             /\ asked'[id] = asked[id] /\ (id \in canceledIds' => id \in canceledIds)
    BY <1>1, <2>1 DEF ActionsMatchRequest, CancellationHonored
  <2>2. CASE answers'[id] = answers[id] /\ answers[id] = <<>>
    <3>1. DOMAIN answers'[id] = {}
      BY <2>2
    <3> QED
      BY <1>1, <3>1
  <2>3. CASE \E a : answers'[id] = <<a>> /\ a.outcome \notin {"none", "actions", "edits"}
    <3>1. PICK a : answers'[id] = <<a>> /\ a.outcome \notin {"none", "actions", "edits"}
      BY <2>3
    <3>2. i = 1 /\ answers'[id][1] = a
      BY <1>1, <3>1
    <3> QED
      BY <3>1, <3>2
  <2> QED
    BY <2>1, <2>2, <2>3
<1> QED
  BY <1>1 DEF ActionsMatchRequest, CancellationHonored

\* The message that is received leaves the channel, and nothing else does.
LEMMA Received ==
    ASSUME TypeOK, Placed, LastMessage, NEW kinds, Receive(kinds)
    PROVE  /\ Unread' = Unread \ IdOf(Message1) /\ IdOf(Message1) \subseteq Unread
           /\ NoRepeats(readResults)' /\ LastMessage'
           /\ UNCHANGED sent
           /\ call = Nil /\ cycle = <<>> /\ Held = {} /\ Cycled = {}
           /\ Message1 \in Message /\ Message1.kind \in kinds
<1>1. /\ readResults \in Seq(Message) /\ readResults # <<>>
      /\ readResults' = Tail(readResults)
      /\ UNCHANGED <<reading, sent, inputOpen>>
      /\ call = Nil /\ cycle = <<>> /\ inputOpen
  BY DEF TypeOK, InputTypes, Receive, Selecting
<1>2. Held = {} /\ Cycled = {}
  BY <1>1, NoIds DEF Held, Cycled
<1>3. /\ Unread' = Unread \ IdOf(Message1) /\ IdOf(Message1) \subseteq Unread
      /\ NoRepeats(readResults)'
  BY <1>1, TailIds DEF Placed, Unread, Message1
<1>4. Message1 \in Message /\ Message1.kind \in kinds
  BY ReceiveTypes
<1>5. LastMessage'
  <2> SUFFICES ASSUME NEW i \in DOMAIN readResults',
                      readResults'[i].kind \in {"exit", "eof", "readError"}
               PROVE  i = Len(readResults') /\ ~reading
    BY <1>1 DEF LastMessage
  <2>1. /\ i + 1 \in DOMAIN readResults /\ readResults'[i] = readResults[i + 1]
        /\ Len(readResults') = Len(readResults) - 1
        /\ i \in Int /\ Len(readResults) \in Int
    BY <1>1
  <2>2. i + 1 = Len(readResults) /\ ~reading
    BY <2>1 DEF LastMessage
  <2> QED
    BY <2>1, <2>2
<1> QED
  BY <1>1, <1>2, <1>3, <1>4, <1>5

\* What is known of cancellations stays known of requests without an answer.
LEMMA MarkedKept ==
    ASSUME CancelMarked, Done \subseteq Done', UNCHANGED <<canceledIds, call>>,
           pendingCancellations' \subseteq pendingCancellations,
           pendingCancellations \subseteq pendingCancellations' \cup Done'
    PROVE  CancelMarked'
<1>1. Held' = Held
  BY DEF Held
<1> QED
  BY <1>1 DEF CancelMarked

\* A step that moves no request.
LEMMA Unmoved ==
    ASSUME TypeOK', RequestInv, status = "running",
           Unread' = Unread, NoRepeats(readResults)', LastMessage', UNCHANGED sent,
           UNCHANGED <<answers, asked, canceledIds, pendingCancellations,
                       pendingAnalysisRequests, cycle, call, documents>>,
           UNCHANGED analysisCancel \/ analysisCancel' # 0
    PROVE  RequestInv'
<1>1. /\ Placed /\ AskedCurrent /\ CancelMarked /\ QueueServed
      /\ AnsweredOnce /\ ActionsMatchRequest /\ CancellationHonored
  BY DEF RequestInv
<1>2. Queued' = Queued /\ Cycled' = Cycled /\ Held' = Held /\ Done' = Done
  BY DEF Queued, Cycled, Held, Done, IdsIn
<1>3. Placed'
  BY <1>1, <1>2 DEF Placed, NoRepeats
<1>4. AskedCurrent'
  BY <1>1, <1>2 DEF AskedCurrent
<1>5. CancelMarked'
  BY <1>1, <1>2, MarkedKept
<1>6. AnsweredOnce' /\ ActionsMatchRequest' /\ CancellationHonored'
  BY <1>1 DEF AnsweredOnce, ActionsMatchRequest, CancellationHonored
<1>7. QueueServed'
  BY <1>1 DEF QueueServed
<1> QED
  BY <1>3, <1>4, <1>5, <1>6, <1>7 DEF RequestInv

\* A step at which Serve returns answers nothing.
LEMMA EndedRequests ==
    ASSUME RequestInv, status' # "running", UNCHANGED <<answers, asked, canceledIds>>
    PROVE  RequestInv'
BY DEF RequestInv, AnsweredOnce, ActionsMatchRequest, CancellationHonored

\* A received request is answered at once.
LEMMA AnsweredAtOnce ==
    ASSUME TypeOK, TypeOK', RequestInv, status = "running", NEW kinds, Receive(kinds),
           Message1.kind \in RequestKinds,
           NEW outcome \in Outcomes \ {"none", "actions", "edits"},
           answers' = Answered(Message1.id, outcome, Nil),
           \A id \in Ids : id # Message1.id => asked'[id] = asked[id],
           UNCHANGED <<canceledIds, pendingCancellations, pendingAnalysisRequests,
                       cycle, call, documents, analysisCancel>>
    PROVE  RequestInv'
<1>1. /\ Placed /\ AskedCurrent /\ CancelMarked /\ QueueServed /\ LastMessage
      /\ AnsweredOnce /\ ActionsMatchRequest /\ CancellationHonored
  BY DEF RequestInv
<1>2. /\ Unread' = Unread \ IdOf(Message1) /\ IdOf(Message1) \subseteq Unread
      /\ NoRepeats(readResults)' /\ LastMessage' /\ UNCHANGED sent
      /\ Held = {} /\ Cycled = {} /\ call = Nil /\ cycle = <<>>
      /\ Message1 \in Message
  BY <1>1, Received
<1> DEFINE id == Message1.id
<1>3. IdOf(Message1) = {id} /\ id \in Ids
  BY <1>2, MessageFields DEF IdOf
<1>4. id \in Unread /\ id \notin Done /\ id \notin Queued
  BY <1>1, <1>2, <1>3 DEF Placed
<1>5. /\ AnsweredOnce' /\ Done' = Done \cup {id}
      /\ answers'[id] = <<[outcome |-> outcome, document |-> Nil]>>
      /\ \A other \in Ids : other # id => answers'[other] = answers[other]
  BY <1>1, <1>3, <1>4, AnswerOne
<1>6. Queued' = Queued /\ Cycled' = Cycled /\ Held' = Held
  BY DEF Queued, Cycled, Held, IdsIn
<1>7. Placed'
  BY <1>1, <1>2, <1>3, <1>4, <1>5, <1>6 DEF Placed, NoRepeats
<1>8. AskedCurrent'
  <2>1. ASSUME NEW i \in DOMAIN pendingAnalysisRequests
        PROVE  asked'[pendingAnalysisRequests[i].id] = asked[pendingAnalysisRequests[i].id]
    <3>1. pendingAnalysisRequests[i] \in Query
      BY DEF TypeOK, QueueTypes
    <3>2. /\ pendingAnalysisRequests[i].id \in Ids
          /\ pendingAnalysisRequests[i].id \in IdOf(pendingAnalysisRequests[i])
      BY <3>1, QueryIds
    <3>3. pendingAnalysisRequests[i].id \in Queued
      BY <3>2, InIds DEF Queued
    <3> QED
      BY <1>4, <3>2, <3>3
  <2>2. DOMAIN cycle' = {} /\ Held' = {}
    BY <1>2, <1>6
  <2> QED
    BY <1>1, <2>1, <2>2 DEF AskedCurrent
<1>9. CancelMarked'
  BY <1>1, <1>5, MarkedKept
<1>10. ActionsMatchRequest' /\ CancellationHonored'
  <2>1. /\ [outcome |-> outcome, document |-> Nil].outcome \notin {"none", "actions", "edits"}
        /\ canceledIds' \subseteq Ids
    BY DEF TypeOK, RequestTypes
  <2>2. ASSUME NEW other \in Ids
        PROVE  \/ /\ answers'[other] = answers[other]
                  /\ asked'[other] = asked[other]
                  /\ other \in canceledIds' => other \in canceledIds
               \/ \E a : /\ answers'[other] = <<a>>
                         /\ a.outcome \notin {"none", "actions", "edits"}
    BY <1>5, <2>1
  <2> QED
    BY <1>1, <2>1, <2>2, AnswersSafe
<1>11. QueueServed'
  BY <1>1 DEF QueueServed
<1> QED
  BY <1>2, <1>5, <1>7, <1>8, <1>9, <1>10, <1>11 DEF RequestInv

\* Rejection answers the whole queue, and forgets only the cancellations it answers.
LEMMA RejectedStep ==
    ASSUME TypeOK, TypeOK', RequestInv, status = "running",
           Unread' = Unread, NoRepeats(readResults)', LastMessage', UNCHANGED sent,
           call = Nil, cycle = <<>>, cycle' = <<>>,
           RejectPending, UNCHANGED <<asked, canceledIds, call>>
    PROVE  RequestInv'
<1>1. /\ Placed /\ CancelMarked
      /\ AnsweredOnce /\ ActionsMatchRequest /\ CancellationHonored
  BY DEF RequestInv
<1>2. /\ Held = {} /\ Held' = {} /\ Cycled = {} /\ Cycled' = {} /\ Queued' = {}
      /\ NoRepeats(pendingAnalysisRequests)' /\ NoRepeats(cycle)'
  BY NoIds DEF Held, Cycled, Queued, RejectPending
<1>3. answers' = RejectedAnswers /\ pendingAnalysisRequests' = <<>>
      /\ pendingCancellations' = pendingCancellations \ Queued
  BY QueuedIds DEF RejectPending
<1>4. Queued \cap Done = {}
  BY <1>1 DEF Placed
<1>5. /\ \A id \in Ids : Len(answers'[id]) <= 1
      /\ {id \in Ids : answers'[id] # <<>>} = Done \cup Queued
      /\ \A id \in Ids : \/ answers'[id] = answers[id]
                         \/ /\ answers[id] = <<>>
                            /\ \E a : /\ answers'[id] = <<a>>
                                      /\ a.outcome \in {"canceled", "modified"}
  BY <1>1, <1>3, <1>4, AnswerQueued
<1>6. AnsweredOnce' /\ Done' = Done \cup Queued
  BY <1>5 DEF AnsweredOnce, Done
<1>7. Placed'
  BY <1>1, <1>2, <1>6 DEF Placed
<1>8. AskedCurrent'
  BY <1>2, <1>3 DEF AskedCurrent
<1>9. CancelMarked'
  BY <1>1, <1>3, <1>6, MarkedKept
<1>10. ActionsMatchRequest' /\ CancellationHonored'
  <2>1. canceledIds' \subseteq Ids
    BY DEF TypeOK, RequestTypes
  <2>2. \A id \in Ids :
            \/ /\ answers'[id] = answers[id] /\ asked'[id] = asked[id]
               /\ id \in canceledIds' => id \in canceledIds
            \/ \E a : answers'[id] = <<a>> /\ a.outcome \notin {"none", "actions", "edits"}
    BY <1>5
  <2> QED
    BY <1>1, <2>1, <2>2, AnswersSafe
<1>11. QueueServed'
  BY <1>3 DEF QueueServed
<1> QED
  BY <1>6, <1>7, <1>8, <1>9, <1>10, <1>11 DEF RequestInv

\* The code actions that waited are now served, in their order.
LEMMA FinishedStep ==
    ASSUME TypeOK', RequestInv, status = "running", Complete, FinishCycle
    PROVE  RequestInv'
<1>1. /\ Placed /\ CancelMarked /\ AskedCurrent /\ LastMessage
      /\ AnsweredOnce /\ ActionsMatchRequest /\ CancellationHonored
  BY DEF RequestInv
<1>2. /\ UNCHANGED <<reading, readResults, sent, inputOpen, documents, asked, canceledIds, call,
                     answers, pendingCancellations>>
      /\ call = Nil /\ cycle = <<>>
      /\ cycle' = pendingAnalysisRequests /\ pendingAnalysisRequests' = <<>>
  BY DEF Complete, Selecting, FinishCycle, inputVars
<1>3. /\ Cycled = {} /\ Cycled' = Queued /\ Queued' = {} /\ Held = {} /\ Held' = {}
      /\ Unread' = Unread /\ Done' = Done
      /\ NoRepeats(pendingAnalysisRequests)'
      /\ NoRepeats(cycle)' = NoRepeats(pendingAnalysisRequests)
      /\ NoRepeats(readResults)' = NoRepeats(readResults)
  BY <1>2, NoIds DEF Held, Cycled, Queued, Unread, Done, IdsIn, NoRepeats
<1>4. Placed'
  BY <1>1, <1>2, <1>3 DEF Placed
<1>5. AskedCurrent'
  BY <1>1, <1>2, <1>3 DEF AskedCurrent
<1>6. CancelMarked'
  BY <1>1, <1>2, <1>3, MarkedKept
<1>7. LastMessage' /\ QueueServed' /\ AnsweredOnce' /\ ActionsMatchRequest'
      /\ CancellationHonored'
  BY <1>1, <1>2 DEF LastMessage, QueueServed, AnsweredOnce, ActionsMatchRequest,
     CancellationHonored
<1> QED
  BY <1>4, <1>5, <1>6, <1>7 DEF RequestInv

\* Shutdown rejects the queue and is answered itself.
LEMMA ShutdownAnswers ==
    ASSUME TypeOK, TypeOK', RequestInv, HandleShutdown
    PROVE  RequestInv'
<1>1. /\ Receive({"shutdown"}) /\ status = "running"
      /\ pendingAnalysisRequests' = <<>>
      /\ pendingCancellations' = pendingCancellations \ PendingIds
      /\ UNCHANGED <<asked, canceledIds, call, cycle>>
  BY ReceiveTypes DEF HandleShutdown, requestVars
<1>2. /\ Placed /\ CancelMarked /\ LastMessage
      /\ AnsweredOnce /\ ActionsMatchRequest /\ CancellationHonored
  BY <1>1 DEF RequestInv
<1>3. /\ Unread' = Unread \ IdOf(Message1) /\ IdOf(Message1) \subseteq Unread
      /\ NoRepeats(readResults)' /\ LastMessage' /\ UNCHANGED sent
      /\ Held = {} /\ Cycled = {} /\ call = Nil /\ cycle = <<>>
      /\ Message1 \in Message /\ Message1.kind = "shutdown"
  BY <1>1, <1>2, Received
<1> DEFINE id == Message1.id
           a == [outcome |-> "shutdown", document |-> Nil]
           rejected == RejectedAnswers
<1>4. IdOf(Message1) = {id} /\ id \in Ids /\ id \in Unread
  BY <1>3, MessageFields DEF IdOf, RequestKinds
<1>5. id \notin Done /\ id \notin Queued /\ Queued \cap Done = {}
  BY <1>2, <1>3, <1>4 DEF Placed
<1>6. /\ answers' = [rejected EXCEPT ![id] = Append(@, a)]
      /\ rejected \in [Ids -> Seq(Answer)]
      /\ a.outcome = "shutdown"
  BY RejectedTypes DEF HandleShutdown, TypeOK
<1>7. /\ \A other \in Ids : Len(rejected[other]) <= 1
      /\ {other \in Ids : rejected[other] # <<>>} = Done \cup Queued
      /\ \A other \in Ids : \/ rejected[other] = answers[other]
                            \/ /\ answers[other] = <<>>
                               /\ \E b : /\ rejected[other] = <<b>>
                                         /\ b.outcome \in {"canceled", "modified"}
  BY <1>2, <1>5, AnswerQueued
<1> HIDE DEF rejected, a
<1>8. answers'[id] = <<a>>
  <2>1. rejected[id] = <<>>
    BY <1>4, <1>5, <1>7
  <2> QED
    BY <1>4, <1>6, <2>1
<1>9. \A other \in Ids : other # id => answers'[other] = rejected[other]
  BY <1>6
<1>10. Len(answers'[id]) = 1 /\ answers'[id] # <<>>
  BY <1>8
<1>11. AnsweredOnce'
  <2> SUFFICES ASSUME NEW other \in Ids
               PROVE  Len(answers'[other]) <= 1
    BY DEF AnsweredOnce
  <2>1. CASE other = id
    <3>1. Len(answers'[other]) = 1
      BY <1>10, <2>1
    <3> QED
      BY <3>1
  <2>2. CASE other # id
    BY <1>7, <1>9, <2>2
  <2> QED
    BY <2>1, <2>2
<1>12. Done' = Done \cup Queued \cup {id}
  <2>1. ASSUME NEW other \in Ids
        PROVE  answers'[other] # <<>> <=> other = id \/ rejected[other] # <<>>
    BY <1>9, <1>10
  <2> QED
    BY <1>4, <1>7, <2>1 DEF Done
<1>13. /\ Held' = {} /\ Cycled' = {} /\ Queued' = {}
       /\ NoRepeats(pendingAnalysisRequests)' /\ NoRepeats(cycle)'
  BY <1>1, <1>3, NoIds DEF Held, Cycled, Queued
<1>14. Placed'
  BY <1>2, <1>3, <1>4, <1>12, <1>13 DEF Placed
<1>15. AskedCurrent' /\ QueueServed'
  BY <1>1, <1>3, <1>13 DEF AskedCurrent, QueueServed
<1>16. CancelMarked'
  <2>1. Queued = PendingIds
    BY QueuedIds
  <2> QED
    BY <1>1, <1>2, <1>12, <2>1, MarkedKept
<1>17. ActionsMatchRequest' /\ CancellationHonored'
  <2>1. canceledIds' \subseteq Ids
    BY DEF TypeOK, RequestTypes
  <2>2. ASSUME NEW other \in Ids
        PROVE  \/ /\ answers'[other] = answers[other] /\ asked'[other] = asked[other]
                  /\ other \in canceledIds' => other \in canceledIds
               \/ \E b : /\ answers'[other] = <<b>>
                         /\ b.outcome \notin {"none", "actions", "edits"}
    <3>1. CASE other = id
      BY <1>6, <1>8, <3>1
    <3>2. CASE other # id
      BY <1>1, <1>7, <1>9, <3>2
    <3> QED
      BY <3>1, <3>2
  <2> QED
    BY <1>2, <2>1, <2>2, AnswersSafe
<1> QED
  BY <1>3, <1>11, <1>14, <1>15, <1>16, <1>17 DEF RequestInv

-----------------------------------------------------------------------------
(***************************************************************************)
(* The steps of a request in progress.                                     *)
(***************************************************************************)

\* Beginning a request turns a remembered cancellation into the end of its context.
LEMMA BeginMarked ==
    ASSUME CancelMarked, call = Nil, NEW request \in Query, request.id \notin Done,
           Begin(request), UNCHANGED <<canceledIds, answers>>
    PROVE  /\ CancelMarked'
           /\ Held' = {request.id}
           /\ call'.request = request
<1>1. /\ call'.request = request /\ call'.phase = "begun"
      /\ call'.canceled = (request.id \in pendingCancellations)
      /\ pendingCancellations' = pendingCancellations \ {request.id}
  BY DEF Begin
<1>2. call' # Nil
  <2>1. call' \in Call
    BY DEF Begin, Call
  <2> QED
    BY <2>1
<1>3. Held = {} /\ Held' = {request.id} /\ Done' = Done
  BY <1>1, <1>2 DEF Held, Done
<1>4. ASSUME NEW id \in canceledIds' \ Done'
      PROVE  id \in pendingCancellations' \/ (Held' = {id} /\ call'.canceled)
  BY <1>1, <1>3, <1>4 DEF CancelMarked
<1> QED
  BY <1>1, <1>3, <1>4 DEF CancelMarked

\* A received request joins the queue.
LEMMA QueuedStep ==
    ASSUME TypeOK, TypeOK', RequestInv, status = "running", NEW kinds, Receive(kinds),
           Message1.kind \in {"codeAction", "formatting"},
           analysisCancel # 0, UNCHANGED analysisCancel,
           pendingAnalysisRequests' = Append(pendingAnalysisRequests, Message1),
           asked' = [asked EXCEPT ![Message1.id] = documents[Message1.uri]],
           UNCHANGED <<answers, canceledIds, pendingCancellations, cycle, call, documents>>
    PROVE  RequestInv'
<1>1. /\ Placed /\ AskedCurrent /\ CancelMarked /\ LastMessage
      /\ AnsweredOnce /\ ActionsMatchRequest /\ CancellationHonored
  BY DEF RequestInv
<1>2. /\ Unread' = Unread \ IdOf(Message1) /\ IdOf(Message1) \subseteq Unread
      /\ NoRepeats(readResults)' /\ LastMessage' /\ UNCHANGED sent
      /\ Held = {} /\ Cycled = {} /\ call = Nil /\ cycle = <<>>
      /\ Message1 \in Query
  BY <1>1, Received, MessageFields
<1> DEFINE id == Message1.id
<1>3. IdOf(Message1) = {id} /\ id \in Ids /\ id \in Unread
  BY <1>2, QueryIds
<1>4. id \notin Done /\ id \notin Queued
  BY <1>1, <1>3 DEF Placed
<1>5. /\ pendingAnalysisRequests \in Seq(Query)
      /\ DOMAIN asked = Ids
  BY DEF TypeOK, QueueTypes, RequestTypes
<1>6. /\ Queued' = Queued \cup {id}
      /\ NoRepeats(pendingAnalysisRequests)'
  BY <1>1, <1>3, <1>4, <1>5, AppendIds DEF Placed, Queued
<1>7. Cycled' = Cycled /\ Held' = Held /\ Done' = Done /\ cycle' = <<>>
  BY <1>2 DEF Cycled, Held, Done, IdsIn
<1>8. Placed'
  BY <1>1, <1>2, <1>3, <1>6, <1>7 DEF Placed, NoRepeats
<1>9. AskedCurrent'
  <2>1. ASSUME NEW i \in DOMAIN pendingAnalysisRequests'
        PROVE  asked'[pendingAnalysisRequests'[i].id] = documents[pendingAnalysisRequests'[i].uri]
    <3>1. CASE i \in DOMAIN pendingAnalysisRequests
      <4>1. pendingAnalysisRequests'[i] = pendingAnalysisRequests[i]
        BY <1>5, <3>1
      <4>2. pendingAnalysisRequests[i] \in Query
        BY <1>5, <3>1
      <4>3. pendingAnalysisRequests[i].id \in Queued
        BY <3>1, <4>2, QueryIds, InIds DEF Queued
      <4>4. pendingAnalysisRequests[i].id # id
        BY <1>4, <4>3
      <4> QED
        BY <1>1, <1>5, <3>1, <4>1, <4>4 DEF AskedCurrent
    <3>2. CASE i \notin DOMAIN pendingAnalysisRequests
      <4>1. pendingAnalysisRequests'[i] = Message1
        BY <1>5, <2>1, <3>2
      <4> QED
        BY <1>3, <1>5, <4>1
    <3> QED
      BY <3>1, <3>2
  <2>2. DOMAIN cycle' = {} /\ Held' = {}
    BY <1>2, <1>7
  <2> QED
    BY <2>1, <2>2 DEF AskedCurrent
<1>10. CancelMarked'
  BY <1>1, <1>7, MarkedKept
<1>11. ActionsMatchRequest' /\ CancellationHonored'
  <2>1. ASSUME NEW other \in Ids
        PROVE  /\ answers'[other] = answers[other]
               /\ answers[other] = <<>> \/ asked'[other] = asked[other]
               /\ other \in canceledIds' => other \in canceledIds
    BY <1>3, <1>4, <1>5 DEF Done
  <2>2. canceledIds' \subseteq Ids
    BY DEF TypeOK, RequestTypes
  <2> QED
    BY <1>1, <2>1, <2>2, AnswersSafe
<1>12. AnsweredOnce' /\ QueueServed'
  BY <1>1 DEF AnsweredOnce, QueueServed
<1> QED
  BY <1>2, <1>8, <1>9, <1>10, <1>11, <1>12 DEF RequestInv

\* A received request begins.
LEMMA BegunStep ==
    ASSUME TypeOK, TypeOK', RequestInv, status = "running", NEW kinds, Receive(kinds),
           Message1.kind \in {"codeAction", "formatting"},
           Begin(Message1), UNCHANGED analysisCancel,
           asked' = [asked EXCEPT ![Message1.id] = documents[Message1.uri]],
           UNCHANGED <<answers, canceledIds, pendingAnalysisRequests, cycle, documents>>
    PROVE  RequestInv'
<1>1. /\ Placed /\ AskedCurrent /\ CancelMarked /\ LastMessage /\ QueueServed
      /\ AnsweredOnce /\ ActionsMatchRequest /\ CancellationHonored
  BY DEF RequestInv
<1>2. /\ Unread' = Unread \ IdOf(Message1) /\ IdOf(Message1) \subseteq Unread
      /\ NoRepeats(readResults)' /\ LastMessage' /\ UNCHANGED sent
      /\ Held = {} /\ Cycled = {} /\ call = Nil /\ cycle = <<>>
      /\ Message1 \in Query
  BY <1>1, Received, MessageFields
<1> DEFINE id == Message1.id
<1>3. IdOf(Message1) = {id} /\ id \in Ids /\ id \in Unread
  BY <1>2, QueryIds
<1>4. id \notin Done /\ id \notin Queued
  BY <1>1, <1>3 DEF Placed
<1>5. /\ CancelMarked' /\ Held' = {id} /\ call'.request = Message1
  BY <1>1, <1>2, <1>4, BeginMarked
<1>6. Queued' = Queued /\ Cycled' = Cycled /\ Done' = Done
  BY DEF Queued, Cycled, Done, IdsIn
<1>7. Placed'
  BY <1>1, <1>2, <1>3, <1>4, <1>5, <1>6 DEF Placed, NoRepeats
<1>8. /\ pendingAnalysisRequests \in Seq(Query)
      /\ DOMAIN asked = Ids
  BY DEF TypeOK, QueueTypes, RequestTypes
<1>9. AskedCurrent'
  <2>1. ASSUME NEW i \in DOMAIN pendingAnalysisRequests
        PROVE  asked'[pendingAnalysisRequests[i].id] = documents[pendingAnalysisRequests[i].uri]
    <3>1. pendingAnalysisRequests[i] \in Query
      BY <1>8
    <3>2. pendingAnalysisRequests[i].id \in Queued
      BY <3>1, QueryIds, InIds DEF Queued
    <3>3. pendingAnalysisRequests[i].id # id
      BY <1>4, <3>2
    <3> QED
      BY <1>1, <1>8, <3>3 DEF AskedCurrent
  <2>2. DOMAIN cycle' = {}
    BY <1>2
  <2>3. asked'[call'.request.id] = documents[call'.request.uri]
    BY <1>3, <1>5, <1>8
  <2> QED
    BY <2>1, <2>2, <2>3 DEF AskedCurrent
<1>10. ActionsMatchRequest' /\ CancellationHonored'
  <2>1. ASSUME NEW other \in Ids
        PROVE  /\ answers'[other] = answers[other]
               /\ answers[other] = <<>> \/ asked'[other] = asked[other]
               /\ other \in canceledIds' => other \in canceledIds
    BY <1>3, <1>4, <1>8 DEF Done
  <2>2. canceledIds' \subseteq Ids
    BY DEF TypeOK, RequestTypes
  <2> QED
    BY <1>1, <2>1, <2>2, AnswersSafe
<1>11. AnsweredOnce' /\ QueueServed'
  BY <1>1 DEF AnsweredOnce, QueueServed
<1> QED
  BY <1>2, <1>5, <1>7, <1>9, <1>10, <1>11 DEF RequestInv

\* The next of the waiting code actions begins.
LEMMA ServedNext ==
    ASSUME TypeOK, TypeOK', RequestInv, ServeNext
    PROVE  RequestInv'
<1>1. /\ call = Nil /\ cycle # <<>> /\ status = "running"
      /\ Begin(Head(cycle)) /\ cycle' = Tail(cycle)
      /\ UNCHANGED <<readResults, reading, sent, inputOpen, documents, analysisCancel,
                     pendingAnalysisRequests, answers, asked, canceledIds>>
  BY DEF ServeNext, serveVars, inputVars, documentVars, analysisVars
<1>2. /\ Placed /\ AskedCurrent /\ CancelMarked /\ LastMessage /\ QueueServed
      /\ AnsweredOnce /\ ActionsMatchRequest /\ CancellationHonored
  BY <1>1 DEF RequestInv
<1>3. cycle \in Seq(Query)
  BY DEF TypeOK, RequestTypes
<1> DEFINE request == Head(cycle)
<1>4. request \in Query /\ request = cycle[1] /\ 1 \in DOMAIN cycle
  BY <1>1, <1>3
<1>5. /\ Cycled' = Cycled \ {request.id} /\ request.id \in Cycled
      /\ NoRepeats(cycle)'
  BY <1>1, <1>2, <1>3, <1>4, QueryIds, TailIds DEF Placed, Cycled
<1>6. request.id \notin Done
  BY <1>2, <1>5 DEF Placed
<1>7. CancelMarked' /\ Held' = {request.id} /\ call'.request = request
  BY <1>1, <1>2, <1>4, <1>6, BeginMarked
<1>8. Held = {}
  BY <1>1 DEF Held
<1>9. Unread' = Unread /\ Queued' = Queued /\ Done' = Done
  BY <1>1 DEF Unread, Queued, Done, IdsIn
<1>10. Placed'
  <2>1. NoRepeats(readResults)' /\ NoRepeats(pendingAnalysisRequests)'
    BY <1>1, <1>2 DEF Placed, NoRepeats
  <2> QED
    BY <1>1, <1>2, <1>5, <1>7, <1>8, <1>9, <2>1 DEF Placed
<1>11. AskedCurrent'
  <2>1. ASSUME NEW i \in DOMAIN cycle'
        PROVE  asked[cycle'[i].id] = documents[cycle'[i].uri]
    <3>1. cycle'[i] = cycle[i + 1] /\ i + 1 \in DOMAIN cycle
      BY <1>1, <1>3
    <3> QED
      BY <1>2, <3>1 DEF AskedCurrent
  <2>2. asked[request.id] = documents[request.uri]
    BY <1>2, <1>4 DEF AskedCurrent
  <2> QED
    BY <1>1, <1>2, <1>7, <2>1, <2>2 DEF AskedCurrent
<1>12. /\ LastMessage' /\ QueueServed' /\ AnsweredOnce' /\ ActionsMatchRequest'
       /\ CancellationHonored'
  BY <1>1, <1>2 DEF LastMessage, QueueServed, AnsweredOnce, ActionsMatchRequest,
     CancellationHonored
<1> QED
  BY <1>7, <1>10, <1>11, <1>12 DEF RequestInv

\* A step of the request in progress that moves no other one.
CallOnly ==
    UNCHANGED <<readResults, reading, sent, inputOpen, documents, analysisCancel,
                pendingAnalysisRequests, cycle, asked>>

LEMMA SamePlaces ==
    ASSUME CallOnly, LastMessage, QueueServed, Placed
    PROVE  /\ LastMessage' /\ QueueServed'
           /\ Unread' = Unread /\ Queued' = Queued /\ Cycled' = Cycled
           /\ NoRepeats(readResults)' /\ NoRepeats(pendingAnalysisRequests)'
           /\ NoRepeats(cycle)'
BY DEF CallOnly, LastMessage, QueueServed, Placed, NoRepeats, Unread, Queued, Cycled, IdsIn

\* The request in progress is answered: with success only when it is not counted as
\* canceled, and with a document only when it is the open one.
LEMMA RespondedStep ==
    ASSUME TypeOK, TypeOK', RequestInv, status = "running",
           call # Nil, call.phase # "answered",
           NEW outcome \in Outcomes, NEW document,
           Responding(outcome, document),
           outcome \in {"none", "actions", "edits"} => call.request.id \notin canceledIds,
           outcome \in {"actions", "edits"} => document = documents[call.request.uri],
           CallOnly, UNCHANGED <<pendingCancellations, canceledIds>>
    PROVE  RequestInv'
<1>1. /\ Placed /\ AskedCurrent /\ CancelMarked /\ LastMessage /\ QueueServed
      /\ AnsweredOnce /\ ActionsMatchRequest /\ CancellationHonored
  BY DEF RequestInv
<1> DEFINE id == call.request.id
<1>2. /\ call \in Call /\ id \in Ids
  <2>1. call \in Call
    BY DEF TypeOK, RequestTypes
  <2> QED
    BY <2>1 DEF Call, Query
<1>3. Held = {id} /\ id \notin Done
  BY <1>1 DEF Held, Placed
<1>4. /\ AnsweredOnce' /\ Done' = Done \cup {id}
      /\ answers'[id] = <<[outcome |-> outcome, document |-> document]>>
      /\ \A other \in Ids : other # id => answers'[other] = answers[other]
  BY <1>1, <1>2, <1>3, AnswerOne DEF Responding
<1>5. /\ call' # Nil /\ call'.request = call.request /\ call'.phase = "answered"
  <2>1. call' = [call EXCEPT !.phase = "answered"]
    BY DEF Responding
  <2>2. call' \in Call
    BY <1>2, <2>1 DEF Call
  <2> QED
    BY <1>2, <2>1, <2>2 DEF Call
<1>6. Held' = {}
  BY <1>5 DEF Held
<1>7. /\ LastMessage' /\ QueueServed'
      /\ Unread' = Unread /\ Queued' = Queued /\ Cycled' = Cycled
      /\ NoRepeats(readResults)' /\ NoRepeats(pendingAnalysisRequests)'
      /\ NoRepeats(cycle)' /\ UNCHANGED sent
  BY <1>1, SamePlaces DEF CallOnly
<1>8. Placed'
  BY <1>1, <1>3, <1>4, <1>6, <1>7 DEF Placed
<1>9. AskedCurrent'
  BY <1>1, <1>6 DEF AskedCurrent, CallOnly
<1>10. CancelMarked'
  BY <1>1, <1>3, <1>4, <1>5 DEF CancelMarked
<1>11. outcome \in {"none", "actions", "edits"} => id \notin canceledIds
  OBVIOUS
<1>12. asked[id] = documents[call.request.uri]
  BY <1>1, <1>3 DEF AskedCurrent
<1>13. ASSUME NEW other \in Ids, NEW i \in DOMAIN answers'[other]
       PROVE  /\ answers'[other][i].outcome \in {"actions", "edits"} =>
                   answers'[other][i].document = asked'[other]
              /\ other \in canceledIds' =>
                   answers'[other][i].outcome \notin {"none", "actions", "edits"}
  <2>1. CASE other = id
    <3>1. i = 1
      BY <1>4, <1>13, <2>1
    <3>2. /\ answers'[other][i].outcome = outcome
          /\ answers'[other][i].document = document
      BY <1>4, <2>1, <3>1
    <3> QED
      BY <1>11, <1>12, <2>1, <3>2 DEF CallOnly
  <2>2. CASE other # id
    BY <1>1, <1>4, <1>13, <2>2 DEF ActionsMatchRequest, CancellationHonored, CallOnly
  <2> QED
    BY <2>1, <2>2
<1>14. ActionsMatchRequest' /\ CancellationHonored'
  <2>1. canceledIds' \subseteq Ids
    BY DEF TypeOK, RequestTypes
  <2> QED
    BY <1>13, <2>1 DEF ActionsMatchRequest, CancellationHonored
<1> QED
  BY <1>4, <1>7, <1>8, <1>9, <1>10, <1>14 DEF RequestInv

\* The request in progress stays in progress, or its handler ends.
LEMMA CallStep ==
    ASSUME TypeOK, TypeOK', RequestInv, status = "running", call # Nil,
           NEW phase \in {"checked", "backend", "returned"},
           \/ call.phase # "answered" /\ call' = [call EXCEPT !.phase = phase]
           \/ call.phase = "answered" /\ call' = Nil,
           CallOnly, UNCHANGED <<answers, pendingCancellations, canceledIds>>
    PROVE  RequestInv'
<1>1. /\ Placed /\ AskedCurrent /\ CancelMarked /\ LastMessage /\ QueueServed
      /\ AnsweredOnce /\ ActionsMatchRequest /\ CancellationHonored
  BY DEF RequestInv
<1>2. call \in Call
  BY DEF TypeOK, RequestTypes
<1>3. Held' = Held /\ (Held # {} => call'.request = call.request
                                    /\ call'.canceled = call.canceled)
      /\ (call' # Nil => call'.request = call.request /\ call'.phase = phase)
  <2>1. CASE call.phase # "answered" /\ call' = [call EXCEPT !.phase = phase]
    <3>1. call' \in Call /\ call'.request = call.request /\ call'.canceled = call.canceled
          /\ call'.phase = phase
      BY <1>2, <2>1 DEF Call
    <3> QED
      BY <2>1, <3>1 DEF Held
  <2>2. CASE call.phase = "answered" /\ call' = Nil
    BY <2>2 DEF Held
  <2> QED
    BY <2>1, <2>2
<1>4. /\ LastMessage' /\ QueueServed'
      /\ Unread' = Unread /\ Queued' = Queued /\ Cycled' = Cycled /\ Done' = Done
      /\ NoRepeats(readResults)' /\ NoRepeats(pendingAnalysisRequests)'
      /\ NoRepeats(cycle)' /\ UNCHANGED sent
  BY <1>1, SamePlaces DEF CallOnly, Done
<1>5. Placed'
  BY <1>1, <1>3, <1>4 DEF Placed
<1>6. AskedCurrent'
  BY <1>1, <1>3 DEF AskedCurrent, CallOnly
<1>7. CancelMarked'
  BY <1>1, <1>3, <1>4 DEF CancelMarked
<1>8. AnsweredOnce' /\ ActionsMatchRequest' /\ CancellationHonored'
  BY <1>1 DEF AnsweredOnce, ActionsMatchRequest, CancellationHonored, CallOnly
<1> QED
  BY <1>4, <1>5, <1>6, <1>7, <1>8 DEF RequestInv

\* handleCodeAction and handleFormatting, step by step.
LEMMA ServingStep ==
    ASSUME CurrentInv, TypeOK', RequestInv, LastLook, Serving
    PROVE  RequestInv'
<1>1. TypeOK /\ CallReady /\ AnalysesCurrent
  BY DEF CurrentInv
<1>2. CASE ServeNext
  BY <1>1, <1>2, ServedNext
<1>3. CASE CheckRequest
  <2>1. /\ status = "running" /\ call # Nil /\ call.phase # "answered"
        /\ CallOnly /\ UNCHANGED <<pendingCancellations, canceledIds>>
    BY <1>3 DEF CheckRequest, ServeStep, CallOnly, inputVars, documentVars, analysisVars
  <2>2. "canceled" \in Outcomes
    BY DEF Outcomes
  <2>3. CASE Responding("canceled", Nil)
    BY <1>1, <2>1, <2>2, <2>3, RespondedStep
  <2>4. CASE call' = [call EXCEPT !.phase = "checked"] /\ UNCHANGED answers
    BY <1>1, <2>1, <2>4, CallStep
  <2> QED
    BY <1>3, <2>3, <2>4 DEF CheckRequest
<1>4. CASE CallBackend
  <2>1. /\ status = "running" /\ call # Nil /\ call.phase = "checked"
        /\ CallOnly /\ UNCHANGED <<pendingCancellations, canceledIds>>
    BY <1>4 DEF CallBackend, ServeStep, CallOnly, inputVars, documentVars, analysisVars
  <2>2. {"invalid", "none"} \subseteq Outcomes
    BY DEF Outcomes
  <2>3. CASE Responding("invalid", Nil)
    BY <1>1, <2>1, <2>2, <2>3, RespondedStep
  <2>4. CASE ~Answerable /\ Responding("none", Nil)
    <3>1. call.request.id \notin canceledIds
      BY <2>1, <2>4 DEF LastLook
    <3> QED
      BY <1>1, <2>1, <2>2, <2>4, <3>1, RespondedStep
  <2>5. CASE call' = [call EXCEPT !.phase = "backend"] /\ UNCHANGED answers
    BY <1>1, <2>1, <2>5, CallStep
  <2> QED
    BY <1>4, <2>3, <2>4, <2>5 DEF CallBackend
<1>5. CASE BackendReturns
  <2>1. /\ status = "running" /\ call # Nil /\ call.phase = "backend"
        /\ CallOnly /\ UNCHANGED <<pendingCancellations, canceledIds>>
    BY <1>5 DEF BackendReturns, ServeStep, CallOnly, inputVars, documentVars, analysisVars
  <2>2. "canceled" \in Outcomes
    BY DEF Outcomes
  <2>3. CASE status' # "running" /\ UNCHANGED answers
    BY <2>1, <2>3, EndedRequests DEF CallOnly
  <2>4. CASE Responding("canceled", Nil)
    BY <1>1, <2>1, <2>2, <2>4, RespondedStep
  <2>5. CASE call' = [call EXCEPT !.phase = "returned"] /\ UNCHANGED answers
    BY <1>1, <2>1, <2>5, CallStep
  <2> QED
    BY <1>5, <2>3, <2>4, <2>5 DEF BackendReturns
<1>6. CASE Respond
  <2> DEFINE uri == call.request.uri
             acted == [version |-> documents[uri].version, text |-> analyses[uri]]
  <2>1. /\ status = "running" /\ call # Nil /\ call.phase = "returned"
        /\ CallOnly /\ UNCHANGED <<pendingCancellations, canceledIds>>
    BY <1>6 DEF Respond, ServeStep, CallOnly, inputVars, documentVars, analysisVars
  <2>2. call.request.id \notin canceledIds
    BY <2>1 DEF LastLook
  <2>3. {"internal", "actions", "edits"} \subseteq Outcomes
    BY DEF Outcomes
  <2>4. CASE Responding("internal", Nil)
    BY <1>1, <2>1, <2>3, <2>4, RespondedStep
  <2>5. CASE call.request.kind = "codeAction" /\ Responding("actions", acted)
    <3>1. call \in Call
      BY <1>1, <2>1 DEF TypeOK, RequestTypes
    <3>2. uri \in Uris
      BY <3>1 DEF Call, Query
    <3>3. documents[uri] # Nil /\ analyses[uri] = documents[uri].text
      BY <1>1, <2>1, <2>5, <3>2 DEF CallReady, Answerable, AnalysesCurrent
    <3>4. documents[uri] \in Document
      BY <1>1, <3>2, <3>3 DEF TypeOK, DocumentTypes, Documents
    <3>5. acted = documents[uri]
      BY <3>3, <3>4 DEF Document
    <3> HIDE DEF acted
    <3> QED
      BY <1>1, <2>1, <2>2, <2>3, <2>5, <3>5, RespondedStep
  <2>6. CASE Responding("edits", documents[uri])
    BY <1>1, <2>1, <2>2, <2>3, <2>6, RespondedStep
  <2> QED
    BY <1>6, <2>4, <2>5, <2>6 DEF Respond
<1>7. CASE FinishRequest
  <2>1. /\ status = "running" /\ call # Nil /\ call.phase = "answered" /\ call' = Nil
        /\ CallOnly /\ UNCHANGED <<answers, pendingCancellations, canceledIds>>
    BY <1>7 DEF FinishRequest, CallOnly, serveVars, inputVars, documentVars, analysisVars,
       queueVars
  <2> QED
    BY <1>1, <2>1, CallStep
<1> QED
  BY <1>2, <1>3, <1>4, <1>5, <1>6, <1>7 DEF Serving

-----------------------------------------------------------------------------
(***************************************************************************)
(* The steps of the reader, the handlers and completions.                  *)
(***************************************************************************)

LEMMA LastAppended ==
    ASSUME TypeOK, LastMessage, reading, NEW m,
           readResults' = Append(readResults, m), UNCHANGED inputOpen,
           m.kind \in {"exit", "eof", "readError"} => ~reading'
    PROVE  LastMessage'
<1>1. readResults \in Seq(Message)
  BY DEF TypeOK, InputTypes
<1>2. ASSUME NEW i \in DOMAIN readResults',
             readResults'[i].kind \in {"exit", "eof", "readError"}
      PROVE  i = Len(readResults') /\ ~reading'
  <2>1. CASE i \in DOMAIN readResults
    <3>1. readResults'[i] = readResults[i]
      BY <1>1, <2>1
    <3> QED
      BY <1>2, <2>1, <3>1 DEF LastMessage
  <2>2. CASE i \notin DOMAIN readResults
    <3>1. i = Len(readResults') /\ readResults'[i] = m
      BY <1>1, <1>2, <2>2
    <3> QED
      BY <1>2, <3>1
  <2> QED
    BY <2>1, <2>2
<1> QED
  BY <1>2 DEF LastMessage

LEMMA ReadStep ==
    ASSUME TypeOK, TypeOK', RequestInv, NEW m \in Message, Read(m)
    PROVE  RequestInv'
<1>1. /\ status = "running" /\ reading
      /\ readResults' = Append(readResults, m)
      /\ reading' = (m.kind \notin {"exit", "eof", "readError"})
      /\ sent' = sent \cup IdOf(m) /\ IdOf(m) \cap sent = {}
      /\ UNCHANGED <<inputOpen, answers, asked, canceledIds, pendingCancellations, call, cycle,
                     pendingAnalysisRequests, documents, analysisCancel>>
  BY DEF Read, ReaderReady, IdOf, serveVars, documentVars, analysisVars, queueVars,
     requestVars
<1>2. /\ Placed /\ AskedCurrent /\ CancelMarked /\ LastMessage /\ QueueServed
      /\ AnsweredOnce /\ ActionsMatchRequest /\ CancellationHonored
  BY <1>1 DEF RequestInv
<1>3. readResults \in Seq(Message)
  BY DEF TypeOK, InputTypes
<1>4. Unread' = Unread \cup IdOf(m) /\ NoRepeats(readResults)'
  <2>1. IdOf(m) \cap Unread = {}
    BY <1>1, <1>2 DEF Placed
  <2> QED
    BY <1>1, <1>2, <1>3, <2>1, AppendIds DEF Placed, Unread
<1>5. /\ Queued' = Queued /\ Cycled' = Cycled /\ Held' = Held /\ Done' = Done
      /\ NoRepeats(pendingAnalysisRequests)' /\ NoRepeats(cycle)'
  BY <1>1, <1>2 DEF Queued, Cycled, Held, Done, IdsIn, Placed, NoRepeats
<1>6. Placed'
  BY <1>1, <1>2, <1>4, <1>5 DEF Placed
<1>7. LastMessage'
  BY <1>1, <1>2, LastAppended
<1>8. AskedCurrent' /\ CancelMarked'
  BY <1>1, <1>2, <1>5 DEF AskedCurrent, CancelMarked
<1>9. QueueServed' /\ AnsweredOnce' /\ ActionsMatchRequest' /\ CancellationHonored'
  BY <1>1, <1>2 DEF QueueServed, AnsweredOnce, ActionsMatchRequest, CancellationHonored
<1> QED
  BY <1>6, <1>7, <1>8, <1>9 DEF RequestInv

\* A cancellation reaches the request in progress, or is remembered, or is one too
\* many and ends the reading.
LEMMA ReadCancelStep ==
    ASSUME TypeOK, TypeOK', RequestInv, NEW id \in Ids, ReadCancel(id)
    PROVE  RequestInv'
<1>1. /\ status = "running" /\ reading
      /\ UNCHANGED <<inputOpen, sent, answers, asked, cycle, pendingAnalysisRequests, documents,
                     analysisCancel>>
  BY DEF ReadCancel, ReaderReady, serveVars, documentVars, analysisVars
<1>2. /\ Placed /\ AskedCurrent /\ CancelMarked /\ LastMessage /\ QueueServed
      /\ AnsweredOnce /\ ActionsMatchRequest /\ CancellationHonored
  BY <1>1 DEF RequestInv
<1>3. CASE /\ ~InFlight(id)
           /\ readResults' = Append(readResults, [kind |-> "readError"])
           /\ reading' = FALSE
           /\ UNCHANGED <<call, pendingCancellations, canceledIds>>
  <2>1. /\ readResults \in Seq(Message)
        /\ IdOf([kind |-> "readError"]) = {}
    BY DEF TypeOK, InputTypes, IdOf, RequestKinds
  <2>2. Unread' = Unread /\ NoRepeats(readResults)'
    BY <1>2, <1>3, <2>1, AppendIds DEF Placed, Unread
  <2>3. LastMessage'
    BY <1>1, <1>2, <1>3, LastAppended
  <2> QED
    BY <1>1, <1>3, <2>2, <2>3, Unmoved
<1>4. CASE /\ RecordCancellation(id)
           /\ UNCHANGED <<readResults, reading>>
           /\ \/ /\ InFlight(id) /\ call' = [call EXCEPT !.canceled = TRUE]
                 /\ UNCHANGED pendingCancellations
              \/ /\ ~InFlight(id) /\ UNCHANGED call
                 /\ pendingCancellations' = pendingCancellations \cup {id}
  <2>1. /\ canceledIds' = canceledIds \/ canceledIds' = canceledIds \cup {id}
        /\ id \in Done => canceledIds' = canceledIds
    BY <1>4 DEF RecordCancellation, Done
  <2>2. InFlight(id) =>
          /\ call' # Nil /\ call'.request = call.request /\ call'.phase = call.phase
          /\ call'.canceled
    <3> SUFFICES ASSUME InFlight(id)
                 PROVE  /\ call' # Nil /\ call'.request = call.request
                        /\ call'.phase = call.phase /\ call'.canceled
      OBVIOUS
    <3>1. call \in Call
      BY DEF TypeOK, RequestTypes, InFlight
    <3>2. /\ call' \in Call /\ call'.request = call.request /\ call'.phase = call.phase
          /\ call'.canceled
      BY <1>4, <3>1 DEF Call
    <3> QED
      BY <3>2
  <2>3. Held' = Held
    BY <1>4, <2>2 DEF Held, InFlight
  <2>4. /\ Unread' = Unread /\ Queued' = Queued /\ Cycled' = Cycled /\ Done' = Done
        /\ NoRepeats(readResults)' /\ NoRepeats(pendingAnalysisRequests)'
        /\ NoRepeats(cycle)'
    BY <1>1, <1>2, <1>4 DEF Unread, Queued, Cycled, Done, IdsIn, Placed, NoRepeats
  <2>5. Placed'
    BY <1>1, <1>2, <2>3, <2>4 DEF Placed
  <2>6. AskedCurrent'
    BY <1>1, <1>2, <1>4, <2>2, <2>3 DEF AskedCurrent
  <2>7. CancelMarked'
    <3>1. CASE InFlight(id)
      <4>1. id \notin Done => Held = {id}
        BY <1>2, <3>1 DEF CancelMarked, Held, InFlight
      <4>2. /\ UNCHANGED pendingCancellations
            /\ call # Nil /\ call.request.id = id
        BY <1>4, <3>1 DEF InFlight
      <4> QED
        BY <1>2, <2>1, <2>2, <2>3, <2>4, <3>1, <4>1, <4>2 DEF CancelMarked
    <3>2. CASE ~InFlight(id)
      <4>1. /\ UNCHANGED call /\ pendingCancellations' = pendingCancellations \cup {id}
            /\ call # Nil => call.request.id # id
        BY <1>4, <3>2 DEF InFlight
      <4> QED
        BY <1>2, <2>1, <2>3, <2>4, <4>1 DEF CancelMarked
    <3> QED
      BY <3>1, <3>2
  <2>8. ActionsMatchRequest' /\ CancellationHonored'
    <3>1. canceledIds' \subseteq Ids
      BY DEF TypeOK, RequestTypes
    <3>2. ASSUME NEW other \in Ids
          PROVE  /\ answers'[other] = answers[other]
                 /\ \/ answers[other] = <<>>
                    \/ /\ asked'[other] = asked[other]
                       /\ other \in canceledIds' => other \in canceledIds
      BY <1>1, <2>1 DEF Done
    <3> QED
      BY <1>2, <3>1, <3>2, AnswersSafe
  <2>9. LastMessage' /\ QueueServed' /\ AnsweredOnce'
    BY <1>1, <1>2, <1>4 DEF LastMessage, QueueServed, AnsweredOnce
  <2> QED
    BY <2>5, <2>6, <2>7, <2>8, <2>9 DEF RequestInv
<1> QED
  BY <1>3, <1>4 DEF ReadCancel

\* Messages that are answered at once, wait, begin, or are no requests.
LEMMA MessageStep ==
    ASSUME TypeOK, TypeOK', RequestInv, status' = "running",
           \/ HandleResponse \/ HandleInitialize \/ HandleInitialized \/ HandleUnavailable
           \/ HandleCodeAction \/ HandleFormatting \/ HandleUnknown
    PROVE  RequestInv'
<1>1. /\ \E kinds : Receive(kinds)
      /\ status = "running"
  BY DEF HandleResponse, HandleInitialize, HandleInitialized, HandleUnavailable,
     HandleCodeAction, HandleFormatting, HandleUnknown, Receive, Selecting
<1>2. /\ Placed /\ LastMessage
  BY <1>1 DEF RequestInv
<1>3. /\ Unread' = Unread \ IdOf(Message1)
      /\ NoRepeats(readResults)' /\ LastMessage' /\ UNCHANGED sent
  BY <1>1, <1>2, Received
<1>4. ASSUME Message1.kind \notin RequestKinds,
             UNCHANGED <<answers, asked, canceledIds, pendingCancellations,
                         pendingAnalysisRequests, cycle, call, documents, analysisCancel>>
      PROVE  RequestInv'
  <2>1. IdOf(Message1) = {}
    BY <1>4 DEF IdOf
  <2> QED
    BY <1>1, <1>3, <1>4, <2>1, Unmoved
<1>5. CASE HandleResponse \/ HandleInitialized
  <2>1. Message1.kind \in {"response", "initialized"}
    BY <1>5, ReceiveTypes DEF HandleResponse, HandleInitialized
  <2>2. Message1.kind \notin RequestKinds
    BY <2>1 DEF RequestKinds
  <2> QED
    BY <1>4, <1>5, <2>2 DEF HandleResponse, HandleInitialized, Fail, documentVars,
       analysisVars, queueVars, requestVars
<1>6. CASE HandleInitialize
  <2>1. Message1.kind = "initialize"
    BY <1>6, ReceiveTypes DEF HandleInitialize
  <2>2. Message1.kind \in RequestKinds /\ "initialized" \in Outcomes \ {"none", "actions", "edits"}
    BY <2>1 DEF RequestKinds, Outcomes
  <2> QED
    BY <1>1, <1>6, <2>2, AnsweredAtOnce DEF HandleInitialize, documentVars, analysisVars,
       requestVars
<1>7. CASE HandleUnavailable
  <2>1. UNCHANGED <<asked, canceledIds, pendingCancellations, pendingAnalysisRequests,
                    cycle, call, documents, analysisCancel>>
    BY <1>7 DEF HandleUnavailable, documentVars, analysisVars, requestVars
  <2>2. CASE Message1.kind \in RequestKinds
    <3>1. "unavailable" \in Outcomes \ {"none", "actions", "edits"}
      BY DEF Outcomes
    <3>2. answers' = Answered(Message1.id, "unavailable", Nil)
      BY <1>7, <2>2 DEF HandleUnavailable
    <3> QED
      BY <1>1, <2>1, <2>2, <3>1, <3>2, AnsweredAtOnce
  <2>3. CASE Message1.kind \notin RequestKinds
    BY <1>4, <1>7, <2>1, <2>3 DEF HandleUnavailable
  <2> QED
    BY <2>2, <2>3
<1>8. CASE HandleUnknown
  <2>1. /\ Message1.kind \in {"unknown", "notification"}
        /\ UNCHANGED <<asked, canceledIds, pendingCancellations, pendingAnalysisRequests,
                       cycle, call, documents, analysisCancel>>
    BY <1>8, ReceiveTypes DEF HandleUnknown, documentVars, analysisVars, requestVars
  <2>2. CASE Message1.kind = "unknown"
    <3>1. "methodNotFound" \in Outcomes \ {"none", "actions", "edits"}
          /\ Message1.kind \in RequestKinds
      BY <2>2 DEF Outcomes, RequestKinds
    <3>2. answers' = Answered(Message1.id, "methodNotFound", Nil)
      BY <1>8, <2>2 DEF HandleUnknown
    <3> QED
      BY <1>1, <2>1, <3>1, <3>2, AnsweredAtOnce
  <2>3. CASE Message1.kind = "notification"
    <3>1. Message1.kind \notin RequestKinds /\ answers' = answers
      BY <1>8, <2>3 DEF HandleUnknown, RequestKinds
    <3> QED
      BY <1>4, <2>1, <3>1
  <2> QED
    BY <2>1, <2>2, <2>3
<1>9. CASE HandleCodeAction
  <2>1. /\ Message1.kind \in {"codeAction", "formatting"}
        /\ asked' = [asked EXCEPT ![Message1.id] = documents[Message1.uri]]
        /\ UNCHANGED <<documents, analysisCancel, cycle, canceledIds>>
    BY <1>9, ReceiveTypes DEF HandleCodeAction, documentVars, analysisVars
  <2>2. CASE /\ answers' = Answered(Message1.id, "tooMany", Nil)
             /\ UNCHANGED <<pendingAnalysisRequests, pendingCancellations, call>>
    <3>1. "tooMany" \in Outcomes \ {"none", "actions", "edits"} /\ Message1.kind \in RequestKinds
      BY <2>1 DEF Outcomes, RequestKinds
    <3>2. \A id \in Ids : id # Message1.id => asked'[id] = asked[id]
      BY <2>1
    <3> QED
      BY <1>1, <2>1, <2>2, <3>1, <3>2, AnsweredAtOnce
  <2>3. CASE /\ analysisCancel # 0
             /\ pendingAnalysisRequests' = Append(pendingAnalysisRequests, Message1)
             /\ UNCHANGED <<answers, pendingCancellations, call>>
    BY <1>1, <2>1, <2>3, QueuedStep
  <2>4. CASE Begin(Message1) /\ UNCHANGED <<answers, pendingAnalysisRequests>>
    BY <1>1, <2>1, <2>4, BegunStep
  <2> QED
    BY <1>9, <2>2, <2>3, <2>4 DEF HandleCodeAction
<1>10. CASE HandleFormatting
  <2>1. /\ Message1.kind \in {"codeAction", "formatting"}
        /\ asked' = [asked EXCEPT ![Message1.id] = documents[Message1.uri]]
        /\ Begin(Message1)
        /\ UNCHANGED <<documents, analysisCancel, cycle, canceledIds, answers,
                       pendingAnalysisRequests>>
    BY <1>10, ReceiveTypes DEF HandleFormatting, documentVars, analysisVars
  <2> QED
    BY <1>1, <2>1, BegunStep
<1> QED
  BY <1>5, <1>6, <1>7, <1>8, <1>9, <1>10

\* Edits and file changes answer the queue, or leave the requests alone.
LEMMA EditStep ==
    ASSUME TypeOK, TypeOK', RequestInv, status' = "running",
           HandleDidOpen \/ HandleDidChange \/ HandleDidClose \/ HandleWatchedFiles
    PROVE  RequestInv'
<1>1. /\ Receive({"didOpen", "didChange", "didClose", "didChangeWatchedFiles"})
      /\ UNCHANGED <<call, cycle, asked, canceledIds>> /\ status = "running"
      /\ call = Nil /\ cycle = <<>>
  BY DEF HandleDidOpen, HandleDidChange, HandleDidClose, HandleWatchedFiles, Receive,
     Selecting, requestVars, Fail
<1>2. Placed /\ LastMessage
  BY <1>1 DEF RequestInv
<1>3. /\ Unread' = Unread \ IdOf(Message1)
      /\ NoRepeats(readResults)' /\ LastMessage' /\ UNCHANGED sent
      /\ Message1.kind \in {"didOpen", "didChange", "didClose", "didChangeWatchedFiles"}
  BY <1>1, <1>2, Received
<1>4. Unread' = Unread
  BY <1>3 DEF IdOf, RequestKinds
<1>5. \/ RejectPending
      \/ UNCHANGED <<documentVars, analysisVars, queueVars>>
  BY DEF HandleDidOpen, HandleDidChange, HandleDidClose, HandleWatchedFiles, Schedule, Fail
<1>6. CASE RejectPending
  BY <1>1, <1>3, <1>4, <1>6, RejectedStep
<1>7. CASE UNCHANGED <<documentVars, analysisVars, queueVars>>
  BY <1>1, <1>3, <1>4, <1>7, Unmoved DEF documentVars, analysisVars, queueVars
<1> QED
  BY <1>5, <1>6, <1>7

\* A completion serves the queue, rejects it, or leaves it to the next analysis.
LEMMA CompletionStep ==
    ASSUME CurrentInv, WorkInv, TypeOK', RequestInv, CompleteAnalysis
    PROVE  RequestInv'
<1>1. /\ Complete /\ status = "running" /\ call = Nil /\ cycle = <<>>
      /\ UNCHANGED <<inputOpen, readResults, reading, sent, documents, asked, canceledIds,
                     call, shutdown>>
  BY DEF CompleteAnalysis, CompleteWithFileChanges, CompleteSuperseded, CompleteCanceled,
     CompleteFailed, CompleteCurrent, Complete, Selecting, inputVars, sessionVars
<1>2. /\ Placed /\ LastMessage /\ QueueServed
      /\ TypeOK
      /\ shutdown => analysisCancel = 0
  BY <1>1 DEF RequestInv, CurrentInv, WorkInv
<1>3. Unread' = Unread /\ NoRepeats(readResults)' /\ LastMessage'
  BY <1>1, <1>2 DEF Unread, IdsIn, Placed, NoRepeats, LastMessage
<1>4. ASSUME cycle' = <<>>, UNCHANGED queueVars,
             UNCHANGED analysisCancel \/ analysisCancel' # 0
      PROVE  RequestInv'
  BY <1>1, <1>3, <1>4, Unmoved DEF queueVars
<1>5. ASSUME cycle' = <<>>, RejectPending
      PROVE  RequestInv'
  BY <1>1, <1>2, <1>3, <1>5, RejectedStep
<1>6. ASSUME FinishCycle
      PROVE  RequestInv'
  BY <1>1, <1>6, FinishedStep
<1>7. ASSUME status' # "running", UNCHANGED <<cycle, queueVars>>
      PROVE  RequestInv'
  BY <1>1, <1>7, EndedRequests DEF queueVars
<1>8. CASE CompleteWithFileChanges
  <2>1. \/ Schedule(documents, TRUE, analysisGeneration, 0, Nil) /\ UNCHANGED cycle
        \/ shutdown /\ UNCHANGED <<cycle, queueVars>> /\ analysisCancel' = 0
        \/ FinishCycle
        \/ status' = "failed" /\ UNCHANGED <<cycle, queueVars>>
    BY <1>8 DEF CompleteWithFileChanges
  <2>2. CASE Schedule(documents, TRUE, analysisGeneration, 0, Nil) /\ UNCHANGED cycle
    BY <1>1, <1>5, <2>2 DEF Schedule
  <2>3. CASE shutdown /\ UNCHANGED <<cycle, queueVars>> /\ analysisCancel' = 0
    BY <1>1, <1>2, <1>4, <2>3
  <2> QED
    BY <1>6, <1>7, <2>1, <2>2, <2>3
<1>9. CASE CompleteSuperseded
  <2>1. CASE analysisPending # Nil
    <3>1. analysisCancel' # 0
      BY <1>9, <2>1, PendingStarts
    <3> QED
      BY <1>1, <1>4, <1>9, <2>1, <3>1 DEF CompleteSuperseded
  <2>2. CASE analysisPending = Nil
    BY <1>6, <1>9, <2>2 DEF CompleteSuperseded
  <2> QED
    BY <2>1, <2>2
<1>10. CASE CompleteCanceled \/ CompleteCurrent
  BY <1>5, <1>6, <1>10 DEF CompleteCanceled, CompleteCurrent
<1>11. CASE CompleteFailed
  BY <1>7, <1>11 DEF CompleteFailed
<1> QED
  BY <1>8, <1>9, <1>10, <1>11 DEF CompleteAnalysis

\* The input ends while an analysis is active: nothing is left to read.
LEMMA InputEnds ==
    ASSUME TypeOK, TypeOK', RequestInv, HandleEndOfInput
    PROVE  /\ RequestInv'
           /\ status = "running" /\ call = Nil /\ cycle = <<>>
           /\ Unread = {}
           /\ status' = "exited" => analysisCancel = 0
<1>1. /\ status = "running" /\ call = Nil /\ cycle = <<>>
      /\ readResults # <<>> /\ readResults \in Seq(Message)
      /\ readResults' = Tail(readResults) /\ Message1.kind = "eof"
      /\ UNCHANGED <<answers, asked, canceledIds, pendingCancellations, analysisCancel,
                     pendingAnalysisRequests, cycle, call, documents, sent, reading>>
      /\ status' = "exited" => analysisCancel = 0
      /\ status' # "running" => UNCHANGED <<answers, asked, canceledIds>>
  BY DEF HandleEndOfInput, Selecting, documentVars, analysisVars, queueVars, requestVars,
     TypeOK, InputTypes
<1>2. Placed /\ LastMessage
  BY <1>1 DEF RequestInv
<1>3. /\ 1 \in DOMAIN readResults /\ Message1 = readResults[1]
  BY <1>1 DEF Message1
<1>4. Len(readResults) = 1 /\ ~reading
  BY <1>1, <1>2, <1>3 DEF LastMessage
<1>5. readResults' = <<>>
  BY <1>1, <1>4
<1>6. IdOf(Message1) = {}
  BY <1>1 DEF IdOf, RequestKinds
<1>7. /\ IdsIn(readResults') = IdsIn(readResults) \ IdOf(Message1)
      /\ IdsIn(readResults') = {}
  BY <1>1, <1>2, <1>5, TailIds, NoIds DEF Placed, Message1
<1>8. Unread = {} /\ Unread' = {}
  BY <1>6, <1>7 DEF Unread
<1>9. NoRepeats(readResults)' /\ LastMessage'
  <2>1. DOMAIN readResults' = {} /\ NoRepeats(readResults)'
    BY <1>5, NoIds
  <2> QED
    BY <1>1, <1>4, <1>5, <2>1 DEF LastMessage
<1>10. RequestInv'
  BY <1>1, <1>8, <1>9, Unmoved
<1> QED
  BY <1>1, <1>8, <1>10

LEMMA RequestInit == Init => RequestInv
<1> SUFFICES ASSUME Init PROVE RequestInv
  OBVIOUS
<1>1. /\ readResults = <<>> /\ pendingAnalysisRequests = <<>> /\ cycle = <<>> /\ call = Nil
      /\ sent = {} /\ canceledIds = {} /\ inputOpen
      /\ \A id \in Ids : answers[id] = <<>>
  BY DEF Init
<1>2. /\ Unread = {} /\ Queued = {} /\ Cycled = {} /\ Held = {} /\ Done = {}
      /\ NoRepeats(readResults) /\ NoRepeats(pendingAnalysisRequests) /\ NoRepeats(cycle)
  BY <1>1, NoIds DEF Unread, Queued, Cycled, Held, Done
<1>3. Placed /\ AskedCurrent /\ CancelMarked /\ LastMessage /\ QueueServed
  BY <1>1, <1>2 DEF Placed, AskedCurrent, CancelMarked, LastMessage, QueueServed
<1>4. AnsweredOnce /\ ActionsMatchRequest /\ CancellationHonored
  BY <1>1 DEF AnsweredOnce, ActionsMatchRequest, CancellationHonored
<1> QED
  BY <1>3, <1>4 DEF RequestInv

LEMMA RequestStep ==
    ASSUME CurrentInv, CurrentInv', WorkInv, RequestInv, LastLook, [Next]_vars
    PROVE  RequestInv'
<1>1. TypeOK /\ TypeOK'
  BY DEF CurrentInv
<1>2. CASE status # "running"
  BY <1>2, RunningStep, EndedRequests DEF vars, serveVars, queueVars, requestVars
<1>3. CASE Reader
  BY <1>1, <1>3, ReadStep, ReadCancelStep DEF Reader
<1>4. CASE Serving \/ CompleteAnalysis
  BY <1>1, <1>4, ServingStep, CompletionStep
<1>5. CASE RunAnalysis \/ EndContext \/ (status = "running" /\ UNCHANGED vars)
  <2>1. /\ status = "running"
        /\ UNCHANGED <<inputOpen, readResults, reading, sent, answers, asked, canceledIds, cycle,
                       pendingCancellations, pendingAnalysisRequests, call, documents,
                       analysisCancel>>
    BY <1>5 DEF RunAnalysis, WorkerBegin, WorkerAbandon, WorkerFinish, WorkerDrop, WorkerStep,
       EndContext, vars, serveVars, inputVars, documentVars, analysisVars, queueVars,
       requestVars
  <2>2. Placed /\ LastMessage
    BY <2>1 DEF RequestInv
  <2>3. Unread' = Unread /\ NoRepeats(readResults)' /\ LastMessage'
    BY <2>1, <2>2 DEF Unread, IdsIn, Placed, NoRepeats, LastMessage
  <2> QED
    BY <1>1, <2>1, <2>3, Unmoved
<1>6. CASE ReturnAfterDrain \/ ReturnContextError \/ OutputFails \/ HandleExit
           \/ HandleWatchedFilesFails \/ HandleInvalid
  BY <1>6, EndedRequests DEF ReturnAfterDrain, ReturnContextError, OutputFails, HandleExit,
     HandleWatchedFilesFails, HandleInvalid, Fail, queueVars, requestVars
<1>7. CASE HandleShutdown
  BY <1>1, <1>7, ShutdownAnswers
<1>8. CASE HandleEndOfInput
  BY <1>1, <1>8, InputEnds
<1>9. CASE HandleDidOpen \/ HandleDidChange \/ HandleDidClose \/ HandleWatchedFiles
  <2>1. CASE status' = "running"
    BY <1>1, <1>9, <2>1, EditStep
  <2>2. CASE status' # "running"
    BY <1>9, <2>2, EndedRequests, RunningStep DEF HandleDidOpen, HandleDidChange,
       HandleDidClose, HandleWatchedFiles, Continue, Fail, queueVars, requestVars, Receive,
       Selecting
  <2> QED
    BY <2>1, <2>2
<1>10. CASE \/ HandleResponse \/ HandleInitialize \/ HandleInitialized \/ HandleUnavailable
            \/ HandleCodeAction \/ HandleFormatting \/ HandleUnknown
  <2>1. CASE status' = "running"
    BY <1>1, <1>10, <2>1, MessageStep
  <2>2. CASE status' # "running"
    BY <1>10, <2>2, EndedRequests DEF HandleResponse, HandleInitialize, HandleInitialized,
       HandleUnavailable, HandleCodeAction, HandleFormatting, HandleUnknown, Continue, Fail,
       queueVars, requestVars, Receive, Selecting
  <2> QED
    BY <2>1, <2>2
<1> QED
  BY <1>2, <1>3, <1>4, <1>5, <1>6, <1>7, <1>8, <1>9, <1>10 DEF Next, MainLoop, Handle

\* A look at the context finds every cancellation that counts, and none counts after
\* the last one: only the reader adds one, and the main loop changes neither documents
\* nor analyses while a request is served.
LEMMA LookStep ==
    ASSUME CurrentInv, RequestInv, LastLook, [Next]_vars
    PROVE  LastLook'
<1>1. TypeOK /\ CallReady
  BY DEF CurrentInv
<1>2. CASE UNCHANGED <<call, documents, analyses, canceledIds>>
  BY <1>2 DEF LastLook, Answerable
<1>3. CASE call' = Nil
  BY <1>3 DEF LastLook
<1>4. CASE call'.phase \in {"begun", "backend", "answered"}
  BY <1>4 DEF LastLook
<1>5. ASSUME NEW id \in Ids, ReadCancel(id)
      PROVE  LastLook'
  <2>1. /\ UNCHANGED <<documents, analyses>>
        /\ UNCHANGED canceledIds \/ RecordCancellation(id)
        /\ \/ InFlight(id) /\ call' = [call EXCEPT !.canceled = TRUE]
           \/ ~InFlight(id) /\ UNCHANGED call
    BY <1>5 DEF ReadCancel, documentVars
  <2>2. call # Nil => call \in Call
    BY <1>1 DEF TypeOK, RequestTypes
  <2>3. call # Nil => /\ call'.request = call.request /\ call'.phase = call.phase
                      /\ call' # Nil
    <3>1. CASE InFlight(id) /\ call' = [call EXCEPT !.canceled = TRUE]
      <4>1. call \in Call
        BY <2>2, <3>1 DEF InFlight
      <4>2. /\ call' \in Call /\ call'.request = call.request
            /\ call'.phase = call.phase
        BY <3>1, <4>1 DEF Call
      <4> QED
        BY <4>2
    <3>2. CASE UNCHANGED call
      BY <3>2
    <3> QED
      BY <2>1, <3>1, <3>2
  <2>4. call = Nil => call' = Nil
    BY <2>1 DEF InFlight
  <2>5. call # Nil => Answerable' = Answerable
    BY <2>1, <2>3 DEF Answerable
  <2>6. canceledIds' # canceledIds => canceledIds' = canceledIds \cup {id} /\ CheckAhead(id)
    BY <2>1 DEF RecordCancellation
  <2> QED
    BY <2>3, <2>4, <2>5, <2>6 DEF LastLook, CheckAhead, InFlight
<1>6. ASSUME NEW request, Begin(request)
      PROVE  call'.phase = "begun"
  BY <1>6 DEF Begin
<1>7. ASSUME NEW outcome, NEW document, call # Nil, Responding(outcome, document)
      PROVE  call'.phase = "answered"
  <2>1. call \in Call
    BY <1>1, <1>7 DEF TypeOK, RequestTypes
  <2> QED
    BY <1>7, <2>1 DEF Responding, Call
<1>8. ASSUME call # Nil, ~call.canceled, status = "running", call.phase # "answered"
      PROVE  call.request.id \notin canceledIds
  <2>1. CancelMarked /\ Placed /\ Held = {call.request.id}
    BY <1>8 DEF RequestInv, Held
  <2>2. call.request.id \notin Done
    BY <2>1 DEF Placed
  <2> QED
    BY <1>8, <2>1, <2>2 DEF CancelMarked
<1>9. CASE CheckRequest
  <2>1. /\ status = "running" /\ call # Nil /\ call \in Call /\ UNCHANGED canceledIds
        /\ call.phase = "begun"
    BY <1>1, <1>9 DEF CheckRequest, ServeStep, TypeOK, RequestTypes
  <2>2. CASE Responding("canceled", Nil)
    BY <1>4, <1>7, <2>1, <2>2
  <2>3. CASE ~call.canceled /\ call' = [call EXCEPT !.phase = "checked"]
    <3>1. call'.request = call.request
      BY <2>1, <2>3 DEF Call
    <3> QED
      BY <1>8, <2>1, <2>3, <3>1 DEF LastLook
  <2> QED
    BY <1>9, <2>2, <2>3 DEF CheckRequest, RequestCanceled
<1>10. CASE CallBackend
  <2>1. call # Nil /\ call \in Call
    BY <1>1, <1>10 DEF CallBackend, TypeOK, RequestTypes
  <2>2. CASE call' = [call EXCEPT !.phase = "backend"]
    BY <1>4, <2>1, <2>2 DEF Call
  <2> QED
    BY <1>4, <1>7, <1>10, <2>1, <2>2 DEF CallBackend
<1>11. CASE BackendReturns
  <2>1. /\ status = "running" /\ call # Nil /\ call \in Call /\ call.phase = "backend"
        /\ UNCHANGED <<documents, analyses, canceledIds>>
    BY <1>1, <1>11 DEF BackendReturns, ServeStep, TypeOK, RequestTypes, documentVars
  <2>2. CASE Responding("canceled", Nil)
    BY <1>4, <1>7, <2>1, <2>2
  <2>3. CASE ~call.canceled /\ call' = [call EXCEPT !.phase = "returned"]
    <3>1. call'.request = call.request
      BY <2>1, <2>3 DEF Call
    <3> QED
      BY <1>8, <2>1, <2>3, <3>1 DEF LastLook
  <2>4. CASE UNCHANGED call
    BY <1>2, <2>1, <2>4
  <2> QED
    BY <1>11, <2>2, <2>3, <2>4 DEF BackendReturns
<1>12. CASE Respond
  <2>1. call # Nil
    BY <1>12 DEF Respond
  <2> QED
    BY <1>4, <1>7, <1>12, <2>1 DEF Respond
<1>13. CASE ServeNext \/ FinishRequest
  BY <1>3, <1>4, <1>6, <1>13 DEF ServeNext, FinishRequest
<1>14. CASE Handle
  <2>1. call = Nil
    BY <1>14 DEF Handle, HandleResponse, HandleInitialize, HandleInitialized,
       HandleShutdown, HandleUnavailable, HandleExit, HandleDidOpen, HandleDidChange,
       HandleDidClose, HandleWatchedFiles, HandleWatchedFilesFails, HandleCodeAction,
       HandleFormatting, HandleUnknown, HandleInvalid, HandleEndOfInput, Receive, Selecting
  <2>2. UNCHANGED call \/ Begin(Message1)
    BY <1>14 DEF Handle, HandleResponse, HandleInitialize, HandleInitialized,
       HandleShutdown, HandleUnavailable, HandleExit, HandleDidOpen, HandleDidChange,
       HandleDidClose, HandleWatchedFiles, HandleWatchedFilesFails, HandleCodeAction,
       HandleFormatting, HandleUnknown, HandleInvalid, HandleEndOfInput, Fail, requestVars
  <2> QED
    BY <1>3, <1>4, <1>6, <2>1, <2>2
<1>15. CASE CompleteAnalysis
  <2>1. call = Nil /\ UNCHANGED call
    BY <1>15 DEF CompleteAnalysis, CompleteWithFileChanges, CompleteSuperseded,
       CompleteCanceled, CompleteFailed, CompleteCurrent, Complete, Selecting
  <2> QED
    BY <1>3, <2>1
<1>16. CASE \/ \E m \in Message : Read(m)
            \/ ReturnAfterDrain \/ ReturnContextError \/ EndContext \/ OutputFails
            \/ RunAnalysis \/ UNCHANGED vars
  BY <1>2, <1>16 DEF Read, ReturnAfterDrain, ReturnContextError, EndContext, OutputFails,
     RunAnalysis, WorkerBegin, WorkerAbandon, WorkerFinish, WorkerDrop, WorkerStep, Fail,
     vars, requestVars, documentVars
<1> QED
  BY <1>5, <1>9, <1>10, <1>11, <1>12, <1>13, <1>14, <1>15, <1>16
     DEF Next, MainLoop, Reader, Serving

-----------------------------------------------------------------------------
(***************************************************************************)
(* The theorems about requests.                                            *)
(***************************************************************************)
SessionInv == CurrentInv /\ WorkInv /\ RequestInv /\ LastLook

LEMMA SessionInit == Init => SessionInv
BY CurrentInit, WorkInit, RequestInit DEF SessionInv, Init, LastLook

LEMMA SessionStep == SessionInv /\ [Next]_vars => SessionInv'
BY CurrentStep, WorkStep, RequestStep, LookStep DEF SessionInv

\* A request is in the place that holds its id, and no other.
LEMMA OnePlace ==
    ASSUME Placed, NEW id \in Ids
    PROVE  Cardinality({i \in 1..4 : Waiting(id)[i]})
             = IF id \in sent /\ answers[id] = <<>> THEN 1 ELSE 0
<1> DEFINE places == {i \in 1..4 : Waiting(id)[i]}
<1>1. /\ Waiting(id)[1] <=> id \in Unread
      /\ Waiting(id)[2] <=> id \in Queued
      /\ Waiting(id)[3] <=> id \in Cycled
      /\ Waiting(id)[4] <=> id \in Held
  BY DEF Waiting, Unread, Queued, Cycled, Held, InFlight
<1>2. /\ 1 \in places <=> id \in Unread
      /\ 2 \in places <=> id \in Queued
      /\ 3 \in places <=> id \in Cycled
      /\ 4 \in places <=> id \in Held
      /\ places \subseteq {1, 2, 3, 4}
  BY <1>1
<1> HIDE DEF places
<1>3. answers[id] = <<>> <=> id \notin Done
  BY DEF Done
<1>4. CASE id \in sent /\ answers[id] = <<>>
  <2>1. \/ places = {1} \/ places = {2} \/ places = {3} \/ places = {4}
    <3>1. id \in Unread \cup Queued \cup Cycled \cup Held
      BY <1>3, <1>4 DEF Placed
    <3>2. /\ id \in Unread => id \notin Queued \cup Cycled \cup Held
          /\ id \in Queued => id \notin Unread \cup Cycled \cup Held
          /\ id \in Cycled => id \notin Unread \cup Queued \cup Held
          /\ id \in Held => id \notin Unread \cup Queued \cup Cycled
      BY DEF Placed
    <3> QED
      BY <1>2, <3>1, <3>2
  <2>2. Cardinality(places) = 1
    BY <2>1, FS_Singleton
  <2> QED
    BY <1>4, <2>2 DEF places
<1>5. CASE ~(id \in sent /\ answers[id] = <<>>)
  <2>1. places = {}
    BY <1>2, <1>3, <1>5 DEF Placed
  <2>2. Cardinality(places) = 0
    BY <2>1, FS_EmptySet
  <2> QED
    BY <1>5, <2>2 DEF places
<1> QED
  BY <1>4, <1>5

\* Every request is answered at most once and, while the server runs, is in exactly one
\* place until then: no interleaving of edits, results, cancellations and the end of the
\* input drops one or serves it twice (handleCodeAction, rejectPendingAnalysisRequests,
\* finishAnalysisCycle).
THEOREM RequestsKept == Spec => []NoRequestLost
<1>1. SessionInv => NoRequestLost
  BY OnePlace DEF SessionInv, RequestInv, AnsweredOnce, NoRequestLost
<1> QED
  BY SessionInit, SessionStep, <1>1, PTL DEF Spec

\* A code action or an edit is computed for the document, version and text, that was open
\* when its request was taken, however long it waited: an edit in between rejects it
\* (scheduleAnalysis, handleCodeAction, handleFormatting).
THEOREM AnswersMatch == Spec => []ActionsMatchRequest
<1>1. SessionInv => ActionsMatchRequest
  BY DEF SessionInv, RequestInv
<1> QED
  BY SessionInit, SessionStep, <1>1, PTL DEF Spec

\* A request whose cancellation was accepted while its handler would still look at its
\* context is never answered with success, in whichever of its places the cancellation
\* found it (cancelRequest, beginRequest).
THEOREM CancellationsHonored == Spec => []CancellationHonored
<1>1. SessionInv => CancellationHonored
  BY DEF SessionInv, RequestInv
<1> QED
  BY SessionInit, SessionStep, <1>1, PTL DEF Spec

\* When nothing is left in the queues, every request was answered.
LEMMA AllAnswered ==
    ASSUME Placed, Unread = {}, pendingAnalysisRequests = <<>>, cycle = <<>>, call = Nil
    PROVE  \A id \in sent : answers[id] # <<>>
<1>1. Queued = {} /\ Cycled = {} /\ Held = {}
  BY NoIds DEF Queued, Cycled, Held
<1> QED
  BY <1>1 DEF Placed, Done

\* The steps at which Serve returns without an error.
LEMMA ExitSteps ==
    ASSUME [Next]_vars, status = "running", status' = "exited"
    PROVE  HandleExit \/ HandleEndOfInput \/ ReturnAfterDrain
<1>1. CASE Handle
  BY <1>1 DEF Handle, HandleResponse, HandleInitialize, HandleInitialized, HandleShutdown,
     HandleUnavailable, HandleDidOpen, HandleDidChange, HandleDidClose, HandleWatchedFiles,
     HandleWatchedFilesFails, HandleCodeAction, HandleFormatting, HandleUnknown,
     HandleInvalid, Fail, Continue
<1>2. CASE CompleteAnalysis
  BY <1>2 DEF CompleteAnalysis, CompleteWithFileChanges, CompleteSuperseded,
     CompleteCanceled, CompleteFailed, CompleteCurrent, Continue
<1>3. CASE Serving \/ Reader \/ RunAnalysis
  BY <1>3 DEF Serving, ServeNext, CheckRequest, CallBackend,
     BackendReturns, Respond, ServeStep, FinishRequest, Responding,
     Continue, Reader, Read, ReadCancel, RunAnalysis, WorkerBegin, WorkerAbandon,
     WorkerFinish, WorkerDrop, WorkerStep, serveVars
<1>4. CASE ReturnContextError \/ EndContext \/ OutputFails \/ UNCHANGED vars
  BY <1>4 DEF ReturnContextError, EndContext, OutputFails, Fail, vars, serveVars
<1> QED
  BY <1>1, <1>2, <1>3, <1>4 DEF Next, MainLoop

\* When the input ends without exit, Serve returns only after it answered every request it
\* read: the end is the last message, and the queue is empty once no analysis is active
\* (Serve, finishAnalysisCycle).
THEOREM EndAnswersAll == Spec => EndOfInputAnswersAll
<1>1. ASSUME SessionInv, [Next]_vars, ~UNCHANGED vars, status' = "exited",
             Head(readResults \o <<[kind |-> "eof"]>>).kind # "exit"
      PROVE  \A id \in sent : answers'[id] # <<>>
  <2>1. status = "running"
    BY <1>1, RunningStep
  <2>2. /\ Placed /\ LastMessage /\ QueueServed /\ RequestInv /\ TypeOK /\ TypeOK'
    BY <1>1, <2>1, CurrentStep DEF SessionInv, RequestInv, CurrentInv
  <2>3. readResults \in Seq(Message)
    BY <2>2 DEF TypeOK, InputTypes
  <2>4. CASE HandleExit
    <3>1. readResults # <<>> /\ Head(readResults).kind = "exit"
      BY <2>2, <2>4, ReceiveTypes DEF HandleExit, Receive, Message1
    <3>2. Head(readResults \o <<[kind |-> "eof"]>>) = Head(readResults)
      BY <2>3, <3>1
    <3> QED
      BY <1>1, <3>1, <3>2
  <2>5. CASE HandleEndOfInput
    <3>1. /\ call = Nil /\ cycle = <<>> /\ Unread = {} /\ analysisCancel = 0
          /\ UNCHANGED answers
      BY <1>1, <2>2, <2>5, InputEnds DEF HandleEndOfInput, queueVars
    <3> QED
      BY <2>2, <3>1, AllAnswered DEF QueueServed
  <2>6. CASE ReturnAfterDrain
    <3>1. /\ call = Nil /\ cycle = <<>> /\ ~inputOpen /\ analysisCancel = 0
          /\ UNCHANGED answers
      BY <2>6 DEF ReturnAfterDrain, Drained, queueVars
    <3>2. Unread = {}
      BY <2>2, <3>1, NoIds DEF LastMessage, Unread
    <3> QED
      BY <2>2, <3>1, <3>2, AllAnswered DEF QueueServed
  <2> QED
    BY <1>1, <2>1, <2>4, <2>5, <2>6, ExitSteps
<1>2. SessionInv /\ [Next]_vars =>
        [status' = "exited" /\ Head(readResults \o <<[kind |-> "eof"]>>).kind # "exit" =>
            \A id \in sent : answers'[id] # <<>>]_vars
  BY <1>1
<1> QED
  BY SessionInit, SessionStep, <1>2, PTL DEF Spec, EndOfInputAnswersAll
=============================================================================
