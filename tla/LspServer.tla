----------------------------- MODULE LspServer -----------------------------
(***************************************************************************)
(* The editor session of internal/lsp/server.go.                           *)
(*                                                                         *)
(* Three kinds of goroutine share one session:                             *)
(*   - the reader takes client messages off the input stream, handles      *)
(*     $/cancelRequest itself, and queues everything else;                 *)
(*   - the main loop selects between queued messages, analysis results and *)
(*     the end of the context, and runs one handler at a time;             *)
(*   - an analysis worker debounces, calls the backend and posts a result. *)
(* A handler is one step.  The exception is a request that calls the       *)
(* backend: the reader and the workers run on meanwhile, so a request is   *)
(* begun, checked, given to the backend, checked again, answered and       *)
(* finished in steps of its own.                                           *)
(***************************************************************************)
EXTENDS Integers, Sequences, FiniteSets

CONSTANTS
    Uris,       \* documents the client may open
    Texts,      \* document contents
    Versions,   \* document versions
    Files,      \* paths the client may report as changed on disk
    Ids,        \* request ids; a client never reuses one
    Nil,        \* no document, no analysis, no request
    FileBackend,                    \* the backend implements WorkspaceFileBackend
    MaximumPendingAnalysisRequests,
    MaximumPendingCancellations,
    MaximumWatchedFileChanges,
    ReadCapacity,                   \* capacity of the readResults channel
    ResultCapacity,                 \* capacity of the analysisResults channel
    Notifications,                  \* file lists a watched-files message may carry
    Sessions                        \* the sessions: how many inputs of each kind one has

\* The messages of a client, and three faults: the context ends, an output fails,
\* an analysis fails as a whole.
InputKinds ==
    {"initialize", "initialized", "response", "shutdown", "exit", "didOpen", "didChange",
     "didClose", "didChangeWatchedFiles", "codeAction", "formatting", "unknown",
     "notification", "malformed", "badParams", "eof", "readError", "cancelRequest",
     "endContext", "outputError", "analysisError"}

ASSUME VersionsAssumption == Versions \subseteq Nat
ASSUME BoundsAssumption ==
    /\ MaximumPendingAnalysisRequests \in Nat
    /\ MaximumPendingCancellations \in Nat
    /\ MaximumWatchedFileChanges \in Nat
    /\ ReadCapacity \in Nat \ {0}
    /\ ResultCapacity \in Nat \ {0}
ASSUME FileBackendAssumption == FileBackend \in BOOLEAN
ASSUME NotificationsAssumption == Notifications \subseteq Seq(Files)
ASSUME SessionsAssumption == Sessions \subseteq [InputKinds -> Nat]

Document == [version : Versions, text : Texts]
Documents == [Uris -> Document \cup {Nil}]

\* An analysisRequest, captured when analysis is scheduled.
Request == [generation : Nat, documents : Documents, debounce : BOOLEAN]

\* A request that waits for an answer.
Query == [kind : {"codeAction", "formatting"}, id : Ids, uri : Uris]

\* The request whose handler runs now, and whether its context was canceled.
Call == [request : Query, canceled : BOOLEAN,
         phase : {"begun", "checked", "backend", "returned", "answered"}]

ASSUME NilAssumption ==
    /\ Nil \notin Document
    /\ Nil \notin Texts
    /\ Nil \notin Request
    /\ Nil \notin Call

\* A goroutine in runAnalysis.  basis: how many changes of each file the backend
\* had been told of when it was called.
Worker == [generation : Nat, documents : Documents, debounce : BOOLEAN,
           phase : {"waiting", "analyzing"}, canceled : BOOLEAN, basis : [Files -> Nat]]

\* errors: the documents whose own analysis failed.  "invalid": results the
\* server rejects (a repeated, missing or altered document).
Completion == [generation : Nat, documents : Documents, basis : [Files -> Nat],
               outcome : {"results", "canceled", "failed", "invalid"},
               errors : SUBSET Uris]

Changes == [paths : SUBSET Files, all : BOOLEAN]
NoChanges == [paths |-> {}, all |-> FALSE]

Message ==
    [kind : {"initialize"}, id : Ids, dynamic : BOOLEAN]
    \cup [kind : {"shutdown", "unknown"}, id : Ids]
    \cup [kind : {"initialized", "response", "notification", "exit",
                  "malformed", "badParams", "eof", "readError"}]
    \cup [kind : {"didOpen", "didChange"}, uri : Uris, version : Versions, text : Texts]
    \cup [kind : {"didClose"}, uri : Uris]
    \cup [kind : {"didChangeWatchedFiles"}, changes : Notifications]
    \cup Query

RequestKinds == {"initialize", "shutdown", "unknown", "codeAction", "formatting"}

\* The messages handle looks at only while the session is initialized and not
\* shut down.
AvailableKinds == {"didOpen", "didChange", "didClose", "didChangeWatchedFiles",
                   "codeAction", "formatting", "unknown", "notification", "badParams"}

Outcomes == {"initialized", "shutdown", "unavailable", "methodNotFound", "tooMany",
             "canceled", "modified", "invalid", "internal", "none", "actions", "edits"}
Answer == [outcome : Outcomes, document : Document \cup {Nil}]

\* The last textDocument/publishDiagnostics of a document.
Publication == [kind : {"none", "cleared", "diagnostics", "error"},
                document : Document \cup {Nil}]

VARIABLES
    status, ctxDone, inputOpen,                         \* Serve
    reading, readResults,                               \* the reader and its channel
    initialized, shutdown, watchingDynamicRegistration,
    watchingRegistered, pendingClientRequests,          \* is the registration unanswered
    documents, analyses,
    analysisGeneration, analysisCancel, analysisPending,
    running, analysisResults,                           \* workers and their channel
    pendingWorkspaceChanges,
    pendingAnalysisRequests, pendingCancellations,
    cycle, call,                  \* requests being served, the one in progress
    sent, budget,                 \* history: ids the client used, inputs left
    answers, asked, canceledIds,  \* history: responses, the document asked about,
                                  \* ids canceled while the server would still check
    published, notified, told     \* history: diagnostics on the client, file changes
                                  \* handled, file changes the backend was told of

serveVars == <<status, ctxDone, inputOpen>>
inputVars == <<reading, readResults, sent, budget>>
sessionVars == <<initialized, shutdown, watchingDynamicRegistration,
                 watchingRegistered, pendingClientRequests>>
documentVars == <<documents, analyses, published>>
analysisVars == <<analysisGeneration, analysisCancel, analysisPending, running,
                  analysisResults>>
fileVars == <<pendingWorkspaceChanges, notified, told>>
queueVars == <<pendingAnalysisRequests, pendingCancellations, answers>>
requestVars == <<cycle, call, asked, canceledIds>>
vars == <<serveVars, inputVars, sessionVars, documentVars, analysisVars, fileVars,
          queueVars, requestVars>>

ServeTypes ==
    /\ status \in {"running", "exited", "failed"}
    /\ ctxDone \in BOOLEAN
    /\ inputOpen \in BOOLEAN

InputTypes ==
    /\ reading \in BOOLEAN
    /\ readResults \in Seq(Message)
    /\ sent \subseteq Ids
    /\ budget \in [InputKinds -> Nat]

SessionTypes ==
    /\ initialized \in BOOLEAN
    /\ shutdown \in BOOLEAN
    /\ watchingDynamicRegistration \in BOOLEAN
    /\ watchingRegistered \in BOOLEAN
    /\ pendingClientRequests \in BOOLEAN

DocumentTypes ==
    /\ documents \in Documents
    /\ analyses \in [Uris -> Texts \cup {Nil}]
    /\ published \in [Uris -> Publication]

AnalysisTypes ==
    /\ analysisGeneration \in Nat
    /\ analysisCancel \in Nat
    /\ analysisPending \in Request \cup {Nil}
    /\ running \subseteq Worker
    /\ analysisResults \in Seq(Completion)

FileTypes ==
    /\ pendingWorkspaceChanges \in Changes
    /\ notified \in [Files -> Nat]
    /\ told \in [Files -> Nat]

QueueTypes ==
    /\ pendingAnalysisRequests \in Seq(Query)
    /\ pendingCancellations \subseteq Ids
    /\ answers \in [Ids -> Seq(Answer)]

RequestTypes ==
    /\ cycle \in Seq(Query)
    /\ call \in Call \cup {Nil}
    /\ asked \in [Ids -> Document \cup {Nil}]
    /\ canceledIds \subseteq Ids

TypeOK ==
    /\ ServeTypes
    /\ InputTypes
    /\ SessionTypes
    /\ DocumentTypes
    /\ AnalysisTypes
    /\ FileTypes
    /\ QueueTypes
    /\ RequestTypes

Init ==
    /\ status = "running"
    /\ ctxDone = FALSE
    /\ inputOpen = TRUE
    /\ reading = TRUE
    /\ readResults = <<>>
    /\ initialized = FALSE
    /\ shutdown = FALSE
    /\ watchingDynamicRegistration = FALSE
    /\ watchingRegistered = FALSE
    /\ pendingClientRequests = FALSE
    /\ documents = [u \in Uris |-> Nil]
    /\ analyses = [u \in Uris |-> Nil]
    /\ analysisGeneration = 0
    /\ analysisCancel = 0
    /\ analysisPending = Nil
    /\ running = {}
    /\ analysisResults = <<>>
    /\ pendingWorkspaceChanges = NoChanges
    /\ pendingAnalysisRequests = <<>>
    /\ pendingCancellations = {}
    /\ cycle = <<>>
    /\ call = Nil
    /\ sent = {}
    /\ budget \in Sessions
    /\ answers = [id \in Ids |-> <<>>]
    /\ asked = [id \in Ids |-> Nil]
    /\ canceledIds = {}
    /\ published = [u \in Uris |-> [kind |-> "none", document |-> Nil]]
    /\ notified = [f \in Files |-> 0]
    /\ told = [f \in Files |-> 0]

-----------------------------------------------------------------------------
(***************************************************************************)
(* The reader goroutine.  readResults holds the channel and, past its      *)
(* capacity, the one message the blocked reader has in hand.               *)
(***************************************************************************)
Spend(kind) ==
    /\ budget[kind] > 0
    /\ budget' = [budget EXCEPT ![kind] = @ - 1]

ReaderReady ==
    /\ status = "running"
    /\ reading
    /\ Len(readResults) <= ReadCapacity

\* The reader queues a message and stops after exit, the end of input or an error.
Read(message) ==
    /\ ReaderReady
    /\ Spend(message.kind)
    /\ IF message.kind \in RequestKinds
         THEN message.id \notin sent /\ sent' = sent \cup {message.id}
         ELSE UNCHANGED sent
    /\ readResults' = Append(readResults, message)
    /\ reading' = (message.kind \notin {"exit", "eof", "readError"})
    /\ UNCHANGED <<serveVars, sessionVars, documentVars, analysisVars, fileVars,
                   queueVars, requestVars>>

InFlight(id) == call # Nil /\ call.request.id = id

\* The backend is called for this request: its document is open and, for a code
\* action, analyzed.
Answerable ==
    /\ documents[call.request.uri] # Nil
    /\ call.request.kind = "codeAction" => analyses[call.request.uri] # Nil

\* The handler of the request will still look at its context: it has not begun, or a
\* check before or after the backend is to come.
CheckAhead(id) ==
    \/ ~InFlight(id)
    \/ call.phase \in {"begun", "backend"}
    \/ call.phase = "checked" /\ Answerable

\* History: a cancellation counts when the request is unanswered and still checked.
RecordCancellation(id) ==
    canceledIds' = IF answers[id] = <<>> /\ CheckAhead(id)
                     THEN canceledIds \cup {id} ELSE canceledIds

\* cancelRequest: cancel the request in progress, or remember the id.
ReadCancel(id) ==
    /\ ReaderReady
    /\ Spend("cancelRequest")
    /\ id \in sent
    /\ \/ /\ InFlight(id)
          /\ call' = [call EXCEPT !.canceled = TRUE]
          /\ RecordCancellation(id)
          /\ UNCHANGED <<pendingCancellations, readResults, reading>>
       \/ /\ ~InFlight(id)
          /\ Cardinality(pendingCancellations) < MaximumPendingCancellations
          /\ pendingCancellations' = pendingCancellations \cup {id}
          /\ RecordCancellation(id)
          /\ UNCHANGED <<call, readResults, reading>>
       \/ /\ ~InFlight(id)
          /\ Cardinality(pendingCancellations) >= MaximumPendingCancellations
          /\ readResults' = Append(readResults, [kind |-> "readError"])
          /\ reading' = FALSE
          /\ UNCHANGED <<call, pendingCancellations, canceledIds>>
    /\ UNCHANGED <<serveVars, sent, sessionVars, documentVars, analysisVars, fileVars,
                   pendingAnalysisRequests, answers, cycle, asked>>

-----------------------------------------------------------------------------
(***************************************************************************)
(* Pieces of the main loop.                                                *)
(***************************************************************************)

\* Mutant: the loop ends with the input, whatever still runs.
DrainedEarly == ~inputOpen

\* Input ended while an analysis ran, and that analysis is now complete.
Drained == ~inputOpen /\ analysisCancel = 0

\* The main loop is in its select statement.
Selecting ==
    /\ status = "running"
    /\ call = Nil
    /\ cycle = <<>>
    /\ ~Drained

\* The loop takes the next queued message.
Receive(kinds) ==
    /\ Selecting
    /\ inputOpen
    /\ readResults # <<>>
    /\ Head(readResults).kind \in kinds
    /\ readResults' = Tail(readResults)
    /\ UNCHANGED <<reading, sent, budget, ctxDone, inputOpen>>

Available == initialized /\ ~shutdown

Message1 == Head(readResults)

Answered(id, outcome, document) ==
    [answers EXCEPT ![id] = Append(@, [outcome |-> outcome, document |-> document])]

PendingIds == {pendingAnalysisRequests[i].id : i \in DOMAIN pendingAnalysisRequests}

\* rejectPendingAnalysisRequests: every queued code action is answered, as
\* canceled when its cancellation was remembered and as superseded otherwise.
RejectedAnswers ==
    [id \in Ids |->
        IF id \in PendingIds
          THEN Append(answers[id],
                      [outcome |-> IF id \in pendingCancellations
                                     THEN "canceled" ELSE "modified",
                       document |-> Nil])
          ELSE answers[id]]

\* Mutant: queued code actions survive an edit.
RejectNothing == UNCHANGED <<pendingAnalysisRequests, pendingCancellations, answers>>

RejectPending ==
    /\ pendingAnalysisRequests' = <<>>
    /\ pendingCancellations' = pendingCancellations \ PendingIds
    /\ answers' = RejectedAnswers

\* context.CancelFunc of the analysis started for a generation.
Cancel(generation) ==
    {IF w.generation = generation THEN [w EXCEPT !.canceled = TRUE] ELSE w : w \in running}

\* Mutant: the snapshot is taken before the edit.
RequestBeforeEdit(generation, snapshot, debounce) ==
    [generation |-> generation, documents |-> documents, debounce |-> debounce]

AnalysisRequest(generation, snapshot, debounce) ==
    [generation |-> generation, documents |-> snapshot, debounce |-> debounce]

StartedWorker(request) ==
    [generation |-> request.generation, documents |-> request.documents,
     debounce |-> request.debounce, phase |-> "waiting", canceled |-> FALSE,
     basis |-> told]

\* startAnalysis
Start(request) ==
    /\ analysisCancel' = request.generation
    /\ running' = running \cup {StartedWorker(request)}

NoAnalyses == [u \in Uris |-> Nil]

\* Mutant: a new analysis starts beside the one it cancels.
ScheduleAtOnce(snapshot, debounce, generation, active, pending) ==
    LET request == AnalysisRequest(generation + 1, snapshot, debounce) IN
    /\ RejectPending
    /\ analyses' = NoAnalyses
    /\ analysisGeneration' = generation + 1
    /\ analysisPending' = Nil
    /\ running' = Cancel(active) \cup {StartedWorker(request)}
    /\ analysisCancel' = generation + 1

\* Mutant: an open document keeps the analysis of its previous text.
ScheduleKeeping(snapshot, debounce, generation, active, pending) ==
    LET request == AnalysisRequest(generation + 1, snapshot, debounce) IN
    /\ RejectPending
    /\ analyses' = [u \in Uris |-> IF snapshot[u] = Nil THEN Nil ELSE analyses[u]]
    /\ analysisGeneration' = generation + 1
    /\ \/ /\ active # 0
          /\ analysisPending' = request
          /\ running' = Cancel(active)
          /\ analysisCancel' = active
       \/ /\ active = 0
          /\ analysisPending' = pending
          /\ Start(request)

\* scheduleAnalysis of the open documents.  generation, active and pending are
\* the server's fields when the handler calls it.
Schedule(snapshot, debounce, generation, active, pending) ==
    LET request == AnalysisRequest(generation + 1, snapshot, debounce) IN
    /\ RejectPending
    /\ analyses' = NoAnalyses
    /\ analysisGeneration' = generation + 1
    /\ \/ /\ active # 0
          /\ analysisPending' = request
          /\ running' = Cancel(active)
          /\ analysisCancel' = active
       \/ /\ active = 0
          /\ analysisPending' = pending
          /\ Start(request)

\* A handler returned an error, and Serve returns it.
Fail ==
    /\ status' = "failed"
    /\ UNCHANGED <<sessionVars, documentVars, analysisVars, fileVars, queueVars,
                   requestVars>>

\* The handler returned no error, and Serve goes on.
Continue == UNCHANGED status

-----------------------------------------------------------------------------
(***************************************************************************)
(* handle: one action per message.                                         *)
(***************************************************************************)

\* The client answers client/registerCapability, or something never asked.
HandleResponse ==
    /\ Receive({"response"})
    /\ IF pendingClientRequests
         THEN /\ pendingClientRequests' = FALSE
              /\ Continue
              /\ UNCHANGED <<initialized, shutdown, watchingDynamicRegistration,
                             watchingRegistered, documentVars, analysisVars, fileVars,
                             queueVars, requestVars>>
         ELSE Fail

HandleInitialize ==
    /\ Receive({"initialize"})
    /\ initialized' = TRUE
    /\ watchingDynamicRegistration' = Message1.dynamic
    /\ answers' = Answered(Message1.id, "initialized", Nil)
    /\ Continue
    /\ UNCHANGED <<shutdown, watchingRegistered, pendingClientRequests, documentVars,
                   analysisVars, fileVars, pendingAnalysisRequests,
                   pendingCancellations, requestVars>>

\* registerWorkspaceFileWatching: at most one registration per session.
HandleInitialized ==
    /\ Receive({"initialized"})
    /\ IF /\ FileBackend
          /\ watchingDynamicRegistration
          /\ ~watchingRegistered
          /\ ~pendingClientRequests
         THEN watchingRegistered' = TRUE /\ pendingClientRequests' = TRUE
         ELSE UNCHANGED <<watchingRegistered, pendingClientRequests>>
    /\ Continue
    /\ UNCHANGED <<initialized, shutdown, watchingDynamicRegistration, documentVars,
                   analysisVars, fileVars, queueVars, requestVars>>

\* The first shutdown abandons the running and the pending analysis; analysisCancel
\* becomes nil although the worker may still run.
HandleShutdown ==
    /\ Receive({"shutdown"})
    /\ ~shutdown
    /\ shutdown' = TRUE
    /\ pendingAnalysisRequests' = <<>>
    /\ pendingCancellations' = pendingCancellations \ PendingIds
    /\ answers' = [RejectedAnswers EXCEPT ![Message1.id] =
                      Append(@, [outcome |-> "shutdown", document |-> Nil])]
    /\ analysisGeneration' = analysisGeneration + 1
    /\ analysisPending' = Nil
    /\ pendingWorkspaceChanges' = NoChanges
    /\ running' = Cancel(analysisCancel)
    /\ analysisCancel' = 0
    /\ Continue
    /\ UNCHANGED <<initialized, watchingDynamicRegistration, watchingRegistered,
                   pendingClientRequests, documentVars, analysisResults, notified, told,
                   requestVars>>

\* A second shutdown, and any request before initialize or after shutdown, is
\* refused; notifications are dropped.
HandleUnavailable ==
    /\ Receive(AvailableKinds \cup {"shutdown"})
    /\ IF Message1.kind = "shutdown" THEN shutdown ELSE ~Available
    /\ answers' = IF Message1.kind \in RequestKinds
                    THEN Answered(Message1.id, "unavailable", Nil)
                    ELSE answers
    /\ Continue
    /\ UNCHANGED <<sessionVars, documentVars, analysisVars, fileVars,
                   pendingAnalysisRequests, pendingCancellations, requestVars>>

\* exit: cancelDocumentAnalysis, then Serve returns.
HandleExit ==
    /\ Receive({"exit"})
    /\ status' = "exited"
    /\ analysisGeneration' = analysisGeneration + 1
    /\ analysisPending' = Nil
    /\ running' = Cancel(analysisCancel)
    /\ UNCHANGED <<sessionVars, documentVars, analysisCancel, analysisResults, fileVars,
                   queueVars, requestVars>>

HandleDidOpen ==
    LET snapshot == [documents EXCEPT ![Message1.uri] =
                        [version |-> Message1.version, text |-> Message1.text]] IN
    /\ Receive({"didOpen"})
    /\ Available
    /\ documents' = snapshot
    /\ Schedule(snapshot, FALSE, analysisGeneration, analysisCancel, analysisPending)
    /\ Continue
    /\ UNCHANGED <<sessionVars, published, analysisResults, fileVars, requestVars>>

\* A change of a document that is not open, or to a version that is not newer,
\* ends the session.
HandleDidChange ==
    LET current == documents[Message1.uri]
        snapshot == [documents EXCEPT ![Message1.uri] =
                        [version |-> Message1.version, text |-> Message1.text]] IN
    /\ Receive({"didChange"})
    /\ Available
    /\ IF current = Nil \/ (current # Nil /\ Message1.version <= current.version)
         THEN Fail
         ELSE /\ documents' = snapshot
              /\ Schedule(snapshot, TRUE, analysisGeneration, analysisCancel,
                          analysisPending)
              /\ Continue
              /\ UNCHANGED <<sessionVars, published, analysisResults, fileVars,
                             requestVars>>

\* The last close only cancels; otherwise the remaining documents are scheduled.
HandleDidClose ==
    LET snapshot == [documents EXCEPT ![Message1.uri] = Nil] IN
    /\ Receive({"didClose"})
    /\ Available
    /\ documents' = snapshot
    /\ published' = [published EXCEPT ![Message1.uri] =
                        [kind |-> "cleared", document |-> Nil]]
    /\ IF \E u \in Uris : snapshot[u] # Nil
         THEN Schedule(snapshot, FALSE, analysisGeneration + 1, analysisCancel, Nil)
         ELSE /\ RejectPending
              /\ analyses' = [analyses EXCEPT ![Message1.uri] = Nil]
              /\ analysisGeneration' = analysisGeneration + 1
              /\ analysisPending' = Nil
              /\ running' = Cancel(analysisCancel)
              /\ UNCHANGED analysisCancel
    /\ Continue
    /\ UNCHANGED <<sessionVars, analysisResults, fileVars, requestVars>>

WatchedFileChanges(list) ==
    IF Len(list) > MaximumWatchedFileChanges
      THEN [paths |-> {}, all |-> TRUE]
      ELSE [paths |-> {list[i] : i \in DOMAIN list}, all |-> FALSE]

\* queueWorkspaceChanges
QueuedChanges(changes) ==
    LET paths == pendingWorkspaceChanges.paths \cup changes.paths IN
    IF \/ pendingWorkspaceChanges.all
       \/ changes.all
       \/ Cardinality(paths) > MaximumWatchedFileChanges
      THEN [paths |-> {}, all |-> TRUE]
      ELSE [paths |-> paths, all |-> FALSE]

\* Mutant: only listed paths count as queued changes.
EmptyPaths(changes) == changes.paths = {}

Empty(changes) == ~changes.all /\ changes.paths = {}

Covers(changes, f) == changes.all \/ f \in changes.paths

\* WorkspaceFilesChanged: the backend learns of every change handled so far of the
\* files it is given.
Told(changes, counts) ==
    [f \in Files |-> IF Covers(changes, f) THEN counts[f] ELSE told[f]]

\* History: the changes of each file handled after this notification.
Notified(list) ==
    [f \in Files |->
        IF \E i \in DOMAIN list : list[i] = f THEN notified[f] + 1 ELSE notified[f]]

\* File changes are ignored, queued behind the running analysis, or given to
\* the backend at once and followed by a debounced analysis.
HandleWatchedFiles ==
    LET changes == WatchedFileChanges(Message1.changes) IN
    /\ Receive({"didChangeWatchedFiles"})
    /\ Available
    /\ \/ /\ ~FileBackend \/ Empty(changes)
          /\ Continue
          /\ UNCHANGED <<documentVars, analysisVars, fileVars, queueVars>>
       \/ /\ FileBackend /\ ~Empty(changes)
          /\ analysisCancel # 0
          /\ notified' = Notified(Message1.changes)
          /\ RejectPending
          /\ analysisGeneration' = analysisGeneration + 1
          /\ analysisPending' = Nil
          /\ running' = Cancel(analysisCancel)
          /\ analyses' = NoAnalyses
          /\ pendingWorkspaceChanges' = QueuedChanges(changes)
          /\ Continue
          /\ UNCHANGED <<documents, published, analysisCancel, analysisResults, told>>
       \/ /\ FileBackend /\ ~Empty(changes)
          /\ analysisCancel = 0
          /\ notified' = Notified(Message1.changes)
          /\ told' = Told(changes, Notified(Message1.changes))
          /\ IF \E u \in Uris : documents[u] # Nil
               THEN Schedule(documents, TRUE, analysisGeneration + 1, 0, Nil)
               ELSE /\ RejectPending
                    /\ analysisGeneration' = analysisGeneration + 1
                    /\ analysisPending' = Nil
                    /\ analyses' = NoAnalyses
                    /\ UNCHANGED <<analysisCancel, running>>
          /\ Continue
          /\ UNCHANGED <<documents, published, analysisResults, pendingWorkspaceChanges>>
    /\ UNCHANGED <<sessionVars, requestVars>>

\* WorkspaceFilesChanged returns an error.
HandleWatchedFilesFails ==
    /\ Receive({"didChangeWatchedFiles"})
    /\ Available
    /\ FileBackend
    /\ ~Empty(WatchedFileChanges(Message1.changes))
    /\ analysisCancel = 0
    /\ Fail

\* Mutant: a remembered cancellation is dropped.
BeginUncanceled(request) ==
    /\ call' = [request |-> request, phase |-> "begun", canceled |-> FALSE]
    /\ pendingCancellations' = pendingCancellations \ {request.id}

\* beginRequest: registers the request; a remembered cancellation is consumed.
Begin(request) ==
    /\ call' = [request |-> request, phase |-> "begun",
                canceled |-> request.id \in pendingCancellations]
    /\ pendingCancellations' = pendingCancellations \ {request.id}

\* A code action waits for the running analysis, within a bound.
HandleCodeAction ==
    /\ Receive({"codeAction"})
    /\ Available
    /\ asked' = [asked EXCEPT ![Message1.id] = documents[Message1.uri]]
    /\ \/ /\ analysisCancel # 0
          /\ Len(pendingAnalysisRequests) >= MaximumPendingAnalysisRequests
          /\ answers' = Answered(Message1.id, "tooMany", Nil)
          /\ UNCHANGED <<pendingAnalysisRequests, pendingCancellations, call>>
       \/ /\ analysisCancel # 0
          /\ Len(pendingAnalysisRequests) < MaximumPendingAnalysisRequests
          /\ pendingAnalysisRequests' = Append(pendingAnalysisRequests, Message1)
          /\ UNCHANGED <<answers, pendingCancellations, call>>
       \/ /\ analysisCancel = 0
          /\ Begin(Message1)
          /\ UNCHANGED <<answers, pendingAnalysisRequests>>
    /\ Continue
    /\ UNCHANGED <<sessionVars, documentVars, analysisVars, fileVars, cycle, canceledIds>>

\* Formatting never waits for analysis.
HandleFormatting ==
    /\ Receive({"formatting"})
    /\ Available
    /\ asked' = [asked EXCEPT ![Message1.id] = documents[Message1.uri]]
    /\ Begin(Message1)
    /\ Continue
    /\ UNCHANGED <<sessionVars, documentVars, analysisVars, fileVars, answers,
                   pendingAnalysisRequests, cycle, canceledIds>>

\* Any other method: an error to a request, nothing to a notification.
HandleUnknown ==
    /\ Receive({"unknown", "notification"})
    /\ Available
    /\ answers' = IF Message1.kind = "unknown"
                    THEN Answered(Message1.id, "methodNotFound", Nil)
                    ELSE answers
    /\ Continue
    /\ UNCHANGED <<sessionVars, documentVars, analysisVars, fileVars,
                   pendingAnalysisRequests, pendingCancellations, requestVars>>

\* A message that is not JSON-RPC 2.0, a lifecycle request without an id, parameters
\* that do not decode and read errors end the session.
HandleInvalid ==
    /\ Receive({"malformed", "badParams", "readError"})
    /\ Message1.kind = "badParams" => Available
    /\ Fail

\* The end of input ends the session, after the running analysis if there is one.
HandleEndOfInput ==
    /\ Selecting
    /\ inputOpen
    /\ readResults # <<>>
    /\ Message1.kind = "eof"
    /\ IF analysisCancel # 0
         THEN inputOpen' = FALSE /\ UNCHANGED status
         ELSE status' = "exited" /\ UNCHANGED inputOpen
    /\ readResults' = Tail(readResults)
    /\ UNCHANGED <<reading, sent, budget, ctxDone, sessionVars, documentVars,
                   analysisVars, fileVars, queueVars, requestVars>>

-----------------------------------------------------------------------------
(***************************************************************************)
(* completeAnalysis.                                                       *)
(***************************************************************************)
Completed == Head(analysisResults)

\* The loop takes a result; the context of that analysis is released.
Complete ==
    /\ Selecting
    /\ analysisResults # <<>>
    /\ analysisResults' = Tail(analysisResults)
    /\ UNCHANGED <<ctxDone, inputOpen, inputVars, sessionVars, documents, notified, asked,
                   canceledIds, call>>

\* Mutant: the served code actions stay queued.
FinishCycleKeeping ==
    /\ cycle' = pendingAnalysisRequests
    /\ UNCHANGED <<pendingAnalysisRequests, answers, pendingCancellations>>

\* Mutant: the queued code actions are dropped.
FinishCycleDropping ==
    /\ cycle' = <<>>
    /\ pendingAnalysisRequests' = <<>>
    /\ UNCHANGED <<answers, pendingCancellations>>

\* finishAnalysisCycle: the queued code actions are served one by one.
FinishCycle ==
    /\ cycle' = pendingAnalysisRequests
    /\ pendingAnalysisRequests' = <<>>
    /\ UNCHANGED <<answers, pendingCancellations>>

Superseded(completion) == completion.generation # analysisGeneration

\* Queued file changes reach the backend now, before any other analysis starts.
CompleteWithFileChanges ==
    /\ Complete
    /\ ~Empty(pendingWorkspaceChanges)
    /\ pendingWorkspaceChanges' = NoChanges
    /\ \/ /\ FileBackend
          /\ told' = Told(pendingWorkspaceChanges, notified)
          /\ IF ~shutdown /\ \E u \in Uris : documents[u] # Nil
               THEN /\ Schedule(documents, TRUE, analysisGeneration, 0, Nil)
                    /\ UNCHANGED cycle
               ELSE /\ analysisPending' = Nil
                    /\ analysisCancel' = 0
                    /\ IF shutdown THEN UNCHANGED <<cycle, queueVars>> ELSE FinishCycle
                    /\ UNCHANGED <<analyses, analysisGeneration, running>>
          /\ Continue
       \/ \* an error of the backend, or a backend without file changes
          /\ status' = "failed"
          /\ analysisCancel' = 0
          /\ UNCHANGED <<told, analyses, analysisGeneration, analysisPending, running,
                         cycle, queueVars>>
    /\ UNCHANGED published

\* The result of an older snapshot is dropped; the newest pending one starts.
CompleteSuperseded ==
    /\ Complete
    /\ Empty(pendingWorkspaceChanges)
    /\ Superseded(Completed)
    /\ IF analysisPending # Nil
         THEN /\ Start(analysisPending)
              /\ analysisPending' = Nil
              /\ UNCHANGED <<cycle, queueVars>>
         ELSE /\ analysisCancel' = 0
              /\ FinishCycle
              /\ UNCHANGED <<running, analysisPending>>
    /\ Continue
    /\ UNCHANGED <<analyses, published, analysisGeneration, pendingWorkspaceChanges, told>>

\* The current analysis observed the end of the session's context.
CompleteCanceled ==
    /\ Complete
    /\ Empty(pendingWorkspaceChanges)
    /\ ~Superseded(Completed)
    /\ Completed.outcome = "canceled"
    /\ analysisCancel' = 0
    /\ FinishCycle
    /\ Continue
    /\ UNCHANGED <<analyses, published, analysisGeneration, analysisPending, running,
                   pendingWorkspaceChanges, told>>

\* analysisSnapshotCurrent
SnapshotCurrent(snapshot) == snapshot = documents

\* An analysis that failed as a whole, results that do not match the snapshot,
\* and a context that ended before publication all end the session.
CompleteFailed ==
    /\ Complete
    /\ Empty(pendingWorkspaceChanges)
    /\ ~Superseded(Completed)
    /\ \/ Completed.outcome = "failed"
       \/ Completed.outcome = "invalid" /\ SnapshotCurrent(Completed.documents)
       \/ /\ Completed.outcome = "results"
          /\ SnapshotCurrent(Completed.documents)
          /\ ctxDone
    /\ status' = "failed"
    /\ analysisCancel' = 0
    /\ UNCHANGED <<analyses, published, analysisGeneration, analysisPending, running,
                   pendingWorkspaceChanges, told, cycle, queueVars>>

\* Mutant: the document is kept where its text belongs.
PublishedDocuments(completion) ==
    [u \in Uris |->
        IF completion.documents[u] = Nil THEN analyses[u]
        ELSE IF u \in completion.errors THEN Nil
        ELSE completion.documents[u]]

\* Mutant: a document whose analysis failed is skipped.
PublishedWithoutErrors(completion) ==
    [u \in Uris |->
        IF completion.documents[u] = Nil \/ u \in completion.errors THEN published[u]
        ELSE [kind |-> "diagnostics", document |-> completion.documents[u]]]

\* Mutant: a document whose analysis failed is cleared.
ClearedOnError(completion) ==
    [u \in Uris |->
        IF completion.documents[u] = Nil THEN published[u]
        ELSE IF u \in completion.errors THEN [kind |-> "cleared", document |-> Nil]
        ELSE [kind |-> "diagnostics", document |-> completion.documents[u]]]

\* publishAnalysis and publishError of every document of the snapshot.
PublishedAnalyses(completion) ==
    [u \in Uris |->
        IF completion.documents[u] = Nil THEN analyses[u]
        ELSE IF u \in completion.errors THEN Nil
        ELSE completion.documents[u].text]

PublishedDiagnostics(completion) ==
    [u \in Uris |->
        IF completion.documents[u] = Nil THEN published[u]
        ELSE [kind |-> IF u \in completion.errors THEN "error" ELSE "diagnostics",
              document |-> completion.documents[u]]]

\* A current result is published, and the waiting code actions are served; a
\* result for other documents than the open ones would be dropped.
CompleteCurrent ==
    /\ Complete
    /\ Empty(pendingWorkspaceChanges)
    /\ ~Superseded(Completed)
    /\ Completed.outcome \in {"results", "invalid"}
    /\ IF SnapshotCurrent(Completed.documents)
         THEN /\ Completed.outcome = "results"
              /\ ~ctxDone
              /\ analyses' = PublishedAnalyses(Completed)
              /\ published' = PublishedDiagnostics(Completed)
              /\ FinishCycle
         ELSE /\ RejectPending
              /\ cycle' = <<>>
              /\ UNCHANGED <<analyses, published>>
    /\ analysisCancel' = 0
    /\ Continue
    /\ UNCHANGED <<analysisGeneration, analysisPending, running,
                   pendingWorkspaceChanges, told>>

-----------------------------------------------------------------------------
(***************************************************************************)
(* handleCodeAction and handleFormatting.                                  *)
(***************************************************************************)
Responding(outcome, document) ==
    /\ answers' = Answered(call.request.id, outcome, document)
    /\ call' = [call EXCEPT !.phase = "answered"]
    /\ Continue

RequestCanceled == call.canceled \/ ctxDone

\* finishAnalysisCycle turns to the next waiting code action.
ServeNext ==
    /\ status = "running"
    /\ call = Nil
    /\ cycle # <<>>
    /\ Begin(Head(cycle))
    /\ cycle' = Tail(cycle)
    /\ UNCHANGED <<serveVars, inputVars, sessionVars, documentVars, analysisVars, fileVars,
                   pendingAnalysisRequests, answers, asked, canceledIds>>

ServeStep ==
    UNCHANGED <<ctxDone, inputOpen, inputVars, sessionVars, documentVars, analysisVars,
                fileVars, pendingAnalysisRequests, pendingCancellations, cycle, asked,
                canceledIds>>

\* The handler looks at the request's context before anything else.
CheckRequest ==
    /\ status = "running"
    /\ call # Nil
    /\ call.phase = "begun"
    /\ \/ /\ RequestCanceled
          /\ Responding("canceled", Nil)
       \/ /\ ~RequestCanceled
          /\ call' = [call EXCEPT !.phase = "checked"]
          /\ Continue
          /\ UNCHANGED answers
    /\ ServeStep

\* The backend is called, or the request is answered without it.  Until the answer
\* the reader accepts cancellations, which this step does not see.
CallBackend ==
    /\ status = "running"
    /\ call # Nil
    /\ call.phase = "checked"
    /\ \/ \* parameters or a range that are not valid
          Responding("invalid", Nil)
       \/ /\ documents[call.request.uri] = Nil
          /\ Responding("invalid", Nil)
       \/ /\ documents[call.request.uri] # Nil
          /\ ~Answerable
          /\ Responding("none", Nil)
       \/ /\ Answerable
          /\ call' = [call EXCEPT !.phase = "backend"]
          /\ Continue
          /\ UNCHANGED answers
    /\ ServeStep

\* Mutant: the context is not looked at again after the backend.
BackendReturnsUnchecked ==
    /\ status = "running"
    /\ call # Nil
    /\ call.phase = "backend"
    /\ \/ /\ ctxDone
          /\ status' = "failed"
          /\ UNCHANGED <<answers, call>>
       \/ /\ ~ctxDone
          /\ call' = [call EXCEPT !.phase = "returned"]
          /\ Continue
          /\ UNCHANGED answers
    /\ ServeStep

\* CodeActions or Format returned, and the contexts are looked at again.
BackendReturns ==
    /\ status = "running"
    /\ call # Nil
    /\ call.phase = "backend"
    /\ \/ /\ ctxDone
          /\ status' = "failed"
          /\ UNCHANGED <<answers, call>>
       \/ /\ ~ctxDone /\ call.canceled
          /\ Responding("canceled", Nil)
       \/ /\ ~ctxDone /\ ~call.canceled
          /\ call' = [call EXCEPT !.phase = "returned"]
          /\ Continue
          /\ UNCHANGED answers
    /\ ServeStep

\* The converted result is sent, whatever the reader accepted since the check.
Respond ==
    /\ status = "running"
    /\ call # Nil
    /\ call.phase = "returned"
    /\ LET uri == call.request.uri IN
       \/ \* an error, or an action that cannot be converted
          Responding("internal", Nil)
       \/ /\ call.request.kind = "codeAction"
          /\ Responding("actions", [version |-> documents[uri].version,
                                    text |-> analyses[uri]])
       \/ /\ call.request.kind = "formatting"
          /\ Responding("edits", documents[uri])
    /\ ServeStep

\* The deferred finishRequest: from here a cancellation is remembered again.
FinishRequest ==
    /\ status = "running"
    /\ call # Nil
    /\ call.phase = "answered"
    /\ call' = Nil
    /\ UNCHANGED <<serveVars, inputVars, sessionVars, documentVars, analysisVars, fileVars,
                   queueVars, cycle, asked, canceledIds>>

-----------------------------------------------------------------------------
(***************************************************************************)
(* The end of Serve.                                                       *)
(***************************************************************************)
ReturnAfterDrain ==
    /\ status = "running"
    /\ call = Nil
    /\ cycle = <<>>
    /\ Drained
    /\ status' = "exited"
    /\ UNCHANGED <<ctxDone, inputOpen, inputVars, sessionVars, documentVars, analysisVars,
                   fileVars, queueVars, requestVars>>

ReturnContextError ==
    /\ Selecting
    /\ ctxDone
    /\ Fail
    /\ UNCHANGED <<ctxDone, inputOpen, inputVars>>

\* The caller ends the session's context.
EndContext ==
    /\ status = "running"
    /\ ~ctxDone
    /\ Spend("endContext")
    /\ ctxDone' = TRUE
    /\ UNCHANGED <<status, inputOpen, reading, readResults, sent, sessionVars,
                   documentVars, analysisVars, fileVars, queueVars, requestVars>>

\* A response or a notification cannot be written.
OutputFails ==
    /\ status = "running"
    /\ \/ call # Nil /\ call.phase # "answered"
       \/ call = Nil /\ inputOpen /\ readResults # <<>>
       \/ call = Nil /\ analysisResults # <<>>
    /\ Spend("outputError")
    /\ Fail
    /\ UNCHANGED <<ctxDone, inputOpen, reading, readResults, sent>>

-----------------------------------------------------------------------------
(***************************************************************************)
(* runAnalysis.  A worker's context ends with analysisCancel or with the   *)
(* session.                                                                *)
(***************************************************************************)
ContextEnded(w) == w.canceled \/ ctxDone

WorkerStep ==
    UNCHANGED <<serveVars, reading, readResults, sent, sessionVars, documentVars,
                analysisGeneration, analysisCancel, analysisPending, fileVars, queueVars, requestVars>>

\* The debounce timer fires, or there is none, and the backend is called.
WorkerBegin(w) ==
    /\ status = "running"
    /\ w.phase = "waiting"
    /\ running' = (running \ {w})
                    \cup {[w EXCEPT !.phase = "analyzing", !.basis = told]}
    /\ UNCHANGED <<analysisResults, budget>>
    /\ WorkerStep

Post(w, outcome, errors) ==
    /\ Len(analysisResults) < ResultCapacity
    /\ analysisResults' = Append(analysisResults,
          [generation |-> w.generation, documents |-> w.documents, basis |-> w.basis,
           outcome |-> outcome, errors |-> errors])
    /\ running' = running \ {w}

\* The context ends during the debounce.
WorkerAbandon(w) ==
    /\ status = "running"
    /\ w.phase = "waiting"
    /\ w.debounce
    /\ ContextEnded(w)
    /\ Post(w, "canceled", {})
    /\ UNCHANGED budget
    /\ WorkerStep

\* The backend returns, and its result is posted.  A backend that ignores the end
\* of its context may still return results.
WorkerFinish(w) ==
    /\ status = "running"
    /\ w.phase = "analyzing"
    /\ \/ /\ \E errors \in SUBSET {u \in Uris : w.documents[u] # Nil} :
                Post(w, "results", errors)
          /\ UNCHANGED budget
       \/ /\ ContextEnded(w)
          /\ Post(w, "canceled", {})
          /\ UNCHANGED budget
       \/ /\ Spend("analysisError")
          /\ \E outcome \in {"failed", "invalid"} : Post(w, outcome, {})
    /\ WorkerStep

\* The session's context ended, and the result is not posted.
WorkerDrop(w) ==
    /\ status = "running"
    /\ ctxDone
    /\ w.phase = "analyzing" \/ w.debounce
    /\ running' = running \ {w}
    /\ UNCHANGED <<analysisResults, budget>>
    /\ WorkerStep

-----------------------------------------------------------------------------
Reader == (\E m \in Message : Read(m)) \/ (\E id \in Ids : ReadCancel(id))

Handle ==
    \/ HandleResponse
    \/ HandleInitialize
    \/ HandleInitialized
    \/ HandleShutdown
    \/ HandleUnavailable
    \/ HandleExit
    \/ HandleDidOpen
    \/ HandleDidChange
    \/ HandleDidClose
    \/ HandleWatchedFiles
    \/ HandleWatchedFilesFails
    \/ HandleCodeAction
    \/ HandleFormatting
    \/ HandleUnknown
    \/ HandleInvalid
    \/ HandleEndOfInput

CompleteAnalysis ==
    \/ CompleteWithFileChanges
    \/ CompleteSuperseded
    \/ CompleteCanceled
    \/ CompleteFailed
    \/ CompleteCurrent

Serving ==
    ServeNext \/ CheckRequest \/ CallBackend \/ BackendReturns \/ Respond \/ FinishRequest

MainLoop == Handle \/ CompleteAnalysis \/ Serving \/ ReturnAfterDrain \/ ReturnContextError

RunAnalysis ==
    \E w \in running : WorkerBegin(w) \/ WorkerAbandon(w) \/ WorkerFinish(w) \/ WorkerDrop(w)

Next == Reader \/ MainLoop \/ RunAnalysis \/ EndContext \/ OutputFails

Spec == Init /\ [][Next]_vars

\* The main loop and the analysis goroutines are scheduled, and every backend call
\* returns; nothing is assumed of the client.
FairSpec == Spec /\ WF_vars(MainLoop) /\ WF_vars(RunAnalysis)

-----------------------------------------------------------------------------
(***************************************************************************)
(* Properties.                                                             *)
(***************************************************************************)

\* A kept analysis is of the open document's present text: code actions never act
\* on an older one, whatever was opened, changed or closed since (server.analyses).
AnalysesCurrent ==
    \A u \in Uris : analyses[u] # Nil =>
        documents[u] # Nil /\ analyses[u] = documents[u].text

\* Supersession never runs two analyses at once: at most one worker exists or one
\* result waits, and none does when analysisCancel is nil before shutdown.
SingleAnalysis ==
    /\ Cardinality(running) + Len(analysisResults) <= 1
    /\ analysisCancel = 0 /\ ~shutdown => running = {} /\ analysisResults = <<>>

\* A file change that was handled and not yet given to the backend is still queued,
\* behind an analysis whose completion will deliver it (queueWorkspaceChanges,
\* completeAnalysis); only the end of the session and shutdown drop it.
NoChangeLost ==
    status = "running" /\ ~shutdown =>
        \A f \in Files : told[f] # notified[f] =>
            Covers(pendingWorkspaceChanges, f) /\ analysisCancel # 0

WorkerNewest(w) ==
    /\ w.generation <= analysisGeneration
    /\ w.generation = analysisGeneration =>
         /\ w.documents = documents
         /\ told = notified
         /\ w.phase = "analyzing" => w.basis = notified

ResultNewest(c) ==
    /\ c.generation <= analysisGeneration
    /\ c.generation = analysisGeneration =>
         /\ c.documents = documents
         /\ c.outcome = "results" => c.basis = notified

PendingNewest ==
    analysisPending # Nil =>
        /\ ~shutdown
        /\ analysisPending.generation <= analysisGeneration
        /\ analysisPending.generation = analysisGeneration =>
             analysisPending.documents = documents

\* Work for the newest generation is about the documents that are open now, and
\* about files the backend knows: completeAnalysis compares generations before it
\* publishes, so every change of documents or files must start a new generation.
NewestAnalysis ==
    status = "running" =>
        /\ \A w \in running : WorkerNewest(w)
        /\ \A i \in DOMAIN analysisResults : ResultNewest(analysisResults[i])
        /\ PendingNewest

PublicationsCurrent ==
    \A u \in Uris : published'[u] # published[u] =>
        IF published'[u].kind = "cleared" THEN documents'[u] = Nil
        ELSE /\ published'[u].document = documents'[u]
             /\ Head(analysisResults).basis = notified

\* The server only publishes what is true of the open documents: a cleared document
\* is closed; diagnostics are of its present version and text, computed after the
\* backend was told of every file change handled so far (publishAnalysis).
PublishCurrent == [][PublicationsCurrent]_vars

\* While no analysis is active, before shutdown and before the context ends, the
\* client shows the diagnostics, or the error, of every open document as it is now,
\* and nothing for a closed one; the analysis is kept unless it failed.
Settled ==
    status = "running" /\ analysisCancel = 0 /\ ~shutdown /\ ~ctxDone =>
        \A u \in Uris :
            /\ published[u].document = documents[u]
            /\ analyses[u] = Nil <=> published[u].kind # "diagnostics"

IdsIn(requests) == {requests[i].id : i \in {j \in DOMAIN requests :
                                              requests[j].kind \in RequestKinds}}

\* The places where an unanswered request can wait.
Waiting(id) ==
    <<id \in IdsIn(readResults), id \in IdsIn(pendingAnalysisRequests), id \in IdsIn(cycle),
      InFlight(id) /\ call.phase # "answered">>

\* Every request the client sent is answered at most once, and while the server
\* runs an unanswered one waits in exactly one place and an answered one in none:
\* no handler drops a request or serves it twice.
NoRequestLost ==
    \A id \in Ids :
        /\ Len(answers[id]) <= 1
        /\ status = "running" =>
             Cardinality({i \in 1..4 : Waiting(id)[i]})
                = IF id \in sent /\ answers[id] = <<>> THEN 1 ELSE 0

\* Code actions and formatting edits are for the very document, version and text,
\* that was open when the server took the request, however long it was queued.
ActionsMatchRequest ==
    \A id \in Ids : \A i \in DOMAIN answers[id] :
        answers[id][i].outcome \in {"actions", "edits"} =>
            answers[id][i].document = asked[id]

\* A request whose cancellation was accepted while its handler would still look at
\* its context never gets a successful answer, wherever it was: unread, queued behind
\* the analysis, begun, or in the backend (cancelRequest, beginRequest,
\* rejectPendingAnalysisRequests).  After the last look the code sends its result.
CancellationHonored ==
    \A id \in canceledIds : \A i \in DOMAIN answers[id] :
        answers[id][i].outcome \notin {"none", "actions", "edits"}

\* When the input ends without exit, Serve returns only after every request it
\* read was answered.
EndOfInputAnswersAll ==
    [][status' = "exited" /\ Head(readResults \o <<[kind |-> "eof"]>>).kind # "exit" =>
         \A id \in sent : answers'[id] # <<>>]_vars

\* Every request is eventually answered, unless the session ends first.
RequestsAnswered ==
    \A id \in Ids : id \in sent ~> answers[id] # <<>> \/ status # "running"

\* In a session that goes on, the client's diagnostics eventually are those of the
\* open documents for good once edits stop.
DiagnosticsConverge ==
    <>[](\/ status # "running"
         \/ shutdown
         \/ \A u \in Uris : published[u].document = documents[u])

\* Canceling a request that waits does not end the session, as long as no more
\* requests wait than cancellations may be remembered (cancelRequest).
CancelKeepsSession ==
    [][\A id \in sent :
          /\ answers[id] = <<>>
          /\ Cardinality({r \in sent : answers[r] = <<>>}) <= MaximumPendingCancellations
          /\ ReadCancel(id)
          => reading']_vars
=============================================================================
